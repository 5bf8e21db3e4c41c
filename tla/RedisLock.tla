------------------------------- MODULE RedisLock -------------------------------
(***************************************************************************)
(* RedisDistributedLockManager on one resource key.  A caller is one       *)
(* running acquire/validate/release conversation; several callers may      *)
(* carry the same agent_id.  Every Redis command is a step of its own, so  *)
(* the commands of different callers interleave.  WATCH/EXEC is optimistic *)
(* concurrency: EXEC fails when the watched key was touched since WATCH,   *)
(* which Redis 7 (docker-compose.deps.yml) also does for an expiry.        *)
(* Audit rows are written best effort and never change the lock; they are  *)
(* left out.                                                               *)
(***************************************************************************)
EXTENDS Naturals

CONSTANTS
    Callers,      \* concurrent conversations with the lock manager
    Agents, Priorities, NoLock,
    AgentOf,      \* the agent_id a caller passes
    PriorityOf,   \* the priority_level a caller passes
    MaxToken      \* bound: the largest value the token counter reaches

LockRecord == [agent : Agents, priority : Priorities, token : Nat \ {0}]

ASSUME RedisLockAssumption ==
    /\ Priorities \subseteq Nat
    /\ NoLock \notin LockRecord
    /\ AgentOf \in [Callers -> Agents]
    /\ PriorityOf \in [Callers -> Priorities]
    /\ MaxToken \in Nat

VARIABLES
    lock,      \* the hash under the lock key, or NoLock
    leased,    \* the lock key carries a TTL
    counter,   \* the integer under the token key
    newest,    \* history: the largest token of any record installed so far
    pc,        \* the next Redis command of each caller
    clean,     \* no write or expiry has touched the key since the caller's WATCH
    seen,      \* what the caller's last HGETALL returned
    drawn,     \* the token the caller's last INCR returned
    granted    \* the fencing_token of the LockResult the caller holds, 0 if none

lockVars == <<lock, leased, counter, newest>>
callerVars == <<pc, clean, seen, drawn, granted>>
vars == <<lock, leased, counter, newest, pc, clean, seen, drawn, granted>>

Commands == {"idle", "hgetall", "incr", "exec", "held", "delete", "pttl", "valid"}

TypeOK ==
    /\ lock \in LockRecord \cup {NoLock}
    /\ leased \in BOOLEAN
    /\ counter \in Nat
    /\ newest \in Nat
    /\ pc \in [Callers -> Commands]
    /\ clean \in [Callers -> BOOLEAN]
    /\ seen \in [Callers -> LockRecord \cup {NoLock}]
    /\ drawn \in [Callers -> Nat]
    /\ granted \in [Callers -> Nat]

Init ==
    /\ lock = NoLock
    /\ leased = FALSE
    /\ counter = 0
    /\ newest = 0
    /\ pc = [c \in Callers |-> "idle"]
    /\ clean = [c \in Callers |-> FALSE]
    /\ seen = [c \in Callers |-> NoLock]
    /\ drawn = [c \in Callers |-> 0]
    /\ granted = [c \in Callers |-> 0]

Goto(c, command) == pc' = [pc EXCEPT ![c] = command]

\* Every write to the lock key dirties every WATCH that is open on it.
TouchKey == clean' = [d \in Callers |-> FALSE]

-------------------------------------------------------------------------------
(* acquire_lock *)

Watch(c) ==
    /\ pc[c] = "idle"
    /\ clean' = [clean EXCEPT ![c] = TRUE]
    /\ Goto(c, "hgetall")
    /\ UNCHANGED <<lock, leased, counter, newest, seen, drawn, granted>>

\* Mutant: a holder of equal priority is preempted as well.
MayInstallOverEqual(c, record) == record # NoLock => PriorityOf[c] <= record.priority

\* The key is free, or its holder's priority is worse than the request's.
MayInstall(c, record) == record # NoLock => PriorityOf[c] < record.priority

\* HGETALL decides: draw a token, or refuse ("lock_held_by_higher_or_equal_priority").
ReadLock(c) ==
    /\ pc[c] = "hgetall"
    /\ seen' = [seen EXCEPT ![c] = lock]
    /\ IF MayInstall(c, lock)
         THEN /\ Goto(c, "incr")
              /\ UNCHANGED clean
         ELSE /\ Goto(c, "idle")
              /\ clean' = [clean EXCEPT ![c] = FALSE]
    /\ UNCHANGED <<lock, leased, counter, newest, drawn, granted>>

NextToken == counter + 1

\* Mutant: WATCH comes right before MULTI, after HGETALL and INCR.
WatchAfterDraw(c) ==
    /\ pc[c] = "incr"
    /\ counter < MaxToken
    /\ counter' = counter + 1
    /\ drawn' = [drawn EXCEPT ![c] = NextToken]
    /\ clean' = [clean EXCEPT ![c] = TRUE]
    /\ Goto(c, "exec")
    /\ UNCHANGED <<lock, leased, newest, seen, granted>>

\* INCR is not part of the transaction: a token drawn here may never be installed.
DrawToken(c) ==
    /\ pc[c] = "incr"
    /\ counter < MaxToken
    /\ counter' = counter + 1
    /\ drawn' = [drawn EXCEPT ![c] = NextToken]
    /\ Goto(c, "exec")
    /\ UNCHANGED <<lock, leased, newest, clean, seen, granted>>

ExecCommits(c) == clean[c]

\* Mutant: PEXPIRE is lost.
SkipExpiry == UNCHANGED leased

SetExpiry == leased' = TRUE

\* MULTI HSET PEXPIRE EXEC, and the granted LockResult.
Install(c) ==
    /\ pc[c] = "exec"
    /\ ExecCommits(c)
    /\ lock' = [agent |-> AgentOf[c], priority |-> PriorityOf[c], token |-> drawn[c]]
    /\ SetExpiry
    /\ newest' = IF drawn[c] > newest THEN drawn[c] ELSE newest
    /\ granted' = [granted EXCEPT ![c] = drawn[c]]
    /\ TouchKey
    /\ Goto(c, "held")
    /\ UNCHANGED <<counter, seen, drawn>>

\* Mutant: the transaction alone is tried again, with the token drawn before.
RetryExec(c) ==
    /\ pc[c] = "exec"
    /\ ~ExecCommits(c)
    /\ clean' = [clean EXCEPT ![c] = TRUE]
    /\ UNCHANGED <<lock, leased, counter, newest, pc, seen, drawn, granted>>

\* EXEC raises WatchError; "continue" starts the loop again at WATCH.
Retry(c) ==
    /\ pc[c] = "exec"
    /\ ~ExecCommits(c)
    /\ clean' = [clean EXCEPT ![c] = TRUE]
    /\ Goto(c, "hgetall")
    /\ UNCHANGED <<lock, leased, counter, newest, seen, drawn, granted>>

-------------------------------------------------------------------------------
(* release_lock and is_lock_valid: each is two commands, with no WATCH *)

OwnRecord(c, record) ==
    /\ record # NoLock
    /\ record.agent = AgentOf[c]
    /\ record.token = granted[c]

\* HGETALL and the ownership tests; the call returns FALSE when one of them fails.
\* fencing_token is always passed: the engine is the only caller.
ReleaseRead(c) ==
    /\ pc[c] = "held"
    /\ seen' = [seen EXCEPT ![c] = lock]
    /\ IF OwnRecord(c, lock)
         THEN /\ Goto(c, "delete")
              /\ UNCHANGED granted
         ELSE /\ Goto(c, "idle")
              /\ granted' = [granted EXCEPT ![c] = 0]
    /\ UNCHANGED <<lock, leased, counter, newest, clean, drawn>>

\* DEL removes whatever record is there now.
ReleaseDelete(c) ==
    /\ pc[c] = "delete"
    /\ lock' = NoLock
    /\ leased' = FALSE
    /\ IF lock = NoLock THEN UNCHANGED clean ELSE TouchKey
    /\ granted' = [granted EXCEPT ![c] = 0]
    /\ Goto(c, "idle")
    /\ UNCHANGED <<counter, newest, seen, drawn>>

ValidateRead(c) ==
    /\ pc[c] = "held"
    /\ seen' = [seen EXCEPT ![c] = lock]
    /\ Goto(c, IF OwnRecord(c, lock) THEN "pttl" ELSE "held")
    /\ UNCHANGED <<lock, leased, counter, newest, clean, drawn, granted>>

\* PTTL is that of the record under the key now; "valid" is the answer TRUE.
ValidateTtl(c) ==
    /\ pc[c] = "pttl"
    /\ Goto(c, IF lock # NoLock /\ leased THEN "valid" ELSE "held")
    /\ UNCHANGED <<lockVars, clean, seen, drawn, granted>>

\* The caller goes on after is_lock_valid returned TRUE.
UseValidity(c) ==
    /\ pc[c] = "valid"
    /\ Goto(c, "held")
    /\ UNCHANGED <<lockVars, clean, seen, drawn, granted>>

-------------------------------------------------------------------------------
(* The environment *)

\* The TTL runs out and Redis removes the key.
Expire ==
    /\ lock # NoLock
    /\ leased
    /\ lock' = NoLock
    /\ leased' = FALSE
    /\ TouchKey
    /\ UNCHANGED <<counter, newest, pc, seen, drawn, granted>>

\* The caller's task is cancelled or its process dies: its connection and its
\* local state are gone, its record stays until the TTL.
Abandon(c) ==
    /\ pc[c] # "idle"
    /\ Goto(c, "idle")
    /\ granted' = [granted EXCEPT ![c] = 0]
    /\ clean' = [clean EXCEPT ![c] = FALSE]
    /\ UNCHANGED <<lockVars, seen, drawn>>

Next ==
    \/ \E c \in Callers :
        \/ Watch(c) \/ ReadLock(c) \/ DrawToken(c) \/ Install(c) \/ Retry(c)
        \/ ReleaseRead(c) \/ ReleaseDelete(c)
        \/ ValidateRead(c) \/ ValidateTtl(c) \/ UseValidity(c)
        \/ Abandon(c)
    \/ Expire

Spec == Init /\ [][Next]_vars

\* Redis expires keys on its own; nothing makes a caller take its next step.
FairSpec == Spec /\ WF_vars(Expire)

-------------------------------------------------------------------------------
(* Properties *)

\* A caller that has drawn a token and whose WATCH is still clean holds a token
\* newer than any installed one, and the record it decided on is still there:
\* what makes the EXEC of acquire_lock safe although INCR is outside of it.
CleanTokenIsNewest ==
    \A c \in Callers :
        /\ pc[c] = "exec" /\ clean[c] => drawn[c] > newest
        /\ pc[c] \in {"incr", "exec"} /\ clean[c] =>
               lock = seen[c] /\ MayInstall(c, seen[c])

\* The record under the key is always that of the newest grant: no retry, release
\* or expiry brings an older token back.
RecordIsNewestGrant == lock # NoLock => lock.token = newest

\* Two callers are never granted the same fencing token, even under one agent_id
\* (every remediation engine uses the same one).
GrantsAreDistinct ==
    \A c, d \in Callers : granted[c] # 0 /\ granted[c] = granted[d] => c = d

\* A caller that still believes it holds the key while another caller's record is
\* under it can be told by its token, which is strictly older than the record's.
StaleHolderIsFenced ==
    \A c \in Callers :
        granted[c] # 0 /\ lock # NoLock /\ ~OwnRecord(c, lock) => granted[c] < lock.token

\* The fencing order, over retries, expiries, releases and cancellations.
TokensAreFenced ==
    TypeOK /\ RecordIsNewestGrant /\ GrantsAreDistinct /\ StaleHolderIsFenced

\* PEXPIRE travels in the transaction of HSET: a record does not outlive its
\* holder for ever, even when the holder died before releasing it.
LockIsEventuallyFreed ==
    \A t \in 1..MaxToken :
        (lock # NoLock /\ lock.token = t) ~> (lock = NoLock \/ lock.token # t)

\* The lock port's promise, record for record: acquisitions carry growing tokens
\* and replace a record only for a strictly better priority.
Abstract == INSTANCE FencedLock
ImplementsFencedLock == Abstract!Spec
===============================================================================
