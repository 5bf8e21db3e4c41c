-------------------------------- MODULE EtcdLock --------------------------------
(***************************************************************************)
(* EtcdDistributedLockManager on one resource key.  Every etcd request is  *)
(* a step of its own.  The fencing token is drawn from a second key with a *)
(* compare-and-swap loop BEFORE the transaction that installs the record,  *)
(* and the creating transaction compares only the version of the lock key. *)
(* is_lock_valid is one read and changes nothing; audit rows are best      *)
(* effort; both are left out.                                              *)
(***************************************************************************)
EXTENDS Naturals

CONSTANTS
    Callers,      \* concurrent conversations with the lock manager
    Agents, Priorities, NoLock,
    AgentOf,      \* the agent_id a caller passes
    PriorityOf,   \* the priority_level a caller passes
    MaxToken      \* bound: the largest value the token key reaches

LockRecord == [agent : Agents, priority : Priorities, token : Nat \ {0}]

ASSUME EtcdLockAssumption ==
    /\ Priorities \subseteq Nat
    /\ NoLock \notin LockRecord
    /\ AgentOf \in [Callers -> Agents]
    /\ PriorityOf \in [Callers -> Priorities]
    /\ MaxToken \in Nat

VARIABLES
    lock,      \* the value of the lock key, or NoLock
    counter,   \* the value of the token key; 0 when the key does not exist
    newest,    \* history: the largest token of any record installed so far
    pc,        \* the next request of each caller
    seen,      \* the record the caller decided on: raw_value of acquire_lock
    read,      \* what the caller last read from the token key
    drawn,     \* the token its compare-and-swap won
    granted    \* the fencing_token of the LockResult the caller holds, 0 if none

vars == <<lock, counter, newest, pc, seen, read, drawn, granted>>

Requests == {"idle", "get", "get token", "cas token", "install", "get again", "held", "delete"}

TypeOK ==
    /\ lock \in LockRecord \cup {NoLock}
    /\ counter \in Nat
    /\ newest \in Nat
    /\ pc \in [Callers -> Requests]
    /\ seen \in [Callers -> LockRecord \cup {NoLock}]
    /\ read \in [Callers -> Nat]
    /\ drawn \in [Callers -> Nat]
    /\ granted \in [Callers -> Nat]

Init ==
    /\ lock = NoLock
    /\ counter = 0
    /\ newest = 0
    /\ pc = [c \in Callers |-> "idle"]
    /\ seen = [c \in Callers |-> NoLock]
    /\ read = [c \in Callers |-> 0]
    /\ drawn = [c \in Callers |-> 0]
    /\ granted = [c \in Callers |-> 0]

Goto(c, request) == pc' = [pc EXCEPT ![c] = request]

-------------------------------------------------------------------------------
(* acquire_lock *)

Start(c) ==
    /\ pc[c] = "idle"
    /\ Goto(c, "get")
    /\ UNCHANGED <<lock, counter, newest, seen, read, drawn, granted>>

\* Mutant: a holder of equal priority is preempted as well.
MayInstallOverEqual(c, record) == record # NoLock => PriorityOf[c] <= record.priority

MayInstall(c, record) == record # NoLock => PriorityOf[c] < record.priority

\* The key is free, or held by a worse priority: draw a token; else refuse.
Get(c) ==
    /\ pc[c] = "get"
    /\ seen' = [seen EXCEPT ![c] = lock]
    /\ Goto(c, IF MayInstall(c, lock) THEN "get token" ELSE "idle")
    /\ UNCHANGED <<lock, counter, newest, read, drawn, granted>>

GetToken(c) ==
    /\ pc[c] = "get token"
    /\ read' = [read EXCEPT ![c] = counter]
    /\ Goto(c, "cas token")
    /\ UNCHANGED <<lock, counter, newest, seen, drawn, granted>>

\* Mutant: the next token is put without comparing.
SwapBlindly(c) == TRUE

\* The token key still has the value that was read (version 0 when there was none).
SwapSucceeds(c) == counter = read[c]

NextToken(c) == read[c] + 1

CasToken(c) ==
    /\ pc[c] = "cas token"
    /\ SwapSucceeds(c)
    /\ read[c] < MaxToken
    /\ counter' = NextToken(c)
    /\ drawn' = [drawn EXCEPT ![c] = NextToken(c)]
    /\ Goto(c, "install")
    /\ UNCHANGED <<lock, newest, seen, read, granted>>

CasLost(c) ==
    /\ pc[c] = "cas token"
    /\ ~SwapSucceeds(c)
    /\ Goto(c, "get token")
    /\ UNCHANGED <<lock, counter, newest, seen, read, drawn, granted>>

\* Mutant: the transaction puts without comparing.
CompareNothing(c) == TRUE

\* version(lock_key) == 0 when the key was free, value(lock_key) == raw_value otherwise.
CompareHolds(c) == lock = seen[c]

\* The transaction of _try_create_lock or _try_preempt_lock succeeds.
Install(c) ==
    /\ pc[c] = "install"
    /\ CompareHolds(c)
    /\ lock' = [agent |-> AgentOf[c], priority |-> PriorityOf[c], token |-> drawn[c]]
    /\ newest' = IF drawn[c] > newest THEN drawn[c] ELSE newest
    /\ granted' = [granted EXCEPT ![c] = drawn[c]]
    /\ Goto(c, "held")
    /\ UNCHANGED <<counter, seen, read, drawn>>

\* A lost creation reads again; a lost preemption gives up with
\* "lock_contention_retry_required".
InstallLost(c) ==
    /\ pc[c] = "install"
    /\ ~CompareHolds(c)
    /\ Goto(c, IF seen[c] = NoLock THEN "get again" ELSE "idle")
    /\ UNCHANGED <<lock, counter, newest, seen, read, drawn, granted>>

\* After a lost creation: start over when the key is free again, otherwise judge the
\* record that is there now.
GetAgain(c) ==
    /\ pc[c] = "get again"
    /\ seen' = [seen EXCEPT ![c] = lock]
    /\ Goto(c, CASE lock = NoLock                          -> "get"
                 [] lock # NoLock /\ MayInstall(c, lock)  -> "get token"
                 [] lock # NoLock /\ ~MayInstall(c, lock) -> "idle")
    /\ UNCHANGED <<lock, counter, newest, read, drawn, granted>>

-------------------------------------------------------------------------------
(* release_lock *)

OwnRecord(c, record) ==
    /\ record # NoLock
    /\ record.agent = AgentOf[c]
    /\ record.token = granted[c]

ReleaseRead(c) ==
    /\ pc[c] = "held"
    /\ seen' = [seen EXCEPT ![c] = lock]
    /\ IF OwnRecord(c, lock)
         THEN /\ Goto(c, "delete")
              /\ UNCHANGED granted
         ELSE /\ Goto(c, "idle")
              /\ granted' = [granted EXCEPT ![c] = 0]
    /\ UNCHANGED <<lock, counter, newest, read, drawn>>

\* The delete removes whatever is there now, and the call returns TRUE in any case.
ReleaseDelete(c) ==
    /\ pc[c] = "delete"
    /\ lock' = NoLock
    /\ granted' = [granted EXCEPT ![c] = 0]
    /\ Goto(c, "idle")
    /\ UNCHANGED <<counter, newest, seen, read, drawn>>

-------------------------------------------------------------------------------
(* The environment *)

\* The lease of the record runs out.
Expire ==
    /\ lock # NoLock
    /\ lock' = NoLock
    /\ UNCHANGED <<counter, newest, pc, seen, read, drawn, granted>>

\* The caller's task is cancelled, its process dies, or a request raises.
Abandon(c) ==
    /\ pc[c] # "idle"
    /\ Goto(c, "idle")
    /\ granted' = [granted EXCEPT ![c] = 0]
    /\ UNCHANGED <<lock, counter, newest, seen, read, drawn>>

Next ==
    \/ \E c \in Callers :
        \/ Start(c) \/ Get(c) \/ GetToken(c) \/ CasToken(c) \/ CasLost(c)
        \/ Install(c) \/ InstallLost(c) \/ GetAgain(c)
        \/ ReleaseRead(c) \/ ReleaseDelete(c) \/ Abandon(c)
    \/ Expire

Spec == Init /\ [][Next]_vars

-------------------------------------------------------------------------------
(* Properties *)

\* The compare-and-swap loop hands out every token once: two callers that draw at the
\* same time never hold the same fencing token.
GrantsAreDistinct ==
    \A c, d \in Callers : granted[c] # 0 /\ granted[c] = granted[d] => c = d

\* The port's promise without the order of the tokens: records replace one another
\* only towards a strictly better priority, although the decision, the token and the
\* transaction are separate requests.
Abstract == INSTANCE FencedLock
ImplementsPriorityLock == Abstract!PrioritySpec

\* Preemption, unlike creation, compares the record itself, so that its token was drawn
\* after the record's: it never moves the fencing token backwards.
PreemptionRaisesToken ==
    [][lock # NoLock /\ lock' # NoLock /\ lock' # lock => lock'.token > lock.token]_vars

===============================================================================
