------------------------------ MODULE InMemoryLock ------------------------------
(***************************************************************************)
(* InMemoryDistributedLockManager: every resource key in one dictionary,   *)
(* one token counter for all of them, and a TTL that is compared with the  *)
(* clock when a record is looked at.  No method awaits anything, so each   *)
(* call is one step.  An expired record stays in the dictionary until      *)
(* acquire_lock or is_lock_valid meets it; release_lock does not look at   *)
(* the clock.  time.time() is assumed not to run backwards.                *)
(***************************************************************************)
EXTENDS Naturals, FiniteSets

CONSTANTS
    Keys,        \* lock keys of resources
    Agents, Priorities, NoLock,
    Ttls,        \* values of LockRequest.ttl_seconds, in clock ticks
    MaxToken,    \* bound: the largest fencing token handed out
    MaxTime      \* bound: the last clock tick

ActiveLock == [agent : Agents, priority : Priorities, token : Nat \ {0}, expires : Nat]

ASSUME InMemoryLockAssumption ==
    /\ Priorities \subseteq Nat
    /\ Ttls \subseteq Nat \ {0}
    /\ NoLock \notin ActiveLock
    /\ MaxToken \in Nat /\ MaxTime \in Nat

VARIABLES
    locks,     \* _locks; NoLock for a key that is not in it
    counter,   \* _fencing_counter
    now,       \* time.time()
    granted    \* history: the granted results, and the keys they are for

vars == <<locks, counter, now, granted>>

Grant == [key : Keys, agent : Agents, token : Nat \ {0}]

TypeOK ==
    /\ locks \in [Keys -> ActiveLock \cup {NoLock}]
    /\ counter \in Nat
    /\ now \in Nat
    /\ granted \subseteq Grant

Init ==
    /\ locks = [k \in Keys |-> NoLock]
    /\ counter = 0
    /\ now = 0
    /\ granted = {}

Expired(record) == record # NoLock /\ record.expires <= now

\* What acquire_lock finds once it has dropped an expired record.
Purged(record) == IF Expired(record) THEN NoLock ELSE record

\* Mutant: the token is the number of records in the dictionary.
TokenByCount == Cardinality({k \in Keys : locks[k] # NoLock}) + 1

\* _next_fencing_token
NextToken == counter + 1

\* Mutant: a holder of equal priority is preempted as well.
MayInstallOverEqual(priority, record) == record # NoLock => priority <= record.priority

MayInstall(priority, record) == record # NoLock => priority < record.priority

Acquire(k, agent, priority, ttl) ==
    /\ MayInstall(priority, Purged(locks[k]))
    /\ counter < MaxToken
    /\ counter' = counter + 1
    /\ locks' = [locks EXCEPT ![k] = [agent |-> agent, priority |-> priority,
                                      token |-> NextToken, expires |-> now + ttl]]
    /\ granted' = granted \cup {[key |-> k, agent |-> agent, token |-> NextToken]}
    /\ UNCHANGED now

\* is_lock_valid purges the expired record it meets.
Look(k) ==
    /\ Expired(locks[k])
    /\ locks' = [locks EXCEPT ![k] = Purged(@)]
    /\ UNCHANGED <<counter, now, granted>>

\* The record under the key is the one this result installed.
Owns(g) ==
    /\ locks[g.key] # NoLock
    /\ locks[g.key].agent = g.agent
    /\ locks[g.key].token = g.token

\* release_lock with the agent and the token of a granted result.
Release(g) ==
    /\ Owns(g)
    /\ locks' = [locks EXCEPT ![g.key] = NoLock]
    /\ UNCHANGED <<counter, now, granted>>

Tick ==
    /\ now < MaxTime
    /\ now' = now + 1
    /\ UNCHANGED <<locks, counter, granted>>

Next ==
    \/ \E k \in Keys, agent \in Agents, priority \in Priorities, ttl \in Ttls :
            Acquire(k, agent, priority, ttl)
    \/ \E k \in Keys : Look(k)
    \/ \E g \in granted : Release(g)
    \/ Tick

Spec == Init /\ [][Next]_vars

-------------------------------------------------------------------------------
(* Properties *)

\* What is_lock_valid answers to the holder of a granted result.
Valid(g) == Owns(g) /\ ~Expired(locks[g.key])

\* Of all results ever granted for a key, over expiries, preemptions and releases, at
\* most one is valid, and it is the newest.
OnlyNewestIsValid ==
    \A g, h \in granted : g.key = h.key /\ g # h /\ Valid(g) => ~Valid(h) /\ h.token < g.token

\* See OnlyNewestIsValid; every record is one the manager can have written.
ResultsAreFenced == TypeOK /\ OnlyNewestIsValid

\* A result that is no longer valid never becomes valid again, whoever takes the key next.
InvalidForGood == [][\A g \in granted : ~Valid(g) => ~Valid(g)']_vars

NewestToken(k) ==
    LET tokens == {g.token : g \in {h \in granted : h.key = k}}
    IN  IF tokens = {} THEN 0 ELSE CHOOSE t \in tokens : \A u \in tokens : u <= t

Live(k) ==
    IF locks[k] = NoLock \/ Expired(locks[k]) THEN NoLock
    ELSE [agent |-> locks[k].agent, priority |-> locks[k].priority, token |-> locks[k].token]

Abstract(k) == INSTANCE FencedLock WITH lock <- Live(k), newest <- NewestToken(k)

\* Every key keeps the promise of the lock port, although all keys share one counter and
\* expired records stay behind until somebody looks at them.
ImplementsFencedLock ==
    /\ \A k \in Keys : Abstract(k)!Init
    /\ [][\A k \in Keys : [Abstract(k)!Install \/ Abstract(k)!Vacate]_(Abstract(k)!vars)]_vars
===============================================================================
