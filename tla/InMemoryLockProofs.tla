----------------------------- MODULE InMemoryLockProofs -----------------------------
(***************************************************************************)
(* The in-memory lock manager, for any set of keys, agents, priorities and *)
(* TTLs: at most one result of a key is valid and it is the newest, what   *)
(* was invalid stays so, and every key keeps the contract of the lock      *)
(* port.  The invariant says what the code never states: a record left in  *)
(* the dictionary, however long expired, is that of the newest grant of    *)
(* its key, because only acquire_lock writes one and its tokens are fresh. *)
(***************************************************************************)
EXTENDS InMemoryLock, TLAPS

\* The grants of a key.
Of(k) == {g \in granted : g.key = k}

\* A record is that of the newest result granted for its key, however old it is.
RecordKnown(k) ==
    locks[k] # NoLock =>
        /\ [key |-> k, agent |-> locks[k].agent, token |-> locks[k].token] \in granted
        /\ \A h \in Of(k) : h.token <= locks[k].token

\* The results granted for a key have a newest.
HasNewest(k) == Of(k) # {} => \E g \in Of(k) : \A h \in Of(k) : h.token <= g.token

\* No token was given twice, or is still to come.
GrantsKnown ==
    /\ \A g \in granted : g.token <= counter
    /\ \A g, h \in granted : g.token = h.token => g = h

\* The inductive invariant.
LockInv == TypeOK /\ GrantsKnown /\ \A k \in Keys : RecordKnown(k) /\ HasNewest(k)

\* An empty dictionary and no grant.
LEMMA InitLocks == Init => LockInv
BY DEF Init, LockInv, TypeOK, GrantsKnown, RecordKnown, HasNewest, Of

\* Only acquire_lock adds a record or a grant; every other step at most drops records.
LEMMA StepLocks == ASSUME LockInv, [Next]_vars PROVE LockInv'
<1> USE DEF LockInv
<1>1. ASSUME NEW k \in Keys, NEW agent \in Agents, NEW priority \in Priorities, NEW ttl \in Ttls,
             Acquire(k, agent, priority, ttl)
      PROVE  LockInv'
  <2> DEFINE rec == [agent |-> agent, priority |-> priority,
                     token |-> counter + 1, expires |-> now + ttl]
             new == [key |-> k, agent |-> agent, token |-> counter + 1]
  <2>1. /\ locks' = [locks EXCEPT ![k] = rec] /\ counter' = counter + 1
        /\ granted' = granted \cup {new} /\ now' = now
    BY <1>1 DEF Acquire, NextToken
  <2>2. rec \in ActiveLock /\ rec # NoLock /\ new \in Grant
    BY InMemoryLockAssumption DEF TypeOK, ActiveLock, Grant
  <2>3. TypeOK'
    BY <2>1, <2>2 DEF TypeOK
  <2>4. \A g \in granted : g.token \in Nat /\ g.token <= counter /\ counter \in Nat
    BY DEF TypeOK, Grant, GrantsKnown
  <2>5. GrantsKnown'
    BY <2>1, <2>4 DEF GrantsKnown, TypeOK
  <2>6. RecordKnown(k)' /\ HasNewest(k)'
    <3>1. new \in Of(k)' /\ \A h \in Of(k)' : h.token <= counter + 1
      BY <2>1, <2>4 DEF Of, TypeOK
    <3>2. locks'[k] = rec
      BY <2>1 DEF TypeOK
    <3> QED BY <2>1, <3>1, <3>2 DEF RecordKnown, HasNewest
  <2>7. ASSUME NEW l \in Keys \ {k} PROVE RecordKnown(l)' /\ HasNewest(l)'
    <3>1. Of(l)' = Of(l) /\ locks'[l] = locks[l]
      BY <2>1, <2>7 DEF Of, TypeOK
    <3> QED BY <2>1, <3>1 DEF RecordKnown, HasNewest
  <2> QED BY <2>3, <2>5, <2>6, <2>7
<1>2. ASSUME UNCHANGED <<counter, granted>>, now' \in Nat, locks' \in [Keys -> ActiveLock \cup {NoLock}],
             \A k \in Keys : locks'[k] \in {locks[k], NoLock}
      PROVE  LockInv'
  BY <1>2 DEF TypeOK, GrantsKnown, RecordKnown, HasNewest, Of
<1>3. CASE Tick \/ UNCHANGED vars
  BY <1>2, <1>3 DEF Tick, vars, TypeOK
<1>4. ASSUME NEW k \in Keys, Look(k) PROVE LockInv'
  BY <1>2, <1>4 DEF Look, Purged, TypeOK
<1>5. ASSUME NEW g \in granted, Release(g) PROVE LockInv'
  BY <1>2, <1>5 DEF Release, TypeOK
<1> QED BY <1>1, <1>3, <1>4, <1>5 DEF Next

\* The dictionary and the grants agree, token by token, in every reachable state.
THEOREM LocksKept == Spec => []LockInv
<1> QED BY InitLocks, StepLocks, PTL DEF Spec

\* Of the results granted for a key at most one is valid, and none is newer than it.
THEOREM Fenced == Spec => []ResultsAreFenced
<1>1. ASSUME LockInv, NEW g \in granted, NEW h \in granted, g.key = h.key, g # h, Valid(g)
      PROVE  ~Valid(h) /\ h.token < g.token
  <2>1. g.key \in Keys /\ g.token \in Nat /\ h.token \in Nat /\ g.token # h.token
    BY <1>1 DEF LockInv, TypeOK, Grant, GrantsKnown
  <2>2. locks[g.key] # NoLock /\ locks[g.key].token = g.token
    BY <1>1 DEF Valid, Owns
  <2>3. h.token <= g.token
    BY <1>1, <2>1, <2>2 DEF LockInv, RecordKnown, Of
  <2> QED BY <1>1, <2>1, <2>2, <2>3 DEF Valid, Owns
<1>2. LockInv => ResultsAreFenced
  BY <1>1 DEF ResultsAreFenced, OnlyNewestIsValid, LockInv
<1> QED BY LocksKept, <1>2, PTL

\* A result that is_lock_valid refuses is refused for ever: neither the clock nor another
\* agent's acquire_lock brings it back.
THEOREM NeverValidAgain == Spec => InvalidForGood
<1>1. ASSUME LockInv, [Next]_vars, NEW g \in granted, ~Valid(g) PROVE ~Valid(g)'
  <2> SUFFICES ASSUME Valid(g)' PROVE FALSE
    OBVIOUS
  <2>1. g.key \in Keys /\ g.token \in Nat /\ g.token <= counter /\ counter \in Nat /\ now \in Nat
        /\ locks \in [Keys -> ActiveLock \cup {NoLock}]
    BY <1>1 DEF LockInv, TypeOK, Grant, GrantsKnown
  <2>2. ASSUME NEW k \in Keys, NEW agent \in Agents, NEW priority \in Priorities, NEW ttl \in Ttls,
               Acquire(k, agent, priority, ttl)
        PROVE  FALSE
    <3>1. now' = now /\ locks' = [locks EXCEPT ![k] = [agent |-> agent, priority |-> priority,
                                      token |-> counter + 1, expires |-> now + ttl]]
      BY <2>2 DEF Acquire, NextToken
    <3> QED BY <1>1, <2>1, <3>1 DEF Valid, Owns, Expired
  <2>3. CASE Tick \/ UNCHANGED vars
    <3>1. locks' = locks /\ now' \in Nat /\ now <= now'
      BY <2>1, <2>3 DEF Tick, vars
    <3>2. locks[g.key] # NoLock => locks[g.key].expires \in Nat
      BY <2>1 DEF ActiveLock
    <3> QED BY <1>1, <2>1, <3>1, <3>2 DEF Valid, Owns, Expired
  <2>4. ASSUME NEW k \in Keys, Look(k) PROVE FALSE
    BY <1>1, <2>1, <2>4 DEF Look, Purged, Valid, Owns, Expired
  <2>5. ASSUME NEW h \in granted, Release(h) PROVE FALSE
    BY <1>1, <2>1, <2>5 DEF Release, Valid, Owns, Expired
  <2> QED BY <1>1, <2>2, <2>3, <2>4, <2>5 DEF Next
<1>2. LockInv /\ [Next]_vars => [\A g \in granted : ~Valid(g) => ~Valid(g)']_vars
  BY <1>1
<1> QED BY LocksKept, <1>2, PTL DEF Spec, InvalidForGood

\* A record has a TTL to live at most, however long ago its holder died.
ExpiresInTime ==
    \A k \in Keys : locks[k] # NoLock => \E ttl \in Ttls : locks[k].expires <= now + ttl

\* A hold is not extended, and not handed on to another agent or priority.
HoldsAreFixed ==
    [][\A k \in Keys :
         /\ locks[k] # NoLock /\ locks'[k] # NoLock
         /\ locks'[k].token = locks[k].token
         => locks'[k] = locks[k]]_vars

\* Every grant ends with its TTL unless it ends before: a holder that died blocks a resource
\* no longer, and one that is slow has no way to keep it (the manager has no renewal).
THEOREM HoldsExpire == Spec => []ExpiresInTime /\ HoldsAreFixed
<1>1. Init => ExpiresInTime
  BY DEF Init, ExpiresInTime
<1>2. ASSUME LockInv, ExpiresInTime, [Next]_vars
      PROVE  /\ ExpiresInTime'
             /\ \A k \in Keys :
                  locks[k] # NoLock /\ locks'[k] # NoLock /\ locks'[k].token = locks[k].token
                      => locks'[k] = locks[k]
  <2>1. /\ now \in Nat /\ counter \in Nat /\ locks \in [Keys -> ActiveLock \cup {NoLock}]
        /\ Ttls \subseteq Nat
        /\ \A k \in Keys : locks[k] # NoLock => /\ locks[k].token \in Nat /\ locks[k].token <= counter
                                              /\ locks[k].expires \in Nat
    <3>1. \A k \in Keys : locks[k] # NoLock => /\ locks[k].token <= counter /\ locks[k] \in ActiveLock
      BY <1>2 DEF LockInv, TypeOK, RecordKnown, GrantsKnown
    <3> QED BY <1>2, <3>1, InMemoryLockAssumption DEF LockInv, TypeOK, ActiveLock
  <2>2. ASSUME NEW k \in Keys, NEW agent \in Agents, NEW priority \in Priorities, NEW ttl \in Ttls,
               Acquire(k, agent, priority, ttl)
        PROVE  /\ ExpiresInTime'
               /\ \A l \in Keys :
                    locks[l] # NoLock /\ locks'[l] # NoLock /\ locks'[l].token = locks[l].token
                        => locks'[l] = locks[l]
    <3>1. /\ now' = now
          /\ locks' = [locks EXCEPT ![k] = [agent |-> agent, priority |-> priority,
                                            token |-> counter + 1, expires |-> now + ttl]]
      BY <2>2 DEF Acquire, NextToken
    <3>2. /\ locks'[k].token = counter + 1 /\ locks'[k].expires = now' + ttl
          /\ \A l \in Keys : l # k => locks'[l] = locks[l]
      BY <2>1, <3>1
    <3>3. now' + ttl <= now' + ttl
      BY <2>1, <3>1
    <3>4. ASSUME NEW l \in Keys, locks'[l] # NoLock
          PROVE  \E t \in Ttls : locks'[l].expires <= now' + t
      BY <1>2, <3>1, <3>2, <3>3, <3>4 DEF ExpiresInTime
    <3>5. locks[k] # NoLock => locks'[k].token # locks[k].token
      BY <2>1, <3>2
    <3> QED BY <3>2, <3>4, <3>5 DEF ExpiresInTime
  <2>3. ASSUME now' \in Nat, now <= now', \A l \in Keys : locks'[l] \in {locks[l], NoLock}
        PROVE  /\ ExpiresInTime'
               /\ \A l \in Keys :
                    locks[l] # NoLock /\ locks'[l] # NoLock /\ locks'[l].token = locks[l].token
                        => locks'[l] = locks[l]
    <3>1. ASSUME NEW l \in Keys, locks'[l] # NoLock
          PROVE  \E t \in Ttls : locks'[l].expires <= now' + t
      <4>1. locks'[l] = locks[l] /\ locks[l] # NoLock
        BY <2>3, <3>1
      <4>2. PICK t \in Ttls : locks[l].expires <= now + t
        BY <1>2, <4>1 DEF ExpiresInTime
      <4>3. locks[l].expires <= now' + t
        BY <2>1, <2>3, <4>1, <4>2
      <4> QED BY <4>1, <4>3
    <3> QED BY <2>3, <3>1 DEF ExpiresInTime
  <2>4. CASE Tick \/ UNCHANGED vars
    BY <2>1, <2>3, <2>4 DEF Tick, vars
  <2>5. ASSUME NEW k \in Keys, Look(k)
        PROVE  now' \in Nat /\ now <= now' /\ \A l \in Keys : locks'[l] \in {locks[l], NoLock}
    BY <2>1, <2>5 DEF Look, Purged
  <2>6. ASSUME NEW g \in granted, Release(g)
        PROVE  now' \in Nat /\ now <= now' /\ \A l \in Keys : locks'[l] \in {locks[l], NoLock}
    BY <2>1, <2>6 DEF Release
  <2> QED BY <1>2, <2>2, <2>3, <2>4, <2>5, <2>6 DEF Next
<1>3. LockInv /\ ExpiresInTime /\ [Next]_vars => ExpiresInTime'
  BY <1>2
<1>4. LockInv /\ ExpiresInTime /\ [Next]_vars =>
        [\A k \in Keys :
           /\ locks[k] # NoLock /\ locks'[k] # NoLock
           /\ locks'[k].token = locks[k].token
           => locks'[k] = locks[k]]_vars
  BY <1>2
<1> QED BY LocksKept, <1>1, <1>3, <1>4, PTL DEF Spec, HoldsAreFixed

\* NewestToken, of a set of grants.
NewestOf(G) ==
    LET tokens == {g.token : g \in G}
    IN  IF tokens = {} THEN 0 ELSE CHOOSE t \in tokens : \A u \in tokens : u <= t

\* It is 0 of none, and the token of a newest grant if there is one.
LEMMA NewestOfGrants ==
  ASSUME NEW G, \A g \in G : g.token \in Nat
  PROVE  /\ G = {} => NewestOf(G) = 0
         /\ \A g \in G : (\A h \in G : h.token <= g.token) => NewestOf(G) = g.token
<1> DEFINE tokens == {g.token : g \in G}
<1>1. NewestOf(G) = IF tokens = {} THEN 0 ELSE CHOOSE t \in tokens : \A u \in tokens : u <= t
  BY DEF NewestOf
<1>2. ASSUME NEW g \in G, \A h \in G : h.token <= g.token PROVE NewestOf(G) = g.token
  <2>1. g.token \in tokens /\ (\A u \in tokens : u <= g.token) /\ tokens \subseteq Nat
    BY <1>2
  <2> HIDE DEF tokens
  <2>2. ASSUME NEW t \in tokens, \A u \in tokens : u <= t PROVE t = g.token
    <3>1. t <= g.token /\ g.token <= t
      BY <2>1, <2>2
    <3>2. t \in Nat /\ g.token \in Nat
      BY <2>1
    <3> QED BY <3>1, <3>2
  <2> QED BY <1>1, <2>1, <2>2
<1>3. G = {} => NewestOf(G) = 0
  BY <1>1
<1> QED BY <1>2, <1>3

\* The abstract token of a key is the newest of its grants, before a step and after it.
LEMMA NewestIs ==
  ASSUME NEW k
  PROVE  NewestToken(k) = NewestOf(Of(k)) /\ NewestToken(k)' = NewestOf(Of(k)')
BY DEF NewestToken, NewestOf, Of

\* The newest token of a key is at most the counter.
LEMMA NewestKnown == ASSUME LockInv, NEW k \in Keys PROVE NewestToken(k) \in 0..counter
<1>1. \A g \in Of(k) : g.token \in Nat /\ g.token <= counter
  BY DEF LockInv, TypeOK, Grant, GrantsKnown, Of
<1>2. CASE Of(k) = {}
  BY <1>1, <1>2, NewestOfGrants, NewestIs DEF LockInv, TypeOK
<1>3. CASE Of(k) # {}
  <2>1. PICK g \in Of(k) : \A h \in Of(k) : h.token <= g.token
    BY <1>3 DEF LockInv, HasNewest
  <2> QED BY <1>1, <2>1, NewestOfGrants, NewestIs DEF LockInv, TypeOK
<1> QED BY <1>2, <1>3

\* What a step that grants nothing for a key leaves of its abstract state.
LEMMA KeyFrame ==
  ASSUME NEW k, Of(k)' = Of(k)
  PROVE  /\ NewestToken(k)' = NewestToken(k)
         /\ locks'[k] = locks[k] /\ now' = now => Live(k)' = Live(k)
         /\ locks'[k] = NoLock => Live(k)' = NoLock
BY NewestIs DEF Live, Expired

\* acquire_lock on a key: a record of a newer token, over a weaker record if one is live.
LEMMA AcquireInstalls ==
  ASSUME LockInv, NEW k \in Keys, NEW agent \in Agents, NEW priority \in Priorities, NEW ttl \in Ttls,
         Acquire(k, agent, priority, ttl)
  PROVE  \A l \in Keys : IF l = k THEN Abstract(k)!Install ELSE UNCHANGED <<Live(l), NewestToken(l)>>
<1> DEFINE rec == [agent |-> agent, priority |-> priority,
                   token |-> counter + 1, expires |-> now + ttl]
           new == [key |-> k, agent |-> agent, token |-> counter + 1]
<1>1. /\ locks' = [locks EXCEPT ![k] = rec] /\ counter' = counter + 1
      /\ granted' = granted \cup {new} /\ now' = now
      /\ MayInstall(priority, Purged(locks[k]))
  BY DEF Acquire, NextToken
<1>2. rec \in ActiveLock /\ rec # NoLock /\ ~(now + ttl <= now) /\ counter \in Nat /\ locks'[k] = rec
  BY <1>1, InMemoryLockAssumption DEF LockInv, TypeOK, ActiveLock
<1>3. Live(k)' = [agent |-> agent, priority |-> priority, token |-> counter + 1]
  BY <1>1, <1>2 DEF Live, Expired
<1>4. \A g \in Of(k) : g.token \in Nat /\ g.token <= counter
  BY DEF LockInv, TypeOK, Grant, GrantsKnown, Of
<1>5. NewestToken(k)' = counter + 1
  <2>1. Of(k)' = Of(k) \cup {new}
    BY <1>1 DEF Of
  <2>2. new \in Of(k)' /\ \A h \in Of(k)' : h.token \in Nat /\ h.token <= new.token
    BY <1>2, <1>4, <2>1
  <2>3. NewestOf(Of(k)') = new.token
    <3> HIDE DEF new
    <3> QED BY <2>2, NewestOfGrants
  <2> QED BY <2>3, NewestIs
<1>6. Live(k) # NoLock => priority < Live(k).priority
  BY <1>1 DEF MayInstall, Purged, Live
<1>7. Abstract(k)!Install
  BY <1>2, <1>3, <1>5, <1>6, NewestKnown
     DEF Abstract!Install, Abstract!InstallByPriority, Abstract!LockRecord
<1>8. ASSUME NEW l \in Keys \ {k} PROVE UNCHANGED <<Live(l), NewestToken(l)>>
  <2>1. locks'[l] = locks[l] /\ now' = now /\ Of(l)' = Of(l)
    BY <1>1, <1>8 DEF LockInv, TypeOK, Of
  <2> QED BY <2>1, KeyFrame
<1> QED BY <1>7, <1>8

\* Everything else leaves a key alone, or vacates it: an expiry too, before anybody looks.
LEMMA OthersVacate ==
  ASSUME LockInv, [Next]_vars, NEW l \in Keys,
         ~\E k \in Keys, agent \in Agents, priority \in Priorities, ttl \in Ttls :
             Acquire(k, agent, priority, ttl)
  PROVE  [Abstract(l)!Vacate]_(Abstract(l)!vars)
<1>1. now \in Nat /\ locks \in [Keys -> ActiveLock \cup {NoLock}]
  BY DEF LockInv, TypeOK
<1>2. /\ granted' = granted /\ now' \in Nat /\ now <= now'
      /\ locks'[l] \in {locks[l], NoLock}
  BY <1>1 DEF Next, Look, Release, Tick, Purged, vars
<1>3. Of(l)' = Of(l) /\ NewestToken(l)' = NewestToken(l)
  BY <1>2, KeyFrame DEF Of
<1>4. Live(l)' \in {Live(l), NoLock}
  <2>1. locks[l] # NoLock => locks[l].expires \in Nat
    BY <1>1 DEF ActiveLock
  <2> QED BY <1>1, <1>2, <2>1 DEF Live, Expired
<1> QED BY <1>3, <1>4 DEF Abstract!Vacate, Abstract!vars

\* Each key keeps the contract of DistributedLockManagerPort, with the expiry of a record
\* as the moment its lock is vacated.
THEOREM KeepsLockPort == Spec => ImplementsFencedLock
<1>1. Init => \A k \in Keys : Abstract(k)!Init
  <2> SUFFICES ASSUME Init, NEW k \in Keys PROVE Live(k) = NoLock /\ NewestToken(k) = 0
    BY DEF Abstract!Init
  <2>1. locks[k] = NoLock /\ Of(k) = {}
    BY DEF Init, Of
  <2> QED BY <2>1, NewestIs, NewestOfGrants DEF Live
<1>2. ASSUME LockInv, [Next]_vars
      PROVE  \A k \in Keys : [Abstract(k)!Install \/ Abstract(k)!Vacate]_(Abstract(k)!vars)
  <2>1. CASE \E k \in Keys, agent \in Agents, priority \in Priorities, ttl \in Ttls :
               Acquire(k, agent, priority, ttl)
    BY <1>2, <2>1, AcquireInstalls DEF Abstract!vars
  <2>2. CASE ~\E k \in Keys, agent \in Agents, priority \in Priorities, ttl \in Ttls :
               Acquire(k, agent, priority, ttl)
    BY <1>2, <2>2, OthersVacate
  <2> QED BY <2>1, <2>2
<1>3. LockInv /\ [Next]_vars =>
        [\A k \in Keys : [Abstract(k)!Install \/ Abstract(k)!Vacate]_(Abstract(k)!vars)]_vars
  BY <1>2
<1> QED BY <1>1, <1>3, LocksKept, PTL DEF Spec, ImplementsFencedLock
===============================================================================
