---------------------------- MODULE EtcdLockProofs ----------------------------
(***************************************************************************)
(* Proofs about EtcdLock for any set of callers, agents and priorities and *)
(* any token bound.  IInv says that the compare-and-swap loop gives every  *)
(* token to one caller (nobody holds or is about to install the token of   *)
(* another), that a caller under way to the transaction decided on a       *)
(* record it may replace, and that its token is newer than that record's.  *)
(***************************************************************************)
EXTENDS EtcdLock, TLAPS

TokensBounded ==
    /\ lock # NoLock => lock.token <= counter
    /\ \A c \in Callers :
        /\ seen[c] # NoLock => seen[c].token <= counter
        /\ read[c] <= counter /\ drawn[c] <= counter /\ granted[c] <= counter

DrawnIsFresh ==
    \A c \in Callers : pc[c] = "install" =>
        /\ drawn[c] > 0
        /\ \A d \in Callers : granted[d] # drawn[c]
        /\ \A d \in Callers \ {c} : pc[d] = "install" => drawn[d] # drawn[c]

Decided ==
    \A c \in Callers :
        /\ pc[c] \in {"get token", "cas token", "install"} => MayInstall(c, seen[c])
        /\ seen[c] # NoLock =>
             /\ pc[c] = "cas token" => seen[c].token <= read[c]
             /\ pc[c] = "install" => seen[c].token < drawn[c]

IInv ==
    /\ TypeOK
    /\ TokensBounded
    /\ DrawnIsFresh
    /\ Decided
    /\ GrantsAreDistinct

LEMMA InitIInv == Init => IInv
<1> SUFFICES ASSUME Init PROVE IInv
  OBVIOUS
<1>1. TypeOK
  BY DEF Init, TypeOK, Requests
<1>2. TokensBounded /\ DrawnIsFresh /\ Decided /\ GrantsAreDistinct
  BY DEF Init, TokensBounded, DrawnIsFresh, Decided, GrantsAreDistinct
<1>3. QED
  BY <1>1, <1>2 DEF IInv

\* Reading the lock key, and decisions that lead away from the transaction.
LEMMA ReadStep ==
  ASSUME IInv, NEW c \in Callers,
         \/ Start(c) \/ Get(c) \/ CasLost(c) \/ InstallLost(c) \/ GetAgain(c)
         \/ ReleaseRead(c) \/ Abandon(c)
  PROVE  IInv'
<1>1. UNCHANGED <<lock, counter, newest, read, drawn>>
  BY DEF Start, Get, CasLost, InstallLost, GetAgain, ReleaseRead, Abandon
<1>2. /\ seen' \in [Callers -> LockRecord \cup {NoLock}]
      /\ seen'[c] \in {seen[c], lock} /\ \A d \in Callers \ {c} : seen'[d] = seen[d]
  BY DEF Start, Get, CasLost, InstallLost, GetAgain, ReleaseRead, Abandon, IInv, TypeOK
<1>3. /\ granted' \in [Callers -> Nat]
      /\ \A d \in Callers : granted'[d] \in {granted[d], 0}
  <2>1. CASE Start(c) \/ Get(c) \/ CasLost(c) \/ InstallLost(c) \/ GetAgain(c)
    BY <2>1 DEF Start, Get, CasLost, InstallLost, GetAgain, IInv, TypeOK
  <2>2. CASE ReleaseRead(c) \/ Abandon(c)
    BY <2>2 DEF ReleaseRead, Abandon, IInv, TypeOK
  <2>3. QED
    BY <2>1, <2>2
<1>4. /\ pc' \in [Callers -> Requests]
      /\ \A d \in Callers \ {c} : pc'[d] = pc[d]
      /\ pc'[c] \notin {"install", "cas token"}
      /\ pc'[c] = "get token" => MayInstall(c, seen'[c])
  <2>1. CASE Start(c) \/ Abandon(c)
    BY <2>1 DEF Start, Abandon, Goto, IInv, TypeOK, Requests
  <2>2. CASE Get(c) \/ GetAgain(c)
    BY <2>2 DEF Get, GetAgain, Goto, IInv, TypeOK, Requests
  <2>3. CASE CasLost(c)
    BY <2>3 DEF CasLost, Goto, IInv, TypeOK, Requests, Decided
  <2>4. CASE InstallLost(c) \/ ReleaseRead(c)
    BY <2>4 DEF InstallLost, ReleaseRead, Goto, IInv, TypeOK, Requests
  <2>5. QED
    BY <2>1, <2>2, <2>3, <2>4
<1>5. TypeOK'
  BY <1>1, <1>2, <1>3, <1>4 DEF IInv, TypeOK
<1>6. TokensBounded'
  BY <1>1, <1>2, <1>3 DEF IInv, TypeOK, TokensBounded
<1>7. DrawnIsFresh'
  <2> SUFFICES ASSUME NEW a \in Callers, pc'[a] = "install"
               PROVE  /\ drawn'[a] > 0
                      /\ \A d \in Callers : granted'[d] # drawn'[a]
                      /\ \A d \in Callers \ {a} : pc'[d] = "install" => drawn'[d] # drawn'[a]
    BY DEF DrawnIsFresh
  <2>1. pc[a] = "install" /\ \A d \in Callers : pc'[d] = "install" => pc[d] = "install"
    BY <1>4
  <2>2. QED
    BY <1>1, <1>3, <2>1 DEF IInv, TypeOK, DrawnIsFresh
<1>8. Decided'
  BY <1>1, <1>2, <1>4 DEF IInv, Decided, MayInstall
<1>9. GrantsAreDistinct'
  BY <1>3 DEF IInv, TypeOK, GrantsAreDistinct
<1>10. QED
  BY <1>5, <1>6, <1>7, <1>8, <1>9 DEF IInv

LEMMA GetTokenStep ==
  ASSUME IInv, NEW c \in Callers, GetToken(c)
  PROVE  IInv'
<1>1. /\ pc[c] = "get token" /\ pc' = [pc EXCEPT ![c] = "cas token"]
      /\ read' = [read EXCEPT ![c] = counter]
      /\ UNCHANGED <<lock, counter, newest, seen, drawn, granted>>
  BY DEF GetToken, Goto
<1>2. /\ pc' \in [Callers -> Requests] /\ read' \in [Callers -> Nat]
      /\ \A d \in Callers : read'[d] \in {read[d], counter}
  BY <1>1 DEF IInv, TypeOK, Requests
<1>3. TypeOK' /\ TokensBounded'
  <2>1. TypeOK'
    BY <1>1, <1>2 DEF IInv, TypeOK
  <2>2. counter <= counter
    BY DEF IInv, TypeOK
  <2>3. \A d \in Callers : read'[d] <= counter
    BY <1>2, <2>2 DEF IInv, TokensBounded
  <2>4. QED
    BY <1>1, <2>1, <2>3 DEF IInv, TokensBounded
<1>4. DrawnIsFresh' /\ GrantsAreDistinct'
  BY <1>1 DEF IInv, TypeOK, DrawnIsFresh, GrantsAreDistinct
<1>5. Decided'
  BY <1>1 DEF IInv, TypeOK, TokensBounded, Decided, MayInstall
<1>6. QED
  BY <1>3, <1>4, <1>5 DEF IInv

\* Tokens are numbers, so a token below the counter is below the next one.
LEMMA TokenTypes ==
  ASSUME TypeOK
  PROVE  /\ lock # NoLock => lock.token \in Nat /\ lock.priority \in Priorities
         /\ \A c \in Callers : seen[c] # NoLock => seen[c].token \in Nat
  BY DEF TypeOK, LockRecord

\* The swap that succeeds draws a token larger than every token drawn before.
LEMMA CasTokenStep ==
  ASSUME IInv, NEW c \in Callers, CasToken(c)
  PROVE  IInv'
<1>1. /\ pc[c] = "cas token" /\ pc' = [pc EXCEPT ![c] = "install"]
      /\ counter = read[c] /\ counter' = counter + 1
      /\ drawn' = [drawn EXCEPT ![c] = counter + 1]
      /\ UNCHANGED <<lock, newest, seen, read, granted>>
  BY DEF CasToken, Goto, SwapSucceeds, NextToken
<1>2. /\ pc' \in [Callers -> Requests] /\ drawn' \in [Callers -> Nat]
      /\ drawn'[c] = counter + 1 /\ \A d \in Callers \ {c} : drawn'[d] = drawn[d]
  <2>1. pc' \in [Callers -> Requests]
    BY <1>1 DEF IInv, TypeOK, Requests
  <2>2. counter + 1 \in Nat /\ drawn \in [Callers -> Nat]
    BY DEF IInv, TypeOK
  <2>3. drawn' = [drawn EXCEPT ![c] = counter + 1]
    BY <1>1
  <2>4. QED
    BY <2>1, <2>2, <2>3
<1>3. TypeOK' /\ TokensBounded'
  <2>1. lock # NoLock => lock.token <= counter + 1
    BY TokenTypes DEF IInv, TypeOK, TokensBounded
  <2>2. \A d \in Callers :
          /\ seen[d] # NoLock => seen[d].token <= counter + 1
          /\ read[d] <= counter + 1 /\ granted[d] <= counter + 1
    BY TokenTypes DEF IInv, TypeOK, TokensBounded
  <2>3. \A d \in Callers : drawn'[d] <= counter + 1
    BY <1>2 DEF IInv, TypeOK, TokensBounded
  <2>4. QED
    BY <1>1, <1>2, <2>1, <2>2, <2>3 DEF IInv, TypeOK, TokensBounded
<1>4. DrawnIsFresh'
  <2>1. \A d \in Callers : granted[d] <= counter /\ granted[d] # counter + 1 /\ drawn[d] # counter + 1
    BY DEF IInv, TypeOK, TokensBounded
  <2>2. \A d \in Callers \ {c} : pc'[d] = pc[d]
    BY <1>1 DEF IInv, TypeOK
  <2>3. counter + 1 > 0
    BY DEF IInv, TypeOK
  <2>4. QED
    BY <1>1, <1>2, <2>1, <2>2, <2>3 DEF IInv, DrawnIsFresh
<1>5. Decided'
  <2>1. seen[c] # NoLock => seen[c].token < counter + 1
    BY TokenTypes DEF IInv, TypeOK, TokensBounded
  <2>2. QED
    BY <1>1, <2>1 DEF IInv, TypeOK, Decided, MayInstall
<1>6. GrantsAreDistinct'
  BY <1>1 DEF IInv, GrantsAreDistinct
<1>7. QED
  BY <1>3, <1>4, <1>5, <1>6 DEF IInv

\* What the transaction writes, and what it replaces.
LEMMA InstallWrites ==
  ASSUME IInv, NEW c \in Callers, Install(c)
  PROVE  /\ lock' \in LockRecord /\ lock' # NoLock
         /\ lock'.token = drawn[c] /\ lock'.priority = PriorityOf[c]
         /\ lock # NoLock => PriorityOf[c] < lock.priority /\ lock.token < drawn[c]
<1>1. pc[c] = "install" /\ lock = seen[c] /\ drawn[c] \in Nat \ {0}
  BY DEF Install, CompareHolds, IInv, TypeOK, DrawnIsFresh
<1>2. lock' = [agent |-> AgentOf[c], priority |-> PriorityOf[c], token |-> drawn[c]]
  BY DEF Install
<1>3. lock' \in LockRecord
  BY <1>1, <1>2, EtcdLockAssumption DEF LockRecord
<1>4. lock # NoLock => PriorityOf[c] < lock.priority /\ lock.token < drawn[c]
  BY <1>1 DEF IInv, Decided, MayInstall
<1>5. QED
  BY <1>1, <1>2, <1>3, <1>4, EtcdLockAssumption

LEMMA InstallStep ==
  ASSUME IInv, NEW c \in Callers, Install(c)
  PROVE  IInv'
<1>1. /\ pc[c] = "install" /\ pc' = [pc EXCEPT ![c] = "held"]
      /\ granted' = [granted EXCEPT ![c] = drawn[c]]
      /\ newest' = IF drawn[c] > newest THEN drawn[c] ELSE newest
      /\ UNCHANGED <<counter, seen, read, drawn>>
  BY DEF Install, Goto
<1>2. lock' \in LockRecord /\ lock'.token = drawn[c]
  BY InstallWrites
<1>3. TypeOK'
  BY <1>1, <1>2 DEF IInv, TypeOK, Requests
<1>4. TokensBounded'
  BY <1>1, <1>2 DEF IInv, TypeOK, TokensBounded
<1>5. DrawnIsFresh' /\ GrantsAreDistinct'
  BY <1>1 DEF IInv, TypeOK, DrawnIsFresh, GrantsAreDistinct
<1>6. Decided'
  BY <1>1 DEF IInv, TypeOK, Decided, MayInstall
<1>7. QED
  BY <1>3, <1>4, <1>5, <1>6 DEF IInv

\* The record goes away, by a release or with its lease.
LEMMA VacateStep ==
  ASSUME IInv, Expire \/ (\E c \in Callers : ReleaseDelete(c)) \/ UNCHANGED vars
  PROVE  IInv'
<1>1. CASE Expire
  BY <1>1 DEF Expire, IInv, TypeOK, TokensBounded, DrawnIsFresh, Decided, MayInstall,
     GrantsAreDistinct
<1>2. ASSUME NEW c \in Callers, ReleaseDelete(c) PROVE IInv'
  <2>1. /\ lock' = NoLock /\ UNCHANGED <<counter, newest, seen, read, drawn>>
        /\ granted' \in [Callers -> Nat] /\ pc' \in [Callers -> Requests]
        /\ \A d \in Callers : granted'[d] \in {granted[d], 0}
        /\ \A d \in Callers : pc'[d] \in {pc[d], "idle"}
    BY <1>2 DEF ReleaseDelete, Goto, IInv, TypeOK, Requests
  <2>2. TypeOK' /\ TokensBounded'
    BY <2>1 DEF IInv, TypeOK, TokensBounded
  <2>3. GrantsAreDistinct'
    BY <2>1 DEF IInv, TypeOK, GrantsAreDistinct
  <2>4. \A d \in Callers : pc'[d] # "idle" => pc'[d] = pc[d]
    BY <2>1
  <2>5. DrawnIsFresh'
    BY <2>1, <2>4 DEF IInv, TypeOK, DrawnIsFresh
  <2>6. Decided'
    BY <2>1, <2>4 DEF IInv, Decided, MayInstall
  <2>7. QED
    BY <2>2, <2>3, <2>5, <2>6 DEF IInv
<1>3. CASE UNCHANGED vars
  BY <1>3 DEF vars, IInv, TypeOK, TokensBounded, DrawnIsFresh, Decided, MayInstall,
     GrantsAreDistinct
<1>4. QED
  BY <1>1, <1>2, <1>3

\* IInv is inductive, for any number of callers.
THEOREM Inductive == Spec => []IInv
<1>1. IInv /\ [Next]_vars => IInv'
  BY ReadStep, GetTokenStep, CasTokenStep, InstallStep, VacateStep DEF Next
<1>2. QED
  BY InitIInv, <1>1, PTL DEF Spec

\* Two callers never hold the same fencing token, for any number of callers.
THEOREM DistinctGrants == Spec => []GrantsAreDistinct
<1>1. IInv => TypeOK /\ GrantsAreDistinct
  BY DEF IInv
<1>2. QED
  BY Inductive, <1>1, PTL

\* A preemption installs a token larger than that of the record it replaces.
THEOREM PreemptionRaises == Spec => PreemptionRaisesToken
<1>1. IInv /\ [Next]_vars
        => [lock # NoLock /\ lock' # NoLock /\ lock' # lock => lock'.token > lock.token]_vars
  <2> SUFFICES ASSUME IInv, Next, lock # NoLock, lock' # NoLock, lock' # lock
               PROVE  lock'.token > lock.token
    BY DEF vars
  <2>1. PICK c \in Callers : Install(c)
    BY DEF Next, Start, Get, GetToken, CasToken, CasLost, InstallLost, GetAgain, ReleaseRead,
           ReleaseDelete, Abandon, Expire
  <2>2. QED
    BY <2>1, InstallWrites DEF IInv, TypeOK, LockRecord
<1>2. QED
  BY Inductive, <1>1, PTL DEF Spec, PreemptionRaisesToken

\* Every run of the etcd protocol is a run of the abstract lock without token order:
\* records replace one another only towards a strictly better priority.
THEOREM PriorityRefinement == Spec => ImplementsPriorityLock
<1>1. Init => Abstract!Init
  BY DEF Init, Abstract!Init
<1>2. ASSUME IInv, [Next]_vars
      PROVE  [Abstract!InstallByPriority \/ Abstract!Vacate]_(Abstract!vars)
  <2>1. ASSUME NEW c \in Callers, Install(c) PROVE Abstract!InstallByPriority
    BY <1>2, <2>1, InstallWrites DEF Install, Abstract!InstallByPriority, Abstract!LockRecord,
       LockRecord
  <2>2. CASE Expire \/ \E c \in Callers : ReleaseDelete(c)
    BY <2>2 DEF Expire, ReleaseDelete, Abstract!Vacate, Abstract!vars
  <2>3. CASE UNCHANGED <<lock, newest>>
    BY <2>3 DEF Abstract!vars
  <2>4. QED
    BY <1>2, <2>1, <2>2, <2>3 DEF Next, Start, Get, GetToken, CasToken, CasLost, InstallLost,
       GetAgain, ReleaseRead, Abandon, vars
<1>3. QED
  BY Inductive, <1>1, <1>2, PTL DEF Spec, ImplementsPriorityLock, Abstract!PrioritySpec
===============================================================================
