---------------------------- MODULE RedisLockProofs ----------------------------
(***************************************************************************)
(* Proofs about RedisLock for any set of callers, agents and priorities    *)
(* and any token bound.  IInv is the inductive invariant: tokens are       *)
(* ordered granted <= newest <= counter, a caller about to EXEC holds a    *)
(* token nobody else has, and a clean WATCH vouches for what the caller    *)
(* read before.                                                            *)
(***************************************************************************)
EXTENDS RedisLock, TLAPS

TokensOrdered ==
    /\ newest <= counter
    /\ \A c \in Callers : drawn[c] <= counter /\ granted[c] <= newest

PendingIsFresh ==
    \A c \in Callers : pc[c] = "exec" =>
        /\ drawn[c] > 0
        /\ \A d \in Callers : granted[d] # drawn[c]
        /\ \A d \in Callers \ {c} : pc[d] = "exec" => drawn[d] # drawn[c]

RecordMatchesGrant ==
    \A c \in Callers : lock # NoLock /\ granted[c] = lock.token => lock.agent = AgentOf[c]

IInv ==
    /\ TypeOK
    /\ TokensOrdered
    /\ PendingIsFresh
    /\ CleanTokenIsNewest
    /\ RecordIsNewestGrant
    /\ RecordMatchesGrant
    /\ GrantsAreDistinct

\* The initial state: no record, no token, no caller under way.
LEMMA InitIInv == Init => IInv
<1> SUFFICES ASSUME Init PROVE IInv
  OBVIOUS
<1>1. TypeOK
  BY DEF Init, TypeOK, Commands
<1>2. TokensOrdered /\ PendingIsFresh /\ CleanTokenIsNewest
  BY DEF Init, TokensOrdered, PendingIsFresh, CleanTokenIsNewest
<1>3. RecordIsNewestGrant /\ RecordMatchesGrant /\ GrantsAreDistinct
  BY DEF Init, RecordIsNewestGrant, RecordMatchesGrant, GrantsAreDistinct
<1>4. QED
  BY <1>1, <1>2, <1>3 DEF IInv

\* What the EXEC of a caller with a clean WATCH writes: a well-formed record whose
\* token is the largest one so far.
LEMMA InstallWritesNewest ==
  ASSUME IInv, NEW c \in Callers, Install(c)
  PROVE  /\ lock' \in LockRecord
         /\ lock' # NoLock
         /\ lock'.token = drawn[c] /\ lock'.agent = AgentOf[c] /\ lock'.priority = PriorityOf[c]
         /\ drawn[c] > newest
         /\ newest' = drawn[c]
         /\ lock # NoLock => PriorityOf[c] < lock.priority
<1>1. pc[c] = "exec" /\ clean[c]
  BY DEF Install, ExecCommits
<1>2. drawn[c] > newest /\ lock = seen[c] /\ MayInstall(c, seen[c])
  BY <1>1 DEF IInv, CleanTokenIsNewest
<1>3. drawn[c] \in Nat /\ newest \in Nat
  BY DEF IInv, TypeOK
<1>4. lock' \in LockRecord
  BY <1>2, <1>3, RedisLockAssumption DEF Install, LockRecord
<1>5. QED
  BY <1>2, <1>3, <1>4, RedisLockAssumption DEF Install, MayInstall, ExecCommits

\* Every step keeps the variables in their types.
LEMMA TypeStep ==
  ASSUME IInv, [Next]_vars
  PROVE  TypeOK'
<1> USE DEF TypeOK, Commands, Goto, TouchKey, NextToken, SetExpiry
<1>0. TypeOK
  BY DEF IInv
<1>1. ASSUME NEW c \in Callers, Watch(c) PROVE TypeOK'
  BY <1>0, <1>1 DEF Watch
<1>2. ASSUME NEW c \in Callers, ReadLock(c) PROVE TypeOK'
  BY <1>0, <1>2 DEF ReadLock
<1>3. ASSUME NEW c \in Callers, DrawToken(c) PROVE TypeOK'
  BY <1>0, <1>3 DEF DrawToken
<1>4. ASSUME NEW c \in Callers, Install(c) PROVE TypeOK'
  BY <1>0, <1>4, InstallWritesNewest DEF Install
<1>5. ASSUME NEW c \in Callers, Retry(c) PROVE TypeOK'
  BY <1>0, <1>5 DEF Retry
<1>6. ASSUME NEW c \in Callers, ReleaseRead(c) PROVE TypeOK'
  BY <1>0, <1>6 DEF ReleaseRead
<1>7. ASSUME NEW c \in Callers, ReleaseDelete(c) PROVE TypeOK'
  BY <1>0, <1>7 DEF ReleaseDelete
<1>8. ASSUME NEW c \in Callers, ValidateRead(c) PROVE TypeOK'
  BY <1>0, <1>8 DEF ValidateRead
<1>9. ASSUME NEW c \in Callers, ValidateTtl(c) PROVE TypeOK'
  BY <1>0, <1>9 DEF ValidateTtl, lockVars
<1>10. ASSUME NEW c \in Callers, UseValidity(c) PROVE TypeOK'
  BY <1>0, <1>10 DEF UseValidity, lockVars
<1>11. ASSUME NEW c \in Callers, Abandon(c) PROVE TypeOK'
  BY <1>0, <1>11 DEF Abandon, lockVars
<1>12. CASE Expire
  BY <1>0, <1>12 DEF Expire
<1>13. CASE UNCHANGED vars
  BY <1>0, <1>13 DEF vars
<1>14. QED
  BY <1>1, <1>2, <1>3, <1>4, <1>5, <1>6, <1>7, <1>8, <1>9, <1>10, <1>11, <1>12, <1>13 DEF Next

\* Conjuncts of IInv that speak of the tokens and of the callers.
TokenInv == TokensOrdered /\ PendingIsFresh /\ GrantsAreDistinct

\* Tokens stay ordered and distinct: INCR draws one above every token in use, and
\* EXEC grants a drawn token once.
LEMMA TokenStep ==
  ASSUME IInv, [Next]_vars
  PROVE  TokenInv'
<1> USE DEF TokenInv, TokensOrdered, PendingIsFresh, GrantsAreDistinct, Goto, TouchKey, NextToken
<1>0. TypeOK /\ TokenInv
  BY DEF IInv
<1> USE <1>0 DEF TypeOK
<1>1. ASSUME NEW c \in Callers, Watch(c) PROVE TokenInv'
  BY <1>1 DEF Watch
<1>2. ASSUME NEW c \in Callers, ReadLock(c) PROVE TokenInv'
  BY <1>2 DEF ReadLock
<1>3. ASSUME NEW c \in Callers, DrawToken(c) PROVE TokenInv'
  BY <1>3 DEF DrawToken
<1>4. ASSUME NEW c \in Callers, Install(c) PROVE TokenInv'
  <2>1. drawn[c] > newest /\ newest' = drawn[c] /\ pc[c] = "exec"
    BY <1>4, InstallWritesNewest DEF Install
  <2>2. TokensOrdered'
    BY <1>4, <2>1 DEF Install
  <2>3. PendingIsFresh'
    BY <1>4, <2>1 DEF Install
  <2>4. GrantsAreDistinct'
    BY <1>4, <2>1 DEF Install
  <2>5. QED
    BY <2>2, <2>3, <2>4
<1>5. ASSUME NEW c \in Callers, Retry(c) PROVE TokenInv'
  BY <1>5 DEF Retry
<1>6. ASSUME NEW c \in Callers, ReleaseRead(c) PROVE TokenInv'
  BY <1>6 DEF ReleaseRead
<1>7. ASSUME NEW c \in Callers, ReleaseDelete(c) PROVE TokenInv'
  BY <1>7 DEF ReleaseDelete
<1>8. ASSUME NEW c \in Callers, ValidateRead(c) PROVE TokenInv'
  BY <1>8 DEF ValidateRead
<1>9. ASSUME NEW c \in Callers, ValidateTtl(c) PROVE TokenInv'
  BY <1>9 DEF ValidateTtl, lockVars
<1>10. ASSUME NEW c \in Callers, UseValidity(c) PROVE TokenInv'
  BY <1>10 DEF UseValidity, lockVars
<1>11. ASSUME NEW c \in Callers, Abandon(c) PROVE TokenInv'
  BY <1>11 DEF Abandon, lockVars
<1>12. CASE Expire
  BY <1>12 DEF Expire
<1>13. CASE UNCHANGED vars
  BY <1>13 DEF vars
<1>14. QED
  BY <1>1, <1>2, <1>3, <1>4, <1>5, <1>6, <1>7, <1>8, <1>9, <1>10, <1>11, <1>12, <1>13 DEF Next

\* Conjuncts of IInv that relate the callers to the record under the key.
RecordInv == CleanTokenIsNewest /\ RecordIsNewestGrant /\ RecordMatchesGrant

\* A clean WATCH keeps vouching for what was read: whoever changes the record
\* dirties every open WATCH in the same step.
LEMMA RecordStep ==
  ASSUME IInv, [Next]_vars
  PROVE  RecordInv'
<1> USE DEF RecordInv, CleanTokenIsNewest, RecordIsNewestGrant, RecordMatchesGrant,
            MayInstall, Goto, TouchKey, NextToken
<1>0. TypeOK /\ RecordInv /\ TokenInv
  BY DEF IInv, TokenInv
<1> USE <1>0 DEF TypeOK
<1>1. ASSUME NEW c \in Callers, Watch(c) PROVE RecordInv'
  BY <1>1 DEF Watch
<1>2. ASSUME NEW c \in Callers, ReadLock(c) PROVE RecordInv'
  BY <1>2 DEF ReadLock
<1>3. ASSUME NEW c \in Callers, DrawToken(c) PROVE RecordInv'
  BY <1>3 DEF DrawToken, TokenInv, TokensOrdered
<1>4. ASSUME NEW c \in Callers, Install(c) PROVE RecordInv'
  <2>1. /\ lock' \in LockRecord /\ lock'.token = drawn[c] /\ lock'.agent = AgentOf[c]
        /\ newest' = drawn[c] /\ drawn[c] > newest
    BY <1>4, InstallWritesNewest
  <2>2. CleanTokenIsNewest'
    BY <1>4 DEF Install
  <2>3. RecordIsNewestGrant'
    BY <2>1
  <2>4. RecordMatchesGrant'
    BY <1>4, <2>1 DEF Install, TokenInv, TokensOrdered
  <2>5. QED
    BY <2>2, <2>3, <2>4
<1>5. ASSUME NEW c \in Callers, Retry(c) PROVE RecordInv'
  BY <1>5 DEF Retry
<1>6. ASSUME NEW c \in Callers, ReleaseRead(c) PROVE RecordInv'
  <2>1. CleanTokenIsNewest' /\ RecordIsNewestGrant'
    BY <1>6 DEF ReleaseRead
  <2>2. RecordMatchesGrant'
    BY <1>6 DEF ReleaseRead, LockRecord
  <2>3. QED
    BY <2>1, <2>2
<1>7. ASSUME NEW c \in Callers, ReleaseDelete(c) PROVE RecordInv'
  BY <1>7 DEF ReleaseDelete
<1>8. ASSUME NEW c \in Callers, ValidateRead(c) PROVE RecordInv'
  BY <1>8 DEF ValidateRead
<1>9. ASSUME NEW c \in Callers, ValidateTtl(c) PROVE RecordInv'
  BY <1>9 DEF ValidateTtl, lockVars
<1>10. ASSUME NEW c \in Callers, UseValidity(c) PROVE RecordInv'
  BY <1>10 DEF UseValidity, lockVars
<1>11. ASSUME NEW c \in Callers, Abandon(c) PROVE RecordInv'
  BY <1>11 DEF Abandon, lockVars, LockRecord
<1>12. CASE Expire
  BY <1>12 DEF Expire
<1>13. CASE UNCHANGED vars
  BY <1>13 DEF vars
<1>14. QED
  BY <1>1, <1>2, <1>3, <1>4, <1>5, <1>6, <1>7, <1>8, <1>9, <1>10, <1>11, <1>12, <1>13 DEF Next

\* The inductive invariant, of which the theorems below are corollaries.
THEOREM Inductive == Spec => []IInv
<1>1. IInv /\ [Next]_vars => IInv'
  BY TypeStep, TokenStep, RecordStep DEF IInv, TokenInv, RecordInv
<1>2. QED
  BY InitIInv, <1>1, PTL DEF Spec

\* Type correctness of the Redis lock, for every number of callers.
THEOREM TypeCorrect == Spec => []TypeOK
<1>1. IInv => TypeOK
  BY DEF IInv
<1>2. QED
  BY Inductive, <1>1, PTL

\* A caller with a clean WATCH holds the newest token: EXEC cannot install an old one
\* although INCR runs outside of the transaction.
THEOREM CleanTokens == Spec => []CleanTokenIsNewest
<1>1. IInv => CleanTokenIsNewest
  BY DEF IInv
<1>2. QED
  BY Inductive, <1>1, PTL

\* The record under the key carries the largest token ever installed.
THEOREM NewestRecord == Spec => []RecordIsNewestGrant
<1>1. IInv => RecordIsNewestGrant
  BY DEF IInv
<1>2. QED
  BY Inductive, <1>1, PTL

\* No two callers hold the same fencing token at the same time.
THEOREM DistinctGrants == Spec => []GrantsAreDistinct
<1>1. IInv => GrantsAreDistinct
  BY DEF IInv
<1>2. QED
  BY Inductive, <1>1, PTL

\* The fencing guarantee: a caller whose record has been replaced holds a strictly
\* older token than the record that replaced it.
THEOREM Fencing == Spec => []StaleHolderIsFenced
<1>1. IInv => StaleHolderIsFenced
  <2> SUFFICES ASSUME IInv, NEW c \in Callers,
                      granted[c] # 0, lock # NoLock, ~OwnRecord(c, lock)
               PROVE  granted[c] < lock.token
    BY DEF StaleHolderIsFenced
  <2>1. lock.token = newest /\ granted[c] <= newest
    BY DEF IInv, RecordIsNewestGrant, TokensOrdered
  <2>2. granted[c] # lock.token
    BY DEF IInv, RecordMatchesGrant, OwnRecord
  <2>3. granted[c] \in Nat /\ newest \in Nat
    BY DEF IInv, TypeOK
  <2>4. QED
    BY <2>1, <2>2, <2>3
<1>2. QED
  BY Inductive, <1>1, PTL

\* The fencing order as the runs check it, in one invariant.
THEOREM TokensFenced == Spec => []TokensAreFenced
  BY TypeCorrect, NewestRecord, DistinctGrants, Fencing, PTL DEF TokensAreFenced

\* The refinement: every run of the Redis protocol is a run of the abstract lock, whose
\* acquisitions carry growing tokens and preempt only worse priorities.
THEOREM Refinement == Spec => ImplementsFencedLock
<1>1. Init => Abstract!Init
  BY DEF Init, Abstract!Init
<1>2. ASSUME IInv, [Next]_vars PROVE [Abstract!Install \/ Abstract!Vacate]_(Abstract!vars)
  <2> USE DEF Abstract!vars
  <2>1. ASSUME NEW c \in Callers, Install(c) PROVE Abstract!Install
    BY <1>2, <2>1, InstallWritesNewest DEF Abstract!Install, Abstract!InstallByPriority,
       Abstract!LockRecord, LockRecord, IInv, TypeOK
  <2>2. ASSUME NEW c \in Callers, ReleaseDelete(c) PROVE [Abstract!Install \/ Abstract!Vacate]_(Abstract!vars)
    BY <2>2 DEF ReleaseDelete, Abstract!Vacate
  <2>3. CASE Expire
    BY <2>3 DEF Expire, Abstract!Vacate
  <2>4. ASSUME NEW c \in Callers,
               \/ Watch(c) \/ ReadLock(c) \/ DrawToken(c) \/ Retry(c) \/ ReleaseRead(c)
               \/ ValidateRead(c) \/ ValidateTtl(c) \/ UseValidity(c) \/ Abandon(c)
        PROVE  UNCHANGED <<lock, newest>>
    BY <2>4 DEF Watch, ReadLock, DrawToken, Retry, ReleaseRead, ValidateRead,
                ValidateTtl, UseValidity, Abandon, lockVars
  <2>5. CASE UNCHANGED vars
    BY <2>5 DEF vars
  <2>6. QED
    BY <1>2, <2>1, <2>2, <2>3, <2>4, <2>5 DEF Next
<1>3. QED
  BY <1>1, <1>2, Inductive, PTL DEF Spec, ImplementsFencedLock, Abstract!Spec
===============================================================================
