------------------------------ MODULE BreakerProofs ------------------------------
(***************************************************************************)
(* The circuit breaker and the two that go through it.                     *)
(*                                                                         *)
(* Overlapping operator calls: the state of a breaker follows its count,   *)
(* an open circuit only drains and a burst of failures is bounded, for any *)
(* set of calls, any threshold and any number of retries.                  *)
(*                                                                         *)
(* The notification router, for any chains of adapters and any calls: a    *)
(* circuit is open only after enough failed deliveries, whom a call has    *)
(* told, and why a page outlives the resolution.                           *)
(***************************************************************************)
EXTENDS OperatorCalls, NotificationRouter, FiniteSetTheorems, SequenceTheorems, TLAPS

-------------------------------------------------------------------------------
(* The breaker, and the operator calls that share one *)

\* The value of a breaker, and that it is cooled unless it is open: the clock is looked
\* at in that state only.
Sound(b) == b \in Breaker /\ StateFollowsCount(b) /\ (b.state # "open" => b.cooled)

\* A call that may send a request has a turn of the loop left.
TurnLeft == \A c \in Calls : pc[c] # "request" => attempt[c] <= MaxRetries

IInv == TypeOK /\ TurnLeft /\ Sound(breaker)

LEMMA ReadIsSound ==
    ASSUME NEW b, Sound(b)
    PROVE  Sound(Read(b))
  BY ThresholdAssumption DEF Sound, Read, StateFollowsCount, Breaker

LEMMA SuccessIsSound == \A b : Sound(RecordSuccess(b))
  BY ThresholdAssumption DEF Sound, RecordSuccess, NewBreaker, StateFollowsCount, Breaker

\* A failure opens the circuit for a whole timeout if it makes the count reach the
\* threshold, which is so for every failure of a circuit that is not closed.
LEMMA FailureIsSound ==
    ASSUME NEW b, Sound(b)
    PROVE  /\ Sound(RecordFailure(b))
           /\ b.state # "closed" => /\ RecordFailure(b).state = "open"
                                    /\ ~RecordFailure(b).cooled
  <1> DEFINE n == IF b.failures < FailureThreshold THEN b.failures + 1 ELSE FailureThreshold
             f == [state |-> IF n = FailureThreshold THEN "open" ELSE b.state,
                   failures |-> n, cooled |-> n < FailureThreshold]
  <1>1. RecordFailure(b) = f
    BY DEF RecordFailure
  <1>2. b.failures \in 0..FailureThreshold /\ b.state \in {"closed", "open", "half_open"}
    BY DEF Sound, Breaker
  <1>3. n \in 0..FailureThreshold /\ (n < FailureThreshold => b.state = "closed")
    BY <1>2, ThresholdAssumption DEF Sound, StateFollowsCount
  <1>4. b.state # "closed" => n = FailureThreshold
    BY <1>2, ThresholdAssumption DEF Sound, StateFollowsCount
  <1>5. f \in Breaker
    BY <1>2, <1>3 DEF Breaker
  <1>6. StateFollowsCount(f) /\ (f.state # "open" => f.cooled)
    <2>1. f.failures = n /\ f.cooled = (n < FailureThreshold)
          /\ f.state = IF n = FailureThreshold THEN "open" ELSE b.state
      OBVIOUS
    <2> HIDE DEF n, f
    <2>2. CASE n = FailureThreshold
      BY <2>1, <2>2, ThresholdAssumption DEF StateFollowsCount
    <2>3. CASE n < FailureThreshold
      <3>1. f.state = "closed" /\ f.failures < FailureThreshold
        BY <2>1, <2>3, <1>3, ThresholdAssumption
      <3>2. f.cooled
        BY <2>1, <2>3, Zenon
      <3> QED BY <3>1, <3>2 DEF StateFollowsCount
    <2>4. n = FailureThreshold \/ n < FailureThreshold
      BY <1>3, ThresholdAssumption
    <2> QED BY <2>2, <2>3, <2>4
  <1>7. b.state # "closed" => f.state = "open" /\ ~f.cooled
    BY <1>3, <1>4, ThresholdAssumption
  <1> HIDE DEF f
  <1> QED BY <1>1, <1>5, <1>6, <1>7 DEF Sound

LEMMA CoolIsSound ==
    ASSUME NEW b, Sound(b)
    PROVE  Sound(Cool(b))
  BY ThresholdAssumption DEF Sound, Cool, StateFollowsCount, Breaker

LEMMA InitInvariant == Init => IInv
  <1> SUFFICES ASSUME Init PROVE IInv
    OBVIOUS
  <1>1. Sound(breaker)
    BY ThresholdAssumption DEF Init, Sound, NewBreaker, StateFollowsCount, Breaker
  <1>2. TypeOK
    BY <1>1, CallsAssumption DEF Init, TypeOK, Sound
  <1>3. TurnLeft
    BY CallsAssumption DEF Init, TurnLeft
  <1> QED BY <1>1, <1>2, <1>3 DEF IInv

LEMMA StepInvariant == IInv /\ [Next]_vars => IInv'
  <1> SUFFICES ASSUME IInv, [Next]_vars PROVE IInv'
    OBVIOUS
  <1> USE CallsAssumption
  <1>a. TypeOK /\ TurnLeft /\ Sound(breaker)
    BY DEF IInv
  <1>1. CASE CoolDown
    <2>1. Sound(breaker')
      BY <1>a, <1>1, CoolIsSound DEF CoolDown
    <2> QED BY <1>a, <1>1, <2>1 DEF CoolDown, IInv, TypeOK, TurnLeft, Sound, InFlight
  <1>2. ASSUME NEW c \in Calls, Request(c)
        PROVE  IInv'
    <2>1. Sound(breaker')
      BY <1>a, <1>2, ReadIsSound DEF Request
    <2>2. attempt[c] + 1 \in 0..MaxRetries + 1
      BY <1>a, <1>2 DEF Request, TypeOK, TurnLeft
    <2> QED BY <1>a, <1>2, <2>1, <2>2 DEF Request, IInv, TypeOK, TurnLeft, Sound, NextAttempt
  <1>3. ASSUME NEW c \in Calls, Reject(c)
        PROVE  IInv'
    BY <1>a, <1>3 DEF Reject, Return, IInv, TypeOK, TurnLeft, Sound
  <1>4. ASSUME NEW c \in Calls, Succeed(c)
        PROVE  IInv'
    <2>1. Sound(breaker')
      BY <1>4, SuccessIsSound DEF Succeed
    <2> QED BY <1>a, <1>4, <2>1 DEF Succeed, Return, IInv, TypeOK, TurnLeft, Sound
  <1>5. ASSUME NEW c \in Calls, Fail(c)
        PROVE  IInv'
    <2>1. Sound(breaker')
      BY <1>a, <1>5, FailureIsSound DEF Fail, FailAndSleep, FailForGood, Failed, Count
    <2>2. breaker' \in Breaker /\ burst' \in Nat
      <3>1. breaker' \in Breaker
        BY <2>1 DEF Sound
      <3>2. burst' = burst + 1
        BY <1>5, Zenon DEF Fail, FailAndSleep, FailForGood, Failed
      <3> QED BY <1>a, <3>1, <3>2 DEF TypeOK
    <2>3. CASE FailAndSleep(c)
      <3>1. TypeOK'
        BY <1>a, <2>2, <2>3 DEF FailAndSleep, TypeOK
      <3>2. TurnLeft'
        BY <1>a, <2>3 DEF FailAndSleep, TurnsLeft, TypeOK, TurnLeft
      <3> QED BY <2>1, <3>1, <3>2 DEF IInv
    <2>4. CASE FailForGood(c)
      <3>1. TypeOK'
        BY <1>a, <2>2, <2>4 DEF FailForGood, Return, TypeOK
      <3>2. TurnLeft'
        BY <1>a, <2>4 DEF FailForGood, Return, TypeOK, TurnLeft
      <3> QED BY <2>1, <3>1, <3>2 DEF IInv
    <2> QED BY <1>5, <2>3, <2>4 DEF Fail
  <1>6. ASSUME NEW c \in Calls, Cancel(c)
        PROVE  IInv'
    BY <1>a, <1>6 DEF Cancel, Return, IInv, TypeOK, TurnLeft, Sound
  <1>7. CASE UNCHANGED vars
    BY <1>a, <1>7 DEF vars, IInv, TypeOK, TurnLeft, Sound, StateFollowsCount
  <1> QED BY <1>1, <1>2, <1>3, <1>4, <1>5, <1>6, <1>7 DEF Next

\* The breaker's state follows its count at every moment, whatever order the answers of
\* overlapping requests come in.
THEOREM Consistent == Spec => []BreakerConsistent
  <1>1. IInv => BreakerConsistent
    BY DEF IInv, Sound, BreakerConsistent
  <1> QED BY <1>1, InitInvariant, StepInvariant, PTL DEF Spec

LEMMA StepDrains ==
    IInv /\ [Next]_vars =>
        [/\ breaker.state = "open" /\ ~breaker.cooled =>
              {c \in Calls : pc'[c] = "request"} \subseteq InFlight
         /\ breaker.state = "half_open" /\ (\E c \in Calls : Fail(c)) =>
              breaker'.state = "open" /\ ~breaker'.cooled]_vars
  <1> SUFFICES ASSUME IInv, Next
               PROVE  /\ breaker.state = "open" /\ ~breaker.cooled =>
                            {c \in Calls : pc'[c] = "request"} \subseteq InFlight
                      /\ breaker.state = "half_open" /\ (\E c \in Calls : Fail(c)) =>
                            breaker'.state = "open" /\ ~breaker'.cooled
    OBVIOUS
  <1>1. ASSUME breaker.state = "open", ~breaker.cooled
        PROVE  {c \in Calls : pc'[c] = "request"} \subseteq InFlight
    <2>1. ~Admits(breaker)
      BY <1>1 DEF Admits, Read
    <2>2. \A c \in Calls : ~Request(c)
      BY <2>1 DEF Request, MayRequest
    <2>3. pc \in [Calls -> {"idle", "request", "sleep"}]
      BY DEF IInv, TypeOK
    <2>4. \A c \in Calls : pc'[c] = "request" => pc[c] = "request"
      BY <2>2, <2>3 DEF Next, CoolDown, Reject, Succeed, Fail, FailAndSleep, FailForGood,
                        Failed, Cancel, Return
    <2> QED BY <2>4 DEF InFlight
  <1>2. ASSUME breaker.state = "half_open", NEW c \in Calls, Fail(c)
        PROVE  breaker'.state = "open" /\ ~breaker'.cooled
    BY <1>2, FailureIsSound DEF IInv, Fail, FailAndSleep, FailForGood, Failed, Count
  <1> QED BY <1>1, <1>2

\* While the circuit is open no request is sent, not by a call that slept between two
\* attempts either, and a failure that comes while it is half open opens it again.
THEOREM Drains == Spec => OpenOnlyDrains
  BY InitInvariant, StepInvariant, StepDrains, PTL DEF Spec, OpenOnlyDrains

-------------------------------------------------------------------------------
(* The bound of a burst: while the circuit is closed a burst is what it has counted; when it *)
(* opens, each failure to come is of a request under way, and none is sent.                 *)

Others == Cardinality(Calls) - 1

BurstInv ==
    /\ breaker.state = "closed" => burst = breaker.failures
    /\ breaker.state = "half_open" => burst = 0
    /\ breaker.state = "open" => burst + Cardinality(InFlight) <= FailureThreshold + Others

LEMMA InFlightFinite ==
    /\ IsFiniteSet(InFlight) /\ Cardinality(InFlight) \in 0..Cardinality(Calls)
    /\ Cardinality(Calls) \in Nat
  BY CallsAssumption, FS_Subset, FS_CardinalityType DEF InFlight

\* A request that ends, and no other that begins, leaves one less under way.
LEMMA OneLessInFlight ==
    ASSUME TypeOK, NEW c \in Calls, pc[c] = "request", NEW p, p # "request",
           pc' = [pc EXCEPT ![c] = p]
    PROVE  Cardinality(InFlight') = Cardinality(InFlight) - 1
  <1>1. InFlight' = InFlight \ {c}
    BY DEF InFlight, TypeOK
  <1>2. c \in InFlight
    BY DEF InFlight
  <1> QED BY <1>1, <1>2, InFlightFinite, FS_RemoveElement

LEMMA NoneMoreInFlight ==
    ASSUME TypeOK, NEW c \in Calls, NEW p, p # "request", pc' = [pc EXCEPT ![c] = p]
    PROVE  Cardinality(InFlight') <= Cardinality(InFlight)
  <1>1. InFlight' \subseteq InFlight
    BY DEF InFlight, TypeOK
  <1> QED BY <1>1, InFlightFinite, FS_Subset

LEMMA StepBurst == IInv /\ BurstInv /\ [Next]_vars => BurstInv'
  <1> SUFFICES ASSUME IInv, BurstInv, [Next]_vars PROVE BurstInv'
    OBVIOUS
  <1>a. /\ TypeOK /\ Sound(breaker) /\ burst \in Nat
        /\ breaker.state \in {"closed", "open", "half_open"}
        /\ breaker.failures \in 0..FailureThreshold
    BY DEF IInv, TypeOK, Breaker
  <1>b. /\ FailureThreshold \in Nat /\ FailureThreshold > 0
        /\ Cardinality(InFlight) \in Nat /\ Cardinality(Calls) \in Nat
        /\ Cardinality(InFlight) <= Cardinality(Calls)
    BY ThresholdAssumption, InFlightFinite
  <1>1. CASE CoolDown
    <2>1. breaker'.state = breaker.state /\ breaker'.failures = breaker.failures
          /\ burst' = burst /\ InFlight' = InFlight
      BY <1>a, <1>1 DEF CoolDown, Cool, Breaker, TypeOK, InFlight
    <2> QED BY <2>1 DEF BurstInv
  <1>2. ASSUME NEW c \in Calls, Request(c)
        PROVE  BurstInv'
    <2>1. CASE breaker.state = "open"
      <3>1. breaker'.state = "half_open"
        BY <1>a, <1>2, <2>1 DEF Request, MayRequest, Admits, Read, Breaker, TypeOK
      <3>2. burst' = 0
        BY <1>2, <2>1, <3>1 DEF Request
      <3> QED BY <3>1, <3>2 DEF BurstInv
    <2>2. CASE breaker.state # "open"
      <3>1. breaker' = breaker /\ burst' = burst
        BY <1>2, <2>2 DEF Request, Read
      <3> QED BY <2>2, <3>1 DEF BurstInv
    <2> QED BY <2>1, <2>2
  <1>3. ASSUME NEW c \in Calls, Return(c), UNCHANGED <<breaker, burst>>
        PROVE  BurstInv'
    <2>1. Cardinality(InFlight') <= Cardinality(InFlight) /\ Cardinality(InFlight') \in Nat
      <3>1. InFlight' \subseteq InFlight
        BY <1>a, <1>3 DEF Return, InFlight, TypeOK
      <3> QED BY <3>1, InFlightFinite, FS_Subset, FS_CardinalityType
    <2> QED BY <1>a, <1>b, <1>3, <2>1 DEF BurstInv, Others
  <1>4. ASSUME NEW c \in Calls, Succeed(c)
        PROVE  BurstInv'
    BY <1>4 DEF Succeed, RecordSuccess, NewBreaker, BurstInv
  <1>5. ASSUME NEW c \in Calls, Fail(c)
        PROVE  BurstInv'
    <2>1. burst' = burst + 1 /\ breaker' = RecordFailure(breaker) /\ pc[c] = "request"
      BY <1>5, Zenon DEF Fail, FailAndSleep, FailForGood, Failed, Count
    <2>2. Cardinality(InFlight') = Cardinality(InFlight) - 1
      BY <1>5, <1>a, <2>1, OneLessInFlight DEF Fail, FailAndSleep, FailForGood, Return
    <2>3. breaker.state # "closed" => breaker'.state = "open"
      BY <1>a, <2>1, FailureIsSound
    <2>4. breaker.state = "closed" => breaker.failures < FailureThreshold
      BY <1>a DEF Sound, StateFollowsCount
    <2>5. breaker.state = "closed" =>
            /\ breaker'.failures = breaker.failures + 1
            /\ breaker'.state = IF breaker.failures + 1 = FailureThreshold THEN "open" ELSE "closed"
      BY <2>1, <2>4 DEF RecordFailure
    <2>6. CASE breaker.state = "closed"
      BY <1>a, <1>b, <2>1, <2>2, <2>4, <2>5, <2>6 DEF BurstInv, Others
    <2>7. CASE breaker.state # "closed"
      BY <1>a, <1>b, <2>1, <2>2, <2>3, <2>7 DEF BurstInv, Others
    <2> QED BY <2>6, <2>7
  <1>6. CASE UNCHANGED vars
    BY <1>6 DEF vars, BurstInv, InFlight
  <1> QED BY <1>1, <1>2, <1>3, <1>4, <1>5, <1>6 DEF Next, Reject, Cancel

\* The operator sees no more failures in a row than the threshold and what the other calls
\* had under way when the circuit opened.
THEOREM BurstBound == Spec => []FailureBurstBounded
  <1>1. Init => BurstInv
    BY DEF Init, NewBreaker, BurstInv
  <1>2. IInv /\ BurstInv => FailureBurstBounded
    <2> SUFFICES ASSUME IInv, BurstInv PROVE FailureBurstBounded
      OBVIOUS
    <2>1. /\ breaker.state \in {"closed", "open", "half_open"}
          /\ breaker.failures \in 0..FailureThreshold /\ burst \in Nat
          /\ breaker.state = "closed" => breaker.failures < FailureThreshold
      BY DEF IInv, TypeOK, Sound, StateFollowsCount, Breaker
    <2> QED BY <2>1, InFlightFinite, ThresholdAssumption DEF BurstInv, Others, FailureBurstBounded
  <1> QED BY <1>1, <1>2, InitInvariant, StepInvariant, StepBurst, PTL DEF Spec

-------------------------------------------------------------------------------
(* The circuits of the notification router *)

\* How often an adapter counts a failed delivery at most.
Weight(a) == IF a \in CountsTwice THEN 2 ELSE 1

\* The count of a circuit is covered by m misses that count w times each.
Covered(b, m, w) == Sound(b) /\ m \in 0..FailureThreshold /\ b.failures <= w * m

\* One miss more, up to the threshold.
OneMore(m) == IF m < FailureThreshold THEN m + 1 ELSE m

\* The inductive invariant: it relates the count, which survives HALF_OPEN, to the misses.
CountsCovered ==
    /\ breakers = [a \in Adapters |-> breakers[a]]
    /\ misses = [a \in Adapters |-> misses[a]]
    /\ \A a \in Adapters : Covered(breakers[a], misses[a], Weight(a))

\* A failure adds one to the count, or leaves it at the threshold.
LEMMA FailureCount ==
    ASSUME NEW b, Sound(b)
    PROVE  /\ b.failures \in 0..FailureThreshold
           /\ RecordFailure(b).failures = OneMore(b.failures)
  BY ThresholdAssumption DEF Sound, Breaker, RecordFailure, OneMore

\* Looking at a circuit, its timeout and a success leave the count covered.
LEMMA CoveredKept ==
    ASSUME NEW b, NEW m, NEW w \in {1, 2}, Covered(b, m, w)
    PROVE  Covered(Read(b), m, w) /\ Covered(Cool(b), m, w) /\ Covered(RecordSuccess(b), 0, w)
  <1>1. Sound(Cool(b)) /\ Cool(b).failures = b.failures
    BY DEF Covered, Sound, Cool, StateFollowsCount, Breaker
  <1>2. Read(b).failures = b.failures
    BY DEF Covered, Sound, Read, Breaker
  <1>3. RecordSuccess(b).failures = 0
    BY DEF RecordSuccess, NewBreaker
  <1>4. Covered(RecordSuccess(b), 0, w)
    BY <1>3, SuccessIsSound, ThresholdAssumption DEF Covered
  <1> QED BY <1>1, <1>2, <1>4, ReadIsSound DEF Covered

\* A failed delivery leaves it covered by one miss more, counted once or, by an adapter
\* that counts twice, twice.
LEMMA CoveredMiss ==
    ASSUME NEW b, NEW m, NEW w \in {1, 2}, Covered(b, m, w)
    PROVE  /\ Covered(RecordFailure(b), OneMore(m), w)
           /\ w = 2 => Covered(RecordFailure(RecordFailure(b)), OneMore(m), w)
  <1>1. Sound(b) /\ m \in 0..FailureThreshold /\ b.failures <= w * m
    BY DEF Covered
  <1>2. OneMore(m) \in 0..FailureThreshold /\ (m < FailureThreshold => OneMore(m) = m + 1)
        /\ (m = FailureThreshold => OneMore(m) = m)
    BY <1>1, ThresholdAssumption DEF OneMore
  <1>3. Sound(RecordFailure(b)) /\ Sound(RecordFailure(RecordFailure(b)))
    BY <1>1, FailureIsSound
  <1>4. /\ b.failures \in 0..FailureThreshold
        /\ RecordFailure(b).failures \in 0..FailureThreshold
        /\ RecordFailure(RecordFailure(b)).failures \in 0..FailureThreshold
        /\ RecordFailure(b).failures <= b.failures + 1
        /\ RecordFailure(RecordFailure(b)).failures <= b.failures + 2
    BY <1>1, <1>3, FailureCount, ThresholdAssumption DEF OneMore
  <1>5. CASE w = 1
    BY <1>1, <1>2, <1>3, <1>4, <1>5, ThresholdAssumption DEF Covered
  <1>6. CASE w = 2
    BY <1>1, <1>2, <1>3, <1>4, <1>6, ThresholdAssumption DEF Covered
  <1> QED BY <1>5, <1>6

\* A success and the failure to read its body: one miss since.
LEMMA CoveredSpoilt ==
    ASSUME NEW b, NEW m, NEW w \in {1, 2}, Covered(b, m, w)
    PROVE  Covered(RecordFailure(RecordSuccess(b)), 1, w)
  BY CoveredKept, CoveredMiss, ThresholdAssumption DEF OneMore

\* A step that moves the circuit of one adapter, to what its misses cover.
LEMMA OneCircuit ==
    ASSUME CountsCovered, NEW a, NEW b, NEW m,
           breakers' = [breakers EXCEPT ![a] = b], misses' = [misses EXCEPT ![a] = m],
           a \in Adapters => Covered(b, m, Weight(a))
    PROVE  CountsCovered'
  <1>1. breakers' = [c \in Adapters |-> breakers'[c]]
        /\ misses' = [c \in Adapters |-> misses'[c]]
    BY DEF CountsCovered
  <1>2. ASSUME NEW c \in Adapters
        PROVE  Covered(breakers'[c], misses'[c], Weight(c))
    BY <1>2 DEF CountsCovered
  <1> QED BY <1>1, <1>2 DEF CountsCovered, Adapters

\* Nothing has been sent yet.
LEMMA InitCovered == RouterInit => CountsCovered
  <1> SUFFICES ASSUME RouterInit PROVE CountsCovered
    OBVIOUS
  <1>1. breakers = [a \in Adapters |-> NewBreaker] /\ misses = [a \in Adapters |-> 0]
    BY DEF RouterInit
  <1>2. NewBreaker.failures = 0 /\ Sound(NewBreaker)
    BY SuccessIsSound DEF NewBreaker, RecordSuccess
  <1>3. \A a \in Adapters : Covered(breakers[a], misses[a], Weight(a))
    BY <1>1, <1>2, ThresholdAssumption DEF Covered, Weight
  <1> QED BY <1>1, <1>3 DEF CountsCovered

\* What the router and other deliveries make of the circuit of one adapter.
LEMMA StepCovered == ASSUME CountsCovered, [RouterNext]_routerVars PROVE CountsCovered'
  <1>w. ASSUME NEW a PROVE Weight(a) \in {1, 2}
    BY DEF Weight
  <1>c. ASSUME NEW a \in Adapters PROVE Covered(breakers[a], misses[a], Weight(a))
    BY DEF CountsCovered
  <1>0. ASSUME UNCHANGED <<breakers, misses>> PROVE CountsCovered'
    BY <1>0 DEF CountsCovered, Adapters
  <1>1. ASSUME NEW a \in Adapters, CoolDownAdapter(a) PROVE CountsCovered'
    <2>1. breakers' = [breakers EXCEPT ![a] = Cool(breakers[a])]
          /\ misses' = [misses EXCEPT ![a] = misses[a]]
      BY <1>1 DEF CoolDownAdapter, CountsCovered
    <2>2. Covered(Cool(breakers[a]), misses[a], Weight(a))
      BY <1>w, <1>c, CoveredKept
    <2> QED BY <2>1, <2>2, OneCircuit
  <1>2. ASSUME NEW a \in Adapters, NEW success \in BOOLEAN, OtherDelivery(a, success)
        PROVE  CountsCovered'
    <2>1. Covered(Read(breakers[a]), misses[a], Weight(a))
      BY <1>w, <1>c, CoveredKept
    <2>2. CASE success
      <3>1. breakers' = [breakers EXCEPT ![a] = RecordSuccess(Read(breakers[a]))]
            /\ misses' = [misses EXCEPT ![a] = 0]
        BY <1>2, <2>2 DEF OtherDelivery
      <3>2. Covered(RecordSuccess(Read(breakers[a])), 0, Weight(a))
        BY <1>w, <2>1, CoveredKept
      <3> QED BY <3>1, <3>2, OneCircuit
    <2>3. CASE ~success
      <3>1. breakers' = [breakers EXCEPT ![a] = RecordFailure(Read(breakers[a]))]
            /\ misses' = [misses EXCEPT ![a] = OneMore(misses[a])]
        BY <1>2, <2>3 DEF OtherDelivery, Missed, OneMore
      <3>2. Covered(RecordFailure(Read(breakers[a])), OneMore(misses[a]), Weight(a))
        BY <1>w, <2>1, CoveredMiss
      <3> QED BY <3>1, <3>2, OneCircuit
    <2> QED BY <2>2, <2>3
  <1>3. ASSUME NEW r \in Routes, Post(r) PROVE CountsCovered'
    <2> DEFINE a == Current(r)
    <2>1. breakers' = [breakers EXCEPT ![a] = Read(breakers[a])]
          /\ misses' = [misses EXCEPT ![a] = misses[a]]
      BY <1>3 DEF Post, CountsCovered
    <2> HIDE DEF a
    <2>2. a \in Adapters => Covered(Read(breakers[a]), misses[a], Weight(a))
      BY <1>w, <1>c, CoveredKept
    <2> QED BY <2>1, <2>2, OneCircuit
  <1>4. ASSUME NEW r \in Routes, Delivered(r) PROVE CountsCovered'
    <2> DEFINE a == Current(r)
    <2>1. breakers' = [breakers EXCEPT ![a] = RecordSuccess(breakers[a])]
          /\ misses' = [misses EXCEPT ![a] = 0]
      BY <1>4 DEF Delivered
    <2> HIDE DEF a
    <2>2. a \in Adapters => Covered(RecordSuccess(breakers[a]), 0, Weight(a))
      BY <1>w, <1>c, CoveredKept
    <2> QED BY <2>1, <2>2, OneCircuit
  <1>5. ASSUME NEW r \in Routes, NEW acted \in BOOLEAN, TransportFails(r, acted)
        PROVE  CountsCovered'
    <2> DEFINE a == Current(r)
    <2>1. breakers' = [breakers EXCEPT ![a] = RecordFailure(breakers[a])]
          /\ misses' = [misses EXCEPT ![a] = OneMore(misses[a])]
      BY <1>5 DEF TransportFails, Missed, OneMore
    <2> HIDE DEF a
    <2>2. a \in Adapters => Covered(RecordFailure(breakers[a]), OneMore(misses[a]), Weight(a))
      BY <1>w, <1>c, CoveredMiss
    <2> QED BY <2>1, <2>2, OneCircuit
  <1>6. ASSUME NEW r \in Routes, ApiRefuses(r) PROVE CountsCovered'
    <2> DEFINE a == Current(r)
               b == IF a \in CountsTwice THEN RecordFailure(RecordFailure(breakers[a]))
                    ELSE RecordFailure(breakers[a])
    <2>1. breakers' = [breakers EXCEPT ![a] = b]
          /\ misses' = [misses EXCEPT ![a] = OneMore(misses[a])]
      BY <1>6 DEF ApiRefuses, CountRefusal, Missed, OneMore
    <2>2. a \in Adapters => Covered(b, OneMore(misses[a]), Weight(a))
      <3> HIDE DEF a
      <3> QED BY <1>w, <1>c, CoveredMiss DEF Weight
    <2> HIDE DEF a, b
    <2> QED BY <2>1, <2>2, OneCircuit
  <1>7. ASSUME NEW r \in Routes, BodyUnreadable(r) PROVE CountsCovered'
    <2> DEFINE a == Current(r)
    <2>1. CASE a \in SuccessFirst
      <3>1. breakers' = [breakers EXCEPT ![a] = RecordFailure(RecordSuccess(breakers[a]))]
            /\ misses' = [misses EXCEPT ![a] = 1]
        BY <1>7, <2>1 DEF BodyUnreadable
      <3> HIDE DEF a
      <3>2. a \in Adapters => Covered(RecordFailure(RecordSuccess(breakers[a])), 1, Weight(a))
        BY <1>w, <1>c, CoveredSpoilt
      <3> QED BY <3>1, <3>2, OneCircuit
    <2>2. CASE a \notin SuccessFirst
      BY <1>0, <1>7, <2>2 DEF BodyUnreadable
    <2> QED BY <2>1, <2>2
  <1>8. ASSUME NEW r \in Routes,
               \/ \E high \in BOOLEAN : Route(r, high)
               \/ Skip(r) \/ \E acted \in BOOLEAN : CancelRoute(r, acted)
        PROVE  CountsCovered'
    BY <1>0, <1>8 DEF Route, Skip, CancelRoute
  <1>9. CASE UNCHANGED routerVars
    BY <1>0, <1>9 DEF routerVars
  <1> QED BY <1>1, <1>2, <1>3, <1>4, <1>5, <1>6, <1>7, <1>8, <1>9 DEF RouterNext, Answer

\* Whatever the router sends, however it is answered and whatever else uses the adapters, a
\* circuit leaves CLOSED only after threshold failed deliveries since its last success, or
\* half as many of an adapter that counts an API error twice (the adapters' send methods).
THEOREM OpenedByMisses == RouterSpec => []OpenNeedsMisses
  <1>1. ASSUME CountsCovered PROVE OpenNeedsMisses
    <2> SUFFICES ASSUME NEW a \in Adapters, breakers[a].state # "closed"
                 PROVE  Weight(a) * misses[a] >= FailureThreshold
      BY DEF OpenNeedsMisses, Weight
    <2>1. Covered(breakers[a], misses[a], Weight(a))
      BY <1>1 DEF CountsCovered
    <2>2. breakers[a].failures = FailureThreshold /\ Weight(a) * misses[a] \in Nat
      BY <2>1, ThresholdAssumption DEF Covered, Sound, StateFollowsCount, Breaker, Weight
    <2> QED BY <2>1, <2>2, ThresholdAssumption DEF Covered
  <1>2. CountsCovered /\ [RouterNext]_routerVars => CountsCovered'
    BY StepCovered
  <1> QED BY InitCovered, <1>1, <1>2, PTL DEF RouterSpec

-------------------------------------------------------------------------------
(* What is left of a chain of adapters *)

\* What is left of a chain whose first k - 1 adapters are behind the call.
From(order, k) == SubSeq(order, k, Len(order))

LEMMA FromProperties ==
    ASSUME NEW S, NEW order \in Seq(S), NEW k \in 1..Len(order) + 1
    PROVE  /\ From(order, k) \in Seq(S)
           /\ Len(From(order, k)) = Len(order) - k + 1
           /\ \A i \in 1..Len(order) - k + 1 : From(order, k)[i] = order[k + i - 1]
           /\ From(order, k) = << >> <=> k = Len(order) + 1
  <1>1. Len(order) \in Nat /\ order \in [1..Len(order) -> S]
    BY LenProperties
  <1>2. \A i \in k..Len(order) : order[i] \in S
    BY <1>1
  <1>3. /\ From(order, k) \in Seq(S)
        /\ Len(From(order, k)) = IF k <= Len(order) THEN Len(order) - k + 1 ELSE 0
        /\ \A i \in 1..Len(order) - k + 1 : From(order, k)[i] = order[k + i - 1]
    BY <1>1, <1>2, SubSeqProperties DEF From
  <1>4. Len(From(order, k)) = Len(order) - k + 1
    BY <1>1, <1>3
  <1>5. From(order, k) = << >> <=> Len(From(order, k)) = 0
    BY <1>3, EmptySeq
  <1> QED BY <1>1, <1>3, <1>4, <1>5

LEMMA FromHeadTail ==
    ASSUME NEW S, NEW order \in Seq(S), NEW k \in 1..Len(order)
    PROVE  Head(From(order, k)) = order[k] /\ Tail(From(order, k)) = From(order, k + 1)
  <1>1. Len(order) \in Nat /\ Len(order) \in k..Len(order)
    BY LenProperties
  <1> QED BY <1>1, HeadTailOfSubSeq DEF From

LEMMA FromEnds ==
    ASSUME NEW S, NEW order \in Seq(S)
    PROVE  From(order, 1) = order /\ From(order, Len(order) + 1) = << >>
  BY SubSeqFull, SubSeqEmpty, LenProperties DEF From

LEMMA FromIsSuffix ==
    ASSUME NEW S, NEW order \in Seq(S), NEW k \in 1..Len(order) + 1
    PROVE  IsSuffix(From(order, k), order)
  <1> DEFINE s == From(order, k)
             n == Len(order) - k + 1
             R == Reverse(order)
             Q == Reverse(s)
  <1>1. Len(order) \in Nat /\ order \in [1..Len(order) -> S]
    BY LenProperties
  <1>2. s \in Seq(S) /\ Len(s) = n /\ \A i \in 1..n : s[i] = order[k + i - 1]
    BY FromProperties
  <1>3. n \in 0..Len(order)
    BY <1>1
  <1>4. R \in Seq(S) /\ Len(R) = Len(order) /\ \A i \in 1..Len(order) : R[i] = order[(Len(order) - i) + 1]
    <2>1. \A i \in 1..Len(order) : order[(Len(order) - i) + 1] \in S
      BY <1>1
    <2>2. R \in [1..Len(order) -> S]
      BY <2>1 DEF Reverse
    <2> QED BY <1>1, <2>2, SeqDef, LenProperties DEF Reverse
  <1>5. Q \in Seq(S) /\ Len(Q) = n /\ \A i \in 1..n : Q[i] = s[(n - i) + 1]
    <2>1. \A i \in 1..n : s[(n - i) + 1] \in S
      BY <1>1, <1>2, <1>3, LenProperties
    <2>2. Q = [i \in 1..n |-> s[(n - i) + 1]]
      BY <1>2 DEF Reverse
    <2> HIDE DEF s, n, Q
    <2>3. Q \in [1..n -> S]
      BY <2>1, <2>2
    <2> QED BY <1>3, <2>2, <2>3, SeqDef, LenProperties
  <1> HIDE DEF s, n, R, Q
  <1>6. \A i \in 1..n : Q[i] = R[i]
    <2> SUFFICES ASSUME NEW i \in 1..n PROVE Q[i] = R[i]
      OBVIOUS
    <2>1. (n - i) + 1 \in 1..n /\ i \in 1..Len(order) /\ k + ((n - i) + 1) - 1 = (Len(order) - i) + 1
      BY <1>1, <1>3 DEF n
    <2> QED BY <1>2, <1>4, <1>5, <2>1
  <1>7. SubSeq(Q, 1, n) = SubSeq(R, 1, n)
    <2>1. \A i \in 1..n : Q[i] \in S /\ R[i] \in S
      BY <1>3, <1>4, <1>5, ElementOfSeq
    <2> DEFINE u == SubSeq(Q, 1, n)  v == SubSeq(R, 1, n)
    <2>2. u \in Seq(S) /\ Len(u) = (IF 1 <= n THEN n - 1 + 1 ELSE 0) /\ \A i \in 1..n - 1 + 1 : u[i] = Q[1 + i - 1]
      BY <1>3, <2>1, SubSeqProperties
    <2>3. v \in Seq(S) /\ Len(v) = (IF 1 <= n THEN n - 1 + 1 ELSE 0) /\ \A i \in 1..n - 1 + 1 : v[i] = R[1 + i - 1]
      BY <1>3, <2>1, SubSeqProperties
    <2> HIDE DEF u, v
    <2>4. Len(u) = Len(v) /\ \A i \in 1..Len(u) : u[i] = v[i]
      BY <1>3, <1>6, <2>2, <2>3
    <2>5. u = v
      BY <2>2, <2>3, <2>4, SeqEqual
    <2> QED BY <2>5 DEF u, v
  <1>8. Len(Q) <= Len(R)
    BY <1>3, <1>4, <1>5
  <1>9. IsPrefix(Q, R)
    BY <1>5, <1>7, <1>8 DEF IsPrefix
  <1> QED BY <1>9 DEF IsSuffix, Q, R, s

\* C are the adapters of a chain, each once in its order.
IsChain(C, order) ==
    /\ order \in Seq(C)
    /\ C = {order[i] : i \in 1..Len(order)}
    /\ \A i, j \in 1..Len(order) : order[i] = order[j] => i = j

\* What a call has left of a chain (rest) and what became of the adapters before it: while
\* any is left, all of those failed and none has told anybody without that.  At the end one
\* adapter answered, or, of a call that came to the end of the chain, none and all failed; a
\* call that did not may have left one adapter that acted and was not waited for.
Walked(C, order, rest, ans, rea, fai, ended) ==
    \E k \in 1..Len(order) + 1 :
        /\ rest = From(order, k)
        /\ k <= Len(order) => /\ ans \cap C = {} /\ rea \cap C \subseteq fai
                              /\ \A i \in 1..k - 1 : order[i] \in fai
        /\ k = Len(order) + 1 =>
            \/ \E a \in C : ans \cap C = {a} /\ (rea \cap C) \ fai \subseteq {a}
            \/ ans \cap C = {} /\ rea \cap C \subseteq fai /\ (ended => C \subseteq fai)
            \/ ~ended /\ ans \cap C = {} /\ \E a \in C : (rea \cap C) \ fai \subseteq {a}

\* The adapters a call has told have only failures before them in their order.
InOrder(order, rea, fai) ==
    \A i, j \in 1..Len(order) : i < j /\ order[j] \in rea => order[i] \in fai

LEMMA WalkBegins ==
    ASSUME NEW C, NEW order, IsChain(C, order), NEW ended \in BOOLEAN
    PROVE  Walked(C, order, order, {}, {}, {}, ended) /\ Walked(C, order, << >>, {}, {}, {}, FALSE)
  <1>1. order \in Seq(C) /\ Len(order) \in Nat
    BY LenProperties DEF IsChain
  <1>2. From(order, 1) = order /\ From(order, Len(order) + 1) = << >>
    BY <1>1, FromEnds
  <1>3. Len(order) = 0 => C = {}
    BY DEF IsChain
  <1>4. Walked(C, order, << >>, {}, {}, {}, FALSE)
    <2>1. Len(order) + 1 \in 1..Len(order) + 1 /\ ~(Len(order) + 1 <= Len(order))
      BY <1>1
    <2> QED BY <1>2, <2>1 DEF Walked
  <1>5. Walked(C, order, order, {}, {}, {}, ended)
    <2>1. 1 \in 1..Len(order) + 1 /\ 1..1 - 1 = {} /\ (1 = Len(order) + 1 => C = {})
      BY <1>1, <1>3
    <2> QED BY <1>2, <2>1 DEF Walked
  <1> QED BY <1>4, <1>5

LEMMA WalkRest ==
    ASSUME NEW C, NEW order, IsChain(C, order), NEW rest, NEW ans, NEW rea, NEW fai, NEW ended,
           Walked(C, order, rest, ans, rea, fai, ended)
    PROVE  /\ rest \in Seq(C) /\ IsSuffix(rest, order)
           /\ rest # << >> => Head(rest) \in C
  <1>1. order \in Seq(C)
    BY DEF IsChain
  <1>2. PICK k \in 1..Len(order) + 1 : rest = From(order, k)
    BY DEF Walked
  <1>3. rest \in Seq(C) /\ IsSuffix(rest, order)
    BY <1>1, <1>2, FromProperties, FromIsSuffix
  <1> QED BY <1>3, HeadTailProperties

\* The next adapter fails, before or after it acted.
LEMMA WalkFails ==
    ASSUME NEW C, NEW order, IsChain(C, order), NEW rest, NEW ans, NEW rea, NEW fai, NEW ended,
           Walked(C, order, rest, ans, rea, fai, ended), rest # << >>,
           NEW a, a = Head(rest), NEW rest2, rest2 = Tail(rest),
           NEW rea2, rea2 \subseteq rea \cup {a}
    PROVE  Walked(C, order, rest2, ans, rea2, fai \cup {a}, ended)
  <1> DEFINE fai2 == fai \cup {a}
  <1>1. order \in Seq(C) /\ Len(order) \in Nat
    BY LenProperties DEF IsChain
  <1>2. PICK k \in 1..Len(order) + 1 :
          /\ rest = From(order, k)
          /\ k <= Len(order) => /\ ans \cap C = {} /\ rea \cap C \subseteq fai
                                /\ \A i \in 1..k - 1 : order[i] \in fai
    BY DEF Walked
  <1>3. k \in 1..Len(order)
    BY <1>1, <1>2, FromProperties
  <1>4. a = order[k] /\ rest2 = From(order, k + 1)
    BY <1>1, <1>2, <1>3, FromHeadTail
  <1>5. ans \cap C = {} /\ rea2 \cap C \subseteq fai2
    BY <1>1, <1>2, <1>3
  <1>6. \A i \in 1..(k + 1) - 1 : order[i] \in fai2
    BY <1>1, <1>2, <1>3, <1>4
  <1>7. k = Len(order) => C \subseteq fai2
    BY <1>1, <1>6 DEF IsChain
  <1>8. k + 1 \in 1..Len(order) + 1 /\ (k + 1 = Len(order) + 1 => k = Len(order))
    BY <1>1, <1>3
  <1> HIDE DEF fai2
  <1>9. Walked(C, order, rest2, ans, rea2, fai2, ended)
    BY <1>4, <1>5, <1>6, <1>7, <1>8 DEF Walked
  <1> QED BY <1>9 DEF fai2

\* The next adapter answers: the chain is over.
LEMMA WalkSucceeds ==
    ASSUME NEW C, NEW order, IsChain(C, order), NEW rest, NEW ans, NEW rea, NEW fai, NEW ended,
           Walked(C, order, rest, ans, rea, fai, ended), rest # << >>,
           NEW a, a = Head(rest)
    PROVE  Walked(C, order, << >>, ans \cup {a}, rea \cup {a}, fai, ended)
  <1>1. order \in Seq(C) /\ Len(order) \in Nat
    BY LenProperties DEF IsChain
  <1>2. PICK k \in 1..Len(order) + 1 :
          /\ rest = From(order, k)
          /\ k <= Len(order) => ans \cap C = {} /\ rea \cap C \subseteq fai
    BY DEF Walked
  <1>3. ans \cap C = {} /\ rea \cap C \subseteq fai
    BY <1>1, <1>2, FromProperties
  <1>4. a \in C
    BY WalkRest
  <1>5. (ans \cup {a}) \cap C = {a} /\ ((rea \cup {a}) \cap C) \ fai \subseteq {a}
    BY <1>3, <1>4
  <1>6. << >> = From(order, Len(order) + 1) /\ Len(order) + 1 \in 1..Len(order) + 1
        /\ ~(Len(order) + 1 <= Len(order))
    BY <1>1, FromEnds
  <1> QED BY <1>4, <1>5, <1>6 DEF Walked

\* What happens to an adapter of the other chain is nothing to this one.
LEMMA WalkElsewhere ==
    ASSUME NEW C, NEW order, IsChain(C, order), NEW rest, NEW ans, NEW rea, NEW fai, NEW ended,
           Walked(C, order, rest, ans, rea, fai, ended),
           NEW ans2, NEW rea2, NEW fai2, NEW a, a \notin C,
           ans \subseteq ans2, ans2 \subseteq ans \cup {a}, rea2 \subseteq rea \cup {a},
           fai \subseteq fai2
    PROVE  Walked(C, order, rest, ans2, rea2, fai2, ended)
  <1>1. ans2 \cap C = ans \cap C /\ rea2 \cap C \subseteq rea \cap C
    OBVIOUS
  <1>2. Len(order) \in Nat /\ \A i \in 1..Len(order) : order[i] \in C
    BY LenProperties DEF IsChain
  <1> QED BY <1>1, <1>2 DEF Walked

\* The caller gives up.
LEMMA WalkCancelled ==
    ASSUME NEW C, NEW order, IsChain(C, order), NEW rest, NEW ans, NEW rea, NEW fai, NEW ended,
           Walked(C, order, rest, ans, rea, fai, ended)
    PROVE  Walked(C, order, << >>, ans, rea, fai, FALSE)
  <1>1. order \in Seq(C) /\ Len(order) \in Nat
    BY LenProperties DEF IsChain
  <1>2. << >> = From(order, Len(order) + 1) /\ Len(order) + 1 \in 1..Len(order) + 1
        /\ ~(Len(order) + 1 <= Len(order))
    BY <1>1, FromEnds
  <1>3. PICK k \in 1..Len(order) + 1 :
        /\ k <= Len(order) => ans \cap C = {} /\ rea \cap C \subseteq fai
        /\ k = Len(order) + 1 =>
            \/ \E a \in C : ans \cap C = {a} /\ (rea \cap C) \ fai \subseteq {a}
            \/ ans \cap C = {} /\ rea \cap C \subseteq fai
            \/ ans \cap C = {} /\ \E a \in C : (rea \cap C) \ fai \subseteq {a}
    BY DEF Walked
  <1>4. k <= Len(order) \/ k = Len(order) + 1
    BY <1>1
  <1> QED BY <1>2, <1>3, <1>4 DEF Walked

\* The caller gives up while the next adapter acts on its request.
LEMMA WalkCutShort ==
    ASSUME NEW C, NEW order, IsChain(C, order), NEW rest, NEW ans, NEW rea, NEW fai, NEW ended,
           Walked(C, order, rest, ans, rea, fai, ended), rest # << >>,
           NEW a, a = Head(rest)
    PROVE  Walked(C, order, << >>, ans, rea \cup {a}, fai, FALSE)
  <1>1. order \in Seq(C) /\ Len(order) \in Nat
    BY LenProperties DEF IsChain
  <1>2. PICK k \in 1..Len(order) + 1 :
          /\ rest = From(order, k)
          /\ k <= Len(order) => ans \cap C = {} /\ rea \cap C \subseteq fai
    BY DEF Walked
  <1>3. ans \cap C = {} /\ rea \cap C \subseteq fai
    BY <1>1, <1>2, FromProperties
  <1>4. a \in C /\ ((rea \cup {a}) \cap C) \ fai \subseteq {a}
    BY <1>3, WalkRest
  <1>5. << >> = From(order, Len(order) + 1) /\ Len(order) + 1 \in 1..Len(order) + 1
        /\ ~(Len(order) + 1 <= Len(order))
    BY <1>1, FromEnds
  <1> QED BY <1>3, <1>4, <1>5 DEF Walked

\* The adapter a call is at has only failures before it.
LEMMA NextInOrder ==
    ASSUME NEW C, NEW order, IsChain(C, order), NEW rest, NEW ans, NEW rea, NEW fai, NEW ended,
           Walked(C, order, rest, ans, rea, fai, ended), rest # << >>, InOrder(order, rea, fai),
           NEW a, a = Head(rest)
    PROVE  InOrder(order, rea \cup {a}, fai)
  <1>1. order \in Seq(C) /\ Len(order) \in Nat
    BY LenProperties DEF IsChain
  <1>2. PICK k \in 1..Len(order) + 1 :
          /\ rest = From(order, k)
          /\ k <= Len(order) => \A i \in 1..k - 1 : order[i] \in fai
    BY DEF Walked
  <1>3. k \in 1..Len(order)
    BY <1>1, <1>2, FromProperties
  <1>4. a = order[k]
    BY <1>1, <1>2, <1>3, FromHeadTail
  <1>5. ASSUME NEW i \in 1..Len(order), NEW j \in 1..Len(order), i < j, order[j] = order[k]
        PROVE  order[i] \in fai
    BY <1>1, <1>2, <1>3, <1>5 DEF IsChain
  <1> QED BY <1>4, <1>5 DEF InOrder

-------------------------------------------------------------------------------
(* One call of the router *)

\* What is known of a call at point p that escalates or not, with what it has left of both
\* chains, the adapters that answered it, that acted on it and that failed.
CallSound(p, high, esc, ntf, ans, rea, fai) ==
    /\ p \in {"idle", "next", "request", "done", "cancelled"} /\ high \in BOOLEAN
    /\ ans \subseteq rea /\ rea \subseteq Adapters /\ fai \subseteq Adapters
    /\ p \in {"next", "request"} <=> esc # << >> \/ ntf # << >>
    /\ p = "idle" => rea = {} /\ fai = {}
    /\ Walked(Providers, EscalationOrder, esc, ans, rea, fai,
              high /\ p \notin {"idle", "cancelled"})
    /\ Walked(Channels, NotificationOrder, ntf, ans, rea, fai,
              p \notin {"idle", "cancelled"})
    /\ InOrder(EscalationOrder, rea, fai)

AfterTurn(esc, ntf) == IF esc \o ntf = << >> THEN "done" ELSE "next"
Turn(esc, ntf) == Head(esc \o ntf)

LEMMA ChainsAre ==
    /\ IsChain(Providers, EscalationOrder)
           /\ IsChain(Channels, NotificationOrder)
           /\ Providers \cap Channels = {}
           /\ Adapters = Providers \cup Channels
  <1>1. ASSUME NEW C, NEW order, order \in Seq(C), C = ToSet(order), IsInjective(order)
        PROVE  IsChain(C, order)
    <2>1. DOMAIN order = 1..Len(order)
      BY <1>1, LenProperties
    <2> QED BY <1>1, <2>1 DEF IsChain, ToSet, IsInjective
  <1> QED BY <1>1, RouterAssumption DEF Providers, Channels, Adapters

\* Whose turn it is: the next provider's, if one is left, else the next channel's.
LEMMA TurnIs ==
    ASSUME NEW S, NEW T, NEW esc \in Seq(S), NEW ntf \in Seq(T)
    PROVE  /\ esc \o ntf = << >> <=> esc = << >> /\ ntf = << >>
           /\ esc # << >> => Turn(esc, ntf) = Head(esc)
           /\ esc = << >> /\ ntf # << >> => Turn(esc, ntf) = Head(ntf)
  <1>1. esc \in Seq(S \cup T) /\ ntf \in Seq(S \cup T)
    BY SeqMonotonic
  <1>2. esc \o ntf = << >> <=> esc = << >> /\ ntf = << >>
    BY <1>1, ConcatEqualIffEmpty
  <1>3. ASSUME esc # << >> PROVE Turn(esc, ntf) = Head(esc)
    BY <1>1, <1>3, ConcatProperties, EmptySeq, LenProperties DEF Turn
  <1>4. ASSUME esc = << >> PROVE esc \o ntf = ntf
    BY <1>1, <1>4, ConcatEmptySeq
  <1> QED BY <1>2, <1>3, <1>4 DEF Turn

LEMMA CallRests ==
    ASSUME NEW p, NEW high, NEW esc, NEW ntf, NEW ans, NEW rea, NEW fai,
           CallSound(p, high, esc, ntf, ans, rea, fai)
    PROVE  /\ esc \in Seq(Providers) /\ IsSuffix(esc, EscalationOrder)
           /\ ntf \in Seq(Channels) /\ IsSuffix(ntf, NotificationOrder)
           /\ esc # << >> => Turn(esc, ntf) = Head(esc) /\ Head(esc) \in Providers
           /\ esc = << >> /\ ntf # << >> =>
                Turn(esc, ntf) = Head(ntf) /\ Head(ntf) \in Channels
           /\ esc \o ntf = << >> <=> esc = << >> /\ ntf = << >>
  <1>1. /\ esc \in Seq(Providers) /\ IsSuffix(esc, EscalationOrder)
        /\ esc # << >> => Head(esc) \in Providers
    BY ChainsAre, WalkRest DEF CallSound
  <1>2. /\ ntf \in Seq(Channels) /\ IsSuffix(ntf, NotificationOrder)
        /\ ntf # << >> => Head(ntf) \in Channels
    BY ChainsAre, WalkRest DEF CallSound
  <1>3. /\ esc \o ntf = << >> <=> esc = << >> /\ ntf = << >>
        /\ esc # << >> => Turn(esc, ntf) = Head(esc)
        /\ esc = << >> /\ ntf # << >> => Turn(esc, ntf) = Head(ntf)
    BY <1>1, <1>2, TurnIs
  <1> QED BY <1>1, <1>2, <1>3

LEMMA CallBegins ==
    ASSUME NEW high \in BOOLEAN
    PROVE  LET esc == IF high THEN EscalationOrder ELSE << >>
           IN  /\ CallSound(AfterTurn(esc, NotificationOrder), high, esc, NotificationOrder, {}, {}, {})
               /\ CallSound("idle", high, << >>, << >>, {}, {}, {})
  <1> DEFINE esc == IF high THEN EscalationOrder ELSE << >>
             p == AfterTurn(esc, NotificationOrder)
  <1>1. EscalationOrder \in Seq(Providers) /\ NotificationOrder \in Seq(Channels)
        /\ << >> \in Seq(Providers)
    BY ChainsAre, EmptySeq DEF IsChain
  <1>2. esc \o NotificationOrder = << >> <=> esc = << >> /\ NotificationOrder = << >>
    BY <1>1, TurnIs
  <1>3. p \in {"next", "done"} /\ (p = "next" <=> esc # << >> \/ NotificationOrder # << >>)
    BY <1>2 DEF AfterTurn
  <1>4. Walked(Providers, EscalationOrder, esc, {}, {}, {}, high /\ p \notin {"idle", "cancelled"})
    <2>1. CASE high
      BY <2>1, ChainsAre, WalkBegins
    <2>2. CASE ~high
      <3>1. Walked(Providers, EscalationOrder, << >>, {}, {}, {}, FALSE)
        BY ChainsAre, WalkBegins
      <3>2. esc = << >> /\ (high /\ p \notin {"idle", "cancelled"}) = FALSE
        BY <2>2
      <3> HIDE DEF esc, p
      <3> QED BY <3>1, <3>2
    <2> QED BY <2>1, <2>2
  <1>5. Walked(Channels, NotificationOrder, NotificationOrder, {}, {}, {}, p \notin {"idle", "cancelled"})
    BY ChainsAre, WalkBegins
  <1>6. InOrder(EscalationOrder, {}, {})
    BY DEF InOrder
  <1>7. CallSound("idle", high, << >>, << >>, {}, {}, {})
    <2>1. /\ (high /\ "idle" \notin {"idle", "cancelled"}) = FALSE
          /\ ("idle" \notin {"idle", "cancelled"}) = FALSE
      OBVIOUS
    <2>2. /\ Walked(Providers, EscalationOrder, << >>, {}, {}, {}, FALSE)
          /\ Walked(Channels, NotificationOrder, << >>, {}, {}, {}, FALSE)
      BY ChainsAre, WalkBegins
    <2> QED BY <1>6, <2>1, <2>2 DEF CallSound
  <1> HIDE DEF esc, p
  <1>8. CallSound(p, high, esc, NotificationOrder, {}, {}, {})
    BY <1>3, <1>4, <1>5, <1>6 DEF CallSound
  <1> QED BY <1>7, <1>8 DEF esc, p

\* The request is sent: the call stays at its adapter.
LEMMA CallPosts ==
    ASSUME NEW high, NEW esc, NEW ntf, NEW ans, NEW rea, NEW fai,
           CallSound("next", high, esc, ntf, ans, rea, fai)
    PROVE  CallSound("request", high, esc, ntf, ans, rea, fai)
  <1>1. /\ (high /\ "request" \notin {"idle", "cancelled"}) = (high /\ "next" \notin {"idle", "cancelled"})
        /\ ("request" \notin {"idle", "cancelled"}) = ("next" \notin {"idle", "cancelled"})
    OBVIOUS
  <1> QED BY <1>1 DEF CallSound

\* What is left of the chains after a failure.
EscLeft(esc) == IF esc # << >> THEN Tail(esc) ELSE esc
NtfLeft(esc, ntf) == IF esc # << >> THEN ntf ELSE Tail(ntf)

\* The adapter whose turn it is fails, before or after it acted.
LEMMA CallFails ==
    ASSUME NEW p \in {"next", "request"}, NEW high, NEW esc, NEW ntf, NEW ans, NEW rea, NEW fai,
           CallSound(p, high, esc, ntf, ans, rea, fai)
    PROVE  LET esc2 == EscLeft(esc)
               ntf2 == NtfLeft(esc, ntf)
               fai2 == fai \cup {Turn(esc, ntf)}
           IN  /\ CallSound(AfterTurn(esc2, ntf2), high, esc2, ntf2, ans, rea, fai2)
               /\ CallSound(AfterTurn(esc2, ntf2), high, esc2, ntf2, ans, rea \cup {Turn(esc, ntf)}, fai2)
  <1> DEFINE a == Turn(esc, ntf)
             fai2 == fai \cup {a}
             esc2 == EscLeft(esc)
             ntf2 == NtfLeft(esc, ntf)
             p2 == AfterTurn(esc2, ntf2)
  <1> SUFFICES ASSUME NEW rea2 \in {rea, rea \cup {a}}
               PROVE  CallSound(p2, high, esc2, ntf2, ans, rea2, fai2)
    OBVIOUS
  <1>1. /\ IsChain(Providers, EscalationOrder) /\ IsChain(Channels, NotificationOrder)
        /\ Providers \cap Channels = {}
        /\ Adapters = Providers \cup Channels
    BY ChainsAre
  <1> DEFINE over == TRUE
  <1>2. /\ Walked(Providers, EscalationOrder, esc, ans, rea, fai, high)
        /\ Walked(Channels, NotificationOrder, ntf, ans, rea, fai, over)
        /\ esc # << >> \/ ntf # << >>
    <2>1. (high /\ p \notin {"idle", "cancelled"}) = high /\ (p \notin {"idle", "cancelled"}) = TRUE
      BY DEF CallSound
    <2> QED BY <2>1 DEF CallSound
  <1>3. /\ Walked(Providers, EscalationOrder, esc2, ans, rea2, fai2, high)
        /\ Walked(Channels, NotificationOrder, ntf2, ans, rea2, fai2, over)
        /\ InOrder(EscalationOrder, rea2, fai2)
        /\ a \in Adapters
    <2>r. rea2 \subseteq rea \cup {a} /\ fai2 = fai \cup {a}
      OBVIOUS
    <2>o. InOrder(EscalationOrder, rea, fai2)
      BY DEF CallSound, InOrder
    <2>1. CASE esc # << >>
      <3>1. a = Head(esc) /\ a \in Providers /\ a \notin Channels
        BY <1>1, <2>1, CallRests
      <3>2. esc2 = Tail(esc) /\ ntf2 = ntf
        BY <2>1 DEF EscLeft, NtfLeft
      <3> HIDE DEF a, fai2, esc2, ntf2, p2, over
      <3>3. Walked(Providers, EscalationOrder, esc2, ans, rea2, fai2, high)
        BY <1>1, <1>2, <2>1, <2>r, <3>1, <3>2, WalkFails
      <3>4. Walked(Channels, NotificationOrder, ntf, ans, rea2, fai2, over)
        BY <1>1, <1>2, <2>r, <3>1, WalkElsewhere
      <3>5. InOrder(EscalationOrder, rea \cup {a}, fai)
        BY <1>1, <1>2, <2>1, <3>1, NextInOrder DEF CallSound
      <3>6. InOrder(EscalationOrder, rea2, fai2)
        BY <3>5, <2>r DEF InOrder
      <3> QED BY <1>1, <3>1, <3>2, <3>3, <3>4, <3>6
    <2>2. CASE esc = << >>
      <3>1. a = Head(ntf) /\ a \in Channels /\ a \notin Providers /\ ntf # << >>
        BY <1>1, <1>2, <2>2, CallRests
      <3>2. esc2 = esc /\ ntf2 = Tail(ntf)
        BY <2>2 DEF EscLeft, NtfLeft
      <3> HIDE DEF a, fai2, esc2, ntf2, p2, over
      <3>3. Walked(Channels, NotificationOrder, ntf2, ans, rea2, fai2, over)
        BY <1>1, <1>2, <2>r, <3>1, <3>2, WalkFails
      <3>4. Walked(Providers, EscalationOrder, esc, ans, rea2, fai2, high)
        BY <1>1, <1>2, <2>r, <3>1, WalkElsewhere
      <3>5. \A i \in 1..Len(EscalationOrder) : EscalationOrder[i] # a
        BY <1>1, <3>1 DEF IsChain
      <3>6. InOrder(EscalationOrder, rea2, fai2)
        BY <3>5, <2>o, <2>r DEF InOrder
      <3> QED BY <1>1, <3>1, <3>2, <3>3, <3>4, <3>6
    <2> QED BY <2>1, <2>2
  <1>4. p2 \in {"next", "done"} /\ (p2 = "next" <=> esc2 # << >> \/ ntf2 # << >>)
    <2>1. esc2 \in Seq(Providers) /\ ntf2 \in Seq(Channels)
      BY <1>1, <1>3, WalkRest
    <2> QED BY <2>1, TurnIs DEF AfterTurn
  <1>5. (high /\ p2 \notin {"idle", "cancelled"}) = high /\ (p2 \notin {"idle", "cancelled"}) = TRUE
    BY <1>4 DEF CallSound
  <1>6. /\ high \in BOOLEAN /\ ans \subseteq rea2 /\ rea2 \subseteq Adapters
        /\ fai2 \subseteq Adapters
    BY <1>3 DEF CallSound
  <1> HIDE DEF a, fai2, esc2, ntf2, p2
  <1>7. CallSound(p2, high, esc2, ntf2, ans, rea2, fai2)
    BY <1>3, <1>4, <1>5, <1>6 DEF CallSound
  <1> QED BY <1>7 DEF a, fai2, esc2, ntf2, p2

\* The adapter whose turn it is answers with a success: its chain is over.
LEMMA CallSucceeds ==
    ASSUME NEW p \in {"next", "request"}, NEW high, NEW esc, NEW ntf, NEW ans, NEW rea, NEW fai,
           CallSound(p, high, esc, ntf, ans, rea, fai)
    PROVE  LET ans2 == ans \cup {Turn(esc, ntf)}
               rea2 == rea \cup {Turn(esc, ntf)}
               esc2 == IF esc # << >> THEN << >> ELSE esc
               ntf2 == IF esc # << >> THEN ntf ELSE << >>
           IN  CallSound(AfterTurn(esc2, ntf2), high, esc2, ntf2, ans2, rea2, fai)
  <1> DEFINE a == Turn(esc, ntf)
             ans2 == ans \cup {a}
             rea2 == rea \cup {a}
             esc2 == IF esc # << >> THEN << >> ELSE esc
             ntf2 == IF esc # << >> THEN ntf ELSE << >>
             p2 == AfterTurn(esc2, ntf2)
             over == TRUE
  <1>1. /\ IsChain(Providers, EscalationOrder) /\ IsChain(Channels, NotificationOrder)
        /\ Providers \cap Channels = {}
        /\ Adapters = Providers \cup Channels
    BY ChainsAre
  <1>2. /\ Walked(Providers, EscalationOrder, esc, ans, rea, fai, high)
        /\ Walked(Channels, NotificationOrder, ntf, ans, rea, fai, over)
        /\ esc # << >> \/ ntf # << >>
    <2>1. (high /\ p \notin {"idle", "cancelled"}) = high /\ (p \notin {"idle", "cancelled"}) = TRUE
      BY DEF CallSound
    <2> QED BY <2>1 DEF CallSound
  <1>3. /\ Walked(Providers, EscalationOrder, esc2, ans2, rea2, fai, high)
        /\ Walked(Channels, NotificationOrder, ntf2, ans2, rea2, fai, over)
        /\ InOrder(EscalationOrder, rea2, fai)
        /\ a \in Adapters
    <2>r. ans2 = ans \cup {a} /\ rea2 = rea \cup {a} /\ ans \subseteq ans2 /\ fai \subseteq fai
      OBVIOUS
    <2>1. CASE esc # << >>
      <3>1. a = Head(esc) /\ a \in Providers /\ a \notin Channels
        BY <1>1, <2>1, CallRests
      <3>2. esc2 = << >> /\ ntf2 = ntf
        BY <2>1
      <3> HIDE DEF a, ans2, rea2, esc2, ntf2, p2, over
      <3>3. Walked(Providers, EscalationOrder, esc2, ans2, rea2, fai, high)
        BY <1>1, <1>2, <2>1, <2>r, <3>1, <3>2, WalkSucceeds
      <3>4. Walked(Channels, NotificationOrder, ntf, ans2, rea2, fai, over)
        BY <1>1, <1>2, <2>r, <3>1, WalkElsewhere
      <3>5. InOrder(EscalationOrder, rea2, fai)
        BY <1>1, <1>2, <2>1, <2>r, <3>1, NextInOrder DEF CallSound
      <3> QED BY <1>1, <3>1, <3>2, <3>3, <3>4, <3>5
    <2>2. CASE esc = << >>
      <3>1. a = Head(ntf) /\ a \in Channels /\ a \notin Providers /\ ntf # << >>
        BY <1>1, <1>2, <2>2, CallRests
      <3>2. esc2 = esc /\ ntf2 = << >>
        BY <2>2
      <3> HIDE DEF a, ans2, rea2, esc2, ntf2, p2, over
      <3>3. Walked(Channels, NotificationOrder, ntf2, ans2, rea2, fai, over)
        BY <1>1, <1>2, <2>r, <3>1, <3>2, WalkSucceeds
      <3>4. Walked(Providers, EscalationOrder, esc, ans2, rea2, fai, high)
        BY <1>1, <1>2, <2>r, <3>1, WalkElsewhere
      <3>5. \A i \in 1..Len(EscalationOrder) : EscalationOrder[i] # a
        BY <1>1, <3>1 DEF IsChain
      <3>6. InOrder(EscalationOrder, rea2, fai)
        BY <3>5, <2>r DEF InOrder, CallSound
      <3> QED BY <1>1, <3>1, <3>2, <3>3, <3>4, <3>6
    <2> QED BY <2>1, <2>2
  <1>4. p2 \in {"next", "done"} /\ (p2 = "next" <=> esc2 # << >> \/ ntf2 # << >>)
    <2>1. esc2 \in Seq(Providers) /\ ntf2 \in Seq(Channels)
      BY <1>1, <1>3, WalkRest
    <2> HIDE DEF esc2, ntf2
    <2> QED BY <2>1, TurnIs DEF AfterTurn
  <1>5. (high /\ p2 \notin {"idle", "cancelled"}) = high /\ (p2 \notin {"idle", "cancelled"}) = TRUE
    BY <1>4 DEF CallSound
  <1>6. /\ high \in BOOLEAN /\ ans2 \subseteq rea2 /\ rea2 \subseteq Adapters
        /\ fai \subseteq Adapters
    BY <1>3 DEF CallSound
  <1> HIDE DEF a, ans2, rea2, esc2, ntf2, p2
  <1>7. CallSound(p2, high, esc2, ntf2, ans2, rea2, fai)
    BY <1>3, <1>4, <1>5, <1>6 DEF CallSound
  <1> QED BY <1>7 DEF a, ans2, rea2, esc2, ntf2, p2

\* The caller is cancelled, between two adapters or while one has its request.
LEMMA CallCancelled ==
    ASSUME NEW p \in {"next", "request"}, NEW high, NEW esc, NEW ntf, NEW ans, NEW rea, NEW fai,
           CallSound(p, high, esc, ntf, ans, rea, fai),
           NEW rea2 \in {rea, rea \cup {Turn(esc, ntf)}}
    PROVE  CallSound("cancelled", high, << >>, << >>, ans, rea2, fai)
  <1> DEFINE a == Turn(esc, ntf)
             over == FALSE
             going == TRUE
  <1>1. /\ IsChain(Providers, EscalationOrder) /\ IsChain(Channels, NotificationOrder)
        /\ Providers \cap Channels = {}
        /\ Adapters = Providers \cup Channels
    BY ChainsAre
  <1>2. /\ (high /\ "cancelled" \notin {"idle", "cancelled"}) = over
        /\ ("cancelled" \notin {"idle", "cancelled"}) = over
        /\ (high /\ p \notin {"idle", "cancelled"}) = high
        /\ (p \notin {"idle", "cancelled"}) = going
    BY DEF CallSound
  <1>3. /\ Walked(Providers, EscalationOrder, esc, ans, rea, fai, high)
        /\ Walked(Channels, NotificationOrder, ntf, ans, rea, fai, going)
        /\ esc # << >> \/ ntf # << >>
        /\ InOrder(EscalationOrder, rea, fai)
    BY <1>2 DEF CallSound
  <1>4. over = FALSE
    OBVIOUS
  <1> HIDE DEF over, going
  <1>5. /\ Walked(Providers, EscalationOrder, << >>, ans, rea, fai, over)
        /\ Walked(Channels, NotificationOrder, << >>, ans, rea, fai, over)
    BY <1>1, <1>3, <1>4, WalkCancelled
  <1>6. /\ Walked(Providers, EscalationOrder, << >>, ans, rea2, fai, over)
        /\ Walked(Channels, NotificationOrder, << >>, ans, rea2, fai, over)
        /\ InOrder(EscalationOrder, rea2, fai)
        /\ rea \subseteq rea2 /\ rea2 \subseteq Adapters
    <2>r. rea \subseteq rea2 /\ rea2 \subseteq rea \cup {a} /\ ans \subseteq ans /\ fai \subseteq fai
          /\ (rea2 = rea \/ rea2 = rea \cup {a})
      OBVIOUS
    <2>s. rea \subseteq Adapters
      BY DEF CallSound
    <2>0. CASE rea2 = rea
      BY <1>3, <1>5, <2>0, <2>s
    <2>1. CASE esc # << >> /\ rea2 = rea \cup {a}
      <3>1. a = Head(esc) /\ a \in Providers /\ a \notin Channels
        BY <1>1, <2>1, CallRests
      <3> HIDE DEF a
      <3>2. Walked(Providers, EscalationOrder, << >>, ans, rea2, fai, over)
        BY <1>1, <1>3, <1>4, <2>1, <3>1, WalkCutShort
      <3>3. Walked(Channels, NotificationOrder, << >>, ans, rea2, fai, over)
        BY <1>1, <1>5, <2>r, <3>1, WalkElsewhere
      <3>4. InOrder(EscalationOrder, rea2, fai)
        BY <1>1, <1>3, <2>1, <3>1, NextInOrder
      <3> QED BY <1>1, <2>r, <2>s, <3>1, <3>2, <3>3, <3>4
    <2>2. CASE esc = << >> /\ rea2 = rea \cup {a}
      <3>1. a = Head(ntf) /\ a \in Channels /\ a \notin Providers /\ ntf # << >>
        BY <1>1, <1>3, <2>2, CallRests
      <3> HIDE DEF a
      <3>2. Walked(Channels, NotificationOrder, << >>, ans, rea2, fai, over)
        BY <1>1, <1>3, <1>4, <2>2, <3>1, WalkCutShort
      <3>3. Walked(Providers, EscalationOrder, << >>, ans, rea2, fai, over)
        BY <1>1, <1>5, <2>r, <3>1, WalkElsewhere
      <3>4. \A i \in 1..Len(EscalationOrder) : EscalationOrder[i] # a
        BY <1>1, <3>1 DEF IsChain
      <3>5. InOrder(EscalationOrder, rea2, fai)
        BY <1>3, <2>2, <3>4 DEF InOrder
      <3> QED BY <1>1, <2>r, <2>s, <3>1, <3>2, <3>3, <3>5
    <2> QED BY <2>r, <2>0, <2>1, <2>2
  <1>7. ans \subseteq rea2
    BY <1>6 DEF CallSound
  <1>8. high \in BOOLEAN /\ fai \subseteq Adapters
    BY DEF CallSound
  <1> QED BY <1>2, <1>6, <1>7, <1>8 DEF CallSound

-------------------------------------------------------------------------------
(* The calls of the router, and the pages *)

Sending(r) ==
    CallSound(at[r], severe[r], escalate[r], notify[r], answered[r], reached[r], failed[r])

\* What each call knows of itself, and that the calls it came after have ended.
CallsSound ==
    /\ at = [r \in Routes |-> at[r]] /\ severe = [r \in Routes |-> severe[r]]
    /\ escalate = [r \in Routes |-> escalate[r]] /\ notify = [r \in Routes |-> notify[r]]
    /\ answered = [r \in Routes |-> answered[r]] /\ reached = [r \in Routes |-> reached[r]]
    /\ failed = [r \in Routes |-> failed[r]] /\ before = [r \in Routes |-> before[r]]
    /\ \A r \in Routes : Sending(r) /\ before[r] \subseteq {s \in Routes : Ended(s)}

\* A page that is open was opened by an alert, and by one that a resolution which closed it
\* did not come after.
PagesOpened ==
    /\ page \in [Providers -> {"none", "open", "resolved"}]
    /\ \A q \in Providers : page[q] = "open" =>
        /\ \E s \in Routes : Kind[s] = "alert" /\ q \in reached[s]
        /\ \A r \in Routes : Kind[r] = "resolution" /\ q \in answered[r] =>
            \E s \in Routes : Kind[s] = "alert" /\ at[s] # "idle" /\ s \notin before[r]

\* The step of one call to what it may know next.
Moves(r, p, high, esc, ntf, ans, rea, fai, bef) ==
    /\ at' = [at EXCEPT ![r] = p] /\ severe' = [severe EXCEPT ![r] = high]
    /\ escalate' = [escalate EXCEPT ![r] = esc] /\ notify' = [notify EXCEPT ![r] = ntf]
    /\ answered' = [answered EXCEPT ![r] = ans] /\ reached' = [reached EXCEPT ![r] = rea]
    /\ failed' = [failed EXCEPT ![r] = fai] /\ before' = [before EXCEPT ![r] = bef]

LEMMA OneCallMoves ==
    ASSUME CallsSound, NEW r \in Routes,
           NEW p, NEW high, NEW esc, NEW ntf, NEW ans, NEW rea, NEW fai, NEW bef,
           Moves(r, p, high, esc, ntf, ans, rea, fai, bef),
           CallSound(p, high, esc, ntf, ans, rea, fai),
           Ended(r) => p \in {"done", "cancelled"},
           bef \subseteq {s \in Routes : Ended(s)}
    PROVE  CallsSound'
  <1>1. /\ at' = [s \in Routes |-> at'[s]] /\ severe' = [s \in Routes |-> severe'[s]]
        /\ escalate' = [s \in Routes |-> escalate'[s]] /\ notify' = [s \in Routes |-> notify'[s]]
        /\ answered' = [s \in Routes |-> answered'[s]] /\ reached' = [s \in Routes |-> reached'[s]]
        /\ failed' = [s \in Routes |-> failed'[s]] /\ before' = [s \in Routes |-> before'[s]]
    BY DEF CallsSound, Moves
  <1>2. /\ at'[r] = p /\ severe'[r] = high /\ escalate'[r] = esc /\ notify'[r] = ntf
        /\ answered'[r] = ans /\ reached'[r] = rea /\ failed'[r] = fai /\ before'[r] = bef
    BY DEF CallsSound, Moves
  <1>3. ASSUME NEW s \in Routes, s # r
        PROVE  /\ at'[s] = at[s] /\ severe'[s] = severe[s] /\ escalate'[s] = escalate[s]
               /\ notify'[s] = notify[s] /\ answered'[s] = answered[s]
               /\ reached'[s] = reached[s] /\ failed'[s] = failed[s] /\ before'[s] = before[s]
    BY <1>3 DEF CallsSound, Moves
  <1>4. ASSUME NEW s \in Routes PROVE Sending(s)'
    BY <1>2, <1>3 DEF Sending, CallsSound
  <1>5. ASSUME NEW s \in Routes, Ended(s) PROVE Ended(s)'
    BY <1>2, <1>3, <1>5 DEF Ended
  <1>6. ASSUME NEW s \in Routes PROVE before'[s] \subseteq {t \in Routes : Ended(t)'}
    <2>1. before'[s] \subseteq {t \in Routes : Ended(t)}
      BY <1>2, <1>3 DEF CallsSound
    <2> QED BY <1>5, <2>1
  <1> QED BY <1>1, <1>4, <1>6 DEF CallsSound

\* What a step may do to the pages and to what is known of them.
LEMMA PagesKept ==
    ASSUME PagesOpened, page' \in [Providers -> {"none", "open", "resolved"}],
           NEW r \in Routes,
           \A s \in Routes : reached[s] \subseteq reached'[s] /\ (at[s] # "idle" => at'[s] # "idle"),
           \A s \in Routes : \A q \in Providers :
               Kind[s] = "resolution" /\ q \in answered'[s] /\ page'[q] = "open" =>
                   q \in answered[s] /\ before'[s] = before[s],
           \A q \in Providers : page'[q] = "open" =>
               \/ page[q] = "open"
               \/ /\ Kind[r] = "alert" /\ q \in reached'[r] /\ at'[r] # "idle"
                  /\ \A s \in Routes : r \notin before'[s]
    PROVE  PagesOpened'
  <1> SUFFICES ASSUME NEW q \in Providers, page'[q] = "open"
               PROVE  /\ \E s \in Routes : Kind[s] = "alert" /\ q \in reached'[s]
                      /\ \A t \in Routes : Kind[t] = "resolution" /\ q \in answered'[t] =>
                          \E s \in Routes : Kind[s] = "alert" /\ at'[s] # "idle" /\ s \notin before'[t]
    BY DEF PagesOpened, Providers
  <1>1. CASE page[q] = "open"
    <2>1. \E s \in Routes : Kind[s] = "alert" /\ q \in reached'[s]
      BY <1>1 DEF PagesOpened
    <2>2. ASSUME NEW t \in Routes, Kind[t] = "resolution", q \in answered'[t]
          PROVE  \E s \in Routes : Kind[s] = "alert" /\ at'[s] # "idle" /\ s \notin before'[t]
      <3>1. q \in answered[t] /\ before'[t] = before[t]
        BY <2>2
      <3>2. PICK s \in Routes : Kind[s] = "alert" /\ at[s] # "idle" /\ s \notin before[t]
        BY <1>1, <2>2, <3>1 DEF PagesOpened
      <3> QED BY <3>1, <3>2
    <2> QED BY <2>1, <2>2
  <1>2. CASE Kind[r] = "alert" /\ q \in reached'[r] /\ at'[r] # "idle"
             /\ \A s \in Routes : r \notin before'[s]
    BY <1>2
  <1> QED BY <1>1, <1>2

\* A failure of the adapter whose turn it is, before or after it acted.
Fails(r) ==
    /\ at[r] \in {"next", "request"} /\ FailCurrent(r)
    /\ Act(r) \/ UNCHANGED <<page, reached>>
    /\ UNCHANGED <<severe, before>>

\* The steps of the router, without what they do to the circuits.
LEMMA StepKinds ==
    ASSUME [RouterNext]_routerVars
    PROVE  \/ UNCHANGED <<page, at, escalate, notify, severe, answered, failed, reached, before>>
           \/ \E r \in Routes :
                \/ \E high \in BOOLEAN : Route(r, high)
                \/ Post(r) \/ Delivered(r) \/ Fails(r)
                \/ \E acted \in BOOLEAN : CancelRoute(r, acted)
  <1>1. ASSUME NEW a, CoolDownAdapter(a) \/ \E success \in BOOLEAN : OtherDelivery(a, success)
        PROVE  UNCHANGED <<page, at, escalate, notify, severe, answered, failed, reached, before>>
    BY <1>1 DEF CoolDownAdapter, OtherDelivery
  <1>2. ASSUME NEW r \in Routes, Skip(r) PROVE Fails(r)
    BY <1>2 DEF Skip, Fails
  <1>3. ASSUME NEW r \in Routes, NEW acted \in BOOLEAN, TransportFails(r, acted)
        PROVE  Fails(r)
    BY <1>3 DEF TransportFails, Fails
  <1>4. ASSUME NEW r \in Routes, ApiRefuses(r) PROVE Fails(r)
    BY <1>4 DEF ApiRefuses, Fails
  <1>5. ASSUME NEW r \in Routes, BodyUnreadable(r) PROVE Fails(r)
    BY <1>5 DEF BodyUnreadable, Fails
  <1>6. CASE UNCHANGED routerVars
    BY <1>6 DEF routerVars
  <1> QED BY <1>1, <1>2, <1>3, <1>4, <1>5, <1>6 DEF RouterNext, Answer

LEMMA ProceedIs ==
    ASSUME NEW r, Proceed(r)
    PROVE  at' = [at EXCEPT ![r] = AfterTurn(escalate'[r], notify'[r])]
  BY DEF Proceed, AfterTurn

LEMMA InitCalls == ASSUME RouterInit PROVE CallsSound /\ PagesOpened
  <1>1. ASSUME NEW r \in Routes PROVE Sending(r) /\ before[r] \subseteq {s \in Routes : Ended(s)}
    BY CallBegins DEF RouterInit, Sending
  <1>2. CallsSound
    BY <1>1 DEF RouterInit, CallsSound
  <1>3. PagesOpened
    BY DEF RouterInit, PagesOpened
  <1> QED BY <1>2, <1>3

LEMMA StepCalls ==
    ASSUME CallsSound, [RouterNext]_routerVars
    PROVE  CallsSound'
  <1>0. CASE UNCHANGED <<page, at, escalate, notify, severe, answered, failed, reached, before>>
    BY <1>0 DEF CallsSound, Sending, Ended
  <1>1. ASSUME NEW r \in Routes, NEW high \in BOOLEAN, Route(r, high) PROVE CallsSound'
    <2> DEFINE esc == IF high THEN EscalationOrder ELSE << >>
               p == AfterTurn(esc, NotificationOrder)
               bef == {s \in Routes : Ended(s)}
    <2>1. Sending(r) /\ at[r] = "idle" /\ ~Ended(r)
      BY <1>1 DEF CallsSound, Route, Ended
    <2>2. answered[r] = {} /\ reached[r] = {} /\ failed[r] = {}
      BY <2>1 DEF Sending, CallSound
    <2>3. escalate'[r] = esc /\ notify'[r] = NotificationOrder
      BY <1>1 DEF CallsSound, Route
    <2>4. at' = [at EXCEPT ![r] = p]
      BY <1>1, <2>3, ProceedIs DEF Route
    <2>5. /\ severe' = [severe EXCEPT ![r] = high]
          /\ escalate' = [escalate EXCEPT ![r] = esc] /\ notify' = [notify EXCEPT ![r] = NotificationOrder]
          /\ answered' = answered /\ reached' = reached /\ failed' = failed
          /\ before' = [before EXCEPT ![r] = bef]
      BY <1>1 DEF Route
    <2>6. CallSound(p, high, esc, NotificationOrder, {}, {}, {})
      BY CallBegins
    <2> HIDE DEF esc, p, bef
    <2>7. Moves(r, p, high, esc, NotificationOrder, {}, {}, {}, bef)
      BY <2>2, <2>4, <2>5 DEF Moves, CallsSound
    <2>8. bef \subseteq {s \in Routes : Ended(s)}
      BY DEF bef
    <2> QED BY <2>1, <2>6, <2>7, <2>8, OneCallMoves
  <1>2. ASSUME NEW r \in Routes, Post(r) PROVE CallsSound'
    <2>1. Sending(r) /\ at[r] = "next" /\ ~Ended(r) /\ before[r] \subseteq {s \in Routes : Ended(s)}
      BY <1>2 DEF CallsSound, Post, Ended
    <2>2. Moves(r, "request", severe[r], escalate[r], notify[r], answered[r], reached[r], failed[r], before[r])
      BY <1>2 DEF Moves, CallsSound, Post
    <2>3. CallSound("request", severe[r], escalate[r], notify[r], answered[r], reached[r], failed[r])
      BY <2>1, CallPosts DEF Sending
    <2> QED BY <2>1, <2>2, <2>3, OneCallMoves
  <1>3. ASSUME NEW r \in Routes, Delivered(r) PROVE CallsSound'
    <2> DEFINE a == Turn(escalate[r], notify[r])
               esc == IF escalate[r] # << >> THEN << >> ELSE escalate[r]
               ntf == IF escalate[r] # << >> THEN notify[r] ELSE << >>
               p == AfterTurn(esc, ntf)
    <2>1. Sending(r) /\ at[r] \in {"next", "request"} /\ ~Ended(r)
          /\ before[r] \subseteq {s \in Routes : Ended(s)}
      BY <1>3 DEF CallsSound, Delivered, Ended
    <2>2. a = Current(r)
      BY DEF Turn, Current
    <2>3. escalate' = [escalate EXCEPT ![r] = esc] /\ notify' = [notify EXCEPT ![r] = ntf]
      BY <1>3 DEF CallsSound, Delivered, GoOn
    <2>4. at' = [at EXCEPT ![r] = p]
      <3>1. escalate'[r] = esc /\ notify'[r] = ntf
        BY <2>3 DEF CallsSound
      <3> QED BY <1>3, <3>1, ProceedIs DEF Delivered, GoOn
    <2>5. /\ severe' = severe /\ failed' = failed /\ before' = before
          /\ answered' = [answered EXCEPT ![r] = answered[r] \cup {a}]
          /\ reached' = [reached EXCEPT ![r] = reached[r] \cup {a}]
      BY <1>3, <2>2 DEF Delivered, Act
    <2>6. CallSound(p, severe[r], esc, ntf, answered[r] \cup {a}, reached[r] \cup {a}, failed[r])
      BY <2>1, CallSucceeds DEF Sending
    <2> HIDE DEF a, esc, ntf, p
    <2>7. Moves(r, p, severe[r], esc, ntf, answered[r] \cup {a}, reached[r] \cup {a}, failed[r], before[r])
      BY <2>3, <2>4, <2>5 DEF Moves, CallsSound
    <2> QED BY <2>1, <2>6, <2>7, OneCallMoves
  <1>4. ASSUME NEW r \in Routes, Fails(r) PROVE CallsSound'
    <2> DEFINE a == Turn(escalate[r], notify[r])
               esc == EscLeft(escalate[r])
               ntf == NtfLeft(escalate[r], notify[r])
               p == AfterTurn(esc, ntf)
    <2>1. Sending(r) /\ at[r] \in {"next", "request"} /\ ~Ended(r)
          /\ before[r] \subseteq {s \in Routes : Ended(s)}
      BY <1>4 DEF CallsSound, Fails, Ended
    <2>2. a = Current(r)
      BY DEF Turn, Current
    <2>3. escalate' = [escalate EXCEPT ![r] = esc] /\ notify' = [notify EXCEPT ![r] = ntf]
      BY <1>4 DEF CallsSound, Fails, FailCurrent, GoOn, EscLeft, NtfLeft
    <2>4. at' = [at EXCEPT ![r] = p]
      <3>1. escalate'[r] = esc /\ notify'[r] = ntf
        BY <2>3 DEF CallsSound
      <3> QED BY <1>4, <3>1, ProceedIs DEF Fails, FailCurrent, GoOn
    <2>5. PICK rea \in {reached[r], reached[r] \cup {a}} : reached' = [reached EXCEPT ![r] = rea]
      <3>1. CASE Act(r)
        BY <2>2, <3>1 DEF Act
      <3>2. CASE UNCHANGED <<page, reached>>
        BY <3>2 DEF CallsSound
      <3> QED BY <1>4, <3>1, <3>2 DEF Fails
    <2>6. /\ severe' = severe /\ before' = before /\ answered' = answered
          /\ failed' = [failed EXCEPT ![r] = failed[r] \cup {a}]
      BY <1>4, <2>2 DEF Fails, FailCurrent
    <2>7. CallSound(p, severe[r], esc, ntf, answered[r], rea, failed[r] \cup {a})
      <3>1. /\ CallSound(p, severe[r], esc, ntf, answered[r], reached[r], failed[r] \cup {a})
            /\ CallSound(p, severe[r], esc, ntf, answered[r], reached[r] \cup {a}, failed[r] \cup {a})
        BY <2>1, CallFails DEF Sending
      <3> HIDE DEF a, esc, ntf, p
      <3> QED BY <2>5, <3>1
    <2> HIDE DEF a, esc, ntf, p
    <2>8. Moves(r, p, severe[r], esc, ntf, answered[r], rea, failed[r] \cup {a}, before[r])
      BY <2>3, <2>4, <2>5, <2>6 DEF Moves, CallsSound
    <2> QED BY <2>1, <2>7, <2>8, OneCallMoves
  <1>5. ASSUME NEW r \in Routes, NEW acted \in BOOLEAN, CancelRoute(r, acted) PROVE CallsSound'
    <2> DEFINE a == Turn(escalate[r], notify[r])
    <2>1. Sending(r) /\ at[r] \in {"next", "request"}
          /\ before[r] \subseteq {s \in Routes : Ended(s)}
      BY <1>5 DEF CallsSound, CancelRoute
    <2>2. a = Current(r)
      BY DEF Turn, Current
    <2>3. PICK rea \in {reached[r], reached[r] \cup {a}} : reached' = [reached EXCEPT ![r] = rea]
      <3>1. CASE acted
        BY <1>5, <2>2, <3>1 DEF CancelRoute, Act
      <3>2. CASE ~acted
        BY <1>5, <3>2 DEF CancelRoute, CallsSound
      <3> QED BY <3>1, <3>2
    <2>4. CallSound("cancelled", severe[r], << >>, << >>, answered[r], rea, failed[r])
      <3>1. /\ CallSound("cancelled", severe[r], << >>, << >>, answered[r], reached[r], failed[r])
            /\ CallSound("cancelled", severe[r], << >>, << >>, answered[r], reached[r] \cup {a}, failed[r])
        BY <2>1, CallCancelled DEF Sending
      <3> HIDE DEF a
      <3> QED BY <2>3, <3>1
    <2> HIDE DEF a
    <2>5. Moves(r, "cancelled", severe[r], << >>, << >>, answered[r], rea, failed[r], before[r])
      BY <1>5, <2>3 DEF Moves, CallsSound, CancelRoute
    <2> QED BY <2>1, <2>4, <2>5, OneCallMoves
  <1> QED BY <1>0, <1>1, <1>2, <1>3, <1>4, <1>5, StepKinds

\* A provider opens the page for an alert, and only for one; else it closes it.
LEMMA ActIs ==
    ASSUME PagesOpened, CallsSound, NEW r \in Routes, Act(r)
    PROVE  /\ page' \in [Providers -> {"none", "open", "resolved"}]
           /\ reached' = [reached EXCEPT ![r] = reached[r] \cup {Current(r)}]
           /\ \A q \in Providers : page'[q] = "open" =>
               \/ page[q] = "open" /\ (q = Current(r) => Kind[r] = "alert")
               \/ Kind[r] = "alert" /\ q = Current(r)
  BY DEF Act, PagesOpened

LEMMA StepPages ==
    ASSUME CallsSound, PagesOpened, [RouterNext]_routerVars
    PROVE  PagesOpened'
  <1>0. CASE UNCHANGED <<page, at, escalate, notify, severe, answered, failed, reached, before>>
    BY <1>0 DEF PagesOpened, Providers
  <1>1. ASSUME NEW r \in Routes, NEW high \in BOOLEAN, Route(r, high) PROVE PagesOpened'
    <2>1. at[r] = "idle" /\ answered[r] = {}
      BY <1>1 DEF Route, CallsSound, Sending, CallSound
    <2>2. /\ page' = page /\ answered' = answered /\ reached' = reached
          /\ \A s \in Routes : s # r => before'[s] = before[s]
          /\ \A s \in Routes : at[s] # "idle" => at'[s] # "idle"
      BY <1>1, <2>1, ProceedIs DEF Route, CallsSound, AfterTurn
    <2> QED BY <2>1, <2>2, PagesKept DEF PagesOpened
  <1>2. ASSUME NEW r \in Routes, Post(r) PROVE PagesOpened'
    <2>1. /\ page' = page /\ answered' = answered /\ reached' = reached /\ before' = before
          /\ \A s \in Routes : at[s] # "idle" => at'[s] # "idle"
      BY <1>2 DEF Post, CallsSound
    <2> QED BY <2>1, PagesKept DEF PagesOpened
  <1>5. ASSUME NEW r \in Routes, NEW acted \in BOOLEAN, CancelRoute(r, acted) PROVE PagesOpened'
    <2>1. /\ answered' = answered /\ before' = before
          /\ at'[r] # "idle" /\ \A s \in Routes : at[s] # "idle" => at'[s] # "idle"
      BY <1>5 DEF CancelRoute, CallsSound
    <2>2. \A s \in Routes : r \notin before'[s]
      BY <1>5, <2>1 DEF CancelRoute, CallsSound, Ended
    <2>3. CASE acted
      <3>1. Act(r)
        BY <1>5, <2>3 DEF CancelRoute
      <3>2. \A s \in Routes : reached[s] \subseteq reached'[s]
        BY <3>1, ActIs DEF CallsSound
      <3>3. \A q \in Providers : page'[q] = "open" =>
              page[q] = "open" \/ (Kind[r] = "alert" /\ q \in reached'[r])
        BY <3>1, ActIs DEF CallsSound
      <3>4. page' \in [Providers -> {"none", "open", "resolved"}]
        BY <3>1, ActIs
      <3> QED BY <2>1, <2>2, <3>2, <3>3, <3>4, PagesKept
    <2>4. CASE ~acted
      <3>1. page' = page /\ reached' = reached
        BY <1>5, <2>4 DEF CancelRoute
      <3> QED BY <2>1, <2>2, <3>1, PagesKept DEF PagesOpened
    <2> QED BY <2>3, <2>4
  \* A call at work is not among those that have ended before another.
  <1>w. ASSUME NEW r \in Routes, at[r] \in {"next", "request"}, Proceed(r), before' = before
        PROVE  /\ at'[r] # "idle" /\ \A s \in Routes : at[s] # "idle" => at'[s] # "idle"
               /\ \A s \in Routes : r \notin before'[s]
    <2>1. at' = [at EXCEPT ![r] = AfterTurn(escalate'[r], notify'[r])]
      BY <1>w, ProceedIs
    <2>2. AfterTurn(escalate'[r], notify'[r]) # "idle"
      BY DEF AfterTurn
    <2>3. \A s \in Routes : r \notin before[s]
      BY <1>w DEF CallsSound, Ended
    <2> QED BY <1>w, <2>1, <2>2, <2>3 DEF CallsSound
  <1>3. ASSUME NEW r \in Routes, Delivered(r) PROVE PagesOpened'
    <2>1. /\ Act(r) /\ before' = before
          /\ answered' = [answered EXCEPT ![r] = answered[r] \cup {Current(r)}]
          /\ at[r] \in {"next", "request"} /\ Proceed(r)
      BY <1>3 DEF Delivered, GoOn
    <2>2. \A s \in Routes : \A q \in Providers :
            Kind[s] = "resolution" /\ q \in answered'[s] /\ page'[q] = "open" => q \in answered[s]
      <3> SUFFICES ASSUME NEW s \in Routes, NEW q \in Providers,
                          Kind[s] = "resolution", q \in answered'[s], page'[q] = "open"
                   PROVE  q \in answered[s]
        OBVIOUS
      <3>1. q \in answered[s] \/ (s = r /\ q = Current(r))
        BY <2>1 DEF CallsSound
      <3> QED BY <2>1, <3>1, ActIs
    <2>3. \A s \in Routes : reached[s] \subseteq reached'[s]
      <3>1. reached' = [reached EXCEPT ![r] = reached[r] \cup {Current(r)}]
        BY <2>1, ActIs
      <3> QED BY <3>1 DEF CallsSound
    <2>4. \A q \in Providers : page'[q] = "open" =>
            page[q] = "open" \/ (Kind[r] = "alert" /\ q \in reached'[r])
      BY <2>1, ActIs DEF CallsSound
    <2>5. page' \in [Providers -> {"none", "open", "resolved"}]
      BY <2>1, ActIs
    <2> QED BY <1>w, <2>1, <2>2, <2>3, <2>4, <2>5, PagesKept
  <1>4. ASSUME NEW r \in Routes, Fails(r) PROVE PagesOpened'
    <2>1. /\ before' = before /\ answered' = answered
          /\ at[r] \in {"next", "request"} /\ Proceed(r)
      BY <1>4 DEF Fails, FailCurrent, GoOn
    <2>2. CASE Act(r)
      <3>1. \A s \in Routes : reached[s] \subseteq reached'[s]
        BY <2>2, ActIs DEF CallsSound
      <3>2. \A q \in Providers : page'[q] = "open" =>
              page[q] = "open" \/ (Kind[r] = "alert" /\ q \in reached'[r])
        BY <2>2, ActIs DEF CallsSound
      <3>3. page' \in [Providers -> {"none", "open", "resolved"}]
        BY <2>2, ActIs
      <3> QED BY <1>w, <2>1, <3>1, <3>2, <3>3, PagesKept
    <2>3. CASE UNCHANGED <<page, reached>>
      BY <1>w, <2>1, <2>3, PagesKept DEF PagesOpened
    <2> QED BY <1>4, <2>2, <2>3 DEF Fails
  <1> QED BY <1>0, <1>1, <1>2, <1>3, <1>4, <1>5, StepKinds

-------------------------------------------------------------------------------
(* What the router promises *)

LEMMA AtMostOne == ASSUME NEW A, NEW a, A \subseteq {a} PROVE Cardinality(A) <= 1
  <1>1. A = {} \/ A = {a}
    OBVIOUS
  <1>2. Cardinality({}) = 0 /\ Cardinality({a}) = 1
    BY FS_EmptySet, FS_Singleton
  <1> QED BY <1>1, <1>2

LEMMA WalkTells ==
    ASSUME NEW C, NEW order, IsChain(C, order), NEW rest, NEW ans, NEW rea, NEW fai, NEW ended,
           Walked(C, order, rest, ans, rea, fai, ended)
    PROVE  Cardinality(ans \cap C) <= 1 /\ Cardinality((rea \cap C) \ fai) <= 1
  <1>1. Len(order) \in Nat
    BY LenProperties DEF IsChain
  <1>2. PICK k \in 1..Len(order) + 1 :
          /\ k <= Len(order) => ans \cap C = {} /\ rea \cap C \subseteq fai
          /\ k = Len(order) + 1 =>
              \/ \E a \in C : ans \cap C = {a} /\ (rea \cap C) \ fai \subseteq {a}
              \/ ans \cap C = {} /\ rea \cap C \subseteq fai
              \/ ans \cap C = {} /\ \E a \in C : (rea \cap C) \ fai \subseteq {a}
    BY DEF Walked
  <1>3. k <= Len(order) \/ k = Len(order) + 1
    BY <1>1
  <1>4. \E a : ans \cap C \subseteq {a} /\ (rea \cap C) \ fai \subseteq {a}
    BY <1>2, <1>3
  <1> QED BY <1>4, AtMostOne

\* A call that came to the end of a chain.
LEMMA WalkEnds ==
    ASSUME NEW C, NEW order, IsChain(C, order), NEW ans, NEW rea, NEW fai,
           Walked(C, order, << >>, ans, rea, fai, TRUE)
    PROVE  C \subseteq fai \/ ans \cap C # {}
  <1>1. order \in Seq(C) /\ Len(order) \in Nat
    BY LenProperties DEF IsChain
  <1>2. PICK k \in 1..Len(order) + 1 :
          /\ << >> = From(order, k)
          /\ k = Len(order) + 1 =>
              \/ \E a \in C : ans \cap C = {a} /\ (rea \cap C) \ fai \subseteq {a}
              \/ ans \cap C = {} /\ rea \cap C \subseteq fai /\ C \subseteq fai
    BY DEF Walked
  <1>3. k = Len(order) + 1
    BY <1>1, <1>2, FromProperties
  <1> QED BY <1>2, <1>3

RouterInv == CountsCovered /\ CallsSound /\ PagesOpened

LEMMA RouterTypes == ASSUME RouterInv PROVE RouterTypeOK
  <1>1. /\ breakers \in [Adapters -> Breaker]
        /\ \A a \in Adapters : StateFollowsCount(breakers[a])
        /\ misses \in [Adapters -> 0..FailureThreshold]
    <2>1. \A a \in Adapters : Sound(breakers[a]) /\ misses[a] \in 0..FailureThreshold
      BY DEF RouterInv, CountsCovered, Covered
    <2> QED BY <2>1 DEF RouterInv, CountsCovered, Sound, Breaker, Breaker,
                        StateFollowsCount, StateFollowsCount
  <1>2. ASSUME NEW r \in Routes
        PROVE  /\ at[r] \in {"idle", "next", "request", "done", "cancelled"}
               /\ severe[r] \in BOOLEAN /\ answered[r] \in SUBSET Adapters
               /\ failed[r] \in SUBSET Adapters /\ reached[r] \in SUBSET Adapters
               /\ before[r] \in SUBSET Routes
    BY DEF RouterInv, CallsSound, Sending, CallSound
  <1>3. ASSUME NEW r \in Routes
        PROVE  /\ IsSuffix(escalate[r], EscalationOrder)
               /\ IsSuffix(notify[r], NotificationOrder)
               /\ at[r] \in {"next", "request"} => escalate[r] \o notify[r] # << >>
    <2>1. CallSound(at[r], severe[r], escalate[r], notify[r], answered[r], reached[r], failed[r])
      BY DEF RouterInv, CallsSound, Sending
    <2>2. at[r] \in {"next", "request"} => escalate[r] # << >> \/ notify[r] # << >>
      BY <2>1 DEF CallSound
    <2> QED BY <2>1, <2>2, CallRests
  <1>4. /\ at \in [Routes -> {"idle", "next", "request", "done", "cancelled"}]
        /\ severe \in [Routes -> BOOLEAN] /\ answered \in [Routes -> SUBSET Adapters]
        /\ failed \in [Routes -> SUBSET Adapters]
        /\ reached \in [Routes -> SUBSET Adapters] /\ before \in [Routes -> SUBSET Routes]
    <2>1. /\ at = [r \in Routes |-> at[r]] /\ severe = [r \in Routes |-> severe[r]]
          /\ answered = [r \in Routes |-> answered[r]] /\ reached = [r \in Routes |-> reached[r]]
          /\ failed = [r \in Routes |-> failed[r]] /\ before = [r \in Routes |-> before[r]]
      BY DEF RouterInv, CallsSound
    <2> QED BY <1>2, <2>1
  <1>5. page \in [Providers -> {"none", "open", "resolved"}]
    BY DEF RouterInv, PagesOpened
  <1> QED BY <1>1, <1>3, <1>4, <1>5 DEF RouterTypeOK

\* What a call's chains tell of it.
LEMMA CallTells ==
    ASSUME CallsSound, NEW r \in Routes
    PROVE  \A chain \in {Providers, Channels} :
               /\ Cardinality(answered[r] \cap chain) <= 1
               /\ Cardinality((reached[r] \cap chain) \ failed[r]) <= 1
  <1> DEFINE overE == severe[r] /\ at[r] \notin {"idle", "cancelled"}
             overN == at[r] \notin {"idle", "cancelled"}
             E == Providers
             N == Channels
  <1>1. /\ Walked(E, EscalationOrder, escalate[r], answered[r], reached[r], failed[r], overE)
        /\ Walked(N, NotificationOrder, notify[r], answered[r], reached[r], failed[r], overN)
    BY DEF CallsSound, Sending, CallSound
  <1>2. IsChain(E, EscalationOrder) /\ IsChain(N, NotificationOrder)
    BY ChainsAre
  <1> HIDE DEF overE, overN, E, N
  <1>3. Cardinality(answered[r] \cap E) <= 1 /\ Cardinality((reached[r] \cap E) \ failed[r]) <= 1
    BY <1>1, <1>2, WalkTells
  <1>4. Cardinality(answered[r] \cap N) <= 1 /\ Cardinality((reached[r] \cap N) \ failed[r]) <= 1
    BY <1>1, <1>2, WalkTells
  <1> QED BY <1>3, <1>4 DEF E, N

\* What the end of a call tells of it.
LEMMA CallEnds ==
    ASSUME CallsSound, NEW r \in Routes, at[r] = "done"
    PROVE  /\ Channels \subseteq failed[r] \/ answered[r] \cap Channels # {}
           /\ severe[r] => Providers \subseteq failed[r] \/ answered[r] \cap Providers # {}
  <1>1. /\ escalate[r] = << >> /\ notify[r] = << >>
        /\ (at[r] \notin {"idle", "cancelled"}) = TRUE
        /\ severe[r] => (severe[r] /\ at[r] \notin {"idle", "cancelled"}) = TRUE
    BY DEF CallsSound, Sending, CallSound
  <1>2. /\ Walked(Channels, NotificationOrder, << >>, answered[r], reached[r], failed[r], TRUE)
        /\ severe[r] => Walked(Providers, EscalationOrder, << >>, answered[r], reached[r],
                               failed[r], TRUE)
    BY <1>1 DEF CallsSound, Sending, CallSound
  <1> QED BY <1>2, ChainsAre, WalkEnds

LEMMA AudienceFollows == ASSUME RouterInv PROVE AudienceIsTrue
  <1>1. CallsSound
    BY DEF RouterInv
  <1>2. ToldTwiceNeedsLostAnswer
    BY <1>1, CallTells DEF ToldTwiceNeedsLostAnswer
  <1>3. SilenceNeedsAllFailed
    BY <1>1, CallEnds DEF SilenceNeedsAllFailed
  <1> QED BY <1>2, <1>3, RouterTypes DEF AudienceIsTrue

\* Of two providers one is earlier in the order.
LEMMA OneIsEarlier ==
    ASSUME NEW C, NEW order, IsChain(C, order), NEW x \in C, NEW y \in C, x # y
    PROVE  \E i, j \in 1..Len(order) : (i < j \/ j < i) /\ order[i] = x /\ order[j] = y
  <1>1. PICK i \in 1..Len(order) : order[i] = x
    BY DEF IsChain
  <1>2. PICK j \in 1..Len(order) : order[j] = y
    BY DEF IsChain
  <1>3. Len(order) \in Nat
    BY LenProperties DEF IsChain
  <1>4. i < j \/ j < i
    BY <1>1, <1>2, <1>3
  <1> QED BY <1>1, <1>2, <1>4

LEMMA StrandedFollows ==
    ASSUME RouterInv PROVE StrandedPageNeedsFailure
  <1> SUFFICES ASSUME NEW r \in Routes, NEW x \in Providers, Outlasts(r),
                      page[x] = "open", x \notin failed[r]
               PROVE  \E s \in Routes : \E y \in Providers :
                          /\ Kind[s] = "alert" /\ x \in reached[s]
                          /\ y \in failed[s] /\ y \in answered[r]
    BY DEF StrandedPageNeedsFailure
  <1>1. CallsSound /\ PagesOpened
    BY DEF RouterInv
  <1>2. /\ Kind[r] = "resolution" /\ severe[r] /\ at[r] = "done"
        /\ \A s \in Routes : Kind[s] = "alert" /\ at[s] # "idle" => s \in before[r]
    BY DEF Outlasts
  <1>3. x \notin answered[r]
    BY <1>1, <1>2 DEF PagesOpened
  <1>4. PICK y \in Providers : y \in answered[r]
    BY <1>1, <1>2, CallEnds
  <1>5. PICK s \in Routes : Kind[s] = "alert" /\ x \in reached[s]
    BY <1>1 DEF PagesOpened
  <1>6. PICK i \in 1..Len(EscalationOrder), j \in 1..Len(EscalationOrder) :
          (i < j \/ j < i) /\ EscalationOrder[i] = x /\ EscalationOrder[j] = y
    BY <1>3, <1>4, ChainsAre, OneIsEarlier
  <1>7. y \in reached[r] /\ InOrder(EscalationOrder, reached[r], failed[r])
        /\ InOrder(EscalationOrder, reached[s], failed[s])
    BY <1>1, <1>4 DEF CallsSound, Sending, CallSound
  <1>8. ~(i < j)
    BY <1>6, <1>7 DEF InOrder
  <1>9. y \in failed[s]
    BY <1>5, <1>6, <1>7, <1>8 DEF InOrder
  <1> QED BY <1>4, <1>5, <1>9

LEMMA InitRouter == RouterInit => RouterInv
  BY InitCovered, InitCalls DEF RouterInv

LEMMA StepRouter ==
    RouterInv /\ [RouterNext]_routerVars => RouterInv'
  BY StepCovered, StepCalls, StepPages DEF RouterInv

\* Whom a call has told, on every way through its chains: one adapter of a chain at most, unless
\* the answers of the others were lost, and nobody only if all of them failed
\* (_send_notification_with_fallback and _escalate_with_fallback).
THEOREM AudienceTrue == RouterSpec => []AudienceIsTrue
  <1>1. RouterInv => AudienceIsTrue
    BY AudienceFollows
  <1>2. RouterInv /\ [RouterNext]_routerVars => RouterInv'
    BY StepRouter
  <1>3. RouterInit => RouterInv
    BY InitRouter
  <1> QED BY <1>1, <1>2, <1>3, PTL DEF RouterSpec

\* A page outlives a resolution that came after all alerts only if the resolution failed at
\* its provider, or was answered by another provider, which had failed for that alert
\* (route_resolution walks the chain as route_alert does, without knowing who was paged).
THEOREM StrandedExplained == RouterSpec => []StrandedPageNeedsFailure
  <1>1. RouterInv => StrandedPageNeedsFailure
    BY StrandedFollows
  <1>2. RouterInv /\ [RouterNext]_routerVars => RouterInv'
    BY StepRouter
  <1>3. RouterInit => RouterInv
    BY InitRouter
  <1> QED BY <1>1, <1>2, <1>3, PTL DEF RouterSpec
===============================================================================
