------------------------------ MODULE OperatorCalls ------------------------------
(***************************************************************************)
(* retry_with_backoff: calls of one cloud operator, any number at a time,  *)
(* that share its circuit breaker.  Between its awaits (the request and    *)
(* the back-off) a call runs to completion, so that reading the state and  *)
(* sending the request are one step.                                       *)
(***************************************************************************)
EXTENDS CircuitBreaker, FiniteSets

CONSTANTS
    Calls,        \* calls of the operator at one time
    MaxRetries    \* RetryConfig.max_retries

ASSUME CallsAssumption == IsFiniteSet(Calls) /\ MaxRetries \in Nat

VARIABLES
    breaker,
    pc,         \* idle, in a request, or in the sleep before the next one
    attempt,    \* how many requests the call has sent
    burst       \* history: failures since a request last succeeded or a probe was let through

vars == <<breaker, pc, attempt, burst>>

InFlight == {c \in Calls : pc[c] = "request"}

TypeOK ==
    /\ breaker \in Breaker
    /\ pc \in [Calls -> {"idle", "request", "sleep"}]
    /\ attempt \in [Calls -> 0..MaxRetries + 1]
    /\ burst \in Nat

Init ==
    /\ breaker = NewBreaker
    /\ pc = [c \in Calls |-> "idle"]
    /\ attempt = [c \in Calls |-> 0]
    /\ burst = 0

-------------------------------------------------------------------------------
Return(c) ==
    /\ pc' = [pc EXCEPT ![c] = "idle"]
    /\ attempt' = [attempt EXCEPT ![c] = 0]

\* Mutant: the circuit is looked at before the loop only.
MayRequestAgain(c) == pc[c] = "sleep" \/ Admits(breaker)

MayRequest(c) == Admits(breaker)

NextAttempt(c) == attempt[c] + 1

\* A new call or the next turn of the loop: every call that looks while the circuit is
\* half open is let through.
Request(c) ==
    /\ pc[c] # "request"
    /\ MayRequest(c)
    /\ breaker' = Read(breaker)
    /\ burst' = IF breaker'.state # breaker.state THEN 0 ELSE burst
    /\ pc' = [pc EXCEPT ![c] = "request"]
    /\ attempt' = [attempt EXCEPT ![c] = NextAttempt(c)]

\* CircuitOpenError, which also ends a call that was about to try again.
Reject(c) ==
    /\ pc[c] # "request"
    /\ ~MayRequest(c)
    /\ Return(c)
    /\ UNCHANGED <<breaker, burst>>

\* A success closes the circuit, also when it was opened while the request was under way.
Succeed(c) ==
    /\ pc[c] = "request"
    /\ breaker' = RecordSuccess(breaker)
    /\ burst' = 0
    /\ Return(c)

\* Mutant: only failures that are not tried again are counted.
CountLast(retried) == IF retried THEN breaker ELSE RecordFailure(breaker)

Count(retried) == RecordFailure(breaker)

Failed(c, retried) ==
    /\ pc[c] = "request"
    /\ breaker' = Count(retried)
    /\ burst' = burst + 1

TurnsLeft(c) == attempt[c] <= MaxRetries

\* A retryable error with a turn of the loop left.
FailAndSleep(c) ==
    /\ TurnsLeft(c)
    /\ Failed(c, TRUE)
    /\ pc' = [pc EXCEPT ![c] = "sleep"]
    /\ UNCHANGED attempt

\* Any other error at any turn; a retryable one at the last.
FailForGood(c) == Failed(c, FALSE) /\ Return(c)

\* CancelledError is caught by no clause: the circuit learns nothing.
Cancel(c) ==
    /\ pc[c] # "idle"
    /\ Return(c)
    /\ UNCHANGED <<breaker, burst>>

CoolDown ==
    /\ ~breaker.cooled
    /\ breaker' = Cool(breaker)
    /\ UNCHANGED <<pc, attempt, burst>>

Fail(c) == FailAndSleep(c) \/ FailForGood(c)

Next ==
    \/ CoolDown
    \/ \E c \in Calls : Request(c) \/ Reject(c) \/ Succeed(c) \/ Fail(c) \/ Cancel(c)

Spec == Init /\ [][Next]_vars

\* Time passes, requests are answered and sleeps end; nobody has to call.
FairSpec ==
    /\ Spec
    /\ WF_vars(CoolDown)
    /\ \A c \in Calls :
        /\ WF_vars(Succeed(c) \/ Fail(c))
        /\ WF_vars(pc[c] = "sleep" /\ (Request(c) \/ Reject(c)))
-------------------------------------------------------------------------------
(* Properties *)

\* See StateFollowsCount: whatever order the answers of overlapping requests come in.
BreakerConsistent == TypeOK /\ StateFollowsCount(breaker)

\* The operator sees no more failures in a row than the threshold and what the other calls
\* had under way when the circuit opened; after a probe, no more than was under way.
FailureBurstBounded == burst <= FailureThreshold + Cardinality(Calls) - 1

\* While the circuit is open and not cooled, requests end and none is sent, neither by a
\* new call nor by one that was asleep between two attempts; and a failure that comes
\* while it is half open, of the probe or of a request sent earlier, opens it for a whole
\* timeout.
OpenOnlyDrains ==
    [][/\ breaker.state = "open" /\ ~breaker.cooled =>
            {c \in Calls : pc'[c] = "request"} \subseteq InFlight
       /\ breaker.state = "half_open" /\ (\E c \in Calls : Fail(c)) =>
            breaker'.state = "open" /\ ~breaker'.cooled]_vars

\* Once requests no longer fail, or are cancelled, and as long as requests are sent when
\* the circuit lets them, it closes and stays closed.
RecoversWithService ==
    (/\ <>[][\A c \in Calls : ~Fail(c) /\ ~Cancel(c)]_vars
     /\ []<>(InFlight # {} \/ ~Admits(breaker))) =>
        <>[](breaker.state = "closed")
===============================================================================
