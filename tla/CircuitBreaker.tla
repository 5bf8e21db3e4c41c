------------------------------ MODULE CircuitBreaker ------------------------------
(***************************************************************************)
(* The circuit breaker of adapters/cloud/resilience.py as a value, and     *)
(* what its property and its two methods make of it.  The clock is seen    *)
(* only through "cooled", which is false while the circuit is open and     *)
(* recovery_timeout_seconds have not passed since the last failure.  The   *)
(* count saturates at the threshold, which is all it is compared with.     *)
(***************************************************************************)
EXTENDS Naturals

CONSTANT FailureThreshold

ASSUME ThresholdAssumption == FailureThreshold \in Nat \ {0}

Breaker == [state : {"closed", "open", "half_open"},
            failures : 0..FailureThreshold,
            cooled : BOOLEAN]

NewBreaker == [state |-> "closed", failures |-> 0, cooled |-> TRUE]

\* Mutant: the count starts anew with the probe.
ReadAfresh(b) ==
    IF b.state = "open" /\ b.cooled THEN [b EXCEPT !.state = "half_open", !.failures = 0] ELSE b

\* Mutant: the comparison with the timeout is never true.
ReadNever(b) == b

\* The property state: OPEN becomes HALF_OPEN only when somebody looks.
Read(b) == IF b.state = "open" /\ b.cooled THEN [b EXCEPT !.state = "half_open"] ELSE b

Admits(b) == Read(b).state # "open"

RecordSuccess(b) == NewBreaker

RecordFailure(b) ==
    LET n == IF b.failures < FailureThreshold THEN b.failures + 1 ELSE FailureThreshold
    IN [state |-> IF n = FailureThreshold THEN "open" ELSE b.state,
        failures |-> n,
        cooled |-> n < FailureThreshold]

Cool(b) == [b EXCEPT !.cooled = TRUE]

\* The circuit is closed exactly while fewer failures than the threshold were counted
\* since the last success; HALF_OPEN keeps the count, so that one failed probe reopens it.
StateFollowsCount(b) == b.state = "closed" <=> b.failures < FailureThreshold
===============================================================================
