---------------------------- MODULE NotificationRouter ----------------------------
(***************************************************************************)
(* NotificationRouter and the adapters behind it, for one alert: its       *)
(* fallback chains, the circuit breaker of each adapter, and the pages the *)
(* alert has at the escalation providers under its dedup key.  Several     *)
(* calls may be routed at a time, in any order, and other alerts use the   *)
(* same adapters.  What a provider does with a request is outside: it may  *)
(* act on it and the answer be lost.                                       *)
(***************************************************************************)
EXTENDS CircuitBreaker, Sequences, FiniteSets, SequencesExt

CONSTANTS
    Routes,            \* calls of the router about the alert
    Kind,              \* route_alert, route_approval_request or route_resolution
    EscalationOrder,   \* _escalation_order, without names that have no adapter
    NotificationOrder, \* _notification_order, likewise
    CountsTwice,       \* adapters that count an API error in the try and in the except
    SuccessFirst       \* adapters that count the success before they read the body

Adapters == ToSet(EscalationOrder) \cup ToSet(NotificationOrder)
Providers == ToSet(EscalationOrder)
Channels == ToSet(NotificationOrder)

ASSUME RouterAssumption ==
    /\ Kind \in [Routes -> {"alert", "approval", "resolution"}]
    /\ EscalationOrder \in Seq(Providers) /\ IsInjective(EscalationOrder)
    /\ NotificationOrder \in Seq(Channels) /\ IsInjective(NotificationOrder)
    /\ Providers \cap Channels = {}
    /\ CountsTwice \subseteq Adapters /\ SuccessFirst \subseteq Adapters

VARIABLES
    breakers,   \* the circuit breaker of each adapter
    page,       \* the page of the alert at each provider
    at,         \* where each call is
    escalate,   \* providers the call has still to try
    notify,     \* channels the call has still to try
    severe,     \* the call escalates: its severity is high enough and it has a payload
    answered,   \* adapters whose record in the call is a SUCCESS
    failed,     \* adapters the call tried, or skipped, in vain
    reached,    \* history: adapters that acted on the call's request
    before,     \* history: calls that had ended when this one began
    misses      \* history: failed deliveries of each adapter since its last success

routerVars == <<breakers, page, at, escalate, notify, severe, answered, failed, reached, before, misses>>

RouterTypeOK ==
    /\ breakers \in [Adapters -> Breaker]
    /\ \A a \in Adapters : StateFollowsCount(breakers[a])
    /\ page \in [Providers -> {"none", "open", "resolved"}]
    /\ at \in [Routes -> {"idle", "next", "request", "done", "cancelled"}]
    /\ \A r \in Routes :
        /\ IsSuffix(escalate[r], EscalationOrder)
        /\ IsSuffix(notify[r], NotificationOrder)
        /\ at[r] \in {"next", "request"} => escalate[r] \o notify[r] # << >>
    /\ severe \in [Routes -> BOOLEAN]
    /\ answered \in [Routes -> SUBSET Adapters]
    /\ failed \in [Routes -> SUBSET Adapters]
    /\ reached \in [Routes -> SUBSET Adapters]
    /\ before \in [Routes -> SUBSET Routes]
    /\ misses \in [Adapters -> 0..FailureThreshold]

RouterInit ==
    /\ breakers = [a \in Adapters |-> NewBreaker]
    /\ page = [p \in Providers |-> "none"]
    /\ at = [r \in Routes |-> "idle"]
    /\ escalate = [r \in Routes |-> << >>]
    /\ notify = [r \in Routes |-> << >>]
    /\ severe = [r \in Routes |-> FALSE]
    /\ answered = [r \in Routes |-> {}]
    /\ failed = [r \in Routes |-> {}]
    /\ reached = [r \in Routes |-> {}]
    /\ before = [r \in Routes |-> {}]
    /\ misses = [a \in Adapters |-> 0]

-------------------------------------------------------------------------------
Ended(r) == at[r] \in {"done", "cancelled"}

\* The loops over both chains end when there is no adapter left, at once if there is none.
Proceed(r) ==
    at' = [at EXCEPT ![r] = IF escalate'[r] \o notify'[r] = << >> THEN "done" ELSE "next"]

\* _should_escalate, and a payload was given.  An approval request is never escalated.
Route(r, high) ==
    /\ at[r] = "idle"
    /\ Kind[r] = "approval" => ~high
    /\ severe' = [severe EXCEPT ![r] = high]
    /\ escalate' = [escalate EXCEPT ![r] = IF high THEN EscalationOrder ELSE << >>]
    /\ notify' = [notify EXCEPT ![r] = NotificationOrder]
    /\ Proceed(r)
    /\ before' = [before EXCEPT ![r] = {s \in Routes : Ended(s)}]
    /\ UNCHANGED <<breakers, page, answered, failed, reached, misses>>

Current(r) == Head(escalate[r] \o notify[r])

\* Mutant: the whole chain is tried, also after a success.
TryAll(r, success) ==
    /\ IF escalate[r] # << >>
         THEN escalate' = [escalate EXCEPT ![r] = Tail(@)] /\ UNCHANGED notify
         ELSE notify' = [notify EXCEPT ![r] = Tail(@)] /\ UNCHANGED escalate
    /\ Proceed(r)

\* On to the next adapter of the chain, or after a success out of the chain.
GoOn(r, success) ==
    /\ IF escalate[r] # << >>
         THEN escalate' = [escalate EXCEPT ![r] = IF success THEN << >> ELSE Tail(@)]
              /\ UNCHANGED notify
         ELSE notify' = [notify EXCEPT ![r] = IF success THEN << >> ELSE Tail(@)]
              /\ UNCHANGED escalate
    /\ Proceed(r)

FailCurrent(r) ==
    /\ failed' = [failed EXCEPT ![r] = @ \cup {Current(r)}]
    /\ UNCHANGED answered
    /\ GoOn(r, FALSE)

\* The circuit is open: a FAILURE record at once.
Skip(r) ==
    /\ at[r] = "next" /\ ~Admits(breakers[Current(r)])
    /\ FailCurrent(r)
    /\ UNCHANGED <<breakers, page, severe, reached, before, misses>>

Post(r) ==
    /\ at[r] = "next" /\ Admits(breakers[Current(r)])
    /\ breakers' = [breakers EXCEPT ![Current(r)] = Read(@)]
    /\ at' = [at EXCEPT ![r] = "request"]
    /\ UNCHANGED <<page, escalate, notify, severe, answered, failed, reached, before, misses>>

\* Mutant: a resolution is sent as a trigger.
OpenAlways(r) ==
    /\ reached' = [reached EXCEPT ![r] = @ \cup {Current(r)}]
    /\ page' = [p \in Providers |-> IF p = Current(r) THEN "open" ELSE page[p]]

\* What a provider makes of the request: it opens the page or, if it has one, closes it.
Act(r) ==
    /\ reached' = [reached EXCEPT ![r] = @ \cup {Current(r)}]
    /\ page' = [p \in Providers |->
                  IF p # Current(r) THEN page[p]
                  ELSE IF Kind[r] = "alert" THEN "open"
                  ELSE IF page[p] = "open" THEN "resolved" ELSE page[p]]

Delivered(r) ==
    /\ at[r] = "request"
    /\ breakers' = [breakers EXCEPT ![Current(r)] = RecordSuccess(@)]
    /\ misses' = [misses EXCEPT ![Current(r)] = 0]
    /\ answered' = [answered EXCEPT ![r] = @ \cup {Current(r)}]
    /\ Act(r)
    /\ GoOn(r, TRUE)
    /\ UNCHANGED <<severe, failed, before>>

Missed(a) == misses' = [misses EXCEPT ![a] = IF @ < FailureThreshold THEN @ + 1 ELSE @]

\* A transport error or an error status, after the provider acted or before.
TransportFails(r, acted) ==
    /\ at[r] = "request"
    /\ breakers' = [breakers EXCEPT ![Current(r)] = RecordFailure(@)]
    /\ Missed(Current(r))
    /\ IF acted THEN Act(r) ELSE UNCHANGED <<page, reached>>
    /\ FailCurrent(r)
    /\ UNCHANGED <<severe, before>>

\* Mutant: every adapter counts as Slack's does.
CountRefusalTwice(a) == RecordFailure(RecordFailure(breakers[a]))

\* ok=false in Slack's answer: RuntimeError is raised inside the try that catches it.
CountRefusal(a) ==
    IF a \in CountsTwice THEN RecordFailure(RecordFailure(breakers[a])) ELSE RecordFailure(breakers[a])

ApiRefuses(r) ==
    /\ at[r] = "request"
    /\ breakers' = [breakers EXCEPT ![Current(r)] = CountRefusal(Current(r))]
    /\ Missed(Current(r))
    /\ FailCurrent(r)
    /\ UNCHANGED <<page, reached, severe, before>>

\* The provider acted and its body cannot be read: a provider's circuit has the success
\* counted and then a failure, Slack's counts nothing, and Teams does not look.
BodyUnreadable(r) ==
    /\ at[r] = "request" /\ Current(r) \in SuccessFirst \cup CountsTwice
    /\ IF Current(r) \in SuccessFirst
         THEN /\ breakers' = [breakers EXCEPT ![Current(r)] = RecordFailure(RecordSuccess(@))]
              /\ misses' = [misses EXCEPT ![Current(r)] = 1]
         ELSE UNCHANGED <<breakers, misses>>
    /\ Act(r)
    /\ FailCurrent(r)
    /\ UNCHANGED <<severe, before>>

\* The task of the caller is cancelled: no except clause catches that.  The provider may
\* have acted on the request that was in flight.
CancelRoute(r, acted) ==
    /\ at[r] \in {"next", "request"}
    /\ acted => at[r] = "request"
    /\ at' = [at EXCEPT ![r] = "cancelled"]
    /\ escalate' = [escalate EXCEPT ![r] = << >>]
    /\ notify' = [notify EXCEPT ![r] = << >>]
    /\ IF acted THEN Act(r) ELSE UNCHANGED <<page, reached>>
    /\ UNCHANGED <<breakers, severe, answered, failed, before, misses>>

CoolDownAdapter(a) ==
    /\ ~breakers[a].cooled
    /\ breakers' = [breakers EXCEPT ![a] = Cool(@)]
    /\ UNCHANGED <<page, at, escalate, notify, severe, answered, failed, reached, before, misses>>

\* Deliveries for other alerts move the same circuits.
OtherDelivery(a, success) ==
    /\ Admits(breakers[a])
    /\ breakers' = [breakers EXCEPT ![a] = IF success THEN RecordSuccess(Read(@)) ELSE RecordFailure(Read(@))]
    /\ IF success THEN misses' = [misses EXCEPT ![a] = 0] ELSE Missed(a)
    /\ UNCHANGED <<page, at, escalate, notify, severe, answered, failed, reached, before>>

Answer(r) ==
    \/ Delivered(r) \/ ApiRefuses(r) \/ BodyUnreadable(r)
    \/ \E acted \in BOOLEAN : TransportFails(r, acted)

RouterNext ==
    \/ \E a \in Adapters : CoolDownAdapter(a) \/ \E success \in BOOLEAN : OtherDelivery(a, success)
    \/ \E r \in Routes :
        \/ \E high \in BOOLEAN : Route(r, high)
        \/ Skip(r) \/ Post(r) \/ Answer(r)
        \/ \E acted \in BOOLEAN : CancelRoute(r, acted)

RouterSpec == RouterInit /\ [][RouterNext]_routerVars

-------------------------------------------------------------------------------
(* Properties *)

\* Each chain answers with one success at most, and when two adapters of a chain acted on
\* one call, all but the last of them had lost or spoilt their answer: nobody is told
\* twice by a call unless an answer was lost, not even if the call is cancelled.
ToldTwiceNeedsLostAnswer ==
    \A r \in Routes : \A chain \in {Providers, Channels} :
        /\ Cardinality(answered[r] \cap chain) <= 1
        /\ Cardinality((reached[r] \cap chain) \ failed[r]) <= 1

\* A call that ended without a success in a chain it was to use has tried every adapter of
\* that chain, or found its circuit open.
SilenceNeedsAllFailed ==
    \A r \in Routes : at[r] = "done" =>
        /\ answered[r] \cap Channels = {} => Channels \subseteq failed[r]
        /\ severe[r] /\ answered[r] \cap Providers = {} => Providers \subseteq failed[r]

\* Whom a call has told, on every way through its chains.
AudienceIsTrue == RouterTypeOK /\ ToldTwiceNeedsLostAnswer /\ SilenceNeedsAllFailed

\* The page of an alert is still open after a resolution that escalates and that began
\* when the alerts had ended, only if the resolution failed at that provider, or never
\* asked it because one earlier in the order answered, which then failed for the alert.
Outlasts(r) ==
    /\ Kind[r] = "resolution" /\ severe[r] /\ at[r] = "done"
    /\ \A s \in Routes : Kind[s] = "alert" /\ at[s] # "idle" => s \in before[r]
StrandedPageNeedsFailure ==
    \A r \in Routes : \A p \in Providers :
        Outlasts(r) /\ page[p] = "open" =>
            \/ p \in failed[r]
            \/ \E s \in Routes : \E q \in Providers :
                /\ Kind[s] = "alert" /\ p \in reached[s]
                /\ q \in failed[s] /\ q \in answered[r]

\* A circuit is not closed only after so many deliveries failed since the last success;
\* Slack's, which counts its API errors twice, after half as many.
OpenNeedsMisses ==
    \A a \in Adapters : breakers[a].state # "closed" =>
        (IF a \in CountsTwice THEN 2 ELSE 1) * misses[a] >= FailureThreshold
===============================================================================
