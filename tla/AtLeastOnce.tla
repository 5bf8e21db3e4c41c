----------------------------- MODULE AtLeastOnce -----------------------------
(***************************************************************************)
(* What the outbox promises about each event, whoever relays it: an event  *)
(* is owed from the transaction that saves it; it may be put on the stream *)
(* several times while it is owed; it is settled only after it has been on *)
(* the stream; it is buried instead when Patience attempts have failed.    *)
(* Nothing is put on the stream for an event that is no longer owed, and   *)
(* no event becomes owed a second time.                                    *)
(*                                                                         *)
(* Bury also takes a settled event: the acknowledgement of the settling    *)
(* may have been the attempt that failed last.                             *)
(***************************************************************************)
EXTENDS Naturals

CONSTANTS Events, Patience

VARIABLES
    outcome,      \* "unsaved", "owed", "settled" or "buried"
    deliveries,   \* how often the event is on the stream
    failures      \* how many attempts to deliver it have failed

vars == <<outcome, deliveries, failures>>

Init ==
    /\ outcome = [e \in Events |-> "unsaved"]
    /\ deliveries = [e \in Events |-> 0]
    /\ failures = [e \in Events |-> 0]

Save(e) ==
    /\ outcome[e] = "unsaved"
    /\ outcome' = [outcome EXCEPT ![e] = "owed"]
    /\ UNCHANGED <<deliveries, failures>>

Deliver(e) ==
    /\ outcome[e] = "owed"
    /\ deliveries[e] <= failures[e]
    /\ deliveries' = [deliveries EXCEPT ![e] = @ + 1]
    /\ UNCHANGED <<outcome, failures>>

Fail(e) ==
    /\ outcome[e] \in {"owed", "settled"}
    /\ failures[e] < Patience
    /\ failures' = [failures EXCEPT ![e] = @ + 1]
    /\ UNCHANGED <<outcome, deliveries>>

Settle(e) ==
    /\ outcome[e] = "owed"
    /\ deliveries[e] > 0
    /\ outcome' = [outcome EXCEPT ![e] = "settled"]
    /\ UNCHANGED <<deliveries, failures>>

Bury(e) ==
    /\ outcome[e] \in {"owed", "settled"}
    /\ failures[e] = Patience
    /\ outcome' = [outcome EXCEPT ![e] = "buried"]
    /\ UNCHANGED <<deliveries, failures>>

Next ==
    \E e \in Events : Save(e) \/ Deliver(e) \/ Fail(e) \/ Settle(e) \/ Bury(e)

Spec == Init /\ [][Next]_vars
===============================================================================
