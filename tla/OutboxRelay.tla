----------------------------- MODULE OutboxRelay -----------------------------
(***************************************************************************)
(* The transactional outbox and the relay workers that drain it.  Each SQL *)
(* statement of PostgresOutboxStore commits on its own, so each is a step, *)
(* and so is the publish (an XADD of RedisStreamsEventBus).  A call may    *)
(* raise before it took effect or after (the reply was lost).  A relay may *)
(* crash between any two steps; its claims stay in the table.  There is    *)
(* one outbox row per event (uq_outbox_event_id), so a row is named by its *)
(* event, and events are numbered by the created_at of their rows, which   *)
(* need not be the order their transactions commit in.                     *)
(***************************************************************************)
EXTENDS Naturals, FiniteSets

CONSTANTS
    Relays,      \* OutboxRelay workers on one database
    Events,      \* incident events, in created_at order
    MaxRetries,  \* OutboxConfig.max_retries
    BatchSize,   \* OutboxConfig.batch_size
    NoEvent

ASSUME OutboxAssumption ==
    /\ Events \subseteq Nat
    /\ NoEvent \notin Events
    /\ MaxRetries \in Nat \ {0}
    /\ BatchSize \in Nat \ {0}

VARIABLES
    status,      \* event_outbox.status, or "absent" before the row exists
    retries,     \* event_outbox.retry_count
    processed,   \* the events with a processed_events row for the relays
    stream,      \* how many stream entries carry the event
    pc,          \* the next call of each relay
    todo,        \* the claimed entries run_once has not come to
    entry,       \* the entry run_once is working on
    deserted     \* history: claimed rows left by a crash, a lost reply or an exception

tables == <<status, retries, processed, stream>>
vars == <<status, retries, processed, stream, pc, todo, entry, deserted>>

Statuses == {"absent", "pending", "processing", "sent", "dlq"}
Calls == {"down", "loop", "publish", "mark", "settle", "count", "bury", "release"}

\* The statuses are those of chk_outbox_status (migration 005) the code
\* writes, and no row is retried more often than max_retries allows.
TypeOK ==
    /\ status \in [Events -> Statuses]
    /\ retries \in [Events -> 0 .. MaxRetries]
    /\ processed \subseteq Events
    /\ stream \in [Events -> Nat]
    /\ pc \in [Relays -> Calls]
    /\ todo \in [Relays -> SUBSET Events]
    /\ entry \in [Relays -> Events \cup {NoEvent}]

Init ==
    /\ status = [e \in Events |-> "absent"]
    /\ retries = [e \in Events |-> 0]
    /\ processed = {}
    /\ stream = [e \in Events |-> 0]
    /\ pc = [r \in Relays |-> "down"]
    /\ todo = [r \in Relays |-> {}]
    /\ entry = [r \in Relays |-> NoEvent]
    /\ deserted = {}

Goto(r, call) == pc' = [pc EXCEPT ![r] = call]

\* The entries a relay still has in hand.
Held(r) == todo[r] \cup ({entry[r]} \ {NoEvent})

\* The relay forgets what it has in hand.
Desert(r) ==
    /\ todo' = [todo EXCEPT ![r] = {}]
    /\ deserted' = deserted \cup {e \in Held(r) : status'[e] = "processing"}

\* The for loop comes to its next entry.
NextEntry(r) == Goto(r, "loop") /\ entry' = [entry EXCEPT ![r] = NoEvent]

\* An exception leaves run_once; run() logs it and starts the next batch.
AbandonBatch(r) == NextEntry(r) /\ Desert(r)

------------------------------------------------------------------------------
\* save_event: the event and its outbox row in one transaction.
Save(e) ==
    /\ status[e] = "absent"
    /\ status' = [status EXCEPT ![e] = "pending"]
    /\ UNCHANGED <<retries, processed, stream, pc, todo, entry, deserted>>

\* RetentionExecutor.run_once: a marker older than the retention is deleted.
DeleteMarker(e) ==
    /\ e \in processed
    /\ processed' = processed \ {e}
    /\ UNCHANGED <<status, retries, stream, pc, todo, entry, deserted>>

------------------------------------------------------------------------------
Start(r) ==
    /\ pc[r] = "down"
    /\ Goto(r, "loop")
    /\ UNCHANGED <<tables, todo, entry, deserted>>

\* stop() only clears a flag; run() reads it between two batches.
Stop(r) ==
    /\ pc[r] = "loop" /\ todo[r] = {}
    /\ Goto(r, "down")
    /\ UNCHANGED <<tables, todo, entry, deserted>>

Crash(r) ==
    /\ pc[r] # "down"
    /\ pc' = [pc EXCEPT ![r] = "down"]
    /\ entry' = [entry EXCEPT ![r] = NoEvent]
    /\ UNCHANGED tables
    /\ Desert(r)

------------------------------------------------------------------------------
\* Mutation: rows another relay works on are claimed again.
ReclaimProcessing == {e \in Events : status[e] \in {"pending", "processing"}}

Pending == {e \in Events : status[e] = "pending"}

\* _CLAIM_PENDING: the BatchSize oldest pending rows, or all of them.
Oldest == {e \in Pending : Cardinality({p \in Pending : p < e}) < BatchSize}

\* SET status = 'processing' on the selected rows.
Claimed(batch) ==
    [e \in Events |-> IF e \in batch THEN "processing" ELSE status[e]]

Claim(r) ==
    /\ pc[r] = "loop" /\ todo[r] = {}
    /\ Pending # {}
    /\ status' = Claimed(Oldest)
    /\ todo' = [todo EXCEPT ![r] = Oldest]
    /\ UNCHANGED <<retries, processed, stream, pc, entry, deserted>>

\* The claim commits and its rows never reach the relay.
ClaimLost(r) ==
    /\ pc[r] = "loop" /\ todo[r] = {}
    /\ Pending # {}
    /\ status' = Claimed(Oldest)
    /\ deserted' = deserted \cup Oldest
    /\ UNCHANGED <<retries, processed, stream, pc, todo, entry>>

\* Mutation: the marker is not looked at.
AfterBlindCheck(e) == "publish"

\* A marked event is settled without being published.
AfterCheck(e) == IF e \in processed THEN "settle" ELSE "publish"

\* is_event_processed on the next entry (RETURNING does not order the rows).
Check(r, e) ==
    /\ pc[r] = "loop" /\ e \in todo[r]
    /\ todo' = [todo EXCEPT ![r] = @ \ {e}]
    /\ entry' = [entry EXCEPT ![r] = e]
    /\ Goto(r, AfterCheck(e))
    /\ UNCHANGED <<tables, deserted>>

CheckFails(r, e) ==
    /\ pc[r] = "loop" /\ e \in todo[r]
    /\ todo' = [todo EXCEPT ![r] = @ \ {e}]
    /\ entry' = [entry EXCEPT ![r] = e]
    /\ Goto(r, "count")
    /\ UNCHANGED <<tables, deserted>>

\* EventBus.publish appends the event; it may raise with or without effect.
Publish(r) ==
    /\ pc[r] = "publish"
    /\ stream' = [stream EXCEPT ![entry[r]] = @ + 1]
    /\ Goto(r, "mark") \/ Goto(r, "count")
    /\ UNCHANGED <<status, retries, processed, todo, entry, deserted>>

\* mark_event_processed; ON CONFLICT DO NOTHING makes it idempotent.
Mark(r) ==
    /\ pc[r] = "mark"
    /\ processed' = processed \cup {entry[r]}
    /\ Goto(r, "settle") \/ Goto(r, "count")
    /\ UNCHANGED <<status, retries, stream, todo, entry, deserted>>

\* mark_sent, whatever the row's status.
Settle(r) ==
    /\ pc[r] = "settle"
    /\ status' = [status EXCEPT ![entry[r]] = "sent"]
    /\ NextEntry(r) \/ (Goto(r, "count") /\ UNCHANGED entry)
    /\ UNCHANGED <<retries, processed, stream, todo, deserted>>

\* publish, mark_event_processed or mark_sent raises before it took effect.
CallFails(r) ==
    /\ pc[r] \in {"publish", "mark", "settle"}
    /\ Goto(r, "count")
    /\ UNCHANGED <<tables, todo, entry, deserted>>
------------------------------------------------------------------------------
\* SET retry_count = retry_count + 1, and what run_once does with the result.
Retried(e) == retries[e] + 1

AfterCount(e) == IF Retried(e) >= MaxRetries THEN "bury" ELSE "release"

\* The except clause: increment_retry, whatever the row's status.
Count(r) ==
    /\ pc[r] = "count"
    /\ retries' = [retries EXCEPT ![entry[r]] = Retried(entry[r])]
    /\ UNCHANGED <<status, processed, stream>>
    /\ \/ Goto(r, AfterCount(entry[r])) /\ UNCHANGED <<todo, entry, deserted>>
       \/ AbandonBatch(r)

\* mark_dlq, whatever the row's status.
Bury(r) ==
    /\ pc[r] = "bury"
    /\ status' = [status EXCEPT ![entry[r]] = "dlq"]
    /\ (NextEntry(r) /\ UNCHANGED <<todo, deserted>>) \/ AbandonBatch(r)
    /\ UNCHANGED <<retries, processed, stream>>

\* Mutation: release_claim is not called.
NotReopened(e) == status[e]

\* Mutation: the WHERE clause is dropped.
ReopenedAlways(e) == "pending"

\* WHERE status = 'processing': a row that was settled is left alone.
Reopened(e) == IF status[e] = "processing" THEN "pending" ELSE status[e]

Release(r) ==
    /\ pc[r] = "release"
    /\ status' = [status EXCEPT ![entry[r]] = Reopened(entry[r])]
    /\ (NextEntry(r) /\ UNCHANGED <<todo, deserted>>) \/ AbandonBatch(r)
    /\ UNCHANGED <<retries, processed, stream>>

\* increment_retry, mark_dlq or release_claim raises before it took effect.
BookkeepingFails(r) ==
    /\ pc[r] \in {"count", "bury", "release"}
    /\ UNCHANGED tables
    /\ AbandonBatch(r)

Work(r) ==
    \/ \E e \in todo[r] : Check(r, e) \/ CheckFails(r, e)
    \/ Publish(r) \/ Mark(r) \/ Settle(r) \/ CallFails(r)
    \/ Count(r) \/ Bury(r) \/ Release(r) \/ BookkeepingFails(r)

RelayNext(r) == Start(r) \/ Stop(r) \/ Crash(r) \/ Claim(r) \/ ClaimLost(r) \/ Work(r)

Next ==
    \/ \E e \in Events : Save(e) \/ DeleteMarker(e)
    \/ \E r \in Relays : RelayNext(r)

Spec == Init /\ [][Next]_vars

\* A stopped service is restarted, run() works its batch off, and a claim
\* tried again and again succeeds.  Nothing promises that a call succeeds.
Fairness ==
    \A r \in Relays : WF_vars(Start(r)) /\ WF_vars(Work(r)) /\ SF_vars(Claim(r))

FairSpec == Spec /\ Fairness

------------------------------------------------------------------------------
\* claim_pending gives a relay its rows for good: no other relay works on
\* them, and they are not offered again while it does (OutboxPort.claim_pending:
\* "exclusively owned by this caller").
ExclusiveClaims ==
    \A r \in Relays : \A e \in Held(r) :
        /\ status[e] \notin {"absent", "pending"}
        /\ \A s \in Relays \ {r} : e \notin Held(s)

\* Once the marker of an event is written, no relay puts the event on the
\* stream: not one that had checked before, not one that retries after a lost
\* reply (is_event_processed before publish).
NoPublishOnceMarked ==
    [][\A e \in processed : stream'[e] = stream[e]]_vars

\* What consumers rely on: see AtLeastOnce.
Outcome ==
    [e \in Events |->
        CASE status[e] = "absent" -> "unsaved"
          [] status[e] = "sent" -> "settled"
          [] status[e] = "dlq" -> "buried"
          [] OTHER -> "owed"]

Promise == INSTANCE AtLeastOnce
    WITH Patience <- MaxRetries, outcome <- Outcome,
         deliveries <- stream, failures <- retries

\* The table never says sent of an event that is not on the stream, gives up
\* only after max_retries failures, never reopens a closed row, and puts an
\* event on the stream at most once per failure and once more.
ImplementsAtLeastOnce == Promise!Spec

\* A claimed row that a crash, a lost reply of claim_pending or an exception out of
\* run_once has left: nobody works on it, and nobody can claim it again.
Stranded(e) == e \in deserted

\* The relay never works on an event for ever and forgets none: each saved event ends as
\* sent or dlq, unless its relay crashed, the reply of claim_pending was lost, or a call of
\* the except clause raised while the row was claimed.
SettledOrStranded ==
    \A e \in Events :
        status[e] # "absent" ~> (status[e] \in {"sent", "dlq"} \/ Stranded(e))

===============================================================================
