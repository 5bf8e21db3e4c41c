---------------------------- MODULE IncidentProjection ----------------------------
(***************************************************************************)
(* One incident in PostgreSQL: the log of its events, the row of table     *)
(* incidents projected from them, and the diagnosis rows that refer to     *)
(* that row.  Requests are calls of POST /diagnose for the alert, first    *)
(* ones and retries alike, which share one idempotency key; Writers are    *)
(* other users of the store, which save an event of their own and project  *)
(* their own status.  Every statement may raise, before or after COMMIT,   *)
(* and a caller may die at every await.                                    *)
(***************************************************************************)
EXTENDS Naturals, Sequences, FiniteSets, SequencesExt

CONSTANTS
    Requests,    \* calls of trigger_diagnosis for the alert
    Writers,     \* other callers of save_event and update_projection
    StatusOf,    \* the status each of the Writers projects
    NoRow,       \* the incident has no row
    Unread       \* version a caller has not read, or found no row

Callers == Requests \cup Writers
Statuses == {"open", "investigating", "mitigating", "resolved", "closed"}
ClosedStatuses == {"resolved", "closed"}

ASSUME ProjectionAssumption ==
    /\ Requests \cap Writers = {} /\ IsFiniteSet(Callers)
    /\ StatusOf \in [Writers -> Statuses]
    /\ Unread \notin Nat
    /\ NoRow \notin [status : Statuses, latest : Callers, version : Nat]

VARIABLES
    log,         \* incident_events of the incident, named by their callers
    row,         \* the row of incidents
    diagnoses,   \* requests with a row in diagnosis_results
    pc,          \* what each caller does next
    seen,        \* version each caller read
    outcome,     \* how each caller's save_event and update_projection ended
    refused,     \* history: requests whose diagnosis the foreign key refused
    during       \* history: callers that saved an event while this one had saved its
                 \* own and not yet projected it

vars == <<log, row, diagnoses, pc, seen, outcome, refused, during>>

Status(c) == IF c \in Requests THEN "investigating" ELSE StatusOf[c]
IsClosed(r) == r # NoRow /\ r.status \in ClosedStatuses
Projecting(c) == pc[c] \in {"select", "write"}

TypeOK ==
    /\ log \in Seq(Callers)
    /\ row \in [status : Statuses, latest : Callers, version : 0..Cardinality(Callers)]
               \cup {NoRow}
    /\ row # NoRow => row.version < Len(log)
    /\ diagnoses \subseteq Requests
    /\ pc \in [Callers -> {"event", "select", "write", "store", "done"}]
    /\ seen \in [Callers -> 0..Cardinality(Callers) \cup {Unread}]
    /\ outcome \in [Callers -> {"none", "projected", "duplicate", "stale", "failed"}]
    /\ refused \subseteq Requests /\ refused \cap diagnoses = {}
    /\ during \in [Callers -> SUBSET Callers]

Init ==
    /\ log = << >> /\ row = NoRow /\ diagnoses = {}
    /\ pc = [c \in Callers |-> "event"]
    /\ seen = [c \in Callers |-> Unread]
    /\ outcome = [c \in Callers |-> "none"]
    /\ refused = {}
    /\ during = [c \in Callers |-> {}]

-------------------------------------------------------------------------------
\* The exceptions of both calls are caught and logged; a request goes on to its
\* diagnosis row whatever came of the event and the projection.
Ends(c, how) ==
    /\ pc' = [pc EXCEPT ![c] = IF c \in Requests THEN "store" ELSE "done"]
    /\ outcome' = [outcome EXCEPT ![c] = how]

\* The unique idempotency key: diagnose::<alert_id> for every request.
SameKey(c, d) == c = d \/ (c \in Requests /\ d \in Requests)
IsDuplicate(c) == \E d \in ToSet(log) : SameKey(c, d)

LogEvent(c) ==
    /\ log' = Append(log, c)
    /\ during' = [d \in Callers |-> during[d] \cup IF Projecting(d) THEN {c} ELSE {}]

\* save_event: the event and its outbox row in one transaction.
SaveEvent(c) ==
    /\ pc[c] = "event" /\ ~IsDuplicate(c)
    /\ LogEvent(c)
    /\ pc' = [pc EXCEPT ![c] = "select"]
    /\ UNCHANGED <<row, diagnoses, seen, outcome, refused>>

\* Mutant: the duplicate is taken for saved, and projected.
ProjectDuplicate(c) ==
    /\ pc[c] = "event" /\ IsDuplicate(c)
    /\ pc' = [pc EXCEPT ![c] = "select"]
    /\ UNCHANGED <<log, row, diagnoses, seen, outcome, refused, during>>

DuplicateEvent(c) ==
    /\ pc[c] = "event" /\ IsDuplicate(c)
    /\ Ends(c, "duplicate")
    /\ UNCHANGED <<log, row, diagnoses, seen, refused, during>>

\* The call raises, before or after COMMIT.
SaveEventFails(c, committed) ==
    /\ pc[c] = "event"
    /\ committed => ~IsDuplicate(c)
    /\ IF committed THEN LogEvent(c) ELSE UNCHANGED <<log, during>>
    /\ Ends(c, "failed")
    /\ UNCHANGED <<row, diagnoses, seen, refused>>

Select(c) ==
    /\ pc[c] = "select"
    /\ seen' = [seen EXCEPT ![c] = IF row = NoRow THEN Unread ELSE row.version]
    /\ pc' = [pc EXCEPT ![c] = "write"]
    /\ UNCHANGED <<log, row, diagnoses, outcome, refused, during>>

\* Mutant: the branch that inserts the row is missing.
UpdateHits(c) == row # NoRow /\ seen[c] = row.version

\* INSERT ... ON CONFLICT DO NOTHING finds no row; UPDATE ... AND version = $7 finds one.
WriteHits(c) == IF row = NoRow THEN seen[c] = Unread ELSE seen[c] = row.version

\* Mutant: latest_event_id keeps its first value.
WrittenOnce(c) ==
    row' = [status |-> Status(c), latest |-> IF row = NoRow THEN c ELSE row.latest,
            version |-> IF row = NoRow THEN 0 ELSE row.version + 1]

\* Neither the order of the events nor the transition from the old status is looked at.
Written(c) ==
    row' = [status |-> Status(c), latest |-> c,
            version |-> IF row = NoRow THEN 0 ELSE row.version + 1]

Write(c) ==
    /\ pc[c] = "write" /\ WriteHits(c)
    /\ Written(c)
    /\ Ends(c, "projected")
    /\ UNCHANGED <<log, diagnoses, seen, refused, during>>

\* StaleProjectionError, which the router logs and drops.
WriteStale(c) ==
    /\ pc[c] = "write" /\ ~WriteHits(c)
    /\ Ends(c, "stale")
    /\ UNCHANGED <<log, row, diagnoses, seen, refused, during>>

ProjectionFails(c, committed) ==
    /\ Projecting(c)
    /\ IF committed THEN pc[c] = "write" /\ WriteHits(c) /\ Written(c) ELSE UNCHANGED row
    /\ Ends(c, "failed")
    /\ UNCHANGED <<log, diagnoses, seen, refused, during>>

\* save_diagnosis, for duplicates as well; incident_id refers to the row of incidents.
StoreDiagnosis(c) ==
    /\ pc[c] = "store" /\ row # NoRow
    /\ diagnoses' = diagnoses \cup {c}
    /\ pc' = [pc EXCEPT ![c] = "done"]
    /\ UNCHANGED <<log, row, seen, outcome, refused, during>>

StoreRefused(c) ==
    /\ pc[c] = "store" /\ row = NoRow
    /\ refused' = refused \cup {c}
    /\ pc' = [pc EXCEPT ![c] = "done"]
    /\ UNCHANGED <<log, row, diagnoses, seen, outcome, during>>

StoreFails(c) ==
    /\ pc[c] = "store"
    /\ pc' = [pc EXCEPT ![c] = "done"]
    /\ UNCHANGED <<log, row, diagnoses, seen, outcome, refused, during>>

\* The process of the caller dies, or its task is cancelled.
Dies(c) ==
    /\ pc[c] # "done"
    /\ pc' = [pc EXCEPT ![c] = "done"]
    /\ outcome' = [outcome EXCEPT ![c] = IF @ = "none" THEN "failed" ELSE @]
    /\ UNCHANGED <<log, row, diagnoses, seen, refused, during>>

Step(c) ==
    \/ SaveEvent(c) \/ DuplicateEvent(c) \/ Select(c) \/ Write(c) \/ WriteStale(c)
    \/ StoreDiagnosis(c) \/ StoreRefused(c)

Fails(c) ==
    \/ \E committed \in BOOLEAN : SaveEventFails(c, committed) \/ ProjectionFails(c, committed)
    \/ StoreFails(c) \/ Dies(c)

Next == \E c \in Callers : Step(c) \/ Fails(c)

Spec == Init /\ [][Next]_vars

-------------------------------------------------------------------------------
(* Properties *)

Position(c) == CHOOSE i \in 1..Len(log) : log[i] = c
SavedAfter(c) == {d \in ToSet(log) : Position(d) > Position(c)}

\* The row stands on an event of the log; and when the event of a call that reports its
\* projection written is newer than the one the row shows, then that event was saved
\* while the call the row shows was between its own event and its own projection: the
\* row goes back in time only between overlapping calls.
RegressNeedsOverlap ==
    row # NoRow =>
        /\ row.latest \in ToSet(log)
        /\ \A d \in SavedAfter(row.latest) :
               outcome[d] = "projected" => d \in during[row.latest]

\* When no projection is under way any more, a newest event that is not the one the row
\* shows was dropped as stale, failed, or was overtaken by an overlapping call.
NewestLostNeedsCause ==
    (log # << >> /\ \A c \in Callers : ~Projecting(c)) =>
        LET newest == Last(log)
        IN \/ outcome[newest] = "failed"
           \/ row # NoRow /\ \/ row.latest = newest
                             \/ newest \in during[row.latest]

\* StaleProjectionError, which is dropped, leaves a row that another call has projected:
\* of all calls that got to their projection, one is always in the row unless it failed.
StaleLeavesRow ==
    (\E c \in Callers : outcome[c] = "stale") =>
        /\ row # NoRow
        /\ outcome[row.latest] \in {"projected", "failed"}

\* What the row shows, and what became of the calls it does not show.
RowIsExplained == TypeOK /\ RegressNeedsOverlap /\ StaleLeavesRow

\* The foreign key refuses a diagnosis only while the projection of the first request is
\* still under way, or after a call for this incident failed or died: without a failure
\* a retry that comes late enough is never refused.
RefusalNeedsMishap ==
    [][\A c \in refused' \ refused : \E d \in Callers : outcome[d] = "failed" \/ Projecting(d)]_vars

\* Diagnosing an alert again never reopens an incident: only the first diagnosis of the
\* alert to be saved can, and only once.
ReopenedAtMostOnce ==
    [][IsClosed(row) /\ ~IsClosed(row') /\ row'.latest \in Requests =>
          /\ row'.latest \in ToSet(log)
          /\ row.latest \notin Requests
          /\ \A c \in Requests : outcome[c] # "projected"]_vars
===============================================================================
