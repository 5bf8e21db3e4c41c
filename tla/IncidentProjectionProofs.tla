----------------------- MODULE IncidentProjectionProofs -----------------------
(***************************************************************************)
(* The projection of an incident, for any number of requests and writers.  *)
(* ProjectionInv is inductive.  Its heart is Overtaken: a call whose event *)
(* is newer than the one the row shows, and was not saved while the call   *)
(* the row shows was projecting, has not reported its projection, and if   *)
(* it is about to write it has read the row as it is - so that its write   *)
(* will hit.  A write re-establishes that for every other call, because    *)
(* the writer has noted every event saved since its own.                   *)
(***************************************************************************)
EXTENDS IncidentProjection, FiniteSetTheorems, TLAPS

Points == {"event", "select", "write", "store", "done"}
Outcomes == {"none", "projected", "duplicate", "stale", "failed"}

\* The event of c is saved.
InLog(c) == c \in ToSet(log)

\* The calls whose event is saved and whose projection is over.
Over == {c \in ToSet(log) : ~Projecting(c)}

\* The types, without the bounds on versions that are derived at the end.
Typing ==
    /\ log \in Seq(Callers)
    /\ row \in [status : Statuses, latest : Callers, version : Nat] \cup {NoRow}
    /\ diagnoses \subseteq Requests
    /\ pc \in [Callers -> Points]
    /\ seen \in [Callers -> Nat \cup {Unread}]
    /\ outcome \in [Callers -> Outcomes]
    /\ refused \subseteq Requests
    /\ during \in [Callers -> SUBSET Callers]

\* Each call saves one event at most, and the requests of an alert one between them.
LogKnown ==
    /\ \A i, j \in 1..Len(log) : log[i] = log[j] => i = j
    /\ \A c, d \in Requests : InLog(c) /\ InLog(d) => c = d

\* What is known of a caller, by where it is and how it ended.
CallKnown(c) ==
    /\ outcome[c] = "none" <=> pc[c] \in {"event", "select", "write"}
    /\ pc[c] = "event" => ~InLog(c)
    /\ Projecting(c) \/ outcome[c] \in {"projected", "stale"} => InLog(c)
    /\ outcome[c] = "duplicate" => ~InLog(c) /\ log # << >>
    /\ pc[c] = "store" => c \in Requests
    /\ c \in diagnoses \cup refused => pc[c] = "done"
    /\ ~(c \in diagnoses /\ c \in refused)
    /\ seen[c] # Unread => row # NoRow /\ seen[c] <= row.version
    /\ outcome[c] \in {"projected", "stale"} => row # NoRow
    /\ Projecting(c) => SavedAfter(c) \subseteq during[c]

\* What is known of the callers whose events are newer than the row.
Overtaken(d) ==
    d \in SavedAfter(row.latest) /\ d \notin during[row.latest] =>
        /\ outcome[d] \in {"none", "failed"}
        /\ pc[d] = "write" => seen[d] = row.version

\* What is known of the row, once there is one.
RowKnown ==
    row # NoRow =>
        /\ row.status = Status(row.latest)
        /\ InLog(row.latest)
        /\ pc[row.latest] \in {"store", "done"}
        /\ outcome[row.latest] \in {"projected", "failed"}
        /\ \A d \in Callers : Overtaken(d)
        /\ row.version < Cardinality(Over)

ProjectionInv == Typing /\ LogKnown /\ (\A c \in Callers : CallKnown(c)) /\ RowKnown

-------------------------------------------------------------------------------
(* The log *)

\* The callers in the log.
LEMMA LogRange ==
  ASSUME Typing
  PROVE  /\ ToSet(log) = {log[i] : i \in 1..Len(log)} /\ Len(log) \in Nat
         /\ ToSet(log) \subseteq Callers
BY DEF Typing, ToSet

\* Any part of a log is finite, and no larger than the callers; with an event of each
\* caller at most, this bounds the version of the row.
LEMMA LogBound ==
  ASSUME NEW s \in Seq(Callers), NEW T \in SUBSET ToSet(s)
  PROVE  /\ IsFiniteSet(T) /\ Cardinality(T) \in Nat
         /\ Cardinality(T) <= Cardinality(Callers) /\ Cardinality(Callers) \in Nat
         /\ Cardinality(T) <= Len(s)
<1>1. ToSet(s) \subseteq Callers /\ IsFiniteSet(Callers)
  BY ProjectionAssumption DEF ToSet
<1>2. IsFiniteSet(ToSet(s)) /\ Cardinality(Callers) \in Nat
  BY <1>1, FS_Subset, FS_CardinalityType
<1>3. IsFiniteSet(T) /\ Cardinality(T) <= Cardinality(ToSet(s))
  BY <1>2, FS_Subset
<1>4. Cardinality(T) <= Cardinality(Callers)
  BY <1>1, FS_Subset
<1>5. Cardinality(ToSet(s)) <= Len(s)
  <2>1. s \in Surjection(1..Len(s), ToSet(s)) /\ Len(s) \in Nat
    BY DEF ToSet, Surjection
  <2> QED BY <2>1, FS_SurjCardinalityBound DEF ExistsSurjection
<1>6. Cardinality(T) \in Nat /\ Cardinality(ToSet(s)) \in Nat
  BY <1>2, <1>3, FS_CardinalityType
<1> QED BY <1>2, <1>3, <1>4, <1>5, <1>6

\* Events are saved once, so that each has one place in the log.
LEMMA PositionIs ==
  ASSUME Typing, LogKnown, NEW i \in 1..Len(log)
  PROVE  Position(log[i]) = i
<1>1. \A j \in 1..Len(log) : log[j] = log[i] => j = i
  BY DEF LogKnown
<1>2. \E j \in 1..Len(log) : log[j] = log[i]
  OBVIOUS
<1> QED BY <1>1, <1>2 DEF Position

\* An event is appended.
LEMMA AppendLog ==
  ASSUME Typing, LogKnown, NEW c \in Callers, ~IsDuplicate(c), log' = Append(log, c)
  PROVE  /\ log' \in Seq(Callers) /\ log' # << >> /\ ~InLog(c)
         /\ ToSet(log)' = ToSet(log) \cup {c}
         /\ LogKnown'
         /\ \A x \in ToSet(log) : SavedAfter(x)' = SavedAfter(x) \cup {c}
         /\ SavedAfter(c)' = {}
<1> DEFINE n == Len(log)
<1>1. /\ log \in Seq(Callers) /\ n \in Nat /\ Len(log') = n + 1 /\ log' \in Seq(Callers)
      /\ \A i \in 1..n : log'[i] = log[i]
      /\ log'[n + 1] = c
  BY DEF Typing
<1>2. ~InLog(c) /\ \A d \in ToSet(log) : ~SameKey(c, d)
  BY DEF IsDuplicate, SameKey, InLog
<1>3. ToSet(log)' = ToSet(log) \cup {c}
  BY <1>1, LogRange DEF ToSet
<1>4. \A i \in 1..n : log[i] # c /\ log[i] \in ToSet(log)
  BY <1>2, LogRange DEF InLog
<1>5. LogKnown'
  <2>1. ASSUME NEW i \in 1..(n + 1), NEW j \in 1..(n + 1), log'[i] = log'[j] PROVE i = j
    BY <1>1, <1>4, <2>1 DEF LogKnown
  <2>2. ASSUME NEW a \in Requests, NEW d \in Requests, a \in ToSet(log)', d \in ToSet(log)' PROVE a = d
    BY <1>2, <1>3, <2>2 DEF LogKnown, InLog, SameKey
  <2> QED BY <1>1, <2>1, <2>2 DEF LogKnown, InLog
<1>6. ASSUME NEW i \in 1..(n + 1), NEW d, d = log'[i] PROVE Position(d)' = i
  <2>1. \A j \in 1..(n + 1) : log'[j] = d => j = i
    BY <1>1, <1>5, <1>6 DEF LogKnown
  <2>2. Position(d)' = CHOOSE j \in 1..(n + 1) : log'[j] = d
    BY <1>1 DEF Position
  <2> QED BY <1>6, <2>1, <2>2
<1>7. ASSUME NEW x \in ToSet(log) PROVE Position(x)' = Position(x) /\ Position(x) \in 1..n
  <2>1. PICK i \in 1..n : x = log[i]
    BY LogRange
  <2>2. Position(x)' = i
    BY <1>1, <1>6, <2>1
  <2>3. Position(x) = i
    BY <2>1, PositionIs
  <2> QED BY <2>2, <2>3
<1>8. Position(c)' = n + 1
  BY <1>1, <1>6
<1>9. \A x \in ToSet(log) : SavedAfter(x)' = SavedAfter(x) \cup {c}
  <2> SUFFICES ASSUME NEW x \in ToSet(log) PROVE SavedAfter(x)' = SavedAfter(x) \cup {c}
    OBVIOUS
  <2>1. Position(c)' > Position(x)'
    BY <1>1, <1>7, <1>8
  <2>2. \A d \in ToSet(log) : Position(d)' > Position(x)' <=> Position(d) > Position(x)
    BY <1>7
  <2> QED BY <1>3, <2>1, <2>2 DEF SavedAfter
<1>10. SavedAfter(c)' = {}
  <2>1. \A d \in ToSet(log) : ~(Position(d)' > Position(c)')
    BY <1>1, <1>7, <1>8
  <2>2. ~(Position(c)' > Position(c)')
    BY <1>1, <1>8
  <2> QED BY <1>3, <2>1, <2>2 DEF SavedAfter
<1>11. log' # << >>
  BY <1>1
<1> QED BY <1>1, <1>2, <1>3, <1>5, <1>9, <1>10, <1>11

-------------------------------------------------------------------------------
(* The steps *)

\* Where a caller goes once its event and projection are over.
After(c) == IF c \in Requests THEN "store" ELSE "done"

\* A step of c leaves what belongs to the other callers alone.
Alone(c) ==
    \A d \in Callers \ {c} :
        /\ pc'[d] = pc[d] /\ seen'[d] = seen[d] /\ outcome'[d] = outcome[d]
        /\ (d \in diagnoses' <=> d \in diagnoses) /\ (d \in refused' <=> d \in refused)

\* A step that neither saves an event nor writes the row.
QuietStep(c) ==
    /\ UNCHANGED <<log, row, during>>
    /\ \/ /\ pc[c] = "event" /\ IsDuplicate(c) /\ Ends(c, "duplicate")
          /\ UNCHANGED <<seen, diagnoses, refused>>
       \/ /\ pc[c] \in {"event", "select", "write"} /\ Ends(c, "failed")
          /\ UNCHANGED <<seen, diagnoses, refused>>
       \/ /\ Select(c)
       \/ /\ pc[c] = "write" /\ ~WriteHits(c) /\ Ends(c, "stale")
          /\ UNCHANGED <<seen, diagnoses, refused>>
       \/ /\ pc[c] # "done" /\ pc' = [pc EXCEPT ![c] = "done"]
          /\ outcome' = [outcome EXCEPT ![c] = IF @ = "none" THEN "failed" ELSE @]
          /\ UNCHANGED <<seen, diagnoses, refused>>
       \/ /\ pc[c] = "store" /\ pc' = [pc EXCEPT ![c] = "done"]
          /\ \/ diagnoses' = diagnoses \cup {c} /\ refused' = refused
             \/ diagnoses' = diagnoses /\ refused' = refused \cup {c}
             \/ UNCHANGED <<diagnoses, refused>>
          /\ UNCHANGED <<outcome, seen>>

\* A step that writes the row.
WriteStep(c) ==
    /\ pc[c] = "write" /\ WriteHits(c) /\ Written(c)
    /\ \E how \in {"projected", "failed"} : Ends(c, how)
    /\ UNCHANGED <<log, diagnoses, seen, refused, during>>

\* A step that saves an event.
LogStep(c) ==
    /\ pc[c] = "event" /\ ~IsDuplicate(c) /\ LogEvent(c)
    /\ \/ pc' = [pc EXCEPT ![c] = "select"] /\ UNCHANGED outcome
       \/ Ends(c, "failed")
    /\ UNCHANGED <<row, diagnoses, seen, refused>>

\* Every step saves an event, writes the row, or does neither.
LEMMA StepKinds ==
  ASSUME ProjectionInv, [Next]_vars
  PROVE  UNCHANGED vars \/ \E c \in Callers : QuietStep(c) \/ WriteStep(c) \/ LogStep(c)
<1> SUFFICES ASSUME NEW c \in Callers, Step(c) \/ Fails(c)
             PROVE  QuietStep(c) \/ WriteStep(c) \/ LogStep(c)
  BY DEF Next
<1>1. CASE SaveEvent(c)
  BY <1>1 DEF SaveEvent, LogStep
<1>2. CASE DuplicateEvent(c)
  BY <1>2 DEF DuplicateEvent, QuietStep
<1>3. CASE Select(c)
  BY <1>3 DEF Select, QuietStep
<1>4. CASE Write(c)
  BY <1>4 DEF Write, WriteStep
<1>5. CASE WriteStale(c)
  BY <1>5 DEF WriteStale, QuietStep
<1>6. CASE StoreDiagnosis(c) \/ StoreRefused(c) \/ StoreFails(c)
  <2>1. outcome' = outcome
    BY <1>6 DEF StoreDiagnosis, StoreRefused, StoreFails
  <2> QED BY <1>6, <2>1 DEF StoreDiagnosis, StoreRefused, StoreFails, QuietStep
<1>7. ASSUME NEW committed \in BOOLEAN, SaveEventFails(c, committed)
      PROVE  QuietStep(c) \/ LogStep(c)
  <2>1. CASE committed
    BY <1>7, <2>1 DEF SaveEventFails, LogStep
  <2>2. CASE ~committed
    BY <1>7, <2>2 DEF SaveEventFails, QuietStep
  <2> QED BY <2>1, <2>2
<1>8. ASSUME NEW committed \in BOOLEAN, ProjectionFails(c, committed)
      PROVE  QuietStep(c) \/ WriteStep(c)
  <2>1. CASE committed
    BY <1>8, <2>1 DEF ProjectionFails, WriteStep
  <2>2. CASE ~committed
    BY <1>8, <2>2 DEF ProjectionFails, QuietStep, Projecting
  <2> QED BY <2>1, <2>2
<1>9. CASE Dies(c)
  BY <1>9 DEF Dies, QuietStep
<1> QED BY <1>1, <1>2, <1>3, <1>4, <1>5, <1>6, <1>7, <1>8, <1>9 DEF Step, Fails

\* A step of one caller leaves the others where they are.
LEMMA NewTyping ==
  ASSUME ProjectionInv, NEW c \in Callers, QuietStep(c) \/ WriteStep(c) \/ LogStep(c)
  PROVE  Typing' /\ Alone(c)
<1>1. Typing /\ CallKnown(c)
  BY DEF ProjectionInv
<1>2. pc[c] = "store" => c \in Requests
  BY <1>1 DEF CallKnown
<1> USE <1>1, <1>2 DEF Typing, Alone, Points, Outcomes, Ends
<1>3. CASE WriteStep(c)
  <2>1. Status(c) \in Statuses
    BY ProjectionAssumption DEF Status, Statuses, Callers
  <2>2. row' \in [status : Statuses, latest : Callers, version : Nat]
    BY <1>3, <2>1 DEF WriteStep, Written
  <2> QED BY <1>3, <2>2 DEF WriteStep
<1>4. CASE LogStep(c)
  <2>1. log' \in Seq(Callers) /\ during' \in [Callers -> SUBSET Callers]
    BY <1>4 DEF LogStep, LogEvent
  <2> QED BY <1>4, <2>1 DEF LogStep
<1>5. CASE Select(c) /\ QuietStep(c)
  <2>1. seen' \in [Callers -> Nat \cup {Unread}]
    BY <1>5 DEF Select
  <2> QED BY <1>5, <2>1 DEF Select
<1>6. CASE QuietStep(c) /\ ~Select(c)
  BY <1>6 DEF QuietStep
<1> QED BY <1>3, <1>4, <1>5, <1>6

\* What is read off the log stays while the log does.
LEMMA LogFrame ==
  ASSUME log' = log
  PROVE  /\ ToSet(log)' = ToSet(log)
         /\ \A d : (InLog(d)' <=> InLog(d)) /\ SavedAfter(d)' = SavedAfter(d)
BY DEF InLog, SavedAfter, Position

\* A quiet step of c, as c sees it.
LEMMA QuietCall ==
  ASSUME ProjectionInv, NEW c \in Callers, QuietStep(c)
  PROVE  CallKnown(c)' /\ (row # NoRow => Overtaken(c)')
                       /\ (~Projecting(c) => ~Projecting(c)' \/ ~InLog(c))
                       /\ (pc[c] \in {"store", "done"} =>
                              pc'[c] \in {"store", "done"} /\ outcome'[c] = outcome[c])
<1>1. Typing /\ CallKnown(c) /\ (row # NoRow => Overtaken(c))
  BY DEF ProjectionInv, RowKnown
<1>2. UNCHANGED <<log, row, during>> /\ (InLog(c)' <=> InLog(c)) /\ SavedAfter(c)' = SavedAfter(c)
      /\ (row # NoRow => SavedAfter(row.latest)' = SavedAfter(row.latest))
  BY LogFrame DEF QuietStep
<1>3. SavedAfter(row.latest) \subseteq ToSet(log)
  BY DEF SavedAfter
<1> USE <1>1, <1>2, <1>3 DEF Typing, Points, Outcomes, Ends, CallKnown, Overtaken, Projecting
<1>4. CASE pc[c] = "event" /\ IsDuplicate(c) /\ Ends(c, "duplicate")
           /\ UNCHANGED <<seen, diagnoses, refused>>
  <2>1. pc'[c] = After(c) /\ outcome'[c] = "duplicate" /\ seen'[c] = seen[c]
    BY <1>4 DEF After
  <2>2. log # << >>
    BY <1>4 DEF IsDuplicate, ToSet
  <2> QED BY <1>4, <2>1, <2>2 DEF After, InLog
<1>5. CASE pc[c] \in {"event", "select", "write"} /\ Ends(c, "failed")
           /\ UNCHANGED <<seen, diagnoses, refused>>
  <2>1. pc'[c] = After(c) /\ outcome'[c] = "failed" /\ seen'[c] = seen[c]
    BY <1>5 DEF After
  <2> QED BY <1>5, <2>1 DEF After
<1>6. CASE Select(c)
  <2>1. /\ pc[c] = "select" /\ pc'[c] = "write" /\ outcome'[c] = outcome[c]
        /\ seen'[c] = IF row = NoRow THEN Unread ELSE row.version
        /\ UNCHANGED <<diagnoses, refused>>
    BY <1>6 DEF Select
  <2>2. row # NoRow => row.version \in Nat
    OBVIOUS
  <2> QED BY <2>1, <2>2
<1>7. CASE pc[c] = "write" /\ ~WriteHits(c) /\ Ends(c, "stale") /\ UNCHANGED <<seen, diagnoses, refused>>
  <2>1. pc'[c] = After(c) /\ outcome'[c] = "stale" /\ seen'[c] = seen[c]
    BY <1>7 DEF After
  <2>2. row # NoRow /\ seen[c] # row.version
    BY <1>7 DEF WriteHits
  <2> QED BY <1>7, <2>1, <2>2 DEF After
<1>8. CASE /\ pc[c] # "done" /\ pc' = [pc EXCEPT ![c] = "done"]
           /\ outcome' = [outcome EXCEPT ![c] = IF @ = "none" THEN "failed" ELSE @]
           /\ UNCHANGED <<seen, diagnoses, refused>>
  <2>1. pc'[c] = "done" /\ seen'[c] = seen[c]
        /\ outcome'[c] = IF outcome[c] = "none" THEN "failed" ELSE outcome[c]
    BY <1>8
  <2> QED BY <1>8, <2>1
<1>9. CASE /\ pc[c] = "store" /\ pc' = [pc EXCEPT ![c] = "done"]
           /\ \/ diagnoses' = diagnoses \cup {c} /\ refused' = refused
              \/ diagnoses' = diagnoses /\ refused' = refused \cup {c}
              \/ UNCHANGED <<diagnoses, refused>>
           /\ UNCHANGED <<outcome, seen>>
  <2>1. pc'[c] = "done" /\ seen'[c] = seen[c] /\ outcome'[c] = outcome[c]
        /\ c \notin diagnoses /\ c \notin refused
    BY <1>9
  <2> QED BY <1>9, <2>1
<1> QED BY <1>4, <1>5, <1>6, <1>7, <1>8, <1>9 DEF QuietStep

\* A step that neither saves nor writes keeps the invariant.
LEMMA QuietKeeps ==
  ASSUME ProjectionInv, NEW c \in Callers, QuietStep(c)
  PROVE  ProjectionInv'
<1>1. Typing' /\ Alone(c) /\ Typing
  BY NewTyping DEF ProjectionInv
<1>2. UNCHANGED <<log, row, during>> /\ ToSet(log)' = ToSet(log)
      /\ \A d : (InLog(d)' <=> InLog(d)) /\ SavedAfter(d)' = SavedAfter(d)
  BY LogFrame DEF QuietStep
<1>3. LogKnown'
  BY <1>2 DEF ProjectionInv, LogKnown
<1>4. ASSUME NEW d \in Callers PROVE CallKnown(d)'
  <2>1. CASE d = c
    BY <2>1, QuietCall
  <2>2. CASE d # c
    BY <1>1, <1>2, <2>2 DEF ProjectionInv, CallKnown, Alone, Projecting
  <2> QED BY <2>1, <2>2
<1>5. RowKnown'
  <2> SUFFICES ASSUME row # NoRow
               PROVE  /\ pc'[row.latest] \in {"store", "done"}
                      /\ outcome'[row.latest] \in {"projected", "failed"}
                      /\ \A d \in Callers : Overtaken(d)'
                      /\ row.version < Cardinality(Over)'
    BY <1>2 DEF ProjectionInv, RowKnown
  <2>0. RowKnown /\ row.latest \in Callers /\ row.version \in Nat
    BY DEF ProjectionInv, Typing
  <2>1. pc'[row.latest] \in {"store", "done"} /\ outcome'[row.latest] \in {"projected", "failed"}
    <3>1. CASE row.latest = c
      BY <2>0, <3>1, QuietCall DEF RowKnown
    <3>2. CASE row.latest # c
      BY <1>1, <2>0, <3>2 DEF RowKnown, Alone
    <3> QED BY <3>1, <3>2
  <2>2. ASSUME NEW d \in Callers PROVE Overtaken(d)'
    <3>1. CASE d = c
      BY <3>1, QuietCall
    <3>2. CASE d # c
      BY <1>1, <1>2, <2>0, <3>2 DEF RowKnown, Alone, Overtaken
    <3> QED BY <3>1, <3>2
  <2>3. Over \subseteq Over'
    <3> SUFFICES ASSUME NEW d \in ToSet(log), ~Projecting(d) PROVE ~Projecting(d)'
      BY <1>2 DEF Over
    <3>0. d \in Callers
      BY <1>1, LogRange
    <3>1. CASE d = c
      BY <3>1, QuietCall DEF InLog
    <3>2. CASE d # c
      BY <1>1, <3>0, <3>2 DEF Alone, Projecting
    <3> QED BY <3>1, <3>2
  <2>4. Cardinality(Over) <= Cardinality(Over') /\ Cardinality(Over) \in Nat /\ Cardinality(Over') \in Nat
    <3>1. Over \subseteq ToSet(log) /\ Over' \subseteq ToSet(log)
      BY <1>2 DEF Over
    <3>2. log \in Seq(Callers)
      BY <1>1 DEF Typing
    <3> QED BY <2>3, <3>1, <3>2, LogBound, FS_Subset
  <2> QED BY <2>0, <2>1, <2>2, <2>4 DEF RowKnown
<1> QED BY <1>1, <1>3, <1>4, <1>5 DEF ProjectionInv

\* The row is written: the writer's event is in it, and every event saved after it was
\* saved while the writer was projecting.
LEMMA WriteKeeps ==
  ASSUME ProjectionInv, NEW c \in Callers, WriteStep(c)
  PROVE  ProjectionInv'
<1>1. Typing' /\ Alone(c) /\ Typing /\ CallKnown(c) /\ RowKnown
  BY NewTyping DEF ProjectionInv
<1>2. UNCHANGED <<log, during>> /\ ToSet(log)' = ToSet(log)
      /\ \A d : (InLog(d)' <=> InLog(d)) /\ SavedAfter(d)' = SavedAfter(d)
  BY LogFrame DEF WriteStep
<1>3. LogKnown'
  BY <1>2 DEF ProjectionInv, LogKnown
<1>4. /\ pc[c] = "write" /\ seen'[c] = seen[c] /\ pc'[c] = After(c)
      /\ outcome'[c] \in {"projected", "failed"} /\ UNCHANGED <<diagnoses, refused>>
      /\ row' # NoRow /\ row'.latest = c /\ row'.status = Status(c)
      /\ row'.version = IF row = NoRow THEN 0 ELSE row.version + 1
  <2>1. /\ pc[c] = "write" /\ UNCHANGED <<seen, diagnoses, refused>>
        /\ row' = [status |-> Status(c), latest |-> c,
                   version |-> IF row = NoRow THEN 0 ELSE row.version + 1]
    BY DEF WriteStep, Written
  <2>2. pc'[c] = After(c) /\ outcome'[c] \in {"projected", "failed"}
    BY <1>1 DEF WriteStep, Ends, After, Typing
  <2>3. row' # NoRow
    <3>1. Status(c) \in Statuses
      BY ProjectionAssumption DEF Status, Statuses, Callers
    <3>2. row' \in [status : Statuses, latest : Callers, version : Nat]
      BY <1>1, <2>1, <3>1 DEF Typing
    <3> QED BY <3>2, ProjectionAssumption
  <2> QED BY <2>1, <2>2, <2>3
<1>5. row # NoRow => row.version \in Nat /\ row'.version = row.version + 1
  BY <1>1, <1>4 DEF Typing
<1>6. \A d \in Callers : seen[d] # Unread => seen[d] <= row'.version
  <2> SUFFICES ASSUME NEW d \in Callers, seen[d] # Unread PROVE seen[d] <= row'.version
    OBVIOUS
  <2>1. row # NoRow /\ seen[d] <= row.version /\ seen[d] \in Nat
    BY <1>1 DEF ProjectionInv, CallKnown, Typing
  <2> QED BY <1>5, <2>1
<1>7. ASSUME NEW d \in Callers PROVE CallKnown(d)'
  <2>1. CASE d = c
    BY <1>1, <1>2, <1>4, <1>6, <2>1 DEF CallKnown, Projecting, After
  <2>2. CASE d # c
    BY <1>1, <1>2, <1>4, <1>6, <2>2 DEF ProjectionInv, CallKnown, Alone, Projecting
  <2> QED BY <2>1, <2>2
<1>8. SavedAfter(c) \subseteq during[c] /\ InLog(c)
  BY <1>1, <1>4 DEF CallKnown, Projecting
<1>9. row'.version < Cardinality(Over')
  <2>1. Over' = Over \cup {c} /\ c \notin Over
    <3>1. \A d \in ToSet(log) \ {c} : Projecting(d)' <=> Projecting(d)
      BY <1>1, LogRange DEF Alone, Projecting
    <3>2. Projecting(c) /\ ~Projecting(c)'
      BY <1>4 DEF Projecting, After
    <3> QED BY <1>2, <1>8, <3>1, <3>2 DEF Over, InLog
  <2>2. IsFiniteSet(Over) /\ Cardinality(Over) \in Nat
    BY <1>1, LogBound DEF Over, Typing
  <2>3. Cardinality(Over') = Cardinality(Over) + 1
    BY <2>1, <2>2, FS_AddElement
  <2>4. CASE row = NoRow
    BY <1>4, <2>2, <2>3, <2>4
  <2>5. CASE row # NoRow
    BY <1>1, <1>5, <2>2, <2>3, <2>5 DEF RowKnown
  <2> QED BY <2>4, <2>5
<1>10. RowKnown'
  <2>1. ASSUME NEW d \in Callers PROVE Overtaken(d)'
    BY <1>2, <1>4, <1>8 DEF Overtaken
  <2> QED BY <1>2, <1>4, <1>8, <1>9, <2>1 DEF RowKnown, After
<1> QED BY <1>1, <1>3, <1>7, <1>10 DEF ProjectionInv

\* An event is saved: it is the newest, and noted for every caller that is projecting.
LEMMA LogKeeps ==
  ASSUME ProjectionInv, NEW c \in Callers, LogStep(c)
  PROVE  ProjectionInv'
<1>1. Typing' /\ Alone(c) /\ Typing /\ CallKnown(c) /\ RowKnown /\ LogKnown
  BY NewTyping DEF ProjectionInv
<1>2. /\ log' # << >> /\ ~InLog(c) /\ ToSet(log)' = ToSet(log) \cup {c} /\ LogKnown'
      /\ \A x \in ToSet(log) : SavedAfter(x)' = SavedAfter(x) \cup {c}
      /\ SavedAfter(c)' = {} /\ log' \in Seq(Callers)
  <2>1. ~IsDuplicate(c) /\ log' = Append(log, c)
    BY DEF LogStep, LogEvent
  <2> QED BY <1>1, <2>1, AppendLog
<1>3. \A d : InLog(d)' <=> InLog(d) \/ d = c
  BY <1>2 DEF InLog
<1>4. /\ pc[c] = "event" /\ seen'[c] = seen[c] /\ UNCHANGED <<row, diagnoses, refused>>
      /\ \/ pc'[c] = "select" /\ outcome'[c] = outcome[c]
         \/ pc'[c] = After(c) /\ outcome'[c] = "failed"
  BY <1>1 DEF LogStep, Ends, After, Typing
<1>5. \A d \in Callers : /\ during[d] \subseteq during'[d]
                         /\ during'[d] \subseteq during[d] \cup {c}
                         /\ Projecting(d) => c \in during'[d]
  BY DEF LogStep, LogEvent
<1>6. ASSUME NEW d \in Callers PROVE CallKnown(d)'
  <2>1. CASE d = c
    BY <1>1, <1>2, <1>3, <1>4, <2>1 DEF CallKnown, Projecting, After
  <2>2. CASE d # c
    <3>1. CallKnown(d) /\ (Projecting(d)' <=> Projecting(d))
      BY <1>1, <2>2 DEF ProjectionInv, Alone, Projecting
    <3>2. Projecting(d) => SavedAfter(d)' \subseteq during'[d]
      <4>1. Projecting(d) => SavedAfter(d)' = SavedAfter(d) \cup {c} /\ SavedAfter(d) \subseteq during[d]
        BY <1>2, <3>1 DEF CallKnown, InLog
      <4> QED BY <1>5, <4>1
    <3> QED BY <1>1, <1>2, <1>3, <1>4, <2>2, <3>1, <3>2 DEF CallKnown, Alone
  <2> QED BY <2>1, <2>2
<1>7. RowKnown'
  <2> SUFFICES ASSUME row # NoRow
               PROVE  /\ pc'[row.latest] \in {"store", "done"}
                      /\ outcome'[row.latest] \in {"projected", "failed"}
                      /\ \A d \in Callers : Overtaken(d)'
                      /\ row.version < Cardinality(Over)'
    BY <1>1, <1>3, <1>4 DEF RowKnown
  <2>1. row.latest \in Callers \ {c} /\ row.version \in Nat /\ InLog(row.latest)
    BY <1>1, <1>4 DEF RowKnown, Typing
  <2>2. pc'[row.latest] \in {"store", "done"} /\ outcome'[row.latest] \in {"projected", "failed"}
    BY <1>1, <2>1 DEF RowKnown, Alone
  <2>3. SavedAfter(row.latest)' = SavedAfter(row.latest) \cup {c}
    BY <1>2, <1>4, <2>1 DEF InLog
  <2>4. ASSUME NEW d \in Callers PROVE Overtaken(d)'
    <3>1. CASE d = c
      <4>1. outcome'[c] \in {"none", "failed"} /\ pc'[c] # "write"
        BY <1>1, <1>4 DEF CallKnown, After
      <4> QED BY <3>1, <4>1 DEF Overtaken
    <3>2. CASE d # c
      <4>1. d \in SavedAfter(row.latest)' /\ d \notin during'[row.latest] =>
              d \in SavedAfter(row.latest) /\ d \notin during[row.latest]
        BY <1>5, <2>1, <2>3, <3>2
      <4> QED BY <1>1, <1>4, <3>2, <4>1 DEF RowKnown, Alone, Overtaken
    <3> QED BY <3>1, <3>2
  <2>5. Over \subseteq Over'
    <3>1. \A d \in ToSet(log) : d \in Callers /\ d # c
      BY <1>1, <1>2, LogRange DEF InLog
    <3> QED BY <1>1, <1>2, <3>1 DEF Over, Alone, Projecting
  <2>6. IsFiniteSet(Over') /\ Cardinality(Over) \in Nat /\ Cardinality(Over') \in Nat
    <3>1. Over' \subseteq ToSet(log)' /\ ToSet(log)' = ToSet(log')
      BY DEF Over, ToSet
    <3> QED BY <1>1, <1>2, <3>1, LogBound DEF Over, Typing
  <2>7. Cardinality(Over) <= Cardinality(Over')
    BY <2>5, <2>6, FS_Subset
  <2> QED BY <1>1, <2>1, <2>2, <2>4, <2>6, <2>7 DEF RowKnown
<1> QED BY <1>1, <1>2, <1>6, <1>7 DEF ProjectionInv

\* Nothing is saved at first.
LEMMA InitProjection == Init => ProjectionInv
<1> SUFFICES ASSUME Init PROVE ProjectionInv
  OBVIOUS
<1>1. Typing
  BY DEF Init, Typing, Points, Outcomes
<1>2. \A c : ~InLog(c)
  BY DEF Init, InLog, ToSet
<1>3. LogKnown
  BY <1>2 DEF Init, LogKnown
<1>4. \A c \in Callers : CallKnown(c)
  BY <1>2 DEF Init, CallKnown, Projecting
<1>5. RowKnown
  BY DEF Init, RowKnown
<1> QED BY <1>1, <1>3, <1>4, <1>5 DEF ProjectionInv

\* A stuttering step keeps the invariant.
LEMMA StillKeeps == ASSUME ProjectionInv, UNCHANGED vars PROVE ProjectionInv'
<1>1. UNCHANGED <<log, row, diagnoses, pc, seen, outcome, refused, during>>
  BY DEF vars
<1>2. ToSet(log)' = ToSet(log) /\ Over' = Over
      /\ \A d : (InLog(d)' <=> InLog(d)) /\ SavedAfter(d)' = SavedAfter(d)
  BY <1>1, LogFrame DEF Over, Projecting
<1>3. Typing' /\ LogKnown'
  BY <1>1, <1>2 DEF ProjectionInv, Typing, LogKnown
<1>4. \A c \in Callers : CallKnown(c)'
  BY <1>1, <1>2 DEF ProjectionInv, CallKnown, Projecting
<1>5. RowKnown'
  BY <1>1, <1>2 DEF ProjectionInv, RowKnown, Overtaken
<1> QED BY <1>3, <1>4, <1>5 DEF ProjectionInv

\* ProjectionInv holds of every reachable state.
THEOREM ProjectionKept == Spec => []ProjectionInv
<1>1. ProjectionInv /\ [Next]_vars => ProjectionInv'
  BY StepKinds, StillKeeps, QuietKeeps, WriteKeeps, LogKeeps
<1> QED BY InitProjection, <1>1, PTL DEF Spec

\* However many calls of the router and other writers overlap, the row of incidents stands
\* on a saved event, goes back in time only between overlapping calls, and is there
\* whenever a projection was dropped as stale (save_event, update_projection).
THEOREM RowExplained == Spec => []RowIsExplained
<1>1. ASSUME ProjectionInv PROVE TypeOK
  <2>1. Typing /\ RowKnown
    BY <1>1 DEF ProjectionInv
  <2>2. Cardinality(Over) \in Nat /\ Cardinality(Over) <= Cardinality(Callers)
        /\ Cardinality(Callers) \in Nat /\ Cardinality(Over) <= Len(log) /\ Len(log) \in Nat
    BY <2>1, LogBound, LogRange DEF Over, Typing
  <2>3. row # NoRow => /\ row.version \in 0..Cardinality(Callers) /\ row.version < Len(log)
                       /\ row \in [status : Statuses, latest : Callers, version : Nat]
    BY <2>1, <2>2 DEF RowKnown, Typing
  <2>4. row # NoRow => row \in [status : Statuses, latest : Callers, version : 0..Cardinality(Callers)]
    BY <2>3
  <2>5. seen \in [Callers -> 0..Cardinality(Callers) \cup {Unread}]
    <3> SUFFICES ASSUME NEW c \in Callers PROVE seen[c] \in 0..Cardinality(Callers) \cup {Unread}
      BY <2>1 DEF Typing
    <3>1. seen[c] # Unread => seen[c] \in Nat /\ row # NoRow /\ seen[c] <= row.version
      BY <1>1, <2>1 DEF ProjectionInv, CallKnown, Typing
    <3> QED BY <2>2, <2>3, <3>1
  <2>6. refused \cap diagnoses = {}
    BY <1>1 DEF ProjectionInv, CallKnown, Typing, Callers
  <2> QED BY <2>1, <2>3, <2>4, <2>5, <2>6 DEF TypeOK, Typing, Points, Outcomes
<1>2. ASSUME ProjectionInv PROVE RegressNeedsOverlap
  <2> SUFFICES ASSUME row # NoRow
               PROVE  /\ row.latest \in ToSet(log)
                      /\ \A d \in SavedAfter(row.latest) :
                            outcome[d] = "projected" => d \in during[row.latest]
    BY DEF RegressNeedsOverlap
  <2>1. Typing /\ RowKnown /\ SavedAfter(row.latest) \subseteq ToSet(log)
    BY <1>2 DEF ProjectionInv, SavedAfter
  <2> QED BY <2>1, LogRange DEF RowKnown, Overtaken, InLog
<1>3. ASSUME ProjectionInv PROVE StaleLeavesRow
  BY <1>3 DEF ProjectionInv, CallKnown, RowKnown, StaleLeavesRow
<1>4. ProjectionInv => RowIsExplained
  BY <1>1, <1>2, <1>3 DEF RowIsExplained
<1> QED BY ProjectionKept, <1>4, PTL

\* A logged call that is not under way any more.
LEMMA LoggedEnd ==
  ASSUME ProjectionInv, NEW d \in ToSet(log), ~Projecting(d)
  PROVE  outcome[d] \in {"projected", "stale", "failed"} /\ d \in Callers
<1>1. d \in Callers /\ CallKnown(d) /\ outcome[d] \in Outcomes /\ pc[d] \in Points
  BY LogRange DEF ProjectionInv, Typing
<1>2. pc[d] # "event"
  BY <1>1 DEF CallKnown, InLog
<1> QED BY <1>1, <1>2 DEF CallKnown, InLog, Projecting, Outcomes, Points

\* Once no projection is under way, the newest event shows in the row, or its call failed,
\* or it was saved while the call the row shows was projecting: StaleProjectionError alone
\* loses no newest event.
THEOREM NewestExplained == Spec => []NewestLostNeedsCause
<1>1. ASSUME ProjectionInv, log # << >>, \A c \in Callers : ~Projecting(c),
             outcome[Last(log)] # "failed"
      PROVE  row # NoRow /\ (row.latest = Last(log) \/ Last(log) \in during[row.latest])
  <2> DEFINE d == Last(log)
             n == Len(log)
  <2>1. Typing /\ LogKnown /\ RowKnown /\ n \in Nat \ {0} /\ d = log[n] /\ d \in ToSet(log) /\ d \in Callers
    BY <1>1, LogRange DEF ProjectionInv, Typing, Last
  <2>2. outcome[d] \in {"projected", "stale"}
    BY <1>1, <2>1, LoggedEnd
  <2>3. row # NoRow /\ row.latest \in ToSet(log)
    BY <1>1, <2>1, <2>2 DEF ProjectionInv, CallKnown, RowKnown, InLog
  <2>4. PICK i \in 1..n : row.latest = log[i]
    BY <2>1, <2>3, LogRange
  <2>5. Position(d) = n /\ Position(row.latest) = i
    BY <2>1, <2>4, PositionIs
  <2>6. i = n \/ d \in SavedAfter(row.latest)
    BY <2>1, <2>4, <2>5 DEF SavedAfter
  <2>7. Overtaken(d)
    BY <2>1, <2>3 DEF RowKnown
  <2> QED BY <2>1, <2>2, <2>3, <2>4, <2>6, <2>7 DEF Overtaken
<1>2. ProjectionInv => NewestLostNeedsCause
  BY <1>1 DEF NewestLostNeedsCause
<1> QED BY ProjectionKept, <1>2, PTL

\* The foreign key of diagnosis_results refuses a diagnosis only while a projection is
\* under way or after a call failed or died.
THEOREM RefusalsExplained == Spec => RefusalNeedsMishap
<1>1. ASSUME ProjectionInv, [Next]_vars, NEW c \in refused' \ refused
      PROVE  \E d \in Callers : outcome[d] = "failed" \/ Projecting(d)
  <2>1. PICK d \in Callers : StoreRefused(d)
    BY <1>1 DEF Next, Step, Fails, vars, SaveEvent, DuplicateEvent, Select, Write, WriteStale,
       StoreDiagnosis, SaveEventFails, ProjectionFails, StoreFails, Dies
  <2>2. pc[d] = "store" /\ row = NoRow /\ CallKnown(d) /\ outcome[d] \in Outcomes
    BY <1>1, <2>1 DEF StoreRefused, ProjectionInv, Typing
  <2>3. outcome[d] \in {"duplicate", "failed"}
    BY <2>2 DEF CallKnown, Outcomes
  <2>4. CASE outcome[d] = "duplicate"
    <3>1. log # << >> /\ Typing
      BY <1>1, <2>2, <2>4 DEF CallKnown, ProjectionInv
    <3>2. PICK e \in ToSet(log) : TRUE
      <4>1. 1 \in 1..Len(log)
        BY <3>1 DEF Typing
      <4> QED BY <3>1, <4>1, LogRange
    <3>3. e \in Callers /\ (~Projecting(e) => outcome[e] \in {"projected", "stale", "failed"})
      BY <1>1, <3>1, <3>2, LoggedEnd, LogRange
    <3>4. outcome[e] \notin {"projected", "stale"}
      BY <1>1, <2>2, <3>3 DEF ProjectionInv, CallKnown
    <3> QED BY <3>3, <3>4
  <2> QED BY <2>3, <2>4
<1>2. ProjectionInv /\ [Next]_vars =>
        [\A c \in refused' \ refused : \E d \in Callers : outcome[d] = "failed" \/ Projecting(d)]_vars
  BY <1>1
<1> QED BY ProjectionKept, <1>2, PTL DEF Spec, RefusalNeedsMishap

\* Diagnosing an alert again reopens no incident: only the first of its requests to be
\* saved can, because later ones are duplicates that project nothing.
THEOREM ReopenedOnce == Spec => ReopenedAtMostOnce
<1>1. ASSUME ProjectionInv, [Next]_vars, IsClosed(row), ~IsClosed(row'), row'.latest \in Requests
      PROVE  /\ row'.latest \in ToSet(log)
             /\ row.latest \notin Requests
             /\ \A c \in Requests : outcome[c] # "projected"
  <2>1. row' # row
    BY <1>1
  <2>2. PICK c \in Callers : WriteStep(c)
    BY <1>1, <2>1, StepKinds DEF QuietStep, LogStep, vars
  <2>3. row'.latest = c /\ pc[c] = "write" /\ CallKnown(c) /\ RowKnown /\ LogKnown
    BY <1>1, <2>2 DEF WriteStep, Written, ProjectionInv
  <2>4. InLog(c) /\ outcome[c] = "none" /\ c \in Requests
    BY <1>1, <2>3 DEF CallKnown, Projecting
  <2>5. row.latest \notin Requests
    BY <1>1, <2>3 DEF IsClosed, RowKnown, Status, ClosedStatuses
  <2>6. ASSUME NEW d \in Requests, outcome[d] = "projected" PROVE FALSE
    <3>1. InLog(d)
      BY <1>1, <2>6 DEF ProjectionInv, CallKnown, Callers
    <3>2. d = c
      BY <2>3, <2>4, <3>1 DEF LogKnown
    <3> QED BY <2>4, <2>6, <3>2
  <2> QED BY <2>3, <2>4, <2>5, <2>6 DEF InLog
<1>2. ProjectionInv /\ [Next]_vars =>
        [IsClosed(row) /\ ~IsClosed(row') /\ row'.latest \in Requests =>
            /\ row'.latest \in ToSet(log)
            /\ row.latest \notin Requests
            /\ \A c \in Requests : outcome[c] # "projected"]_vars
  BY <1>1
<1> QED BY ProjectionKept, <1>2, PTL DEF Spec, ReopenedAtMostOnce
===============================================================================
