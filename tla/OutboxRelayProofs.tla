-------------------------- MODULE OutboxRelayProofs --------------------------
(***************************************************************************)
(* Proofs about OutboxRelay for any number of relays and events and any    *)
(* retry limit and batch size.  IInv ties the program counter of a relay   *)
(* to the row it works on: a claimed row is "processing" until its owner   *)
(* closes it, its attempts are paid for by retry_count, and only a row     *)
(* whose mark_sent lost its reply is "sent" while it is still worked on.   *)
(* And about the bus that the relays publish on: what an acknowledgement   *)
(* promises, and why an event is handled twice or waits for ever.  Last,   *)
(* that the loops of relay and reader end, whatever fails.                 *)
(***************************************************************************)
EXTENDS OutboxRelay, RedisStreamsBus, FiniteSetTheorems, SequenceTheorems,
        WellFoundedInduction, TLAPS

\* What holds of a row whoever works on it.
RowOK(e) ==
    /\ stream[e] <= retries[e] + 1
    /\ status[e] = "absent" => stream[e] = 0 /\ retries[e] = 0
    /\ status[e] = "pending" => stream[e] <= retries[e] /\ retries[e] < MaxRetries
    /\ status[e] = "sent" \/ e \in processed => stream[e] > 0

\* What holds of a claimed row its relay has not come to.
TodoOK(e) ==
    status[e] = "processing" /\ stream[e] <= retries[e] /\ retries[e] < MaxRetries

\* What holds of the row r works on, by the call r makes next.
EntryOK(r, e) ==
    /\ pc[r] \in {"publish", "mark", "settle", "count", "bury", "release"}
    /\ status[e] \in {"processing", "sent"}
    /\ pc[r] \in {"publish", "mark", "settle"} => status[e] = "processing"
    /\ pc[r] = "publish" => e \notin processed
    /\ pc[r] \in {"publish", "release"} => stream[e] <= retries[e]
    /\ pc[r] \in {"mark", "settle"} => stream[e] > 0
    /\ IF pc[r] = "bury" THEN retries[e] = MaxRetries ELSE retries[e] < MaxRetries

RelayOK(r) ==
    /\ pc[r] = "down" => todo[r] = {}
    /\ entry[r] = NoEvent <=> pc[r] \in {"down", "loop"}
    /\ entry[r] \notin todo[r]
    /\ \A e \in todo[r] : TodoOK(e)
    /\ \A e \in Events : e = entry[r] => EntryOK(r, e)

Exclusive ==
    \A r \in Relays : \A s \in Relays \ {r} : \A e \in Held(r) : e \notin Held(s)

IInv ==
    /\ TypeOK
    /\ \A e \in Events : RowOK(e)
    /\ \A r \in Relays : RelayOK(r)
    /\ Exclusive

------------------------------------------------------------------------------
\* The step leaves every relay but r and every row but e alone.
OnlyRelay(r) ==
    \A s \in Relays \ {r} : pc'[s] = pc[s] /\ todo'[s] = todo[s] /\ entry'[s] = entry[s]

OnlyRow(e) ==
    \A f \in Events \ {e} :
        /\ status'[f] = status[f] /\ retries'[f] = retries[f] /\ stream'[f] = stream[f]
        /\ f \in processed' <=> f \in processed

LEMMA InitIInv == Init => IInv
<1> SUFFICES ASSUME Init PROVE IInv
  OBVIOUS
<1>1. TypeOK
  BY OutboxAssumption DEF Init, TypeOK, Statuses, Calls
<1>2. \A e \in Events : RowOK(e)
  BY DEF Init, RowOK
<1>3. \A r \in Relays : RelayOK(r)
  BY OutboxAssumption DEF Init, RelayOK
<1>4. Exclusive
  BY DEF Init, Exclusive, Held
<1>5. QED
  BY <1>1, <1>2, <1>3, <1>4 DEF IInv

\* A relay that works on a row of its own disturbs no other relay and no other row.
LEMMA OwnRowStep ==
  ASSUME IInv, NEW r \in Relays, NEW e \in Events, e \in Held(r),
         OnlyRelay(r), OnlyRow(e), Held(r)' \subseteq Held(r),
         TypeOK', RowOK(e)', RelayOK(r)'
  PROVE  IInv'
<1>1. ASSUME NEW f \in Events PROVE RowOK(f)'
  <2>1. CASE f = e
    BY <2>1
  <2>2. CASE f # e
    BY <2>2 DEF IInv, RowOK, OnlyRow
  <2>3. QED
    BY <2>1, <2>2
<1>2. ASSUME NEW s \in Relays PROVE RelayOK(s)'
  <2>1. CASE s = r
    BY <2>1
  <2>2. CASE s # r
    <3>1. e \notin Held(s) /\ pc'[s] = pc[s] /\ todo'[s] = todo[s] /\ entry'[s] = entry[s]
      BY <2>2 DEF IInv, Exclusive, OnlyRelay
    <3>2. \A f \in todo[s] : f \in Events /\ f # e
      BY <3>1 DEF IInv, TypeOK, Held
    <3>3. \A f \in todo'[s] : TodoOK(f)'
      BY <3>1, <3>2 DEF IInv, RelayOK, TodoOK, OnlyRow
    <3>4. \A f \in Events : f = entry'[s] => f # e /\ EntryOK(s, f)
      BY <3>1, OutboxAssumption DEF IInv, RelayOK, Held
    <3>5. \A f \in Events : f = entry'[s] => EntryOK(s, f)'
      BY <3>1, <3>4 DEF EntryOK, OnlyRow
    <3>6. QED
      BY <3>1, <3>3, <3>5 DEF IInv, RelayOK
  <2>3. QED
    BY <2>1, <2>2
<1>3. \A s \in Relays \ {r} : Held(s)' = Held(s)
  BY DEF OnlyRelay, Held
<1>4. Exclusive'
  BY <1>3 DEF IInv, Exclusive
<1>5. QED
  BY <1>1, <1>2, <1>4 DEF IInv

\* is_event_processed takes the row from todo to entry, whatever it answers.
LEMMA CheckStep ==
  ASSUME IInv, NEW r \in Relays, NEW e \in todo[r], Check(r, e) \/ CheckFails(r, e)
  PROVE  IInv'
<1>1. /\ e \in Events /\ e # NoEvent /\ TodoOK(e) /\ RowOK(e) /\ entry[r] = NoEvent
      /\ pc[r] = "loop"
  BY OutboxAssumption DEF IInv, TypeOK, RelayOK, Check, CheckFails
<1>2. /\ UNCHANGED tables
      /\ todo' = [todo EXCEPT ![r] = @ \ {e}]
      /\ entry' = [entry EXCEPT ![r] = e]
      /\ \/ pc' = [pc EXCEPT ![r] = "count"]
         \/ pc' = [pc EXCEPT ![r] = "settle"] /\ e \in processed
         \/ pc' = [pc EXCEPT ![r] = "publish"] /\ e \notin processed
  BY DEF Check, CheckFails, AfterCheck, Goto
<1>3. TypeOK'
  BY <1>1, <1>2 DEF IInv, TypeOK, Calls, tables
<1>4. OnlyRelay(r) /\ OnlyRow(e) /\ e \in Held(r) /\ Held(r)' \subseteq Held(r)
  BY <1>1, <1>2 DEF IInv, TypeOK, OnlyRelay, OnlyRow, Held, tables
<1>5. RowOK(e)'
  BY <1>1, <1>2 DEF RowOK, tables
<1>6. RelayOK(r)'
  <2>1. entry'[r] = e /\ todo'[r] = todo[r] \ {e} /\ pc'[r] \in {"publish", "settle", "count"}
    BY <1>2 DEF IInv, TypeOK
  <2>2. \A f \in todo'[r] : TodoOK(f)'
    BY <1>2, <2>1 DEF IInv, RelayOK, TodoOK, tables
  <2>3. EntryOK(r, e)'
    BY <1>1, <1>2 DEF IInv, TypeOK, EntryOK, TodoOK, RowOK, tables
  <2>4. QED
    BY <1>1, <2>1, <2>2, <2>3 DEF RelayOK
<1>7. QED
  BY <1>1, <1>3, <1>4, <1>5, <1>6, OwnRowStep

\* The relay stays with its entry: publish, the marker, and calls that raise.
LEMMA StayStep ==
  ASSUME IInv, NEW r \in Relays, NEW e \in Events, e = entry[r],
         TypeOK', OnlyRelay(r), OnlyRow(e),
         todo' = todo, entry' = entry, RowOK(e)', EntryOK(r, e)'
  PROVE  IInv'
<1>1. e \in Held(r) /\ Held(r)' = Held(r)
  BY OutboxAssumption DEF Held
<1>2. \A f \in todo[r] : f \in Events /\ f # e /\ TodoOK(f)
  BY DEF IInv, RelayOK, TypeOK
<1>3. \A f \in todo'[r] : TodoOK(f)'
  BY <1>2 DEF TodoOK, OnlyRow
<1>4. RelayOK(r)'
  BY <1>2, <1>3, OutboxAssumption DEF RelayOK, EntryOK
<1>5. QED
  BY <1>1, <1>4, OwnRowStep

\* The relay is done with its entry, with or without the rest of its batch.
LEMMA LeaveStep ==
  ASSUME IInv, NEW r \in Relays, NEW e \in Events, e = entry[r],
         TypeOK', OnlyRow(e), NextEntry(r), todo' = todo \/ todo' = [todo EXCEPT ![r] = {}],
         RowOK(e)'
  PROVE  IInv'
<1>1. /\ pc' = [pc EXCEPT ![r] = "loop"]
      /\ entry' = [entry EXCEPT ![r] = NoEvent]
  BY DEF NextEntry, Goto
<1>2. OnlyRelay(r)
  BY <1>1 DEF OnlyRelay, IInv, TypeOK
<1>3. pc'[r] = "loop" /\ entry'[r] = NoEvent /\ todo'[r] \subseteq todo[r]
  BY <1>1 DEF IInv, TypeOK
<1>4. e \in Held(r) /\ Held(r)' \subseteq Held(r)
  BY <1>3, OutboxAssumption DEF Held
<1>5. \A f \in todo[r] : f \in Events /\ f # e /\ f # NoEvent /\ TodoOK(f)
  BY OutboxAssumption DEF IInv, RelayOK, TypeOK
<1>6. RelayOK(r)'
  <2>1. \A f \in todo'[r] : TodoOK(f)'
    BY <1>3, <1>5 DEF TodoOK, OnlyRow
  <2>2. QED
    BY <1>3, <1>5, <2>1, OutboxAssumption DEF RelayOK
<1>7. QED
  BY <1>2, <1>4, <1>6, OwnRowStep

\* What is known of the row r works on.
LEMMA EntryKnown ==
  ASSUME IInv, NEW r \in Relays, pc[r] \notin {"down", "loop"}
  PROVE  /\ entry[r] \in Events
         /\ EntryOK(r, entry[r]) /\ RowOK(entry[r])
  BY DEF IInv, TypeOK, RelayOK

\* publish: what was appended is paid for by the attempt under way.
LEMMA PublishStep ==
  ASSUME IInv, NEW r \in Relays, Publish(r)
  PROVE  IInv'
<1>1. PICK e \in Events : /\ e = entry[r] /\ pc[r] = "publish" /\ EntryOK(r, e) /\ RowOK(e)
  BY EntryKnown DEF Publish
<1>2. /\ stream' = [stream EXCEPT ![e] = @ + 1]
      /\ UNCHANGED <<status, retries, processed, todo, entry>>
      /\ pc' = [pc EXCEPT ![r] = "mark"] \/ pc' = [pc EXCEPT ![r] = "count"]
  BY <1>1 DEF Publish, Goto
<1>3. TypeOK'
  BY <1>1, <1>2 DEF IInv, TypeOK, Calls
<1>4. OnlyRelay(r) /\ OnlyRow(e)
  BY <1>2 DEF IInv, TypeOK, OnlyRelay, OnlyRow
<1>5. RowOK(e)' /\ EntryOK(r, e)'
  BY <1>1, <1>2 DEF IInv, TypeOK, RowOK, EntryOK
<1>6. QED
  BY <1>1, <1>2, <1>3, <1>4, <1>5, StayStep

\* mark_event_processed: the event it marks is on the stream.
LEMMA MarkStep ==
  ASSUME IInv, NEW r \in Relays, Mark(r)
  PROVE  IInv'
<1>1. PICK e \in Events : /\ e = entry[r] /\ pc[r] = "mark" /\ EntryOK(r, e) /\ RowOK(e)
  BY EntryKnown DEF Mark
<1>2. /\ processed' = processed \cup {e}
      /\ UNCHANGED <<status, retries, stream, todo, entry>>
      /\ pc' = [pc EXCEPT ![r] = "settle"] \/ pc' = [pc EXCEPT ![r] = "count"]
  BY <1>1 DEF Mark, Goto
<1>3. TypeOK'
  BY <1>1, <1>2 DEF IInv, TypeOK, Calls
<1>4. OnlyRelay(r) /\ OnlyRow(e)
  BY <1>2 DEF IInv, TypeOK, OnlyRelay, OnlyRow
<1>5. RowOK(e)' /\ EntryOK(r, e)'
  BY <1>1, <1>2 DEF IInv, TypeOK, RowOK, EntryOK
<1>6. QED
  BY <1>1, <1>2, <1>3, <1>4, <1>5, StayStep

\* mark_sent closes the row; after a lost reply the relay still works on it.
LEMMA SettleStep ==
  ASSUME IInv, NEW r \in Relays, Settle(r)
  PROVE  IInv'
<1>1. PICK e \in Events : /\ e = entry[r] /\ pc[r] = "settle" /\ EntryOK(r, e) /\ RowOK(e)
  BY EntryKnown DEF Settle
<1>2. /\ status' = [status EXCEPT ![e] = "sent"]
      /\ UNCHANGED <<retries, processed, stream, todo>>
  BY <1>1 DEF Settle
<1>3. OnlyRow(e) /\ RowOK(e)'
  BY <1>1, <1>2 DEF IInv, TypeOK, OnlyRow, RowOK, EntryOK
<1>4. CASE NextEntry(r)
  <2>1. TypeOK'
    BY <1>1, <1>2, <1>4 DEF IInv, TypeOK, Statuses, Calls, NextEntry, Goto
  <2>2. QED
    BY <1>1, <1>2, <1>3, <1>4, <2>1, LeaveStep
<1>5. CASE Goto(r, "count") /\ UNCHANGED entry
  <2>1. TypeOK' /\ OnlyRelay(r)
    BY <1>1, <1>2, <1>5 DEF IInv, TypeOK, Statuses, Calls, Goto, OnlyRelay
  <2>2. EntryOK(r, e)'
    BY <1>1, <1>2, <1>5 DEF IInv, TypeOK, EntryOK, Goto
  <2>3. QED
    BY <1>1, <1>2, <1>3, <1>5, <2>1, <2>2, StayStep
<1>6. QED
  BY <1>1, <1>4, <1>5 DEF Settle

LEMMA CallFailsStep ==
  ASSUME IInv, NEW r \in Relays, CallFails(r)
  PROVE  IInv'
<1>1. PICK e \in Events : /\ e = entry[r] /\ pc[r] \in {"publish", "mark", "settle"}
                           /\ EntryOK(r, e) /\ RowOK(e)
  BY EntryKnown DEF CallFails
<1>2. UNCHANGED <<tables, todo, entry>> /\ pc' = [pc EXCEPT ![r] = "count"]
  BY DEF CallFails, Goto
<1>3. TypeOK' /\ OnlyRelay(r) /\ OnlyRow(e)
  BY <1>1, <1>2 DEF IInv, TypeOK, Calls, tables, OnlyRelay, OnlyRow
<1>4. RowOK(e)' /\ EntryOK(r, e)'
  BY <1>1, <1>2 DEF IInv, TypeOK, RowOK, EntryOK, tables
<1>5. QED
  BY <1>1, <1>2, <1>3, <1>4, StayStep

\* increment_retry: the count pays for one more delivery or reaches the limit.
LEMMA CountStep ==
  ASSUME IInv, NEW r \in Relays, Count(r)
  PROVE  IInv'
<1>1. PICK e \in Events : /\ e = entry[r] /\ pc[r] = "count" /\ EntryOK(r, e) /\ RowOK(e)
  BY EntryKnown DEF Count
<1>2. /\ retries' = [retries EXCEPT ![e] = @ + 1]
      /\ UNCHANGED <<status, processed, stream>>
  BY <1>1 DEF Count, Retried
<1>3. OnlyRow(e) /\ RowOK(e)'
  BY <1>1, <1>2, OutboxAssumption DEF IInv, TypeOK, OnlyRow, RowOK, EntryOK
<1>4. retries[e] + 1 \in 0 .. MaxRetries
  BY <1>1, OutboxAssumption DEF IInv, TypeOK, EntryOK
<1>5. CASE Goto(r, AfterCount(e)) /\ UNCHANGED <<todo, entry>>
  <2>1. \/ pc' = [pc EXCEPT ![r] = "bury"] /\ retries'[e] = MaxRetries
        \/ pc' = [pc EXCEPT ![r] = "release"] /\ retries'[e] < MaxRetries
    <3>1. retries'[e] = retries[e] + 1 /\ retries[e] \in Nat /\ retries[e] < MaxRetries
      BY <1>1, <1>2 DEF IInv, TypeOK, EntryOK
    <3>2. \/ AfterCount(e) = "bury" /\ retries[e] + 1 = MaxRetries
          \/ AfterCount(e) = "release" /\ retries[e] + 1 < MaxRetries
      BY <3>1, OutboxAssumption DEF AfterCount, Retried
    <3>3. QED
      BY <1>5, <3>1, <3>2 DEF Goto
  <2>2. TypeOK' /\ OnlyRelay(r)
    BY <1>1, <1>2, <1>4, <1>5, <2>1 DEF IInv, TypeOK, Calls, OnlyRelay
  <2>3. EntryOK(r, e)'
    BY <1>1, <1>2, <2>1, OutboxAssumption DEF IInv, TypeOK, EntryOK, RowOK
  <2>4. QED
    BY <1>1, <1>3, <1>5, <2>2, <2>3, StayStep
<1>6. CASE AbandonBatch(r)
  <2>1. TypeOK'
    BY <1>1, <1>2, <1>4, <1>6 DEF IInv, TypeOK, Calls, AbandonBatch, Desert, NextEntry, Goto
  <2>2. QED
    BY <1>1, <1>3, <1>6, <2>1, LeaveStep DEF AbandonBatch, Desert
<1>7. QED
  BY <1>1, <1>5, <1>6 DEF Count

\* mark_dlq, release_claim, and a failure of either or of increment_retry.
LEMMA CloseStep ==
  ASSUME IInv, NEW r \in Relays, Bury(r) \/ Release(r) \/ BookkeepingFails(r)
  PROVE  IInv'
<1>1. PICK e \in Events : /\ e = entry[r] /\ pc[r] \in {"count", "bury", "release"}
                           /\ EntryOK(r, e) /\ RowOK(e)
  BY EntryKnown DEF Bury, Release, BookkeepingFails
<1>2. /\ NextEntry(r)
      /\ todo' = todo \/ todo' = [todo EXCEPT ![r] = {}]
      /\ UNCHANGED <<retries, processed, stream>>
  BY DEF Bury, Release, BookkeepingFails, AbandonBatch, Desert, tables
<1>3. /\ \A f \in Events \ {e} : status'[f] = status[f]
      /\ \/ status'[e] \in {status[e], "dlq"}
         \/ status'[e] = "pending" /\ pc[r] = "release"
      /\ status' \in [Events -> Statuses]
  <2>1. CASE Bury(r)
    BY <2>1, <1>1 DEF Bury, IInv, TypeOK, Statuses
  <2>2. CASE Release(r)
    BY <2>2, <1>1 DEF Release, Reopened, IInv, TypeOK, Statuses
  <2>3. CASE BookkeepingFails(r)
    BY <2>3, <1>1 DEF BookkeepingFails, tables, IInv, TypeOK
  <2>4. QED
    BY <2>1, <2>2, <2>3
<1>4. TypeOK'
  BY <1>1, <1>2, <1>3 DEF IInv, TypeOK, Calls, NextEntry, Goto
<1>5. OnlyRow(e)
  BY <1>2, <1>3 DEF OnlyRow
<1>6. RowOK(e)'
  BY <1>1, <1>2, <1>3 DEF RowOK, EntryOK
<1>7. QED
  BY <1>1, <1>2, <1>4, <1>5, <1>6, LeaveStep

------------------------------------------------------------------------------
\* No relay holds a pending row, so a claim takes rows from nobody.
LEMMA ClaimStep ==
  ASSUME IInv, NEW r \in Relays, Claim(r) \/ ClaimLost(r)
  PROVE  IInv'
<1>1. Oldest \subseteq Events /\ \A e \in Oldest : status[e] = "pending"
  BY DEF Oldest, Pending
<1>2. /\ pc[r] = "loop" /\ todo[r] = {}
      /\ status' = [e \in Events |-> IF e \in Oldest THEN "processing" ELSE status[e]]
      /\ todo' = [todo EXCEPT ![r] = Oldest] \/ todo' = todo
      /\ UNCHANGED <<retries, processed, stream, pc, entry>>
  BY DEF Claim, ClaimLost, Claimed
<1>3. \A s \in Relays : \A e \in Held(s) : e \notin Oldest
  BY <1>1, OutboxAssumption DEF IInv, TypeOK, RelayOK, Held, TodoOK, EntryOK
<1>4. TypeOK'
  BY <1>1, <1>2 DEF IInv, TypeOK, Statuses
<1>5. ASSUME NEW e \in Events PROVE RowOK(e)'
  BY <1>1, <1>2, <1>5 DEF IInv, TypeOK, RowOK
<1>6. ASSUME NEW s \in Relays PROVE RelayOK(s)'
  <2>1. \A e \in todo[s] : e \in Events /\ e \notin Oldest /\ TodoOK(e)
    BY <1>3 DEF IInv, TypeOK, RelayOK, Held
  <2>2. \A e \in Oldest : status'[e] = "processing" /\ stream[e] <= retries[e] /\ retries[e] < MaxRetries
    BY <1>1, <1>2 DEF IInv, RowOK
  <2>3. \A e \in todo'[s] : TodoOK(e)'
    BY <1>2, <2>1, <2>2 DEF IInv, TypeOK, TodoOK
  <2>4. \A e \in Events : e = entry[s] => EntryOK(s, e) /\ status'[e] = status[e]
    BY <1>2, <1>3, OutboxAssumption DEF IInv, RelayOK, Held
  <2>5. \A e \in Events : e = entry'[s] => EntryOK(s, e)'
    BY <1>2, <2>4 DEF EntryOK
  <2>6. entry[s] \notin todo'[s]
    <3>1. CASE s = r
      BY <1>1, <1>2, <3>1, OutboxAssumption DEF IInv, TypeOK, RelayOK
    <3>2. CASE s # r
      BY <1>2, <3>2 DEF IInv, TypeOK, RelayOK
    <3>3. QED
      BY <3>1, <3>2
  <2>7. pc'[s] = "down" => todo'[s] = {}
    BY <1>2 DEF IInv, TypeOK, RelayOK
  <2>8. QED
    BY <1>2, <2>3, <2>5, <2>6, <2>7 DEF IInv, RelayOK
<1>7. Exclusive'
  <2>1. \A s \in Relays \ {r} : Held(s)' = Held(s)
    BY <1>2 DEF IInv, TypeOK, Held
  <2>2. Held(r)' \subseteq Oldest \cup Held(r)
    BY <1>2 DEF IInv, TypeOK, Held
  <2>3. QED
    BY <1>3, <2>1, <2>2 DEF IInv, Exclusive
<1>8. QED
  BY <1>4, <1>5, <1>6, <1>7 DEF IInv

\* Starting, stopping and crashing only let go of rows; saving an event adds a row
\* nobody holds; retention deletes a marker.
LEMMA EnvironmentStep ==
  ASSUME IInv,
         \/ \E e \in Events : Save(e) \/ DeleteMarker(e)
         \/ \E r \in Relays : Start(r) \/ Stop(r) \/ Crash(r)
         \/ UNCHANGED vars
  PROVE  IInv'
<1>1. ASSUME NEW e \in Events, Save(e) PROVE IInv'
  <2>1. \A r \in Relays : e \notin todo[r] /\ e # entry[r]
    BY <1>1, OutboxAssumption DEF Save, IInv, RelayOK, TodoOK, EntryOK
  <2>2. TypeOK' /\ Exclusive'
    BY <1>1 DEF Save, IInv, TypeOK, Statuses, Exclusive, Held
  <2>3. \A f \in Events : RowOK(f)'
    BY <1>1, OutboxAssumption DEF Save, IInv, TypeOK, RowOK
  <2>4. ASSUME NEW r \in Relays PROVE RelayOK(r)'
    <3>1. \A f \in Events : f # e => (TodoOK(f) => TodoOK(f)') /\ (EntryOK(r, f) => EntryOK(r, f)')
      BY <1>1 DEF Save, IInv, TypeOK, TodoOK, EntryOK
    <3>2. QED
      BY <1>1, <2>1, <3>1 DEF Save, IInv, TypeOK, RelayOK
  <2>5. QED
    BY <2>2, <2>3, <2>4 DEF IInv
<1>2. ASSUME NEW e \in Events, DeleteMarker(e) PROVE IInv'
  <2>1. TypeOK' /\ Exclusive' /\ \A f \in Events : RowOK(f)'
    BY <1>2 DEF DeleteMarker, IInv, TypeOK, Exclusive, Held, RowOK
  <2>2. \A r \in Relays : RelayOK(r)'
    BY <1>2 DEF DeleteMarker, IInv, TypeOK, RelayOK, TodoOK, EntryOK
  <2>3. QED
    BY <2>1, <2>2 DEF IInv
<1>3. ASSUME NEW r \in Relays, Start(r) \/ Stop(r) \/ Crash(r) PROVE IInv'
  <2>1. /\ UNCHANGED tables
        /\ \A s \in Relays \ {r} : pc'[s] = pc[s] /\ todo'[s] = todo[s] /\ entry'[s] = entry[s]
        /\ pc'[r] \in {"down", "loop"} /\ todo'[r] = {} /\ entry'[r] = NoEvent
    BY <1>3 DEF Start, Stop, Crash, Desert, Goto, IInv, TypeOK, RelayOK
  <2>2. TypeOK'
    BY <1>3 DEF Start, Stop, Crash, Desert, Goto, IInv, TypeOK, Calls, tables
  <2>3. \A e \in Events : RowOK(e)'
    BY <2>1 DEF IInv, RowOK, tables
  <2>4. \A s \in Relays : RelayOK(s)'
    BY <2>1, OutboxAssumption DEF IInv, RelayOK, TodoOK, EntryOK, tables
  <2>5. Exclusive'
    BY <2>1 DEF IInv, Exclusive, Held
  <2>6. QED
    BY <2>2, <2>3, <2>4, <2>5 DEF IInv
<1>4. CASE UNCHANGED vars
  BY <1>4 DEF vars, IInv, TypeOK, RowOK, RelayOK, TodoOK, EntryOK, Exclusive, Held
<1>5. QED
  BY <1>1, <1>2, <1>3, <1>4

\* IInv is inductive, for any number of relays and events.
THEOREM Inductive == Spec => []IInv
<1>1. IInv /\ [Next]_vars => IInv'
  BY EnvironmentStep, ClaimStep, CheckStep, PublishStep, MarkStep, SettleStep, CallFailsStep,
     CountStep, CloseStep DEF Next, RelayNext, Work
<1>2. QED
  BY InitIInv, <1>1, PTL DEF Spec

\* The table keeps to its status domain and its retry limit.
THEOREM TypeCorrect == Spec => []TypeOK
<1>1. IInv => TypeOK
  BY DEF IInv
<1>2. QED
  BY Inductive, <1>1, PTL

\* A claimed row is worked on by one relay only and is not offered to another.
THEOREM Exclusivity == Spec => []ExclusiveClaims
<1>1. IInv => ExclusiveClaims
  BY OutboxAssumption DEF IInv, TypeOK, RelayOK, TodoOK, EntryOK, Exclusive, ExclusiveClaims, Held
<1>2. QED
  BY Inductive, <1>1, PTL

\* An event whose marker is written is not published again.
THEOREM MarkedOnce == Spec => NoPublishOnceMarked
<1>1. IInv /\ [Next]_vars => [\A e \in processed : stream'[e] = stream[e]]_vars
  <2> SUFFICES ASSUME IInv, Next, NEW e \in processed PROVE stream'[e] = stream[e]
    BY DEF vars
  <2>1. ASSUME NEW r \in Relays, Publish(r) PROVE stream'[e] = stream[e]
    <3>1. entry[r] \in Events /\ entry[r] \notin processed
      BY <2>1, EntryKnown DEF Publish, EntryOK
    <3>2. QED
      BY <2>1, <3>1 DEF Publish, IInv, TypeOK
  <2>2. CASE UNCHANGED stream
    BY <2>2
  <2>3. QED
    BY <2>1, <2>2 DEF Next, RelayNext, Work, Save, DeleteMarker, Start, Stop, Crash, Desert, Claim,
          ClaimLost, Check, CheckFails, Mark, Settle, CallFails, Count, Bury, Release,
          BookkeepingFails, tables
<1>2. QED
  BY Inductive, <1>1, PTL DEF Spec, NoPublishOnceMarked

------------------------------------------------------------------------------
\* The claimed rows that no relay has in hand, whatever brought that about.
Unheld == {e \in Events : status[e] = "processing" /\ \A r \in Relays : e \notin Held(r)}

DesertedKnown == deserted = Unheld

\* A relay moves and touches its own rows only: of these, the rows it lets go of while they
\* are claimed are deserted.
LEMMA OwnUnheld ==
  ASSUME IInv, DesertedKnown, NEW r \in Relays, OnlyRelay(r), Held(r)' \subseteq Held(r),
         \A e \in Events \ Held(r) : status'[e] = status[e],
         deserted' = deserted \cup {e \in Held(r) : status'[e] = "processing" /\ e \notin Held(r)'}
  PROVE  DesertedKnown'
<1>1. \A s \in Relays \ {r} : Held(s)' = Held(s)
  BY DEF OnlyRelay, Held
<1>2. Held(r) \subseteq Events
  BY DEF IInv, TypeOK, Held
<1>3. ASSUME NEW e \in Held(r) PROVE e \in deserted' <=> e \in Unheld'
  <2>1. e \notin deserted /\ \A s \in Relays \ {r} : e \notin Held(s)'
    BY <1>1, <1>3 DEF DesertedKnown, Unheld, IInv, Exclusive
  <2> QED BY <1>2, <2>1 DEF Unheld
<1>4. ASSUME NEW e \in Events \ Held(r) PROVE e \in deserted' <=> e \in Unheld'
  BY <1>1 DEF DesertedKnown, Unheld
<1>5. deserted' \subseteq Events /\ Unheld' \subseteq Events
  BY <1>2 DEF DesertedKnown, Unheld
<1> QED BY <1>3, <1>4, <1>5 DEF DesertedKnown

\* The for loop on its way through the batch: a row is let go of when it is closed or free.
LEMMA LoopDeserts ==
  ASSUME IInv, DesertedKnown, NEW r \in Relays, Work(r)
  PROVE  DesertedKnown'
<1>1. \A s \in Relays : todo[s] \subseteq Events /\ entry[s] \in Events \cup {NoEvent}
  BY DEF IInv, TypeOK
<1>2. OnlyRelay(r)
  BY DEF Work, Check, CheckFails, Publish, Mark, Settle, CallFails, Count, Bury, Release,
     BookkeepingFails, AbandonBatch, Desert, NextEntry, Goto, OnlyRelay, IInv, TypeOK
<1>3. ASSUME NEW e \in todo[r], Check(r, e) \/ CheckFails(r, e) PROVE DesertedKnown'
  <2>1. /\ todo'[r] = todo[r] \ {e} /\ entry'[r] = e /\ entry[r] = NoEvent /\ e # NoEvent
        /\ UNCHANGED <<status, deserted>>
    BY <1>3, OutboxAssumption DEF Check, CheckFails, tables, IInv, TypeOK, RelayOK
  <2>2. Held(r)' = Held(r)
    BY <2>1 DEF Held
  <2> QED BY <1>2, <2>1, <2>2, OwnUnheld
<1>4. CASE /\ pc[r] \notin {"down", "loop"} /\ UNCHANGED <<todo, deserted>>
           /\ entry' = entry \/ (entry'[r] = NoEvent /\ status'[entry[r]] # "processing")
           /\ \A e \in Events \ {entry[r]} : status'[e] = status[e]
  <2>1. entry[r] \in Events /\ entry[r] # NoEvent /\ entry[r] \in Held(r)
    BY <1>4, EntryKnown, OutboxAssumption DEF Held
  <2>2. Held(r)' \in {Held(r), Held(r) \ {entry[r]}}
    BY <1>4, <2>1 DEF Held, IInv, RelayOK
  <2>3. {e \in Held(r) : status'[e] = "processing" /\ e \notin Held(r)'} = {}
    BY <1>4, <2>1, <2>2 DEF Held
  <2> QED BY <1>2, <1>4, <2>1, <2>2, <2>3, OwnUnheld
<1>5. CASE /\ pc[r] \notin {"down", "loop"} /\ AbandonBatch(r)
           /\ \A e \in Events \ {entry[r]} : status'[e] = status[e]
  <2>1. entry[r] \in Held(r)
    BY <1>5, EntryKnown, OutboxAssumption DEF Held
  <2>2. Held(r)' = {}
    BY <1>5 DEF AbandonBatch, NextEntry, Desert, Held, IInv, TypeOK
  <2>3. deserted' = deserted \cup {e \in Held(r) : status'[e] = "processing" /\ e \notin Held(r)'}
    BY <1>5, <2>2 DEF AbandonBatch, Desert
  <2> QED BY <1>2, <1>5, <2>1, <2>2, <2>3, OwnUnheld
<1>6. CASE Publish(r) \/ Mark(r) \/ CallFails(r)
  <2>1. pc[r] \notin {"down", "loop"} /\ UNCHANGED <<todo, deserted, entry, status>>
    BY <1>6 DEF Publish, Mark, CallFails, tables
  <2> QED BY <1>4, <2>1
<1>7. ASSUME NEW new, pc[r] \notin {"down", "loop"}, status' = [status EXCEPT ![entry[r]] = new]
      PROVE  /\ status'[entry[r]] = new
             /\ \A e \in Events \ {entry[r]} : status'[e] = status[e]
  BY <1>7, EntryKnown DEF IInv, TypeOK
<1>8. CASE Settle(r)
  <2>1. /\ pc[r] \notin {"down", "loop"} /\ UNCHANGED <<todo, deserted>>
        /\ status' = [status EXCEPT ![entry[r]] = "sent"]
        /\ entry' = entry \/ entry'[r] = NoEvent
    BY <1>8 DEF Settle, NextEntry, IInv, TypeOK
  <2> QED BY <1>4, <1>7, <2>1
<1>9. CASE Count(r) \/ BookkeepingFails(r)
  <2>1. /\ pc[r] \notin {"down", "loop"} /\ status' = status
        /\ UNCHANGED <<todo, deserted, entry>> \/ AbandonBatch(r)
    BY <1>9 DEF Count, BookkeepingFails, tables
  <2> QED BY <1>4, <1>5, <2>1
<1>10. CASE Bury(r) \/ Release(r)
  <2>1. /\ pc[r] \notin {"down", "loop"}
        /\ \E new : new # "processing" /\ status' = [status EXCEPT ![entry[r]] = new]
        /\ AbandonBatch(r) \/ (UNCHANGED <<todo, deserted>> /\ entry'[r] = NoEvent)
    BY <1>10 DEF Bury, Release, Reopened, NextEntry, IInv, TypeOK
  <2> QED BY <1>4, <1>5, <1>7, <2>1
<1> QED BY <1>3, <1>6, <1>8, <1>9, <1>10 DEF Work

\* claim_pending: free rows go into a relay's hand, or into nobody's.
LEMMA ClaimDeserts ==
  ASSUME IInv, DesertedKnown, NEW r \in Relays, Claim(r) \/ ClaimLost(r)
  PROVE  DesertedKnown'
<1>1. /\ Oldest \subseteq Events /\ \A e \in Oldest : status[e] = "pending"
      /\ \A s \in Relays : todo[s] \subseteq Events
      /\ entry' = entry
      /\ \A e \in Events : status'[e] = IF e \in Oldest THEN "processing" ELSE status[e]
  BY DEF Oldest, Pending, Claim, ClaimLost, Claimed, IInv, TypeOK
<1>2. \A s \in Relays : \A e \in Oldest : e \notin Held(s)
  BY <1>1, OutboxAssumption DEF IInv, RelayOK, TodoOK, EntryOK, Held
<1>3. CASE Claim(r)
  <2>1. /\ deserted' = deserted /\ todo[r] = {} /\ todo'[r] = Oldest
        /\ \A s \in Relays \ {r} : todo'[s] = todo[s]
    BY <1>3 DEF Claim, IInv, TypeOK
  <2>2. /\ \A s \in Relays \ {r} : Held(s)' = Held(s)
        /\ Held(r)' = Held(r) \cup Oldest
    BY <1>1, <2>1 DEF Held
  <2>3. \A e \in Events : e \in Unheld' <=> e \in Unheld
    BY <1>1, <1>2, <2>2 DEF Unheld
  <2>4. Unheld' \subseteq Events /\ Unheld \subseteq Events
    BY DEF Unheld
  <2> QED BY <2>1, <2>3, <2>4 DEF DesertedKnown
<1>4. CASE ClaimLost(r)
  <2>1. deserted' = deserted \cup Oldest /\ todo' = todo
    BY <1>4 DEF ClaimLost
  <2>2. \A s \in Relays : Held(s)' = Held(s)
    BY <1>1, <2>1 DEF Held
  <2>3. \A e \in Events : e \in Unheld' <=> e \in Unheld \/ e \in Oldest
    BY <1>1, <1>2, <2>2 DEF Unheld
  <2>4. Unheld' \subseteq Events /\ Unheld \subseteq Events
    BY DEF Unheld
  <2> QED BY <1>1, <2>1, <2>3, <2>4 DEF DesertedKnown
<1> QED BY <1>3, <1>4

\* What begins and ends relays, writes rows and deletes markers.
LEMMA EnvironmentDeserts ==
  ASSUME IInv, DesertedKnown,
         \/ \E e \in Events : Save(e) \/ DeleteMarker(e)
         \/ \E r \in Relays : Start(r) \/ Stop(r) \/ Crash(r)
         \/ UNCHANGED vars
  PROVE  DesertedKnown'
<1>1. ASSUME NEW e \in Events, Save(e) PROVE DesertedKnown'
  <2>1. /\ UNCHANGED <<todo, entry, deserted>> /\ status[e] = "absent" /\ status'[e] = "pending"
        /\ \A f \in Events \ {e} : status'[f] = status[f]
    BY <1>1 DEF Save, IInv, TypeOK
  <2>2. \A s \in Relays : Held(s)' = Held(s)
    BY <2>1 DEF Held
  <2>3. Unheld' = Unheld
    BY <2>1, <2>2 DEF Unheld
  <2> QED BY <2>1, <2>3 DEF DesertedKnown
<1>2. ASSUME UNCHANGED <<status, todo, entry, deserted>> PROVE DesertedKnown'
  BY <1>2 DEF DesertedKnown, Unheld, Held
<1>3. ASSUME NEW r \in Relays, Crash(r) PROVE DesertedKnown'
  <2>1. status' = status /\ OnlyRelay(r) /\ Held(r)' = {}
    BY <1>3 DEF Crash, Desert, tables, OnlyRelay, Held, IInv, TypeOK
  <2>2. deserted' = deserted \cup {e \in Held(r) : status'[e] = "processing" /\ e \notin Held(r)'}
    BY <1>3, <2>1 DEF Crash, Desert
  <2> QED BY <2>1, <2>2, OwnUnheld
<1> QED BY <1>1, <1>2, <1>3 DEF DeleteMarker, Start, Stop, vars, tables

\* The rows a crash, a lost reply or an exception has left are exactly the claimed rows that
\* nobody works on: no row is forgotten otherwise, and none of these is ever taken up.
THEOREM StrandedExplained == Spec => []DesertedKnown
<1>1. Init => DesertedKnown
  BY DEF Init, DesertedKnown, Unheld
<1>2. IInv /\ DesertedKnown /\ [Next]_vars => DesertedKnown'
  BY LoopDeserts, ClaimDeserts, EnvironmentDeserts DEF Next, RelayNext
<1> QED BY <1>1, <1>2, Inductive, PTL DEF Spec

------------------------------------------------------------------------------
\* Claiming, releasing and failing leave the outcome of every event alone.
LEMMA SameOutcome ==
  ASSUME status \in [Events -> Statuses], status' \in [Events -> Statuses],
         \A e \in Events : status'[e] = status[e]
                            \/ {status[e], status'[e]} \subseteq {"pending", "processing"}
  PROVE  Outcome' = Outcome
<1>1. ASSUME NEW e \in Events PROVE Outcome'[e] = Outcome[e]
  BY DEF Outcome
<1>2. QED
  BY <1>1 DEF Outcome

\* What a step of r on its row does, seen from the promise.
LEMMA RowStepRefines ==
  ASSUME IInv, IInv', NEW r \in Relays,
         Publish(r) \/ Settle(r) \/ Count(r) \/ Bury(r)
  PROVE  [Promise!Next]_Promise!vars
<1>1. PICK e \in Events : e = entry[r] /\ EntryOK(r, e) /\ RowOK(e)
  BY EntryKnown DEF Publish, Settle, Count, Bury
<1>2. Outcome[e] \in {"owed", "settled"} /\ (status[e] = "processing" => Outcome[e] = "owed")
  BY <1>1 DEF EntryOK, Outcome
<1>3. CASE Publish(r)
  <2>1. Promise!Deliver(e)
    BY <1>1, <1>2, <1>3 DEF Publish, Promise!Deliver, EntryOK, Outcome
  <2>2. QED
    BY <2>1 DEF Promise!Next
<1>4. CASE Settle(r)
  <2>1. Outcome' = [Outcome EXCEPT ![e] = "settled"]
    BY <1>1, <1>4 DEF Settle, Outcome, IInv, TypeOK
  <2>2. Promise!Settle(e)
    BY <1>1, <1>2, <1>4, <2>1 DEF Settle, EntryOK, Promise!Settle
  <2>3. QED
    BY <2>2 DEF Promise!Next
<1>5. CASE Count(r)
  <2>1. Promise!Fail(e)
    BY <1>1, <1>2, <1>5 DEF Count, Retried, EntryOK, Outcome, Promise!Fail
  <2>2. QED
    BY <2>1 DEF Promise!Next
<1>6. CASE Bury(r)
  <2>1. Outcome' = [Outcome EXCEPT ![e] = "buried"]
    BY <1>1, <1>6 DEF Bury, Outcome, IInv, TypeOK
  <2>2. Promise!Bury(e)
    BY <1>1, <1>2, <1>6, <2>1 DEF Bury, EntryOK, Promise!Bury
  <2>3. QED
    BY <2>2 DEF Promise!Next
<1>7. QED
  BY <1>3, <1>4, <1>5, <1>6

\* The outbox keeps the promise of AtLeastOnce, for every retry limit: sent only after
\* a delivery, dead only after max_retries failures, never reopened, and at most one
\* delivery more than failures.
THEOREM Refinement == Spec => ImplementsAtLeastOnce
<1>1. Init => Promise!Init
  BY DEF Init, Promise!Init, Outcome
<1>2. ASSUME IInv, IInv', [Next]_vars PROVE [Promise!Next]_Promise!vars
  <2>1. ASSUME NEW e \in Events, Save(e) PROVE [Promise!Next]_Promise!vars
    <3>1. Outcome[e] = "unsaved" /\ Outcome' = [Outcome EXCEPT ![e] = "owed"]
      BY <1>2, <2>1 DEF Save, Outcome, IInv, TypeOK
    <3>2. Promise!Save(e)
      BY <2>1, <3>1 DEF Save, Promise!Save
    <3>3. QED
      BY <3>2 DEF Promise!Next
  <2>2. ASSUME NEW r \in Relays, Publish(r) \/ Settle(r) \/ Count(r) \/ Bury(r)
        PROVE  [Promise!Next]_Promise!vars
    BY <1>2, <2>2, RowStepRefines
  <2>3. CASE UNCHANGED <<status, stream, retries>>
    BY <2>3 DEF Promise!vars, Outcome
  <2>4. ASSUME NEW r \in Relays, Claim(r) \/ ClaimLost(r) \/ Release(r)
        PROVE  [Promise!Next]_Promise!vars
    <3>1. UNCHANGED <<stream, retries>>
      BY <2>4 DEF Claim, ClaimLost, Release
    <3>2. \A e \in Events : status'[e] = status[e]
                            \/ {status[e], status'[e]} \subseteq {"pending", "processing"}
      BY <1>2, <2>4 DEF Claim, ClaimLost, Claimed, Oldest, Pending, Release, Reopened, IInv, TypeOK
    <3>3. Outcome' = Outcome
      BY <1>2, <3>2, SameOutcome DEF IInv, TypeOK
    <3>4. QED
      BY <3>1, <3>3 DEF Promise!vars
  <2>5. QED
    BY <1>2, <2>1, <2>2, <2>3, <2>4 DEF Next, RelayNext, Work, vars, DeleteMarker, Start, Stop,
          Crash, Check, CheckFails, Mark, CallFails, BookkeepingFails, tables
<1>3. QED
  BY Inductive, <1>1, <1>2, PTL DEF Spec, ImplementsAtLeastOnce, Promise!Spec
-------------------------------------------------------------------------------
(* The bus the relays publish on *)

LEMMA Interval ==
    \A a, b \in Int : a <= b + 1 => IsFiniteSet(a..b) /\ Cardinality(a..b) = b - a + 1
  <1> SUFFICES ASSUME NEW a \in Int, NEW b \in Int, a <= b + 1
               PROVE  IsFiniteSet(a..b) /\ Cardinality(a..b) = b - a + 1
    OBVIOUS
  <1>1. IsFiniteSet(a..b) /\ Cardinality(a..b) = IF a > b THEN 0 ELSE b - a + 1
    BY FS_Interval
  <1> QED BY <1>1

\* A set of entries has an oldest.
LEMMA OldestIs ==
    ASSUME NEW S \in SUBSET Nat, S # {}
    PROVE  Min(S) \in S /\ \A e \in S : Min(S) <= e
  <1>1. PICK m \in S : \A e \in S : <<e, m>> \notin OpToRel(<, Nat)
    BY WFMin, NatLessThanWellFounded, Zenon
  <1>2. ASSUME NEW e \in S PROVE m <= e
    <2>1. e \in Nat /\ m \in Nat
      OBVIOUS
    <2>2. ~(e < m)
      BY <1>1, <2>1 DEF OpToRel
    <2> QED BY <2>1, <2>2
  <1>3. \E x \in S : \A y \in S : x <= y
    BY <1>2
  <1> QED BY <1>3 DEF Min

\* The n first of a set of numbers: of a reply, and of a claim.
Firsts(S, n) == {e \in S : Cardinality({d \in S : d < e}) < n}

LEMMA FirstsAre ==
    ASSUME NEW n \in Nat \ {0}, NEW S \in SUBSET Nat
    PROVE  /\ Firsts(S, n) \subseteq S /\ IsFiniteSet(Firsts(S, n))
           /\ Cardinality(Firsts(S, n)) \in Nat /\ Cardinality(Firsts(S, n)) <= n
           /\ S # {} => Firsts(S, n) # {}
  <1> DEFINE Older(e) == {d \in S : d < e}
             F == {e \in S : Cardinality(Older(e)) < n}
             rank == [e \in F |-> Cardinality(Older(e))]
  <1>1. Firsts(S, n) = F
    BY DEF Firsts
  <1>2. \A e \in S : IsFiniteSet(Older(e)) /\ Cardinality(Older(e)) \in Nat
    <2> SUFFICES ASSUME NEW e \in S
                 PROVE  IsFiniteSet(Older(e)) /\ Cardinality(Older(e)) \in Nat
      OBVIOUS
    <2>1. Older(e) \in SUBSET (0..e)
      <3>1. ASSUME NEW d \in S, d < e PROVE d \in 0..e
        BY <3>1
      <3> QED BY <3>1
    <2>2. IsFiniteSet(0..e)
      BY FS_Interval
    <2>3. IsFiniteSet(Older(e))
      BY <2>1, <2>2, FS_Subset
    <2> QED BY <2>3, FS_CardinalityType
  <1>3. ASSUME NEW d \in S, NEW e \in S, d < e PROVE Cardinality(Older(d)) # Cardinality(Older(e))
    <2>1. Older(d) \in SUBSET Older(e) /\ Older(d) # Older(e)
      <3>1. d \in Nat /\ e \in Nat /\ \A x \in S : x \in Nat
        OBVIOUS
      <3>2. d \in Older(e) /\ d \notin Older(d)
        BY <1>3, <3>1
      <3>3. \A x \in S : x < d => x < e
        BY <1>3, <3>1
      <3> QED BY <3>2, <3>3
    <2> QED BY <1>2, <2>1, FS_Subset
  <1>4. rank \in Injection(F, 0..n - 1)
    <2>1. rank \in [F -> 0..n - 1]
      <3>1. \A e \in F : Cardinality(Older(e)) \in 0..n - 1
        BY <1>2
      <3> HIDE DEF F, Older
      <3> QED BY <3>1
    <2>2. ASSUME NEW d \in F, NEW e \in F, rank[d] = rank[e] PROVE d = e
      <3>1. Cardinality(Older(d)) = Cardinality(Older(e))
        BY <2>2
      <3>2. ~(d < e) /\ ~(e < d)
        BY <1>3, <3>1
      <3>3. d \in Nat /\ e \in Nat
        OBVIOUS
      <3> QED BY <3>2, <3>3
    <2> HIDE DEF F, rank
    <2> QED BY <2>1, <2>2 DEF Injection, IsInjective
  <1>5. IsFiniteSet(0..n - 1) /\ Cardinality(0..n - 1) = n
    <2> DEFINE top == n - 1
    <2>1. 0 \in Int /\ top \in Int /\ 0 <= top + 1 /\ top - 0 + 1 = n
      OBVIOUS
    <2> HIDE DEF top
    <2>2. IsFiniteSet(0..top) /\ Cardinality(0..top) = top - 0 + 1
      BY <2>1, Interval
    <2> QED BY <2>1, <2>2 DEF top
  <1>6. IsFiniteSet(F) /\ Cardinality(F) <= n
    <2> HIDE DEF F, rank
    <2> QED BY <1>4, <1>5, FS_Injection
  <1>7. S # {} => F # {}
    <2> SUFFICES ASSUME S # {} PROVE F # {}
      OBVIOUS
    <2>1. PICK m \in S : \A e \in S : m <= e
      <3> HIDE DEF F, Older, rank
      <3>1. Min(S) \in S /\ \A e \in S : Min(S) <= e
        BY OldestIs, Zenon
      <3> QED BY <3>1
    <2>2. \A e \in S : m \in Nat /\ e \in Nat /\ ~(e < m)
      BY <2>1
    <2>3. Older(m) = {}
      BY <2>2
    <2>4. Cardinality(Older(m)) = 0
      BY <2>3, FS_EmptySet
    <2> QED BY <2>1, <2>4
  <1>8. Cardinality(F) \in Nat
    <2> HIDE DEF F
    <2> QED BY <1>6, FS_CardinalityType
  <1> HIDE DEF F
  <1>9. F \subseteq S
    BY DEF F
  <1> QED BY <1>1, <1>6, <1>7, <1>8, <1>9

\* A reply has at most ReplySize entries, and one if there is any.
LEMMA FirstOfIs ==
    ASSUME ReplySize \in Nat \ {0}, NEW S \in SUBSET Nat
    PROVE  /\ FirstOf(S) \subseteq S /\ Cardinality(FirstOf(S)) <= ReplySize
           /\ Cardinality(FirstOf(S)) \in Nat
           /\ S # {} => FirstOf(S) # {}
  <1>1. FirstOf(S) = Firsts(S, ReplySize)
    BY DEF FirstOf, Firsts
  <1> QED BY <1>1, FirstsAre

\* New entries come without a gap, from the first that was not delivered on.
LEMMA NewEntriesAre ==
    ASSUME ReplySize \in Nat \ {0}, delivered \in Nat, published \in Nat, delivered <= published,
           NewEntries # {}
    PROVE  /\ Max(NewEntries) \in delivered + 1..published
           /\ NewEntries = delivered + 1..Max(NewEntries)
           /\ Cardinality(NewEntries) <= ReplySize
  <1> DEFINE S == delivered + 1..published
             m == IF published <= delivered + ReplySize THEN published ELSE delivered + ReplySize
  <1>1. ASSUME NEW e \in S PROVE Cardinality({d \in S : d < e}) = e - delivered - 1
    <2> DEFINE O == {d \in S : d < e}
    <2>1. O = delivered + 1..e - 1
      OBVIOUS
    <2>2. delivered + 1 \in Int /\ e - 1 \in Int /\ delivered + 1 <= (e - 1) + 1
      OBVIOUS
    <2>3. Cardinality(delivered + 1..e - 1) = (e - 1) - (delivered + 1) + 1
      BY <2>2, Interval
    <2> HIDE DEF O
    <2>4. Cardinality(O) = e - delivered - 1
      BY <2>1, <2>3
    <2> QED BY <2>4 DEF O
  <1>2. NewEntries = {e \in S : Cardinality({d \in S : d < e}) < ReplySize}
    BY DEF NewEntries, FirstOf
  <1>3. \A e \in S : Cardinality({d \in S : d < e}) < ReplySize <=> e <= m
    BY <1>1
  <1>4. NewEntries = {e \in S : e <= m}
    BY <1>2, <1>3
  <1>5. NewEntries = delivered + 1..m /\ m \in delivered + 1..published
    BY <1>4
  <1>6. Max(NewEntries) = m
    <2> HIDE DEF m
    <2>1. \A x : x \in delivered + 1..m /\ (\A y \in delivered + 1..m : x >= y) <=> x = m
      BY <1>5
    <2>2. Max(delivered + 1..m) = m
      BY <2>1, Zenon DEF Max
    <2> QED BY <1>5, <2>2
  <1>7. Cardinality(delivered + 1..m) <= ReplySize
    <2>1. delivered + 1 \in Int /\ m \in Int /\ delivered + 1 <= m + 1 /\ m <= delivered + ReplySize
      BY <1>5
    <2> HIDE DEF m
    <2>2. Cardinality(delivered + 1..m) = m - (delivered + 1) + 1
      BY <2>1, Interval
    <2> QED BY <2>1, <2>2
  <1> QED BY <1>5, <1>6, <1>7

(* Lists of handlers *)

\* One occurrence of a handler is taken out.
LEMMA RemovedIs ==
    ASSUME NEW S, NEW s \in Seq(S), NEW h
    PROVE  LET t == RemoveFirst(s, h) IN t \in Seq(S) /\ Len(t) \in Nat /\ Len(t) <= Len(s)
  <1>1. Len(s) \in Nat
    BY LenProperties
  <1>2. CASE ~\E i \in 1..Len(s) : s[i] = h
    <2>1. RemoveFirst(s, h) = s
      BY <1>2 DEF RemoveFirst
    <2> QED BY <1>1, <2>1
  <1>3. CASE \E i \in 1..Len(s) : s[i] = h
    <2> DEFINE I == {i \in 1..Len(s) : s[i] = h}
               k == Min(I)
               u == SubSeq(s, 1, k - 1)
               w == SubSeq(s, k + 1, Len(s))
    <2>1. k \in 1..Len(s)
      <3>1. I \in SUBSET Nat /\ I # {}
        BY <1>3
      <3> HIDE DEF I
      <3>2. Min(I) \in I
        BY <3>1, OldestIs, Zenon
      <3> QED BY <3>2 DEF I
    <2>2. RemoveFirst(s, h) = u \o w
      BY <1>3 DEF RemoveFirst, RemoveAt, SelectInSeq
    <2> HIDE DEF k
    <2>3. \A i \in 1..Len(s) : s[i] \in S
      BY ElementOfSeq
    <2>4. u \in Seq(S) /\ Len(u) = k - 1
      <3>1. u \in Seq(S) /\ Len(u) = IF 1 <= k - 1 THEN (k - 1) - 1 + 1 ELSE 0
        BY <1>1, <2>1, <2>3, SubSeqProperties
      <3> QED BY <2>1, <3>1
    <2>5. w \in Seq(S) /\ Len(w) = Len(s) - k
      <3>1. w \in Seq(S) /\ Len(w) = IF k + 1 <= Len(s) THEN Len(s) - (k + 1) + 1 ELSE 0
        BY <1>1, <2>1, <2>3, SubSeqProperties
      <3> QED BY <1>1, <2>1, <3>1
    <2> HIDE DEF u, w
    <2>6. u \o w \in Seq(S) /\ Len(u \o w) = Len(u) + Len(w)
      BY <2>4, <2>5, ConcatProperties
    <2> QED BY <1>1, <2>1, <2>2, <2>4, <2>5, <2>6
  <1> QED BY <1>2, <1>3

\* The head of a list and the rest are what is in it; in a list without repetitions, the
\* head is not in the rest.
LEMMA HeadAndRest ==
    ASSUME NEW S, NEW s \in Seq(S), s # << >>
    PROVE  /\ Head(s) \in S /\ Tail(s) \in Seq(S) /\ Len(s) \in Nat \ {0}
           /\ Len(s) > 1 <=> Tail(s) # << >>
           /\ Len(s) = 1 <=> Tail(s) = << >>
           /\ \A x : x \in ToSet(s) => x = Head(s) \/ x \in ToSet(Tail(s))
           /\ \A x : x \in ToSet(Tail(s)) => x \in ToSet(s)
           /\ Head(s) \in ToSet(s)
           /\ IsInjective(s) => IsInjective(Tail(s)) /\ Head(s) \notin ToSet(Tail(s))
  <1> DEFINE t == Tail(s)
             h == Head(s)
  <1>1. Len(s) \in Nat \ {0} /\ DOMAIN s = 1..Len(s)
    BY EmptySeq, LenProperties
  <1>2. /\ h \in S /\ t \in Seq(S) /\ Len(t) = Len(s) - 1
        /\ \A i \in 1..Len(t) : t[i] = s[i + 1]
    BY HeadTailProperties
  <1>3. h = s[1]
    BY <1>1
  <1> HIDE DEF t, h
  <1>4. DOMAIN t = 1..Len(t)
    BY <1>2, LenProperties
  <1>5. t = << >> <=> Len(t) = 0
    BY <1>2, EmptySeq
  <1>6. ASSUME NEW i \in 1..Len(s) PROVE s[i] = h \/ s[i] \in ToSet(t)
    <2>1. CASE i = 1
      BY <1>3, <2>1
    <2>2. CASE i # 1
      <3>1. i - 1 \in 1..Len(t) /\ (i - 1) + 1 = i
        BY <1>1, <1>2, <2>2
      <3>2. t[i - 1] = s[i]
        BY <1>2, <3>1
      <3> QED BY <1>4, <3>1, <3>2 DEF ToSet
    <2> QED BY <2>1, <2>2
  <1>7. ASSUME NEW i \in 1..Len(t) PROVE t[i] \in ToSet(s) /\ i + 1 \in 1..Len(s) /\ t[i] = s[i + 1]
    <2>1. i + 1 \in 1..Len(s)
      BY <1>1, <1>2
    <2> QED BY <1>1, <1>2, <2>1 DEF ToSet
  <1>8. 1 \in 1..Len(s)
    BY <1>1
  <1>9. ASSUME IsInjective(s) PROVE IsInjective(t) /\ h \notin ToSet(t)
    <2>1. \A i, j \in 1..Len(s) : s[i] = s[j] => i = j
      BY <1>1, <1>9 DEF IsInjective
    <2>2. ASSUME NEW i \in 1..Len(t), NEW j \in 1..Len(t), t[i] = t[j] PROVE i = j
      <3>1. i + 1 = j + 1
        BY <1>7, <2>1, <2>2
      <3> QED BY <1>2, <3>1
    <2>3. ASSUME NEW i \in 1..Len(t) PROVE t[i] # h
      <3>1. i + 1 # 1
        BY <1>1, <1>2
      <3> QED BY <1>3, <1>7, <1>8, <2>1, <3>1
    <2> QED BY <1>4, <2>2, <2>3 DEF IsInjective, ToSet
  <1>10. /\ \A x : x \in ToSet(s) => x = h \/ x \in ToSet(t)
         /\ \A x : x \in ToSet(t) => x \in ToSet(s)
         /\ h \in ToSet(s)
    BY <1>1, <1>3, <1>4, <1>6, <1>7, <1>8 DEF ToSet
  <1> QED BY <1>1, <1>2, <1>5, <1>9, <1>10 DEF t, h
-------------------------------------------------------------------------------
(* Where the readers are *)

BusTypes ==
    /\ BusTypeOK
    /\ hasGroup \/ (delivered = 0 /\ \A r \in Readers : at[r] = "none")
    /\ \A r \in Readers : failed[r] => at[r] = "handle"

LEMMA BusConstants ==
    /\ Watched \in Nat \ {0} /\ Wildcards \subseteq Handlers /\ NoReader \notin Readers
    /\ ReplySize \in Nat \ {0} /\ MaxEntries \in Nat /\ MaxRegistered \in Nat
    /\ IsFiniteSet(Readers) /\ Cardinality(Readers) \in Nat
  <1>1. IsFiniteSet(Readers)
    BY BusAssumption
  <1>2. Cardinality(Readers) \in Nat
    BY <1>1, FS_CardinalityType
  <1> QED BY <1>1, <1>2, BusAssumption

\* What the handler lists and the counts of a state in BusTypes are.
LEMMA ListsAre ==
    ASSUME BusTypeOK
    PROVE  /\ Len(handlers) \in Nat /\ Len(wildcards) \in Nat
           /\ handlers \in Seq(Handlers) /\ wildcards \in Seq(Handlers)
           /\ Registered \subseteq Handlers
           /\ Recipients \in Seq(Handlers)
           /\ Registered \subseteq ToSet(Recipients)
  <1>1. handlers \in Seq(Handlers \ Wildcards) /\ wildcards \in Seq(Wildcards)
    BY DEF BusTypeOK
  <1>2. Wildcards \subseteq Handlers
    BY BusConstants
  <1>3. /\ Len(handlers) \in Nat /\ DOMAIN handlers = 1..Len(handlers)
        /\ Len(wildcards) \in Nat /\ DOMAIN wildcards = 1..Len(wildcards)
    BY <1>1, LenProperties
  <1>4. handlers \in Seq(Handlers) /\ wildcards \in Seq(Handlers)
    BY <1>1, <1>2, SeqMonotonic
  <1>5. /\ \A i \in 1..Len(handlers) : handlers[i] \in Handlers
        /\ \A i \in 1..Len(wildcards) : wildcards[i] \in Handlers
    BY <1>4, ElementOfSeq
  <1>6. Registered \subseteq Handlers
    BY <1>3, <1>5 DEF Registered, ToSet
  <1> DEFINE u == Recipients
  <1>7. /\ u \in Seq(Handlers) /\ Len(u) = Len(handlers) + Len(wildcards)
        /\ \A i \in 1..Len(handlers) + Len(wildcards) :
               u[i] = IF i <= Len(handlers) THEN handlers[i] ELSE wildcards[i - Len(handlers)]
    BY <1>4, ConcatProperties DEF Recipients
  <1> HIDE DEF u
  <1>8. DOMAIN u = 1..Len(u)
    BY <1>7, LenProperties
  <1>9. ASSUME NEW i \in 1..Len(handlers) PROVE handlers[i] \in ToSet(u)
    <2>1. i \in 1..Len(u) /\ u[i] = handlers[i]
      BY <1>3, <1>7
    <2> QED BY <1>8, <2>1 DEF ToSet
  <1>10. ASSUME NEW i \in 1..Len(wildcards) PROVE wildcards[i] \in ToSet(u)
    <2>1. /\ Len(handlers) + i \in 1..Len(handlers) + Len(wildcards)
          /\ ~(Len(handlers) + i <= Len(handlers)) /\ (Len(handlers) + i) - Len(handlers) = i
      BY <1>3
    <2>2. u[Len(handlers) + i] = wildcards[i]
      BY <1>7, <2>1
    <2> QED BY <1>7, <1>8, <2>1, <2>2 DEF ToSet
  <1>11. Registered \subseteq ToSet(u)
    <2>1. ToSet(handlers) = {handlers[i] : i \in 1..Len(handlers)}
      BY <1>3 DEF ToSet
    <2>2. ToSet(wildcards) = {wildcards[i] : i \in 1..Len(wildcards)}
      BY <1>3 DEF ToSet
    <2> QED BY <1>9, <1>10, <2>1, <2>2 DEF Registered
  <1> QED BY <1>3, <1>4, <1>6, <1>7, <1>11 DEF u

\* The entry a reader is at is one of those it holds.
LEMMA CurrentIs ==
    ASSUME BusTypeOK, NEW r \in Readers, batch[r] # {}
    PROVE  Current(r) \in batch[r]
  <1>1. batch[r] \in SUBSET Nat
    BY DEF BusTypeOK
  <1>2. Min(batch[r]) \in batch[r]
    BY <1>1, OldestIs, Zenon
  <1> QED BY <1>2 DEF Current

LEMMA PelIs ==
    ASSUME BusTypeOK PROVE pel \in SUBSET Nat /\ IsFiniteSet(pel)
  <1>1. group + 1 \in Int /\ delivered \in Int /\ group + 1 <= delivered + 1
    BY DEF BusTypeOK
  <1>2. IsFiniteSet(group + 1..delivered)
    BY <1>1, Interval
  <1>3. pel \in SUBSET (group + 1..delivered)
    BY DEF BusTypeOK
  <1>4. IsFiniteSet(pel)
    BY <1>2, <1>3, FS_Subset
  <1>5. group \in Nat
    BY DEF BusTypeOK
  <1>6. group + 1..delivered \in SUBSET Nat
    BY <1>1, <1>5
  <1> QED BY <1>3, <1>4, <1>6

LEMMA InitBusTypes == ASSUME BusInit PROVE BusTypes
  <1>1. /\ Cardinality(Readers) \in Nat /\ ReplySize \in Nat
        /\ MaxRegistered \in Nat /\ MaxEntries \in Nat
    BY BusConstants
  <1>2. \A S : << >> \in Seq(S)
    BY EmptySeq
  <1>3. Cardinality({}) = 0
    BY FS_EmptySet
  <1>4. Len(handlers) = 0 /\ Len(wildcards) = 0
    BY EmptySeq DEF BusInit
  <1>5. /\ published = 0 /\ group = 0 /\ delivered = 0 /\ pel = {} /\ hasGroup = FALSE
        /\ handlers = << >> /\ wildcards = << >> /\ joining = 0 /\ started = FALSE
        /\ scope = NoReader /\ due = {} /\ excused = FALSE /\ shared = FALSE
    BY DEF BusInit
  <1>6. /\ at = [r \in Readers |-> "none"] /\ draining = [r \in Readers |-> FALSE]
        /\ batch = [r \in Readers |-> {}] /\ left = [r \in Readers |-> << >>]
        /\ failed = [r \in Readers |-> FALSE] /\ handled = [h \in Handlers |-> 0]
    BY DEF BusInit
  <1>7. /\ at \in [Readers -> Points] /\ draining \in [Readers -> BOOLEAN]
        /\ failed \in [Readers -> BOOLEAN] /\ handled \in [Handlers -> 0..2]
    BY <1>6 DEF Points
  <1>8. batch \in [Readers -> SUBSET (group + 1..delivered)] /\ left \in [Readers -> Seq(Handlers)]
    BY <1>2, <1>6
  <1>9. ASSUME NEW r \in Readers
        PROVE  /\ Cardinality(batch[r]) <= ReplySize
               /\ at[r] \in {"next", "handle", "ack"} <=> batch[r] # {}
               /\ left[r] # << >> <=> at[r] = "handle"
               /\ ~failed[r] /\ at[r] = "none"
    BY <1>1, <1>3, <1>6
  <1>10. handlers \in Seq(Handlers \ Wildcards) /\ wildcards \in Seq(Wildcards)
    BY <1>2, <1>5
  <1>11. /\ published \in 0..MaxEntries /\ group \in 0..published /\ delivered \in group..published
         /\ pel \subseteq group + 1..delivered
    BY <1>1, <1>5
  <1>12. /\ Len(handlers) + Len(wildcards) <= MaxRegistered
         /\ joining \in 0..Cardinality(Readers)
    BY <1>1, <1>4, <1>5
  <1>13. BusTypeOK
    BY <1>5, <1>7, <1>8, <1>9, <1>10, <1>11, <1>12, Zenon DEF BusTypeOK
  <1> QED BY <1>5, <1>9, <1>13 DEF BusTypes
StreamTypes ==
    /\ published \in 0..MaxEntries /\ hasGroup \in BOOLEAN
    /\ group \in 0..published /\ delivered \in group..published
    /\ pel \subseteq (group + 1)..delivered
ListTypes ==
    /\ handlers \in Seq(Handlers \ Wildcards) /\ wildcards \in Seq(Wildcards)
    /\ Len(handlers) + Len(wildcards) <= MaxRegistered
    /\ joining \in 0..Cardinality(Readers) /\ started \in BOOLEAN
ReaderTypes ==
    /\ at \in [Readers -> Points]
    /\ draining \in [Readers -> BOOLEAN] /\ failed \in [Readers -> BOOLEAN]
    /\ batch \in [Readers -> SUBSET ((group + 1)..delivered)]
    /\ left \in [Readers -> Seq(Handlers)]
ReaderPlaces ==
    /\ scope # NoReader => scope \in Readers /\ at[scope] \notin {"none", "cancelled"}
    /\ \A r \in Readers :
        /\ Cardinality(batch[r]) <= ReplySize
        /\ at[r] \in {"next", "handle", "ack"} <=> batch[r] # {}
        /\ left[r] # << >> <=> at[r] = "handle"
        /\ failed[r] => at[r] = "handle"
    /\ hasGroup \/ (delivered = 0 /\ \A r \in Readers : at[r] = "none")
HistoryTypes ==
    /\ due \subseteq Handlers /\ handled \in [Handlers -> 0..2]
    /\ excused \in BOOLEAN /\ shared \in BOOLEAN

LEMMA TypesAre ==
    /\ BusTypes <=> StreamTypes /\ ListTypes /\ ReaderTypes /\ ReaderPlaces /\ HistoryTypes
    /\ BusTypes' <=> StreamTypes' /\ ListTypes' /\ ReaderTypes' /\ ReaderPlaces' /\ HistoryTypes'
  <1>1. BusTypes <=> StreamTypes /\ ListTypes /\ ReaderTypes /\ ReaderPlaces /\ HistoryTypes
    BY DEF BusTypes, BusTypeOK, StreamTypes, ListTypes, ReaderTypes, ReaderPlaces, HistoryTypes
  <1>2. BusTypes' <=> StreamTypes' /\ ListTypes' /\ ReaderTypes' /\ ReaderPlaces' /\ HistoryTypes'
    BY DEF BusTypes, BusTypeOK, StreamTypes, ListTypes, ReaderTypes, ReaderPlaces, HistoryTypes
  <1> QED BY <1>1, <1>2

\* A step that leaves the readers and what they hold alone.
LEMMA ReadersKept ==
    ASSUME StreamTypes, ReaderTypes, ReaderPlaces, group' = group, delivered' \in delivered..published',
           hasGroup' = hasGroup, readerVars' = readerVars, delivered' # delivered => hasGroup,
           scope' = scope
    PROVE  ReaderTypes' /\ ReaderPlaces'
  <1>1. /\ at' = at /\ draining' = draining /\ failed' = failed /\ batch' = batch /\ left' = left
    BY DEF readerVars
  <1>2. \A S \in SUBSET (group + 1..delivered) : S \in SUBSET (group' + 1..delivered')
    BY DEF StreamTypes
  <1>3. batch' \in [Readers -> SUBSET (group' + 1..delivered')]
    BY <1>1, <1>2 DEF ReaderTypes
  <1> QED BY <1>1, <1>3 DEF ReaderTypes, ReaderPlaces

LEMMA OutsideTypes ==
    ASSUME BusTypes,
           \/ PublishEvent \/ GroupFails
           \/ \E h \in Handlers : Subscribe(h) \/ SubscribeAll(h) \/ UnsubscribeAll(h)
    PROVE  BusTypes'
  <1> USE DEF streamVars, subscriberVars, historyVars
  <1>1. StreamTypes /\ ListTypes /\ ReaderTypes /\ ReaderPlaces /\ HistoryTypes
    BY TypesAre
  <1>2. BusTypeOK
    BY DEF BusTypes
  <1>3. published \in Nat /\ delivered \in Nat /\ group \in Nat /\ MaxEntries \in Nat /\ MaxRegistered \in Nat
        /\ Cardinality(Readers) \in Nat /\ Len(handlers) \in Nat /\ Len(wildcards) \in Nat
    BY <1>1, <1>2, BusConstants, ListsAre DEF StreamTypes
  <1>4. CASE PublishEvent
    <2>1. StreamTypes'
      BY <1>1, <1>3, <1>4 DEF PublishEvent, StreamTypes
    <2>2. ListTypes' /\ HistoryTypes'
      BY <1>1, <1>2, <1>4, ListsAre DEF PublishEvent, ListTypes, HistoryTypes
    <2>3. ReaderTypes' /\ ReaderPlaces'
      BY <1>1, <1>3, <1>4, ReadersKept DEF PublishEvent, StreamTypes
    <2> QED BY <2>1, <2>2, <2>3, TypesAre
  <1>5. CASE GroupFails
    <2>1. StreamTypes' /\ ListTypes' /\ HistoryTypes'
      BY <1>1, <1>3, <1>5 DEF GroupFails, StreamTypes, ListTypes, HistoryTypes
    <2>2. ReaderTypes' /\ ReaderPlaces'
      BY <1>1, <1>3, <1>5, ReadersKept DEF GroupFails, StreamTypes
    <2> QED BY <2>1, <2>2, TypesAre
  <1>6. ASSUME NEW h \in Handlers, Subscribe(h) \/ SubscribeAll(h) \/ UnsubscribeAll(h)
        PROVE  BusTypes'
    <2>1. StreamTypes' /\ HistoryTypes'
      BY <1>1, <1>6 DEF Subscribe, SubscribeAll, UnsubscribeAll, StreamTypes, HistoryTypes
    <2>2. ReaderTypes' /\ ReaderPlaces'
      BY <1>1, <1>3, <1>6, ReadersKept
         DEF Subscribe, SubscribeAll, UnsubscribeAll, StreamTypes
    <2>3. CASE Subscribe(h)
      <3>1. handlers' = Append(handlers, h) /\ h \in Handlers \ Wildcards /\ wildcards' = wildcards
        BY <2>3 DEF Subscribe
      <3>2. handlers' \in Seq(Handlers \ Wildcards) /\ Len(handlers') = Len(handlers) + 1
        BY <1>1, <3>1, AppendProperties DEF ListTypes
      <3> QED BY <1>1, <1>3, <2>1, <2>2, <2>3, <3>1, <3>2, TypesAre
              DEF Subscribe, HasRoom, ListTypes
    <2>4. CASE SubscribeAll(h)
      <3>1. wildcards' = Append(wildcards, h) /\ h \in Wildcards /\ handlers' = handlers
        BY <2>4 DEF SubscribeAll
      <3>2. wildcards' \in Seq(Wildcards) /\ Len(wildcards') = Len(wildcards) + 1
        BY <1>1, <3>1, AppendProperties DEF ListTypes
      <3> QED BY <1>1, <1>3, <2>1, <2>2, <2>4, <3>1, <3>2, TypesAre
              DEF SubscribeAll, HasRoom, ListTypes
    <2>5. CASE UnsubscribeAll(h)
      <3>1. wildcards' = RemoveFirst(wildcards, h) /\ handlers' = handlers
        BY <2>5 DEF UnsubscribeAll
      <3>2. wildcards' \in Seq(Wildcards) /\ Len(wildcards') \in Nat /\ Len(wildcards') <= Len(wildcards)
        BY <1>1, <3>1, RemovedIs DEF ListTypes
      <3> QED BY <1>1, <1>3, <2>1, <2>2, <2>5, <3>1, <3>2, TypesAre
              DEF UnsubscribeAll, ListTypes
    <2> QED BY <1>6, <2>3, <2>4, <2>5
  <1> QED BY <1>4, <1>5, <1>6
\* subscribe has its group; the new reader is fetching or queued.
LEMMA GroupReadyTypes ==
    ASSUME BusTypes, NEW r \in Readers, GroupReady(r) PROVE BusTypes' /\ at[r] = "none"
  <1> USE DEF streamVars, subscriberVars, historyVars
  <1>1. StreamTypes /\ ListTypes /\ ReaderTypes /\ ReaderPlaces /\ HistoryTypes
    BY TypesAre
  <1>2. Cardinality(Readers) \in Nat /\ NoReader \notin Readers /\ Cardinality({}) = 0 /\ ReplySize \in Nat
    BY BusConstants, FS_EmptySet
  <1>3. at[r] = "none"
    BY DEF GroupReady, NewReader
  <1>4. /\ joining > 0 /\ joining' = joining - 1
        /\ at' = [at EXCEPT ![r] = IF started THEN "fetch" ELSE "queued"]
        /\ draining' = [draining EXCEPT ![r] = TRUE] /\ scope' = r
        /\ published' = published /\ pel' = pel /\ hasGroup' = TRUE
        /\ handlers' = handlers /\ wildcards' = wildcards /\ started' = started
        /\ batch' = batch /\ left' = left /\ failed' = failed
        /\ due' = due /\ handled' = handled /\ excused' = excused /\ shared' = shared
        /\ IF hasGroup THEN group' = group /\ delivered' = delivered
                       ELSE group' = published /\ delivered' = published
    BY DEF GroupReady
  <1>5. ListTypes' /\ HistoryTypes'
    BY <1>1, <1>2, <1>4 DEF ListTypes, HistoryTypes
  <1>6. ~hasGroup => pel = {} /\ \A q \in Readers : batch[q] = {}
    BY <1>1 DEF StreamTypes, ReaderPlaces
  <1>7. StreamTypes'
    BY <1>1, <1>4, <1>6 DEF StreamTypes
  <1>8. ReaderTypes'
    <2>1. batch' \in [Readers -> SUBSET (group' + 1..delivered')]
      <3>1. CASE hasGroup
        BY <1>1, <1>4, <3>1 DEF ReaderTypes
      <3>2. CASE ~hasGroup
        BY <1>1, <1>4, <1>6, <3>2 DEF ReaderTypes
      <3> QED BY <3>1, <3>2
    <2> QED BY <1>1, <1>4, <2>1 DEF ReaderTypes, Points
  <1>9. ReaderPlaces'
    BY <1>1, <1>2, <1>3, <1>4 DEF ReaderTypes, ReaderPlaces
  <1> QED BY <1>3, <1>5, <1>7, <1>8, <1>9, TypesAre

LEMMA StartTypes ==
    ASSUME BusTypes, StartReaders PROVE BusTypes'
  <1> USE DEF streamVars, subscriberVars, historyVars
  <1>1. StreamTypes /\ ListTypes /\ ReaderTypes /\ ReaderPlaces /\ HistoryTypes
    BY TypesAre
  <1>2. StreamTypes' /\ ListTypes' /\ HistoryTypes'
    BY <1>1 DEF StartReaders, StreamTypes, ListTypes, HistoryTypes
  <1>3. /\ at' = [r \in Readers |-> CASE at[r] = "queued" -> "fetch"
                                      [] at[r] = "cancelled" -> "none"
                                      [] OTHER -> at[r]]
        /\ scope' = scope /\ draining' = draining /\ batch' = batch /\ left' = left /\ failed' = failed
        /\ group' = group /\ delivered' = delivered /\ hasGroup' = hasGroup
    BY DEF StartReaders
  <1>4. ASSUME NEW r \in Readers
        PROVE  /\ at'[r] \in Points
               /\ at[r] = "queued" => at'[r] = "fetch"
               /\ at[r] = "cancelled" => at'[r] = "none"
               /\ at[r] \notin {"queued", "cancelled"} => at'[r] = at[r]
    BY <1>1, <1>3 DEF ReaderTypes, Points
  <1>5. ReaderTypes'
    BY <1>1, <1>3, <1>4 DEF ReaderTypes
  <1>6. ReaderPlaces'
    BY <1>1, <1>3, <1>4 DEF ReaderPlaces
  <1> QED BY <1>2, <1>5, <1>6, TypesAre

\* Reader tasks end.
LEMMA StopTypes ==
    ASSUME BusTypes, NEW rs \in SUBSET Readers, NEW point,
           point = Cancelled \/ point = Dead,
           StopReaders(rs, point), streamVars' = streamVars, scope' = NoReader
    PROVE  /\ StreamTypes' /\ ReaderTypes' /\ ReaderPlaces' /\ excused' \in BOOLEAN
           /\ \A r \in Readers : batch'[r] # {} => at'[r] = at[r] /\ batch'[r] = batch[r] /\ r \notin rs
  <1>1. StreamTypes /\ ListTypes /\ ReaderTypes /\ ReaderPlaces /\ HistoryTypes
    BY TypesAre
  <1>2. NoReader \notin Readers /\ Cardinality({}) = 0 /\ ReplySize \in Nat
    BY BusConstants, FS_EmptySet
  <1>3. \A p \in Points : point[p] \in {"none", "cancelled"} /\ (p = "none" => point[p] = "none")
    BY DEF Cancelled, Dead, Points
  <1>4. /\ at' = [r \in Readers |-> IF r \in rs THEN point[at[r]] ELSE at[r]]
        /\ batch' = [r \in Readers |-> IF r \in rs THEN {} ELSE batch[r]]
        /\ left' = [r \in Readers |-> IF r \in rs THEN << >> ELSE left[r]]
        /\ failed' = [r \in Readers |-> failed[r] /\ r \notin rs]
        /\ draining' = [r \in Readers |-> draining[r] /\ r \notin rs]
        /\ excused' = (excused \/ \E r \in rs : Holds(r))
    BY DEF StopReaders
  <1>5. /\ published' = published /\ group' = group /\ hasGroup' = hasGroup
        /\ delivered' = delivered /\ pel' = pel
    BY DEF streamVars
  <1>6. << >> \in Seq(Handlers)
    BY EmptySeq
  <1>7. ASSUME NEW r \in Readers
        PROVE  /\ r \in rs => /\ at'[r] \in {"none", "cancelled"} /\ (at[r] = "none" => at'[r] = "none")
                              /\ batch'[r] = {} /\ left'[r] = << >> /\ ~failed'[r]
               /\ r \notin rs => /\ at'[r] = at[r] /\ batch'[r] = batch[r] /\ left'[r] = left[r]
                                 /\ failed'[r] = failed[r]
               /\ draining'[r] \in BOOLEAN /\ failed'[r] \in BOOLEAN
    BY <1>1, <1>3, <1>4 DEF ReaderTypes
  <1>8. StreamTypes'
    BY <1>1, <1>5 DEF StreamTypes
  <1>9. ReaderTypes'
    <2>1. at' \in [Readers -> Points]
      <3>1. \A r \in Readers : at'[r] \in Points
        BY <1>1, <1>7 DEF ReaderTypes, Points
      <3> QED BY <1>4, <3>1
    <2>2. batch' \in [Readers -> SUBSET (group' + 1..delivered')]
      BY <1>1, <1>4, <1>5 DEF ReaderTypes
    <2>3. left' \in [Readers -> Seq(Handlers)]
      BY <1>1, <1>4, <1>6 DEF ReaderTypes
    <2>4. draining' \in [Readers -> BOOLEAN] /\ failed' \in [Readers -> BOOLEAN]
      BY <1>4
    <2> QED BY <2>1, <2>2, <2>3, <2>4 DEF ReaderTypes
  <1>10. ReaderPlaces'
    <2>1. ASSUME NEW r \in Readers
          PROVE  /\ Cardinality(batch'[r]) <= ReplySize
                 /\ at'[r] \in {"next", "handle", "ack"} <=> batch'[r] # {}
                 /\ left'[r] # << >> <=> at'[r] = "handle"
                 /\ failed'[r] => at'[r] = "handle"
                 /\ at[r] = "none" => at'[r] = "none"
      <3>1. CASE r \in rs
        <4>1. /\ batch'[r] = {} /\ left'[r] = << >> /\ ~failed'[r] /\ at'[r] \in {"none", "cancelled"}
              /\ at[r] = "none" => at'[r] = "none"
          BY <1>7, <3>1
        <4>2. Cardinality(batch'[r]) = 0
          BY <1>2, <4>1
        <4>3. Cardinality(batch'[r]) <= ReplySize
          BY <1>2, <4>2
        <4> QED BY <4>1, <4>3
      <3>2. CASE r \notin rs
        BY <1>1, <1>7, <3>2 DEF ReaderPlaces
      <3> QED BY <3>1, <3>2
    <2>2. hasGroup' \/ (delivered' = 0 /\ \A r \in Readers : at'[r] = "none")
      BY <1>1, <1>5, <2>1 DEF ReaderPlaces
    <2> QED BY <2>1, <2>2 DEF ReaderPlaces
  <1>11. excused' \in BOOLEAN
    BY <1>1, <1>4 DEF HistoryTypes
  <1> QED BY <1>7, <1>8, <1>9, <1>10, <1>11

LEMMA UnsubscribeTypes ==
    ASSUME BusTypes, NEW h \in Handlers, Unsubscribe(h) PROVE BusTypes'
  <1>1. StreamTypes /\ ListTypes /\ ReaderTypes /\ ReaderPlaces /\ HistoryTypes
    BY TypesAre
  <1>2. /\ handlers' = RemoveFirst(handlers, h) /\ wildcards' = wildcards /\ joining' = joining
        /\ started' = started /\ streamVars' = streamVars
        /\ due' \subseteq due /\ handled' = handled /\ shared' = shared
    BY DEF Unsubscribe, streamVars
  <1>3. handlers' \in Seq(Handlers \ Wildcards) /\ Len(handlers') \in Nat /\ Len(handlers') <= Len(handlers)
    BY <1>1, <1>2, RemovedIs DEF ListTypes
  <1>4. ListTypes'
    <2>1. BusTypeOK
      BY DEF BusTypes
    <2>2. Len(handlers) \in Nat /\ Len(wildcards) \in Nat /\ MaxRegistered \in Nat
      BY <2>1, ListsAre, BusConstants
    <2> QED BY <1>1, <1>2, <1>3, <2>2 DEF ListTypes
  <1>5. CASE handlers' = << >> /\ scope # NoReader
    <2>1. StopReaders({scope}, Cancelled) /\ scope' = NoReader /\ {scope} \in SUBSET Readers
      BY <1>1, <1>5 DEF Unsubscribe, ReaderPlaces
    <2>2. StreamTypes' /\ ReaderTypes' /\ ReaderPlaces' /\ excused' \in BOOLEAN
      BY <1>2, <2>1, StopTypes
    <2> QED BY <1>1, <1>2, <1>4, <2>2, TypesAre DEF HistoryTypes
  <1>6. CASE ~(handlers' = << >> /\ scope # NoReader)
    <2>1. readerVars' = readerVars /\ excused' = excused /\ scope' = scope
      BY <1>6 DEF Unsubscribe, readerVars
    <2>2. StreamTypes'
      BY <1>1, <1>2 DEF StreamTypes, streamVars
    <2>3. ReaderTypes' /\ ReaderPlaces'
      BY <1>1, <1>2, <2>1, ReadersKept DEF StreamTypes, streamVars
    <2> QED BY <1>1, <1>2, <1>4, <2>1, <2>2, <2>3, TypesAre DEF HistoryTypes
  <1> QED BY <1>5, <1>6

LEMMA CrashTypes ==
    ASSUME BusTypes, CrashProcess PROVE BusTypes'
  <1>1. StreamTypes /\ ListTypes /\ ReaderTypes /\ ReaderPlaces /\ HistoryTypes
    BY TypesAre
  <1>2. /\ handlers' = << >> /\ wildcards' = << >> /\ joining' = 0 /\ started' = FALSE
        /\ scope' = NoReader /\ StopReaders(Readers, Dead) /\ streamVars' = streamVars
        /\ due' = due /\ handled' = handled /\ shared' = shared
    BY DEF CrashProcess
  <1>3. StreamTypes' /\ ReaderTypes' /\ ReaderPlaces' /\ excused' \in BOOLEAN
    <2>1. Readers \in SUBSET Readers /\ (Dead = Cancelled \/ Dead = Dead)
      OBVIOUS
    <2> QED BY <1>2, <2>1, StopTypes
  <1>4. ListTypes'
    <2>1. /\ Cardinality(Readers) \in Nat /\ MaxRegistered \in Nat /\ Len(handlers') = 0 /\ Len(wildcards') = 0
          /\ << >> \in Seq(Handlers \ Wildcards) /\ << >> \in Seq(Wildcards)
      BY <1>2, BusConstants, EmptySeq
    <2>2. handlers' \in Seq(Handlers \ Wildcards) /\ wildcards' \in Seq(Wildcards)
      BY <1>2, <2>1
    <2>3. Len(handlers') + Len(wildcards') <= MaxRegistered
      BY <2>1
    <2>4. joining' \in 0..Cardinality(Readers) /\ started' \in BOOLEAN
      <3>1. joining' = 0 /\ started' = FALSE /\ Cardinality(Readers) \in Nat
        BY <1>2, <2>1
      <3>2. joining' \in 0..Cardinality(Readers)
        BY <3>1
      <3> QED BY <3>1, <3>2
    <2> QED BY <2>2, <2>3, <2>4 DEF ListTypes
  <1> QED BY <1>1, <1>2, <1>3, <1>4, TypesAre DEF HistoryTypes
\* One reader goes to p with the entries b, the handlers t, the flag f and drain flag d.
Moves(r, p, b, t, f, d) ==
    /\ at' = [at EXCEPT ![r] = p] /\ batch' = [batch EXCEPT ![r] = b]
    /\ left' = [left EXCEPT ![r] = t] /\ failed' = [failed EXCEPT ![r] = f]
    /\ draining' = [draining EXCEPT ![r] = d]

\* Where a reader may be, with what it has there.
Placed(p, b, t, f) ==
    /\ p \in {"fetch", "next", "handle", "ack"}
    /\ b # {} <=> p # "fetch"
    /\ Cardinality(b) <= ReplySize
    /\ t \in Seq(Handlers) /\ (t # << >> <=> p = "handle")
    /\ f \in BOOLEAN /\ (f => p = "handle")

LEMMA MovedTypes ==
    ASSUME StreamTypes, ReaderTypes, ReaderPlaces, StreamTypes', NEW r \in Readers,
           group' = group, delivered <= delivered', hasGroup' = hasGroup, scope' = scope,
           Alive(r), NEW p, NEW b, NEW t, NEW f, NEW d \in BOOLEAN, Moves(r, p, b, t, f, d),
           Placed(p, b, t, f), b \subseteq group + 1..delivered'
    PROVE  ReaderTypes' /\ ReaderPlaces'
  <1>1. hasGroup
    BY DEF ReaderPlaces, Alive
  <1>2. /\ p \in Points /\ t \in Seq(Handlers) /\ f \in BOOLEAN
        /\ b \in SUBSET (group' + 1..delivered')
    BY DEF Placed, Points
  <1>3. \A S \in SUBSET (group + 1..delivered) : S \in SUBSET (group' + 1..delivered')
    BY DEF StreamTypes
  <1>4. ReaderTypes'
    <2>1. batch' \in [Readers -> SUBSET (group' + 1..delivered')]
      BY <1>2, <1>3 DEF ReaderTypes, Moves
    <2>2. /\ at' \in [Readers -> Points] /\ left' \in [Readers -> Seq(Handlers)]
          /\ failed' \in [Readers -> BOOLEAN] /\ draining' \in [Readers -> BOOLEAN]
      BY <1>2 DEF ReaderTypes, Moves
    <2> QED BY <2>1, <2>2 DEF ReaderTypes
  <1>5. /\ at'[r] = p /\ batch'[r] = b /\ left'[r] = t /\ failed'[r] = f
        /\ \A q \in Readers : q # r => /\ at'[q] = at[q] /\ batch'[q] = batch[q]
                                       /\ left'[q] = left[q] /\ failed'[q] = failed[q]
    BY DEF ReaderTypes, Moves
  <1>6. ASSUME NEW q \in Readers
        PROVE  /\ Cardinality(batch'[q]) <= ReplySize
               /\ at'[q] \in {"next", "handle", "ack"} <=> batch'[q] # {}
               /\ left'[q] # << >> <=> at'[q] = "handle"
               /\ failed'[q] => at'[q] = "handle"
    <2>1. CASE q = r
      BY <1>5, <2>1 DEF Placed
    <2>2. CASE q # r
      BY <1>5, <2>2 DEF ReaderPlaces
    <2> QED BY <2>1, <2>2
  <1>7. scope' # NoReader => scope' \in Readers /\ at'[scope'] \notin {"none", "cancelled"}
    <2>1. p \notin {"none", "cancelled"}
      BY DEF Placed
    <2> QED BY <1>5, <2>1 DEF ReaderPlaces
  <1> QED BY <1>1, <1>4, <1>6, <1>7 DEF ReaderPlaces

LEMMA BatchIs ==
    ASSUME BusTypes, NEW r \in Readers
    PROVE  IsFiniteSet(batch[r]) /\ batch[r] \subseteq group + 1..delivered /\ batch[r] \in SUBSET Nat
  <1>1. group + 1 \in Int /\ delivered \in Int /\ group + 1 <= delivered + 1 /\ group \in Nat
        /\ batch[r] \in SUBSET (group + 1..delivered)
    BY DEF BusTypes, BusTypeOK
  <1>2. IsFiniteSet(group + 1..delivered)
    BY <1>1, Interval
  <1> QED BY <1>1, <1>2, FS_Subset

\* What an entry less leaves of a batch.
Rest(r) == batch[r] \ {Current(r)}

LEMMA RestIs ==
    ASSUME BusTypes, NEW r \in Readers
    PROVE  Rest(r) \subseteq batch[r] /\ Cardinality(Rest(r)) <= ReplySize
  <1>1. IsFiniteSet(batch[r]) /\ Rest(r) \in SUBSET batch[r]
    BY BatchIs DEF Rest
  <1>2. Cardinality(Rest(r)) <= Cardinality(batch[r]) /\ Cardinality(batch[r]) <= ReplySize
    BY <1>1, FS_Subset DEF BusTypes, BusTypeOK
  <1>3. Cardinality(Rest(r)) \in Nat /\ Cardinality(batch[r]) \in Nat /\ ReplySize \in Nat
    BY <1>1, FS_Subset, FS_CardinalityType, BusConstants
  <1> QED BY <1>1, <1>2, <1>3

\* Where a reader is when it is through with an entry.
Through(r) == IF Rest(r) # {} THEN "next" ELSE "fetch"

LEMMA FinishIs ==
    ASSUME BusTypes, NEW r \in Readers, Finish(r)
    PROVE  /\ batch' = [batch EXCEPT ![r] = Rest(r)] /\ failed' = [failed EXCEPT ![r] = FALSE]
           /\ at' = [at EXCEPT ![r] = Through(r)]
  <1>1. batch' = [batch EXCEPT ![r] = Rest(r)]
    BY DEF Finish, Rest
  <1>2. batch'[r] = Rest(r)
    BY <1>1 DEF BusTypes, BusTypeOK
  <1> QED BY <1>1, <1>2 DEF Finish, Through

\* Where a reader is when one more handler has returned, or raised.
LEMMA AdvanceIs ==
    ASSUME BusTypes, NEW r \in Readers, at[r] = "handle",
           NEW any \in BOOLEAN, Advance(r, any), draining' = draining
    PROVE  /\ left[r] # << >> /\ left[r] \in Seq(Handlers)
           /\ \/ /\ Len(left[r]) > 1
                 /\ Moves(r, "handle", batch[r], Tail(left[r]), any, draining[r])
              \/ /\ Len(left[r]) = 1 /\ ~any
                 /\ Moves(r, "ack", batch[r], << >>, FALSE, draining[r])
              \/ /\ Len(left[r]) = 1 /\ any
                 /\ Moves(r, Through(r), Rest(r), << >>, FALSE, draining[r])
  <1>1. /\ left[r] # << >> /\ left[r] \in Seq(Handlers) /\ left \in [Readers -> Seq(Handlers)]
        /\ batch \in [Readers -> SUBSET (group + 1..delivered)] /\ draining \in [Readers -> BOOLEAN]
    BY DEF BusTypes, BusTypeOK
  <1> DEFINE n == Len(left[r])
  <1>2. n \in Nat \ {0} /\ (n = 1 => Tail(left[r]) = << >>)
    BY <1>1, HeadAndRest
  <1>7. (n > 1 \/ n = 1) /\ ~(n > 1 /\ n = 1)
    <2>1. n \in Nat \ {0}
      BY <1>2
    <2> HIDE DEF n
    <2> QED BY <2>1
  <1>3. left' = [left EXCEPT ![r] = Tail(left[r])] /\ draining' = [draining EXCEPT ![r] = draining[r]]
    BY <1>1 DEF Advance
  <1>4. CASE Len(left[r]) > 1
    <2>1. failed' = [failed EXCEPT ![r] = any] /\ at' = [at EXCEPT ![r] = "handle"] /\ batch' = batch
      <3>1. ~(Len(left[r]) = 1) /\ (any /\ Len(left[r]) > 1) = any
        <4>1. Len(left[r]) > 1 /\ ~(Len(left[r]) = 1)
          BY <1>4, <1>7
        <4> QED BY <4>1, Zenon
      <3>2. /\ failed' = [failed EXCEPT ![r] = any /\ Len(left[r]) > 1]
            /\ at' = [at EXCEPT ![r] = IF Len(left[r]) > 1 THEN "handle" ELSE "ack"] /\ batch' = batch
        BY <3>1, Zenon DEF Advance, GivesUp
      <3> QED BY <1>4, <3>1, <3>2
    <2>2. batch' = [batch EXCEPT ![r] = batch[r]]
      BY <1>1, <2>1
    <2> QED BY <1>1, <1>3, <1>4, <2>1, <2>2 DEF Moves
  <1>5. CASE Len(left[r]) = 1 /\ ~any
    <2>1. failed' = [failed EXCEPT ![r] = FALSE] /\ at' = [at EXCEPT ![r] = "ack"] /\ batch' = batch
      BY <1>2, <1>5 DEF Advance, GivesUp
    <2>2. batch' = [batch EXCEPT ![r] = batch[r]]
      BY <1>1, <2>1
    <2> QED BY <1>1, <1>2, <1>3, <1>5, <2>1, <2>2 DEF Moves
  <1>6. CASE Len(left[r]) = 1 /\ any
    <2>1. Finish(r)
      BY <1>6 DEF Advance, GivesUp
    <2>2. Moves(r, Through(r), Rest(r), << >>, FALSE, draining[r])
      BY <1>2, <1>3, <1>6, <2>1, FinishIs DEF Moves
    <2> QED BY <1>1, <1>6, <2>2
  <1> QED BY <1>1, <1>4, <1>5, <1>6, <1>7, Zenon
\* Nothing changes for a reader in what is left alone.
LEMMA Still ==
    ASSUME ReaderTypes, NEW r \in Readers
    PROVE  /\ at = [at EXCEPT ![r] = at[r]] /\ batch = [batch EXCEPT ![r] = batch[r]]
           /\ left = [left EXCEPT ![r] = left[r]] /\ failed = [failed EXCEPT ![r] = failed[r]]
           /\ draining = [draining EXCEPT ![r] = draining[r]]
  BY DEF ReaderTypes

LEMMA DrainPendingIs ==
    ASSUME BusTypes, NEW r \in Readers, DrainPending(r)
    PROVE  /\ Moves(r, "next", FirstOf(pel), left[r], failed[r], draining[r])
           /\ batch[r] = {} /\ FirstOf(pel) \subseteq pel
           /\ Placed("next", FirstOf(pel), left[r], failed[r])
  <1>1. ReaderTypes /\ ReaderPlaces
    BY TypesAre
  <1>2. at[r] = "fetch" /\ pel # {}
    BY DEF DrainPending
  <1>3. batch[r] = {} /\ left[r] = << >> /\ ~failed[r] /\ failed[r] \in BOOLEAN /\ left[r] \in Seq(Handlers)
    BY <1>1, <1>2 DEF ReaderTypes, ReaderPlaces
  <1>4. Moves(r, "next", FirstOf(pel), left[r], failed[r], draining[r])
    BY <1>1, Still DEF DrainPending, Moves
  <1>5. /\ FirstOf(pel) \subseteq pel /\ FirstOf(pel) # {}
        /\ Cardinality(FirstOf(pel)) <= ReplySize
    <2>1. pel \in SUBSET Nat /\ IsFiniteSet(pel) /\ ReplySize \in Nat \ {0}
      BY PelIs, BusConstants DEF BusTypes
    <2>2. /\ FirstOf(pel) \subseteq pel /\ FirstOf(pel) # {}
          /\ Cardinality(FirstOf(pel)) <= ReplySize
      BY <1>2, <2>1, FirstOfIs
    <2> QED BY <2>2
  <1> QED BY <1>3, <1>4, <1>5 DEF Placed

LEMMA ReadNewIs ==
    ASSUME BusTypes, Deliver,
           NEW r \in Readers, published' = published, group' = group, hasGroup' = hasGroup
    PROVE  /\ NewEntries = delivered + 1..delivered' /\ delivered' \in delivered + 1..published
           /\ pel' = pel \cup NewEntries /\ NewEntries # {}
           /\ Cardinality(NewEntries) <= ReplySize
           /\ StreamTypes'
  <1>1. StreamTypes
    BY TypesAre
  <1>2. /\ ReplySize \in Nat \ {0} /\ delivered \in Nat /\ published \in Nat /\ delivered <= published
        /\ NewEntries # {} /\ group \in Nat /\ group <= delivered
    BY <1>1, BusConstants DEF Deliver, StreamTypes
  <1>3. /\ Max(NewEntries) \in delivered + 1..published
        /\ NewEntries = delivered + 1..Max(NewEntries)
        /\ Cardinality(NewEntries) <= ReplySize
    BY <1>2, NewEntriesAre
  <1>4. delivered' = Max(NewEntries) /\ pel' = pel \cup NewEntries
    BY DEF Deliver
  <1>5. /\ NewEntries = delivered + 1..delivered' /\ delivered' \in delivered + 1..published
    BY <1>3, <1>4
  <1>6. Cardinality(NewEntries) <= ReplySize
    BY <1>3
  <1>7. StreamTypes'
    <2> DEFINE new == NewEntries
    <2>1. new = delivered + 1..delivered' /\ pel' = pel \cup new
      BY <1>4, <1>5
    <2> HIDE DEF new
    <2>2. pel' \subseteq group' + 1..delivered'
      BY <1>1, <1>2, <1>5, <2>1 DEF StreamTypes
    <2> QED BY <1>1, <1>2, <1>5, <2>2 DEF StreamTypes
  <1> QED BY <1>2, <1>4, <1>5, <1>6, <1>7

LEMMA DispatchIs ==
    ASSUME BusTypes, NEW r \in Readers, Dispatch(r)
    PROVE  /\ at[r] = "next" /\ ~failed[r]
           /\ \/ /\ Recipients = << >>
                 /\ Moves(r, "ack", batch[r], << >>, failed[r], draining[r])
              \/ /\ Recipients # << >>
                 /\ Moves(r, "handle", batch[r], Recipients, failed[r], draining[r])
  <1>1. ReaderTypes /\ ReaderPlaces
    BY TypesAre
  <1>2. at[r] = "next"
    BY DEF Dispatch
  <1>3. ~failed[r]
    BY <1>1, <1>2 DEF ReaderPlaces
  <1>4. /\ left' = [left EXCEPT ![r] = Recipients] /\ draining' = draining /\ batch' = batch
        /\ failed' = failed
        /\ at' = [at EXCEPT ![r] = IF Recipients = << >> THEN "ack" ELSE "handle"]
    BY DEF Dispatch
  <1>5. CASE Recipients = << >>
    BY <1>1, <1>2, <1>3, <1>4, <1>5, Still DEF Moves
  <1>6. CASE Recipients # << >>
    BY <1>1, <1>2, <1>3, <1>4, <1>6, Still DEF Moves
  <1> QED BY <1>5, <1>6

\* XACK is answered, or fails.
LEMMA AckIs ==
    ASSUME BusTypes, NEW r \in Readers, Ack(r) \/ AckFails(r)
    PROVE  at[r] = "ack" /\ Moves(r, Through(r), Rest(r), << >>, FALSE, draining[r])
  <1>1. ReaderTypes /\ ReaderPlaces
    BY TypesAre
  <1>2. at[r] = "ack" /\ Finish(r) /\ draining' = draining /\ left' = left
    BY DEF Ack, AckFails
  <1>3. left[r] = << >>
    BY <1>1, <1>2 DEF ReaderPlaces
  <1>4. /\ batch' = [batch EXCEPT ![r] = Rest(r)] /\ failed' = [failed EXCEPT ![r] = FALSE]
        /\ at' = [at EXCEPT ![r] = Through(r)]
    BY <1>2, FinishIs
  <1>5. left' = [left EXCEPT ![r] = << >>] /\ draining' = [draining EXCEPT ![r] = draining[r]]
    BY <1>1, <1>2, <1>3, Still
  <1> QED BY <1>2, <1>4, <1>5 DEF Moves
\* A reader at an entry that moves without new deliveries.
LEMMA AtWorkTypes ==
    ASSUME BusTypes, NEW r \in Readers, Alive(r),
           NEW p, NEW b, NEW t, NEW f, NEW d \in BOOLEAN, Moves(r, p, b, t, f, d),
           Placed(p, b, t, f), b \subseteq batch[r] \cup pel,
           published' = published, group' = group, hasGroup' = hasGroup, delivered' = delivered,
           pel' \subseteq pel, subscriberVars' = subscriberVars,
           due' \subseteq due, handled' \in [Handlers -> 0..2], excused' \in BOOLEAN, shared' \in BOOLEAN
    PROVE  BusTypes'
  <1>1. StreamTypes /\ ListTypes /\ ReaderTypes /\ ReaderPlaces /\ HistoryTypes
    BY TypesAre
  <1>2. StreamTypes' /\ ListTypes' /\ HistoryTypes' /\ scope' = scope
    BY <1>1 DEF StreamTypes, ListTypes, HistoryTypes, subscriberVars
  <1>3. b \subseteq group + 1..delivered'
    BY <1>1 DEF StreamTypes, ReaderTypes
  <1>4. delivered <= delivered'
    BY <1>1 DEF StreamTypes
  <1>5. ReaderTypes' /\ ReaderPlaces'
    BY <1>1, <1>2, <1>3, <1>4, MovedTypes
  <1> QED BY <1>2, <1>5, TypesAre

LEMMA HandlerTypes ==
    ASSUME BusTypes, NEW r \in Readers, at[r] = "handle", NEW any \in BOOLEAN,
           Advance(r, any), draining' = draining,
           streamVars' = streamVars, subscriberVars' = subscriberVars,
           due' = due, handled' \in [Handlers -> 0..2], excused' \in BOOLEAN, shared' \in BOOLEAN
    PROVE  BusTypes'
  <1>1. ReaderTypes /\ ReaderPlaces
    BY TypesAre
  <1>2. /\ left[r] # << >> /\ left[r] \in Seq(Handlers) /\ draining[r] \in BOOLEAN
        /\ batch[r] # {} /\ Cardinality(batch[r]) <= ReplySize
    BY <1>1 DEF ReaderTypes, ReaderPlaces
  <1>3. Alive(r)
    BY DEF Alive
  <1>4. << >> \in Seq(Handlers)
    BY EmptySeq
  <1>5. /\ published' = published /\ group' = group /\ hasGroup' = hasGroup
        /\ delivered' = delivered /\ pel' \subseteq pel /\ due' \subseteq due
    BY DEF streamVars
  <1>6. ASSUME NEW p, NEW b, NEW t, NEW f, Moves(r, p, b, t, f, draining[r]),
               Placed(p, b, t, f), b \subseteq batch[r]
        PROVE  BusTypes'
    BY <1>2, <1>3, <1>5, <1>6, AtWorkTypes
  <1>7. CASE Len(left[r]) > 1 /\ Moves(r, "handle", batch[r], Tail(left[r]), any, draining[r])
    <2> DEFINE t == Tail(left[r])
    <2>1. t \in Seq(Handlers) /\ t # << >>
      BY <1>2, <1>7, HeadAndRest
    <2>2. Moves(r, "handle", batch[r], t, any, draining[r])
      BY <1>7
    <2> HIDE DEF t
    <2>3. Placed("handle", batch[r], t, any)
      BY <1>2, <2>1 DEF Placed
    <2> QED BY <1>6, <2>2, <2>3
  <1>8. CASE Moves(r, "ack", batch[r], << >>, FALSE, draining[r])
    <2>1. Placed("ack", batch[r], << >>, FALSE)
      BY <1>2, <1>4 DEF Placed
    <2> QED BY <1>6, <1>8, <2>1
  <1>9. CASE Moves(r, Through(r), Rest(r), << >>, FALSE, draining[r])
    <2>1. Placed(Through(r), Rest(r), << >>, FALSE) /\ Rest(r) \subseteq batch[r]
      BY <1>4, RestIs DEF Placed, Through
    <2> QED BY <1>6, <1>9, <2>1
  <1> QED BY <1>7, <1>8, <1>9, AdvanceIs

LEMMA ReaderStepTypes ==
    ASSUME BusTypes, NEW r \in Readers, ReaderStep(r) PROVE BusTypes'
  <1>1. StreamTypes /\ ListTypes /\ ReaderTypes /\ ReaderPlaces /\ HistoryTypes
    BY TypesAre
  <1>2. draining[r] \in BOOLEAN /\ << >> \in Seq(Handlers)
    BY <1>1, EmptySeq DEF ReaderTypes
  <1>3. CASE DrainPending(r)
    <2>1. /\ at[r] = "fetch" /\ streamVars' = streamVars /\ subscriberVars' = subscriberVars
          /\ due' = due /\ handled' = handled /\ excused' = excused
          /\ shared' \in BOOLEAN
      BY <1>1, <1>3 DEF DrainPending, HistoryTypes
    <2>2. Alive(r)
      BY <2>1 DEF Alive
    <2>3. /\ Moves(r, "next", FirstOf(pel), left[r], failed[r], draining[r])
          /\ FirstOf(pel) \subseteq batch[r] \cup pel
          /\ Placed("next", FirstOf(pel), left[r], failed[r])
      BY <1>3, DrainPendingIs
    <2> QED BY <1>1, <1>2, <2>1, <2>2, <2>3, AtWorkTypes DEF streamVars, HistoryTypes
  <1>4. CASE Drained(r)
    <2>1. /\ at[r] = "fetch" /\ draining' = [draining EXCEPT ![r] = FALSE]
          /\ at' = at /\ batch' = batch /\ left' = left /\ failed' = failed /\ scope' = scope
          /\ streamVars' = streamVars /\ subscriberVars' = subscriberVars
          /\ historyVars' = historyVars
      BY <1>4 DEF Drained, subscriberVars
    <2>2. StreamTypes' /\ ListTypes' /\ HistoryTypes'
      BY <1>1, <2>1 DEF StreamTypes, ListTypes, HistoryTypes, streamVars, subscriberVars, historyVars
    <2>3. ReaderTypes' /\ ReaderPlaces'
      BY <1>1, <2>1 DEF ReaderTypes, ReaderPlaces, streamVars
    <2> QED BY <2>2, <2>3, TypesAre
  <1>5. CASE ReadNew(r) \/ ReadLost(r)
    <2>1. /\ Deliver /\ at[r] = "fetch" /\ published' = published /\ group' = group /\ hasGroup' = hasGroup
          /\ subscriberVars' = subscriberVars
          /\ due' = due /\ handled' = handled /\ excused' \in BOOLEAN /\ shared' = shared
      BY <1>1, <1>5 DEF ReadNew, ReadLost, historyVars, HistoryTypes
    <2>2. /\ NewEntries = delivered + 1..delivered' /\ delivered' \in delivered + 1..published
          /\ NewEntries # {} /\ Cardinality(NewEntries) <= ReplySize /\ StreamTypes'
      BY <2>1, ReadNewIs
    <2>3. ListTypes' /\ HistoryTypes' /\ scope' = scope
      BY <1>1, <2>1 DEF ListTypes, HistoryTypes, subscriberVars
    <2>4. CASE ReadLost(r)
      <3>1. readerVars' = readerVars
        BY <2>4 DEF ReadLost
      <3>2. hasGroup
        BY <1>1, <2>1 DEF ReaderPlaces
      <3>3. delivered' \in delivered..published'
        BY <1>1, <2>1, <2>2 DEF StreamTypes
      <3>4. ReaderTypes' /\ ReaderPlaces'
        BY <1>1, <2>1, <2>3, <3>1, <3>2, <3>3, ReadersKept
      <3> QED BY <2>2, <2>3, <3>4, TypesAre
    <2>5. CASE ReadNew(r)
      <3>1. /\ batch' = [batch EXCEPT ![r] = NewEntries] /\ at' = [at EXCEPT ![r] = "next"]
            /\ draining' = draining /\ left' = left /\ failed' = failed
        BY <2>5 DEF ReadNew
      <3>2. Moves(r, "next", NewEntries, left[r], failed[r], draining[r])
        BY <1>1, <3>1, Still DEF Moves
      <3>3. left[r] = << >> /\ ~failed[r] /\ failed[r] \in BOOLEAN /\ left[r] \in Seq(Handlers)
        BY <1>1, <2>1 DEF ReaderTypes, ReaderPlaces
      <3>4. Placed("next", NewEntries, left[r], failed[r])
        BY <2>2, <3>3 DEF Placed
      <3>5. NewEntries \subseteq group + 1..delivered' /\ delivered <= delivered'
        BY <1>1, <2>2 DEF StreamTypes
      <3>6. Alive(r)
        BY <2>1 DEF Alive
      <3>7. ReaderTypes' /\ ReaderPlaces'
        BY <1>1, <1>2, <2>1, <2>2, <2>3, <3>2, <3>4, <3>5, <3>6, MovedTypes
      <3> QED BY <2>2, <2>3, <3>7, TypesAre
    <2> QED BY <1>5, <2>4, <2>5
  <1>6. CASE Dispatch(r)
    <2>1. /\ streamVars' = streamVars /\ subscriberVars' = subscriberVars
          /\ due' \subseteq due /\ handled' = handled /\ excused' \in BOOLEAN /\ shared' = shared
      BY <1>1, <1>6 DEF Dispatch, HistoryTypes
    <2>2. at[r] = "next" /\ ~failed[r]
      BY <1>6, DispatchIs
    <2>3. batch[r] # {} /\ Cardinality(batch[r]) <= ReplySize /\ failed[r] \in BOOLEAN /\ Alive(r)
      BY <1>1, <2>2 DEF ReaderPlaces, ReaderTypes, Alive
    <2>4. Recipients \in Seq(Handlers)
      BY ListsAre DEF BusTypes
    <2>5. ASSUME NEW p, NEW t, Moves(r, p, batch[r], t, failed[r], draining[r]),
                 Placed(p, batch[r], t, failed[r])
          PROVE  BusTypes'
      BY <1>1, <1>2, <2>1, <2>3, <2>5, AtWorkTypes DEF streamVars, HistoryTypes
    <2>6. CASE Moves(r, "ack", batch[r], << >>, failed[r], draining[r])
      <3>1. Placed("ack", batch[r], << >>, failed[r])
        BY <1>2, <2>2, <2>3 DEF Placed
      <3> QED BY <2>5, <2>6, <3>1
    <2>7. CASE Recipients # << >> /\ Moves(r, "handle", batch[r], Recipients, failed[r], draining[r])
      <3>1. Placed("handle", batch[r], Recipients, failed[r])
        BY <2>2, <2>3, <2>4, <2>7 DEF Placed
      <3> QED BY <2>5, <2>7, <3>1
    <2> QED BY <1>6, <2>6, <2>7, DispatchIs
  <1>7. CASE HandlerReturns(r)
    <2>1. /\ at[r] = "handle" /\ Advance(r, failed[r]) /\ draining' = draining
          /\ streamVars' = streamVars /\ subscriberVars' = subscriberVars
          /\ due' = due /\ excused' = excused /\ shared' = shared
          /\ handled' = [handled EXCEPT ![Head(left[r])] = IF AtWatched(r) THEN Again(@) ELSE @]
      BY <1>7 DEF HandlerReturns
    <2>2. \A n \in 0..2 : Again(n) \in 0..2
      BY DEF Again
    <2>3. handled' \in [Handlers -> 0..2]
      BY <1>1, <2>1, <2>2 DEF HistoryTypes
    <2>4. failed[r] \in BOOLEAN
      BY <1>1 DEF ReaderTypes
    <2> QED BY <1>1, <2>1, <2>3, <2>4, HandlerTypes DEF HistoryTypes
  <1>8. CASE HandlerRaises(r)
    <2>1. /\ at[r] = "handle" /\ Advance(r, TRUE) /\ draining' = draining
          /\ streamVars' = streamVars /\ subscriberVars' = subscriberVars
          /\ due' = due /\ excused' \in BOOLEAN /\ shared' = shared /\ handled' = handled
      BY <1>1, <1>8 DEF HandlerRaises, HistoryTypes
    <2> QED BY <1>1, <2>1, HandlerTypes DEF HistoryTypes
  <1>9. CASE Ack(r) \/ AckFails(r)
    <2>1. /\ published' = published /\ group' = group /\ hasGroup' = hasGroup /\ delivered' = delivered
          /\ pel' \subseteq pel /\ subscriberVars' = subscriberVars
          /\ due' = due /\ excused' \in BOOLEAN /\ shared' = shared /\ handled' = handled
      BY <1>1, <1>9 DEF Ack, AckFails, streamVars, historyVars, HistoryTypes
    <2>2. at[r] = "ack" /\ Moves(r, Through(r), Rest(r), << >>, FALSE, draining[r])
      BY <1>9, AckIs
    <2>3. Placed(Through(r), Rest(r), << >>, FALSE) /\ Rest(r) \subseteq batch[r]
      BY <1>2, RestIs DEF Placed, Through
    <2>4. Alive(r)
      BY <2>2 DEF Alive
    <2> QED BY <1>1, <1>2, <2>1, <2>2, <2>3, <2>4, AtWorkTypes DEF HistoryTypes
  <1> QED BY <1>3, <1>4, <1>5, <1>6, <1>7, <1>8, <1>9 DEF ReaderStep

LEMMA StepBusTypes ==
    ASSUME BusTypes, [BusNext]_busVars PROVE BusTypes'
  <1>1. CASE UNCHANGED busVars
    <2>1. StreamTypes /\ ListTypes /\ ReaderTypes /\ ReaderPlaces /\ HistoryTypes
      BY TypesAre
    <2>2. StreamTypes' /\ ListTypes' /\ ReaderTypes' /\ ReaderPlaces' /\ HistoryTypes'
      BY <1>1, <2>1 DEF busVars, streamVars, subscriberVars, readerVars, historyVars,
                        StreamTypes, ListTypes, ReaderTypes, ReaderPlaces, HistoryTypes
    <2> QED BY <2>2, TypesAre
  <1>2. CASE BusNext
    BY <1>2, OutsideTypes, GroupReadyTypes, StartTypes, UnsubscribeTypes, CrashTypes, ReaderStepTypes
       DEF BusNext
  <1> QED BY <1>1, <1>2
-------------------------------------------------------------------------------
(* What is known of the watched entry *)

Done == \A h \in due : handled[h] > 0
Untouched == \A h \in Handlers : handled[h] = 0
Unexplained == ~excused /\ ~shared

\* A reader at the entry has called, or will call, everybody it is due.
CallsDue(r) ==
    AtWatched(r) =>
        /\ at[r] = "handle" => IF failed[r] THEN excused
                               ELSE \A h \in due : handled[h] > 0 \/ h \in ToSet(left[r])
        /\ at[r] = "ack" => Done

\* While nothing explains a repeat, one reader has the entry, for the first time.
FirstTime(r) ==
    Holds(r) =>
        /\ \A q \in Readers : Holds(q) => q = r
        /\ Current(r) # Watched \/ at[r] = "next" => Untouched
        /\ Current(r) = Watched /\ at[r] = "handle" =>
               IsInjective(left[r]) /\ \A h \in ToSet(left[r]) : handled[h] = 0

Known ==
    /\ delivered < Watched => Untouched
    /\ Acked => Done
    /\ \A r \in Readers : CallsDue(r)
    /\ Watched \in pel => excused \/ \E r \in Readers : Holds(r)
    /\ Unexplained => \A r \in Readers : FirstTime(r)
    /\ Unexplained => \A h \in Handlers : handled[h] # 2

LEMMA KnownImplies ==
    ASSUME BusTypes, Known PROVE AckedIsHandled /\ MishapsExplain
  BY DEF BusTypes, Known, Done, Unexplained, AckedIsHandled, MishapsExplain,
         RepeatNeedsCause, ParkedNeedsCause

LEMMA InitKnown == ASSUME BusInit PROVE Known
  <1>1. /\ due = {} /\ pel = {} /\ batch = [r \in Readers |-> {}] /\ handled = [h \in Handlers |-> 0]
    BY DEF BusInit
  <1>2. \A r \in Readers : ~Holds(r) /\ ~AtWatched(r)
    BY <1>1 DEF Holds, AtWatched
  <1> QED BY <1>1, <1>2 DEF Known, Done, Untouched, CallsDue, FirstTime

\* What a reader does not do itself, keeps what is known of it.
LEMMA PromiseKept ==
    ASSUME BusTypes, NEW r \in Readers, CallsDue(r),
           batch'[r] = batch[r], at'[r] = at[r], left'[r] = left[r], failed'[r] = failed[r],
           due' \subseteq due, \A h \in Handlers : handled[h] > 0 => handled'[h] > 0,
           excused => excused'
    PROVE  CallsDue(r)'
  <1>1. due \subseteq Handlers
    BY DEF BusTypes, BusTypeOK
  <1> QED BY <1>1 DEF CallsDue, Done, AtWatched, Holds, Current

\* A step that hands out nothing and calls nobody: readers stay or lose what they hold.
LEMMA QuietKnown ==
    ASSUME BusTypes, Known,
           \A r \in Readers : batch'[r] # {} => /\ batch'[r] = batch[r] /\ at'[r] = at[r]
                                                /\ left'[r] = left[r] /\ failed'[r] = failed[r],
           \A r \in Readers : Holds(r) => excused' \/ batch'[r] = batch[r],
           excused => excused', handled' = handled, shared' = shared, due' \subseteq due,
           Watched \in pel' => Watched \in pel,
           Acked' => Acked, delivered' < Watched => delivered < Watched
    PROVE  Known'
  <1>1. \A r \in Readers : Holds(r)' => /\ Holds(r) /\ batch'[r] = batch[r] /\ at'[r] = at[r]
                                            /\ left'[r] = left[r] /\ failed'[r] = failed[r]
    BY DEF Holds
  <1>2. delivered' < Watched => Untouched'
    BY DEF Known, Untouched
  <1>3. Acked' => Done'
    BY DEF Known, Done
  <1>4. ASSUME NEW r \in Readers PROVE CallsDue(r)'
    <2>1. CASE Holds(r)'
      BY <1>1, <2>1, PromiseKept DEF Known
    <2>2. CASE ~Holds(r)'
      BY <2>2 DEF CallsDue, AtWatched
    <2> QED BY <2>1, <2>2
  <1>5. Watched \in pel' => excused' \/ \E r \in Readers : Holds(r)'
    BY DEF Known, Holds
  <1>6. Unexplained' => Unexplained
    BY DEF Unexplained
  <1>7. ASSUME NEW r \in Readers, Unexplained' PROVE FirstTime(r)'
    <2>1. FirstTime(r)
      BY <1>6, <1>7 DEF Known
    <2>2. Current(r)' = Current(r) \/ ~Holds(r)'
      BY <1>1 DEF Current
    <2> QED BY <1>1, <2>1, <2>2 DEF FirstTime, Untouched
  <1>8. Unexplained' => \A h \in Handlers : handled'[h] # 2
    BY <1>6 DEF Known
  <1> QED BY <1>2, <1>3, <1>4, <1>5, <1>7, <1>8 DEF Known

\* Nobody has an entry that was not delivered.
LEMMA NotBefore ==
    ASSUME BusTypes, delivered < Watched PROVE \A r \in Readers : ~Holds(r)
  BY BatchIs DEF Holds, BusTypes, BusTypeOK

LEMMA PublishKnown ==
    ASSUME BusTypes, Known, PublishEvent PROVE Known'
  <1>1. /\ published' = published + 1 /\ group' = group /\ delivered' = delivered /\ pel' = pel
        /\ at' = at /\ batch' = batch /\ left' = left /\ failed' = failed
        /\ handled' = handled /\ excused' = excused /\ shared' = shared
        /\ due' = IF published + 1 = Watched THEN Registered ELSE due
    BY DEF PublishEvent, readerVars
  <1>2. CASE published + 1 # Watched
    <2>1. Acked' <=> Acked
      BY <1>1 DEF Acked
    <2> QED BY <1>1, <1>2, <2>1, QuietKnown
  <1>3. CASE published + 1 = Watched
    <2>1. delivered < Watched /\ delivered' < Watched /\ delivered \in Nat /\ Watched \in Nat
      BY <1>1, <1>3, BusConstants DEF BusTypes, BusTypeOK
    <2>2. \A r \in Readers : ~Holds(r) /\ ~Holds(r)'
      BY <1>1, <2>1, NotBefore DEF Holds
    <2>3. ~Acked'
      BY <1>1, <2>1 DEF Acked
    <2>4. Untouched'
      BY <1>1, <2>1 DEF Known, Untouched
    <2> QED BY <1>1, <2>2, <2>3, <2>4
            DEF Known, CallsDue, FirstTime, AtWatched, Untouched, Unexplained
  <1> QED BY <1>2, <1>3

LEMMA SubscribersKnown ==
    ASSUME BusTypes, Known,
           \/ GroupFails \/ StartReaders
           \/ \E h \in Handlers : Subscribe(h) \/ SubscribeAll(h) \/ UnsubscribeAll(h)
           \/ \E r \in Readers : Drained(r)
    PROVE  Known'
  <1>1. ReaderTypes /\ ReaderPlaces
    BY TypesAre
  <1>2. /\ streamVars' = streamVars /\ batch' = batch /\ left' = left /\ failed' = failed
        /\ due' \subseteq due /\ handled' = handled /\ excused' = excused /\ shared' = shared
    BY DEF GroupFails, StartReaders, Subscribe, SubscribeAll, UnsubscribeAll, Drained,
           streamVars, readerVars, historyVars
  <1>3. \A r \in Readers : batch[r] # {} => at'[r] = at[r]
    <2>1. CASE StartReaders
      BY <1>1, <2>1 DEF StartReaders, ReaderPlaces
    <2>2. CASE at' = at
      BY <2>2
    <2> QED BY <2>1, <2>2
            DEF GroupFails, Subscribe, SubscribeAll, UnsubscribeAll, Drained,
                readerVars
  <1>4. delivered' = delivered /\ pel' = pel /\ (Acked' <=> Acked)
    BY <1>2 DEF streamVars, Acked
  <1> QED BY <1>2, <1>3, <1>4, QuietKnown

LEMMA GroupReadyKnown ==
    ASSUME BusTypes, Known, NEW r \in Readers, GroupReady(r) PROVE Known'
  <1>1. StreamTypes /\ ReaderTypes /\ ReaderPlaces
    BY TypesAre
  <1>2. /\ at' = [at EXCEPT ![r] = IF started THEN "fetch" ELSE "queued"]
        /\ pel' = pel /\ batch' = batch /\ left' = left /\ failed' = failed
        /\ due' = due /\ handled' = handled /\ excused' = excused /\ shared' = shared
        /\ IF hasGroup THEN group' = group /\ delivered' = delivered
                       ELSE group' = published /\ delivered' = published
    BY DEF GroupReady, historyVars
  <1>3. at[r] = "none"
    BY GroupReadyTypes
  <1>4. \A q \in Readers : batch[q] # {} => at'[q] = at[q]
    BY <1>1, <1>2, <1>3 DEF ReaderTypes, ReaderPlaces
  <1>5. (Acked' => Acked) /\ (delivered' < Watched => delivered < Watched)
    <2>1. CASE hasGroup
      BY <1>2, <2>1 DEF Acked
    <2>2. CASE ~hasGroup
      <3>1. delivered = 0 /\ 0 < Watched /\ group' = delivered' /\ delivered' \in Nat /\ Watched \in Nat
        BY <1>1, <1>2, <2>2, BusConstants DEF ReaderPlaces, StreamTypes
      <3> QED BY <3>1 DEF Acked
    <2> QED BY <2>1, <2>2
  <1> QED BY <1>2, <1>4, <1>5, QuietKnown

LEMMA StopKnown ==
    ASSUME BusTypes, Known, NEW rs \in SUBSET Readers, NEW point,
           point = Cancelled \/ point = Dead, StopReaders(rs, point),
           streamVars' = streamVars, due' \subseteq due, handled' = handled, shared' = shared
    PROVE  Known'
  <1>1. /\ at' = [r \in Readers |-> IF r \in rs THEN point[at[r]] ELSE at[r]]
        /\ batch' = [r \in Readers |-> IF r \in rs THEN {} ELSE batch[r]]
        /\ left' = [r \in Readers |-> IF r \in rs THEN << >> ELSE left[r]]
        /\ failed' = [r \in Readers |-> failed[r] /\ r \notin rs]
        /\ excused' = (excused \/ \E r \in rs : Holds(r))
    BY DEF StopReaders
  <1>2. ASSUME NEW r \in Readers
        PROVE  /\ batch'[r] # {} => /\ batch'[r] = batch[r] /\ at'[r] = at[r]
                                    /\ left'[r] = left[r] /\ failed'[r] = failed[r]
               /\ Holds(r) => excused' \/ batch'[r] = batch[r]
    <2>1. failed[r] \in BOOLEAN
      BY DEF BusTypes, BusTypeOK
    <2>2. CASE r \in rs
      BY <1>1, <2>2
    <2>3. CASE r \notin rs
      BY <1>1, <2>1, <2>3
    <2> QED BY <2>2, <2>3
  <1>3. delivered' = delivered /\ pel' = pel /\ (Acked' <=> Acked)
    BY DEF streamVars, Acked
  <1>4. excused => excused'
    BY <1>1
  <1> QED BY <1>2, <1>3, <1>4, QuietKnown

LEMMA EndsKnown ==
    ASSUME BusTypes, Known,
           CrashProcess \/ \E h \in Handlers : Unsubscribe(h)
    PROVE  Known'
  <1>1. CASE CrashProcess
    <2>1. /\ Readers \in SUBSET Readers /\ StopReaders(Readers, Dead)
          /\ streamVars' = streamVars /\ due' \subseteq due /\ handled' = handled /\ shared' = shared
      BY <1>1 DEF CrashProcess
    <2> QED BY <2>1, StopKnown
  <1>2. ASSUME NEW h \in Handlers, Unsubscribe(h) PROVE Known'
    <2>1. streamVars' = streamVars /\ due' \subseteq due /\ handled' = handled /\ shared' = shared
      BY <1>2 DEF Unsubscribe
    <2>2. CASE handlers' = << >> /\ scope # NoReader
      <3>1. {scope} \in SUBSET Readers /\ StopReaders({scope}, Cancelled)
        BY <1>2, <2>2, TypesAre DEF Unsubscribe, ReaderPlaces
      <3> QED BY <2>1, <3>1, StopKnown
    <2>3. CASE ~(handlers' = << >> /\ scope # NoReader)
      <3>1. /\ at' = at /\ batch' = batch /\ left' = left /\ failed' = failed /\ excused' = excused
        BY <1>2, <2>3 DEF Unsubscribe, readerVars
      <3>2. delivered' = delivered /\ pel' = pel /\ (Acked' <=> Acked)
        BY <2>1 DEF streamVars, Acked
      <3> QED BY <2>1, <3>1, <3>2, QuietKnown
    <2> QED BY <2>2, <2>3
  <1> QED BY <1>1, <1>2
LEMMA MovedIs ==
    ASSUME ReaderTypes, NEW r \in Readers, NEW p, NEW b, NEW t, NEW f, NEW d, Moves(r, p, b, t, f, d)
    PROVE  /\ at'[r] = p /\ batch'[r] = b /\ left'[r] = t /\ failed'[r] = f
           /\ \A q \in Readers : q # r =>
                  /\ at'[q] = at[q] /\ batch'[q] = batch[q] /\ left'[q] = left[q] /\ failed'[q] = failed[q]
                  /\ (Holds(q)' <=> Holds(q)) /\ Current(q)' = Current(q)
  BY DEF ReaderTypes, Moves, Holds, Current

\* A step of r, which leaves the promises of the others.
LEMMA OthersPromise ==
    ASSUME BusTypes, Known, NEW r \in Readers,
           NEW p, NEW b, NEW t, NEW f, NEW d, Moves(r, p, b, t, f, d),
           due' \subseteq due, \A h \in Handlers : handled[h] > 0 => handled'[h] > 0,
           excused => excused'
    PROVE  \A q \in Readers : q # r => CallsDue(q)'
  <1> SUFFICES ASSUME NEW q \in Readers, q # r PROVE CallsDue(q)'
    OBVIOUS
  <1>1. batch'[q] = batch[q] /\ at'[q] = at[q] /\ left'[q] = left[q] /\ failed'[q] = failed[q]
    BY MovedIs, TypesAre
  <1> QED BY <1>1, PromiseKept DEF Known

LEMMA DrainPendingKnown ==
    ASSUME BusTypes, Known, NEW r \in Readers, DrainPending(r) PROVE Known'
  <1> DEFINE new == FirstOf(pel)
  <1>1. /\ Moves(r, "next", new, left[r], failed[r], draining[r])
        /\ batch[r] = {} /\ new \subseteq pel
    BY DrainPendingIs
  <1>2. /\ delivered' = delivered /\ pel' = pel /\ (Acked' <=> Acked)
        /\ due' = due /\ handled' = handled /\ excused' = excused
        /\ shared' = (shared \/ (Watched \in new /\ \E q \in Readers : Holds(q)))
    BY DEF DrainPending, streamVars, Acked
  <1> HIDE DEF new
  <1>3. /\ at'[r] = "next" /\ batch'[r] = new
        /\ \A q \in Readers : q # r =>
               /\ at'[q] = at[q] /\ left'[q] = left[q]
               /\ (Holds(q)' <=> Holds(q)) /\ Current(q)' = Current(q)
    BY <1>1, MovedIs, TypesAre
  <1>4. CallsDue(r)' /\ ~Holds(r) /\ (Holds(r)' <=> Watched \in new)
    BY <1>1, <1>3 DEF CallsDue, Holds
  <1>5. \A q \in Readers : q # r => CallsDue(q)'
    BY <1>1, <1>2, OthersPromise
  <1>6. Watched \in pel' => excused' \/ \E q \in Readers : Holds(q)'
    BY <1>2, <1>3, <1>4 DEF Known
  <1>7. Unexplained' => Unexplained /\ ~Holds(r)'
    BY <1>1, <1>2, <1>4 DEF Known, Unexplained
  <1>8. ASSUME Unexplained', NEW q \in Readers PROVE FirstTime(q)'
    <2>1. CASE q = r
      BY <1>7, <1>8, <2>1 DEF FirstTime
    <2>2. CASE q # r
      <3>1. FirstTime(q)
        BY <1>7, <1>8 DEF Known
      <3> QED BY <1>2, <1>3, <1>4, <1>7, <1>8, <2>2, <3>1 DEF FirstTime, Untouched
    <2> QED BY <2>1, <2>2
  <1>9. /\ delivered' < Watched => Untouched'
        /\ Acked' => Done'
        /\ Unexplained' => \A h \in Handlers : handled'[h] # 2
    BY <1>2, <1>7 DEF Known, Untouched, Done
  <1> QED BY <1>4, <1>5, <1>6, <1>8, <1>9 DEF Known

\* What the delivery of new entries says of the watched one.
LEMMA DeliveredIs ==
    ASSUME BusTypes, Known, Deliver, NEW r \in Readers,
           published' = published, group' = group, hasGroup' = hasGroup
    PROVE  /\ Watched \in pel' <=> Watched \in pel \/ Watched \in NewEntries
           /\ Watched \in NewEntries => Untouched /\ \A q \in Readers : ~Holds(q)
           /\ delivered' < Watched => delivered < Watched
           /\ Acked' => Acked
  <1> DEFINE new == NewEntries
  <1>1. /\ new = delivered + 1..delivered' /\ delivered' \in delivered + 1..published
        /\ pel' = pel \cup new
    BY ReadNewIs
  <1> HIDE DEF new
  <1>2. delivered \in Nat /\ published \in Nat /\ Watched \in Nat
    BY BusConstants DEF BusTypes, BusTypeOK
  <1>3. Watched \in new => delivered < Watched
    BY <1>1, <1>2
  <1>4. Watched \in new => Untouched /\ \A q \in Readers : ~Holds(q)
    BY <1>3, NotBefore DEF Known
  <1>5. delivered' < Watched => delivered < Watched
    BY <1>1, <1>2
  <1>6. Watched <= delivered' => Watched \in new \/ Watched <= delivered
    BY <1>1, <1>2
  <1> QED BY <1>1, <1>4, <1>5, <1>6 DEF new, Acked

LEMMA ReadNewKnown ==
    ASSUME BusTypes, Known, NEW r \in Readers, ReadNew(r) PROVE Known'
  <1> DEFINE new == NewEntries
  <1>1. /\ Deliver /\ published' = published /\ group' = group /\ hasGroup' = hasGroup
        /\ at[r] = "fetch" /\ due' = due /\ handled' = handled /\ excused' = excused /\ shared' = shared
        /\ batch' = [batch EXCEPT ![r] = new] /\ at' = [at EXCEPT ![r] = "next"]
        /\ left' = left /\ failed' = failed /\ draining' = draining
    BY DEF ReadNew, historyVars
  <1>2. /\ Watched \in pel' <=> Watched \in pel \/ Watched \in new
        /\ Watched \in new => Untouched /\ \A q \in Readers : ~Holds(q)
        /\ delivered' < Watched => delivered < Watched
        /\ Acked' => Acked
    BY <1>1, DeliveredIs
  <1> HIDE DEF new
  <1>3. ReaderTypes /\ ReaderPlaces
    BY TypesAre
  <1>4. batch[r] = {}
    BY <1>1, <1>3 DEF ReaderPlaces
  <1>5. Moves(r, "next", new, left[r], failed[r], draining[r])
    BY <1>1, <1>3, Still DEF Moves
  <1>6. /\ at'[r] = "next" /\ batch'[r] = new
        /\ \A q \in Readers : q # r =>
               /\ at'[q] = at[q] /\ left'[q] = left[q]
               /\ (Holds(q)' <=> Holds(q)) /\ Current(q)' = Current(q)
    BY <1>3, <1>5, MovedIs
  <1>7. CallsDue(r)' /\ ~Holds(r) /\ (Holds(r)' <=> Watched \in new)
    BY <1>4, <1>6 DEF CallsDue, Holds
  <1>8. \A q \in Readers : q # r => CallsDue(q)'
    BY <1>1, <1>5, OthersPromise
  <1>9. Watched \in pel' => excused' \/ \E q \in Readers : Holds(q)'
    BY <1>1, <1>2, <1>6, <1>7 DEF Known
  <1>10. ASSUME Unexplained', NEW q \in Readers PROVE FirstTime(q)'
    <2>1. Untouched' <=> Untouched
      BY <1>1 DEF Untouched
    <2>2. CASE Watched \in new
      <3>1. \A s \in Readers : Holds(s)' => s = r
        BY <1>2, <1>6, <2>2
      <3> QED BY <1>2, <1>6, <2>1, <2>2, <3>1 DEF FirstTime
    <2>3. CASE Watched \notin new
      <3>1. CASE q = r
        BY <1>7, <2>3, <3>1 DEF FirstTime
      <3>2. CASE q # r
        <4>1. FirstTime(q)
          BY <1>1, <1>10 DEF Known, Unexplained
        <4> QED BY <1>1, <1>6, <1>7, <2>1, <2>3, <3>2, <4>1 DEF FirstTime
      <3> QED BY <3>1, <3>2
    <2> QED BY <2>2, <2>3
  <1>11. /\ delivered' < Watched => Untouched'
         /\ Acked' => Done'
         /\ Unexplained' => \A h \in Handlers : handled'[h] # 2
    BY <1>1, <1>2 DEF Known, Untouched, Done, Unexplained
  <1> QED BY <1>7, <1>8, <1>9, <1>10, <1>11 DEF Known

LEMMA ReadLostKnown ==
    ASSUME BusTypes, Known, NEW r \in Readers, ReadLost(r) PROVE Known'
  <1>1. /\ Deliver /\ published' = published /\ group' = group /\ hasGroup' = hasGroup
        /\ due' = due /\ handled' = handled /\ shared' = shared
        /\ excused' = (excused \/ Watched \in NewEntries)
        /\ at' = at /\ batch' = batch /\ left' = left /\ failed' = failed
    BY DEF ReadLost, readerVars
  <1>2. /\ Watched \in pel' <=> Watched \in pel \/ Watched \in NewEntries
        /\ Watched \in NewEntries => Untouched /\ \A q \in Readers : ~Holds(q)
        /\ delivered' < Watched => delivered < Watched
        /\ Acked' => Acked
    BY <1>1, DeliveredIs
  <1>3. CASE Watched \notin NewEntries
    BY <1>1, <1>2, <1>3, QuietKnown
  <1>4. CASE Watched \in NewEntries
    <2>1. \A q \in Readers : ~Holds(q)'
      BY <1>1, <1>2, <1>4 DEF Holds
    <2>2. \A q \in Readers : CallsDue(q)'
      BY <2>1 DEF CallsDue, AtWatched
    <2>3. excused' /\ ~Unexplained'
      BY <1>1, <1>4 DEF Unexplained
    <2>4. Untouched' /\ (Acked' => Done')
      BY <1>1, <1>2, <1>4 DEF Known, Untouched, Done
    <2> QED BY <2>2, <2>3, <2>4 DEF Known
  <1> QED BY <1>3, <1>4
LEMMA InList ==
    ASSUME NEW S, NEW s \in Seq(S) PROVE ToSet(s) \subseteq S /\ (s = << >> => ToSet(s) = {})
  <1>1. Len(s) \in Nat /\ DOMAIN s = 1..Len(s) /\ (s = << >> => Len(s) = 0)
    BY LenProperties, EmptySeq
  <1>2. \A i \in 1..Len(s) : s[i] \in S
    BY ElementOfSeq
  <1>3. ToSet(s) = {s[i] : i \in 1..Len(s)}
    BY <1>1 DEF ToSet
  <1>4. ToSet(s) \subseteq S
    BY <1>2, <1>3
  <1>5. ASSUME s = << >> PROVE ToSet(s) = {}
    <2>1. 1..Len(s) = {}
      BY <1>1, <1>5
    <2> QED BY <1>3, <2>1
  <1> QED BY <1>4, <1>5

LEMMA DispatchKnown ==
    ASSUME BusTypes, Known, NEW r \in Readers, Dispatch(r) PROVE Known'
  <1>1. /\ streamVars' = streamVars /\ handled' = handled /\ shared' = shared
        /\ due' = IF AtWatched(r) THEN due \cap Registered ELSE due
        /\ excused' = (excused \/ (AtWatched(r) /\ ~IsInjective(Recipients)))
    BY DEF Dispatch
  <1> DEFINE to == Recipients
  <1>2. /\ to \in Seq(Handlers) /\ Registered \subseteq ToSet(to)
    BY ListsAre DEF BusTypes
  <1>3. ToSet(to) \subseteq Handlers /\ (to = << >> => ToSet(to) = {})
    BY <1>2, InList
  <1>4. PICK p \in {"ack", "handle"}, t \in {<< >>, to} :
            /\ Moves(r, p, batch[r], t, failed[r], draining[r])
            /\ p = "ack" => to = << >>
            /\ p = "handle" => t = to
    BY DispatchIs
  <1>5. at[r] = "next" /\ ~failed[r]
    BY DispatchIs
  <1> HIDE DEF to
  <1>6. /\ at'[r] = p /\ batch'[r] = batch[r] /\ left'[r] = t /\ failed'[r] = failed[r]
        /\ \A q \in Readers : q # r =>
               /\ at'[q] = at[q] /\ left'[q] = left[q]
               /\ (Holds(q)' <=> Holds(q)) /\ Current(q)' = Current(q)
    BY <1>4, MovedIs, TypesAre
  <1>7. /\ Holds(r)' <=> Holds(r)
        /\ Current(r)' = Current(r)
        /\ AtWatched(r)' <=> AtWatched(r)
    BY <1>6 DEF Holds, Current, AtWatched
  <1>8. /\ due' \subseteq due /\ (excused => excused')
        /\ delivered' = delivered /\ pel' = pel /\ (Acked' <=> Acked)
    BY <1>1 DEF streamVars, Acked
  <1>9. \A q \in Readers : q # r => CallsDue(q)'
    BY <1>1, <1>4, <1>8, OthersPromise
  <1>10. CallsDue(r)'
    <2>1. AtWatched(r) => due' \subseteq ToSet(to)
      BY <1>1, <1>2
    <2>2. CASE p = "ack"
      BY <1>3, <1>4, <1>6, <1>7, <2>1, <2>2 DEF CallsDue, Done
    <2>3. CASE p = "handle"
      BY <1>4, <1>5, <1>6, <1>7, <2>1, <2>3 DEF CallsDue
    <2> QED BY <2>2, <2>3
  <1>11. Watched \in pel' => excused' \/ \E q \in Readers : Holds(q)'
    BY <1>6, <1>7, <1>8 DEF Known
  <1>12. Unexplained' => Unexplained /\ (AtWatched(r) => IsInjective(to))
    BY <1>1 DEF Unexplained, to
  <1>13. ASSUME Unexplained', NEW q \in Readers PROVE FirstTime(q)'
    <2>1. FirstTime(q) /\ \A s \in Readers : Holds(s)' <=> Holds(s)
      BY <1>6, <1>7, <1>12, <1>13 DEF Known
    <2>2. Untouched' <=> Untouched
      BY <1>1 DEF Untouched
    <2>3. CASE q # r
      BY <1>1, <1>6, <2>1, <2>2, <2>3 DEF FirstTime
    <2>4. CASE q = r /\ Holds(r)
      <3>1. Untouched /\ Untouched'
        BY <1>5, <2>1, <2>2, <2>4 DEF FirstTime
      <3>2. \A h \in ToSet(to) : handled'[h] = 0
        BY <1>3, <3>1 DEF Untouched
      <3>3. ASSUME Current(r)' = Watched, at'[r] = "handle"
            PROVE  IsInjective(left'[r]) /\ \A h \in ToSet(left'[r]) : handled'[h] = 0
        <4>1. left'[r] = to /\ AtWatched(r)
          BY <1>4, <1>6, <1>7, <2>4, <3>3 DEF AtWatched
        <4> QED BY <1>12, <1>13, <3>2, <4>1
      <3>4. \A s \in Readers : Holds(s)' => s = r
        BY <2>1, <2>4 DEF FirstTime
      <3> QED BY <2>4, <3>1, <3>3, <3>4 DEF FirstTime
    <2>5. CASE q = r /\ ~Holds(r)
      BY <1>7, <2>5 DEF FirstTime
    <2> QED BY <2>3, <2>4, <2>5
  <1>14. /\ delivered' < Watched => Untouched'
         /\ Acked' => Done'
         /\ Unexplained' => \A h \in Handlers : handled'[h] # 2
    BY <1>1, <1>8, <1>12 DEF Known, Untouched, Done
  <1> QED BY <1>9, <1>10, <1>11, <1>13, <1>14 DEF Known

\* A reader that is through with an entry holds the others.
LEMMA ThroughIs ==
    ASSUME BusTypes, NEW r \in Readers,
           Moves(r, Through(r), Rest(r), << >>, FALSE, draining[r])
    PROVE  /\ at'[r] \in {"next", "fetch"} /\ CallsDue(r)'
           /\ Holds(r)' <=> Holds(r) /\ Current(r) # Watched
           /\ \A q \in Readers : q # r =>
                  /\ at'[q] = at[q] /\ left'[q] = left[q]
                  /\ (Holds(q)' <=> Holds(q)) /\ Current(q)' = Current(q)
  <1>1. /\ at'[r] = Through(r) /\ batch'[r] = Rest(r)
        /\ \A q \in Readers : q # r =>
               /\ at'[q] = at[q] /\ left'[q] = left[q]
               /\ (Holds(q)' <=> Holds(q)) /\ Current(q)' = Current(q)
    <2> DEFINE p == Through(r)
               b == Rest(r)
               t == << >>
               f == FALSE
    <2>1. Moves(r, p, b, t, f, draining[r]) /\ ReaderTypes
      BY TypesAre
    <2> HIDE DEF p, b, t, f
    <2>2. /\ at'[r] = p /\ batch'[r] = b
          /\ \A q \in Readers : q # r =>
                 /\ at'[q] = at[q] /\ left'[q] = left[q]
                 /\ (Holds(q)' <=> Holds(q)) /\ Current(q)' = Current(q)
      BY <2>1, MovedIs
    <2> QED BY <2>2 DEF p, b
  <1>2. at'[r] \in {"next", "fetch"}
    BY <1>1 DEF Through
  <1>3. Holds(r)' <=> Holds(r) /\ Current(r) # Watched
    BY <1>1 DEF Holds, Rest
  <1> QED BY <1>1, <1>2, <1>3 DEF CallsDue

\* What remains known when r is through with an entry and calls nobody.
LEMMA ThroughFirst ==
    ASSUME BusTypes, NEW r \in Readers,
           Moves(r, Through(r), Rest(r), << >>, FALSE, draining[r]),
           \A s \in Readers : FirstTime(s), handled' = handled, NEW q \in Readers,
           q = r => at[r] \in {"handle", "ack"}
    PROVE  FirstTime(q)' \/ (q = r /\ Holds(r) /\ Current(r) # Watched /\ ~Untouched)
  <1>1. /\ at'[r] \in {"next", "fetch"}
        /\ Holds(r)' <=> Holds(r) /\ Current(r) # Watched
        /\ \A s \in Readers : s # r =>
               /\ at'[s] = at[s] /\ left'[s] = left[s]
               /\ (Holds(s)' <=> Holds(s)) /\ Current(s)' = Current(s)
    BY ThroughIs
  <1>2. \A s \in Readers : Holds(s)' => Holds(s)
    BY <1>1
  <1>3. Untouched' <=> Untouched
    BY DEF Untouched
  <1>4. CASE q = r
    BY <1>1, <1>2, <1>3, <1>4 DEF FirstTime
  <1>5. CASE q # r
    <2>1. FirstTime(q)
      OBVIOUS
    <2> QED BY <1>1, <1>2, <1>3, <1>5, <2>1 DEF FirstTime
  <1> QED BY <1>4, <1>5

LEMMA AckKnown ==
    ASSUME BusTypes, Known, NEW r \in Readers, Ack(r) \/ AckFails(r)
    PROVE  Known'
  <1>1. at[r] = "ack" /\ Moves(r, Through(r), Rest(r), << >>, FALSE, draining[r])
    BY AckIs
  <1>2. /\ published' = published /\ group' = group /\ delivered' = delivered
        /\ due' = due /\ handled' = handled /\ shared' = shared
        /\ \/ pel' = pel \ {Current(r)} /\ excused' = excused
           \/ pel' = pel /\ excused' = (excused \/ AtWatched(r))
    BY DEF Ack, AckFails, streamVars, historyVars
  <1>3. /\ at'[r] \in {"next", "fetch"} /\ CallsDue(r)'
        /\ Holds(r)' <=> Holds(r) /\ Current(r) # Watched
        /\ \A q \in Readers : q # r => (Holds(q)' <=> Holds(q))
    BY <1>1, ThroughIs
  <1>4. Current(r) \in batch[r]
    <2>1. batch[r] # {}
      BY <1>1, TypesAre DEF ReaderPlaces
    <2> QED BY <2>1, CurrentIs DEF BusTypes
  <1>5. excused => excused'
    BY <1>2
  <1>6. \A q \in Readers : q # r => CallsDue(q)'
    BY <1>1, <1>2, <1>5, OthersPromise
  <1>7. Acked' => Done'
    <2>1. CASE Acked
      BY <1>2, <2>1 DEF Known, Done
    <2>2. CASE ~Acked /\ Acked'
      <3>1. Current(r) = Watched
        BY <1>2, <2>2 DEF Acked
      <3>2. AtWatched(r)
        BY <1>4, <3>1 DEF AtWatched, Holds
      <3>3. Done
        BY <1>1, <3>2 DEF Known, CallsDue
      <3> QED BY <1>2, <3>3 DEF Done
    <2> QED BY <2>1, <2>2
  <1>8. Watched \in pel' => excused' \/ \E q \in Readers : Holds(q)'
    <2>1. CASE AtWatched(r)
      BY <1>2, <2>1 DEF AtWatched
    <2>2. CASE ~AtWatched(r)
      <3>1. \A q \in Readers : Holds(q)' <=> Holds(q)
        BY <1>3, <2>2 DEF AtWatched
      <3> QED BY <1>2, <1>5, <3>1 DEF Known
    <2> QED BY <2>1, <2>2
  <1>9. ASSUME Unexplained', NEW q \in Readers PROVE FirstTime(q)'
    <2>1. \A s \in Readers : FirstTime(s)
      BY <1>2, <1>5, <1>9 DEF Known, Unexplained
    <2>2. q = r /\ Holds(r) /\ Current(r) # Watched => Untouched
      BY <2>1 DEF FirstTime
    <2> QED BY <1>1, <1>2, <2>1, <2>2, ThroughFirst
  <1>10. /\ delivered' < Watched => Untouched'
         /\ Unexplained' => \A h \in Handlers : handled'[h] # 2
    BY <1>2, <1>5 DEF Known, Untouched, Unexplained
  <1> QED BY <1>3, <1>6, <1>7, <1>8, <1>9, <1>10 DEF Known
\* A handler of r has returned or raised, with failure of any so far.
LEMMA HandlerKnown ==
    ASSUME BusTypes, Known, NEW r \in Readers, at[r] = "handle", NEW any \in BOOLEAN,
           Advance(r, any), draining' = draining, streamVars' = streamVars,
           due' = due, shared' = shared, excused => excused',
           \A h \in Handlers : handled[h] > 0 => handled'[h] > 0,
           \A h \in Handlers : h # Head(left[r]) => handled'[h] = handled[h],
           ~AtWatched(r) => handled' = handled,
           AtWatched(r) /\ any => excused',
           AtWatched(r) /\ ~any => ~failed[r] /\ handled'[Head(left[r])] > 0,
           AtWatched(r) /\ Unexplained' => handled'[Head(left[r])] # 2
    PROVE  Known'
  <1> DEFINE t == left[r]
             h0 == Head(t)
             rest == Tail(t)
  <1>1. /\ t # << >> /\ t \in Seq(Handlers)
        /\ \/ Moves(r, "handle", batch[r], rest, any, draining[r])
           \/ Len(t) = 1 /\ ~any /\ Moves(r, "ack", batch[r], << >>, FALSE, draining[r])
           \/ any /\ Moves(r, Through(r), Rest(r), << >>, FALSE, draining[r])
    BY AdvanceIs
  <1>2. /\ h0 \in Handlers /\ rest \in Seq(Handlers) /\ (Len(t) = 1 <=> rest = << >>)
        /\ \A x : x \in ToSet(t) => x = h0 \/ x \in ToSet(rest)
        /\ \A x : x \in ToSet(rest) => x \in ToSet(t)
        /\ IsInjective(t) => IsInjective(rest) /\ h0 \notin ToSet(rest)
    BY <1>1, HeadAndRest
  <1>3. ToSet(t) \subseteq Handlers /\ (Len(t) = 1 => ToSet(rest) = {})
    BY <1>1, <1>2, InList
  <1>4. /\ \A h \in Handlers : h # h0 => handled'[h] = handled[h]
        /\ AtWatched(r) /\ ~any => ~failed[r] /\ handled'[h0] > 0
        /\ AtWatched(r) /\ Unexplained' => handled'[h0] # 2
    OBVIOUS
  <1>5. due' = due /\ due \subseteq Handlers
    BY DEF BusTypes, BusTypeOK
  <1>6. left[r] = t
    OBVIOUS
  <1> HIDE DEF t, h0, rest
  <1>7. delivered' = delivered /\ pel' = pel /\ (Acked' <=> Acked)
    BY DEF streamVars, Acked
  <1>8. Unexplained' => Unexplained
    BY DEF Unexplained
  <1>9. delivered' < Watched => Untouched'
    <2>1. delivered < Watched => Untouched /\ ~AtWatched(r)
      BY NotBefore DEF Known, AtWatched
    <2> QED BY <1>7, <2>1 DEF Untouched
  <1>10. Acked' => Done'
    BY <1>5, <1>7 DEF Known, Done
  <1>11. Unexplained' => \A h \in Handlers : handled'[h] # 2
    <2> SUFFICES ASSUME Unexplained', NEW h \in Handlers PROVE handled'[h] # 2
      OBVIOUS
    <2>1. handled[h] # 2
      BY <1>8 DEF Known
    <2>2. CASE h # h0
      BY <1>4, <2>1, <2>2
    <2>3. CASE h = h0
      BY <1>4, <2>1, <2>3
    <2> QED BY <2>2, <2>3
  <1>12. AtWatched(r) /\ ~any => \A h \in due : handled'[h] > 0 \/ h \in ToSet(rest)
    <2> SUFFICES ASSUME AtWatched(r), ~any, NEW h \in due
                 PROVE  handled'[h] > 0 \/ h \in ToSet(rest)
      OBVIOUS
    <2>1. handled[h] > 0 \/ h \in ToSet(t)
      BY <1>4, <1>6 DEF Known, CallsDue
    <2> QED BY <1>2, <1>4, <1>5, <2>1
  <1>13. ASSUME Unexplained', Holds(r) PROVE
            /\ \A q \in Readers : Holds(q) => q = r
            /\ Current(r) # Watched => Untouched'
            /\ Current(r) = Watched => IsInjective(rest) /\ \A h \in ToSet(rest) : handled'[h] = 0
    <2>1. FirstTime(r)
      BY <1>8, <1>13 DEF Known
    <2>2. Current(r) # Watched => Untouched'
      BY <1>13, <2>1 DEF FirstTime, Untouched, AtWatched
    <2>3. Current(r) = Watched => IsInjective(t) /\ \A h \in ToSet(t) : handled[h] = 0
      BY <1>6, <1>13, <2>1 DEF FirstTime
    <2>4. Current(r) = Watched => IsInjective(rest) /\ \A h \in ToSet(rest) : handled'[h] = 0
      BY <1>2, <1>3, <1>4, <2>3
    <2> QED BY <1>13, <2>1, <2>2, <2>4 DEF FirstTime
  <1>14. ASSUME Unexplained', NEW q \in Readers, q # r, Holds(q) PROVE FirstTime(q) /\ handled' = handled
    <2>1. FirstTime(q)
      BY <1>8, <1>14 DEF Known
    <2> QED BY <1>14, <2>1 DEF FirstTime, AtWatched
  \* The reader keeps the entry.
  <1>15. ASSUME NEW p \in {"handle", "ack"}, NEW u, NEW f,
                Moves(r, p, batch[r], u, f, draining[r]),
                p = "handle" => u = rest /\ f = any,
                p = "ack" => ~any /\ ToSet(rest) = {}
         PROVE  Known'
    <2>1. /\ at'[r] = p /\ batch'[r] = batch[r] /\ left'[r] = u /\ failed'[r] = f
          /\ \A q \in Readers : q # r =>
                 /\ at'[q] = at[q] /\ left'[q] = left[q]
                 /\ (Holds(q)' <=> Holds(q)) /\ Current(q)' = Current(q)
      BY <1>15, MovedIs, TypesAre
    <2>2. /\ Holds(r)' <=> Holds(r)
          /\ Current(r)' = Current(r)
          /\ AtWatched(r)' <=> AtWatched(r)
      BY <2>1 DEF Holds, Current, AtWatched
    <2>3. \A q \in Readers : q # r => CallsDue(q)'
      BY <1>5, <1>15, OthersPromise
    <2>4. CallsDue(r)'
      BY <1>5, <1>12, <1>15, <2>1, <2>2 DEF CallsDue, Done
    <2>5. Watched \in pel' => excused' \/ \E q \in Readers : Holds(q)'
      BY <1>7, <2>1, <2>2 DEF Known
    <2>6. ASSUME Unexplained', NEW q \in Readers PROVE FirstTime(q)'
      <3>1. \A s \in Readers : Holds(s)' <=> Holds(s)
        BY <2>1, <2>2
      <3>2. CASE q = r
        BY <1>13, <1>15, <2>1, <2>2, <2>6, <3>1, <3>2 DEF FirstTime
      <3>3. CASE q # r /\ Holds(q)
        BY <1>14, <2>1, <2>6, <3>1, <3>3 DEF FirstTime, Untouched
      <3>4. CASE ~Holds(q)
        BY <3>1, <3>4 DEF FirstTime
      <3> QED BY <3>2, <3>3, <3>4
    <2> QED BY <1>9, <1>10, <1>11, <2>3, <2>4, <2>5, <2>6 DEF Known
  \* Or gives up on it.
  <1>16. ASSUME any, Moves(r, Through(r), Rest(r), << >>, FALSE, draining[r]) PROVE Known'
    <2>1. /\ at'[r] \in {"next", "fetch"} /\ CallsDue(r)'
          /\ Holds(r)' <=> Holds(r) /\ Current(r) # Watched
          /\ \A q \in Readers : q # r =>
                 /\ at'[q] = at[q] /\ left'[q] = left[q]
                 /\ (Holds(q)' <=> Holds(q)) /\ Current(q)' = Current(q)
      BY <1>16, ThroughIs
    <2>2. \A q \in Readers : q # r => CallsDue(q)'
      BY <1>5, <1>16, OthersPromise
    <2>3. Watched \in pel' => excused' \/ \E q \in Readers : Holds(q)'
      <3>1. CASE AtWatched(r)
        BY <1>16, <3>1
      <3>2. CASE ~AtWatched(r)
        BY <1>7, <2>1, <3>2 DEF Known, AtWatched
      <3> QED BY <3>1, <3>2
    <2>4. ASSUME Unexplained', NEW q \in Readers PROVE FirstTime(q)'
      <3>1. \A s \in Readers : Holds(s)' => Holds(s)
        BY <2>1
      <3>2. CASE q = r
        BY <1>13, <2>1, <2>4, <3>1, <3>2 DEF FirstTime
      <3>3. CASE q # r /\ Holds(q)
        BY <1>14, <2>1, <2>4, <3>1, <3>3 DEF FirstTime, Untouched
      <3>4. CASE ~Holds(q)
        BY <3>1, <3>4 DEF FirstTime
      <3> QED BY <3>2, <3>3, <3>4
    <2> QED BY <1>9, <1>10, <1>11, <2>1, <2>2, <2>3, <2>4 DEF Known
  <1>17. CASE Moves(r, "handle", batch[r], rest, any, draining[r])
    BY <1>15, <1>17
  <1>18. CASE Len(t) = 1 /\ ~any /\ Moves(r, "ack", batch[r], << >>, FALSE, draining[r])
    BY <1>3, <1>15, <1>18
  <1> QED BY <1>1, <1>16, <1>17, <1>18
LEMMA ReturnsKnown ==
    ASSUME BusTypes, Known, NEW r \in Readers, HandlerReturns(r) PROVE Known'
  <1> DEFINE h0 == Head(left[r])
  <1>1. /\ at[r] = "handle" /\ Advance(r, failed[r]) /\ draining' = draining
        /\ streamVars' = streamVars /\ due' = due /\ excused' = excused /\ shared' = shared
        /\ handled' = [handled EXCEPT ![h0] = IF AtWatched(r) THEN Again(@) ELSE @]
    BY DEF HandlerReturns
  <1>2. ReaderTypes /\ ReaderPlaces /\ HistoryTypes
    BY TypesAre
  <1>3. left[r] # << >> /\ left[r] \in Seq(Handlers) /\ failed[r] \in BOOLEAN
    BY <1>1, <1>2 DEF ReaderTypes, ReaderPlaces
  <1>4. h0 \in Handlers /\ h0 \in ToSet(left[r])
    BY <1>3, HeadAndRest
  <1> HIDE DEF h0
  <1>5. /\ \A h \in Handlers : h # h0 => handled'[h] = handled[h]
        /\ ~AtWatched(r) => handled' = handled
        /\ AtWatched(r) => handled'[h0] = Again(handled[h0])
    BY <1>1, <1>2, <1>4 DEF HistoryTypes
  <1>6. /\ \A n \in 0..2 : Again(n) > 0
        /\ Again(0) = 1
    BY DEF Again
  <1>7. handled[h0] \in 0..2
    BY <1>2, <1>4 DEF HistoryTypes
  <1>8. \A h \in Handlers : handled[h] > 0 => handled'[h] > 0
    <2> SUFFICES ASSUME NEW h \in Handlers, handled[h] > 0 PROVE handled'[h] > 0
      OBVIOUS
    <2>1. CASE h # h0 \/ ~AtWatched(r)
      BY <1>5, <2>1
    <2>2. CASE h = h0 /\ AtWatched(r)
      BY <1>5, <1>6, <1>7, <2>2
    <2> QED BY <2>1, <2>2
  <1>9. AtWatched(r) /\ failed[r] => excused'
    BY <1>1 DEF Known, CallsDue
  <1>10. AtWatched(r) /\ ~failed[r] => ~failed[r] /\ handled'[h0] > 0
    BY <1>5, <1>6, <1>7
  <1>11. ASSUME AtWatched(r), Unexplained' PROVE handled'[h0] # 2
    <2>1. FirstTime(r)
      BY <1>1, <1>11 DEF Known, Unexplained
    <2>2. handled[h0] = 0
      BY <1>1, <1>4, <1>11, <2>1 DEF FirstTime, AtWatched
    <2>3. handled'[h0] = 1
      BY <1>5, <1>6, <1>11, <2>2
    <2> QED BY <2>3
  <1> QED BY <1>1, <1>3, <1>5, <1>8, <1>9, <1>10, <1>11, HandlerKnown DEF h0

LEMMA RaisesKnown ==
    ASSUME BusTypes, Known, NEW r \in Readers, HandlerRaises(r) PROVE Known'
  <1>1. /\ at[r] = "handle" /\ Advance(r, TRUE) /\ draining' = draining
        /\ streamVars' = streamVars /\ due' = due /\ handled' = handled /\ shared' = shared
        /\ excused' = (excused \/ AtWatched(r))
    BY DEF HandlerRaises
  <1>2. Unexplained' => ~AtWatched(r)
    BY <1>1 DEF Unexplained
  <1> QED BY <1>1, <1>2, HandlerKnown

LEMMA StepKnown ==
    ASSUME BusTypes, Known, [BusNext]_busVars PROVE Known'
  <1>1. CASE UNCHANGED busVars
    <2>1. /\ delivered' = delivered /\ pel' = pel /\ at' = at /\ batch' = batch /\ left' = left
          /\ failed' = failed /\ due' = due /\ handled' = handled /\ excused' = excused /\ shared' = shared
          /\ (Acked' <=> Acked)
      BY <1>1 DEF busVars, streamVars, readerVars, historyVars, Acked
    <2> QED BY <2>1, QuietKnown
  <1>2. ASSUME NEW r \in Readers, ReaderStep(r) PROVE Known'
    BY <1>2, DrainPendingKnown, SubscribersKnown, ReadNewKnown, ReadLostKnown, DispatchKnown,
       ReturnsKnown, RaisesKnown, AckKnown DEF ReaderStep
  <1>3. CASE BusNext
    BY <1>2, <1>3, PublishKnown, SubscribersKnown, GroupReadyKnown, EndsKnown DEF BusNext
  <1> QED BY <1>1, <1>3

LEMMA BusInvariant == BusSpec => [](BusTypes /\ Known)
  <1>1. BusInit => BusTypes /\ Known
    BY InitBusTypes, InitKnown
  <1>2. BusTypes /\ Known /\ [BusNext]_busVars => (BusTypes /\ Known)'
    BY StepBusTypes, StepKnown
  <1> QED BY <1>1, <1>2, PTL DEF BusSpec

\* An acknowledgement is a promise kept: whoever had subscribed before the event, and still
\* was when it was dispatched, has handled it (_dispatch acknowledges after the last
\* handler, and not if one raised), with any number of readers, restarts and lost replies.
THEOREM AcksKept == BusSpec => []AckedIsHandled
  <1>1. BusSpec => [](BusTypes /\ Known)
    BY BusInvariant
  <1>2. BusTypes /\ Known => AckedIsHandled
    BY KnownImplies
  <1> QED BY <1>1, <1>2, PTL

\* An event handled twice, or left in the pending list with nobody at work on it, met one
\* of the mishaps the model names; subscribing and unsubscribing alone strands nothing.
THEOREM MishapsTrue == BusSpec => []MishapsExplain
  <1>1. BusSpec => [](BusTypes /\ Known)
    BY BusInvariant
  <1>2. BusTypes /\ Known => MishapsExplain
    BY KnownImplies
  <1> QED BY <1>1, <1>2, PTL
-------------------------------------------------------------------------------
(* Every batch of a relay comes to its end *)

\* The calls of run_once for one entry, from the last.
Stage(call) ==
    CASE call = "publish" -> 5 [] call = "mark" -> 4 [] call = "settle" -> 3
      [] call = "count" -> 2 [] call = "bury" -> 1 [] call = "release" -> 1
      [] call = "down" -> 0 [] call = "loop" -> 0

\* How many calls a relay makes at most until it is done with what it has claimed: the
\* check and five more for an entry it has not come to.
CallsLeft(r) == Stage(pc[r]) + 6 * Cardinality(todo[r])

\* Every call brings the batch nearer to its end, and only a relay that has none left to
\* make claims anew.
BatchesDescend ==
    [][\A r \in Relays :
         /\ Work(r) => CallsLeft(r)' < CallsLeft(r)
         /\ CallsLeft(r)' <= CallsLeft(r) \/ (CallsLeft(r) = 0 /\ Claim(r))]_vars

BatchesBounded ==
    \A r \in Relays :
        /\ IsFiniteSet(todo[r]) /\ Cardinality(todo[r]) \in Nat
        /\ CallsLeft(r) <= 6 * BatchSize

LEMMA StageIs ==
    /\ Stage("publish") = 5 /\ Stage("mark") = 4 /\ Stage("settle") = 3 /\ Stage("count") = 2
    /\ Stage("bury") = 1 /\ Stage("release") = 1 /\ Stage("down") = 0 /\ Stage("loop") = 0
  BY Zenon DEF Stage

LEMMA OldestBounded ==
    Oldest \subseteq Pending /\ IsFiniteSet(Oldest) /\ Cardinality(Oldest) \in 0..BatchSize
  <1>1. Pending \in SUBSET Nat /\ BatchSize \in Nat \ {0}
    BY OutboxAssumption DEF Pending
  <1>2. Oldest = Firsts(Pending, BatchSize)
    BY DEF Oldest, Firsts
  <1> QED BY <1>1, <1>2, FirstsAre

\* What a call does to the place of the relay that makes it.
LEMMA WorkMoves ==
    ASSUME IInv, NEW r \in Relays, Work(r)
    PROVE  /\ \A s \in Relays \ {r} : pc'[s] = pc[s] /\ todo'[s] = todo[s]
           /\ \/ /\ Stage(pc[r]) = 0 /\ Stage(pc'[r]) \in 0..5
                 /\ \E e \in todo[r] : todo'[r] = todo[r] \ {e}
              \/ /\ Stage(pc[r]) \in 1..5 /\ Stage(pc'[r]) \in 0..5
                 /\ Stage(pc'[r]) < Stage(pc[r])
                 /\ todo'[r] = todo[r] \/ todo'[r] = {}
  <1>1. pc \in [Relays -> Calls] /\ todo \in [Relays -> SUBSET Events]
    BY DEF IInv, TypeOK
  <1>2. ASSUME NEW e \in todo[r], Check(r, e) \/ CheckFails(r, e)
        PROVE  /\ \A s \in Relays \ {r} : pc'[s] = pc[s] /\ todo'[s] = todo[s]
               /\ pc[r] = "loop" /\ pc'[r] \in {"publish", "settle", "count"}
               /\ todo'[r] = todo[r] \ {e}
    BY <1>1, <1>2 DEF Check, CheckFails, AfterCheck, Goto
  <1>3. ASSUME \/ Publish(r) \/ Mark(r) \/ Settle(r) \/ CallFails(r)
               \/ Count(r) \/ Bury(r) \/ Release(r) \/ BookkeepingFails(r)
        PROVE  /\ \A s \in Relays \ {r} : pc'[s] = pc[s] /\ todo'[s] = todo[s]
               /\ todo'[r] = todo[r] \/ todo'[r] = {}
               /\ \/ pc[r] = "publish" /\ pc'[r] \in {"mark", "count"}
                  \/ pc[r] = "mark" /\ pc'[r] \in {"settle", "count"}
                  \/ pc[r] = "settle" /\ pc'[r] \in {"loop", "count"}
                  \/ pc[r] = "count" /\ pc'[r] \in {"bury", "release", "loop"}
                  \/ pc[r] \in {"bury", "release"} /\ pc'[r] = "loop"
    BY <1>1, <1>3
       DEF Publish, Mark, Settle, CallFails, Count, AfterCount, Bury, Release, BookkeepingFails,
           AbandonBatch, Desert, NextEntry, Goto
  <1>4. CASE \E e \in todo[r] : Check(r, e) \/ CheckFails(r, e)
    BY <1>2, <1>4, StageIs
  <1>5. CASE \/ Publish(r) \/ Mark(r) \/ Settle(r) \/ CallFails(r)
             \/ Count(r) \/ Bury(r) \/ Release(r) \/ BookkeepingFails(r)
    BY <1>3, <1>5, StageIs
  <1> QED BY <1>4, <1>5 DEF Work

\* What every other step does to it.
LEMMA OtherMoves ==
    ASSUME IInv, NEW r \in Relays, [Next]_vars, ~Work(r)
    PROVE  \/ pc'[r] = pc[r] /\ todo'[r] = todo[r]
           \/ pc'[r] \in {"loop", "down"} /\ todo'[r] = {}
           \/ /\ Claim(r) /\ pc[r] = "loop" /\ pc'[r] = "loop"
              /\ todo[r] = {} /\ todo'[r] = Oldest
  <1>1. pc \in [Relays -> Calls] /\ todo \in [Relays -> SUBSET Events]
    BY DEF IInv, TypeOK
  <1>2. ASSUME NEW e \in Events, Save(e) \/ DeleteMarker(e)
        PROVE  pc'[r] = pc[r] /\ todo'[r] = todo[r]
    BY <1>2 DEF Save, DeleteMarker
  <1>3. ASSUME NEW s \in Relays, s # r, RelayNext(s)
        PROVE  pc'[r] = pc[r] /\ todo'[r] = todo[r]
    <2>1. CASE Work(s)
      BY <1>3, <2>1, WorkMoves
    <2>2. CASE Start(s) \/ Stop(s) \/ Crash(s) \/ Claim(s) \/ ClaimLost(s)
      BY <1>1, <1>3, <2>2 DEF Start, Stop, Crash, Desert, Claim, ClaimLost, Goto
    <2> QED BY <1>3, <2>1, <2>2 DEF RelayNext
  <1>4. CASE Start(r) \/ Stop(r) \/ Crash(r)
    <2>1. pc[r] = "down" => todo[r] = {}
      BY DEF IInv, RelayOK
    <2> QED BY <1>1, <1>4, <2>1 DEF Start, Stop, Crash, Desert, Goto
  <1>5. CASE Claim(r)
    BY <1>1, <1>5 DEF Claim
  <1>6. CASE ClaimLost(r) \/ UNCHANGED vars
    BY <1>6 DEF ClaimLost, vars
  <1> QED BY <1>2, <1>3, <1>4, <1>5, <1>6 DEF Next, RelayNext

LEMMA StagesAre == ASSUME IInv, NEW r \in Relays PROVE Stage(pc[r]) \in 0..5
  <1>1. pc[r] \in Calls
    BY DEF IInv, TypeOK
  <1> QED BY <1>1, StageIs DEF Calls

LEMMA BatchStep ==
    ASSUME IInv, BatchesBounded, [Next]_vars, NEW r \in Relays
    PROVE  /\ IsFiniteSet(todo'[r]) /\ Cardinality(todo'[r]) \in Nat
           /\ CallsLeft(r)' <= 6 * BatchSize
           /\ Work(r) => CallsLeft(r)' < CallsLeft(r)
           /\ CallsLeft(r)' <= CallsLeft(r) \/ (CallsLeft(r) = 0 /\ Claim(r))
  <1> DEFINE k == Cardinality(todo[r])
             m == Cardinality(todo'[r])
             i == Stage(pc[r])
             j == Stage(pc'[r])
  <1>1. /\ BatchSize \in Nat /\ IsFiniteSet(todo[r]) /\ k \in Nat /\ i \in 0..5
        /\ CallsLeft(r) <= 6 * BatchSize
    BY StagesAre, OutboxAssumption DEF BatchesBounded
  <1>2. Cardinality({}) = 0 /\ IsFiniteSet({})
    BY FS_EmptySet
  <1>3. CallsLeft(r) = i + 6 * k /\ CallsLeft(r)' = j + 6 * m
    BY DEF CallsLeft
  <1>4. ASSUME IsFiniteSet(todo'[r]), m \in Nat, j \in 0..5,
               \/ m = k - 1
               \/ j < i /\ m <= k
        PROVE  CallsLeft(r)' <= 6 * BatchSize /\ CallsLeft(r)' < CallsLeft(r)
    <2> HIDE DEF k, m, i, j
    <2> QED BY <1>1, <1>3, <1>4
  <1>5. CASE Work(r)
    <2>1. CASE i = 0 /\ j \in 0..5 /\ \E e \in todo[r] : todo'[r] = todo[r] \ {e}
      <3>1. PICK e \in todo[r] : todo'[r] = todo[r] \ {e}
        BY <2>1
      <3>2. IsFiniteSet(todo'[r]) /\ m = k - 1
        BY <1>1, <3>1, FS_RemoveElement
      <3>3. m \in Nat
        BY <3>2, FS_CardinalityType
      <3>4. CallsLeft(r)' <= 6 * BatchSize /\ CallsLeft(r)' < CallsLeft(r)
        BY <1>4, <2>1, <3>2, <3>3
      <3>5. CallsLeft(r)' <= CallsLeft(r)
        BY <1>1, <1>3, <2>1, <3>3, <3>4
      <3> QED BY <3>2, <3>3, <3>4, <3>5
    <2>2. CASE i \in 1..5 /\ j \in 0..5 /\ j < i /\ (todo'[r] = todo[r] \/ todo'[r] = {})
      <3>1. IsFiniteSet(todo'[r]) /\ m \in Nat /\ m <= k
        BY <1>1, <1>2, <2>2
      <3>2. CallsLeft(r)' <= 6 * BatchSize /\ CallsLeft(r)' < CallsLeft(r)
        BY <1>4, <2>2, <3>1
      <3>3. CallsLeft(r)' <= CallsLeft(r)
        BY <1>1, <1>3, <2>2, <3>1, <3>2
      <3> QED BY <3>1, <3>2, <3>3
    <2> QED BY <1>5, <2>1, <2>2, WorkMoves
  <1>6. CASE ~Work(r)
    <2>1. CASE pc'[r] = pc[r] /\ todo'[r] = todo[r]
      BY <1>1, <1>3, <1>6, <2>1
    <2>2. CASE pc'[r] \in {"loop", "down"} /\ todo'[r] = {}
      <3>1. j = 0 /\ m = 0 /\ IsFiniteSet(todo'[r])
        BY <1>2, <2>2, StageIs
      <3> HIDE DEF k, m, i, j
      <3>2. CallsLeft(r)' = 0 /\ 0 <= CallsLeft(r) /\ 0 <= 6 * BatchSize
        BY <1>1, <1>3, <3>1
      <3> QED BY <1>6, <3>1, <3>2 DEF m
    <2>3. CASE /\ Claim(r) /\ pc[r] = "loop" /\ pc'[r] = "loop"
               /\ todo[r] = {} /\ todo'[r] = Oldest
      <3>1. i = 0 /\ j = 0 /\ k = 0 /\ IsFiniteSet(todo'[r]) /\ m \in 0..BatchSize
        BY <1>2, <2>3, StageIs, OldestBounded
      <3>2. m \in Nat
        BY <3>1, <1>1
      <3> HIDE DEF k, m, i, j
      <3>3. CallsLeft(r) = 0 /\ CallsLeft(r)' <= 6 * BatchSize
        BY <1>1, <1>3, <3>1
      <3> QED BY <1>6, <2>3, <3>1, <3>2, <3>3 DEF m
    <2> QED BY <1>6, <2>1, <2>2, <2>3, OtherMoves
  <1> QED BY <1>5, <1>6

\* However calls fail, a relay is through with a claim after at most six calls for each of
\* its rows, of which there are never more than batch_size, and asks for new rows only then
\* (the for loop of run_once, and the LIMIT of _CLAIM_PENDING).
THEOREM BatchesEnd ==
    Spec => [](\A r \in Relays : CallsLeft(r) \in 0..6 * BatchSize) /\ BatchesDescend
  <1>1. Init => BatchesBounded
    <2> SUFFICES ASSUME Init, NEW r \in Relays
                 PROVE  /\ IsFiniteSet(todo[r]) /\ Cardinality(todo[r]) \in Nat
                        /\ CallsLeft(r) <= 6 * BatchSize
      BY DEF BatchesBounded
    <2>1. pc[r] = "down" /\ todo[r] = {}
      BY DEF Init
    <2>2. Stage(pc[r]) = 0 /\ IsFiniteSet(todo[r]) /\ Cardinality(todo[r]) = 0
      BY <2>1, StageIs, FS_EmptySet
    <2> QED BY <2>2, OutboxAssumption DEF CallsLeft
  <1>2. IInv /\ BatchesBounded /\ [Next]_vars => BatchesBounded'
    BY BatchStep DEF BatchesBounded
  <1>3. IInv /\ BatchesBounded => \A r \in Relays : CallsLeft(r) \in 0..6 * BatchSize
    BY StagesAre, OutboxAssumption DEF BatchesBounded, CallsLeft
  <1>4. IInv /\ BatchesBounded /\ [Next]_vars =>
          [\A r \in Relays :
             /\ Work(r) => CallsLeft(r)' < CallsLeft(r)
             /\ CallsLeft(r)' <= CallsLeft(r) \/ (CallsLeft(r) = 0 /\ Claim(r))]_vars
    BY BatchStep
  <1> QED BY Inductive, <1>1, <1>2, <1>3, <1>4, PTL DEF Spec, BatchesDescend

CopiesAreBounded ==
    \A e \in Events :
        /\ stream[e] <= MaxRetries
        /\ status[e] = "dlq" => retries[e] = MaxRetries

\* An event is on the stream max_retries times at most, once for an attempt, however often
\* a publish that went through is taken for a failure, and a row is given up only when it
\* has used all its attempts (run_once counts before it publishes again).
THEOREM CopiesBounded == Spec => []CopiesAreBounded
  <1>1. Init => CopiesAreBounded
    BY OutboxAssumption DEF Init, CopiesAreBounded
  <1>2. ASSUME IInv, CopiesAreBounded, [Next]_vars PROVE CopiesAreBounded'
    <2>1. TypeOK /\ MaxRetries \in Nat
      BY <1>2, OutboxAssumption DEF IInv
    <2>2. ASSUME NEW r \in Relays, Publish(r) PROVE CopiesAreBounded'
      <3>1. /\ entry[r] \in Events /\ stream[entry[r]] <= retries[entry[r]]
            /\ retries[entry[r]] < MaxRetries
        BY <1>2, <2>2, EntryKnown DEF Publish, EntryOK
      <3> QED BY <1>2, <2>1, <2>2, <3>1 DEF Publish, CopiesAreBounded, TypeOK
    <2>3. ASSUME NEW r \in Relays, Count(r) PROVE CopiesAreBounded'
      <3>1. entry[r] \in Events /\ status[entry[r]] # "dlq"
        BY <1>2, <2>3, EntryKnown DEF Count, EntryOK
      <3> QED BY <1>2, <2>1, <2>3, <3>1 DEF Count, CopiesAreBounded, TypeOK
    <2>4. ASSUME NEW r \in Relays, Bury(r) PROVE CopiesAreBounded'
      <3>1. entry[r] \in Events /\ retries[entry[r]] = MaxRetries
        BY <1>2, <2>4, EntryKnown DEF Bury, EntryOK
      <3> QED BY <1>2, <2>1, <2>4, <3>1 DEF Bury, CopiesAreBounded, TypeOK
    <2>5. CASE /\ UNCHANGED <<retries, stream>>
               /\ \A e \in Events : status'[e] = "dlq" => status[e] = "dlq"
      BY <1>2, <2>5 DEF CopiesAreBounded
    <2>6. ASSUME NEW r \in Relays, Settle(r) \/ Release(r) PROVE CopiesAreBounded'
      BY <2>1, <2>5, <2>6 DEF Settle, Release, Reopened, TypeOK
    <2>7. ASSUME NEW r \in Relays, Claim(r) \/ ClaimLost(r) PROVE CopiesAreBounded'
      BY <2>1, <2>5, <2>7 DEF Claim, ClaimLost, Claimed, TypeOK
    <2>8. ASSUME NEW e \in Events, Save(e) PROVE CopiesAreBounded'
      BY <2>1, <2>5, <2>8 DEF Save, TypeOK
    <2>9. CASE UNCHANGED <<status, retries, stream>>
      BY <2>5, <2>9
    <2> QED BY <1>2, <2>2, <2>3, <2>4, <2>6, <2>7, <2>8, <2>9
            DEF Next, RelayNext, Work, vars, tables, DeleteMarker, Start, Stop, Crash, Desert, Check,
                CheckFails, Mark, CallFails, BookkeepingFails
  <1> QED BY Inductive, <1>1, <1>2, PTL DEF Spec
-------------------------------------------------------------------------------
(* Every reply of the bus is worked off *)

\* A handler is called for an entry as often as it is registered; the dispatch and the
\* acknowledgement are a step each.
PerEntry == MaxRegistered + 2

CallsOf(p, b, t) ==
    IF b = {} THEN 0
    ELSE (Cardinality(b) - 1) * PerEntry + IF p = "next" THEN PerEntry ELSE Len(t) + 1

\* How many steps a reader has at most until it is through with the reply it was given.
ReplyLeft(r) == CallsOf(at[r], batch[r], left[r])

HandlesEntry(r) ==
    Dispatch(r) \/ HandlerReturns(r) \/ HandlerRaises(r) \/ Ack(r) \/ AckFails(r)

\* Each step with an entry brings the reply nearer to its end, and only a reader that has
\* none left is given another.
RepliesDescend ==
    [][\A r \in Readers :
         /\ HandlesEntry(r) => ReplyLeft(r)' < ReplyLeft(r)
         /\ \/ ReplyLeft(r)' <= ReplyLeft(r)
            \/ ReplyLeft(r) = 0 /\ (DrainPending(r) \/ ReadNew(r))]_busVars

RepliesBounded == \A r \in Readers : ReplyLeft(r) <= ReplySize * PerEntry

LEMMA Products ==
    \A k, n, c \in Nat :
        /\ k * c \in Nat
        /\ k <= n => k * c <= n * c
        /\ k > 0 => (k - 1) * c = k * c - c /\ (k - 1) * c \in Nat
  OBVIOUS

LEMMA PerEntryIs == PerEntry \in Nat /\ PerEntry = MaxRegistered + 2 /\ MaxRegistered \in Nat
  BY BusConstants DEF PerEntry

\* A finite batch with something in it.
LEMMA CountIs ==
    ASSUME NEW b, IsFiniteSet(b)
    PROVE  Cardinality(b) \in Nat /\ (b # {} => Cardinality(b) > 0)
  BY FS_CardinalityType, FS_EmptySet

LEMMA RestCount ==
    ASSUME BusTypes, NEW r \in Readers, batch[r] # {}
    PROVE  /\ IsFiniteSet(Rest(r)) /\ Cardinality(batch[r]) \in Nat \ {0}
           /\ Cardinality(Rest(r)) = Cardinality(batch[r]) - 1
  <1>1. IsFiniteSet(batch[r]) /\ batch[r] \in SUBSET Nat
    BY BatchIs
  <1>2. Current(r) \in batch[r]
    BY <1>1, OldestIs, Zenon DEF Current
  <1> QED BY <1>1, <1>2, CountIs, FS_RemoveElement, FS_CardinalityType DEF Rest

\* On to the next entry, or to the next request.
LEMMA ThroughLeft ==
    ASSUME BusTypes, NEW r \in Readers, batch[r] # {}, at[r] # "next"
    PROVE  CallsOf(Through(r), Rest(r), << >>) < ReplyLeft(r)
  <1> DEFINE k == Cardinality(batch[r])
             n == Len(left[r])
  <1>1. /\ IsFiniteSet(Rest(r)) /\ k \in Nat \ {0} /\ Cardinality(Rest(r)) = k - 1
    BY RestCount
  <1>2. n \in Nat
    <2>1. left[r] \in Seq(Handlers)
      BY DEF BusTypes, BusTypeOK
    <2> QED BY <2>1, LenProperties
  <1>3. ReplyLeft(r) = (k - 1) * PerEntry + (n + 1)
    BY DEF ReplyLeft, CallsOf
  <1>4. CASE Rest(r) = {}
    <2>1. CallsOf(Through(r), Rest(r), << >>) = 0
      BY <1>4 DEF CallsOf
    <2>2. (k - 1) * PerEntry \in Nat
      BY <1>1, PerEntryIs, Products
    <2> HIDE DEF k, n
    <2> QED BY <1>2, <1>3, <2>1, <2>2
  <1>5. CASE Rest(r) # {}
    <2>1. CallsOf(Through(r), Rest(r), << >>) = (k - 1 - 1) * PerEntry + PerEntry
      BY <1>1, <1>5 DEF CallsOf, Through
    <2>2. k - 1 \in Nat /\ k - 1 > 0
      BY <1>1, <1>5, CountIs
    <2>3. (k - 1 - 1) * PerEntry = (k - 1) * PerEntry - PerEntry /\ (k - 1) * PerEntry \in Nat
      BY <2>2, PerEntryIs, Products
    <2> HIDE DEF k, n
    <2> QED BY <1>2, <1>3, <2>1, <2>3, PerEntryIs
  <1> QED BY <1>4, <1>5

LEMMA MovedLeft ==
    ASSUME BusTypes, NEW r \in Readers, NEW p, NEW b, NEW t, NEW f, NEW d, Moves(r, p, b, t, f, d)
    PROVE  /\ ReplyLeft(r)' = CallsOf(p, b, t)
           /\ \A q \in Readers \ {r} : at'[q] = at[q] /\ batch'[q] = batch[q] /\ left'[q] = left[q]
  <1>1. ReaderTypes
    BY TypesAre
  <1>2. /\ at'[r] = p /\ batch'[r] = b /\ left'[r] = t
        /\ \A q \in Readers \ {r} : at'[q] = at[q] /\ batch'[q] = batch[q] /\ left'[q] = left[q]
    BY <1>1 DEF ReaderTypes, Moves
  <1> QED BY <1>2 DEF ReplyLeft, CallsOf

LEMMA DispatchLeft ==
    ASSUME BusTypes, NEW r \in Readers, Dispatch(r)
    PROVE  /\ ReplyLeft(r)' < ReplyLeft(r)
           /\ \A q \in Readers \ {r} : at'[q] = at[q] /\ batch'[q] = batch[q] /\ left'[q] = left[q]
  <1> DEFINE k == Cardinality(batch[r])
             n == Len(Recipients)
  <1>1. at[r] = "next" /\ batch[r] # {}
    BY TypesAre, DispatchIs DEF ReaderPlaces
  <1>2. k \in Nat \ {0} /\ (k - 1) * PerEntry \in Nat
    <2>1. k \in Nat \ {0}
      BY <1>1, RestCount
    <2> HIDE DEF k
    <2> QED BY <2>1, PerEntryIs, Products
  <1>3. n \in Nat /\ n <= MaxRegistered /\ (Recipients = << >> => n = 0)
    <2>1. /\ handlers \in Seq(Handlers) /\ wildcards \in Seq(Handlers) /\ BusTypeOK
      BY ListsAre DEF BusTypes
    <2>2. Len(handlers \o wildcards) = Len(handlers) + Len(wildcards)
      BY <2>1, ConcatProperties
    <2>3. Len(handlers) \in Nat /\ Len(wildcards) \in Nat
      BY <2>1, ListsAre
    <2> QED BY <2>1, <2>2, <2>3, PerEntryIs DEF Recipients, BusTypeOK
  <1>4. ReplyLeft(r) = (k - 1) * PerEntry + PerEntry
    BY <1>1 DEF ReplyLeft, CallsOf
  <1>5. PICK p, t : /\ Moves(r, p, batch[r], t, failed[r], draining[r])
                    /\ p \in {"ack", "handle"} /\ t = Recipients
    BY DispatchIs
  <1>6. ReplyLeft(r)' = (k - 1) * PerEntry + (n + 1)
    BY <1>1, <1>5, MovedLeft DEF CallsOf
  <1>7. \A q \in Readers \ {r} : at'[q] = at[q] /\ batch'[q] = batch[q] /\ left'[q] = left[q]
    BY <1>5, MovedLeft
  <1> HIDE DEF k, n
  <1>8. ReplyLeft(r)' < ReplyLeft(r)
    BY <1>2, <1>3, <1>4, <1>6, PerEntryIs
  <1> QED BY <1>7, <1>8

LEMMA HandlerLeft ==
    ASSUME BusTypes, NEW r \in Readers, HandlerReturns(r) \/ HandlerRaises(r)
    PROVE  /\ ReplyLeft(r)' < ReplyLeft(r)
           /\ \A q \in Readers \ {r} : at'[q] = at[q] /\ batch'[q] = batch[q] /\ left'[q] = left[q]
  <1> DEFINE k == Cardinality(batch[r])
             n == Len(left[r])
  <1>1. at[r] = "handle" /\ batch[r] # {} /\ failed[r] \in BOOLEAN
    BY TypesAre DEF HandlerReturns, HandlerRaises, ReaderPlaces, ReaderTypes
  <1>2. PICK any \in BOOLEAN : Advance(r, any) /\ draining' = draining
    BY <1>1 DEF HandlerReturns, HandlerRaises
  <1>3. k \in Nat \ {0} /\ (k - 1) * PerEntry \in Nat
    <2>1. k \in Nat \ {0}
      BY <1>1, RestCount
    <2> HIDE DEF k
    <2> QED BY <2>1, PerEntryIs, Products
  <1>4. ReplyLeft(r) = (k - 1) * PerEntry + (n + 1)
    BY <1>1 DEF ReplyLeft, CallsOf
  <1>5. left[r] # << >> /\ left[r] \in Seq(Handlers) /\ n \in Nat \ {0}
    <2>1. left[r] # << >> /\ left[r] \in Seq(Handlers)
      BY <1>1, <1>2, AdvanceIs
    <2> QED BY <2>1, HeadAndRest
  <1>6. CASE n > 1 /\ Moves(r, "handle", batch[r], Tail(left[r]), any, draining[r])
    <2>1. Len(Tail(left[r])) = n - 1
      BY <1>5, HeadTailProperties
    <2>2. /\ ReplyLeft(r)' = CallsOf("handle", batch[r], Tail(left[r]))
          /\ \A q \in Readers \ {r} : at'[q] = at[q] /\ batch'[q] = batch[q] /\ left'[q] = left[q]
      BY <1>6, MovedLeft
    <2>3. ReplyLeft(r)' = (k - 1) * PerEntry + (n - 1 + 1)
      BY <1>1, <2>1, <2>2 DEF CallsOf
    <2> HIDE DEF k, n
    <2>4. ReplyLeft(r)' < ReplyLeft(r)
      BY <1>3, <1>4, <1>5, <2>3
    <2> QED BY <2>2, <2>4
  <1>7. CASE Moves(r, "ack", batch[r], << >>, FALSE, draining[r])
    <2>1. /\ ReplyLeft(r)' = CallsOf("ack", batch[r], << >>)
          /\ \A q \in Readers \ {r} : at'[q] = at[q] /\ batch'[q] = batch[q] /\ left'[q] = left[q]
      BY <1>7, MovedLeft
    <2>2. ReplyLeft(r)' = (k - 1) * PerEntry + (0 + 1)
      BY <1>1, <2>1 DEF CallsOf
    <2> HIDE DEF k, n
    <2>3. ReplyLeft(r)' < ReplyLeft(r)
      BY <1>3, <1>4, <1>5, <2>2
    <2> QED BY <2>1, <2>3
  <1>8. CASE Moves(r, Through(r), Rest(r), << >>, FALSE, draining[r])
    BY <1>1, <1>8, MovedLeft, ThroughLeft
  <1> QED BY <1>1, <1>2, <1>6, <1>7, <1>8, AdvanceIs

LEMMA AckLeft ==
    ASSUME BusTypes, NEW r \in Readers, Ack(r) \/ AckFails(r)
    PROVE  /\ ReplyLeft(r)' < ReplyLeft(r)
           /\ \A q \in Readers \ {r} : at'[q] = at[q] /\ batch'[q] = batch[q] /\ left'[q] = left[q]
  <1>1. at[r] = "ack" /\ Moves(r, Through(r), Rest(r), << >>, FALSE, draining[r])
    BY AckIs
  <1>2. batch[r] # {}
    BY <1>1, TypesAre DEF ReaderPlaces
  <1> QED BY <1>1, <1>2, MovedLeft, ThroughLeft

LEMMA HandlesLeft ==
    ASSUME BusTypes, NEW r \in Readers, HandlesEntry(r)
    PROVE  /\ ReplyLeft(r)' < ReplyLeft(r)
           /\ \A q \in Readers \ {r} : at'[q] = at[q] /\ batch'[q] = batch[q] /\ left'[q] = left[q]
  BY DispatchLeft, HandlerLeft, AckLeft DEF HandlesEntry

\* A reply that is given to a reader at its request.
LEMMA GivenLeft ==
    ASSUME BusTypes, NEW r \in Readers, DrainPending(r) \/ ReadNew(r)
    PROVE  /\ ReplyLeft(r) = 0 /\ ReplyLeft(r)' <= ReplySize * PerEntry
           /\ \A q \in Readers \ {r} : at'[q] = at[q] /\ batch'[q] = batch[q] /\ left'[q] = left[q]
  <1>1. ReaderTypes /\ ReaderPlaces /\ StreamTypes
    BY TypesAre
  <1>2. at[r] = "fetch" /\ batch[r] = {} /\ ReplyLeft(r) = 0
    BY <1>1 DEF DrainPending, ReadNew, ReaderPlaces, ReplyLeft, CallsOf
  <1>3. PICK b : /\ IsFiniteSet(b) /\ b # {} /\ Cardinality(b) <= ReplySize
                 /\ at' = [at EXCEPT ![r] = "next"] /\ batch' = [batch EXCEPT ![r] = b]
                 /\ left' = left
    <2>1. CASE DrainPending(r)
      <3>1. IsFiniteSet(pel) /\ FirstOf(pel) \in SUBSET pel
        BY <2>1, PelIs, DrainPendingIs DEF BusTypes
      <3>2. IsFiniteSet(FirstOf(pel)) /\ Placed("next", FirstOf(pel), left[r], failed[r])
        BY <2>1, <3>1, DrainPendingIs, FS_Subset
      <3> QED BY <2>1, <3>2 DEF DrainPending, Placed
    <2>2. CASE ReadNew(r)
      <3>1. /\ NewEntries = delivered + 1..delivered' /\ delivered' \in delivered + 1..published
            /\ NewEntries # {} /\ Cardinality(NewEntries) <= ReplySize
        BY <2>2, ReadNewIs DEF ReadNew
      <3>2. IsFiniteSet(NewEntries)
        BY <1>1, <3>1, FS_Interval DEF StreamTypes
      <3> QED BY <2>2, <3>1, <3>2 DEF ReadNew
    <2> QED BY <2>1, <2>2
  <1>4. /\ at'[r] = "next" /\ batch'[r] = b
        /\ \A q \in Readers \ {r} : at'[q] = at[q] /\ batch'[q] = batch[q] /\ left'[q] = left[q]
    BY <1>1, <1>3 DEF ReaderTypes
  <1> DEFINE k == Cardinality(b)
  <1>5. k \in Nat /\ k > 0 /\ k <= ReplySize
    BY <1>3, CountIs
  <1>6. ReplyLeft(r)' = (k - 1) * PerEntry + PerEntry
    BY <1>3, <1>4 DEF ReplyLeft, CallsOf
  <1> HIDE DEF k
  <1>7. k * PerEntry <= ReplySize * PerEntry /\ (k - 1) * PerEntry = k * PerEntry - PerEntry
    BY <1>5, PerEntryIs, Products, BusConstants
  <1>8. k * PerEntry \in Nat /\ PerEntry \in Nat
    BY <1>5, PerEntryIs, Products
  <1>9. ReplyLeft(r)' <= ReplySize * PerEntry
    BY <1>6, <1>7, <1>8
  <1> QED BY <1>2, <1>4, <1>9

\* Every other step leaves a reader with what it has, or takes all of it away.
LEMMA OthersLeft ==
    ASSUME BusTypes, [BusNext]_busVars, NEW r \in Readers,
           ~HandlesEntry(r), ~DrainPending(r), ~ReadNew(r)
    PROVE  \/ at'[r] = at[r] /\ batch'[r] = batch[r] /\ left'[r] = left[r]
           \/ batch'[r] = {}
  <1>1. ReaderTypes /\ ReaderPlaces
    BY TypesAre
  <1>2. CASE \/ PublishEvent \/ GroupFails \/ UNCHANGED busVars
             \/ \E h \in Handlers : Subscribe(h) \/ SubscribeAll(h) \/ UnsubscribeAll(h)
    BY <1>2 DEF PublishEvent, GroupFails, Subscribe, SubscribeAll, UnsubscribeAll, readerVars, busVars
  <1>3. CASE StartReaders
    <2>1. batch' = batch /\ left' = left /\ (at'[r] = at[r] \/ at[r] \in {"queued", "cancelled"})
      BY <1>1, <1>3, Zenon DEF StartReaders
    <2> QED BY <1>1, <2>1 DEF ReaderPlaces
  <1>4. ASSUME NEW q \in Readers, GroupReady(q)
        PROVE  \/ at'[r] = at[r] /\ batch'[r] = batch[r] /\ left'[r] = left[r]
               \/ batch'[r] = {}
    <2>1. batch' = batch /\ left' = left /\ at[q] = "none"
      BY <1>4 DEF GroupReady, NewReader
    <2>2. at'[r] = at[r] \/ r = q
      BY <1>1, <1>4 DEF GroupReady, ReaderTypes
    <2> QED BY <1>1, <2>1, <2>2 DEF ReaderPlaces
  <1>5. ASSUME NEW rs, NEW point, StopReaders(rs, point)
        PROVE  \/ at'[r] = at[r] /\ batch'[r] = batch[r] /\ left'[r] = left[r]
               \/ batch'[r] = {}
    BY <1>5 DEF StopReaders
  <1>6. ASSUME NEW h \in Handlers, Unsubscribe(h)
        PROVE  \/ at'[r] = at[r] /\ batch'[r] = batch[r] /\ left'[r] = left[r]
               \/ batch'[r] = {}
    BY <1>5, <1>6 DEF Unsubscribe, readerVars
  <1>7. CASE CrashProcess
    BY <1>5, <1>7 DEF CrashProcess
  <1>8. ASSUME NEW q \in Readers, ReaderStep(q)
        PROVE  at'[r] = at[r] /\ batch'[r] = batch[r] /\ left'[r] = left[r]
    <2>1. CASE Drained(q) \/ ReadLost(q)
      BY <2>1 DEF Drained, ReadLost, readerVars
    <2>2. CASE HandlesEntry(q)
      BY <2>2, HandlesLeft
    <2>3. CASE DrainPending(q) \/ ReadNew(q)
      BY <2>3, GivenLeft
    <2> QED BY <1>8, <2>1, <2>2, <2>3 DEF ReaderStep, HandlesEntry
  <1> QED BY <1>2, <1>3, <1>4, <1>6, <1>7, <1>8 DEF BusNext

LEMMA ReplyIsNat == ASSUME BusTypes, NEW r \in Readers PROVE ReplyLeft(r) \in Nat
  <1>1. CASE batch[r] = {}
    BY <1>1 DEF ReplyLeft, CallsOf
  <1>2. CASE batch[r] # {}
    <2> DEFINE k == Cardinality(batch[r])
               n == Len(left[r])
    <2>1. k \in Nat \ {0}
      BY <1>2, RestCount
    <2>2. n \in Nat
      <3>1. left[r] \in Seq(Handlers)
        BY DEF BusTypes, BusTypeOK
      <3> QED BY <3>1, LenProperties
    <2>3. ReplyLeft(r) = (k - 1) * PerEntry + IF at[r] = "next" THEN PerEntry ELSE n + 1
      BY <1>2 DEF ReplyLeft, CallsOf
    <2> HIDE DEF k, n
    <2>4. (k - 1) * PerEntry \in Nat
      BY <2>1, PerEntryIs, Products
    <2> QED BY <2>2, <2>3, <2>4, PerEntryIs
  <1> QED BY <1>1, <1>2

LEMMA RepliesAreNat == BusTypes' => \A r \in Readers : ReplyLeft(r)' \in Nat
  <1>1. BusTypes => \A r \in Readers : ReplyLeft(r) \in Nat
    BY ReplyIsNat
  <1>2. BusTypes' => (\A r \in Readers : ReplyLeft(r) \in Nat)'
    BY <1>1, PTL
  <1> QED BY <1>2

LEMMA ReplyStep ==
    ASSUME BusTypes, RepliesBounded, [BusNext]_busVars, NEW r \in Readers, BusTypes'
    PROVE  /\ ReplyLeft(r)' <= ReplySize * PerEntry
           /\ HandlesEntry(r) => ReplyLeft(r)' < ReplyLeft(r)
           /\ \/ ReplyLeft(r)' <= ReplyLeft(r)
              \/ ReplyLeft(r) = 0 /\ (DrainPending(r) \/ ReadNew(r))
  <1> DEFINE x == ReplyLeft(r)
             y == ReplyLeft(r)'
             most == ReplySize * PerEntry
  <1>1. x \in Nat /\ x <= most /\ most \in Nat /\ y \in Nat
    <2>1. y \in Nat
      BY RepliesAreNat
    <2>2. ReplySize * PerEntry \in Nat
      BY Products, BusConstants, PerEntryIs
    <2> QED BY <2>1, <2>2, ReplyIsNat DEF RepliesBounded
  <1>2. CASE HandlesEntry(r)
    <2>1. y < x
      BY <1>2, HandlesLeft
    <2> HIDE DEF x, y, most
    <2>2. y <= x /\ y <= most
      BY <1>1, <2>1
    <2> QED BY <2>1, <2>2 DEF x, y, most
  <1>3. CASE ~HandlesEntry(r) /\ (DrainPending(r) \/ ReadNew(r))
    BY <1>3, GivenLeft
  <1>4. CASE ~HandlesEntry(r) /\ ~DrainPending(r) /\ ~ReadNew(r)
    <2>1. y = x \/ y = 0
      BY <1>4, OthersLeft DEF ReplyLeft, CallsOf
    <2> HIDE DEF x, y, most
    <2>2. y <= x /\ y <= most
      BY <1>1, <2>1
    <2> QED BY <1>4, <2>2 DEF x, y, most
  <1> QED BY <1>2, <1>3, <1>4

\* Whatever handlers and Redis do, a reader is through with a reply after as many steps as
\* its entries and the registered handlers explain, and asks for entries only then: no
\* entry of a reply is dispatched twice by one reader, and the two loops over messages and
\* handlers (_process_messages, _dispatch) end.
THEOREM RepliesEnd ==
    BusSpec => [](\A r \in Readers : ReplyLeft(r) \in 0..ReplySize * PerEntry) /\ RepliesDescend
  <1>1. BusInit => RepliesBounded
    <2> SUFFICES ASSUME BusInit, NEW r \in Readers PROVE ReplyLeft(r) <= ReplySize * PerEntry
      BY DEF RepliesBounded
    <2>1. ReplyLeft(r) = 0
      BY DEF BusInit, ReplyLeft, CallsOf
    <2>2. ReplySize * PerEntry \in Nat
      BY BusConstants, PerEntryIs, Products
    <2> QED BY <2>1, <2>2
  <1>2. BusTypes /\ BusTypes' /\ RepliesBounded /\ [BusNext]_busVars => RepliesBounded'
    BY ReplyStep DEF RepliesBounded, PerEntry
  <1>3. BusTypes /\ RepliesBounded => \A r \in Readers : ReplyLeft(r) \in 0..ReplySize * PerEntry
    BY ReplyIsNat DEF RepliesBounded
  <1>4. BusTypes /\ BusTypes' /\ RepliesBounded /\ [BusNext]_busVars =>
          [\A r \in Readers :
             /\ HandlesEntry(r) => ReplyLeft(r)' < ReplyLeft(r)
             /\ \/ ReplyLeft(r)' <= ReplyLeft(r)
                \/ ReplyLeft(r) = 0 /\ (DrainPending(r) \/ ReadNew(r))]_busVars
    BY ReplyStep
  <1>5. BusSpec => []BusTypes
    BY BusInvariant, PTL
  <1> QED BY <1>1, <1>2, <1>3, <1>4, <1>5, PTL DEF BusSpec, RepliesDescend
===============================================================================
