----------------------------- MODULE RedisStreamsBus -----------------------------
(***************************************************************************)
(* RedisStreamsEventBus for one event type: the stream and its consumer    *)
(* group in Redis, and one process that subscribes, reads and dispatches,  *)
(* and may die and come back under the same consumer name.  Entries are    *)
(* numbered in the order of XADD.  Handlers of the wildcard "*" share the  *)
(* dispatch; the reader of their own stream, on which nobody publishes, is *)
(* left out.  An await lets every other coroutine in.                      *)
(***************************************************************************)
EXTENDS Naturals, Sequences, FiniteSets, SequencesExt, FiniteSetsExt

CONSTANTS
    MaxEntries,     \* bound: how often publish is called
    Watched,        \* the entry, any one, that the properties are about
    Handlers,       \* handlers that may subscribe to the event type
    Wildcards,      \* those of them that subscribe to "*"
    MaxRegistered,  \* bound: length of the handler lists
    Readers,        \* bound: reader tasks alive or queued at one time
    NoReader,
    ReplySize       \* count of XREADGROUP

ASSUME BusAssumption ==
    /\ MaxEntries \in Nat /\ MaxRegistered \in Nat
    /\ Watched \in 1..MaxEntries
    /\ Wildcards \subseteq Handlers
    /\ NoReader \notin Readers /\ IsFiniteSet(Readers)
    /\ ReplySize \in Nat \ {0}

VARIABLES
    published,   \* entries on the stream
    group,       \* entry after which the consumer group starts, 0 for the stream's head
    hasGroup,    \* XGROUP CREATE was done
    delivered,   \* last-delivered-id of the group
    pel,         \* pending entries list of the one consumer
    handlers,    \* _handlers[event_type]
    wildcards,   \* _handlers["*"]
    joining,     \* subscribe calls suspended in _ensure_consumer_group
    started,     \* _task_group is set
    scope,       \* the reader whose scope is in _reader_scopes[event_type]
    at,          \* where each reader task is suspended
    draining,    \* the reader is still in _drain_pending
    batch,       \* entries of the last reply that are not finished; the oldest is next
    left,        \* handlers of the current entry that have not returned
    failed,      \* any_failed of the current entry
    due,         \* history of Watched: handlers that subscribed before it and still are
    handled,     \* history of Watched: once or, unexplained, twice a handler returned
    excused,     \* history of Watched: it met a reason to stay pending or to come again
    shared       \* history of Watched: two readers were given it at the same time

streamVars == <<published, group, hasGroup, delivered, pel>>
subscriberVars == <<handlers, wildcards, joining, started, scope>>
readerVars == <<at, draining, batch, left, failed>>
historyVars == <<due, handled, excused, shared>>
busVars == <<streamVars, subscriberVars, readerVars, historyVars>>

\* "queued": in _pending_readers; "cancelled": queued, and its scope is cancelled.
Points == {"none", "queued", "cancelled", "fetch", "next", "handle", "ack"}
Alive(r) == at[r] \in {"fetch", "next", "handle", "ack"}
Current(r) == Min(batch[r])
Holds(r) == Watched \in batch[r]
AtWatched(r) == Holds(r) /\ Current(r) = Watched
Acked == group < Watched /\ Watched <= delivered /\ Watched \notin pel
Registered == ToSet(handlers) \cup ToSet(wildcards)

BusTypeOK ==
    /\ published \in 0..MaxEntries
    /\ hasGroup \in BOOLEAN
    /\ group \in 0..published
    /\ delivered \in group..published
    /\ pel \subseteq (group + 1)..delivered
    /\ handlers \in Seq(Handlers \ Wildcards) /\ wildcards \in Seq(Wildcards)
    /\ Len(handlers) + Len(wildcards) <= MaxRegistered
    /\ joining \in 0..Cardinality(Readers)
    /\ started \in BOOLEAN
    /\ at \in [Readers -> Points]
    /\ scope \in {r \in Readers : at[r] \notin {"none", "cancelled"}} \cup {NoReader}
    /\ draining \in [Readers -> BOOLEAN] /\ failed \in [Readers -> BOOLEAN]
    /\ batch \in [Readers -> SUBSET ((group + 1)..delivered)]
    /\ left \in [Readers -> Seq(Handlers)]
    /\ \A r \in Readers :
        /\ Cardinality(batch[r]) <= ReplySize
        /\ at[r] \in {"next", "handle", "ack"} <=> batch[r] # {}
        /\ left[r] # << >> <=> at[r] = "handle"
    /\ due \subseteq Handlers
    /\ handled \in [Handlers -> 0..2]
    /\ excused \in BOOLEAN /\ shared \in BOOLEAN

BusInit ==
    /\ published = 0 /\ group = 0 /\ hasGroup = FALSE /\ delivered = 0 /\ pel = {}
    /\ handlers = << >> /\ wildcards = << >> /\ joining = 0
    /\ started = FALSE /\ scope = NoReader
    /\ at = [r \in Readers |-> "none"]
    /\ draining = [r \in Readers |-> FALSE]
    /\ batch = [r \in Readers |-> {}]
    /\ left = [r \in Readers |-> << >>]
    /\ failed = [r \in Readers |-> FALSE]
    /\ due = {}
    /\ handled = [h \in Handlers |-> 0]
    /\ excused = FALSE /\ shared = FALSE

-------------------------------------------------------------------------------
(* Publishers and subscribers *)

\* XADD, by this process or another one.
PublishEvent ==
    /\ published < MaxEntries
    /\ published' = published + 1
    /\ due' = IF published + 1 = Watched THEN Registered ELSE due
    /\ UNCHANGED <<group, hasGroup, delivered, pel, subscriberVars, readerVars,
                   handled, excused, shared>>

HasRoom == Len(handlers) + Len(wildcards) < MaxRegistered /\ joining < Cardinality(Readers)

\* The handler is in the list before the group is known to exist.
Subscribe(h) ==
    /\ HasRoom
    /\ h \notin Wildcards
    /\ handlers' = Append(handlers, h)
    /\ joining' = IF scope = NoReader THEN joining + 1 ELSE joining
    /\ UNCHANGED <<streamVars, wildcards, started, scope, readerVars, historyVars>>

SubscribeAll(h) ==
    /\ HasRoom
    /\ h \in Wildcards
    /\ wildcards' = Append(wildcards, h)
    /\ UNCHANGED <<streamVars, handlers, joining, started, scope, readerVars, historyVars>>

\* Reader tasks have no names of their own; any free one will do.
NewReader == CHOOSE r \in Readers : at[r] = "none"

\* XGROUP CREATE at "$", or BUSYGROUP; then a reader is queued or spawned, and its scope
\* stored over that of a reader another call has made meanwhile.
GroupReady(r) ==
    /\ joining > 0 /\ \E q \in Readers : at[q] = "none"
    /\ joining' = joining - 1
    /\ IF hasGroup THEN UNCHANGED <<group, hasGroup, delivered>>
       ELSE hasGroup' = TRUE /\ group' = published /\ delivered' = published
    /\ r = NewReader
    /\ at' = [at EXCEPT ![r] = IF started THEN "fetch" ELSE "queued"]
    /\ draining' = [draining EXCEPT ![r] = TRUE]
    /\ scope' = r
    /\ UNCHANGED <<published, pel, handlers, wildcards, started, batch, left, failed,
                   historyVars>>

\* subscribe raises; the handler stays in the list.
GroupFails ==
    /\ joining > 0
    /\ joining' = joining - 1
    /\ UNCHANGED <<streamVars, handlers, wildcards, started, scope, readerVars, historyVars>>

StartReaders ==
    /\ ~started
    /\ started' = TRUE
    /\ at' = [r \in Readers |-> CASE at[r] = "queued" -> "fetch"
                                  [] at[r] = "cancelled" -> "none"
                                  [] OTHER -> at[r]]
    /\ UNCHANGED <<streamVars, handlers, wildcards, joining, scope, draining, batch, left,
                   failed, historyVars>>

\* The reader tasks of rs end at their current await, what they hold stays pending.
StopReaders(rs, point) ==
    /\ at' = [r \in Readers |-> IF r \in rs THEN point[at[r]] ELSE at[r]]
    /\ batch' = [r \in Readers |-> IF r \in rs THEN {} ELSE batch[r]]
    /\ left' = [r \in Readers |-> IF r \in rs THEN << >> ELSE left[r]]
    /\ failed' = [r \in Readers |-> failed[r] /\ r \notin rs]
    /\ draining' = [r \in Readers |-> draining[r] /\ r \notin rs]
    /\ excused' = (excused \/ \E r \in rs : Holds(r))

Cancelled == [p \in Points |-> IF p = "queued" THEN "cancelled" ELSE "none"]
Dead == [p \in Points |-> "none"]

\* The last handler takes the reader with it.
Unsubscribe(h) ==
    /\ h \notin Wildcards
    /\ handlers' = RemoveFirst(handlers, h)
    /\ due' = IF Contains(handlers', h) THEN due ELSE due \ {h}
    /\ handlers # handlers' \/ scope # NoReader
    /\ IF handlers' = << >> /\ scope # NoReader
         THEN StopReaders({scope}, Cancelled) /\ scope' = NoReader
         ELSE UNCHANGED <<readerVars, excused, scope>>
    /\ UNCHANGED <<streamVars, wildcards, joining, started, handled, shared>>

UnsubscribeAll(h) ==
    /\ Contains(wildcards, h)
    /\ wildcards' = RemoveFirst(wildcards, h)
    /\ due' = IF Contains(wildcards', h) THEN due ELSE due \ {h}
    /\ UNCHANGED <<streamVars, handlers, joining, started, scope, readerVars, handled,
                   excused, shared>>

-------------------------------------------------------------------------------
(* Reader tasks *)

\* A request is answered with the oldest entries.
FirstOf(S) == {e \in S : Cardinality({d \in S : d < e}) < ReplySize}

\* _drain_pending: XREADGROUP "0" answers with the oldest pending entries.
DrainPending(r) ==
    /\ at[r] = "fetch" /\ draining[r]
    /\ pel # {}
    /\ batch' = [batch EXCEPT ![r] = FirstOf(pel)]
    /\ shared' = (shared \/ (Watched \in FirstOf(pel) /\ \E q \in Readers : Holds(q)))
    /\ at' = [at EXCEPT ![r] = "next"]
    /\ UNCHANGED <<streamVars, subscriberVars, draining, left, failed, due, handled, excused>>

\* Mutant: the break out of the loop is missing.
DrainedNever(r) ==
    /\ at[r] = "fetch" /\ draining[r] /\ pel = {}
    /\ UNCHANGED busVars

\* Nothing is pending, or the request failed: on to new entries.
Drained(r) ==
    /\ at[r] = "fetch" /\ draining[r]
    /\ draining' = [draining EXCEPT ![r] = FALSE]
    /\ UNCHANGED <<streamVars, subscriberVars, at, batch, left, failed, historyVars>>

\* Mutant: the last delivered entry is read again.
NewEntriesInclusive == FirstOf({e \in delivered..published : e > group})

NewEntries == FirstOf((delivered + 1)..published)

\* XREADGROUP ">" moves the group on and makes the entries pending.
Deliver ==
    /\ NewEntries # {}
    /\ delivered' = Max(NewEntries)
    /\ pel' = pel \cup NewEntries

ReadNew(r) ==
    /\ at[r] = "fetch" /\ ~draining[r]
    /\ Deliver
    /\ batch' = [batch EXCEPT ![r] = NewEntries]
    /\ at' = [at EXCEPT ![r] = "next"]
    /\ UNCHANGED <<published, group, hasGroup, subscriberVars, draining, left, failed, historyVars>>

\* The reply is lost; the loop sleeps and goes on with ">".
ReadLost(r) ==
    /\ at[r] = "fetch" /\ ~draining[r]
    /\ Deliver
    /\ excused' = (excused \/ Watched \in NewEntries)
    /\ UNCHANGED <<published, group, hasGroup, subscriberVars, readerVars, due, handled, shared>>

Recipients == handlers \o wildcards

\* On to the next entry of the batch, or to the next request.
Finish(r) ==
    /\ batch' = [batch EXCEPT ![r] = @ \ {Current(r)}]
    /\ failed' = [failed EXCEPT ![r] = FALSE]
    /\ at' = [at EXCEPT ![r] = IF batch'[r] # {} THEN "next" ELSE "fetch"]

\* _dispatch takes the handlers of the moment and calls the first.  A handler that is
\* not subscribed any more, or not yet again, misses the entry.
Dispatch(r) ==
    /\ at[r] = "next"
    /\ left' = [left EXCEPT ![r] = Recipients]
    /\ at' = [at EXCEPT ![r] = IF Recipients = << >> THEN "ack" ELSE "handle"]
    /\ due' = IF AtWatched(r) THEN due \cap Registered ELSE due
    /\ excused' = (excused \/ (AtWatched(r) /\ ~IsInjective(Recipients)))
    /\ UNCHANGED <<streamVars, subscriberVars, draining, batch, failed, handled, shared>>

\* Mutant: a failure is logged only.
GivesUpNever(anyFailed) == FALSE

\* An entry a handler of which failed is not acknowledged.
GivesUp(anyFailed) == anyFailed

\* On to the next handler, or after the last one to XACK.
Advance(r, anyFailed) ==
    /\ left' = [left EXCEPT ![r] = Tail(@)]
    /\ IF Len(left[r]) = 1 /\ GivesUp(anyFailed) THEN Finish(r)
       ELSE /\ failed' = [failed EXCEPT ![r] = anyFailed /\ Len(left[r]) > 1]
            /\ at' = [at EXCEPT ![r] = IF Len(left[r]) > 1 THEN "handle" ELSE "ack"]
            /\ UNCHANGED batch

\* A repeat counts while nothing explains it.
Again(times) == IF times = 0 THEN 1 ELSE IF excused \/ shared THEN times ELSE 2

HandlerReturns(r) ==
    /\ at[r] = "handle"
    /\ handled' = [handled EXCEPT ![Head(left[r])] = IF AtWatched(r) THEN Again(@) ELSE @]
    /\ Advance(r, failed[r])
    /\ UNCHANGED <<streamVars, subscriberVars, draining, due, excused, shared>>

HandlerRaises(r) ==
    /\ at[r] = "handle"
    /\ excused' = (excused \/ AtWatched(r))
    /\ Advance(r, TRUE)
    /\ UNCHANGED <<streamVars, subscriberVars, draining, due, handled, shared>>

Ack(r) ==
    /\ at[r] = "ack"
    /\ pel' = pel \ {Current(r)}
    /\ Finish(r)
    /\ UNCHANGED <<published, group, hasGroup, delivered, subscriberVars, draining, left, historyVars>>

\* XACK fails, which is logged only.
AckFails(r) ==
    /\ at[r] = "ack"
    /\ excused' = (excused \/ AtWatched(r))
    /\ Finish(r)
    /\ UNCHANGED <<streamVars, subscriberVars, draining, left, due, handled, shared>>

\* The process dies; it subscribes and starts anew under the same consumer name.
CrashProcess ==
    /\ handlers' = << >> /\ wildcards' = << >> /\ joining' = 0
    /\ started' = FALSE /\ scope' = NoReader
    /\ StopReaders(Readers, Dead)
    /\ UNCHANGED <<streamVars, due, handled, shared>>

ReaderStep(r) ==
    \/ DrainPending(r) \/ Drained(r) \/ ReadNew(r) \/ ReadLost(r)
    \/ Dispatch(r) \/ HandlerReturns(r) \/ HandlerRaises(r) \/ Ack(r) \/ AckFails(r)

BusNext ==
    \/ PublishEvent \/ GroupFails \/ StartReaders \/ CrashProcess
    \/ \E h \in Handlers : Subscribe(h) \/ SubscribeAll(h) \/ Unsubscribe(h) \/ UnsubscribeAll(h)
    \/ \E r \in Readers : GroupReady(r) \/ ReaderStep(r)

BusSpec == BusInit /\ [][BusNext]_busVars

\* The event loop runs the reader tasks; requests and handlers return or raise.
BusFairSpec == BusSpec /\ \A r \in Readers : WF_busVars(ReaderStep(r))
-------------------------------------------------------------------------------
(* Properties *)

\* An acknowledged entry was handled by every handler that had subscribed when it was
\* published, that has not unsubscribed since, and that was subscribed again, after a
\* restart, when the entry was dispatched; also if two readers, made by overlapping calls
\* of subscribe, had the entry at once.
AckedIsHandled == Acked => \A h \in due : handled[h] > 0

\* A handler gets an entry twice only when it was subscribed twice, a handler raised, an
\* acknowledgement or a reply was lost, the reader ended early, or two readers shared it.
RepeatNeedsCause ==
    \A h \in Handlers : handled[h] = 2 => excused \/ shared

\* An entry that waits in the pending list without a reader at work on it met one of the
\* same mishaps: the normal path, with any number of subscribes and unsubscribes, strands
\* none.
ParkedNeedsCause ==
    Watched \in pel /\ (\A r \in Readers : ~Holds(r)) => excused

\* Without a mishap an entry comes once and waits nowhere.
MishapsExplain == BusTypeOK /\ RepeatNeedsCause /\ ParkedNeedsCause

\* While some reader is there, every entry published after the group was created is
\* acknowledged or meets a mishap, unless a reader never gets out of _drain_pending, for
\* which one handler that always raises is enough.
Blocked == \E r \in Readers : draining[r] /\ pel # {}
Served == (\E r \in Readers : Alive(r)) /\ ~Blocked
Owed == hasGroup /\ group < Watched /\ Watched <= published /\ ~Acked /\ ~excused
DeliveredUnlessBlocked == <>[]Served => []<>(~Owed)
===============================================================================
