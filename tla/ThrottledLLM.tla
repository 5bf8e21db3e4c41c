------------------------------- MODULE ThrottledLLM -------------------------------
(***************************************************************************)
(* ThrottledLLMAdapter: calls wait in a priority queue, one drain loop     *)
(* takes them out and starts each when the semaphore has a slot.  The loop *)
(* does not let others run between taking a call and starting it while     *)
(* there are slots; without one it sleeps with the call in its hand.       *)
(* Calls are names of futures; a name is used again when nothing holds it. *)
(***************************************************************************)
EXTENDS Naturals, Sequences, FiniteSets, SequencesExt

CONSTANTS
    Calls,          \* futures alive at one time
    Priorities,     \* numbers, the lowest is the most urgent
    MaxConcurrent,  \* slots of the semaphore
    NoCall

ASSUME ThrottleAssumption ==
    /\ IsFiniteSet(Calls) /\ NoCall \notin Calls
    /\ Priorities \subseteq Nat /\ Priorities # {}
    /\ MaxConcurrent \in Nat \ {0}

VARIABLES
    queue,      \* the priority queue, in the order its items come out
    priority,   \* priority of each call
    future,     \* state of the future each caller awaits
    drain,      \* the drain loop: not created, at queue.get, at semaphore.acquire, cancelled
    inHand,     \* the call the loop has taken out and not started
    running,    \* calls whose _execute is under way
    slots,      \* value of the semaphore
    overtaken   \* history: less urgent calls that were started while this one was queued

throttleVars == <<queue, priority, future, drain, inHand, running, slots, overtaken>>

Held == ToSet(queue) \cup running \cup ({inHand} \ {NoCall})
Waiting(c) == c \in ToSet(queue) /\ future[c] = "pending"

ThrottleTypeOK ==
    /\ queue \in Seq(Calls) /\ IsInjective(queue)
    /\ \A i, j \in 1..Len(queue) : i < j => priority[queue[i]] <= priority[queue[j]]
    /\ priority \in [Calls -> Priorities]
    /\ future \in [Calls -> {"none", "pending", "done", "cancelled"}]
    /\ drain \in {"none", "get", "acquire", "closed"}
    /\ inHand \in Calls \cup {NoCall}
    /\ inHand # NoCall <=> drain = "acquire"
    /\ running \subseteq Calls
    /\ ToSet(queue) \cap running = {} /\ inHand \notin ToSet(queue) \cup running
    /\ slots \in 0..MaxConcurrent
    /\ overtaken \in [Calls -> 0..2]

ThrottleInit ==
    /\ queue = << >>
    /\ priority = [c \in Calls |-> CHOOSE p \in Priorities : TRUE]
    /\ future = [c \in Calls |-> "none"]
    /\ drain = "none" /\ inHand = NoCall
    /\ running = {} /\ slots = MaxConcurrent
    /\ overtaken = [c \in Calls |-> 0]

-------------------------------------------------------------------------------
\* Mutant: an asyncio.Queue.
PlaceLast(p) == Len(queue) + 1

\* Items come out by (priority, seq): behind all that are as urgent or more.
Place(p) == Cardinality({i \in 1..Len(queue) : priority[queue[i]] <= p}) + 1

\* The first call makes the semaphore, the queue and the drain loop.  A loop that close()
\* cancelled is not made again, since the semaphore is there.
Enqueue(c, p) ==
    /\ future[c] # "pending" /\ c \notin Held
    /\ queue' = InsertAt(queue, Place(p), c)
    /\ priority' = [priority EXCEPT ![c] = p]
    /\ future' = [future EXCEPT ![c] = "pending"]
    /\ drain' = IF drain = "none" THEN "get" ELSE drain
    /\ overtaken' = [overtaken EXCEPT ![c] = 0]
    /\ UNCHANGED <<inHand, running, slots>>

\* The caller is cancelled, and its future with it.
CancelCaller(c) ==
    /\ future[c] = "pending"
    /\ future' = [future EXCEPT ![c] = "cancelled"]
    /\ UNCHANGED <<queue, priority, drain, inHand, running, slots, overtaken>>

\* The loop has acquired a slot for c; rest is the queue c left.
StartCall(c, rest) ==
    /\ running' = running \cup {c}
    /\ slots' = slots - 1
    /\ overtaken' = [d \in Calls |->
           IF d \in ToSet(rest) /\ Waiting(d) /\ priority[d] < priority[c] /\ overtaken[d] < 2
             THEN overtaken[d] + 1 ELSE overtaken[d]]

GivenUp(c) == future[c] = "cancelled"

\* An item whose caller has gone is dropped.
TakeCancelled ==
    /\ drain = "get" /\ queue # << >>
    /\ GivenUp(Head(queue))
    /\ queue' = Tail(queue)
    /\ UNCHANGED <<priority, future, drain, inHand, running, slots, overtaken>>

TakeAndStart ==
    /\ drain = "get" /\ queue # << >>
    /\ ~GivenUp(Head(queue)) /\ slots > 0
    /\ queue' = Tail(queue)
    /\ StartCall(Head(queue), Tail(queue))
    /\ UNCHANGED <<priority, future, drain, inHand>>

TakeAndWait ==
    /\ drain = "get" /\ queue # << >>
    /\ ~GivenUp(Head(queue)) /\ slots = 0
    /\ queue' = Tail(queue)
    /\ inHand' = Head(queue)
    /\ drain' = "acquire"
    /\ UNCHANGED <<priority, future, running, slots, overtaken>>

\* The future is not looked at again, nor the queue.
Acquired ==
    /\ drain = "acquire" /\ slots > 0
    /\ StartCall(inHand, queue)
    /\ inHand' = NoCall
    /\ drain' = "get"
    /\ UNCHANGED <<queue, priority, future>>

\* Mutant: the slot is given back with a result only.
ReleaseOnResult(ok) == IF ok THEN slots + 1 ELSE slots

Release(ok) == slots + 1

\* Mutant: an exception is logged only.
SettleOnResult(c, ok) == IF ok /\ future[c] = "pending" THEN "done" ELSE future[c]

Settle(c, ok) == IF future[c] = "pending" THEN "done" ELSE future[c]

\* The model answers or raises; a future that is done already is left alone.
Finish(c, ok) ==
    /\ c \in running
    /\ running' = running \ {c}
    /\ slots' = Release(ok)
    /\ future' = [future EXCEPT ![c] = Settle(c, ok)]
    /\ UNCHANGED <<queue, priority, drain, inHand, overtaken>>

\* close(): the loop ends where it is, with what it has in its hand; no future is settled.
Close ==
    /\ drain \in {"get", "acquire"}
    /\ drain' = "closed"
    /\ inHand' = NoCall
    /\ UNCHANGED <<queue, priority, future, running, slots, overtaken>>

DrainStep == TakeCancelled \/ TakeAndStart \/ TakeAndWait \/ Acquired

ThrottleNext ==
    \/ DrainStep \/ Close
    \/ \E c \in Calls :
        \/ \E p \in Priorities : Enqueue(c, p)
        \/ CancelCaller(c)
        \/ \E ok \in BOOLEAN : Finish(c, ok)

ThrottleSpec == ThrottleInit /\ [][ThrottleNext]_throttleVars

\* The event loop runs the drain loop, and requests to a model time out at the latest.
ThrottleFairSpec ==
    /\ ThrottleSpec
    /\ WF_throttleVars(DrainStep)
    /\ \A c \in Calls : WF_throttleVars(\E ok \in BOOLEAN : Finish(c, ok))
-------------------------------------------------------------------------------
(* Properties *)

\* Whatever a call ends with, and whoever gave up on it, its slot comes back, and no more
\* than max_concurrent calls are under way.
SlotsConserved == ThrottleTypeOK /\ slots + Cardinality(running) = MaxConcurrent

\* While a call waits, at most one less urgent call is started before it: the one the
\* drain loop had in its hand when it came.
OvertakenOnce ==
    /\ \A c \in Calls : Waiting(c) => overtaken[c] <= 1
    /\ inHand # NoCall =>
           \A c \in Calls : Waiting(c) /\ overtaken[c] = 1 => priority[inHand] <= priority[c]

\* Unless the adapter is closed, a call of the most urgent priority is answered; less
\* urgent calls may wait for ever behind more urgent ones.
MostUrgent(c) == \A p \in Priorities : priority[c] <= p
UrgentCallsAreAnswered ==
    \A c \in Calls : []<>(future[c] = "pending" /\ MostUrgent(c) => drain = "closed")
===============================================================================
