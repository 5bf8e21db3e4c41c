# Verification of the autonomous SRE agent

This directory holds TLA+ models of the parts of `src/sre_agent` that coordinate
concurrent work and survive failures: the distributed resource lock and its three
backends; the planner and the remediation engine that acts under the lock; the
transactional outbox, its relays and the Redis Streams bus they feed; the diagnose
endpoint with its projection of incidents; the diagnostic pipeline with cache, trace,
severity and confidence; the queue in front of the LLM; the circuit breaker, its
retries, and the notification router that relies on it. TLC checks them on small
instances; TLAPS proves the safety properties of the locks, the engine, the outbox,
the projection, the breaker and the pipeline, and five refinements, for
every value of the constants. `PROJECT.json` maps every definition to source lines and lists runs,
mutants, hazards and theorems.

Paths below are relative to `src/src/sre_agent/` unless they start with `docs/`,
`scripts/` or `tests/`.

## 1. The system

The agent receives alerts and telemetry, correlates them into incidents, diagnoses
an incident with an LLM over retrieved documents (RAG), plans a remediation, and
carries it out through cloud operators under guardrails and a resource lock. It is a
hexagonal Python/asyncio program: `domain/` is the logic, `ports/` the interfaces,
`adapters/` the stores, buses and vendor APIs, `api/` FastAPI routes, and
`adapters/bootstrap.py` wires them.

| Component | State it keeps | Operations | Talks to |
|---|---|---|---|
| Lock port and backends: Redis, etcd, in-memory (`ports/lock_manager.py`, `adapters/coordination/`) | per resource key: a record {agent, priority, token, lease}, a token counter | `acquire_lock`, `release_lock`, `is_lock_valid` | Redis / etcd server; called by the engine; audit rows to `coordination_store` |
| Remediation planner (`domain/remediation/planner.py`, `strategies.py`) | none | `create_plan` | the engine executes its plans |
| Remediation engine (`domain/remediation/engine.py`) | none of its own between calls; the plan's action statuses | `execute` | guardrails, lock, cloud operators, remediation store, event bus and store |
| Guardrails (`domain/safety/`) | kill switch flag; expiry per resource in the cooldown table | `validate`, `activate`, `deactivate`, `record_action`, `is_in_cooldown` | event bus and store |
| Remediation store (`adapters/persistence/remediation_store.py`) | `remediation_actions` rows | `save_action`, `update_status` | PostgreSQL |
| Incident store (`adapters/persistence/incident_store.py`) | `incident_events`, `incidents` (the projection), outbox rows | `save_event`, `update_projection`, reads | PostgreSQL; called by the diagnose route |
| Diagnose endpoint (`api/rest/diagnose_router.py`) | none | `trigger_diagnosis` | RAG pipeline, incident store, diagnosis store |
| Outbox store and relay (`postgres_outbox.py`, `outbox_relay.py`) | `event_outbox`, `processed_events` | `claim_pending`, `mark_sent`, `mark_dlq`, `release_claim`, `increment_retry`, `is_event_processed`, `mark_event_processed`; `run`, `stop` | PostgreSQL, event bus |
| Retention executor (`retention_executor.py`) | none | `run_once`: deletes old `processed_events` and `baseline_snapshots` | PostgreSQL |
| Redis Streams bus (`adapters/events/redis_streams_event_bus.py`) | handlers, reader tasks; stream and group in Redis | `publish`, `subscribe`, `unsubscribe`, `start`, `stop`, read loop | Redis |
| Circuit breaker and retry (`adapters/cloud/resilience.py`) | state, failure count, opening time | `is_open`, `record_success`, `record_failure`, `retry_with_backoff` | cloud operators, Slack, Teams, PagerDuty, Opsgenie adapters |
| Throttled LLM (`adapters/llm/throttled_adapter.py`) | priority queue, semaphore, drain task | `generate_*`, `close` | OpenAI / Anthropic adapters |
| RAG pipeline, cache, severity, confidence, validator, timeline (`domain/diagnostics/`) | diagnostic cache with TTL | `diagnose` | vector store, LLM, trace store, event store |
| Notification router and channels (`domain/notifications/`, `adapters/notifications/`, `adapters/oncall/`) | a breaker per channel | `route_alert`, `route_approval_request`, `route_resolution` | HTTP APIs |
| Detection: anomaly detector, baseline, correlators, dependency graph, late data, polling, provider registry and health, pipeline monitor (`domain/detection/`) | windows, baselines, suppression times, open incidents, provider and component health | `detect`, `process_alert`, `record_heartbeat`, `activate`, `check_health`, … | telemetry adapters, event bus |
| Severity override, HTTP API (`api/`) | overrides per alert; a halt dictionary | REST routes | services |
| Other stores, telemetry, vector, embedding, LLM vendor adapters, configuration, metrics | little or none | reads and single writes | external systems |

`PROJECT.json` lists all forty, with what is modelled of each.

### Interactions that matter

* The **planner** turns a diagnosis into a plan of one action. The **engine** admits a
  plan through guardrails, takes the **lock** of the resource, runs the actions one at a
  time, each one or two **operator** calls, writes status rows best effort, sets the
  **cooldown**, and releases the lock in a `finally`. All engines pass the same
  `agent_id` and priority 2, so that the **fencing token** is what tells two runs
  apart. Every `await` lets other runs, other agents, the lock's expiry and an operator
  with a kill switch in.
* `POST /diagnose` asks the **pipeline** (which consults cache, search, model, a second
  model, and severity), then calls `save_event`, `update_projection` and
  `save_diagnosis`, swallowing the failures of each. Its event and the **outbox** row
  are one transaction.
* **Relays** claim batches of rows with `FOR UPDATE SKIP LOCKED`, check the
  `processed_events` marker, put the event on the **bus**, write the marker, mark the
  row; on failure they count a retry and give the row back, or bury it as `dlq`.
* The bus reads through one consumer group and one consumer name; it acknowledges an
  entry when all handlers have returned.
* Model calls wait in the **throttled** adapter's queue; operator calls and
  notifications go through **circuit breakers**.

### What is hard here

Interleaved Redis and etcd requests with optimistic transactions; leases that run
out under a working holder; preemption by other agents; calls that raise after taking
effect; rows and effects that must agree; crashes between two database calls;
retries of what was already done; verdicts that come late and are applied to a state
that has moved on; results cached for one alert and returned for another. The
`hazards` of `PROJECT.json` list these with the properties that watch them.

### What makes each part correct

* **Lock**: one record per key; it is replaced only for a better priority, or when
  vacant; the token of an installed record is the largest so far; no two grants share
  a token; a holder that lost its record carries an older token; leases free keys.
* **Engine**: two runs act together only after one of them lost its record, and behind
  each such loss is a lease that ended or was preempted; actions take effect in
  order and only under a lock that was granted; rows and results never claim more than
  what happened; the kill switch lets at most the current action finish; a cooldown is
  broken for named reasons only; the lock is left behind on named paths only; every call
  ends.
* **Outbox**: a claimed row is in one relay's hands; an event whose marker is written
  is not published again; `sent` implies on the stream, `dlq` implies max_retries
  failures; the number of publications is bounded by the failures; every saved event
  is settled unless a crash, a lost claim reply or a failing call of the except clause
  strands it.
* **Bus**: an acknowledged entry was handled by everybody who should have had it; a
  repeat, or an entry left pending, has a named cause; a reader that is not held up by
  a poisoned entry delivers everything.
* **Projection**: the row stands on an event of the log, goes back in time between
  overlapping calls only, and loses the newest event for named reasons; a diagnosis
  does not reopen an incident twice; a late retry is not refused without a failure.
* **Breaker and retry**: the state follows the count whatever order answers come in;
  failures in a row are bounded; an open circuit only drains; it recovers.
* **Notifications**: a call tells one adapter of a chain, or all have failed; a page
  outlives its resolution only for named reasons; circuits open by failures alone.
* **LLM queue**: slots are conserved, one less urgent call at most overtakes, urgent
  calls are answered.
* **Diagnosis**: approval is waived only where evidence, confidence, tier and severity
  allow; a trace tells what the caller was given; graver input is never less severe.

## 2. Modules

| Module | Role |
|---|---|
| `FencedLock` | abstract lock of one key: `Install`, `Vacate`; `PrioritySpec` is the same without the order of tokens |
| `RedisLock`, `MCRedisLock`, `RedisLockProofs` | Redis backend, command by command |
| `EtcdLock`, `MCEtcdLock`, `EtcdLockProofs` | etcd backend, request by request |
| `InMemoryLock`, `MCInMemoryLock`, `InMemoryLockProofs` | in-memory backend, several keys and a clock |
| `RemediationEngine` | `execute` with guardrails, lock, operators, rows, crash; uses `FencedLock` |
| `RemediationPlanner`, `MCRemediationEngine` | `create_plan` and the blast radius rule; extends the engine, which carries out its plans |
| `RemediationEngineProofs` | what is proved of the engine |
| `AtLeastOnce` | abstract outbox: owed, settled, buried; deliveries and failures per event |
| `OutboxRelay`, `MCOutboxRelay`, `OutboxRelayProofs` | outbox tables, relays, retention |
| `RedisStreamsBus`, `MCRedisStreamsBus`, proved about in `OutboxRelayProofs` | stream, consumer group, subscribers and reader tasks of one event type |
| `IncidentProjection`, `MCIncidentProjection`, `IncidentProjectionProofs` | diagnose requests and other writers of one incident, statement by statement |
| `CircuitBreaker` | the breaker as a value with its operations; used by the next two |
| `OperatorCalls`, `MCOperatorCalls`, `BreakerProofs` | `retry_with_backoff` over one breaker |
| `NotificationRouter`, `MCNotificationRouter` | the router, its two chains, the adapters and their breakers; proved about in `BreakerProofs` |
| `ThrottledLLM`, `MCThrottledLLM` | queue, drain loop, semaphore, close; proved about in `RagPipelineProofs` |
| `Severity` | severity, confidence and approval rule as operators; proved about in `RagPipelineProofs` |
| `RagPipeline`, `MCRagPipeline`, `RagPipelineProofs` | `diagnose` with cache and trace; uses `Severity` |

### RedisLock

A *caller* is one conversation: acquire, perhaps validate, release. Several callers may
carry one `agent_id`. Its `pc` names the next Redis command:

| Code (`redis_lock_manager.py`) | Action |
|---|---|
| `watch` at the head of the loop | `Watch` |
| `hgetall`, and the two branches on the record | `ReadLock` |
| `incr` of the token key (it runs at once, outside `multi`) | `DrawToken` |
| `multi` … `hset`, `pexpire`, `execute` | `Install` |
| `except WatchError: continue` | `Retry` |
| `release_lock`: `hgetall`, `delete` | `ReleaseRead`, `ReleaseDelete` |
| `is_lock_valid`: `hgetall`, `pttl`, the caller's use of the answer | `ValidateRead`, `ValidateTtl`, `UseValidity` |
| key expiry by the server | `Expire` |
| cancellation, death, an exception of the client | `Abandon` |

`clean[c]` is the server's view of the WATCH: every write or expiry of the key clears
it for everybody (`TouchKey`). The compose file pins Redis 7, where expiry of a
watched key also aborts EXEC. `newest` is a history variable. `MaxToken` bounds the
token counter.

### EtcdLock

The same conversation over etcd: `Start`, `Get`, the compare-and-swap loop of the token
key (`GetToken`, `CasToken`, `CasLost`), the transaction that creates the key if it is
absent or replaces the very bytes that were read (`Install`, `InstallLost`), the second
look after a lost creation (`GetAgain`), release in two requests, lease expiry,
`Abandon`. The lease granted for a lost transaction is not modelled: no key is attached
to it.

### InMemoryLock

No method awaits, so each is one action. An expired record stays in the dictionary until
`acquire_lock` or `is_lock_valid` meets it; `release_lock` does not look at the clock.
One counter serves every key. `Tick` is the clock, which is assumed not to run backwards.

### RemediationEngine

One `pc` point per suspension of `execute` (`engine.py:64-230`): guardrails (`Deny`,
`Admit`), `Acquire`/`LockDenied`/`AcquireRaises`, `Announce` (the STARTED event and
the planned rows), the loop (`Cancel`, `BeginAction`, `Canary`, `Rollout`,
`CallRaises`), `RecordCooldown`, `Report`, `Fail` (the except clause),
the finally clause. The lock is used through its promise: `Lock == INSTANCE FencedLock`.
`acquire_lock` is one step of it, but `release_lock` is the two requests that the Redis
and etcd managers make, the read with its ownership test (`Release`, `ReleaseRaises`) and
the delete (`Delete`, `DeleteRaises`), between which the lease may end and others come in;
the delete removes whatever record is there by then (`DeleteRecord`). Other agents release
in the same way (`OtherReleases`, `OtherDeletes`). The in-memory manager's release, without
an await, is the case where nothing happens in between. The environment is the kill switch, the end of a
cooldown, the end of a lease, agents of better and worse priority, and the death of the
process, which clears everything but the lock record and the rows.

A plan is a record of what `execute` looks at: approval needed and given, blast radius,
operator found, and the kinds of its actions (`scale`, `restart`, `staged restart` for
a restart of more targets than the canary batch, `unsupported`). Rows follow
`update_status`: the engine writes `executing`, which is no `RemediationStatus`, and the
store judges a change only when both statuses are known, hence `UpdateAllowed`.

History variables: `calls` (operator calls that took effect), `haltedCalls` (those since
the kill switch), `racing` (runs that were in `acquire_lock` when a cooldown was set),
`lost` (callers whose record expired or gave way to a better priority), `robbed` (those whose record the
release of another deleted) and `late` (the callers that deleted it). `OverlapNeedsLostLease`
says that one of two acting runs is in `lost` or `robbed`, and that nobody is ever robbed
unless some late releaser had lost its own lease: a chain of late releases begins with a
lease that ended or was preempted.

### RemediationPlanner

A *case* is what `create_plan` is given: the type of the anomaly, the cues in the root
cause (`select_strategy`), whether approval is needed, the blast radius ratio, the
number of services downstream, the replicas and their cap, and the mechanism. `PlanOf`
is the plan the engine module sees: `WithinBlastRadius` is
`BlastRadiusCalculator.validate` as `GuardrailOrchestrator.validate` calls it, without
`current_replicas`; `ActionKind` says what `_execute_action` and the registered operator
make of the one action. A pending plan is also there as approved by somebody. Plans
of several actions come from tests and demos only; the runs have some by hand.

### OutboxRelay

An outbox row is named by its event, since `uq_outbox_event_id` allows one each; events
are numbered by
`created_at`. A relay's `pc` names its next call. Each SQL statement commits on its own:
`Claim` (the oldest `BatchSize` pending rows), `Check`, `Publish`, `Mark`, `Settle`; the
except clause is `Count`, then `Bury` or `Release`. Every call may raise before its
effect (`CheckFails`, `CallFails`, `BookkeepingFails`, `ClaimLost` for a lost reply) or
after it (the second disjunct of the action). A raise inside the except clause leaves
`run_once`, and the rest of the batch stays `processing` (`AbandonBatch`). `Crash` forgets
what the relay had claimed. `deserted` is a history variable: the rows that one of these
three, a crash, a lost claim reply or a raise in the except clause, left `processing`;
nothing else may (`SettledOrStranded`). `DeleteMarker` is the retention executor, at any time.

### RedisStreamsBus

One event type, one process. `published`, `group`, `delivered` and `pel` are the stream
and the group in Redis; handlers, `_reader_scopes` and the reader tasks are the process.
`Subscribe` puts the handler in the list and, if no reader is known, awaits XGROUP
CREATE: `GroupReady` and `GroupFails` are the two ends of the await, so that two calls of
`subscribe` make two readers. A reader drains what is pending (`DrainPending`,
`Drained`), then reads new entries (`ReadNew`; `ReadLost` for a lost reply), and
dispatches each entry, the oldest of those left of the reply (`batch`), to the handlers
of the moment (`Dispatch`, `HandlerReturns`, `HandlerRaises`), which ends in `Ack`,
`AckFails` or, after a failure, in neither.
`Unsubscribe` of the last handler cancels the reader; `CrashProcess` forgets the process. The
properties watch one entry, any one, through history variables: who was due it,
who handled it, whether something excuses a repeat, whether two readers shared it.

### IncidentProjection

Each caller saves its event and projects it in two statements: `SaveEvent` or
`DuplicateEvent`, `Select`, then `Write` or `WriteStale`. A request goes on to its
diagnosis row whatever came of that (`StoreDiagnosis`, `StoreRefused` by the foreign
key). Every call may fail before or after COMMIT, and the caller may die. Requests share
one idempotency key. `during[c]` remembers who saved an event while `c` was between its
own event and its projection: that is what an overlap is.

### CircuitBreaker, OperatorCalls, NotificationRouter

The breaker is a record {state, failures, cooled}; `Read` is the `state` property with
its lazy change to HALF_OPEN. `OperatorCalls` has the loop of `retry_with_backoff`:
look and send (`Request`), refuse (`Reject`), the answers, the sleep, the cancellation.
Looking and sending are one step, as no `await` lies between.

The router walks the escalation chain and then the channels, each up to its first
success (`Skip`, `Post`, the four answers). `Act` is what the provider does under the
dedup key, also with the request of a call that is cancelled meanwhile (`CancelRoute`). The answers differ in what they do to the breaker, taken from each adapter:
`CountsTwice` (Slack) and `SuccessFirst` (PagerDuty, Opsgenie). Other alerts' traffic
moves the breakers at any time.

### ThrottledLLM

The queue is a sequence in the order its items come out; the drain loop takes the first
and, without a free slot, sleeps with it `inHand`. `Finish` gives the slot back and
settles the future. `Close` cancels the loop and settles nothing. The name of a call
is used again once nothing holds it, so behaviours do not end.

### RagPipeline, Severity

The stages between awaits: trace start, cache lookup, retrieval, generation,
validation (agreement, correction or refusal), scoring, store, trace end; `BreakDown`
is the two except clauses, `Raise` any other error. `End` includes what the endpoint
does next, the row of `incidents` the trace's foreign key refers to. `Severity` has the
weights exactly, in units of 1/3000 and 1/1000, over inputs in tenths.

## 3. Runs

All twelve runs pass. Times are for two workers.

| Run | Instance | What it shows |
|---|---|---|
| `redis_lock` | 3 callers, 2 agents, priorities 1, 2, 2, 4 tokens | the token drawn outside the transaction is safe under a clean WATCH (`CleanTokenIsNewest`); the record under the key is the newest grant, grants are distinct, a stale holder's token is older (`TokensAreFenced`); the whole implements `FencedLock`; expiry frees every record |
| `in_memory_lock` | 2 keys, 2 agents, leases of 1 and 2 ticks, 3 tokens, time 0 to 3 | over all results ever granted at most the newest of a key is valid (`ResultsAreFenced`), an invalid one stays invalid, each key implements `FencedLock` |
| `etcd_lock` | 3 callers, 3 tokens | tokens are handed out once; records follow priority; preemption raises the token |
| `engine` | 1 run; plans by hand (several actions, staged restarts) and the planner's plans for 8 cases; store on; a security and a cost agent | effects, rows and results agree on every path, with raises and death everywhere (`RecordsAreTrue`); a halt lets at most the current action finish; every call ends (`RunsEnd`) |
| `engine_overlap` | 3 interchangeable runs of one scaling each, the security and the cost agent, no store, 3 grants, no kill switch | two runs act at once only after one lost its record, and behind every robbed record is a lease that ended or was preempted; a cooldown is broken only by a run that raced for the lock or after such a loss (`CooldownHolds`); a record is left behind only by a raise at the wrong place or a death |
| `outbox` | 2 relays, 2 events, batch 2, 2 retries, fair | exclusive claims, no publication once marked, refinement of `AtLeastOnce`, each saved event settled unless one of three named causes stranded it |
| `bus` | 2 handlers, one of them for all events, 2 entries with the second watched, 2 readers, batch 2, handler lists of at most 2, fair | what an acknowledgement promises, why an entry is repeated or stays pending, and that a reader which is not held up delivers |
| `projection` | 2 requests for one alert, 2 other writers (to resolved and to mitigating) | on which event the row stands, when the newest is lost, when a request is refused or reopens an incident |
| `operator_calls` | 3 calls, 2 retries, threshold 4, fair | state follows count, at most threshold + 2 failures in a row, nothing is sent while open, recovery |
| `router` | an alert and its resolution, PagerDuty then Opsgenie, Slack, threshold 2 | who is told, which pages outlive their resolution, what opens a circuit |
| `llm` | 4 calls of priorities 1 and 3, 2 slots, fair | slots conserved, one overtaking call at most, urgent calls answered unless closed |
| `rag` | 3 requests for a mild and a grave alert of one fingerprint, and so one tier, weak and strong evidence, confidences 0 and 1 | who earns autonomy, whether the trace tells the truth; severity over all tiers, blast radii, deviations and a sample of certificate hours |

`bus` takes about two minutes, `engine_overlap` and `redis_lock` one, the others less.

### Why the bounds are enough

* **Locks**: two callers race and a third preempts or takes over in between; all the
  races of the code are between two requests of one caller and one or two of others.
  Four tokens let a caller draw, lose, retry and win while another is granted; two of
  the three callers share an `agent_id`, as engines do. `MaxToken` stops `INCR` only.
* **Engine**: the run's own paths need one run and every kind of plan; overlap needs
  three runs, so that a stale, a current and a waiting one exist at once, and one call
  per plan. `OverlapBound` stops after three grants (`MaxGrants`): to the caller whose
  delete comes late, to the one it robs, and to the one it lets in, each of them a run or
  one of the agents, of which one outranks the runs and one is outranked. It also leaves
  out the kill switch, which the other run has; there `MaxOtherGrants` lets the other
  agents in once. The planner's cases have each strategy, each mechanism,
  replicas on both sides of the cap and of the limit, and plans on both sides of
  approval.
* **Outbox**: two retries distinguish first, repeated and last failure. A relay can
  claim one event while the other holds the second, or both.
* **Bus**: the first entry can be taken, pending or poisoned before the watched one;
  two readers are what two calls of `subscribe` can make; a list of two lets a handler
  be registered twice, or two handlers once. Entries are alike, so one watched entry
  stands for each.
* **Projection**: two requests are first attempt and retry, or two callers with one
  idempotency key; two writers give a third and fourth event between them.
* **Breaker**: the threshold lies above the failures one call can make (three) and below
  what three can, so that the circuit opens under overlap with requests still out.
* **Router**: two providers of one chain are the primary and what it falls back to; one
  channel has the double count. A longer chain repeats its last step.
* **LLM**: two slots, both taken, one call in hand and one in the queue make four.
* **RAG**: one request fills the cache while another is past its lookup and a third
  comes after both; two alerts under one fingerprint are what a hit can confuse.

`CHECK_DEADLOCK FALSE` stands where behaviours really end: clock and tokens are bounded
in `in_memory_lock`; calls end in `projection`, `router` and `rag`; after `close` nothing
need happen in `llm`.

### Fairness

* `redis_lock`: weak fairness of `Expire` only. Redis removes expired keys on its own;
  nothing is assumed of callers.
* `engine`: weak fairness of each run's steps. asyncio resumes every ready task, and
  every awaited call (store, bus, lock, operator) is assumed to return or raise.
* `outbox`: weak fairness of `Start` (a service manager restarts the worker) and of the
  work on a batch; strong fairness of `Claim`, because `run` polls for ever and a claim
  that is interrupted by crashes or lost replies is tried again. Nothing says a call
  succeeds: `CallFails` is always an alternative, and the retry bound ends it.
* `bus`: weak fairness of each reader's steps, which include a failing handler or a lost
  reply; nobody is made to publish, subscribe or restart.
* `operator_calls`: the recovery timeout passes, a request is answered one way or
  the other, a sleeping call wakes. Recovery is stated under the condition that the
  service stops failing, nobody cancels any more, and calls keep coming.
* `llm`: the drain loop runs and a model call ends, well or badly. Callers need not call.
* The other runs check safety only and assume nothing.

## 4. Proofs

TLAPS checks every theorem for all sets of callers, agents, runs, plans, relays, events,
calls and requests and for all bounds, from the assumptions named in the modules
(`RedisLockAssumption`, `EtcdLockAssumption`, `InMemoryLockAssumption`, `EngineAssumption`,
`OutboxAssumption`, `ProjectionAssumption`, `ThresholdAssumption`,
`CallsAssumption`, `PipelineAssumption`). These say only that priorities are numbers, that
a null value is no record, that limits and leases are positive, that there are finitely
many calls and callers of one incident, what type plans, facts, evidence and confidences
have, and that alerts of one fingerprint, which names the service, have one tier. TLC
evaluates each of them in the runs of its module.

* **RedisLockProofs**. `IInv` adds to the checked invariants that tokens are ordered
  (granted <= newest <= counter), that the token of a caller about to `EXEC` belongs to
  nobody else, and that an equal token implies an equal agent. Without these, a drawn
  but not yet installed token could coincide with a granted one. Proved: `TypeCorrect`,
  `CleanTokens`, `NewestRecord`, `DistinctGrants`, `Fencing`, `TokensFenced`, `Refinement`.
* **EtcdLockProofs**. There is no WATCH, so `IInv` says that a token is drawn once
  (`DrawnIsFresh`), and that a caller that decided to preempt drew its token after
  the record it compares (`Decided`). Proved: `DistinctGrants`, `PreemptionRaises`,
  `PriorityRefinement`. `TokensIncrease` is false of this backend (section 5), and so
  the refinement is of `PrioritySpec`.
* **InMemoryLockProofs**. Expired records stay in the dictionary, so an invariant about
  live records only would be lost when the clock is not looked at. `LockInv` therefore
  speaks of every record: it is the newest grant of its key, tokens are given once and
  are at most the counter, and a key with grants has a newest one. The last part stands in
  for the finiteness of the set of grants in the maximum that the refinement maps the
  token to. Proved: `LocksKept`, `Fenced`, `NeverValidAgain`, and `KeepsLockPort`, where an
  expiry maps to `Vacate` at the tick it falls due, before anybody looks. `HoldsExpire`: a
  record expires within a TTL of now and a hold is never extended.
* **RemediationEngineProofs**. Four invariants; `LeaseInv` is inductive by itself, the
  others with its help.
  - `LeaseInv`: a run between acquire and the end of release owns the record under the key
    unless it is `Bereft`, that is, in `lost` or `robbed`, and so does another agent that is
    `leaving`; tokens of runs differ; an engine's record has the engine's priority.
    Overlap without a loss would mean one record with two tokens. A delete meets another's
    record only if the caller's own is gone; `BlameKnown` says that the first caller for
    which that was so had lost it by an expiry or a preemption, since nobody had been
    robbed before. Proved: `LeaseHeld`, `NoOverlap`, `LeaksExplained`, and `LockPromise`: the engine and its
    competitors use the lock within `FencedLock`, so that what is proved of it holds over
    any backend that implements that specification.
  - `RecordInv`: behind the action a run is at, every action is complete in effect and
    status and is not stored as failed; before it, nothing has begun; at it, status and
    calls are those of the point in the code. `RecordsAreTrue` is not inductive, because
    it says nothing of the action in hand, whose raise decides what is stored.
    `ReturnKnown` adds what is known of a run by how it ended. Proved: `RecordsKept`,
    `RecordsTrue`.
  - `CooldownInv`: while the resource cools down, whoever waits for the lock did so when
    the cooldown was set, and whoever acts is one of these or acts after a loss. The run
    that sets a cooldown holds the lock, so that by `LeaseInv` another one that acts at
    that moment, or it, is bereft. Proved: `CooldownKept`.
  - `HaltInv`: how many calls a run may have made since the halt, by its point: none
    before the first call of an action, one at the rollout, two otherwise. Proved:
    `HaltKept`, `KillBounds`.
  - `StepsLeft` counts down what a call of `execute` has before it: three steps for each
    action not yet finished, and what the point in the code adds, eight at most. Its only
    way back, from the report of an action to the next one, pays with `next`. Proved:
    `RunsShorten`, with `RecordInv` for where `next` can be.
* **OutboxRelayProofs**. `IInv` ties each relay's next call to its row: a claimed row is
  `processing` until its owner closes it, `stream <= retries` where the next call may
  publish, `retries < MaxRetries` except just before `Bury`. Proved: `TypeCorrect`,
  `Exclusivity`, `MarkedOnce`, `Refinement`, and `CopiesBounded`: what the refinement
  leaves open is that an event is on the stream at most `MaxRetries` times.
  `StrandedExplained` says that `deserted` is exactly the set of `processing` rows that no
  relay has in hand, so that no step but the three that fill it strands a row. `CallsLeft`
  gives a relay six calls for each row it has yet to take and, for the one in hand,
  those left from where it is; `BatchesEnd` says that each call lowers it and that only
  a relay with none left claims, so that a batch ends whichever calls fail. The module extends
  `RedisStreamsBus`, which the relays publish on, as well. `Known` speaks of the watched entry, which may be any: a
  reader that has come to it keeps what `CallsDue` says, that whoever is due has handled
  it or is still to be called, unless one raised; while it is pending, a reader has it or
  a mishap came over it; and while nothing explains a repeat, one reader only has it, for
  the `FirstTime`. It rests on what a reply holds: the entries asked for are those next in
  order (`NewEntriesAre`), and nothing of a reply is older than the entry in hand
  (`OldestIs`, `FirstsAre`). Proved: `AcksKept` and `MishapsTrue`, and `RepliesEnd`: a reader
  is through with a reply after `ReplySize * (MaxRegistered + 2)` steps. The proof showed that an acknowledgement can be relied
  on even if two readers share the entry, which the property once made an exception of.
* **IncidentProjectionProofs**. A step of one caller changes what "newer than the row"
  means to all the others. `Overtaken` says what each of those knows: a caller whose event
  is newer than the one the row shows, and was not saved while that one's caller was
  projecting, has not reported its projection, and if it is about to write, it read the
  row as it is, so that its write will hit. A write re-establishes this for everybody else,
  because the writer noted in `during` every event saved since its own. `CallKnown` and
  `RowKnown` are what each point of the code knows of its event and of the row. Steps are
  sorted into four kinds (no change, a change of one caller, a write, a new event), each
  with a lemma. Proved: `ProjectionKept`, `RowExplained`, `NewestExplained`,
  `RefusalsExplained`, `ReopenedOnce`.
* **BreakerProofs**, of the two that go through circuit breakers. Operator calls: `IInv`
  adds that a call never has more turns behind it than retries allow. For the bound on
  failures, `BurstInv` says what the burst is in each state of the breaker: the count
  while closed; none while half open, whose probes start a new one; and, while open,
  burst plus the requests still out stay within threshold + calls - 1, which every late
  failure keeps by moving one from out to burst. Proved: `Consistent`, `Drains`,
  `BurstBound`. The router is extended as well; the names of the two are kept apart for
  that (`RouterSpec`, `breakers`, `at`). `CountsCovered` relates the count of a circuit, which survives HALF_OPEN,
  to the failed deliveries since the last success (`OpenedByMisses`). `Walked` says of a chain what a call knows with a given rest of it
  in its hands: while any is left, all before it failed; at the end one answered, or all
  failed, or the call was cancelled while one had its request (`WalkCutShort`). Each step of a call (begin, post, answer, failure, cancellation) has a lemma
  about values (`CallBegins` to `CallCancelled`), and one lemma carries them to the state
  (`OneCallMoves`). `PagesOpened` names for each open page the alert that opened it, and
  one that no resolution which closed it came after. Proved: `AudienceTrue` and `StrandedExplained`.
* **RagPipelineProofs**. A result is `Transferable` to a fingerprint, or an `Escalation`
  that keeps its approval and its request. The invariant says that the cache holds
  transferable results only, that a request about to store has one, that the outcome
  is the initial one until the exit and belongs to the result from there on
  (`TraceSound`), and that a row of `incidents` has a request that ended. Proved:
  `WaiverEarned`, `TraceTrue`, and `SeverityTrue`, whose other half is arithmetic: the
  score is linear once the tier is known (`ScoreIs`), so that the classifier is monotone
  over all alerts (`MonotoneAll`) and a deployment lowers a severity only at the edge of
  SEV4 (`InducedEdge`). TLC goes through a sample of the certificate hours, the proof
  through all of them. The module extends `ThrottledLLM`, in whose queue the
  pipeline's requests wait, too. That a waiting call
  is overtaken once at most rests on the order of the queue: `Queued` says that a call is
  in it once and the more urgent before the less, and the lemmas on sequences that it
  stays so when the head is taken (`TakeHead`) and when a call is put behind all that are
  as urgent (`PlaceIs`, `InsertIs`). `Turns` adds that once a call was overtaken, nothing
  less urgent is left in the loop's hand. Proved: `SlotsKept`, `OvertakenAtMostOnce` and
  `QueueKeepsTurns`: only the head leaves, and only a more urgent newcomer gets in before a
  call that waits.

TLC finds no violation of any of these inductive invariants on the instances of the runs.

Model-checked only: all liveness (`LockIsEventuallyFreed`, `RunsEnd`, `SettledOrStranded`,
`DeliveredUnlessBlocked`, `RecoversWithService`, `UrgentCallsAreAnswered`), which needs
ENABLED and is out of the prover's reach. What can be proved without fairness is the other
half of three of them, that a call which is let go on comes to its end: `RunsShorten` for
`RunsEnd`, `BatchesEnd` and `RepliesEnd` for `SettledOrStranded` and `DeliveredUnlessBlocked`.
No run of this directory states these measures, nor `CopiesBounded`, the `StrandedExplained` of the outbox, `QueueKeepsTurns` and
`HoldsExpire`; `RunsEnd` and the others are what the runs check. Every invariant and every
other action property that a run checks is stated by a theorem.

## 5. Disagreements with the documents, and surprises

Each of these is visible in a model; the properties are worded so that they hold with it,
and the named operator or property shows where.

Locks and engine:

* Creation in etcd may install an older token after a newer one: the token is drawn
  before a transaction that does not compare the token key
  (`adapters/coordination/etcd_lock_manager.py:202`). `EtcdLock` implements `PrioritySpec`
  only.
* `release_lock` of the Redis and etcd managers tests and deletes in two requests
  (`adapters/coordination/redis_lock_manager.py:133`, `:142`; `etcd_lock_manager.py:126`,
  `:136`), so that it may delete the record of another caller that came in between, and a
  third comes in beside that one, whose own lease has not ended. `OverlapNeedsLostLease` names this
  case (`robbed`); without it the property is false.
* A run that lost its lease goes on: the engine never validates its token
  (`domain/remediation/engine.py:165`), and no operator is given one, while
  `docs/architecture/multi-agent-coordination.md:70` has fencing tokens reject stale holders.
* The lock is taken before the `try` whose `finally` releases it (`engine.py:126`): a raise
  of the STARTED emission leaks it until its lease ends (`LeakNeedsRaise`).
* The kill switch is looked at between actions: a staged restart goes on to its rollout
  (`KillStopsAtAction`), while the runbook says that the halt is immediate. `/system/halt`
  (`api/main.py`) sets a dictionary that the engine's kill switch does not read.
* The cooldown is checked before the lock is taken (`engine.py:67`, `:91`): a run that waits
  for the lock while another works acts inside the cooldown that one sets, though the
  agent "cannot act on the same resource within this window"
  (`docs/security/guardrails_configuration.md:15`). `CooldownHolds` names those runs.
* The limit on scaling is meant as twice the *current* replicas
  (`docs/security/guardrails_configuration.md:16`, and the acceptance criteria of phase 2),
  but `domain/safety/guardrails.py:48` passes none on, and the calculator assumes one. A
  scale-up of a service with two or more replicas is therefore denied, unless the cap
  brings it to two or less, where it may scale the service down (`WithinBlastRadius`).
  The module has what the code does; no property demands it.
* Restarts of Lambda functions and of auto-scaling groups raise `NotImplementedError`:
  such a plan is admitted and always fails (`ActionKind`).

Events and incidents:

* A relay crash between claim and settlement strands its rows as `processing` for ever
  (`adapters/persistence/postgres_outbox.py:75`), while
  `docs/architecture/persistence_architecture.md:31` says of a relay that crashes between
  XADD and marking the row `sent`: "the row is re-published on the next poll cycle", and
  `scripts/demo/live_demo_persistence_e2e.py:167` speaks of recovery. So does the lost
  reply of a claim that was committed. `SettledOrStranded` names the causes; it does not
  hold without the exception.
* `mark_dlq` moves a row from `sent` to `dlq` when the reply of `mark_sent` was lost on the
  last retry (`AtLeastOnce!Bury` admits it).
* The consumer group is created at `$`: entries published before the first subscribe are
  never delivered. One entry whose handlers always fail keeps a reader in its drain.
  Unacknowledged entries come again to a new reader only, and all processes share
  one consumer name (`config/settings.py:183`); XAUTOCLAIM is never called.
* A projection that failed is not repaired by the retry, which is refused as a duplicate;
  and any status is written over any other, so that a late diagnosis reopens a closed
  incident (`RowIsExplained`, `NewestLostNeedsCause`, `ReopenedAtMostOnce`).

Calls and notifications:

* HALF_OPEN is described as one probe (`adapters/cloud/resilience.py:73-85`); every call
  that looks before the first answer goes out. A request sent before the circuit opened
  closes it when it succeeds late.
* An API error of Slack is counted twice (`adapters/notifications/slack.py:457`, `:464`).
* A resolution goes down the chain afresh and stops at the first success: a page opened at
  the fallback provider stays open when the primary is back (`StrandedPageNeedsFailure`).
* `close` of the throttled adapter leaves queued callers waiting, and later ones as well.
  The pipeline always passes the default priority 3.

Diagnosis:

* A root cause corrected by the second model is not validated again and may be acted
  on autonomously.
* A cached result carries the severity and approval of the alert it was made for to every
  alert of the fingerprint, a graver one included, but never to another service, whose
  tier could be a better one (`WaiverIsEarned` states what holds).
* `agent_runs` refers to `incidents`
  (`adapters/persistence/migrations/006_schema_improvements.sql:62`),
  whose row is made after the pipeline has answered: the first diagnosis of each alert has
  no trace (`TraceIsTrue`).
* A deployment can lower the severity, from 3 to 4, near the threshold, where it is meant
  to raise it (`InducedLowersOnlyAtEdge`).

## 6. Not modelled

Of the modelled parts:

* Locks: audit rows (best effort, after the outcome), the layout of keys, several
  resources except in `InMemoryLock` (keys are independent in Redis and etcd).
* Engine: the choice among several operators, metrics and logs, cooldown stamps (the end
  of a cooldown is an event at any time), the verification on metrics that are constants
  in the code. All plans are for one resource. A lock manager is wired in; without one no
  mutual exclusion exists.
* Outbox: payloads, wall-clock time between polls, `enqueue`, `mark_failed` and
  `get_pending`, which no code calls. `SKIP LOCKED` makes simultaneous claims disjoint; a
  claim is one step, so that the model's second claim sees the first one's effect.
* Bus: serialisation, trimming of the stream, the wildcard reader on a stream of its own.
* Requests that reach a lock server, a cloud or a database after the process that sent
  them has died: a request takes effect while its sender waits for it, or not at all.
* Router: layout of messages, approval callbacks. LLM queue: counters and logs.
* Pipeline: timeline, token budget, prompts, events it emits; severity rules for data
  loss and security, which the pipeline never triggers.

Parts without a module:

* **Detection** (`domain/detection/`): the anomaly detector and the baselines are statistics
  on floating-point series, which TLC cannot enumerate faithfully. The bookkeeping around
  them (correlation of alerts, provider and component health, polling) has real
  interleavings and comes next in the plan; two hazards of the list wait for it.
* **Telemetry, cloud, LLM, vector and embedding adapters**: translate a request into a
  vendor's API and its answer into a record. What matters to the system, that the call
  succeeds, fails, is late or raises, is an action of the modules that call them. They
  are most of the lines of `adapters/`.
* **Demos and scripts** (`scripts/`): drive the components from outside, print, and
  make up their data. They are a large share of the repository's lines and hold
  no behaviour of the agent.
* **HTTP API, severity override, configuration, metrics, migrations**: single reads and
  writes without an `await` in between, or wiring. The constraints in the migrations that
  decide an outcome are in the modules that meet them.

## 7. Plan

Written so far: the three lock backends, the engine and the planner, outbox, bus,
projection, breaker with retries and router, LLM queue, pipeline and severity; proofs
of every safety property that a run checks of them.

Next, in this order:

1. `ProviderRegistry` with `ProviderHealth` and `PipelineMonitor`: the active provider
   switched while the health check of the old one is awaited; a component registered
   while heartbeats are checked.
2. `AlertCorrelation`: windows of alerts over the dependency graph; the services of an
   incident grow, so that a service can end up in two open incidents, where the first
   in list order wins.
3. Polling, late data, suppression of repeated alerts, signal correlation.
4. Severity override with the endpoint that reads it.

Proofs worth having next are those of the modules above, each with its first run.
