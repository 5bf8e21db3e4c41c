--------------------------- MODULE RemediationEngine ---------------------------
(***************************************************************************)
(* RemediationEngine.execute with its guardrails, kill switch, cooldown    *)
(* and resource lock: several plans for one resource run concurrently in   *)
(* one process, other agents contend for the resource's lock, and the      *)
(* process may die.  The code between two suspension points of execute is  *)
(* one step.  The lock is used through the promise of module FencedLock:   *)
(* acquire_lock is one step, release_lock the two requests that the Redis  *)
(* and etcd managers make of it, a read and a delete.                      *)
(* The event store and bus may raise at every emission; status rows are    *)
(* written best effort.                                                    *)
(***************************************************************************)
EXTENDS Naturals, Sequences, FiniteSets

CONSTANTS
    Runs,            \* calls of execute, all for plans on one resource
    Plans,           \* the remediation plans a run may be called with
    SreAgent,        \* agent_id of every engine
    OtherAgents,     \* agents that share the lock backend, not this engine
    OtherPriority,   \* the priority_level of each of them
    NoLock,
    HasStore,        \* a RemediationStorePort is wired into the engine
    MaxOtherGrants   \* bound: how often the other agents acquire the lock

EnginePriority == 2

Agents == {SreAgent} \cup OtherAgents
Priorities == {1, 2, 3}

ActionKinds == {"scale", "restart", "staged restart", "unsupported"}

ASSUME EngineAssumption ==
    /\ SreAgent \notin OtherAgents
    /\ Runs \cap OtherAgents = {}
    /\ NoLock \notin [agent : Agents, priority : Priorities, token : Nat \ {0}]
    /\ OtherPriority \in [OtherAgents -> Priorities]
    /\ \A p \in Plans : p.needsApproval \in BOOLEAN /\ p.approved \in BOOLEAN
                        /\ p.withinBlastRadius \in BOOLEAN /\ p.hasOperator \in BOOLEAN
                        /\ p.actions \in Seq(ActionKinds)
    /\ HasStore \in BOOLEAN
    /\ MaxOtherGrants \in Nat

VARIABLES
    lock, newest,   \* the resource's lock (module FencedLock)
    kill,           \* KillSwitch._active
    cooling,        \* the resource has an unexpired entry in CooldownEnforcer._cooldowns
    plan,           \* the plan of each run
    pc,             \* where each run of execute is suspended
    next,           \* index of the action the run is at
    token,          \* lock_result.fencing_token, 0 before
    status,         \* ActionStatus of each action, in memory
    rows,           \* remediation_actions.action_status of each action, "none" without a row
    calls,          \* history: operator calls that took effect, per action
    result,         \* how execute ended
    leaving,        \* other agents between the read and the delete of release_lock
    haltedCalls,    \* history: operator calls since the kill switch was activated
    racing,         \* history: runs in acquire_lock when another run set the cooldown
    lost,           \* history: callers whose lock record expired or was outranked
    robbed,         \* history: callers whose record another one's release deleted
    late            \* history: callers whose release deleted a record not their own

lockVars == <<lock, newest>>
guardVars == <<kill, cooling>>
runVars == <<pc, next, token, status, rows, result>>
leaseVars == <<leaving, lost, robbed, late>>
historyVars == <<calls, haltedCalls, racing, leaseVars>>
vars == <<lock, newest, kill, cooling, plan, pc, next, token, status, rows, result, calls,
          haltedCalls, racing, leaving, lost, robbed, late>>

Lock == INSTANCE FencedLock

ActionStatuses == {"proposed", "executing", "completed", "cancelled"}
Results == {"none", "denied", "cancelled", "success", "failed", "raised", "died"}
Points == {"new", "acquire", "announce", "act", "canary", "rollout", "report",
           "fail", "release", "delete", "done"}

\* Whoever holds a lock: calls of execute, which share an agent_id, and other agents.
Callers == Runs \cup OtherAgents

Indices(r) == 1..Len(plan[r].actions)
CallsOf(kind) == CASE kind = "staged restart" -> 2 [] kind = "unsupported" -> 0 [] OTHER -> 1

TypeOK ==
    /\ lock \in Lock!LockRecord \cup {NoLock}
    /\ newest \in Nat
    /\ kill \in BOOLEAN /\ cooling \in BOOLEAN
    /\ plan \in [Runs -> Plans]
    /\ pc \in [Runs -> Points]
    /\ token \in [Runs -> Nat]
    /\ result \in [Runs -> Results]
    /\ leaving \subseteq OtherAgents
    /\ racing \subseteq Runs
    /\ lost \subseteq Callers /\ robbed \subseteq Callers /\ late \subseteq Callers
    /\ haltedCalls \in [Runs -> Nat]
    /\ \A r \in Runs :
        /\ next[r] \in 1..Len(plan[r].actions) + 1
        /\ status[r] \in [Indices(r) -> ActionStatuses]
        /\ rows[r] \in [Indices(r) -> {"none", "planned", "executing", "completed", "failed"}]
        /\ calls[r] \in [Indices(r) -> 0..2]

Init ==
    /\ Lock!Init
    /\ kill = FALSE
    /\ cooling = FALSE
    /\ plan \in [Runs -> Plans]
    /\ pc = [r \in Runs |-> "new"]
    /\ next = [r \in Runs |-> 1]
    /\ token = [r \in Runs |-> 0]
    /\ status = [r \in Runs |-> [i \in Indices(r) |-> "proposed"]]
    /\ rows = [r \in Runs |-> [i \in Indices(r) |-> "none"]]
    /\ calls = [r \in Runs |-> [i \in Indices(r) |-> 0]]
    /\ haltedCalls = [r \in Runs |-> 0]
    /\ result = [r \in Runs |-> "none"]
    /\ racing = {}
    /\ leaving = {} /\ lost = {} /\ robbed = {} /\ late = {}

Goto(r, point) == pc' = [pc EXCEPT ![r] = point]

Return(r, outcome) ==
    /\ result' = [result EXCEPT ![r] = outcome]
    /\ Goto(r, "done")

\* An emission either succeeds, or raises out of the function.
EmitThenReturn(r, outcome) == Return(r, outcome) \/ Return(r, "raised")

-------------------------------------------------------------------------------
(* Guardrails, operator lookup and lock *)

Refused(p) == kill \/ (p.needsApproval /\ ~p.approved)

\* Mutant: validate takes every requester for one of priority 1, whom cooldown spares.
RefusedUncooled(p) == ~p.withinBlastRadius \/ ~p.hasOperator

RefusedLoudly(p) == ~p.withinBlastRadius \/ cooling \/ ~p.hasOperator

\* GuardrailOrchestrator.validate and the operator lookup do not suspend unless they
\* emit.  validate is called without a priority, so that cooldown binds every engine.
Deny(r) ==
    /\ pc[r] = "new"
    /\ \/ Refused(plan[r]) /\ Return(r, "denied")
       \/ ~Refused(plan[r]) /\ RefusedLoudly(plan[r]) /\ EmitThenReturn(r, "denied")
    /\ UNCHANGED <<lockVars, guardVars, plan, next, token, status, rows, historyVars>>

Admit(r) ==
    /\ pc[r] = "new"
    /\ ~Refused(plan[r])
    /\ ~RefusedLoudly(plan[r])
    /\ Goto(r, "acquire")
    /\ UNCHANGED <<lockVars, guardVars, plan, next, token, status, rows, historyVars, result>>

\* The callers whose record is the one under the lock key.
OwnsRecord(r) == lock # NoLock /\ lock.agent = SreAgent /\ lock.token = token[r]
Holders == {r \in Runs : OwnsRecord(r)} \cup {a \in OtherAgents : lock # NoLock /\ lock.agent = a}

\* acquire_lock grants a token newer than any before; a record of lower rank is replaced.
InstallRecord(agent, priority) ==
    /\ lock' = [agent |-> agent, priority |-> priority, token |-> newest + 1]
    /\ newest' = newest + 1
    /\ lost' = lost \cup {h \in Holders : priority < lock.priority}

\* Mutant: a holder of equal priority is preempted as well.
OutranksEqual(priority) == lock # NoLock => priority <= lock.priority

Outranks(priority) == lock # NoLock => priority < lock.priority

Acquire(r) ==
    /\ pc[r] = "acquire"
    /\ Outranks(EnginePriority)
    /\ InstallRecord(SreAgent, EnginePriority)
    /\ token' = [token EXCEPT ![r] = newest + 1]
    /\ Goto(r, "announce")
    /\ UNCHANGED <<guardVars, plan, next, status, rows, calls, haltedCalls, racing, leaving,
                   robbed, late, result>>

LockDenied(r) ==
    /\ pc[r] = "acquire"
    /\ ~Outranks(EnginePriority)
    /\ EmitThenReturn(r, "denied")
    /\ UNCHANGED <<lockVars, guardVars, plan, next, token, status, rows, historyVars>>

\* The lock backend fails, before it installed the record or after.
AcquireRaises(r) ==
    /\ pc[r] = "acquire"
    /\ \/ UNCHANGED <<lockVars, lost>>
       \/ Outranks(EnginePriority) /\ InstallRecord(SreAgent, EnginePriority)
    /\ Return(r, "raised")
    /\ UNCHANGED <<guardVars, plan, next, token, status, rows, calls, haltedCalls, racing,
                   leaving, robbed, late>>

\* REMEDIATION_STARTED, then the planned rows, each written or lost.
Announce(r) ==
    /\ pc[r] = "announce"
    /\ \E saved \in [Indices(r) -> IF HasStore THEN {"none", "planned"} ELSE {"none"}] :
            rows' = [rows EXCEPT ![r] = saved]
    /\ Goto(r, "act")
    /\ UNCHANGED <<lockVars, guardVars, plan, next, token, status, historyVars, result>>

\* The emission raises; it stands before the try block whose finally releases the lock.
AnnounceRaises(r) ==
    /\ pc[r] = "announce"
    /\ Return(r, "raised")
    /\ UNCHANGED <<lockVars, guardVars, plan, next, token, status, rows, historyVars>>

-------------------------------------------------------------------------------
(* The action loop *)

HasNext(r) == next[r] <= Len(plan[r].actions)

SetStatus(r, s) == status' = [status EXCEPT ![r][next[r]] = s]

\* update_status of a row that exists.  "executing" is no RemediationStatus, so that a
\* change from or to it is not judged; of the others, the engine makes none that
\* REMEDIATION_STATUS_TRANSITIONS allows.
UpdateAllowed(from, to) == from # "none" /\ "executing" \in {from, to}

\* Best effort: a rejected or failing update leaves the row as it is.
SetRow(r, s) ==
    \/ UNCHANGED rows
    \/ /\ UpdateAllowed(rows[r][next[r]], s)
       /\ rows' = [rows EXCEPT ![r][next[r]] = s]

\* Mutant: the kill switch is checked before the loop only.
StoppedAtFirst(r) == kill /\ next[r] = 1

Stopped(r) == kill

\* Mutant: the run waits until the kill switch is reset.
Pause(r) ==
    /\ pc[r] = "act"
    /\ HasNext(r)
    /\ Stopped(r)
    /\ UNCHANGED vars

Cancel(r) ==
    /\ pc[r] = "act"
    /\ HasNext(r)
    /\ Stopped(r)
    /\ SetStatus(r, "cancelled")
    /\ result' = [result EXCEPT ![r] = "cancelled"]
    /\ Goto(r, "release")
    /\ UNCHANGED <<lockVars, guardVars, plan, next, token, rows, historyVars>>

BeginAction(r) ==
    /\ pc[r] = "act"
    /\ HasNext(r)
    /\ ~Stopped(r)
    /\ SetStatus(r, "executing")
    /\ SetRow(r, "executing")
    /\ Goto(r, "canary")
    /\ UNCHANGED <<lockVars, guardVars, plan, next, token, historyVars, result>>

\* An operator call takes effect.
CallOperator(r) ==
    /\ calls' = [calls EXCEPT ![r][next[r]] = @ + 1]
    /\ haltedCalls' = [haltedCalls EXCEPT ![r] = IF kill THEN @ + 1 ELSE 0]

CompleteAction(r) ==
    /\ SetStatus(r, "completed")
    /\ SetRow(r, "completed")
    /\ next' = [next EXCEPT ![r] = @ + 1]
    /\ Goto(r, "act")

\* Mutant: the rollout is skipped.
CanaryOnly(r) == FALSE

\* total_targets > canary_size.
NeedsRollout(r) == plan[r].actions[next[r]] = "staged restart"

\* _execute_action: a scale or a restart is one call; a restart of more targets than the
\* canary batch goes on with the rollout batch.  Nothing is checked in between.
Canary(r) ==
    /\ pc[r] = "canary"
    /\ plan[r].actions[next[r]] # "unsupported"
    /\ CallOperator(r)
    /\ IF NeedsRollout(r)
         THEN /\ Goto(r, "rollout")
              /\ UNCHANGED <<next, status, rows>>
         ELSE CompleteAction(r)
    /\ UNCHANGED <<lockVars, guardVars, plan, token, racing, leaseVars, result>>

Rollout(r) ==
    /\ pc[r] = "rollout"
    /\ CallOperator(r)
    /\ CompleteAction(r)
    /\ UNCHANGED <<lockVars, guardVars, plan, token, racing, leaseVars, result>>

\* An operator call raises, with or without having taken effect; an unsupported action,
\* or a scale without desired_count, raises before any call.
CallRaises(r) ==
    /\ pc[r] \in {"canary", "rollout"}
    /\ \/ UNCHANGED <<calls, haltedCalls>>
       \/ plan[r].actions[next[r]] # "unsupported" /\ CallOperator(r)
    /\ Goto(r, "fail")
    /\ UNCHANGED <<lockVars, guardVars, plan, next, token, status, rows, racing, leaseVars, result>>

\* After the last action: the verification of constant metrics, and record_action.
RecordCooldown(r) ==
    /\ pc[r] = "act"
    /\ ~HasNext(r)
    /\ cooling' = TRUE
    /\ racing' = racing \cup {s \in Runs : pc[s] = "acquire"}
    /\ Goto(r, "report")
    /\ UNCHANGED <<lockVars, kill, plan, next, token, status, rows, calls, haltedCalls,
                   leaseVars, result>>

\* REMEDIATION_COMPLETED.
Report(r) ==
    /\ pc[r] = "report"
    /\ result' = [result EXCEPT ![r] = "success"]
    /\ Goto(r, "release")
    /\ UNCHANGED <<lockVars, guardVars, plan, next, token, status, rows, historyVars>>

ReportRaises(r) ==
    /\ pc[r] = "report"
    /\ Goto(r, "fail")
    /\ UNCHANGED <<lockVars, guardVars, plan, next, token, status, rows, historyVars, result>>

-------------------------------------------------------------------------------
(* The except and finally blocks *)

\* _persist_failure marks the rows of executing actions, REMEDIATION_FAILED is emitted.
Fail(r) ==
    /\ pc[r] = "fail"
    /\ LET failing == {i \in Indices(r) : /\ status[r][i] = "executing"
                                             /\ UpdateAllowed(rows[r][i], "failed")}
       IN \E marked \in SUBSET failing :
            rows' = [rows EXCEPT ![r] =
                        [i \in Indices(r) |-> IF i \in marked THEN "failed" ELSE @[i]]]
    /\ \E outcome \in {"failed", "raised"} : result' = [result EXCEPT ![r] = outcome]
    /\ Goto(r, "release")
    /\ UNCHANGED <<lockVars, guardVars, plan, next, token, status, historyVars>>

\* Mutant: only a successful run gives the lock back.
MayReleaseOnSuccess(r) == OwnsRecord(r) /\ result[r] = "success"

\* release_lock with the run's own fencing token.
MayRelease(r) == OwnsRecord(r)

\* The read of release_lock and its ownership test.
Release(r) ==
    /\ pc[r] = "release"
    /\ Goto(r, IF MayRelease(r) THEN "delete" ELSE "done")
    /\ UNCHANGED <<lockVars, guardVars, plan, next, token, status, rows, historyVars, result>>

ReleaseRaises(r) ==
    /\ pc[r] = "release"
    /\ Return(r, "raised")
    /\ UNCHANGED <<lockVars, guardVars, plan, next, token, status, rows, historyVars>>

\* The delete removes whatever record is there by now.
DeleteRecord(c) ==
    /\ IF lock = NoLock THEN UNCHANGED lockVars ELSE Lock!Vacate
    /\ IF lock = NoLock \/ c \in Holders
         THEN UNCHANGED <<robbed, late>>
         ELSE robbed' = robbed \cup Holders /\ late' = late \cup {c}
    /\ UNCHANGED lost

Delete(r) ==
    /\ pc[r] = "delete"
    /\ DeleteRecord(r)
    /\ Goto(r, "done")
    /\ UNCHANGED <<guardVars, plan, next, token, status, rows, calls, haltedCalls, racing,
                   leaving, result>>

\* The lock backend fails, before it deleted the record or after.
DeleteRaises(r) ==
    /\ pc[r] = "delete"
    /\ Return(r, "raised")
    /\ DeleteRecord(r) \/ UNCHANGED <<lockVars, lost, robbed, late>>
    /\ UNCHANGED <<guardVars, plan, next, token, status, rows, calls, haltedCalls, racing, leaving>>

-------------------------------------------------------------------------------
(* Operators, time, other agents, and death *)

\* KillSwitch.activate sets the flag before it emits.
Halt ==
    /\ ~kill
    /\ kill' = TRUE
    /\ haltedCalls' = [r \in Runs |-> 0]
    /\ UNCHANGED <<lockVars, cooling, plan, runVars, calls, racing, leaseVars>>

Resume ==
    /\ kill
    /\ kill' = FALSE
    /\ UNCHANGED <<lockVars, cooling, plan, runVars, historyVars>>

CooldownEnds ==
    /\ cooling
    /\ cooling' = FALSE
    /\ UNCHANGED <<lockVars, kill, plan, runVars, historyVars>>

\* The 180 s lease runs out; nothing renews it.
LeaseEnds ==
    /\ Lock!Vacate
    /\ lost' = lost \cup Holders
    /\ UNCHANGED <<guardVars, plan, runVars, calls, haltedCalls, racing, leaving, robbed, late>>

OtherGrants == newest - Cardinality({r \in Runs : token[r] # 0})

OtherAcquires(a) ==
    /\ OtherGrants < MaxOtherGrants
    /\ Outranks(OtherPriority[a])
    /\ InstallRecord(a, OtherPriority[a])
    /\ UNCHANGED <<guardVars, plan, runVars, calls, haltedCalls, racing, leaving, robbed, late>>

OtherReleases(a) ==
    /\ lock # NoLock
    /\ lock.agent = a
    /\ leaving' = leaving \cup {a}
    /\ UNCHANGED <<lockVars, guardVars, plan, runVars, calls, haltedCalls, racing, lost, robbed, late>>

OtherDeletes(a) ==
    /\ a \in leaving
    /\ leaving' = leaving \ {a}
    /\ DeleteRecord(a)
    /\ UNCHANGED <<guardVars, plan, runVars, calls, haltedCalls, racing>>

\* The process dies: runs, kill switch and cooldowns are in its memory only.
Crash ==
    /\ \E r \in Runs : pc[r] \notin {"new", "done"}
    /\ pc' = [r \in Runs |-> IF pc[r] = "new" THEN "new" ELSE "done"]
    /\ result' = [r \in Runs |-> IF pc[r] \in {"new", "done"} THEN result[r] ELSE "died"]
    /\ kill' = FALSE
    /\ cooling' = FALSE
    /\ UNCHANGED <<lockVars, plan, next, token, status, rows, historyVars>>

RunStep(r) ==
    \/ Deny(r) \/ Admit(r) \/ Acquire(r) \/ LockDenied(r) \/ AcquireRaises(r)
    \/ Announce(r) \/ AnnounceRaises(r) \/ Cancel(r) \/ BeginAction(r) \/ Canary(r) \/ Rollout(r) \/ CallRaises(r)
    \/ RecordCooldown(r) \/ Report(r) \/ ReportRaises(r) \/ Fail(r)
    \/ Release(r) \/ ReleaseRaises(r) \/ Delete(r) \/ DeleteRaises(r)

Next ==
    \/ \E r \in Runs : RunStep(r)
    \/ Halt \/ Resume \/ CooldownEnds \/ LeaseEnds \/ Crash
    \/ \E a \in OtherAgents : OtherAcquires(a) \/ OtherReleases(a) \/ OtherDeletes(a)

Spec == Init /\ [][Next]_vars

\* The event loop resumes every suspended call of execute; I/O calls return or raise.
FairSpec == Spec /\ \A r \in Runs : WF_vars(RunStep(r))
-------------------------------------------------------------------------------
(* Properties *)

Acting(r) == pc[r] \in {"act", "canary", "rollout", "report", "fail"}

Done(r, i) == calls[r][i] = CallsOf(plan[r].actions[i])

\* Callers whose record expired, was outranked, or was deleted by another's release.
Bereft == lost \cup robbed

\* Two runs are in their action loops on the same resource only when one of them lost its
\* record, by the end of its lease, to a preemption, or to the delete of a release that
\* came late; and one of the releases that came late is of a caller whose own lease ended
\* or was preempted.  The agent_id that all runs share lets nobody in.
OverlapNeedsLostLease ==
    /\ \A r, s \in Runs : r # s /\ Acting(r) /\ Acting(s) => r \in Bereft \/ s \in Bereft
    /\ robbed # {} => late \cap lost # {}

\* While the resource cools down, an operator is called only by a run that was waiting
\* for acquire_lock when the cooldown was set, after validate had let it pass, or after
\* some run lost its record, so that two were acting at a time.
CooldownHolds ==
    [][\A r \in Runs : cooling /\ calls'[r] # calls[r] =>
            r \in racing \/ Bereft \cap Runs # {}]_vars

\* Actions take effect in plan order, and only for a run that was granted the lock: an
\* operator is called for an action only when every earlier action is complete.
ActionsInOrder ==
    \A r \in Runs : \A i \in Indices(r) : calls[r][i] > 0 =>
        /\ token[r] # 0
        /\ \A j \in 1..(i - 1) : Done(r, j) /\ status[r][j] = "completed"

\* A stored row never says more than what happened: "completed" is stored only for an
\* action all of whose calls took effect, and it is never overwritten by a failure that
\* comes later in the run.
RowsAreTrue ==
    \A r \in Runs : \A i \in Indices(r) :
        /\ rows[r][i] = "completed" => Done(r, i)
        /\ rows[r][i] = "failed" => /\ result[r] \in {"failed", "raised", "died"}
                                    /\ status[r][i] = "executing"

\* What execute returns: a success is a whole plan carried out without a denial in
\* between, and a plan that was denied, by a guardrail or by the lock, did nothing.
ResultsAreTrue ==
    \A r \in Runs : \A i \in Indices(r) :
        /\ result[r] = "success" => Done(r, i) /\ status[r][i] = "completed"
        /\ result[r] = "denied" => calls[r][i] = 0 /\ token[r] = 0

\* What happened, what is stored and what is returned agree on every path.
RecordsAreTrue == TypeOK /\ ActionsInOrder /\ RowsAreTrue /\ ResultsAreTrue

\* After the kill switch is activated a run finishes at most the action it is in: two
\* operator calls, the canary and its rollout.
KillStopsAtAction == kill => \A r \in Runs : haltedCalls[r] <= 2

\* A run that has ended left its record under the lock key only if the emission of
\* REMEDIATION_STARTED or release_lock raised, or the process died.
LeakNeedsRaise ==
    \A r \in Runs : pc[r] = "done" /\ OwnsRecord(r) => result[r] \in {"raised", "died"}

\* Every call of execute ends: no path through the guardrails, the action loop and the
\* except and finally blocks waits for ever.
RunsEnd == \A r \in Runs : <>(pc[r] = "done")

===============================================================================
