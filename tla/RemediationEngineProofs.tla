------------------------- MODULE RemediationEngineProofs -------------------------
(***************************************************************************)
(* The remediation engine, for any set of runs, plans and agents.          *)
(*   LeaseInv: a run between acquire_lock and the end of release_lock owns *)
(*     the record under the lock key unless it lost it, an agent on its    *)
(*     way out likewise; tokens tell runs of the one shared agent_id       *)
(*     apart; and the first delete that came late had lost its lease.      *)
(*   CooldownInv: who may still act while the resource cools down.         *)
(*   RecordInv: what is known of each action of a plan from where the run  *)
(*     is in it - behind it, at it, before it - and of how the run ended.  *)
(*   HaltInv: how many calls a run may have made since the kill switch.    *)
(*   StepsLeft: how far a call of execute is from its end.                 *)
(* CooldownInv, RecordInv and HaltInv are inductive relative to LeaseInv;  *)
(* each run's part of RecordInv is a matter of that run alone.             *)
(***************************************************************************)
EXTENDS RemediationEngine, TLAPS

Holding(r) ==
    pc[r] \in {"announce", "act", "canary", "rollout", "report", "fail", "release", "delete"}

LeaseTyping ==
    /\ lock \in Lock!LockRecord \cup {NoLock}
    /\ newest \in Nat
    /\ token \in [Runs -> Nat]
    /\ pc \in [Runs -> Points]
    /\ leaving \subseteq OtherAgents
    /\ racing \subseteq Runs
    /\ lost \subseteq Callers /\ robbed \subseteq Callers /\ late \subseteq Callers

TokensKnown ==
    /\ \A r \in Runs : token[r] <= newest
    /\ \A r, s \in Runs : r # s /\ token[r] # 0 => token[r] # token[s]
    /\ \A r \in Runs : pc[r] \in {"new", "acquire"} => token[r] = 0
    /\ \A r \in Runs : Holding(r) => token[r] # 0

RecordKnown ==
    lock # NoLock =>
        /\ lock.token <= newest
        /\ lock.agent = SreAgent => lock.priority = EnginePriority

HoldersOwn ==
    /\ \A r \in Runs : Holding(r) /\ r \notin Bereft => OwnsRecord(r)
    /\ \A a \in leaving : a \notin Bereft => lock # NoLock /\ lock.agent = a

\* Whom a delete robbed was robbed by somebody, and one of the robbers had lost its lease.
BlameKnown ==
    /\ robbed # {} => late # {}
    /\ late # {} => late \cap lost # {}

LeaseInv == LeaseTyping /\ TokensKnown /\ RecordKnown /\ HoldersOwn /\ BlameKnown

\* No run holds anything at first.
LEMMA InitLease == Init => LeaseInv
BY DEF Init, LeaseInv, LeaseTyping, TokensKnown, RecordKnown, HoldersOwn, BlameKnown, Holding,
       Points, Lock!Init

\* The steps of a run that leave the lock, its token and what became of leases alone.
QuietStep(r) ==
    \/ Deny(r) \/ Admit(r) \/ LockDenied(r) \/ Announce(r) \/ AnnounceRaises(r)
    \/ Cancel(r) \/ BeginAction(r) \/ Canary(r) \/ Rollout(r) \/ CallRaises(r)
    \/ RecordCooldown(r) \/ Report(r) \/ ReportRaises(r) \/ Fail(r)
    \/ Release(r) \/ ReleaseRaises(r)

\* A quiet step moves one run to another point, and starts to hold the lock never.
LEMMA QuietShape ==
  ASSUME LeaseInv, NEW r \in Runs, QuietStep(r)
  PROVE  /\ UNCHANGED <<lock, newest, token, leaving, lost, robbed, late>>
         /\ racing' \subseteq Runs
         /\ \E point \in Points :
               /\ pc' = [pc EXCEPT ![r] = point]
               /\ point \notin {"new", "announce"}
               /\ Holding(r) => point # "acquire"
               /\ ~Holding(r) => point \in {"acquire", "done"}
               /\ point = "acquire" => pc[r] = "new"
<1> USE DEF Goto, Return, EmitThenReturn, lockVars, historyVars, leaseVars, Holding, Points
<1>0. racing \subseteq Runs
  BY DEF LeaseInv, LeaseTyping
<1>1. CASE Deny(r) \/ Admit(r) \/ LockDenied(r)
  BY <1>0, <1>1 DEF Deny, Admit, LockDenied
<1>2. CASE Announce(r) \/ AnnounceRaises(r)
  BY <1>0, <1>2 DEF Announce, AnnounceRaises
<1>3. CASE Cancel(r) \/ BeginAction(r)
  BY <1>0, <1>3 DEF Cancel, BeginAction
<1>4. CASE Canary(r)
  BY <1>0, <1>4 DEF Canary, CompleteAction
<1>5. CASE Rollout(r) \/ CallRaises(r)
  BY <1>0, <1>5 DEF Rollout, CallRaises, CompleteAction
<1>6. CASE RecordCooldown(r) \/ Report(r) \/ ReportRaises(r)
  BY <1>0, <1>6 DEF RecordCooldown, Report, ReportRaises
<1>7. CASE Fail(r)
  BY <1>0, <1>7 DEF Fail
<1>8. CASE Release(r) \/ ReleaseRaises(r)
  BY <1>0, <1>8 DEF Release, ReleaseRaises
<1>9. QED
  BY <1>1, <1>2, <1>3, <1>4, <1>5, <1>6, <1>7, <1>8 DEF QuietStep

\* Only the holder's points change in a quiet step, and the invariant with them.
LEMMA QuietLease ==
  ASSUME LeaseInv, NEW r \in Runs, QuietStep(r)
  PROVE  LeaseInv'
<1>1. UNCHANGED <<lock, newest, token, leaving, lost, robbed, late>> /\ racing' \subseteq Runs
  BY QuietShape
<1>2. PICK point \in Points :
         /\ pc' = [pc EXCEPT ![r] = point]
         /\ point \notin {"new", "announce"}
         /\ Holding(r) => point # "acquire"
         /\ ~Holding(r) => point \in {"acquire", "done"}
         /\ point = "acquire" => pc[r] = "new"
  BY QuietShape
<1>3. \A s \in Runs : Holding(s)' => Holding(s)
  BY <1>2 DEF LeaseInv, LeaseTyping, Holding
<1>4. \A s \in Runs : pc'[s] \in {"new", "acquire"} => pc[s] \in {"new", "acquire"}
  BY <1>2 DEF LeaseInv, LeaseTyping, Holding
<1>5. LeaseTyping'
  BY <1>1, <1>2 DEF LeaseInv, LeaseTyping
<1>6. TokensKnown'
  BY <1>1, <1>3, <1>4 DEF LeaseInv, TokensKnown
<1>7. RecordKnown' /\ HoldersOwn' /\ BlameKnown'
  BY <1>1, <1>3 DEF LeaseInv, RecordKnown, HoldersOwn, BlameKnown, Bereft, OwnsRecord
<1>8. QED
  BY <1>5, <1>6, <1>7 DEF LeaseInv

\* A record is installed over none or one that it outranks: whoever owned that has lost it,
\* and it is noted.
LEMMA InstallLease ==
  ASSUME LeaseInv, NEW agent \in Agents, NEW priority \in Priorities,
         agent = SreAgent => priority = EnginePriority,
         Outranks(priority), InstallRecord(agent, priority),
         UNCHANGED <<leaving, robbed, late, racing>>
  PROVE  /\ lock' # NoLock /\ lock'.agent = agent /\ lock'.token = newest + 1
         /\ lock' \in Lock!LockRecord /\ newest' = newest + 1 /\ newest' \in Nat
         /\ lost' \subseteq Callers /\ lost \subseteq lost'
         /\ RecordKnown' /\ BlameKnown'
         /\ \A s \in Runs : Holding(s) => s \in Bereft'
         /\ \A a \in leaving : a \in Bereft'
<1> DEFINE rec == [agent |-> agent, priority |-> priority, token |-> newest + 1]
<1>0. Holders = {h \in Holders : priority < lock.priority}
  BY DEF Outranks, Holders, OwnsRecord
<1>1. lock' = rec /\ newest' = newest + 1 /\ lost' = lost \cup Holders /\ newest \in Nat
  BY <1>0 DEF InstallRecord, LeaseInv, LeaseTyping
<1>2. rec \in Lock!LockRecord /\ rec # NoLock
  BY <1>1, EngineAssumption DEF Lock!LockRecord
<1>3. Holders \subseteq Callers
  BY DEF Holders, Callers
<1>4. lost' \subseteq Callers /\ lost \subseteq lost' /\ BlameKnown'
  BY <1>1, <1>3 DEF LeaseInv, LeaseTyping, BlameKnown
<1>5. RecordKnown'
  BY <1>1, <1>2 DEF RecordKnown
<1>6. ASSUME NEW s \in Runs, Holding(s) PROVE s \in Bereft'
  BY <1>1, <1>6 DEF LeaseInv, HoldersOwn, Bereft, Holders
<1>7. ASSUME NEW a \in leaving PROVE a \in Bereft'
  BY <1>1, <1>7 DEF LeaseInv, LeaseTyping, HoldersOwn, Bereft, Holders
<1> QED BY <1>1, <1>2, <1>4, <1>5, <1>6, <1>7

\* acquire_lock: the run comes by a token newer than any, and no other run owns a record.
LEMMA AcquireLease ==
  ASSUME LeaseInv, NEW r \in Runs, Acquire(r)
  PROVE  LeaseInv'
<1>0. /\ pc[r] = "acquire" /\ pc' = [pc EXCEPT ![r] = "announce"]
      /\ token' = [token EXCEPT ![r] = newest + 1]
      /\ Outranks(EnginePriority) /\ InstallRecord(SreAgent, EnginePriority)
      /\ UNCHANGED <<leaving, robbed, late, racing>>
  BY DEF Acquire, Goto
<1>1. /\ lock' # NoLock /\ lock'.agent = SreAgent /\ lock'.token = newest + 1
      /\ lock' \in Lock!LockRecord /\ newest' = newest + 1 /\ newest' \in Nat
      /\ lost' \subseteq Callers
      /\ RecordKnown' /\ BlameKnown'
      /\ \A s \in Runs : Holding(s) => s \in Bereft'
      /\ \A a \in leaving : a \in Bereft'
  BY <1>0, InstallLease DEF Agents, Priorities, EnginePriority
<1>2. LeaseTyping'
  BY <1>0, <1>1 DEF LeaseInv, LeaseTyping, Points
<1>3. TokensKnown'
  BY <1>0, <1>1 DEF LeaseInv, LeaseTyping, TokensKnown, Holding
<1>4. \A s \in Runs \ {r} : Holding(s)' => Holding(s)
  BY <1>0 DEF LeaseInv, LeaseTyping, Holding
<1>5. OwnsRecord(r)'
  BY <1>0, <1>1 DEF LeaseInv, LeaseTyping, OwnsRecord
<1>6. HoldersOwn'
  BY <1>0, <1>1, <1>4, <1>5 DEF HoldersOwn
<1> QED BY <1>1, <1>2, <1>3, <1>6 DEF LeaseInv

\* A record installed for nobody: an acquire_lock that raises after it, or another agent's.
LEMMA StrangeLease ==
  ASSUME LeaseInv, NEW agent \in Agents, NEW priority \in Priorities,
         agent = SreAgent => priority = EnginePriority,
         Outranks(priority), InstallRecord(agent, priority),
         UNCHANGED <<leaving, robbed, late, racing, token>>,
         pc' \in [Runs -> Points], \A s \in Runs : pc'[s] \in {pc[s], "done"}
  PROVE  LeaseInv'
<1>1. /\ lock' \in Lock!LockRecord /\ newest' = newest + 1 /\ newest' \in Nat
      /\ lost' \subseteq Callers
      /\ RecordKnown' /\ BlameKnown'
      /\ \A s \in Runs : Holding(s) => s \in Bereft'
      /\ \A a \in leaving : a \in Bereft'
  BY InstallLease
<1>2. \A s \in Runs : Holding(s)' => Holding(s)
  BY DEF Holding
<1>3. LeaseTyping'
  BY <1>1 DEF LeaseInv, LeaseTyping
<1>4. TokensKnown'
  <2>1. \A s \in Runs : token[s] \in Nat /\ newest \in Nat
    BY DEF LeaseInv, LeaseTyping
  <2> QED BY <1>1, <1>2, <2>1 DEF LeaseInv, TokensKnown
<1>5. HoldersOwn'
  BY <1>1, <1>2 DEF HoldersOwn
<1> QED BY <1>1, <1>3, <1>4, <1>5 DEF LeaseInv

\* An acquire_lock that raises, after it installed the record or before.
LEMMA AcquireRaisesLease ==
  ASSUME LeaseInv, NEW r \in Runs, AcquireRaises(r)
  PROVE  LeaseInv'
<1>0. /\ pc' = [pc EXCEPT ![r] = "done"] /\ UNCHANGED <<leaving, robbed, late, racing, token>>
      /\ \/ UNCHANGED <<lock, newest, lost>>
         \/ Outranks(EnginePriority) /\ InstallRecord(SreAgent, EnginePriority)
  BY DEF AcquireRaises, Return, Goto, lockVars
<1>1. pc' \in [Runs -> Points] /\ \A s \in Runs : pc'[s] \in {pc[s], "done"}
  BY <1>0 DEF LeaseInv, LeaseTyping, Points
<1>2. CASE UNCHANGED <<lock, newest, lost>>
  <2>1. \A s \in Runs : Holding(s)' => Holding(s)
    BY <1>1 DEF Holding
  <2> QED BY <1>0, <1>1, <1>2, <2>1 DEF LeaseInv, LeaseTyping, TokensKnown, RecordKnown,
            HoldersOwn, BlameKnown, Bereft, OwnsRecord
<1>3. CASE Outranks(EnginePriority) /\ InstallRecord(SreAgent, EnginePriority)
  BY <1>0, <1>1, <1>3, StrangeLease DEF Agents, Priorities, EnginePriority
<1> QED BY <1>0, <1>2, <1>3

\* The delete of release_lock: from a caller that still owns the record it takes nothing of
\* anybody else's; from one that does not, whoever owns the record is robbed of it.
LEMMA DeleteLease ==
  ASSUME LeaseInv, NEW c \in Callers, DeleteRecord(c), c \in Bereft \/ c \in Holders,
         UNCHANGED <<token, racing>>, leaving' \subseteq leaving \ {c},
         pc' \in [Runs -> Points], \A s \in Runs : pc'[s] \in {pc[s], "done"},
         \A s \in Runs : Holding(s)' => s # c
  PROVE  LeaseInv'
<1>1. /\ lock' = NoLock /\ newest' = newest /\ lost' = lost
      /\ \/ UNCHANGED <<robbed, late>> /\ (lock = NoLock \/ c \in Holders)
         \/ c \notin Holders /\ robbed' = robbed \cup Holders /\ late' = late \cup {c}
  BY DEF DeleteRecord, Lock!Vacate, lockVars
<1>2. \A s \in Runs : Holding(s)' => Holding(s)
  BY DEF Holding
<1>3. Holders \subseteq Callers
  BY DEF Holders, Callers
<1>4. LeaseTyping'
  BY <1>1, <1>3 DEF LeaseInv, LeaseTyping
<1>5. TokensKnown' /\ RecordKnown'
  BY <1>1, <1>2 DEF LeaseInv, TokensKnown, RecordKnown
<1>6. BlameKnown'
  <2>1. c \notin Holders => c \in lost \/ late \cap lost # {}
    BY DEF Bereft, LeaseInv, BlameKnown
  <2> QED BY <1>1, <2>1 DEF LeaseInv, BlameKnown
<1>7. ASSUME NEW s \in Runs, Holding(s)', s \notin Bereft' PROVE FALSE
  <2>1. OwnsRecord(s) /\ token[s] # 0 /\ s # c /\ s \notin Bereft
    BY <1>1, <1>2, <1>7 DEF LeaseInv, HoldersOwn, TokensKnown, Bereft
  <2>2. s \in Holders /\ lock # NoLock
    BY <2>1 DEF Holders, OwnsRecord
  <2>3. c \in Holders
    BY <1>1, <1>7, <2>2 DEF Bereft
  <2>4. c \notin OtherAgents
    BY <2>1, <2>3, EngineAssumption DEF Holders, OwnsRecord, Callers
  <2>5. c \in Runs /\ OwnsRecord(c)
    BY <2>3, <2>4 DEF Holders
  <2> QED BY <2>1, <2>5 DEF OwnsRecord, LeaseInv, TokensKnown
<1>8. ASSUME NEW a \in leaving', a \notin Bereft' PROVE FALSE
  <2>1. a \in OtherAgents /\ a # c /\ lock # NoLock /\ lock.agent = a
    BY <1>1, <1>8 DEF LeaseInv, LeaseTyping, HoldersOwn, Bereft
  <2>2. a \in Holders
    BY <2>1 DEF Holders
  <2>3. c \in Holders
    BY <1>1, <1>8, <2>1, <2>2 DEF Bereft
  <2> QED BY <2>1, <2>3, EngineAssumption DEF Holders, OwnsRecord
<1> QED BY <1>4, <1>5, <1>6, <1>7, <1>8 DEF LeaseInv, HoldersOwn

\* release_lock deletes what it read, or what has come to be there since.
LEMMA ReleaseLease ==
  ASSUME LeaseInv, NEW r \in Runs, Delete(r) \/ DeleteRaises(r)
  PROVE  LeaseInv'
<1>0. /\ pc[r] = "delete" /\ pc' = [pc EXCEPT ![r] = "done"] /\ UNCHANGED <<token, racing, leaving>>
      /\ DeleteRecord(r) \/ UNCHANGED <<lock, newest, lost, robbed, late>>
  BY DEF Delete, DeleteRaises, Return, Goto, lockVars
<1>1. pc' \in [Runs -> Points] /\ \A s \in Runs : pc'[s] \in {pc[s], "done"}
  BY <1>0 DEF LeaseInv, LeaseTyping, Points
<1>2. \A s \in Runs : Holding(s)' => Holding(s) /\ s # r
  BY <1>0 DEF LeaseInv, LeaseTyping, Holding
<1>3. CASE DeleteRecord(r)
  <2>1. r \in Callers /\ leaving' \subseteq leaving \ {r}
    BY <1>0, EngineAssumption DEF Callers, LeaseInv, LeaseTyping
  <2>2. r \in Bereft \/ r \in Holders
    BY <1>0 DEF LeaseInv, HoldersOwn, Holding, Holders
  <2> QED BY <1>0, <1>1, <1>2, <1>3, <2>1, <2>2, DeleteLease
<1>4. CASE UNCHANGED <<lock, newest, lost, robbed, late>>
  BY <1>0, <1>1, <1>2, <1>4 DEF LeaseInv, LeaseTyping, TokensKnown, RecordKnown,
     HoldersOwn, BlameKnown, Bereft, OwnsRecord
<1> QED BY <1>0, <1>3, <1>4

\* The environment takes the record away only from callers of which that is noted.
LEMMA EnvironmentLease ==
  ASSUME LeaseInv,
         \/ Halt \/ Resume \/ CooldownEnds \/ LeaseEnds \/ Crash \/ UNCHANGED vars
         \/ \E a \in OtherAgents : OtherAcquires(a) \/ OtherReleases(a) \/ OtherDeletes(a)
  PROVE  LeaseInv'
<1> USE DEF lockVars, runVars, historyVars, leaseVars
<1>1. CASE Halt \/ Resume \/ CooldownEnds \/ UNCHANGED vars
  <2>1. UNCHANGED <<lock, newest, token, pc, leaving, racing, lost, robbed, late>>
    BY <1>1 DEF Halt, Resume, CooldownEnds, vars
  <2> QED BY <2>1 DEF LeaseInv, LeaseTyping, TokensKnown, RecordKnown, HoldersOwn, BlameKnown,
            Holding, OwnsRecord, Bereft
<1>2. CASE LeaseEnds
  <2>1. /\ lock' = NoLock /\ lost' = lost \cup Holders
        /\ UNCHANGED <<newest, token, pc, leaving, racing, robbed, late>>
    BY <1>2 DEF LeaseEnds, Lock!Vacate
  <2>2. Holders \subseteq Callers
    BY DEF Holders, Callers
  <2>3. \A s \in Runs : Holding(s) => s \in Bereft'
    BY <2>1 DEF LeaseInv, HoldersOwn, Holders, Bereft
  <2>4. \A a \in leaving : a \in Bereft'
    BY <2>1 DEF LeaseInv, LeaseTyping, HoldersOwn, Holders, Bereft
  <2>5. LeaseTyping' /\ TokensKnown' /\ RecordKnown' /\ BlameKnown'
    BY <2>1, <2>2 DEF LeaseInv, LeaseTyping, TokensKnown, RecordKnown, BlameKnown, Holding
  <2>6. HoldersOwn'
    BY <2>1, <2>3, <2>4 DEF HoldersOwn, Holding
  <2> QED BY <2>5, <2>6 DEF LeaseInv
<1>3. CASE Crash
  <2>1. /\ pc' \in [Runs -> Points]
        /\ \A r \in Runs : pc'[r] \in {"new", "done"} /\ (pc'[r] = "new" => pc[r] = "new")
    BY <1>3 DEF Crash, Points
  <2>2. UNCHANGED <<lock, newest, token, leaving, racing, lost, robbed, late>>
    BY <1>3 DEF Crash
  <2>3. \A r \in Runs : ~Holding(r)'
    BY <2>1 DEF Holding
  <2> QED BY <2>1, <2>2, <2>3 DEF LeaseInv, LeaseTyping, TokensKnown, RecordKnown, HoldersOwn,
            BlameKnown, Bereft
<1>4. ASSUME NEW a \in OtherAgents, OtherAcquires(a) PROVE LeaseInv'
  <2>1. a \in Agents /\ OtherPriority[a] \in Priorities /\ a # SreAgent
    BY EngineAssumption DEF Agents
  <2>2. /\ Outranks(OtherPriority[a]) /\ InstallRecord(a, OtherPriority[a])
        /\ UNCHANGED <<leaving, robbed, late, racing, token, pc>>
    BY <1>4 DEF OtherAcquires
  <2>3. pc' \in [Runs -> Points]
    BY <2>2 DEF LeaseInv, LeaseTyping
  <2> QED BY <2>1, <2>2, <2>3, StrangeLease
<1>5. ASSUME NEW a \in OtherAgents, OtherReleases(a) PROVE LeaseInv'
  <2>1. /\ lock # NoLock /\ lock.agent = a /\ leaving' = leaving \cup {a}
        /\ UNCHANGED <<lock, newest, token, pc, racing, lost, robbed, late>>
    BY <1>5 DEF OtherReleases
  <2> QED BY <2>1 DEF LeaseInv, LeaseTyping, TokensKnown, RecordKnown, HoldersOwn, BlameKnown,
            Holding, OwnsRecord, Bereft
<1>6. ASSUME NEW a \in OtherAgents, OtherDeletes(a) PROVE LeaseInv'
  <2>1. /\ a \in leaving /\ leaving' = leaving \ {a} /\ DeleteRecord(a)
        /\ UNCHANGED <<token, pc, racing>>
    BY <1>6 DEF OtherDeletes
  <2>2. a \in Callers /\ a \notin Runs /\ (a \in Bereft \/ a \in Holders)
    BY <2>1, EngineAssumption DEF Callers, Holders, LeaseInv, HoldersOwn
  <2>3. pc' \in [Runs -> Points]
    BY <2>1 DEF LeaseInv, LeaseTyping
  <2> QED BY <2>1, <2>2, <2>3, DeleteLease
<1>7. QED
  BY <1>1, <1>2, <1>3, <1>4, <1>5, <1>6

\* A caller holds the record of its lease until the lease is lost, or until the delete of
\* another's release, which read the lock key while its own record was there, takes it.
THEOREM LeaseHeld == Spec => []LeaseInv
<1>1. LeaseInv /\ [Next]_vars => LeaseInv'
  BY QuietLease, AcquireLease, AcquireRaisesLease, ReleaseLease, EnvironmentLease DEF Next, RunStep, QuietStep
<1>2. QED
  BY InitLease, <1>1, PTL DEF Spec

\* Of two runs that hold the lock, one has lost its record.
LEMMA OneOwner ==
  ASSUME LeaseInv, NEW r \in Runs, NEW s \in Runs, r # s, Holding(r), Holding(s)
  PROVE  r \in Bereft \/ s \in Bereft
<1> SUFFICES ASSUME r \notin Bereft, s \notin Bereft PROVE FALSE
  OBVIOUS
<1>1. OwnsRecord(r) /\ OwnsRecord(s) /\ token[r] # 0
  BY DEF LeaseInv, HoldersOwn, TokensKnown
<1> QED BY <1>1 DEF OwnsRecord, LeaseInv, TokensKnown

\* Runs of execute overlap on a resource only after an expiry or a preemption, however
\* many runs, plans and agents there are, and although a release is a read and a delete.
THEOREM NoOverlap == Spec => []OverlapNeedsLostLease
<1>1. \A r \in Runs : Acting(r) => Holding(r)
  BY DEF Acting, Holding
<1>2. LeaseInv => OverlapNeedsLostLease
  BY <1>1, OneOwner DEF OverlapNeedsLostLease, LeaseInv, BlameKnown
<1>3. QED
  BY LeaseHeld, <1>2, PTL DEF Acting, Holding

-------------------------------------------------------------------------------
(* While the resource cools down *)

\* A run that validate let pass before the cooldown was set, or one that acted beside it.
CooldownInv ==
    cooling => \A r \in Runs :
        /\ pc[r] = "acquire" => r \in racing
        /\ pc[r] \in {"announce", "act", "canary", "rollout"} =>
             r \in racing \/ Bereft \cap Runs # {}

\* Losses are never made good.
LEMMA BereftStays == ASSUME LeaseInv, [Next]_vars PROVE Bereft \subseteq Bereft'
<1> USE DEF lockVars, runVars, historyVars, leaseVars, Bereft, DeleteRecord, InstallRecord
<1>1. CASE \E r \in Runs : QuietStep(r)
  BY <1>1, QuietShape
<1>2. ASSUME NEW r \in Runs, Acquire(r) \/ AcquireRaises(r) \/ Delete(r) \/ DeleteRaises(r)
      PROVE  Bereft \subseteq Bereft'
  BY <1>2 DEF Acquire, AcquireRaises, Delete, DeleteRaises
<1>3. ASSUME NEW a \in OtherAgents, OtherAcquires(a) \/ OtherReleases(a) \/ OtherDeletes(a)
      PROVE  Bereft \subseteq Bereft'
  BY <1>3 DEF OtherAcquires, OtherReleases, OtherDeletes
<1>4. CASE Halt \/ Resume \/ CooldownEnds \/ LeaseEnds \/ Crash \/ UNCHANGED vars
  BY <1>4 DEF Halt, Resume, CooldownEnds, LeaseEnds, Crash, vars
<1> QED BY <1>1, <1>2, <1>3, <1>4 DEF Next, RunStep, QuietStep

\* A step that sets no cooldown and admits nobody to acquire_lock under one.
LEMMA CooledStep ==
  ASSUME CooldownInv, Bereft \subseteq Bereft', racing \subseteq racing', cooling' => cooling,
         \A s \in Runs : cooling' /\ pc'[s] = "acquire" => pc[s] = "acquire",
         \A s \in Runs : pc'[s] \in {"announce", "act", "canary", "rollout"} =>
                            pc[s] \in {"acquire", "announce", "act", "canary", "rollout"}
  PROVE  CooldownInv'
BY DEF CooldownInv

\* Where the steps of a run lead, as far as the cooldown goes.
LEMMA RunCools ==
  ASSUME LeaseInv, CooldownInv, NEW r \in Runs, RunStep(r), [Next]_vars
  PROVE  CooldownInv'
<1> USE DEF Goto, Return, EmitThenReturn, guardVars, historyVars, leaseVars
<1>0. pc \in [Runs -> Points] /\ Bereft \subseteq Bereft'
  BY BereftStays DEF LeaseInv, LeaseTyping
<1>1. CASE Admit(r)
  BY <1>1 DEF Admit, RefusedLoudly, CooldownInv
<1>2. CASE RecordCooldown(r)
  <2>1. /\ pc[r] = "act" /\ pc' = [pc EXCEPT ![r] = "report"]
        /\ racing' = racing \cup {s \in Runs : pc[s] = "acquire"}
    BY <1>2 DEF RecordCooldown
  <2>2. ASSUME NEW s \in Runs, pc'[s] = "acquire" PROVE s \in racing'
    BY <1>0, <2>1, <2>2
  <2>3. ASSUME NEW s \in Runs, pc'[s] \in {"announce", "act", "canary", "rollout"}
        PROVE  Bereft' \cap Runs # {}
    <3>1. s # r /\ Holding(r) /\ Holding(s)
      BY <1>0, <2>1, <2>3 DEF Holding
    <3> QED BY <1>0, <3>1, OneOwner
  <2> QED BY <2>2, <2>3 DEF CooldownInv
<1>3. CASE Deny(r) \/ LockDenied(r) \/ AcquireRaises(r) \/ AnnounceRaises(r) \/ ReleaseRaises(r)
           \/ Delete(r) \/ DeleteRaises(r)
  <2>1. pc' = [pc EXCEPT ![r] = "done"] /\ cooling' = cooling /\ racing' = racing
    BY <1>3 DEF Deny, LockDenied, AcquireRaises, AnnounceRaises, ReleaseRaises, Delete, DeleteRaises
  <2> QED BY <1>0, <2>1, CooledStep
<1>4. CASE Acquire(r) \/ Announce(r) \/ BeginAction(r)
  <2>1. /\ pc[r] \in {"acquire", "announce", "act"} /\ cooling' = cooling /\ racing' = racing
        /\ \E point \in {"announce", "act", "canary"} : pc' = [pc EXCEPT ![r] = point]
    BY <1>4 DEF Acquire, Announce, BeginAction
  <2> QED BY <1>0, <2>1, CooledStep
<1>5. CASE Canary(r) \/ Rollout(r)
  <2>1. /\ pc[r] \in {"canary", "rollout"} /\ cooling' = cooling /\ racing' = racing
        /\ \E point \in {"rollout", "act"} : pc' = [pc EXCEPT ![r] = point]
    BY <1>5 DEF Canary, Rollout, CompleteAction
  <2> QED BY <1>0, <2>1, CooledStep
<1>6. CASE Cancel(r) \/ CallRaises(r) \/ Report(r) \/ ReportRaises(r) \/ Fail(r) \/ Release(r)
  <2>1. /\ cooling' = cooling /\ racing' = racing
        /\ \E point \in {"release", "fail", "delete", "done"} : pc' = [pc EXCEPT ![r] = point]
    BY <1>6 DEF Cancel, CallRaises, Report, ReportRaises, Fail, Release
  <2> QED BY <1>0, <2>1, CooledStep
<1> QED BY <1>1, <1>2, <1>3, <1>4, <1>5, <1>6 DEF RunStep

\* So does everything else leave it.
LEMMA StepCools == ASSUME LeaseInv, CooldownInv, [Next]_vars PROVE CooldownInv'
<1>0. Bereft \subseteq Bereft'
  BY BereftStays
<1>1. CASE \E r \in Runs : RunStep(r)
  BY <1>1, RunCools
<1>2. CASE Crash
  BY <1>2 DEF Crash, CooldownInv
<1>3. CASE Halt \/ Resume \/ CooldownEnds \/ LeaseEnds \/ UNCHANGED vars
           \/ \E a \in OtherAgents : OtherAcquires(a) \/ OtherReleases(a) \/ OtherDeletes(a)
  <2>1. UNCHANGED <<pc, racing>> /\ (cooling' => cooling)
    BY <1>3 DEF Halt, Resume, CooldownEnds, LeaseEnds, OtherAcquires, OtherReleases,
       OtherDeletes, vars, guardVars, runVars, historyVars
  <2> QED BY <1>0, <2>1, CooledStep
<1> QED BY <1>1, <1>2, <1>3 DEF Next

\* Only the two operator calls of an action have effects.
LEMMA WhoCalls ==
  ASSUME [Next]_vars, NEW r \in Runs, calls'[r] # calls[r], calls = [s \in Runs |-> calls[s]]
  PROVE  pc[r] \in {"canary", "rollout"}
<1> USE DEF historyVars
<1>1. ASSUME NEW s \in Runs, Canary(s) \/ Rollout(s) \/ CallRaises(s)
      PROVE  pc[r] \in {"canary", "rollout"}
  BY <1>1 DEF Canary, Rollout, CallRaises, CallOperator
<1>2. ASSUME NEW s \in Runs, RunStep(s), ~(Canary(s) \/ Rollout(s) \/ CallRaises(s))
      PROVE  calls' = calls
  BY <1>2 DEF RunStep, Deny, Admit, Acquire, LockDenied, AcquireRaises, Announce, AnnounceRaises,
     Cancel, BeginAction, RecordCooldown, Report, ReportRaises, Fail, Release, ReleaseRaises,
     Delete, DeleteRaises
<1>3. ASSUME ~(\E s \in Runs : RunStep(s)) PROVE calls' = calls
  BY <1>3 DEF Next, Halt, Resume, CooldownEnds, LeaseEnds, Crash, OtherAcquires,
     OtherReleases, OtherDeletes, vars
<1> QED BY <1>1, <1>2, <1>3

-------------------------------------------------------------------------------
(* What is known of each action of a plan, and of what execute returns *)

\* Nothing has been done for an action yet.
Untouched(r, i) ==
    calls[r][i] = 0 /\ status[r][i] = "proposed" /\ rows[r][i] \in {"none", "planned"}

\* The action a run is at.
AtAction(r, i) ==
    /\ pc[r] \in {"new", "acquire", "announce", "act"} => Untouched(r, i)
    /\ pc[r] \in {"canary", "rollout"} =>
         /\ status[r][i] = "executing"
         /\ calls[r][i] = IF pc[r] = "canary" THEN 0 ELSE 1
    /\ pc[r] = "rollout" => plan[r].actions[i] = "staged restart"
    /\ rows[r][i] # "completed"
    /\ rows[r][i] = "failed" => /\ result[r] \in {"failed", "raised", "died"}
                                /\ status[r][i] = "executing"

ActionsKnown(r) ==
    \A i \in Indices(r) :
        /\ i < next[r] => Done(r, i) /\ status[r][i] = "completed" /\ rows[r][i] # "failed"
        /\ i = next[r] => AtAction(r, i)
        /\ i > next[r] => Untouched(r, i)
        /\ calls[r][i] <= CallsOf(plan[r].actions[i])
        /\ calls[r][i] > 0 => token[r] # 0

\* What no later event can take back of the guardrails' verdict.
Admissible(p) ==
    (p.needsApproval => p.approved) /\ p.withinBlastRadius /\ p.hasOperator

ReturnKnown(r) ==
    /\ pc[r] \notin {"release", "delete", "done"} => result[r] = "none"
    /\ pc[r] \in {"release", "delete"} => result[r] \notin {"none", "denied"}
    /\ pc[r] = "report" \/ result[r] = "success" => next[r] = Len(plan[r].actions) + 1
    /\ pc[r] \in {"canary", "rollout"} => next[r] <= Len(plan[r].actions)
    /\ pc[r] \in {"new", "acquire"} \/ result[r] = "denied" => token[r] = 0
    /\ Holding(r) => token[r] # 0
    /\ pc[r] = "acquire" \/ token[r] # 0 => Admissible(plan[r])

\* Each map of the engine has an entry for every run.
MapsTyping ==
    /\ plan \in [Runs -> Plans]
    /\ pc \in [Runs -> Points]
    /\ token \in [Runs -> Nat]
    /\ result \in [Runs -> Results]
    /\ next = [r \in Runs |-> next[r]]
    /\ status = [r \in Runs |-> status[r]]
    /\ rows = [r \in Runs |-> rows[r]]
    /\ calls = [r \in Runs |-> calls[r]]

RowStatuses == {"none", "planned", "executing", "completed", "failed"}

RunTyping(r) ==
    /\ next[r] \in 1..Len(plan[r].actions) + 1
    /\ status[r] \in [Indices(r) -> ActionStatuses]
    /\ rows[r] \in [Indices(r) -> RowStatuses]
    /\ calls[r] \in [Indices(r) -> 0..2]

RunInv(r) == RunTyping(r) /\ ActionsKnown(r) /\ ReturnKnown(r)

RecordInv == MapsTyping /\ \A r \in Runs : RunInv(r)

\* How many operator calls each kind of action makes.
LEMMA CallsOfKind ==
  /\ CallsOf("staged restart") = 2
  /\ CallsOf("unsupported") = 0
  /\ CallsOf("scale") = 1 /\ CallsOf("restart") = 1
BY Zenon DEF CallsOf

\* The actions of a run are those of a plan: finitely many, each of a known kind.
LEMMA PlanShape ==
  ASSUME MapsTyping, NEW r \in Runs
  PROVE  /\ Len(plan[r].actions) \in Nat
         /\ Indices(r) = 1..Len(plan[r].actions)
         /\ \A i \in Indices(r) : /\ plan[r].actions[i] \in ActionKinds
                                  /\ CallsOf(plan[r].actions[i]) \in 0..2
<1>1. plan[r].actions \in Seq(ActionKinds)
  BY EngineAssumption DEF MapsTyping
<1>2. \A i \in Indices(r) : plan[r].actions[i] \in ActionKinds
  BY <1>1 DEF Indices
<1>3. \A kind \in ActionKinds : CallsOf(kind) \in {0, 1, 2}
  BY CallsOfKind DEF ActionKinds
<1> QED BY <1>1, <1>2, <1>3 DEF Indices

\* No action has begun at first.
LEMMA InitRecords == Init => RecordInv
<1> SUFFICES ASSUME Init PROVE RecordInv
  OBVIOUS
<1>1. MapsTyping
  BY DEF Init, MapsTyping, Points, Results
<1> SUFFICES ASSUME NEW r \in Runs PROVE RunInv(r)
  BY <1>1 DEF RecordInv
<1>2. /\ pc[r] = "new" /\ next[r] = 1 /\ token[r] = 0 /\ result[r] = "none"
      /\ status[r] = [i \in Indices(r) |-> "proposed"]
      /\ rows[r] = [i \in Indices(r) |-> "none"]
      /\ calls[r] = [i \in Indices(r) |-> 0]
  BY DEF Init
<1>3. RunTyping(r)
  BY <1>1, <1>2, PlanShape DEF RunTyping, ActionStatuses, RowStatuses
<1>4. ActionsKnown(r)
  BY <1>1, <1>2, PlanShape DEF ActionsKnown, AtAction, Untouched
<1>5. ReturnKnown(r)
  BY <1>2 DEF ReturnKnown, Holding
<1> QED BY <1>3, <1>4, <1>5 DEF RunInv

\* What a step does not touch of a run.
Same(r) ==
    /\ plan'[r] = plan[r] /\ pc'[r] = pc[r] /\ token'[r] = token[r] /\ result'[r] = result[r]
    /\ next'[r] = next[r] /\ status'[r] = status[r] /\ rows'[r] = rows[r] /\ calls'[r] = calls[r]

\* What is known of a run depends on that run alone.
LEMMA SameKeeps == ASSUME NEW r \in Runs, RunInv(r), Same(r) PROVE RunInv(r)'
<1>1. Indices(r)' = Indices(r) /\ \A i : Done(r, i)' <=> Done(r, i)
  BY DEF Same, Indices, Done
<1>2. \A i : Untouched(r, i)' <=> Untouched(r, i)
  BY DEF Same, Untouched
<1>3. \A i : AtAction(r, i)' <=> AtAction(r, i)
  BY <1>2 DEF Same, AtAction
<1>4. RunTyping(r)' /\ ActionsKnown(r)'
  BY <1>1, <1>2, <1>3 DEF Same, RunInv, RunTyping, ActionsKnown
<1>5. ReturnKnown(r)'
  BY DEF Same, RunInv, ReturnKnown, Holding
<1> QED BY <1>4, <1>5 DEF RunInv

\* A run that goes on to another point, or ends, before it has acted or after: the plan,
\* the position in it, and what is known of its actions stay.
KeepsActions(r) ==
    /\ plan'[r] = plan[r] /\ next'[r] = next[r] /\ status'[r] = status[r]
    /\ rows'[r] = rows[r] /\ calls'[r] = calls[r]

\* A run that moves leaves the other runs alone.
LEMMA LeaveOthers ==
  ASSUME MapsTyping, NEW r \in Runs, NEW point \in Points, NEW outcome,
         UNCHANGED <<plan, next, token, status, rows, calls>>,
         pc' = [pc EXCEPT ![r] = point], 
         result' = [result EXCEPT ![r] = outcome], outcome \in Results
  PROVE  /\ MapsTyping' /\ KeepsActions(r) /\ token'[r] = token[r]
         /\ pc'[r] = point /\ result'[r] = outcome
         /\ \A s \in Runs \ {r} : Same(s)
BY DEF MapsTyping, Same, KeepsActions

\* A step of one run is judged by that run alone.
LEMMA OneRun ==
  ASSUME RecordInv, NEW r \in Runs, MapsTyping', \A s \in Runs \ {r} : Same(s), RunInv(r)'
  PROVE  RecordInv'
BY SameKeeps DEF RecordInv

\* Before the run acts, and once it has ended.
LEMMA QuietKeeps ==
  ASSUME NEW r \in Runs, RunInv(r), MapsTyping, KeepsActions(r), token'[r] = token[r],
         \/ pc[r] = "new" /\ pc'[r] = "acquire" /\ Admissible(plan[r]) /\ result'[r] = result[r]
         \/ pc[r] \in {"new", "acquire"} /\ pc'[r] = "done" /\ result'[r] \in {"denied", "raised"}
         \/ pc[r] = "announce" /\ pc'[r] = "done" /\ result'[r] = "raised"
         \/ pc[r] = "act" /\ pc'[r] = "report" /\ ~HasNext(r) /\ result'[r] = result[r]
         \/ pc[r] = "report" /\ pc'[r] = "release" /\ result'[r] = "success"
         \/ pc[r] = "report" /\ pc'[r] = "fail" /\ result'[r] = result[r]
         \/ pc[r] = "release" /\ pc'[r] = "delete" /\ result'[r] = result[r]
         \/ pc[r] \in {"release", "delete"} /\ pc'[r] = "done" /\ result'[r] \in {result[r], "raised"}
         \/ pc[r] \notin {"new", "done"} /\ pc'[r] = "done" /\ result'[r] = "died"
  PROVE  RunInv(r)'
<1>1. Indices(r)' = Indices(r) /\ (\A i : Done(r, i)' <=> Done(r, i))
      /\ (\A i : Untouched(r, i)' <=> Untouched(r, i))
  BY DEF KeepsActions, Indices, Done, Untouched
<1>2. RunTyping(r)'
  BY <1>1 DEF RunInv, RunTyping, KeepsActions
<1>3. ReturnKnown(r)'
  <2>1. next[r] \in 1..Len(plan[r].actions) + 1 /\ Len(plan[r].actions) \in Nat
    BY PlanShape DEF RunInv, RunTyping
  <2> QED BY <2>1 DEF RunInv, ReturnKnown, KeepsActions, Holding, HasNext
<1>4. ASSUME NEW i \in Indices(r), i = next[r] PROVE AtAction(r, i)'
  <2>1. AtAction(r, i) /\ i <= Len(plan[r].actions)
    BY <1>4, PlanShape DEF RunInv, ActionsKnown
  <2> QED BY <1>1, <2>1, <1>4 DEF AtAction, RunInv, ReturnKnown, KeepsActions, HasNext, Untouched
<1>5. ActionsKnown(r)'
  BY <1>1, <1>4 DEF ActionsKnown, RunInv, KeepsActions
<1> QED BY <1>2, <1>3, <1>5 DEF RunInv

\* Where a run is at an action of its plan.
LEMMA AtItsAction ==
  ASSUME MapsTyping, NEW r \in Runs, RunInv(r), next[r] <= Len(plan[r].actions)
  PROVE  /\ next[r] \in Indices(r) /\ AtAction(r, next[r])
         /\ next[r] + 1 \in 1..Len(plan[r].actions) + 1
         /\ next[r] \in Nat
<1>1. next[r] \in 1..Len(plan[r].actions) + 1 /\ Len(plan[r].actions) \in Nat
      /\ Indices(r) = 1..Len(plan[r].actions)
  BY PlanShape DEF RunInv, RunTyping
<1>2. next[r] \in Indices(r)
  BY <1>1
<1> QED BY <1>1, <1>2 DEF RunInv, ActionsKnown

\* acquire_lock hands out a token.
LEMMA AcquireRecords ==
  ASSUME RecordInv, newest \in Nat, NEW r \in Runs, Acquire(r)
  PROVE  RecordInv'
<1>1. /\ pc[r] = "acquire" /\ pc' = [pc EXCEPT ![r] = "announce"]
      /\ token' = [token EXCEPT ![r] = newest + 1]
      /\ UNCHANGED <<plan, next, status, rows, calls, result>>
  BY DEF Acquire, Goto, historyVars
<1>2. /\ MapsTyping' /\ KeepsActions(r) /\ \A s \in Runs \ {r} : Same(s)
      /\ pc'[r] = "announce" /\ token'[r] # 0 /\ result'[r] = result[r]
  BY <1>1 DEF RecordInv, MapsTyping, Same, KeepsActions, Points
<1>3. RunInv(r) /\ MapsTyping
  BY DEF RecordInv
<1>4. Indices(r)' = Indices(r) /\ (\A i : Done(r, i)' <=> Done(r, i))
      /\ (\A i : Untouched(r, i)' <=> Untouched(r, i))
  BY <1>2 DEF KeepsActions, Indices, Done, Untouched
<1>5. RunTyping(r)'
  BY <1>2, <1>3, <1>4 DEF RunInv, RunTyping, KeepsActions
<1>6. ReturnKnown(r)'
  BY <1>1, <1>2, <1>3 DEF RunInv, ReturnKnown, KeepsActions, Holding
<1>7. ASSUME NEW i \in Indices(r), i = next[r] PROVE AtAction(r, i)'
  BY <1>1, <1>2, <1>3, <1>4, <1>7 DEF RunInv, ActionsKnown, AtAction, KeepsActions
<1>8. ActionsKnown(r)'
  BY <1>2, <1>3, <1>4, <1>7 DEF ActionsKnown, RunInv, KeepsActions
<1> QED BY <1>2, <1>5, <1>6, <1>8, OneRun DEF RunInv

\* The planned rows are written, or lost.
LEMMA AnnounceRecords ==
  ASSUME RecordInv, NEW r \in Runs, Announce(r)
  PROVE  RecordInv'
<1>1. PICK saved \in [Indices(r) -> IF HasStore THEN {"none", "planned"} ELSE {"none"}] :
         rows' = [rows EXCEPT ![r] = saved]
  BY DEF Announce
<1>2. /\ pc[r] = "announce" /\ pc' = [pc EXCEPT ![r] = "act"]
      /\ UNCHANGED <<plan, next, token, status, calls, result>>
  BY DEF Announce, Goto, historyVars
<1>3. saved \in [Indices(r) -> {"none", "planned"}]
  BY <1>1
<1>4. /\ MapsTyping' /\ \A s \in Runs \ {r} : Same(s)
      /\ pc'[r] = "act" /\ rows'[r] = saved
  BY <1>1, <1>2 DEF RecordInv, MapsTyping, Same, Points
<1>5. RunInv(r) /\ MapsTyping
  BY DEF RecordInv
<1>6. Indices(r)' = Indices(r) /\ \A i : Done(r, i)' <=> Done(r, i)
  BY <1>2 DEF Indices, Done
<1>7. \A i \in Indices(r) : saved[i] \in {"none", "planned"}
  BY <1>3
<1>8. RunTyping(r)'
  BY <1>2, <1>3, <1>4, <1>5, <1>6 DEF RunInv, RunTyping, RowStatuses
<1>9. ReturnKnown(r)'
  BY <1>2, <1>4, <1>5 DEF RunInv, ReturnKnown, Holding
<1>10. ActionsKnown(r)'
  BY <1>2, <1>4, <1>5, <1>6, <1>7 DEF RunInv, ActionsKnown, AtAction, Untouched
<1> QED BY <1>4, <1>8, <1>9, <1>10, OneRun DEF RunInv

\* A step at an action leaves the others of the plan alone.
ElseSame(r, n) ==
    \A i \in Indices(r) \ {n} :
        status'[r][i] = status[r][i] /\ rows'[r][i] = rows[r][i] /\ calls'[r][i] = calls[r][i]

\* A step at an action that stays there.
LEMMA StaysAtAction ==
  ASSUME MapsTyping, NEW r \in Runs, RunInv(r), NEW n \in Indices(r), n = next[r],
         plan'[r] = plan[r], next'[r] = n, token'[r] = token[r], token[r] # 0,
         ElseSame(r, n), calls'[r][n] <= CallsOf(plan[r].actions[n]), AtAction(r, n)'
  PROVE  ActionsKnown(r)'
<1>1. Indices(r)' = Indices(r) /\ Indices(r) = 1..Len(plan[r].actions)
      /\ Len(plan[r].actions) \in Nat
  BY PlanShape DEF Indices
<1> SUFFICES ASSUME NEW i \in Indices(r)
             PROVE  /\ i < n => Done(r, i)' /\ status'[r][i] = "completed" /\ rows'[r][i] # "failed"
                    /\ i = n => AtAction(r, i)'
                    /\ i > n => Untouched(r, i)'
                    /\ calls'[r][i] <= CallsOf(plan[r].actions[i])
                    /\ calls'[r][i] > 0 => token[r] # 0
  BY <1>1 DEF ActionsKnown
<1>2. CASE i = n
  BY <1>1, <1>2
<1>3. CASE i # n
  <2>1. status'[r][i] = status[r][i] /\ rows'[r][i] = rows[r][i] /\ calls'[r][i] = calls[r][i]
    BY <1>3 DEF ElseSame
  <2>2. (Done(r, i)' <=> Done(r, i)) /\ (Untouched(r, i)' <=> Untouched(r, i))
    BY <2>1 DEF Done, Untouched
  <2> QED BY <1>1, <1>3, <2>1, <2>2 DEF RunInv, ActionsKnown
<1> QED BY <1>2, <1>3

\* A step that completes an action and goes on to the next.
LEMMA GoesOn ==
  ASSUME MapsTyping, NEW r \in Runs, RunInv(r), NEW n \in Indices(r), n = next[r],
         plan'[r] = plan[r], next'[r] = n + 1, token'[r] = token[r], token[r] # 0,
         ElseSame(r, n), Done(r, n)', status'[r][n] = "completed", rows'[r][n] # "failed",
         pc'[r] = "act"
  PROVE  ActionsKnown(r)'
<1>1. Indices(r)' = Indices(r) /\ Indices(r) = 1..Len(plan[r].actions)
      /\ Len(plan[r].actions) \in Nat /\ n \in Nat
  BY PlanShape DEF Indices
<1> SUFFICES ASSUME NEW i \in Indices(r)
             PROVE  /\ i < n + 1 => Done(r, i)' /\ status'[r][i] = "completed" /\ rows'[r][i] # "failed"
                    /\ i = n + 1 => AtAction(r, i)'
                    /\ i > n + 1 => Untouched(r, i)'
                    /\ calls'[r][i] <= CallsOf(plan[r].actions[i])
                    /\ calls'[r][i] > 0 => token[r] # 0
  BY <1>1 DEF ActionsKnown
<1>2. CASE i = n
  <2>1. calls'[r][i] = CallsOf(plan[r].actions[i]) /\ CallsOf(plan[r].actions[i]) \in Nat
    BY <1>2, PlanShape DEF Done
  <2> QED BY <1>1, <1>2, <2>1
<1>3. CASE i # n
  <2>1. status'[r][i] = status[r][i] /\ rows'[r][i] = rows[r][i] /\ calls'[r][i] = calls[r][i]
    BY <1>3 DEF ElseSame
  <2>2. (Done(r, i)' <=> Done(r, i)) /\ (Untouched(r, i)' <=> Untouched(r, i))
    BY <2>1 DEF Done, Untouched
  <2>3. Untouched(r, i)' => AtAction(r, i)'
    BY <1>1 DEF Untouched, AtAction
  <2> QED BY <1>1, <1>3, <2>1, <2>2, <2>3 DEF RunInv, ActionsKnown
<1> QED BY <1>2, <1>3

\* The kill switch is seen before an action.
LEMMA CancelRecords ==
  ASSUME RecordInv, NEW r \in Runs, Cancel(r)
  PROVE  RecordInv'
<1> DEFINE n == next[r]
<1>0. RunInv(r) /\ MapsTyping
  BY DEF RecordInv
<1>1. /\ pc[r] = "act" /\ n <= Len(plan[r].actions) /\ pc' = [pc EXCEPT ![r] = "release"]
      /\ status' = [status EXCEPT ![r][n] = "cancelled"]
      /\ result' = [result EXCEPT ![r] = "cancelled"]
      /\ UNCHANGED <<plan, next, token, rows, calls>>
  BY DEF Cancel, Goto, historyVars, SetStatus, HasNext
<1>2. /\ MapsTyping' /\ \A s \in Runs \ {r} : Same(s)
      /\ pc'[r] = "release" /\ result'[r] = "cancelled"
      /\ status'[r] = [status[r] EXCEPT ![n] = "cancelled"]
  BY <1>0, <1>1 DEF MapsTyping, Same, Points, Results
<1>3. n \in Indices(r) /\ AtAction(r, n) /\ token[r] # 0 /\ RunTyping(r)
  BY <1>0, <1>1, AtItsAction DEF RunInv, ReturnKnown, Holding
<1>4. status'[r] \in [Indices(r) -> ActionStatuses] /\ ElseSame(r, n)
  BY <1>1, <1>2, <1>3 DEF RunTyping, ActionStatuses, ElseSame
<1>5. RunTyping(r)'
  BY <1>1, <1>3, <1>4 DEF RunTyping, Indices
<1>6. ReturnKnown(r)'
  BY <1>0, <1>1, <1>2 DEF RunInv, ReturnKnown, Holding
<1>7. AtAction(r, n)' /\ calls'[r][n] <= CallsOf(plan[r].actions[n])
  BY <1>0, <1>1, <1>2, <1>3 DEF AtAction, Untouched, RunInv, ActionsKnown
<1>8. ActionsKnown(r)'
  BY <1>0, <1>1, <1>3, <1>4, <1>7, StaysAtAction
<1> QED BY <1>2, <1>5, <1>6, <1>8, OneRun DEF RunInv

\* An action begins; its row may or may not say so.
LEMMA BeginRecords ==
  ASSUME RecordInv, NEW r \in Runs, BeginAction(r)
  PROVE  RecordInv'
<1> DEFINE n == next[r]
<1>0. RunInv(r) /\ MapsTyping
  BY DEF RecordInv
<1>1. /\ pc[r] = "act" /\ n <= Len(plan[r].actions) /\ pc' = [pc EXCEPT ![r] = "canary"]
      /\ status' = [status EXCEPT ![r][n] = "executing"]
      /\ rows' \in {rows, [rows EXCEPT ![r][n] = "executing"]}
      /\ UNCHANGED <<plan, next, token, result, calls>>
  BY DEF BeginAction, Goto, historyVars, SetStatus, HasNext, SetRow
<1>2. /\ MapsTyping' /\ \A s \in Runs \ {r} : Same(s)
      /\ pc'[r] = "canary" /\ result'[r] = result[r]
      /\ status'[r] = [status[r] EXCEPT ![n] = "executing"]
      /\ rows'[r] \in {rows[r], [rows[r] EXCEPT ![n] = "executing"]}
  BY <1>0, <1>1 DEF MapsTyping, Same, Points, Results
<1>3. n \in Indices(r) /\ AtAction(r, n) /\ token[r] # 0 /\ RunTyping(r)
  BY <1>0, <1>1, AtItsAction DEF RunInv, ReturnKnown, Holding
<1>4. /\ status'[r] \in [Indices(r) -> ActionStatuses] /\ status'[r][n] = "executing"
      /\ rows'[r] \in [Indices(r) -> RowStatuses] /\ rows'[r][n] \in {"none", "planned", "executing"}
      /\ ElseSame(r, n)
  BY <1>1, <1>2, <1>3 DEF RunTyping, ActionStatuses, RowStatuses, ElseSame, AtAction, Untouched
<1>5. RunTyping(r)'
  BY <1>1, <1>3, <1>4 DEF RunTyping, Indices
<1>6. ReturnKnown(r)'
  BY <1>0, <1>1, <1>2 DEF RunInv, ReturnKnown, Holding
<1>7. AtAction(r, n)' /\ calls'[r][n] <= CallsOf(plan[r].actions[n])
  BY <1>0, <1>1, <1>2, <1>3, <1>4 DEF AtAction, Untouched, RunInv, ActionsKnown
<1>8. ActionsKnown(r)'
  BY <1>0, <1>1, <1>3, <1>4, <1>7, StaysAtAction
<1> QED BY <1>2, <1>5, <1>6, <1>8, OneRun DEF RunInv

\* Between the two calls of an action and after the last of them.
LEMMA AtACall ==
  ASSUME RecordInv, NEW r \in Runs, pc[r] \in {"canary", "rollout"}
  PROVE  /\ RunTyping(r) /\ next[r] \in Indices(r) /\ AtAction(r, next[r]) /\ token[r] # 0
         /\ Holding(r) /\ result[r] = "none" /\ next[r] \in Nat
         /\ next[r] + 1 \in 1..Len(plan[r].actions) + 1
         /\ plan[r].actions[next[r]] \in ActionKinds
         /\ status[r][next[r]] = "executing" /\ rows[r][next[r]] \in {"none", "planned", "executing"}
         /\ pc[r] = "canary" => calls[r][next[r]] = 0
         /\ pc[r] = "rollout" => calls[r][next[r]] = 1
         /\ pc[r] = "rollout" => plan[r].actions[next[r]] = "staged restart"
<1>1. RunInv(r) /\ MapsTyping
  BY DEF RecordInv
<1>2. next[r] <= Len(plan[r].actions) /\ result[r] = "none" /\ Holding(r) /\ token[r] # 0
  BY <1>1 DEF RunInv, ReturnKnown, Holding
<1>3. next[r] \in Indices(r) /\ AtAction(r, next[r]) /\ next[r] \in Nat
      /\ next[r] + 1 \in 1..Len(plan[r].actions) + 1
  BY <1>1, <1>2, AtItsAction
<1>4. plan[r].actions[next[r]] \in ActionKinds /\ RunTyping(r)
  BY <1>1, <1>3, PlanShape DEF RunInv
<1>5. rows[r][next[r]] \in RowStatuses
  BY <1>3, <1>4 DEF RunTyping
<1> QED BY <1>2, <1>3, <1>4, <1>5 DEF AtAction, RowStatuses

\* The last call of an action takes effect, and the action is complete.
LEMMA CompleteRecords ==
  ASSUME RecordInv, NEW r \in Runs, pc[r] \in {"canary", "rollout"},
         CallOperator(r), CompleteAction(r), UNCHANGED <<plan, token, result>>,
         calls[r][next[r]] + 1 = CallsOf(plan[r].actions[next[r]])
  PROVE  RecordInv'
<1>a. PICK n : n = next[r]
  OBVIOUS
<1>0. RunInv(r) /\ MapsTyping
  BY DEF RecordInv
<1>1. /\ pc' = [pc EXCEPT ![r] = "act"] /\ next' = [next EXCEPT ![r] = n + 1]
      /\ status' = [status EXCEPT ![r][n] = "completed"]
      /\ rows' \in {rows, [rows EXCEPT ![r][n] = "completed"]}
      /\ calls' = [calls EXCEPT ![r][n] = @ + 1]
  BY <1>a DEF CallOperator, CompleteAction, Goto, SetStatus, SetRow
<1>2. /\ MapsTyping' /\ \A s \in Runs \ {r} : Same(s)
      /\ pc'[r] = "act" /\ result'[r] = result[r] /\ next'[r] = n + 1
      /\ status'[r] = [status[r] EXCEPT ![n] = "completed"]
      /\ rows'[r] \in {rows[r], [rows[r] EXCEPT ![n] = "completed"]}
      /\ calls'[r] = [calls[r] EXCEPT ![n] = @ + 1]
  BY <1>0, <1>1 DEF MapsTyping, Same, Points
<1>3. /\ n \in Indices(r) /\ n \in Nat /\ token[r] # 0 /\ RunTyping(r) /\ result[r] = "none"
      /\ n + 1 \in 1..Len(plan[r].actions) + 1
      /\ rows[r][n] \in {"none", "planned", "executing"} /\ calls[r][n] \in {0, 1}
  BY <1>a, AtACall
<1>4. /\ status'[r] \in [Indices(r) -> ActionStatuses] /\ status'[r][n] = "completed"
      /\ rows'[r] \in [Indices(r) -> RowStatuses] /\ rows'[r][n] # "failed"
      /\ calls'[r] \in [Indices(r) -> 0..2] /\ calls'[r][n] = calls[r][n] + 1
      /\ ElseSame(r, n)
  BY <1>2, <1>3 DEF RunTyping, ActionStatuses, RowStatuses, ElseSame
<1>5. RunTyping(r)'
  BY <1>2, <1>3, <1>4 DEF RunTyping, Indices
<1>6. ReturnKnown(r)'
  BY <1>0, <1>2, <1>3 DEF RunInv, ReturnKnown, Holding
<1>7. Done(r, n)'
  BY <1>a, <1>4 DEF Done
<1>8. ActionsKnown(r)'
  BY <1>a, <1>0, <1>2, <1>3, <1>4, <1>7, GoesOn
<1> QED BY <1>2, <1>5, <1>6, <1>8, OneRun DEF RunInv

\* One call of an action takes effect, or none, and the run goes on or fails.
CallStep(r, point) ==
    /\ pc' = [pc EXCEPT ![r] = point]
    /\ UNCHANGED <<plan, next, status, rows, token, result>>
    /\ \/ calls' = calls /\ point = "fail"
       \/ /\ calls' = [calls EXCEPT ![r][next[r]] = @ + 1]
          /\ calls[r][next[r]] < CallsOf(plan[r].actions[next[r]])
          /\ point = "rollout" =>
                pc[r] = "canary" /\ plan[r].actions[next[r]] = "staged restart"

\* Such a step keeps the records true.
LEMMA CallRecords ==
  ASSUME RecordInv, NEW r \in Runs, pc[r] \in {"canary", "rollout"},
         NEW point \in {"rollout", "fail"}, CallStep(r, point)
  PROVE  RecordInv'
<1>1. PICK n : n = next[r]
  OBVIOUS
<1>2. RunInv(r) /\ MapsTyping
  BY DEF RecordInv
<1>3. /\ n \in Indices(r) /\ token[r] # 0 /\ RunTyping(r) /\ result[r] = "none" /\ AtAction(r, n)
      /\ pc[r] = "canary" => calls[r][n] = 0
      /\ status[r][n] = "executing" /\ rows[r][n] \in {"none", "planned", "executing"}
  BY <1>1, AtACall
<1>4. MapsTyping' /\ \A s \in Runs \ {r} : Same(s)
  BY <1>2 DEF CallStep, MapsTyping, Same, Points
<1>5. /\ plan'[r] = plan[r] /\ next'[r] = n /\ status' = status /\ rows' = rows
      /\ token'[r] = token[r] /\ result'[r] = result[r] /\ pc'[r] = point
  BY <1>1, <1>2 DEF CallStep, MapsTyping
<1>6. calls[r] \in [Indices(r) -> 0..2] /\ calls[r][n] \in 0..2 
      /\ CallsOf(plan[r].actions[n]) \in 0..2 /\ calls[r][n] <= CallsOf(plan[r].actions[n])
  BY <1>2, <1>3, PlanShape DEF RunTyping, RunInv, ActionsKnown
<1>7. \/ calls'[r] = calls[r] /\ point = "fail"
      \/ /\ calls'[r] = [calls[r] EXCEPT ![n] = @ + 1]
         /\ calls[r][n] < CallsOf(plan[r].actions[n])
         /\ point = "rollout" => pc[r] = "canary" /\ AtAction(r, n)
  BY <1>1, <1>2, <1>3 DEF CallStep, MapsTyping
<1>8. /\ calls'[r] \in [Indices(r) -> 0..2]
      /\ calls'[r][n] \in {calls[r][n], calls[r][n] + 1}
      /\ calls'[r][n] <= CallsOf(plan[r].actions[n])
      /\ \A i \in Indices(r) \ {n} : calls'[r][i] = calls[r][i]
      /\ point = "rollout" => calls'[r][n] = 1
  BY <1>3, <1>6, <1>7
<1>9. ElseSame(r, n)
  BY <1>5, <1>8 DEF ElseSame
<1>10. RunTyping(r)'
  BY <1>1, <1>3, <1>5, <1>8 DEF RunTyping, Indices
<1>11. ReturnKnown(r)'
  BY <1>2, <1>3, <1>5 DEF RunInv, ReturnKnown, Holding, CallStep
<1>12. AtAction(r, n)'
  <2>1. point = "rollout" => plan'[r].actions[n] = "staged restart"
    BY <1>1, <1>5, <1>7 DEF CallStep
  <2> QED BY <1>3, <1>5, <1>8, <2>1 DEF AtAction
<1>13. ActionsKnown(r)'
  BY <1>1, <1>2, <1>3, <1>5, <1>8, <1>9, <1>12, StaysAtAction
<1> QED BY <1>4, <1>10, <1>11, <1>13, OneRun DEF RunInv

\* Canary, rollout, and a call that raises with or without effect.
LEMMA OperatorRecords ==
  ASSUME RecordInv, NEW r \in Runs, Canary(r) \/ Rollout(r) \/ CallRaises(r)
  PROVE  RecordInv'
<1> DEFINE kind == plan[r].actions[next[r]]
           called == calls[r][next[r]]
<1>1. pc[r] \in {"canary", "rollout"} /\ UNCHANGED <<plan, token, result>>
  BY DEF Canary, Rollout, CallRaises
<1>2. /\ kind \in ActionKinds /\ (pc[r] = "canary" => called = 0)
      /\ pc[r] = "rollout" => called = 1
      /\ pc[r] = "rollout" => kind = "staged restart"
  BY <1>1, AtACall
<1>3. kind \in {"scale", "restart"} => CallsOf(kind) = 1
  <2> HIDE DEF kind
  <2> QED BY CallsOfKind
<1>4. kind = "staged restart" => CallsOf(kind) = 2
  <2> HIDE DEF kind
  <2> QED BY CallsOfKind
<1>5. kind # "unsupported" => called < CallsOf(kind)
  <2> HIDE DEF kind, called
  <2>1. kind # "unsupported" =>
          (called = 0 /\ CallsOf(kind) \in {1, 2}) \/ (called = 1 /\ CallsOf(kind) = 2)
    BY <1>1, <1>2, <1>3, <1>4, Zenon DEF ActionKinds
  <2> QED BY <2>1
<1>6. pc[r] = "rollout" => called + 1 = CallsOf(kind)
  <2> HIDE DEF kind, called
  <2>1. pc[r] = "rollout" => called = 1 /\ CallsOf(kind) = 2
    BY <1>2, <1>4, Zenon
  <2> QED BY <2>1
<1>7. pc[r] = "canary" /\ kind \in {"scale", "restart"} => called + 1 = CallsOf(kind)
  <2> HIDE DEF kind, called
  <2>1. pc[r] = "canary" /\ kind \in {"scale", "restart"} => called = 0 /\ CallsOf(kind) = 1
    BY <1>2, <1>3, Zenon
  <2> QED BY <2>1
<1>8. CASE Canary(r) /\ NeedsRollout(r)
  <2>1. kind = "staged restart" /\ pc[r] = "canary"
    BY <1>8 DEF Canary, NeedsRollout
  <2>2. /\ calls' = [calls EXCEPT ![r][next[r]] = @ + 1] /\ pc' = [pc EXCEPT ![r] = "rollout"]
        /\ UNCHANGED <<next, status, rows>>
    BY <1>8 DEF Canary, CallOperator, Goto
  <2>3. called < CallsOf(kind)
    BY <1>5, <2>1, Zenon
  <2>4. CallStep(r, "rollout")
    BY <1>1, <2>1, <2>2, <2>3, Zenon DEF CallStep
  <2> QED BY <1>1, <2>4, CallRecords
<1>9. CASE Canary(r) /\ ~NeedsRollout(r)
  <2>1. CallOperator(r) /\ CompleteAction(r) /\ kind \in {"scale", "restart"} /\ pc[r] = "canary"
    BY <1>2, <1>9 DEF Canary, NeedsRollout, ActionKinds
  <2> QED BY <1>1, <1>7, <2>1, CompleteRecords, Zenon
<1>10. CASE Rollout(r)
  <2>1. CallOperator(r) /\ CompleteAction(r) /\ pc[r] = "rollout"
    BY <1>10 DEF Rollout
  <2> QED BY <1>1, <1>6, <2>1, CompleteRecords, Zenon
<1>11. CASE CallRaises(r)
  <2>1. /\ pc' = [pc EXCEPT ![r] = "fail"] /\ UNCHANGED <<next, status, rows>>
        /\ \/ calls' = calls
           \/ kind # "unsupported" /\ calls' = [calls EXCEPT ![r][next[r]] = @ + 1]
    BY <1>11 DEF CallRaises, CallOperator, Goto
  <2>2. CallStep(r, "fail")
    BY <1>1, <1>5, <2>1, Zenon DEF CallStep
  <2> QED BY <1>1, <2>2, CallRecords
<1> QED BY <1>8, <1>9, <1>10, <1>11

\* The except block marks rows of executing actions: only the action the run is at is one.
LEMMA FailRecords ==
  ASSUME RecordInv, NEW r \in Runs, Fail(r)
  PROVE  RecordInv'
<1>1. RunInv(r) /\ MapsTyping
  BY DEF RecordInv
<1>2. PICK marked \in SUBSET {i \in Indices(r) : status[r][i] = "executing"} :
         rows' = [rows EXCEPT ![r] = [i \in Indices(r) |-> IF i \in marked THEN "failed" ELSE @[i]]]
  BY Zenon DEF Fail
<1>3. PICK outcome \in {"failed", "raised"} : result' = [result EXCEPT ![r] = outcome]
  BY DEF Fail
<1>4. /\ pc[r] = "fail" /\ pc' = [pc EXCEPT ![r] = "release"]
      /\ UNCHANGED <<plan, next, token, status, calls>>
  BY DEF Fail, Goto, historyVars
<1>5. /\ MapsTyping' /\ \A s \in Runs \ {r} : Same(s)
      /\ pc'[r] = "release" /\ result'[r] = outcome
      /\ rows'[r] = [i \in Indices(r) |-> IF i \in marked THEN "failed" ELSE rows[r][i]]
  BY <1>1, <1>2, <1>3, <1>4 DEF MapsTyping, Same, Points, Results
<1>6. Indices(r)' = Indices(r) /\ (\A i : Done(r, i)' <=> Done(r, i))
  BY <1>4 DEF Indices, Done
<1>7. /\ rows'[r] \in [Indices(r) -> RowStatuses]
      /\ \A i \in Indices(r) : \/ rows'[r][i] = rows[r][i]
                               \/ rows'[r][i] = "failed" /\ status[r][i] = "executing"
  BY <1>1, <1>2, <1>5 DEF RunInv, RunTyping, RowStatuses
<1>8. RunTyping(r)'
  BY <1>1, <1>4, <1>6, <1>7 DEF RunInv, RunTyping
<1>9. ReturnKnown(r)'
  BY <1>1, <1>3, <1>4, <1>5 DEF RunInv, ReturnKnown, Holding
<1>10. ASSUME NEW i \in Indices(r), i = next[r] PROVE AtAction(r, i)'
  <2>1. AtAction(r, i)
    BY <1>1, <1>10 DEF RunInv, ActionsKnown
  <2> QED BY <1>3, <1>4, <1>5, <1>7, <2>1 DEF AtAction
<1>11. ASSUME NEW i \in Indices(r), status[r][i] # "executing" PROVE rows'[r][i] = rows[r][i]
  BY <1>7, <1>11
<1>12. ActionsKnown(r)'
  <2> SUFFICES ASSUME NEW i \in Indices(r)
               PROVE  /\ i < next[r] => Done(r, i) /\ status[r][i] = "completed" /\ rows'[r][i] # "failed"
                      /\ i > next[r] => Untouched(r, i)'
                      /\ calls[r][i] <= CallsOf(plan[r].actions[i])
                      /\ calls[r][i] > 0 => token[r] # 0
    BY <1>4, <1>6, <1>10 DEF ActionsKnown
  <2> QED BY <1>1, <1>4, <1>11 DEF RunInv, ActionsKnown, Untouched
<1> QED BY <1>5, <1>8, <1>9, <1>12, OneRun DEF RunInv

\* The steps of a run that change where it is, or how it ended, and nothing else of it.
LEMMA QuietRecords ==
  ASSUME RecordInv, NEW r \in Runs,
         \/ Deny(r) \/ Admit(r) \/ LockDenied(r) \/ AcquireRaises(r) \/ AnnounceRaises(r)
         \/ RecordCooldown(r) \/ Report(r) \/ ReportRaises(r) \/ Release(r) \/ ReleaseRaises(r)
         \/ Delete(r) \/ DeleteRaises(r)
  PROVE  RecordInv'
<1>1. RunInv(r) /\ MapsTyping
  BY DEF RecordInv
<1> DEFINE Moves(point, outcome) ==
             /\ point \in Points /\ outcome \in Results
             /\ UNCHANGED <<plan, next, token, status, rows, calls>>
             /\ pc' = [pc EXCEPT ![r] = point]
             /\ result' = [result EXCEPT ![r] = outcome]
           MayMove(point, outcome) ==
             \/ pc[r] = "new" /\ point = "acquire" /\ Admissible(plan[r]) /\ outcome = result[r]
             \/ pc[r] \in {"new", "acquire"} /\ point = "done" /\ outcome \in {"denied", "raised"}
             \/ pc[r] = "announce" /\ point = "done" /\ outcome = "raised"
             \/ pc[r] = "act" /\ point = "report" /\ ~HasNext(r) /\ outcome = result[r]
             \/ pc[r] = "report" /\ point = "release" /\ outcome = "success"
             \/ pc[r] = "report" /\ point = "fail" /\ outcome = result[r]
             \/ pc[r] = "release" /\ point = "delete" /\ outcome = result[r]
             \/ pc[r] \in {"release", "delete"} /\ point = "done" /\ outcome \in {result[r], "raised"}
<1>2. ASSUME NEW point, NEW outcome, Moves(point, outcome), MayMove(point, outcome)
      PROVE  RecordInv'
  <2>1. /\ MapsTyping' /\ KeepsActions(r) /\ token'[r] = token[r]
        /\ pc'[r] = point /\ result'[r] = outcome
        /\ \A s \in Runs \ {r} : Same(s)
    BY <1>1, <1>2, LeaveOthers
  <2>2. RunInv(r)'
    BY <1>1, <1>2, <2>1, QuietKeeps
  <2> QED BY <2>1, <2>2, OneRun
<1>3. result' = result => result' = [result EXCEPT ![r] = result[r]]
  BY <1>1 DEF MapsTyping
<1>4. result[r] \in Results
  BY <1>1 DEF MapsTyping
<1>5. \E point, outcome : Moves(point, outcome) /\ MayMove(point, outcome)
  <2> USE DEF Goto, Return, EmitThenReturn, historyVars, Points, Results
  <2>1. CASE Deny(r) \/ LockDenied(r) \/ AcquireRaises(r)
    BY <2>1 DEF Deny, LockDenied, AcquireRaises
  <2>2. CASE Admit(r)
    <3>1. Admissible(plan[r])
      BY <2>2 DEF Admit, Admissible, Refused, RefusedLoudly
    <3>2. Moves("acquire", result[r]) /\ MayMove("acquire", result[r])
      BY <1>3, <1>4, <2>2, <3>1 DEF Admit
    <3> QED BY <3>2
  <2>3. CASE AnnounceRaises(r)
    BY <2>3 DEF AnnounceRaises
  <2>4. CASE RecordCooldown(r)
    <3>1. Moves("report", result[r]) /\ MayMove("report", result[r])
      BY <1>3, <1>4, <2>4 DEF RecordCooldown
    <3> QED BY <3>1
  <2>5. CASE Report(r)
    BY <2>5 DEF Report
  <2>6. CASE ReportRaises(r)
    <3>1. Moves("fail", result[r]) /\ MayMove("fail", result[r])
      BY <1>3, <1>4, <2>6 DEF ReportRaises
    <3> QED BY <3>1
  <2>7. CASE Release(r)
    <3>1. \E point \in {"delete", "done"} : Moves(point, result[r]) /\ MayMove(point, result[r])
      BY <1>3, <1>4, <2>7 DEF Release
    <3> QED BY <3>1
  <2>8. CASE ReleaseRaises(r) \/ DeleteRaises(r)
    BY <2>8 DEF ReleaseRaises, DeleteRaises
  <2>9. CASE Delete(r)
    <3>1. Moves("done", result[r]) /\ MayMove("done", result[r])
      BY <1>3, <1>4, <2>9 DEF Delete
    <3> QED BY <3>1
  <2> QED BY <2>1, <2>2, <2>3, <2>4, <2>5, <2>6, <2>7, <2>8, <2>9
<1> QED BY <1>2, <1>5

\* The steps of no run in particular.
LEMMA EnvironmentRecords ==
  ASSUME RecordInv,
         \/ Halt \/ Resume \/ CooldownEnds \/ LeaseEnds \/ UNCHANGED vars
         \/ \E a \in OtherAgents : OtherAcquires(a) \/ OtherReleases(a) \/ OtherDeletes(a)
  PROVE  RecordInv'
<1>1. UNCHANGED <<plan, pc, token, result, next, status, rows, calls>>
  BY DEF Halt, Resume, CooldownEnds, LeaseEnds, vars, OtherAcquires, OtherReleases, OtherDeletes,
         runVars, historyVars
<1>2. MapsTyping' /\ \A r \in Runs : Same(r)
  BY <1>1 DEF RecordInv, MapsTyping, Same
<1> QED BY <1>2, SameKeeps DEF RecordInv

\* The process dies: every call of execute that was under way has ended.
LEMMA CrashRecords == ASSUME RecordInv, Crash PROVE RecordInv'
<1>1. /\ pc' = [r \in Runs |-> IF pc[r] = "new" THEN "new" ELSE "done"]
      /\ result' = [r \in Runs |-> IF pc[r] \in {"new", "done"} THEN result[r] ELSE "died"]
      /\ UNCHANGED <<plan, next, token, status, rows, calls>>
  BY DEF Crash, historyVars
<1>2. MapsTyping
  BY DEF RecordInv
<1>3. MapsTyping'
  BY <1>1, <1>2 DEF MapsTyping, Points, Results
<1>4. ASSUME NEW r \in Runs PROVE RunInv(r)'
  <2>1. RunInv(r)
    BY DEF RecordInv
  <2>2. CASE pc[r] \in {"new", "done"}
    BY <1>1, <2>1, <2>2, SameKeeps DEF Same
  <2>3. CASE pc[r] \notin {"new", "done"}
    <3>1. pc'[r] = "done" /\ result'[r] = "died" /\ token'[r] = token[r] /\ KeepsActions(r)
      BY <1>1, <2>3 DEF KeepsActions
    <3> QED BY <1>2, <2>1, <2>3, <3>1, QuietKeeps
  <2> QED BY <2>2, <2>3
<1> QED BY <1>3, <1>4 DEF RecordInv

\* Every step of the engine keeps the records true.
LEMMA StepRecords == ASSUME RecordInv, newest \in Nat, [Next]_vars PROVE RecordInv'
BY QuietRecords, AcquireRecords, AnnounceRecords, CancelRecords, BeginRecords, OperatorRecords,
   FailRecords, EnvironmentRecords, CrashRecords DEF Next, RunStep

\* RecordInv holds of every reachable state: a run has completed exactly the actions
\* behind it, has not begun those before it, and returns what that makes true.
THEOREM RecordsKept == Spec => []RecordInv
<1>1. LeaseInv => newest \in Nat
  BY DEF LeaseInv, LeaseTyping
<1>2. LeaseInv /\ RecordInv /\ [Next]_vars => RecordInv'
  BY <1>1, StepRecords
<1> QED BY InitRecords, LeaseHeld, <1>2, PTL DEF Spec

\* While the resource cools down no run calls an operator but one that validate had let
\* pass before, or one beside which another run lost its record.
THEOREM CooldownKept == Spec => CooldownHolds
<1>1. Init => CooldownInv
  BY DEF Init, CooldownInv
<1>2. LeaseInv /\ CooldownInv /\ [Next]_vars => CooldownInv'
  BY StepCools
<1>3. ASSUME CooldownInv, RecordInv, [Next]_vars, NEW r \in Runs, cooling, calls'[r] # calls[r]
      PROVE  r \in racing \/ Bereft \cap Runs # {}
  BY <1>3, WhoCalls DEF CooldownInv, RecordInv, MapsTyping
<1>4. CooldownInv /\ RecordInv /\ [Next]_vars =>
        [\A r \in Runs : cooling /\ calls'[r] # calls[r] =>
            r \in racing \/ Bereft \cap Runs # {}]_vars
  BY <1>3
<1> QED BY <1>1, <1>2, <1>4, LeaseHeld, RecordsKept, PTL DEF Spec, CooldownHolds

-------------------------------------------------------------------------------
(* After the kill switch *)

\* How many calls a run may make after the kill switch, by where it is in an action.
HaltBound(r) == IF pc[r] = "canary" THEN 0 ELSE IF pc[r] = "rollout" THEN 1 ELSE 2

HaltTyping == kill \in BOOLEAN /\ cooling \in BOOLEAN /\ haltedCalls \in [Runs -> Nat]

HaltInv == HaltTyping /\ (kill => \A r \in Runs : haltedCalls[r] <= HaltBound(r))

\* The kill switch is off at first.
LEMMA InitHalt == Init => HaltInv
<1>1. Init => HaltTyping
  <2>1. Init => kill \in BOOLEAN /\ cooling \in BOOLEAN
    BY Zenon DEF Init
  <2>2. Init => haltedCalls \in [Runs -> Nat]
    BY DEF Init
  <2> QED BY <2>1, <2>2 DEF HaltTyping
<1>2. Init => ~kill
  BY DEF Init
<1> QED BY <1>1, <1>2 DEF HaltInv

\* A step without an operator call that begins no action, or begins one while the switch is off.
LEMMA CallFreeHalt ==
  ASSUME HaltInv, LeaseTyping, NEW r \in Runs, UNCHANGED <<kill, haltedCalls>>,
         cooling' \in BOOLEAN, NEW point, pc' = [pc EXCEPT ![r] = point],
         kill => point \notin {"canary", "rollout"}
  PROVE  HaltInv'
<1>1. HaltTyping'
  BY DEF HaltInv, HaltTyping
<1> SUFFICES ASSUME kill, NEW s \in Runs PROVE haltedCalls[s] <= HaltBound(s)'
  BY <1>1 DEF HaltInv
<1>2. haltedCalls[s] \in Nat /\ haltedCalls[s] <= HaltBound(s)
  BY DEF HaltInv, HaltTyping
<1>3. CASE s = r
  BY <1>2, <1>3 DEF HaltBound, LeaseTyping
<1>4. CASE s # r
  BY <1>2, <1>4 DEF HaltBound, LeaseTyping
<1> QED BY <1>3, <1>4

\* An operator call: the canary counts as the first after the switch, the rollout as the second.
LEMMA CallHalt ==
  ASSUME HaltInv, LeaseTyping, NEW r \in Runs, UNCHANGED <<kill, cooling>>,
         pc[r] \in {"canary", "rollout"}, NEW point \in {"rollout", "act", "fail"},
         pc' = [pc EXCEPT ![r] = point], pc[r] = "rollout" => point # "rollout",
         haltedCalls' = [haltedCalls EXCEPT ![r] = IF kill THEN @ + 1 ELSE 0]
  PROVE  HaltInv'
<1>1. HaltTyping'
  BY DEF HaltInv, HaltTyping
<1> SUFFICES ASSUME kill, NEW s \in Runs PROVE haltedCalls'[s] <= HaltBound(s)'
  BY <1>1 DEF HaltInv
<1>2. haltedCalls[s] \in Nat /\ haltedCalls[s] <= HaltBound(s)
  BY DEF HaltInv, HaltTyping
<1>3. CASE s = r
  <2>1. haltedCalls'[s] = haltedCalls[s] + 1 /\ pc'[s] = point
    BY <1>3 DEF HaltInv, HaltTyping, LeaseTyping
  <2> QED BY <1>2, <1>3, <2>1 DEF HaltBound
<1>4. CASE s # r
  <2>1. haltedCalls'[s] = haltedCalls[s] /\ pc'[s] = pc[s]
    BY <1>4 DEF HaltInv, HaltTyping, LeaseTyping
  <2> QED BY <1>2, <2>1 DEF HaltBound
<1> QED BY <1>3, <1>4

\* Every step of a run keeps to the bound: only the canary of an action that had begun
\* before the switch, and its rollout, are left to it.
LEMMA RunHalt == ASSUME HaltInv, LeaseTyping, NEW r \in Runs, RunStep(r) PROVE HaltInv'
<1> USE DEF Goto, guardVars, historyVars
<1>0. cooling \in BOOLEAN
  BY DEF HaltInv, HaltTyping
<1>1. CASE Deny(r) \/ Admit(r) \/ LockDenied(r) \/ AcquireRaises(r)
  <2>1. \E point \in {"acquire", "done"} : pc' = [pc EXCEPT ![r] = point]
    BY <1>1 DEF Deny, Admit, LockDenied, AcquireRaises, Return, EmitThenReturn
  <2>2. UNCHANGED <<kill, cooling, haltedCalls>>
    BY <1>1 DEF Deny, Admit, LockDenied, AcquireRaises
  <2> QED BY <1>0, <2>1, <2>2, CallFreeHalt
<1>2. CASE Acquire(r) \/ Announce(r) \/ AnnounceRaises(r) \/ Cancel(r)
  <2>1. \E point \in {"announce", "act", "done", "release"} : pc' = [pc EXCEPT ![r] = point]
    BY <1>2 DEF Acquire, Announce, AnnounceRaises, Cancel, Return
  <2>2. UNCHANGED <<kill, cooling, haltedCalls>>
    BY <1>2 DEF Acquire, Announce, AnnounceRaises, Cancel
  <2> QED BY <1>0, <2>1, <2>2, CallFreeHalt
<1>3. CASE BeginAction(r)
  BY <1>0, <1>3, CallFreeHalt DEF BeginAction, Stopped
<1>4. CASE Canary(r) \/ Rollout(r)
  <2>1. /\ pc[r] \in {"canary", "rollout"}
        /\ \E point \in {"rollout", "act"} :
              pc' = [pc EXCEPT ![r] = point] /\ (pc[r] = "rollout" => point # "rollout")
    BY <1>4 DEF Canary, Rollout, CompleteAction
  <2>2. /\ UNCHANGED <<kill, cooling>>
        /\ haltedCalls' = [haltedCalls EXCEPT ![r] = IF kill THEN @ + 1 ELSE 0]
    BY <1>4 DEF Canary, Rollout, CallOperator
  <2> QED BY <2>1, <2>2, CallHalt
<1>5. CASE CallRaises(r)
  <2>1. pc[r] \in {"canary", "rollout"} /\ pc' = [pc EXCEPT ![r] = "fail"]
        /\ UNCHANGED <<kill, cooling>>
    BY <1>5 DEF CallRaises
  <2>2. CASE haltedCalls' = haltedCalls
    BY <1>0, <2>1, <2>2, CallFreeHalt
  <2>3. CASE haltedCalls' = [haltedCalls EXCEPT ![r] = IF kill THEN @ + 1 ELSE 0]
    BY <2>1, <2>3, CallHalt
  <2> QED BY <1>5, <2>2, <2>3 DEF CallRaises, CallOperator
<1>6. CASE RecordCooldown(r) \/ Report(r) \/ ReportRaises(r) \/ Fail(r)
  <2>1. \E point \in {"report", "release", "fail"} : pc' = [pc EXCEPT ![r] = point]
    BY <1>6 DEF RecordCooldown, Report, ReportRaises, Fail
  <2>2. UNCHANGED <<kill, haltedCalls>> /\ cooling' \in BOOLEAN
    BY <1>0, <1>6 DEF RecordCooldown, Report, ReportRaises, Fail
  <2> QED BY <2>1, <2>2, CallFreeHalt
<1>7. CASE Release(r) \/ ReleaseRaises(r) \/ Delete(r) \/ DeleteRaises(r)
  <2>1. /\ \E point \in {"delete", "done"} : pc' = [pc EXCEPT ![r] = point]
        /\ UNCHANGED <<kill, cooling, haltedCalls>>
    BY <1>7 DEF Release, ReleaseRaises, Delete, DeleteRaises, Return
  <2> QED BY <1>0, <2>1, CallFreeHalt
<1> QED BY <1>1, <1>2, <1>3, <1>4, <1>5, <1>6, <1>7 DEF RunStep

\* So does everything else.
LEMMA StepHalt == ASSUME HaltInv, LeaseTyping, [Next]_vars PROVE HaltInv'
<1>1. CASE \E r \in Runs : RunStep(r)
  BY <1>1, RunHalt
<1>2. CASE Halt
  <2>1. kill' = TRUE /\ cooling' = cooling /\ haltedCalls' = [r \in Runs |-> 0]
    BY <1>2 DEF Halt
  <2> QED BY <2>1 DEF HaltInv, HaltTyping, HaltBound
<1>3. CASE Resume \/ Crash
  <2>1. kill' = FALSE /\ cooling' \in {cooling, FALSE} /\ haltedCalls' = haltedCalls
    BY <1>3 DEF Resume, Crash, historyVars
  <2> QED BY <2>1 DEF HaltInv, HaltTyping
<1>4. CASE CooldownEnds \/ LeaseEnds \/ UNCHANGED vars \/ \E a \in OtherAgents : OtherAcquires(a) \/ OtherReleases(a) \/ OtherDeletes(a)
  <2>1. UNCHANGED <<kill, haltedCalls, pc>> /\ cooling' \in {cooling, FALSE}
    BY <1>4 DEF CooldownEnds, LeaseEnds, OtherAcquires, OtherReleases, OtherDeletes, vars, guardVars, runVars, historyVars
  <2> QED BY <2>1 DEF HaltInv, HaltTyping, HaltBound
<1> QED BY <1>1, <1>2, <1>3, <1>4 DEF Next

\* HaltInv holds of every reachable state.
THEOREM HaltKept == Spec => []HaltInv
<1>1. LeaseInv => LeaseTyping
  BY DEF LeaseInv
<1>2. LeaseInv /\ HaltInv /\ [Next]_vars => HaltInv'
  BY <1>1, StepHalt
<1> QED BY InitHalt, LeaseHeld, <1>2, PTL DEF Spec

\* After KillSwitch.activate a run makes at most two more operator calls, the canary and
\* the rollout of the action it is in, however many actions its plan has left.
THEOREM KillBounds == Spec => []KillStopsAtAction
<1>1. HaltInv => KillStopsAtAction
  BY DEF HaltInv, HaltTyping, HaltBound, KillStopsAtAction
<1> QED BY HaltKept, <1>1, PTL

\* The operator calls, the rows of remediation_actions and what execute returns agree on
\* every path, for plans of any length: actions take effect in order and under a token,
\* "completed" is never stored early, and a success is a whole plan carried out.
THEOREM RecordsTrue == Spec => []RecordsAreTrue
<1>1. LeaseInv /\ HaltInv /\ RecordInv => TypeOK
  BY DEF LeaseInv, LeaseTyping, HaltInv, HaltTyping, RecordInv, MapsTyping, RunInv, RunTyping, RowStatuses, TypeOK
<1>2. ASSUME RecordInv, NEW r \in Runs, NEW i \in Indices(r)
      PROVE  /\ calls[r][i] > 0 => /\ token[r] # 0
                                   /\ \A j \in 1..(i - 1) : Done(r, j) /\ status[r][j] = "completed"
             /\ rows[r][i] = "completed" => Done(r, i)
             /\ rows[r][i] = "failed" => result[r] \in {"failed", "raised", "died"}
                                         /\ status[r][i] = "executing"
             /\ result[r] = "success" => Done(r, i) /\ status[r][i] = "completed"
             /\ result[r] = "denied" => calls[r][i] = 0 /\ token[r] = 0
  <2>1. RunInv(r) /\ MapsTyping
    BY <1>2 DEF RecordInv
  <2>2. /\ Indices(r) = 1..Len(plan[r].actions) /\ Len(plan[r].actions) \in Nat
        /\ next[r] \in 1..Len(plan[r].actions) + 1 /\ calls[r][i] \in 0..2
    BY <2>1, <1>2, PlanShape DEF RunInv, RunTyping
  <2>3. i < next[r] \/ i = next[r] \/ i > next[r]
    BY <1>2, <2>2
  <2>4. rows[r][i] = "completed" => i < next[r]
    BY <1>2, <2>1, <2>3 DEF RunInv, ActionsKnown, AtAction, Untouched
  <2>5. rows[r][i] = "failed" => i = next[r]
    BY <1>2, <2>1, <2>3 DEF RunInv, ActionsKnown, Untouched
  <2>6. calls[r][i] > 0 => i <= next[r]
    BY <1>2, <2>1, <2>2, <2>3 DEF RunInv, ActionsKnown, Untouched
  <2>7. ASSUME NEW j \in 1..(i - 1), calls[r][i] > 0 PROVE Done(r, j) /\ status[r][j] = "completed"
    <3>1. j \in Indices(r) /\ j < next[r]
      BY <1>2, <2>2, <2>6, <2>7
    <3> QED BY <2>1, <3>1 DEF RunInv, ActionsKnown
  <2>8. result[r] = "success" => i < next[r]
    BY <1>2, <2>1, <2>2 DEF RunInv, ReturnKnown
  <2>9. result[r] = "denied" => token[r] = 0
    BY <2>1 DEF RunInv, ReturnKnown
  <2>10. calls[r][i] > 0 => token[r] # 0
    BY <1>2, <2>1 DEF RunInv, ActionsKnown
  <2>11. i < next[r] => Done(r, i) /\ status[r][i] = "completed"
    BY <1>2, <2>1 DEF RunInv, ActionsKnown
  <2>12. i = next[r] /\ rows[r][i] = "failed" =>
            result[r] \in {"failed", "raised", "died"} /\ status[r][i] = "executing"
    BY <1>2, <2>1 DEF RunInv, ActionsKnown, AtAction
  <2> QED BY <2>2, <2>4, <2>5, <2>7, <2>8, <2>9, <2>10, <2>11, <2>12
<1>3. LeaseInv /\ HaltInv /\ RecordInv => RecordsAreTrue
  BY <1>1, <1>2 DEF RecordsAreTrue, ActionsInOrder, RowsAreTrue, ResultsAreTrue
<1> QED BY LeaseHeld, HaltKept, RecordsKept, <1>3, PTL

-------------------------------------------------------------------------------
(* Every call of execute ends *)

\* The points in the code, from the last; the action loop comes back to "act" for each
\* action that is left.
Rank(point) ==
    CASE point = "new" -> 8 [] point = "acquire" -> 7 [] point = "announce" -> 6
      [] point = "act" -> 5 [] point = "canary" -> 4 [] point = "rollout" -> 3
      [] point = "report" -> 4 [] point = "fail" -> 3 [] point = "release" -> 2
      [] point = "delete" -> 1 [] point = "done" -> 0

Leaving(point) == point \in {"report", "fail", "release", "delete", "done"}

\* How many steps a run has left at most: three for each action that is not behind it, and
\* the way to the loop or out of it.
StepsLeft(r) ==
    Rank(pc[r]) + IF Leaving(pc[r]) THEN 0 ELSE 3 * (Len(plan[r].actions) + 1 - next[r])

\* A step of a run brings it nearer to its end, and no step of anything else puts it back.
RunsDescend ==
    [][\A r \in Runs : /\ StepsLeft(r)' <= StepsLeft(r)
                       /\ RunStep(r) => StepsLeft(r)' < StepsLeft(r)]_vars

\* The ways from one point to another; beside them, the loop goes back, an action further.
Onward(from, to) ==
    \/ from = "new" /\ to = "acquire"
    \/ from = "acquire" /\ to = "announce"
    \/ from = "announce" /\ to = "act"
    \/ from = "act" /\ to \in {"canary", "report", "release"}
    \/ from = "canary" /\ to \in {"rollout", "fail"}
    \/ from = "rollout" /\ to = "fail"
    \/ from = "report" /\ to \in {"fail", "release"}
    \/ from = "fail" /\ to = "release"
    \/ from = "release" /\ to = "delete"
    \/ from # "done" /\ to = "done"

\* What a step of a run does to its place.
MovesTo(r, point) ==
    /\ pc' = [pc EXCEPT ![r] = point] /\ plan' = plan
    /\ \/ Onward(pc[r], point) /\ next' = next
       \/ /\ pc[r] \in {"canary", "rollout"} /\ point = "act"
          /\ next' = [next EXCEPT ![r] = @ + 1]

LEMMA RankIs ==
  /\ Rank("new") = 8 /\ Rank("acquire") = 7 /\ Rank("announce") = 6 /\ Rank("act") = 5
  /\ Rank("canary") = 4 /\ Rank("rollout") = 3 /\ Rank("report") = 4 /\ Rank("fail") = 3
  /\ Rank("release") = 2 /\ Rank("delete") = 1 /\ Rank("done") = 0
BY Zenon DEF Rank

\* The ranks fall, but where a rollout fails, which cuts an action short.
LEMMA RanksFall ==
  /\ \A point \in Points : Rank(point) \in 0..8
  /\ \A from, to \in Points : Onward(from, to) =>
        /\ Leaving(from) => Leaving(to)
        /\ Rank(to) < Rank(from) \/ (from = "rollout" /\ to = "fail")
<1>1. \A point \in Points : Rank(point) \in 0..8 /\ (point # "done" => Rank(point) # 0)
  BY RankIs DEF Points
<1>2. ASSUME NEW from \in Points, NEW to \in Points, Onward(from, to)
      PROVE  /\ Leaving(from) => Leaving(to)
             /\ Rank(to) < Rank(from) \/ (from = "rollout" /\ to = "fail")
  <2>1. CASE to = "done"
    BY <1>1, <1>2, <2>1, RankIs DEF Onward, Leaving
  <2>2. CASE to # "done"
    BY <1>2, <2>2, RankIs DEF Onward, Leaving
  <2> QED BY <2>1, <2>2
<1> QED BY <1>1, <1>2

LEMMA StepMoves ==
  ASSUME NEW r \in Runs, RunStep(r)
  PROVE  \E point \in Points : MovesTo(r, point)
<1> USE DEF Goto, Return, EmitThenReturn, Onward, MovesTo
<1>1. CASE Deny(r) \/ LockDenied(r) \/ AcquireRaises(r) \/ AnnounceRaises(r)
  <2>1. MovesTo(r, "done")
    BY <1>1 DEF Deny, LockDenied, AcquireRaises, AnnounceRaises
  <2> QED BY <2>1 DEF Points
<1>2. CASE Admit(r)
  <2>1. MovesTo(r, "acquire")
    BY <1>2 DEF Admit
  <2> QED BY <2>1 DEF Points
<1>3. CASE Acquire(r)
  <2>1. MovesTo(r, "announce")
    BY <1>3 DEF Acquire
  <2> QED BY <2>1 DEF Points
<1>4. CASE Announce(r)
  <2>1. MovesTo(r, "act")
    BY <1>4 DEF Announce
  <2> QED BY <2>1 DEF Points
<1>5. CASE Cancel(r) \/ Report(r) \/ Fail(r)
  <2>1. MovesTo(r, "release")
    BY <1>5 DEF Cancel, Report, Fail
  <2> QED BY <2>1 DEF Points
<1>6. CASE BeginAction(r)
  <2>1. MovesTo(r, "canary")
    BY <1>6 DEF BeginAction
  <2> QED BY <2>1 DEF Points
<1>7. CASE Canary(r) \/ Rollout(r)
  <2>1. MovesTo(r, "rollout") \/ MovesTo(r, "act")
    BY <1>7 DEF Canary, Rollout, CompleteAction
  <2> QED BY <2>1 DEF Points
<1>8. CASE CallRaises(r) \/ ReportRaises(r)
  <2>1. MovesTo(r, "fail")
    BY <1>8 DEF CallRaises, ReportRaises
  <2> QED BY <2>1 DEF Points
<1>9. CASE RecordCooldown(r)
  <2>1. MovesTo(r, "report")
    BY <1>9 DEF RecordCooldown
  <2> QED BY <2>1 DEF Points
<1>10. CASE Release(r) \/ ReleaseRaises(r) \/ Delete(r) \/ DeleteRaises(r)
  <2>1. MovesTo(r, "delete") \/ MovesTo(r, "done")
    BY <1>10 DEF Release, ReleaseRaises, Delete, DeleteRaises
  <2> QED BY <2>1 DEF Points
<1> QED BY <1>1, <1>2, <1>3, <1>4, <1>5, <1>6, <1>7, <1>8, <1>9, <1>10 DEF RunStep

\* What there is to know of the place of a run, to count its steps.
LEMMA PlaceKnown ==
  ASSUME RecordInv, NEW r \in Runs
  PROVE  /\ pc[r] \in Points /\ Len(plan[r].actions) \in Nat
         /\ next[r] \in 1..Len(plan[r].actions) + 1
         /\ pc[r] \in {"canary", "rollout"} => next[r] <= Len(plan[r].actions)
BY PlanShape DEF RecordInv, MapsTyping, RunInv, RunTyping, ReturnKnown

LEMMA CountIsNat == ASSUME RecordInv, NEW r \in Runs PROVE StepsLeft(r) \in Nat
<1>1. Rank(pc[r]) \in Nat
  BY PlaceKnown, RanksFall
<1>2. 3 * (Len(plan[r].actions) + 1 - next[r]) \in Nat
  BY PlaceKnown
<1> QED BY <1>1, <1>2 DEF StepsLeft

LEMMA MovesDescend ==
  ASSUME RecordInv, NEW r \in Runs, NEW point \in Points, MovesTo(r, point), NEW s \in Runs
  PROVE  StepsLeft(s)' <= StepsLeft(s) /\ (s = r => StepsLeft(s)' < StepsLeft(s))
<1>1. MapsTyping
  BY DEF RecordInv
<1>2. CASE s # r
  <2>1. pc'[s] = pc[s] /\ next'[s] = next[s] /\ plan' = plan
    BY <1>1, <1>2 DEF MovesTo, MapsTyping
  <2>2. StepsLeft(s)' = StepsLeft(s)
    BY <2>1 DEF StepsLeft
  <2> QED BY <1>2, <2>2, CountIsNat
<1>3. CASE s = r
  <2> DEFINE n == Len(plan[r].actions)
  <2>1. /\ pc[r] \in Points /\ n \in Nat /\ next[r] \in 1..n + 1
        /\ pc[r] \in {"canary", "rollout"} => next[r] <= n
    BY PlaceKnown
  <2>2. /\ pc'[r] = point /\ plan' = plan
        /\ \/ Onward(pc[r], point) /\ next'[r] = next[r]
           \/ pc[r] \in {"canary", "rollout"} /\ point = "act" /\ next'[r] = next[r] + 1
    BY <1>1 DEF MovesTo, MapsTyping
  <2> DEFINE k == n + 1 - next[r]
             k2 == n + 1 - next'[r]
  <2>3. /\ StepsLeft(r) = Rank(pc[r]) + IF Leaving(pc[r]) THEN 0 ELSE 3 * k
        /\ StepsLeft(r)' = Rank(point) + IF Leaving(point) THEN 0 ELSE 3 * k2
    BY <2>2 DEF StepsLeft
  <2>4. Rank(pc[r]) \in 0..8 /\ Rank(point) \in 0..8
    BY <2>1, RanksFall
  <2>5. k \in Nat /\ (pc[r] \in {"canary", "rollout"} => k > 0)
    BY <2>1
  <2>6. \/ /\ k2 = k /\ (Leaving(pc[r]) => Leaving(point))
           /\ Rank(point) < Rank(pc[r]) \/ (pc[r] = "rollout" /\ point = "fail")
        \/ pc[r] \in {"canary", "rollout"} /\ point = "act" /\ k2 = k - 1
    <3>1. CASE Onward(pc[r], point) /\ next'[r] = next[r]
      <4>1. k2 = k
        BY <3>1
      <4>2. /\ Leaving(pc[r]) => Leaving(point)
            /\ Rank(point) < Rank(pc[r]) \/ (pc[r] = "rollout" /\ point = "fail")
        BY <2>1, <3>1, RanksFall
      <4> QED BY <4>1, <4>2
    <3>2. CASE pc[r] \in {"canary", "rollout"} /\ point = "act" /\ next'[r] = next[r] + 1
      <4>1. k2 = k - 1
        <5>1. next[r] \in Nat /\ n \in Nat /\ next'[r] = next[r] + 1
          BY <2>1, <3>2
        <5> HIDE DEF n
        <5> QED BY <5>1
      <4> QED BY <3>2, <4>1
    <3> QED BY <2>2, <3>1, <3>2
  <2> HIDE DEF k, k2
  <2>7. /\ Rank("rollout") = 3 /\ Rank("canary") = 4 /\ Rank("act") = 5 /\ Rank("fail") = 3
        /\ ~Leaving("rollout") /\ ~Leaving("canary") /\ ~Leaving("act") /\ Leaving("fail")
    BY RankIs DEF Leaving
  <2>8. StepsLeft(r) \in Nat /\ StepsLeft(r)' \in Nat /\ StepsLeft(r)' < StepsLeft(r)
    <3>1. CASE k2 = k /\ (Leaving(pc[r]) => Leaving(point)) /\ Rank(point) < Rank(pc[r])
      BY <2>3, <2>4, <2>5, <3>1
    <3>2. CASE pc[r] = "rollout" /\ point = "fail"
      BY <2>3, <2>4, <2>5, <2>7, <3>2
    <3>3. CASE pc[r] \in {"canary", "rollout"} /\ point = "act" /\ k2 = k - 1
      BY <2>3, <2>4, <2>5, <2>7, <3>3
    <3> QED BY <2>6, <3>1, <3>2, <3>3
  <2> QED BY <1>3, <2>8
<1> QED BY <1>2, <1>3

\* Nothing but its own steps and the death of the process moves a run.
LEMMA ElseStays ==
  ASSUME RecordInv, NEW r \in Runs,
         \/ Halt \/ Resume \/ CooldownEnds \/ LeaseEnds \/ UNCHANGED vars
         \/ \E a \in OtherAgents : OtherAcquires(a) \/ OtherReleases(a) \/ OtherDeletes(a)
  PROVE  StepsLeft(r)' = StepsLeft(r)
<1>1. UNCHANGED <<plan, pc, next>>
  BY DEF Halt, Resume, CooldownEnds, LeaseEnds, vars, OtherAcquires, OtherReleases, OtherDeletes,
         runVars, historyVars
<1> QED BY <1>1 DEF StepsLeft

LEMMA CrashDescends ==
  ASSUME RecordInv, NEW r \in Runs, Crash
  PROVE  StepsLeft(r)' <= StepsLeft(r)
<1>1. pc'[r] = (IF pc[r] = "new" THEN "new" ELSE "done") /\ next' = next /\ plan' = plan
  BY DEF Crash
<1>2. CASE pc[r] = "new"
  BY <1>1, <1>2, CountIsNat DEF StepsLeft
<1>3. CASE pc[r] # "new"
  <2>1. StepsLeft(r)' = 0
    BY <1>1, <1>3, RankIs DEF StepsLeft, Leaving
  <2> QED BY <2>1, CountIsNat
<1> QED BY <1>2, <1>3

\* However operators, stores and locks answer, a call of execute comes nearer to its end
\* with each step it takes, and has three steps for an action and eight for the rest: the
\* action loop ends, and neither the except and finally blocks nor what happens beside the
\* call send it back.
THEOREM RunsShorten == Spec => [](\A r \in Runs : StepsLeft(r) \in Nat) /\ RunsDescend
<1>1. RecordInv => \A r \in Runs : StepsLeft(r) \in Nat
  BY CountIsNat
<1>2. ASSUME RecordInv, [Next]_vars, NEW r \in Runs
      PROVE  StepsLeft(r)' <= StepsLeft(r) /\ (RunStep(r) => StepsLeft(r)' < StepsLeft(r))
  <2>1. RunStep(r) => StepsLeft(r)' < StepsLeft(r)
    BY <1>2, StepMoves, MovesDescend
  <2>2. ASSUME NEW s \in Runs, RunStep(s) PROVE StepsLeft(r)' <= StepsLeft(r)
    BY <1>2, <2>2, StepMoves, MovesDescend
  <2>3. StepsLeft(r) \in Nat
    BY <1>1, <1>2
  <2>4. StepsLeft(r)' <= StepsLeft(r)
    BY <1>2, <2>2, <2>3, ElseStays, CrashDescends DEF Next
  <2> QED BY <2>1, <2>4
<1>3. RecordInv /\ [Next]_vars =>
        [\A r \in Runs : /\ StepsLeft(r)' <= StepsLeft(r)
                         /\ RunStep(r) => StepsLeft(r)' < StepsLeft(r)]_vars
  BY <1>2
<1> QED BY RecordsKept, <1>1, <1>3, PTL DEF Spec, RunsDescend

-------------------------------------------------------------------------------
(* Records left behind *)

\* A run that ended without an exception has given its record back.
Settled(r) == pc[r] = "done" /\ OwnsRecord(r) => result[r] \in {"raised", "died"}

\* A run without a token owns no record: tokens start at one.
LEMMA NotOwned ==
  ASSUME LeaseInv, NEW r \in Runs, token[r] = 0 PROVE ~OwnsRecord(r)
<1>1. lock # NoLock => lock.token \in Nat \ {0}
  BY DEF LeaseInv, LeaseTyping, Lock!LockRecord
<1> QED BY <1>1 DEF OwnsRecord

\* A fresh record belongs to no run that had a token before.
LEMMA FreshRecord ==
  ASSUME LeaseInv, NEW r \in Runs, NEW agent, NEW priority,
         InstallRecord(agent, priority), token'[r] = token[r]
  PROVE  ~OwnsRecord(r)'
<1>1. token[r] \in Nat /\ newest \in Nat /\ token[r] <= newest
  BY DEF LeaseInv, LeaseTyping, TokensKnown
<1>2. lock'.token = newest + 1
  BY DEF InstallRecord
<1> QED BY <1>1, <1>2 DEF OwnsRecord

\* A run comes to own the record by its own acquire_lock only.
LEMMA LockMoves ==
  ASSUME LeaseInv, NEW r \in Runs, token'[r] = token[r],
         UNCHANGED lockVars \/ Lock!Vacate \/ \E agent, priority : InstallRecord(agent, priority)
  PROVE  OwnsRecord(r)' => OwnsRecord(r)
<1>1. CASE UNCHANGED lockVars
  BY <1>1 DEF OwnsRecord, lockVars
<1>2. CASE Lock!Vacate
  BY <1>2 DEF OwnsRecord, Lock!Vacate
<1>3. CASE \E agent, priority : InstallRecord(agent, priority)
  BY <1>3, FreshRecord
<1> QED BY <1>1, <1>2, <1>3

\* Another run, or the environment, moves.
LEMMA OthersSettled ==
  ASSUME LeaseInv, NEW r \in Runs, Settled(r), token'[r] = token[r],
         pc'[r] = pc[r], result'[r] = result[r],
         UNCHANGED lockVars \/ Lock!Vacate \/ \E agent, priority : InstallRecord(agent, priority)
  PROVE  Settled(r)'
BY LockMoves DEF Settled

\* A run that ends without an exception does not leave its record behind.
LEMMA RunSettles ==
  ASSUME LeaseInv, MapsTyping, NEW r \in Runs, RunStep(r), \A s \in Runs : Settled(s)
  PROVE  \A s \in Runs : Settled(s)'
<1>0. /\ pc \in [Runs -> Points] /\ token \in [Runs -> Nat] /\ result \in [Runs -> Results]
  BY DEF MapsTyping
<1> USE DEF Goto, Return, EmitThenReturn
<1>1. UNCHANGED lockVars \/ Lock!Vacate \/ \E agent, priority : InstallRecord(agent, priority)
  BY DEF RunStep, Deny, Admit, Acquire, LockDenied, AcquireRaises, Announce, AnnounceRaises,
         Cancel, BeginAction, Canary, Rollout, CallRaises, RecordCooldown, Report,
         ReportRaises, Fail, Release, ReleaseRaises, Delete, DeleteRaises, DeleteRecord, lockVars
<1>2. /\ \E t : token' \in {token, [token EXCEPT ![r] = t]}
      /\ \E point : pc' = [pc EXCEPT ![r] = point]
      /\ \E outcome : result' \in {result, [result EXCEPT ![r] = outcome]}
  BY DEF RunStep, Deny, Admit, Acquire, LockDenied, AcquireRaises, Announce, AnnounceRaises,
         Cancel, BeginAction, Canary, Rollout, CallRaises, RecordCooldown, Report,
         ReportRaises, Fail, Release, ReleaseRaises, Delete, DeleteRaises, CompleteAction
<1>3. ASSUME NEW s \in Runs \ {r} PROVE Settled(s)'
  <2>1. token'[s] = token[s] /\ pc'[s] = pc[s] /\ result'[s] = result[s]
    BY <1>0, <1>2, <1>3
  <2> QED BY <1>1, <1>3, <2>1, OthersSettled
<1>4. Settled(r)'
  <2>1. CASE Deny(r) \/ LockDenied(r)
    <3>1. pc[r] \in {"new", "acquire"} /\ UNCHANGED <<lockVars, token>>
      BY <2>1 DEF Deny, LockDenied
    <3>2. token[r] = 0
      BY <3>1 DEF LeaseInv, TokensKnown
    <3>3. ~OwnsRecord(r)'
      BY <3>1, <3>2, NotOwned DEF OwnsRecord, lockVars
    <3> QED BY <3>3 DEF Settled
  <2>2. CASE AcquireRaises(r) \/ AnnounceRaises(r) \/ ReleaseRaises(r) \/ DeleteRaises(r)
    <3>1. result'[r] = "raised"
      BY <1>0, <2>2 DEF AcquireRaises, AnnounceRaises, ReleaseRaises, DeleteRaises
    <3> QED BY <3>1 DEF Settled
  <2>3. CASE Release(r) \/ Delete(r)
    <3>1. CASE Release(r) /\ MayRelease(r)
      BY <1>0, <3>1 DEF Release, Settled
    <3>2. CASE Release(r) /\ ~MayRelease(r)
      BY <3>2 DEF Release, MayRelease, OwnsRecord, lockVars, Settled
    <3>3. CASE Delete(r)
      BY <3>3 DEF Delete, DeleteRecord, Lock!Vacate, OwnsRecord, lockVars, Settled
    <3> QED BY <2>3, <3>1, <3>2, <3>3
  <2>4. CASE ~(\/ Deny(r) \/ LockDenied(r) \/ AcquireRaises(r) \/ AnnounceRaises(r)
               \/ Release(r) \/ ReleaseRaises(r) \/ Delete(r) \/ DeleteRaises(r))
    <3>1. pc'[r] # "done"
      BY <1>0, <2>4 DEF RunStep, Admit, Acquire, Announce,
         Cancel, BeginAction, Canary, Rollout, CallRaises, RecordCooldown, Report,
         ReportRaises, Fail, CompleteAction
    <3> QED BY <3>1 DEF Settled
  <2> QED BY <2>1, <2>2, <2>3, <2>4
<1> QED BY <1>3, <1>4

\* So does everything else leave it.
LEMMA StepSettles ==
  ASSUME LeaseInv, MapsTyping, [Next]_vars, \A s \in Runs : Settled(s)
  PROVE  \A s \in Runs : Settled(s)'
<1>1. CASE \E r \in Runs : RunStep(r)
  BY <1>1, RunSettles
<1>2. CASE Crash
  <2>1. /\ pc' = [r \in Runs |-> IF pc[r] = "new" THEN "new" ELSE "done"]
        /\ result' = [r \in Runs |-> IF pc[r] \in {"new", "done"} THEN result[r] ELSE "died"]
        /\ UNCHANGED <<lock, token>>
    BY <1>2 DEF Crash, lockVars
  <2> QED BY <2>1 DEF Settled, OwnsRecord
<1>3. CASE Halt \/ Resume \/ CooldownEnds \/ LeaseEnds \/ UNCHANGED vars
           \/ \E a \in OtherAgents : OtherAcquires(a) \/ OtherReleases(a) \/ OtherDeletes(a)
  <2>1. UNCHANGED <<pc, token, result>>
    BY <1>3 DEF Halt, Resume, CooldownEnds, LeaseEnds, OtherAcquires, OtherReleases, OtherDeletes, vars, runVars
  <2>2. UNCHANGED lockVars \/ Lock!Vacate \/ \E agent, priority : InstallRecord(agent, priority)
    BY <1>3 DEF Halt, Resume, CooldownEnds, LeaseEnds, OtherAcquires, OtherReleases, OtherDeletes,
         DeleteRecord, vars, lockVars
  <2> QED BY <2>1, <2>2, OthersSettled
<1> QED BY <1>1, <1>2, <1>3 DEF Next

\* A run that has ended owns the record under the lock key only if an emission or
\* release_lock raised or the process died: of all denials and returns none leaks the lock.
THEOREM LeaksExplained == Spec => []LeakNeedsRaise
<1>1. Init => LeakNeedsRaise
  BY DEF Init, LeakNeedsRaise
<1>2. LeakNeedsRaise <=> \A r \in Runs : Settled(r)
  BY DEF LeakNeedsRaise, Settled
<1>3. LeaseInv /\ RecordInv /\ LeakNeedsRaise /\ [Next]_vars => LeakNeedsRaise'
  BY <1>2, StepSettles DEF RecordInv, LeakNeedsRaise, Settled
<1> QED BY <1>1, <1>3, LeaseHeld, RecordsKept, PTL DEF Spec

-------------------------------------------------------------------------------
(* The lock as the engine uses it *)

\* A record the engine or another agent installs is one the lock port may install.
LEMMA PromisedInstall ==
  ASSUME LeaseTyping, NEW agent \in Agents, NEW priority \in Priorities,
         Outranks(priority), InstallRecord(agent, priority)
  PROVE  Lock!Install
<1>1. newest + 1 \in Nat \ {0} /\ newest + 1 > newest
  BY DEF LeaseTyping
<1>2. lock' \in Lock!LockRecord /\ lock'.token = newest + 1 /\ lock'.priority = priority
  BY <1>1 DEF InstallRecord, Lock!LockRecord
<1>3. lock # NoLock => lock'.priority < lock.priority
  BY <1>2 DEF Outranks
<1> QED BY <1>1, <1>2, <1>3 DEF Lock!Install, Lock!InstallByPriority, InstallRecord

\* The engine and its competitors use the resource lock within the promise of the lock
\* port, so that what is proved of the engine holds over any lock that keeps it.
THEOREM LockPromise == Spec => Lock!Spec
<1>1. Init => Lock!Init
  BY DEF Init
<1>2. ASSUME LeaseInv, [Next]_vars PROVE [Lock!Install \/ Lock!Vacate]_(Lock!vars)
  <2>0. LeaseTyping /\ SreAgent \in Agents /\ EnginePriority \in Priorities
        /\ \A a \in OtherAgents : a \in Agents /\ OtherPriority[a] \in Priorities
    BY <1>2, EngineAssumption DEF LeaseInv, Agents, EnginePriority, Priorities
  <2>1. ASSUME NEW r \in Runs, RunStep(r)
        PROVE  \/ UNCHANGED lockVars \/ Lock!Vacate
               \/ Outranks(EnginePriority) /\ InstallRecord(SreAgent, EnginePriority)
    BY <2>1 DEF RunStep, Deny, Admit, Acquire, LockDenied, AcquireRaises, Announce, AnnounceRaises,
         Cancel, BeginAction, Canary, Rollout, CallRaises, RecordCooldown, Report,
         ReportRaises, Fail, Release, ReleaseRaises, Delete, DeleteRaises, DeleteRecord, lockVars
  <2>2. ASSUME ~(\E r \in Runs : RunStep(r))
        PROVE  \/ UNCHANGED lockVars \/ Lock!Vacate
               \/ \E a \in OtherAgents :
                     Outranks(OtherPriority[a]) /\ InstallRecord(a, OtherPriority[a])
    BY <1>2, <2>2 DEF Next, Halt, Resume, CooldownEnds, LeaseEnds, Crash, OtherAcquires,
         OtherReleases, OtherDeletes, DeleteRecord, vars, lockVars
  <2> QED BY <2>0, <2>1, <2>2, PromisedInstall DEF lockVars, Lock!vars
<1>3. QED BY <1>1, <1>2, LeaseHeld, PTL DEF Spec, Lock!Spec
===============================================================================
