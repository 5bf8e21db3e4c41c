--------------------------- MODULE RemediationPlanner ---------------------------
(***************************************************************************)
(* RemediationPlanner.create_plan with the arithmetic of the blast radius  *)
(* guardrail, for the engine that carries its plans out.  A case is what   *)
(* the planner is given: the type of the anomaly, the cues it finds in the *)
(* text of the root cause, whether the diagnosis asks for approval, the    *)
(* blast radius in tenths, the number of services downstream, the replicas *)
(* there are, the most there may be, and the compute mechanism.            *)
(***************************************************************************)
EXTENDS RemediationEngine

CONSTANTS
    Registered,  \* compute mechanisms with an operator of the provider the planner names
    NoLimit      \* max_replicas is None

Restarts == {"restart", "gitops_revert", "certificate_rotation", "log_truncation"}

\* The cues of select_strategy in its order.
CueOrder == <<"memory", "certificate", "deployment", "traffic", "disk">>

CueStrategy ==
    [memory |-> "restart", certificate |-> "certificate_rotation",
     deployment |-> "gitops_revert", traffic |-> "scale_up", disk |-> "log_truncation"]

AnomalyStrategy ==
    [memory_pressure |-> "restart", latency_spike |-> "scale_up",
     traffic_anomaly |-> "scale_up", deployment_induced |-> "gitops_revert",
     error_rate_surge |-> "gitops_revert", certificate_expiry |-> "certificate_rotation",
     disk_exhaustion |-> "log_truncation", invocation_error_surge |-> "scale_down"]

Found(c) == {i \in DOMAIN CueOrder : CueOrder[i] \in c.cues}

\* Without a cue and a strategy for the type, create_plan raises ValueError.
Plannable(c) == Found(c) # {} \/ c.anomaly \in DOMAIN AnomalyStrategy

Strategy(c) ==
    IF Found(c) = {}
      THEN AnomalyStrategy[c.anomaly]
      ELSE CueStrategy[CueOrder[CHOOSE i \in Found(c) : \A j \in Found(c) : i <= j]]

AtLeastOne(n) == IF n < 1 THEN 1 ELSE n

\* For a scaling: one replica more than there are, or one less; the cap may be below what there is.
Desired(c) ==
    CASE Strategy(c) = "scale_down" -> AtLeastOne(c.replicas - 1)
      [] Strategy(c) = "scale_up" /\ c.limit # NoLimit /\ c.limit <= AtLeastOne(c.replicas) -> c.limit
      [] OTHER -> AtLeastOne(c.replicas) + 1

\* GuardrailOrchestrator.validate passes no current_replicas on.
AssumedReplicas(c) == 1

WithinBlastRadius(c) ==
    /\ c.tenths <= 2
    /\ Strategy(c) = "scale_up" => Desired(c) <= 2 * AssumedReplicas(c)

\* 5 % of the targets, rounded up, and at least one.
CanarySize(targets) == AtLeastOne((targets * 5 + 99) \div 100)

\* What _execute_action makes of it: Lambda and EC2 operators refuse to restart anything.
ActionKind(c) ==
    CASE Strategy(c) \notin Restarts -> "scale"
      [] Strategy(c) \in Restarts /\ c.mechanism \in {"serverless", "virtual_machine"} -> "unsupported"
      [] OTHER -> IF c.downstream + 1 > CanarySize(c.downstream + 1) THEN "staged restart" ELSE "restart"

PlanOf(c, approved) ==
    [needsApproval |-> c.approval, approved |-> approved,
     withinBlastRadius |-> WithinBlastRadius(c), hasOperator |-> c.mechanism \in Registered,
     actions |-> <<ActionKind(c)>>]

\* The plans for a set of cases: approved at once, or pending until somebody approves.
PlansFor(cases) ==
    {PlanOf(x[1], x[2]) : x \in {x \in cases \X BOOLEAN : Plannable(x[1]) /\ (x[1].approval \/ x[2])}}

===============================================================================
