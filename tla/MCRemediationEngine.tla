-------------------------- MODULE MCRemediationEngine --------------------------
(* Runs on one resource, a security agent that outranks the engines and a *)
(* cost agent that they outrank.                                          *)
EXTENDS RemediationPlanner, TLC

CONSTANTS SecurityAgent, CostAgent

MCOtherAgents == {SecurityAgent, CostAgent}
MCOtherPriority == [a \in MCOtherAgents |-> IF a = SecurityAgent THEN 1 ELSE 3]

Plan(needsApproval, approved, within, actions) ==
    [needsApproval |-> needsApproval, approved |-> approved, withinBlastRadius |-> within,
     hasOperator |-> TRUE, actions |-> actions]

\* Plans the planner does not make: several actions, and none.
HandMadePlans ==
    { Plan(TRUE, TRUE, TRUE, <<"staged restart", "scale">>),
      Plan(FALSE, FALSE, TRUE, <<"restart", "unsupported">>),
      Plan(FALSE, FALSE, TRUE, << >>) }

Case(anomaly, cues, approval, tenths, downstream, replicas, limit, mechanism) ==
    [anomaly |-> anomaly, cues |-> cues, approval |-> approval, tenths |-> tenths,
     downstream |-> downstream, replicas |-> replicas, limit |-> limit, mechanism |-> mechanism]

\* A scale-up from one, from two, and capped below what there is; a revert of two
\* targets; a blast radius that is too large; a restart of a virtual machine; a function,
\* for which no operator is registered; and an anomaly without a strategy.
Cases ==
    { Case("latency_spike", {}, FALSE, 0, 0, 1, NoLimit, "kubernetes"),
      Case("latency_spike", {}, FALSE, 2, 1, 2, NoLimit, "kubernetes"),
      Case("error_rate_surge", {"traffic"}, FALSE, 1, 1, 3, 2, "container_instance"),
      Case("error_rate_surge", {"traffic", "deployment"}, TRUE, 2, 1, 1, NoLimit, "kubernetes"),
      Case("memory_pressure", {}, TRUE, 3, 0, 1, NoLimit, "kubernetes"),
      Case("disk_exhaustion", {}, FALSE, 1, 0, 1, NoLimit, "virtual_machine"),
      Case("invocation_error_surge", {}, FALSE, 1, 0, 2, NoLimit, "serverless"),
      Case("multi_dimensional", {}, FALSE, 1, 0, 1, NoLimit, "kubernetes") }

AllPlans == HandMadePlans \cup PlansFor(Cases)

\* Runs of the same plan are interchangeable (used with invariants only).
RunSymmetry == Permutations(Runs)

\* One admissible plan of one call.
ScalePlans == { Plan(FALSE, FALSE, TRUE, <<"scale">>) }

\* Bound: three grants are one to the caller whose delete comes late, one to the caller it
\* robs, and one to the caller it lets in.  The kill switch is the other run's subject.
MaxGrants == 3
OverlapBound == ~kill /\ newest <= MaxGrants
===============================================================================
