------------------------------- MODULE MCEtcdLock -------------------------------
(* Three callers on one key: a security agent and two runs of one SRE agent. *)
EXTENDS EtcdLock

CONSTANTS sec, sre1, sre2, SecurityAgent, SreAgent

MCCallers == {sec, sre1, sre2}
MCAgents == {SecurityAgent, SreAgent}
MCAgentOf == [c \in MCCallers |-> IF c = sec THEN SecurityAgent ELSE SreAgent]
MCPriorityOf == [c \in MCCallers |-> IF c = sec THEN 1 ELSE 2]
===============================================================================
