---------------------------- MODULE MCInMemoryLock ----------------------------
(* Two keys, a security agent and an SRE agent, short and long leases. *)
EXTENDS InMemoryLock

CONSTANTS pod, node, SecurityAgent, SreAgent

MCKeys == {pod, node}
MCAgents == {SecurityAgent, SreAgent}
===============================================================================
