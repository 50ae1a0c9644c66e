---------------------------- MODULE MCAgentDriver ----------------------------
(* AgentDriver on small instances. *)
EXTENDS AgentDriver

AllFaults == Faults
NoFaults  == {}
=============================================================================
