---------------------------- MODULE MCIdleRedeploy ----------------------------
(***************************************************************************)
(* An instance of IdleRedeploy for TLC: one role, its server, the endpoint *)
(* picker and a Gateway.                                                   *)
(***************************************************************************)
EXTENDS IdleRedeploy

OneRole == [s \in Servers |-> 1]
=============================================================================
