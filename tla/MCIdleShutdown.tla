--------------------------- MODULE MCIdleShutdown ---------------------------
(***************************************************************************)
(* Instances of IdleShutdown for TLC.                                      *)
(***************************************************************************)
EXTENDS IdleShutdown, TLC

CONSTANTS s1, s2

\* One role with two API servers.
OneRole == [s \in Servers |-> 1]

\* Prefill and decode, one API server each; any further workload has none.
RolePerServer == (s1 :> 1) @@ (s2 :> 2)
=============================================================================
