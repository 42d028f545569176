--------------------------- MODULE InstanceRelease ---------------------------
(***************************************************************************)
(* What releasing an idle instance promises to everything outside the      *)
(* controller: which workloads keep replicas (up), whether the instance    *)
(* Gateway exists (gate) and whether the controller is meant to run        *)
(* (watch).  The frontend goes only when no workload is left behind it,    *)
(* the controller goes last, and once it has gone from an instance with a  *)
(* Gateway nothing moves any more.                                         *)
(***************************************************************************)
CONSTANTS Parts,        \* the workloads of the instance
          HasGateway    \* the instance is fronted by a Gateway

VARIABLES up, gate, watch

vars == <<up, gate, watch>>

Init ==
  /\ up = Parts
  /\ gate = HasGateway
  /\ watch = TRUE

\* Without a Gateway a controller already scaled to zero may run on for a while,
\* because its rollback starts after a scale-down that took effect unanswered.
Lower(p) ==
  /\ watch \/ ~HasGateway
  /\ up' = up \ {p}
  /\ UNCHANGED <<gate, watch>>

\* A rollback.
Raise(p) ==
  /\ watch \/ ~HasGateway
  /\ up' = up \cup {p}
  /\ UNCHANGED <<gate, watch>>

DropGateway ==
  /\ up = {}
  /\ gate' = FALSE
  /\ UNCHANGED <<up, watch>>

DropWatch ==
  /\ up = {} /\ ~gate
  /\ watch' = FALSE
  /\ UNCHANGED <<up, gate>>

Next ==
  \/ \E p \in Parts : Lower(p) \/ Raise(p)
  \/ DropGateway
  \/ DropWatch

Spec == Init /\ [][Next]_vars
=============================================================================
