----------------------------- MODULE IdleRedeploy -----------------------------
(***************************************************************************)
(* IdleShutdown beside deployments that apply the objects of the instance  *)
(* again, before, while and after its controller takes them down           *)
(* (manifesto/workflow.py, deploy).  kubectl applies one object after the  *)
(* other, goes on after one that failed, and may be killed anywhere.       *)
(***************************************************************************)
EXTENDS IdleShutdown, Sequences

CONSTANTS
  NumRoles,    \* the first workloads are the roles, the last may be the picker
  MaxDeploys   \* bound: deployments over the whole run

ASSUME RolesAssumption == NumRoles \in {NumWorkloads, NumWorkloads - 1} \ {0}
ASSUME DeploysAssumption == MaxDeploys \in Nat

VARIABLES
  next,     \* the object of the manifest that apply handles next, 0: none runs
  deploys,  \* deployments still to start
  (* history *)
  clean,    \* no object failed, and no shutdown was under way, since it began
  whole     \* the last deployment ended, and was clean
deployment == <<next, deploys, clean, whole>>
everything == <<vars, deployment>>

ControllerObject == NumWorkloads + 1

\* The objects with replicas, or gone once released, in the order of emission:
\* the roles, the controller, then the routing.
\* Mutants: without the routing, and without the controller.
Manifest_Model == [i \in 1 .. NumRoles |-> i] \o <<ControllerObject>>
Manifest_Unwatched == [i \in 1 .. NumWorkloads |-> i] \o (IF HasGateway THEN <<GatewayObject>> ELSE <<>>)
Manifest ==
  [i \in 1 .. NumRoles |-> i] \o <<ControllerObject>>
    \o (IF NumRoles < NumWorkloads THEN <<NumWorkloads>> ELSE <<>>)
    \o (IF HasGateway THEN <<GatewayObject>> ELSE <<>>)

RedeployInit == Init /\ next = 0 /\ deploys = MaxDeploys /\ clean = TRUE /\ whole = TRUE

\* A shutdown or its rollback is under way.
Moving == pc \in ShuttingDown \cup {"Restore"}

-----------------------------------------------------------------------------
StartApply ==
  /\ next = 0 /\ deploys > 0
  /\ next' = 1 /\ deploys' = deploys - 1 /\ clean' = ~Moving /\ whole' = FALSE
  /\ UNCHANGED vars

\* An apply sets the replicas that were rendered, whatever they are now.  Pods
\* that were going when their workload came back are replaced, or stay.
Replaced(S) ==
  /\ ready' = ready \ S /\ renewed' = renewed \cup S
  /\ running' = [s \in Servers |-> IF s \in S THEN 0 ELSE running[s]]
  /\ completed' = [s \in Servers |-> IF s \in S THEN 0 ELSE completed[s]]
Applied(o) ==
  /\ up' = up \cup ({o} \cap Position)
  /\ gate' = (gate \/ o = GatewayObject)
  /\ watch' = (watch \/ o = ControllerObject)
  /\ orphans' = orphans \ {o}
  /\ \E S \in SUBSET {s \in Servers : Home[s] = o /\ o \notin up} : Replaced(S)

ApplyObject ==
  /\ next \in DOMAIN Manifest /\ next' = next + 1
  /\ \/ Applied(Manifest[next]) /\ NoFault /\ clean' = (clean /\ ~Moving)
     \/ Applied(Manifest[next]) /\ Fault /\ clean' = FALSE
     \/ UNCHANGED <<cluster, fleet, renewed, orphans>> /\ Fault /\ clean' = FALSE
  /\ UNCHANGED <<control, requests, fresh, deploys, whole>>

ApplyDone ==
  /\ next = Len(Manifest) + 1
  /\ next' = 0 /\ whole' = clean
  /\ UNCHANGED <<vars, deploys, clean>>

Killed ==
  /\ next > 0 /\ Fault
  /\ next' = 0
  /\ UNCHANGED <<cluster, fleet, control, requests, fresh, renewed, orphans, deploys, clean, whole>>

-----------------------------------------------------------------------------
\* A controller whose Deployment is scaled up again starts from the beginning,
\* in a new pod, or in the container in which the script had ended.
Resume ==
  /\ watch /\ pc \in {"Gone", "Done"}
  /\ FailOpen
  /\ UNCHANGED <<cluster, fleet, requests, faults, fresh, renewed, orphans>>

\* A step of the controller or its surroundings, as the deployment sees it.
Beside(A) == A /\ clean' = (clean /\ ~Moving') /\ UNCHANGED <<next, deploys, whole>>

ApplyStep == ApplyObject \/ ApplyDone
RedeployNext ==
  \/ StartApply \/ ApplyStep \/ Killed
  \/ Beside(Pods \/ Check \/ ShutDown \/ Crash \/ Terminate \/ Resume)
  \/ Stopped /\ UNCHANGED deployment

RedeployFairness ==
  /\ WF_everything(Beside(Check)) /\ WF_everything(Beside(ShutDown))
  /\ WF_everything(Beside(Terminate)) /\ WF_everything(Beside(Resume)) /\ WF_everything(ApplyStep)
  /\ \A s \in Servers :
       WF_everything(Beside(BecomeReady(s))) /\ WF_everything(Beside(Finish(s))) /\ WF_everything(Beside(Evict(s)))

RedeploySpec == RedeployInit /\ [][RedeployNext]_everything /\ RedeployFairness

-----------------------------------------------------------------------------
\* README: "Applying or deploying the spec again restores all of those
\* resources": a deployment of which nothing failed, and which met no shutdown
\* under way, leaves everything up and watched, whatever was down before it.
DeploymentsRestore ==
  [][next # 0 /\ next' = 0 /\ whole' => up' = Position /\ gate' = HasGateway /\ watch' /\ orphans' = {}]_everything

\* After such a deployment the instance is never up and unwatched: the steps
\* that an earlier shutdown had left do not reach what was deployed since.
WholeInstancesAreWatched ==
  whole => /\ pc \in Polling => watch /\ LeftBehind \subseteq orphans
           /\ ~watch /\ HasGateway => up = {} /\ ~gate

\* After the last such deployment the instance is released again, however often
\* it was released before, unless a fault left part of it down.
ReleasedAgain == <>[](whole => Released \/ orphans # {})

\* The same sentence for every deployment in which nothing failed at all.
UnwatchedMeansReleased == faults = MaxFaults /\ next = 0 /\ ~watch => up = {} /\ ~gate
=============================================================================
