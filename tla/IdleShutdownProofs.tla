-------------------------- MODULE IdleShutdownProofs --------------------------
(***************************************************************************)
(* Theorems about IdleShutdown, and about IdleRedeploy, which extends it,  *)
(* for any number of workloads, roles and servers, any timeout and any     *)
(* number of requests, deployments and faults.                             *)
(***************************************************************************)
EXTENDS IdleRedeploy, FiniteSetTheorems, TLAPS

\* Past the last PATCH of shut_down every workload is at zero, past the DELETE
\* the Gateway is gone too.
Teardown ==
  /\ ~HasGateway => ~gate
  /\ pc \in Polling => scaled = 0
  /\ pc = "Scale" => scaled < NumWorkloads /\ \A w \in 1 .. scaled : w \notin up
  /\ pc \in {"Gateway", "Stop", "StopWait", "Done"} => up = {}
  /\ pc \in {"Stop", "StopWait", "Done"} => ~gate

\* With a Gateway the controller is never wanted down before that point.
NoWayBack ==
  HasGateway /\ ~watch =>
    up = {} /\ ~gate /\ pc \in {"Stop", "StopWait", "Done", "Gone"}

\* What is down was scaled by this shut_down, or a fault left it down.
Accounted ==
  /\ pc # "Gone" => \A w \in Position : w \in up \/ w \in orphans \/ w <= scaled
  /\ pc \in Polling \cup {"Scale", "Gateway", "Restore"} =>
       gate \/ ~HasGateway \/ GatewayObject \in orphans

SafetyInv == TypeOK /\ Teardown /\ NoWayBack /\ Accounted

USE WorkloadsAssumption, HomeAssumption, GatewayAssumption, TimeoutAssumption,
    BoundsAssumption, NoneAssumption

-----------------------------------------------------------------------------
\* A freshly started loop, with everything rendered up, satisfies the invariant.
LEMMA InitSafe == Init => SafetyInv
<1> SUFFICES ASSUME Init PROVE SafetyInv
  OBVIOUS
<1> USE DEF Init
<1>1. ObjectsOK BY DEF ObjectsOK
<1>2. FleetOK BY DEF FleetOK
<1>3. CheckOK BY DEF CheckOK
<1>4. TimerOK
  <2>1. previous \in Nat \cup {None} OBVIOUS
  <2>2. age \in 0 .. Timeout OBVIOUS
  <2>3. missed \in BOOLEAN /\ blind \subseteq Causes OBVIOUS
  <2>4. QED BY <2>1, <2>2, <2>3 DEF TimerOK
<1>5. ControlOK BY DEF ControlOK, Polling
<1>6. BudgetOK BY DEF BudgetOK
<1>7. Teardown BY DEF Teardown, Polling
<1>8. NoWayBack BY DEF NoWayBack
<1>9. Accounted BY DEF Accounted
<1>10. QED
  BY <1>1, <1>2, <1>3, <1>4, <1>5, <1>6, <1>7, <1>8, <1>9 DEF SafetyInv, TypeOK

\* The exception handler and a fresh process leave a well-typed, sleeping loop.
LEMMA FailOpenSafe ==
  ASSUME FailOpen
  PROVE  CheckOK' /\ TimerOK' /\ ControlOK'
<1>1. CheckOK'
  BY DEF FailOpen, CheckAtRest, CheckOK
<1>2. TimerOK'
  <2>1. previous' \in Nat \cup {None} BY DEF FailOpen, ResetTimer
  <2>2. age' \in 0 .. Timeout BY DEF FailOpen, ResetTimer
  <2>3. missed' \in BOOLEAN /\ blind' \subseteq Causes BY DEF FailOpen, ResetTimer
  <2>4. QED BY <2>1, <2>2, <2>3 DEF TimerOK
<1>3. ControlOK'
  BY DEF FailOpen, ControlOK, Polling
<1>4. QED
  BY <1>1, <1>2, <1>3

\* Spending a fault keeps the budget within its bound.
LEMMA FaultSafe == ASSUME BudgetOK, Fault, UNCHANGED requests PROVE BudgetOK'
  BY DEF BudgetOK, Fault

\* The fleet's steps change no Kubernetes object and nothing of the controller.
LEMMA PodsSafe == ASSUME SafetyInv, Pods PROVE SafetyInv'
<1> USE DEF SafetyInv, TypeOK
<1> PICK s \in Servers :
      BecomeReady(s) \/ Arrive(s) \/ Finish(s) \/ Restart(s) \/ Flap(s) \/ Evict(s)
  BY DEF Pods
<1> USE DEF BecomeReady, Arrive, Finish, Restart, Flap, Evict
<1>1. UNCHANGED <<up, gate, watch, control, orphans>>
  BY DEF cluster
<1>2. FleetOK'
  BY DEF FleetOK, NewProcess
<1>3. BudgetOK'
  BY DEF BudgetOK, Fault
<1>4. QED
  BY <1>1, <1>2, <1>3 DEF ObjectsOK, CheckOK, TimerOK, ControlOK, control, check, timer,
     Teardown, NoWayBack, Accounted

\* A check changes no Kubernetes object.
LEMMA CheckKeepsObjects ==
  ASSUME Check
  PROVE  UNCHANGED <<up, gate, watch, orphans, requests>>
  BY DEF Check, Sleep, ListTargets, Unrecognized, Decide, Scrape, ScrapeFails, cluster

\* It starts in a polling state and ends in one, or at the start of shut_down.
LEMMA CheckStaysOrStarts ==
  ASSUME ControlOK, Teardown, Check
  PROVE  pc \in Polling /\ scaled = 0 /\ scaled' = 0 /\ pc' \in Polling \cup {"Scale"}
  BY DEF Check, Sleep, ListTargets, Unrecognized, Decide, Scrape, ScrapeFails, FailOpen,
         Polling, Teardown, timer

\* One check of the loop, whatever it meets, keeps its locals and timer typed.
LEMMA CheckTypes ==
  ASSUME TypeOK, Check
  PROVE  FleetOK' /\ CheckOK' /\ TimerOK' /\ BudgetOK'
<1> USE DEF TypeOK
<1>1. CASE Sleep
  <2>1. FleetOK' /\ CheckOK' /\ BudgetOK'
    BY <1>1 DEF Sleep, fleet, check, FleetOK, CheckOK, BudgetOK
  <2>2. age' \in 0 .. Timeout /\ UNCHANGED <<previous, missed, blind>>
    BY <1>1 DEF Sleep, TimerOK
  <2>3. QED
    BY <2>1, <2>2 DEF TimerOK
<1>2. CASE ListTargets
  <2>1. FleetOK' /\ UNCHANGED requests
    BY <1>2 DEF ListTargets, fleet, FleetOK
  <2>2. CASE Cardinality(ready) = ExpectedTargets /\ ~FailOpen
    BY <1>2, <2>1, <2>2 DEF ListTargets, fleet, FleetOK, CheckOK, timer, TimerOK, BudgetOK
  <2>3. CASE FailOpen
    <3>1. UNCHANGED faults \/ Fault
      BY <1>2, <2>3 DEF ListTargets, NoFault
    <3>2. QED
      BY <2>1, <2>3, <3>1, FailOpenSafe, FaultSafe DEF BudgetOK
  <2>4. QED
    BY <1>2, <2>2, <2>3 DEF ListTargets
<1>3. CASE Unrecognized
  BY <1>3, FailOpenSafe DEF Unrecognized, fleet, FleetOK, BudgetOK
<1>4. CASE Decide
  <2>1. FleetOK' /\ CheckOK' /\ BudgetOK'
    BY <1>4 DEF Decide, CheckAtRest, fleet, FleetOK, CheckOK, BudgetOK
  <2>2. previous' \in Nat \cup {None}
    BY <1>4 DEF Decide, CheckOK
  <2>3. age' \in 0 .. Timeout
    BY <1>4 DEF Decide, TimerOK
  <2>4. missed' \in BOOLEAN /\ blind' \subseteq Causes
    BY <1>4 DEF Decide, TimerOK, CheckOK
  <2>5. QED
    BY <2>1, <2>2, <2>3, <2>4 DEF TimerOK
<1>5. ASSUME NEW s \in Servers, Scrape(s)
      PROVE  FleetOK' /\ CheckOK' /\ TimerOK' /\ BudgetOK'
  <2>1. FleetOK' /\ TimerOK'
    BY <1>5 DEF Scrape, fleet, timer, FleetOK, TimerOK
  <2>2. PICK page \in {"full", "garbled", "silent"} :
          /\ IF page = "full" THEN NoFault ELSE Fault
          /\ ReadPage(s, page)
          /\ dim' = dim \cup (IF page = "full" THEN {} ELSE {"page"})
                        \cup (IF s \in renewed THEN {"restart"} ELSE {})
    BY <1>5 DEF Scrape
  <2>3. BudgetOK'
    BY <1>5, <2>2, FaultSafe DEF Scrape, NoFault, BudgetOK
  <2>4. sum' \in Nat
    BY <2>2 DEF ReadPage, CheckOK, FleetOK
  <2>5. busy' \in BOOLEAN /\ recognized' \in BOOLEAN /\ stirred' \in BOOLEAN
    BY <1>5, <2>2 DEF Scrape, ReadPage
  <2>6. todo' \subseteq Servers /\ dim' \subseteq Causes
    BY <1>5, <2>2 DEF Scrape, CheckOK, Causes
  <2>7. QED
    BY <2>1, <2>3, <2>4, <2>5, <2>6 DEF CheckOK
<1>6. ASSUME NEW s \in Servers, ScrapeFails(s)
      PROVE  FleetOK' /\ CheckOK' /\ TimerOK' /\ BudgetOK'
  <2>1. FleetOK' /\ FailOpen /\ UNCHANGED requests /\ (UNCHANGED faults \/ Fault)
    BY <1>6 DEF ScrapeFails, fleet, FleetOK, NoFault
  <2>2. QED
    BY <2>1, FailOpenSafe, FaultSafe DEF BudgetOK
<1>7. QED
  BY <1>1, <1>2, <1>3, <1>4, <1>5, <1>6 DEF Check

\* One check of the loop preserves the invariant.
LEMMA CheckSafe == ASSUME SafetyInv, Check PROVE SafetyInv'
<1> USE DEF SafetyInv, TypeOK
<1>1. UNCHANGED <<up, gate, watch, orphans, requests>>
  BY CheckKeepsObjects
<1>2. pc \in Polling /\ scaled = 0 /\ scaled' = 0 /\ pc' \in Polling \cup {"Scale"}
  BY CheckStaysOrStarts
<1>3. TypeOK'
  BY <1>1, <1>2, CheckTypes DEF ObjectsOK, ControlOK, Polling, ShuttingDown
<1>4. Teardown' /\ NoWayBack' /\ Accounted'
  BY <1>1, <1>2 DEF Teardown, NoWayBack, Accounted, Polling, Position
<1>5. QED
  BY <1>3, <1>4

\* What every step of shut_down leaves alone.
LEMMA ShutDownKeepsFleet ==
  ASSUME ShutDown
  PROVE  UNCHANGED <<fleet, fresh, renewed, requests>>
  BY DEF ShutDown, ScaleDown, DeleteGateway, StopController, StopAgain, RestoreWorkload, Reraise

\* shut_down may fail at every request; no failure leaves the types.
LEMMA ShutDownTypes ==
  ASSUME TypeOK, ShutDown
  PROVE  FleetOK' /\ CheckOK' /\ TimerOK' /\ BudgetOK'
<1> USE DEF TypeOK
<1>1. FleetOK' /\ UNCHANGED requests
  BY ShutDownKeepsFleet DEF fleet, FleetOK
<1>2. BudgetOK'
  <2>1. UNCHANGED faults \/ Fault
    BY DEF ShutDown, ScaleDown, DeleteGateway, StopController, StopAgain, RestoreWorkload,
           Reraise, NoFault
  <2>2. QED
    BY <1>1, <2>1, FaultSafe DEF BudgetOK
<1>3. CASE Reraise
  BY <1>1, <1>2, <1>3, FailOpenSafe DEF Reraise
<1>4. CASE ~Reraise
  <2>1. UNCHANGED <<check, timer>>
    BY <1>4 DEF ShutDown, ScaleDown, DeleteGateway, StopController, StopAgain, RestoreWorkload
  <2>2. QED
    BY <1>1, <1>2, <2>1 DEF check, timer, CheckOK, TimerOK
<1>5. QED
  BY <1>3, <1>4

\* A scale PATCH of shut_down, answered, refused or unanswered.
LEMMA ScaleDownSafe ==
  ASSUME SafetyInv, ScaleDown
  PROVE  ObjectsOK' /\ ControlOK' /\ Teardown' /\ NoWayBack' /\ Accounted'
<1> USE DEF SafetyInv, TypeOK, ScaleDown, RollBack, LastWorkload, AfterScaling
<1>1. pc = "Scale" /\ scaled + 1 \in Position /\ UNCHANGED <<gate, watch>>
  BY DEF Teardown, ControlOK, Position
<1>2. ObjectsOK' /\ ControlOK'
  <2>1. ObjectsOK'
    BY <1>1 DEF ObjectsOK
  <2>2. scaled' \in 0 .. NumWorkloads
    BY <1>1 DEF ControlOK, Position
  <2>3. QED
    BY <2>1, <2>2 DEF ControlOK, ShuttingDown
<1>3. (pc' \in {"Gateway", "Stop"} => up' = {}) /\ pc' \in {"Scale", "Gateway", "Stop", "Restore"}
  <2>1. pc' \in {"Gateway", "Stop"} => scaled + 1 = NumWorkloads /\ up' = up \ {scaled + 1}
    OBVIOUS
  <2>2. scaled + 1 = NumWorkloads => \A w \in up : w = scaled + 1
    BY <1>1 DEF Teardown, ObjectsOK, ControlOK, Position
  <2>3. QED
    BY <2>1, <2>2
<1>4. pc' = "Scale" => scaled' < NumWorkloads /\ \A w \in 1 .. scaled' : w \notin up'
  BY <1>1 DEF Teardown, ControlOK, Position
<1>5. pc' = "Stop" => ~gate'
  BY <1>1 DEF Teardown
<1>6. Teardown'
  BY <1>1, <1>3, <1>4, <1>5 DEF Teardown, Polling
<1>7. NoWayBack'
  BY <1>1 DEF NoWayBack
<1>8. Accounted'
  BY <1>1 DEF Accounted, ControlOK, Position
<1>9. QED
  BY <1>2, <1>6, <1>7, <1>8

\* delete_gateway, answered, refused or unanswered.
LEMMA DeleteGatewaySafe ==
  ASSUME SafetyInv, DeleteGateway
  PROVE  ObjectsOK' /\ ControlOK' /\ Teardown' /\ NoWayBack' /\ Accounted'
<1> USE DEF SafetyInv, TypeOK, DeleteGateway, RollBack
<1>1. pc = "Gateway" /\ up = {} /\ UNCHANGED <<up, watch, scaled>> /\ pc' \in {"Stop", "Restore"}
  BY DEF Teardown
<1>2. gate' \in BOOLEAN /\ (pc' = "Stop" => ~gate') /\ (~gate => ~gate')
      /\ (UNCHANGED gate \/ pc' = "Stop" \/ GatewayObject \in orphans')
  <2>1. (gate' = gate \/ gate' = FALSE) /\ gate \in BOOLEAN
    BY DEF ObjectsOK
  <2>2. pc' = "Stop" => gate' = FALSE
    BY Zenon
  <2>3. UNCHANGED gate \/ pc' = "Stop" \/ GatewayObject \in orphans'
    BY Zenon
  <2>4. gate' \in BOOLEAN
    BY <2>1
  <2>5. ~gate => ~gate'
    BY <2>1, Zenon
  <2>6. pc' = "Stop" => ~gate'
    BY <2>2, Zenon
  <2>7. QED
    BY <2>3, <2>4, <2>5, <2>6, Zenon
<1>3. orphans \subseteq orphans' /\ orphans' \subseteq orphans \cup {GatewayObject}
  OBVIOUS
<1>4. ObjectsOK' /\ ControlOK'
  BY <1>1, <1>2, <1>3 DEF ObjectsOK, ControlOK, ShuttingDown
<1>5. Teardown' /\ NoWayBack'
  BY <1>1, <1>2 DEF Teardown, NoWayBack, Polling
<1>6. Accounted'
  BY <1>1, <1>2, <1>3 DEF Accounted, Polling
<1>7. QED
  BY <1>4, <1>5, <1>6

\* stop_controller: retried behind a Gateway, rolled back without one.
LEMMA StopSafe ==
  ASSUME SafetyInv, StopController \/ StopAgain
  PROVE  ObjectsOK' /\ ControlOK' /\ Teardown' /\ NoWayBack' /\ Accounted'
<1> USE DEF SafetyInv, TypeOK, StopController, StopAgain, StopFails, RollBack
<1>1. /\ pc \in {"Stop", "StopWait"} /\ up = {} /\ ~gate
      /\ UNCHANGED <<up, gate, scaled, orphans>> /\ watch' \in BOOLEAN
  BY DEF Teardown, ObjectsOK, cluster
<1>2. pc' \in {"Stop", "StopWait", "Done"} \/ (pc' = "Restore" /\ ~HasGateway)
  OBVIOUS
<1>3. ObjectsOK' /\ ControlOK'
  BY <1>1, <1>2 DEF ObjectsOK, ControlOK, ShuttingDown
<1>4. Teardown' /\ NoWayBack' /\ Accounted'
  BY <1>1, <1>2 DEF Teardown, NoWayBack, Accounted, Polling
<1>5. QED
  BY <1>3, <1>4

\* One PATCH of restore_workloads, including one that fails and is passed over.
LEMMA RestoreSafe ==
  ASSUME SafetyInv, RestoreWorkload
  PROVE  ObjectsOK' /\ ControlOK' /\ Teardown' /\ NoWayBack' /\ Accounted'
<1> USE DEF SafetyInv, TypeOK, RestoreWorkload
<1>1. pc = "Restore" /\ pc' = "Restore" /\ UNCHANGED <<gate, watch>>
  OBVIOUS
<1>2. scaled \in Position /\ scaled' = scaled - 1 /\ scaled' \in 0 .. NumWorkloads
  BY DEF ControlOK, Position
<1>3. /\ up' \subseteq up \cup {scaled} /\ up \subseteq up'
      /\ orphans' \subseteq orphans \cup {scaled} /\ orphans \subseteq orphans' \cup {scaled}
      /\ scaled \in up' \/ scaled \in orphans'
  OBVIOUS
<1>4. ObjectsOK' /\ ControlOK'
  BY <1>1, <1>2, <1>3 DEF ObjectsOK, ControlOK
<1>5. Teardown' /\ NoWayBack'
  BY <1>1 DEF Teardown, NoWayBack, Polling
<1>6. Accounted'
  <2>1. \A w \in Position : w \in up' \/ w \in orphans' \/ w <= scaled'
    BY <1>1, <1>2, <1>3 DEF Accounted, Position
  <2>2. GatewayObject \in orphans => GatewayObject \in orphans'
    BY <1>2, <1>3 DEF Position, GatewayObject
  <2>3. QED
    BY <1>1, <2>1, <2>2 DEF Accounted, Polling
<1>7. QED
  BY <1>4, <1>5, <1>6

\* The end of the rollback, back into the loop.
LEMMA ReraiseSafe ==
  ASSUME SafetyInv, Reraise
  PROVE  ObjectsOK' /\ ControlOK' /\ Teardown' /\ NoWayBack' /\ Accounted'
<1> USE DEF SafetyInv, TypeOK, Reraise
<1>1. pc = "Restore" /\ pc' = "Sleep" /\ scaled = 0 /\ scaled' = 0
      /\ UNCHANGED <<up, gate, watch, orphans>>
  BY DEF FailOpen, cluster
<1>2. QED
  BY <1>1 DEF ObjectsOK, ControlOK, Teardown, NoWayBack, Accounted, Polling

\* Every step of shut_down preserves the invariant.
LEMMA ShutDownSafe == ASSUME SafetyInv, ShutDown PROVE SafetyInv'
<1>1. ObjectsOK' /\ ControlOK' /\ Teardown' /\ NoWayBack' /\ Accounted'
  BY ScaleDownSafe, DeleteGatewaySafe, StopSafe, RestoreSafe, ReraiseSafe DEF ShutDown
<1>2. QED
  BY <1>1, ShutDownTypes DEF SafetyInv, TypeOK

\* A controller that dies hands what it had taken down over to orphans.
LEMMA CrashSafe == ASSUME SafetyInv, Crash PROVE SafetyInv'
<1> USE DEF SafetyInv, TypeOK
<1>1. /\ watch /\ UNCHANGED <<up, gate, watch, fleet, requests, fresh, renewed>> /\ Fault
      /\ pc' = "Sleep" /\ scaled' = 0 /\ orphans' = orphans \cup LeftBehind
  BY DEF Crash, FailOpen, cluster
<1>2. TypeOK'
  BY <1>1, FailOpenSafe, FaultSafe DEF Crash, ObjectsOK, FleetOK, fleet, LeftBehind
<1>3. Teardown' /\ NoWayBack'
  BY <1>1 DEF Teardown, NoWayBack, Polling
<1>4. Accounted'
  BY <1>1 DEF Accounted, LeftBehind, ObjectsOK
<1>5. QED
  BY <1>2, <1>3, <1>4

\* The pod of a controller scaled to zero goes, wherever the script is.
LEMMA TerminateSafe == ASSUME SafetyInv, Terminate PROVE SafetyInv'
<1> USE DEF SafetyInv, TypeOK
<1>1. /\ UNCHANGED <<up, gate, watch, fleet, requests, faults, fresh, renewed, orphans>>
      /\ ~watch /\ pc' = "Gone" /\ scaled' = 0
  BY DEF Terminate, cluster
<1>2. CheckOK' /\ TimerOK'
  <2>1. CheckOK' BY DEF Terminate, CheckAtRest, CheckOK
  <2>2. previous' \in Nat \cup {None} BY DEF Terminate, ResetTimer
  <2>3. age' \in 0 .. Timeout BY DEF Terminate, ResetTimer
  <2>4. missed' \in BOOLEAN /\ blind' \subseteq Causes BY DEF Terminate, ResetTimer
  <2>5. QED BY <2>1, <2>2, <2>3, <2>4 DEF TimerOK
<1>3. TypeOK'
  BY <1>1, <1>2 DEF ObjectsOK, FleetOK, fleet, BudgetOK, ControlOK
<1>4. Teardown' /\ NoWayBack' /\ Accounted'
  BY <1>1 DEF Teardown, NoWayBack, Accounted, Polling
<1>5. QED
  BY <1>3, <1>4

-----------------------------------------------------------------------------
\* Every action of the controller and of the cluster around it preserves the
\* invariant.
THEOREM Safety == Spec => []SafetyInv
<1>1. Init => SafetyInv
  BY InitSafe
<1>2. SafetyInv /\ [Next]_vars => SafetyInv'
  <2> SUFFICES ASSUME SafetyInv, [Next]_vars PROVE SafetyInv'
    OBVIOUS
  <2>1. CASE UNCHANGED vars
    BY <2>1 DEF vars, cluster, fleet, control, check, timer, SafetyInv, TypeOK, ObjectsOK,
       FleetOK, CheckOK, TimerOK, ControlOK, BudgetOK, Teardown, NoWayBack, Accounted
  <2>2. QED
    BY <2>1, PodsSafe, CheckSafe, ShutDownSafe, CrashSafe, TerminateSafe DEF Next, Stopped
<1>3. QED
  BY <1>1, <1>2, PTL DEF Spec

\* Every variable keeps its type: the index of shut_down stays within WORKLOADS
\* and the idle time within the timeout, whatever fails and whenever.
THEOREM TypeCorrect == Spec => []TypeOK
<1>1. SafetyInv => TypeOK
  BY DEF SafetyInv
<1>2. QED
  BY <1>1, Safety, PTL

\* While the controller watches, what is down is there because a fault left it.
THEOREM RollsBackAllButFaults == Spec => []PartialOnlyAfterFault
<1>1. SafetyInv => PartialOnlyAfterFault
  BY DEF SafetyInv, Teardown, Accounted, PartialOnlyAfterFault, LeftBehind, Position, Polling
<1>2. QED
  BY <1>1, Safety, PTL

\* Behind a Gateway the controller is scaled to zero last of all.
THEOREM ControllerStopsLast ==
  ASSUME HasGateway
  PROVE  Spec => []ControllerOutlivesInstance
<1>1. SafetyInv => ControllerOutlivesInstance
  BY DEF SafetyInv, NoWayBack, ControllerOutlivesInstance
<1>2. QED
  BY <1>1, Safety, PTL

\* shut_down, one request at a time, is a sequence of steps InstanceRelease
\* allows; everything else the controller and the cluster do is invisible to it.
LEMMA ShutDownRefines ==
  ASSUME SafetyInv, ShutDown
  PROVE  [Release!Next]_(Release!vars)
<1> USE DEF SafetyInv, Release!Next, Release!vars
<1>1. CASE ScaleDown
  <2>1. /\ scaled + 1 \in Position /\ (watch \/ ~HasGateway)
        /\ UNCHANGED <<gate, watch>>
    BY <1>1 DEF ScaleDown, Teardown, NoWayBack, TypeOK, ControlOK, Position
  <2>2. up' = up \ {scaled + 1} \/ UNCHANGED up
    BY <1>1 DEF ScaleDown
  <2>3. QED
    BY <2>1, <2>2 DEF Release!Lower
<1>2. CASE DeleteGateway
  BY <1>2 DEF DeleteGateway, Teardown, Release!DropGateway
<1>3. CASE StopController
  BY <1>3 DEF StopController, Teardown, Release!DropWatch
<1>4. CASE RestoreWorkload
  <2>1. /\ scaled \in Position /\ (watch \/ ~HasGateway)
        /\ UNCHANGED <<gate, watch>>
    BY <1>4 DEF RestoreWorkload, NoWayBack, TypeOK, ControlOK, Position
  <2>2. up' = up \cup {scaled} \/ UNCHANGED up
    BY <1>4 DEF RestoreWorkload
  <2>3. QED
    BY <2>1, <2>2 DEF Release!Raise
<1>5. CASE StopAgain \/ Reraise
  BY <1>5 DEF StopAgain, Reraise, cluster
<1>6. QED
  BY <1>1, <1>2, <1>3, <1>4, <1>5 DEF ShutDown

\* The controller implements InstanceRelease: to anything outside it, idle
\* shutdown takes the instance down in order, and behind a Gateway for good.
THEOREM Refinement == Spec => ReleasesInOrder
<1>1. Init => Release!Init
  BY DEF Init, Release!Init
<1>2. SafetyInv /\ [Next]_vars => [Release!Next]_(Release!vars)
  <2> SUFFICES ASSUME SafetyInv, [Next]_vars PROVE [Release!Next]_(Release!vars)
    OBVIOUS
  <2>1. CASE Pods
    BY <2>1 DEF Pods, BecomeReady, Arrive, Finish, Restart, Flap, Evict, cluster, Release!vars
  <2>2. CASE Check
    BY <2>2, CheckKeepsObjects DEF Release!vars
  <2>3. CASE Crash \/ Terminate \/ Stopped \/ UNCHANGED vars
    BY <2>3 DEF Crash, Terminate, Stopped, vars, cluster, Release!vars
  <2>4. QED
    BY <2>1, <2>2, <2>3, ShutDownRefines DEF Next
<1>3. QED
  BY <1>1, <1>2, Safety, PTL DEF Spec, ReleasesInOrder, Release!Spec
-----------------------------------------------------------------------------
(* What a shutdown rests on: two checks with one sum are two checks that   *)
(* saw the same counters.                                                  *)

\* One element for every request server s of S has finished by the counters f;
\* scrape_activity's sum is how many there are.
Units(f, S) == UNION {{s} \X (0 .. f[s] - 1) : s \in S}
Total(f, S) == Cardinality(Units(f, S))

Counts == [Servers -> Nat]

\* Outside scrape_activity its locals have no value of their own.
AtRest ==
  pc # "Scrape" =>
    todo = {} /\ sum = 0 /\ busy = FALSE /\ stirred = FALSE /\ dim = {}

\* The servers whose last scrape was the previous check's.
Unscraped == IF pc = "Scrape" THEN todo ELSE Servers

\* f[s] is what the last scrape of s saw, or the counter restarted since.
Since(s, f) ==
  s \notin renewed => completed[s] >= f[s] /\ (s \in fresh => completed[s] > f[s])

Measures(new) ==
  /\ sum = Total(new, Servers \ Unscraped)
  /\ \A s \in Servers \ Unscraped : Since(s, new)

Remembers(old) ==
  /\ previous = Total(old, Servers)
  /\ \A s \in Unscraped : Since(s, old)

Compares(old, new) ==
  /\ \A s \in Servers \ Unscraped : new[s] >= old[s]
  /\ stirred => busy \/ \E s \in Servers \ Unscraped : new[s] > old[s]

\* dim and blind say whether this check and the last ones had their true sums.
AllAnswered == dim = {}
Known == previous # None /\ blind = {}

Seen(old, new) ==
  /\ AllAnswered => Measures(new)
  /\ Known => Remembers(old)
  /\ AllAnswered /\ Known => Compares(old, new)

Evidence ==
  /\ AtRest
  /\ \E old, new \in Counts : Seen(old, new)
  /\ blind = {} => ~missed

\* A server's share of the sum is as large as its counter.
LEMMA UnitsOfOne ==
  ASSUME NEW f \in Counts, NEW s \in Servers
  PROVE  /\ IsFiniteSet({s} \X (0 .. f[s] - 1))
         /\ Cardinality({s} \X (0 .. f[s] - 1)) = f[s]
<1>1. f[s] \in Nat
  BY DEF Counts
<1>2. IsFiniteSet(0 .. f[s] - 1) /\ Cardinality(0 .. f[s] - 1) = f[s]
  BY <1>1, FS_Interval, SMT
<1>3. IsFiniteSet({s}) /\ Cardinality({s}) = 1
  BY FS_Singleton
<1>4. /\ IsFiniteSet({s} \X (0 .. f[s] - 1))
      /\ Cardinality({s} \X (0 .. f[s] - 1)) = Cardinality({s}) * Cardinality(0 .. f[s] - 1)
  BY <1>2, <1>3, FS_Product
<1>5. 1 * f[s] = f[s]
  BY <1>1
<1>6. QED
  BY <1>2, <1>3, <1>4, <1>5

\* The sum of finitely many servers is finite.
LEMMA UnitsFinite ==
  ASSUME NEW f \in Counts, NEW S \in SUBSET Servers
  PROVE  IsFiniteSet(Units(f, S)) /\ Total(f, S) \in Nat
<1> DEFINE Share == [s \in S |-> {s} \X (0 .. f[s] - 1)]
<1>1. IsFiniteSet(S)
  BY ServersAssumption, FS_Subset
<1>2. Share \in Surjection(S, {{s} \X (0 .. f[s] - 1) : s \in S})
  BY DEF Surjection
<1>3. IsFiniteSet({{s} \X (0 .. f[s] - 1) : s \in S})
  BY <1>1, <1>2, FS_Surjection
<1>4. \A T \in {{s} \X (0 .. f[s] - 1) : s \in S} : IsFiniteSet(T)
  BY UnitsOfOne
<1>5. IsFiniteSet(Units(f, S))
  BY <1>3, <1>4, FS_UNION DEF Units
<1>6. QED
  BY <1>5, FS_CardinalityType DEF Total

\* Scraping one more server adds its counter to the sum.
LEMMA TotalOfOneMore ==
  ASSUME NEW f \in Counts, NEW S \in SUBSET Servers, NEW s \in Servers \ S
  PROVE  Total(f, S \cup {s}) = Total(f, S) + f[s]
<1> DEFINE Share == {s} \X (0 .. f[s] - 1)
<1>1. Units(f, S \cup {s}) = Units(f, S) \cup Share
  BY DEF Units
<1>2. Units(f, S) \cap Share = {}
  BY DEF Units
<1>3. IsFiniteSet(Units(f, S)) /\ Total(f, S) \in Nat
  BY UnitsFinite
<1>4. IsFiniteSet(Share) /\ Cardinality(Share) = f[s]
  BY UnitsOfOne
<1>5. /\ IsFiniteSet(Units(f, S) \cup Share)
      /\ Cardinality(Units(f, S) \cup Share) =
           Cardinality(Units(f, S)) + Cardinality(Share) - Cardinality(Units(f, S) \cap Share)
  BY <1>3, <1>4, FS_Union
<1>6. Cardinality(Units(f, S) \cap Share) = 0
  BY <1>2, FS_EmptySet
<1>7. f[s] \in Nat
  BY DEF Counts
<1>8. Total(f, S \cup {s}) = Cardinality(Units(f, S) \cup Share)
  BY <1>1 DEF Total
<1>9. Cardinality(Units(f, S)) = Total(f, S)
  BY DEF Total
<1> HIDE DEF Share
<1>10. QED
  BY <1>3, <1>4, <1>5, <1>6, <1>7, <1>8, <1>9

\* Only the counters of the servers that are scraped count.
LEMMA TotalOfSame ==
  ASSUME NEW f, NEW g, NEW S, \A s \in S : f[s] = g[s]
  PROVE  Total(f, S) = Total(g, S)
  BY DEF Total, Units

\* No request finished between two checks with one sum, when no counter fell.
LEMMA SameTotalSameCounts ==
  ASSUME NEW old \in Counts, NEW new \in Counts,
         \A s \in Servers : new[s] >= old[s],
         Total(old, Servers) = Total(new, Servers)
  PROVE  \A s \in Servers : new[s] = old[s]
<1>1. Units(old, Servers) \subseteq Units(new, Servers)
  <2> SUFFICES ASSUME NEW s \in Servers, NEW n \in 0 .. old[s] - 1
               PROVE  n \in 0 .. new[s] - 1
    BY DEF Units
  <2>1. old[s] \in Nat /\ new[s] \in Nat /\ new[s] >= old[s]
    BY DEF Counts
  <2>2. QED
    BY <2>1
<1>2. IsFiniteSet(Units(new, Servers))
  BY UnitsFinite
<1>3. Units(old, Servers) = Units(new, Servers)
  BY <1>1, <1>2, FS_Subset DEF Total
<1>4. SUFFICES ASSUME NEW s \in Servers, new[s] # old[s] PROVE FALSE
  OBVIOUS
<1>5. old[s] \in Nat /\ new[s] \in Nat /\ new[s] > old[s]
  BY <1>4 DEF Counts
<1>6. old[s] \in 0 .. new[s] - 1 /\ old[s] \notin 0 .. old[s] - 1
  BY <1>5
<1>7. <<s, old[s]>> \in Units(new, Servers)
  BY <1>6 DEF Units
<1>8. <<s, old[s]>> \notin Units(old, Servers)
  BY <1>6 DEF Units
<1>9. QED
  BY <1>3, <1>7, <1>8

\* A freshly started loop remembers no check and is in none.
LEMMA NothingSeen ==
  ASSUME pc' # "Scrape", CheckAtRest, ResetTimer
  PROVE  Evidence'
<1>1. AtRest'
  BY DEF CheckAtRest, AtRest
<1>2. Unscraped' = Servers
  BY DEF Unscraped
<1> DEFINE zero == [s \in Servers |-> 0]
<1>3. zero \in Counts
  BY DEF Counts
<1>4. Total(zero, {}) = 0
  BY FS_EmptySet DEF Total, Units
<1>5. Measures(zero)' /\ Compares(zero, zero)' /\ ~Known'
  BY <1>2, <1>4 DEF Measures, Compares, Known, CheckAtRest, ResetTimer
<1>6. QED
  BY <1>1, <1>3, <1>5 DEF Evidence, Seen, ResetTimer

\* A step that leaves the check and the timer alone, in the loop or out of it.
LEMMA SeenStill ==
  ASSUME Evidence, UNCHANGED <<fleet, fresh, renewed, check, timer>>,
         pc = "Scrape" <=> pc' = "Scrape"
  PROVE  Evidence'
<1>1. AtRest' /\ Unscraped' = Unscraped
  BY DEF Evidence, AtRest, Unscraped, check
<1>2. \A f, s : Since(s, f) => Since(s, f)'
  BY DEF Since, fleet
<1>3. \A old, new : Seen(old, new) => Seen(old, new)'
  BY <1>1, <1>2 DEF Seen, AllAnswered, Known, Measures, Remembers, Compares, check, timer
<1>4. QED
  BY <1>1, <1>3 DEF Evidence, timer

\* Whatever a server does, its counter has not fallen behind its last scrape
\* unless it restarted, and has grown if a request finished.
LEMMA SinceStill ==
  ASSUME TypeOK, Pods, NEW f \in Counts, NEW s \in Servers, Since(s, f)
  PROVE  Since(s, f)'
<1>1. f[s] \in Nat /\ completed \in [Servers -> Nat]
  BY DEF Counts, TypeOK, FleetOK
<1>2. PICK t \in Servers :
        BecomeReady(t) \/ Arrive(t) \/ Finish(t) \/ Restart(t) \/ Flap(t) \/ Evict(t)
  BY DEF Pods
<1>3. CASE BecomeReady(t) \/ Arrive(t) \/ Flap(t)
  BY <1>3 DEF BecomeReady, Arrive, Flap, Since
<1>4. CASE Finish(t)
  <2>1. /\ renewed' = renewed /\ fresh' = fresh \cup {t}
        /\ completed'[s] = IF s = t THEN completed[s] + 1 ELSE completed[s]
    BY <1>1, <1>4 DEF Finish
  <2>2. QED
    BY <1>1, <2>1 DEF Since
<1>5. CASE Restart(t) \/ Evict(t)
  <2>1. /\ renewed' = renewed \cup {t} /\ fresh' = fresh
        /\ s # t => completed'[s] = completed[s]
    BY <1>1, <1>5 DEF Restart, Evict, NewProcess
  <2>2. QED
    BY <2>1 DEF Since
<1>6. QED
  BY <1>2, <1>3, <1>4, <1>5

\* The fleet leaves what the checks saw true.
LEMMA PodsSeen == ASSUME TypeOK, Evidence, Pods PROVE Evidence'
<1>1. UNCHANGED <<pc, check, timer>>
  BY DEF Pods, BecomeReady, Arrive, Finish, Restart, Flap, Evict, control
<1>2. AtRest' /\ Unscraped' = Unscraped
  BY <1>1 DEF Evidence, AtRest, Unscraped, check
<1>3. PICK old \in Counts, new \in Counts : Seen(old, new)
  BY DEF Evidence
<1>4. Unscraped \subseteq Servers
  BY DEF Unscraped, TypeOK, CheckOK
<1>5. \A f \in Counts, s \in Servers : Since(s, f) => Since(s, f)'
  BY SinceStill
<1>6. Seen(old, new)'
  BY <1>1, <1>2, <1>3, <1>4, <1>5
     DEF Seen, AllAnswered, Known, Measures, Remembers, Compares, check, timer
<1>7. QED
  BY <1>1, <1>2, <1>6 DEF Evidence, timer

\* A check begins with every server of the instance still to be scraped.
LEMMA ListSeen == ASSUME TypeOK, Evidence, ListTargets PROVE Evidence'
<1>1. CASE FailOpen
  BY <1>1, NothingSeen DEF FailOpen
<1>2. CASE ~FailOpen
  <2>1. /\ Cardinality(ready) = Cardinality(Servers)
        /\ pc = "List" /\ pc' = "Scrape" /\ todo' = ready
        /\ UNCHANGED <<sum, busy, stirred, dim, timer, fleet, fresh, renewed>>
    BY <1>2 DEF ListTargets, ExpectedTargets
  <2>2. ready = Servers
    BY <2>1, ServersAssumption, FS_Subset DEF TypeOK, FleetOK
  <2>3. AtRest' /\ Unscraped = Servers /\ Unscraped' = Servers
    BY <2>1, <2>2 DEF AtRest, Unscraped
  <2>4. \A f, s : Since(s, f) => Since(s, f)'
    BY <2>1 DEF Since, fleet
  <2>5. \A old, new : Seen(old, new) => Seen(old, new)'
    BY <2>1, <2>3, <2>4 DEF Seen, AllAnswered, Known, Measures, Remembers, Compares, timer
  <2>6. QED
    BY <2>1, <2>3, <2>5 DEF Evidence, timer
<1>3. QED
  BY <1>1, <1>2

\* A page that was read adds the server to the check's sum; one that was not,
\* or a counter that restarted, is on record in dim.
LEMMA ScrapeSeen ==
  ASSUME TypeOK, Evidence, NEW s \in Servers, Scrape(s)
  PROVE  Evidence'
<1>1. /\ pc = "Scrape" /\ pc' = "Scrape" /\ s \in todo /\ todo' = todo \ {s}
      /\ fresh' = fresh \ {s} /\ renewed' = renewed \ {s}
      /\ stirred' = (stirred \/ s \in fresh \/ running[s] > 0)
      /\ UNCHANGED <<completed, previous, missed, blind>>
  BY DEF Scrape, fleet, timer
<1>2. todo \subseteq Servers /\ completed \in Counts
  BY DEF TypeOK, CheckOK, FleetOK, Counts
<1>3. dim \subseteq dim' /\ (dim' = {} => s \notin renewed /\ sum' = sum + completed[s]
                               /\ busy' = (busy \/ running[s] > 0))
  BY DEF Scrape, ReadPage
<1>4. /\ AtRest' /\ Unscraped = todo /\ Unscraped' = todo \ {s}
      /\ Servers \ Unscraped' = (Servers \ Unscraped) \cup {s}
      /\ s \notin Servers \ Unscraped
  BY <1>1, <1>2 DEF AtRest, Unscraped
<1>5. PICK old \in Counts, new \in Counts : Seen(old, new)
  BY DEF Evidence
<1>6. \A f \in Counts, t \in Servers \ {s} : Since(t, f) => Since(t, f)'
  BY <1>1 DEF Since
<1>7. PICK now \in Counts :
        now[s] = completed[s] /\ \A t \in Servers \ {s} : now[t] = new[t]
  <2>1. [new EXCEPT ![s] = completed[s]] \in Counts
    BY <1>2 DEF Counts
  <2>2. /\ [new EXCEPT ![s] = completed[s]][s] = completed[s]
        /\ \A t \in Servers \ {s} : [new EXCEPT ![s] = completed[s]][t] = new[t]
    BY DEF Counts
  <2>3. QED
    BY <2>1, <2>2
<1>8. Known' => Remembers(old)'
  BY <1>1, <1>2, <1>4, <1>5, <1>6 DEF Seen, Known, Remembers
<1>9. AllAnswered' => Measures(now)'
  <2> SUFFICES ASSUME AllAnswered' PROVE Measures(now)'
    OBVIOUS
  <2>1. AllAnswered /\ Measures(new) /\ sum' = sum + completed[s]
    BY <1>3, <1>5 DEF AllAnswered, Seen
  <2>2. Total(now, Servers \ Unscraped) = Total(new, Servers \ Unscraped)
    <3>1. \A t \in Servers \ Unscraped : now[t] = new[t]
      BY <1>4, <1>7
    <3>2. QED
      BY <3>1, TotalOfSame
  <2>3. Total(now, (Servers \ Unscraped) \cup {s})
          = Total(now, Servers \ Unscraped) + now[s]
    BY <1>4, <1>7, TotalOfOneMore
  <2>4. sum' = Total(now, Servers \ Unscraped')
    BY <1>4, <1>7, <2>1, <2>2, <2>3 DEF Measures
  <2>5. \A t \in Servers \ Unscraped : Since(t, new)
    BY <2>1 DEF Measures
  <2>6. \A t \in Servers \ Unscraped : Since(t, now)'
    <3> TAKE t \in Servers \ Unscraped
    <3>1. Since(t, new)' /\ now[t] = new[t]
      BY <1>4, <1>5, <1>6, <1>7, <2>5
    <3>2. QED
      BY <3>1 DEF Since
  <2>7. Since(s, now)'
    BY <1>1, <1>2, <1>7 DEF Since, Counts
  <2>8. QED
    BY <1>4, <2>4, <2>6, <2>7 DEF Measures
<1>10. AllAnswered' /\ Known' => Compares(old, now)'
  <2> SUFFICES ASSUME AllAnswered', Known' PROVE Compares(old, now)'
    OBVIOUS
  <2>1. Compares(old, new) /\ Since(s, old) /\ s \notin renewed
    BY <1>1, <1>3, <1>4, <1>5 DEF AllAnswered, Known, Seen, Remembers
  <2>2. /\ busy' = (busy \/ running[s] > 0)
        /\ now[s] >= old[s] /\ (s \in fresh => now[s] > old[s])
    BY <1>3, <1>7, <2>1 DEF Since, AllAnswered
  <2>3. \A t \in Servers \ Unscraped : now[t] = new[t]
    BY <1>4, <1>7
  <2>4. \A t \in Servers \ Unscraped' : now[t] >= old[t]
    BY <1>4, <2>1, <2>2, <2>3 DEF Compares
  <2>5. stirred' => busy' \/ \E t \in Servers \ Unscraped' : now[t] > old[t]
    BY <1>1, <1>4, <2>1, <2>2, <2>3 DEF Compares
  <2>6. QED
    BY <2>4, <2>5 DEF Compares
<1>11. QED
  BY <1>1, <1>4, <1>5, <1>7, <1>8, <1>9, <1>10 DEF Evidence, Seen

\* Only a check with the sum of the one before and nothing in flight is taken
\* for an idle one, and then no server of it had served.
LEMMA DecideSeen == ASSUME TypeOK, Evidence, Decide PROVE Evidence'
<1>1. /\ pc = "Scrape" /\ todo = {} /\ pc' # "Scrape" /\ CheckAtRest
      /\ previous' = sum /\ missed' = (~Activity /\ (missed \/ stirred))
      /\ blind' = dim \cup (IF Activity THEN {} ELSE blind)
      /\ UNCHANGED <<fleet, fresh, renewed>>
  BY DEF Decide
<1>2. /\ AtRest' /\ Unscraped = {} /\ Unscraped' = Servers
      /\ Servers \ Unscraped = Servers /\ Servers \ Unscraped' = {}
  BY <1>1 DEF AtRest, Unscraped, CheckAtRest
<1>3. PICK old \in Counts, new \in Counts : Seen(old, new)
  BY DEF Evidence
<1>4. \A f, s : Since(s, f) => Since(s, f)'
  BY <1>1 DEF Since, fleet
<1>5. Known' => Remembers(new)'
  BY <1>1, <1>2, <1>3, <1>4 DEF Known, AllAnswered, Seen, Measures, Remembers
<1>6. Measures(new)' /\ Compares(new, new)'
  <2>1. sum' = 0 /\ stirred' = FALSE
    BY <1>1 DEF CheckAtRest
  <2>2. Total(new, {}) = 0
    BY FS_EmptySet DEF Total, Units
  <2>3. QED
    BY <1>2, <2>1, <2>2 DEF Measures, Compares
<1>7. blind' = {} => ~missed'
  <2> SUFFICES ASSUME blind' = {}, ~Activity PROVE ~missed /\ ~stirred
    BY <1>1
  <2>1. AllAnswered /\ Known /\ ~missed /\ sum = previous /\ ~busy
    BY <1>1 DEF Activity, AllAnswered, Known, Evidence
  <2>2. Total(old, Servers) = Total(new, Servers) /\ Compares(old, new)
    BY <1>2, <1>3, <2>1 DEF Seen, Measures, Remembers
  <2>3. \A s \in Servers : new[s] = old[s]
    BY <1>2, <2>2, SameTotalSameCounts DEF Compares
  <2>4. \A s \in Servers : ~(new[s] > old[s])
    BY <1>3, <2>3 DEF Counts
  <2>5. QED
    BY <1>2, <2>1, <2>2, <2>4 DEF Compares
<1>8. QED
  BY <1>2, <1>3, <1>5, <1>6, <1>7 DEF Evidence, Seen

\* Every step of the loop, of shut_down and of the world leaves the evidence
\* true: every reset of the timer forgets it, nothing else rewrites it.
LEMMA EvidenceKept ==
  ASSUME SafetyInv, Evidence, [Next]_vars
  PROVE  Evidence'
<1>0. TypeOK
  BY DEF SafetyInv
<1>1. CASE UNCHANGED vars
  BY <1>1, SeenStill DEF vars, control
<1>2. CASE FailOpen
  BY <1>2, NothingSeen DEF FailOpen
<1>3. CASE Check /\ ~FailOpen
  <2>1. CASE Sleep
    <3>1. AtRest' /\ Unscraped' = Unscraped
      BY <2>1 DEF Sleep, Evidence, AtRest, Unscraped, check
    <3>2. \A f, s : Since(s, f) => Since(s, f)'
      BY <2>1 DEF Sleep, Since, fleet
    <3>3. \A old, new : Seen(old, new) => Seen(old, new)'
      BY <2>1, <3>1, <3>2 DEF Sleep, Seen, AllAnswered, Known, Measures, Remembers, Compares, check
    <3>4. QED
      BY <2>1, <3>1, <3>3 DEF Sleep, Evidence
  <2>2. QED
    BY <1>0, <1>3, <2>1, ListSeen, ScrapeSeen, DecideSeen
       DEF Check, Unrecognized, ScrapeFails
<1>4. CASE ShutDown /\ ~FailOpen
  <2>1. UNCHANGED <<fleet, fresh, renewed, check, timer>> /\ pc # "Scrape" /\ pc' # "Scrape"
    BY <1>4 DEF ShutDown, ScaleDown, DeleteGateway, StopController, StopAgain,
       RestoreWorkload, Reraise, RollBack, StopFails, AfterScaling
  <2>2. QED
    BY <2>1, SeenStill
<1>5. CASE Terminate
  BY <1>5, NothingSeen DEF Terminate
<1>6. QED
  BY <1>0, <1>1, <1>2, <1>3, <1>4, <1>5, PodsSeen DEF Next, Stopped, Crash

\* The controller takes an instance down only after a whole timeout in which no
\* check met a server that had served or was serving, or a check of that time
\* is on record as having had a wrong sum: one sum for the counters of all
\* servers is enough, however their scrapes and requests interleave.
THEOREM ShutdownsRestOnEvidence == Spec => []ShutdownNeedsEvidence
<1>1. Init => Evidence
  <2> SUFFICES ASSUME Init PROVE Evidence
    OBVIOUS
  <2>1. AtRest /\ Unscraped = Servers
    BY DEF Init, AtRest, Unscraped
  <2> DEFINE zero == [s \in Servers |-> 0]
  <2>2. zero \in Counts
    BY DEF Counts
  <2>3. Total(zero, {}) = 0
    BY FS_EmptySet DEF Total, Units
  <2>4. Measures(zero) /\ Compares(zero, zero) /\ ~Known
    BY <2>1, <2>3 DEF Init, Measures, Compares, Known
  <2>5. QED
    BY <2>1, <2>2, <2>4 DEF Init, Evidence, Seen
<1>2. SafetyInv /\ Evidence /\ [Next]_vars => Evidence'
  BY EvidenceKept
<1>3. Evidence => ShutdownNeedsEvidence
  BY DEF Evidence, ShutdownNeedsEvidence
<1>4. QED
  BY <1>1, <1>2, <1>3, Safety, PTL DEF Spec

-----------------------------------------------------------------------------
(***************************************************************************)
(* What deployments beside the idle-shutdown controller restore.           *)
(***************************************************************************)
\* What holds whatever a deployment did in the middle of a shutdown.
Sound ==
  /\ TypeOK
  /\ pc \in Polling => scaled = 0
  /\ pc = "Scale" => scaled < NumWorkloads
  /\ ~HasGateway => ~gate /\ GatewayObject \notin orphans
Applying ==
  /\ next \in 0 .. (Len(Manifest) + 1) /\ clean \in BOOLEAN /\ whole \in BOOLEAN
  /\ next > 0 => ~whole

Resting == Polling \cup {"Done", "Gone"}
Present(o) == (o \in Position => o \in up) /\ (o = GatewayObject => gate) /\ (o = ControllerObject => watch)

\* A clean deployment has met no shutdown, and what it applied is there.
Cleaning ==
  next > 0 /\ clean =>
    pc \in Resting /\ \A i \in 1 .. (next - 1) : Present(Manifest[i]) /\ Manifest[i] \notin orphans

\* A controller that had ended when everything around it was restored.
Returned == pc \in {"Done", "Gone"} /\ watch /\ LeftBehind = {}

\* After it the controller is one that no deployment ever interfered with.
Settled == whole => Returned \/ (SafetyInv /\ (pc \in {"Done", "Gone"} => ~watch))

IInv == Sound /\ Applying /\ Cleaning /\ Settled

USE RolesAssumption, DeploysAssumption

-----------------------------------------------------------------------------
(* The manifest.                                                           *)

\* Its objects are those that a shutdown takes down, and the controller.
LEMMA ManifestObjects ==
  /\ Len(Manifest) \in Nat
  /\ DOMAIN Manifest = 1 .. Len(Manifest)
  /\ \A i \in 1 .. Len(Manifest) :
       Manifest[i] \in Position \cup {ControllerObject} \/ (HasGateway /\ Manifest[i] = GatewayObject)
  /\ \A o \in Position \cup {ControllerObject} : \E i \in 1 .. Len(Manifest) : Manifest[i] = o
  /\ HasGateway => \E i \in 1 .. Len(Manifest) : Manifest[i] = GatewayObject
<1> DEFINE roles == [i \in 1 .. NumRoles |-> i]
           picker == IF NumRoles < NumWorkloads THEN <<NumWorkloads>> ELSE <<>>
           gateway == IF HasGateway THEN <<GatewayObject>> ELSE <<>>
           first == roles \o <<ControllerObject>>
           second == first \o picker
<1>1. NumRoles \in Nat /\ NumRoles > 0 /\ NumWorkloads \in Nat /\ NumRoles \in {NumWorkloads, NumWorkloads - 1}
  OBVIOUS
<1>2. roles \in Seq(Nat) /\ Len(roles) = NumRoles /\ \A i \in 1 .. NumRoles : roles[i] = i
  BY <1>1
<1> HIDE DEF roles
<1>3. /\ first \in Seq(Nat) /\ Len(first) = NumRoles + 1
      /\ \A i \in 1 .. NumRoles : first[i] = i
      /\ first[NumRoles + 1] = ControllerObject
  BY <1>1, <1>2 DEF ControllerObject
<1> HIDE DEF first
<1>4. /\ second \in Seq(Nat) /\ Len(second) = NumWorkloads + 1
      /\ \A i \in 1 .. NumRoles : second[i] = i
      /\ second[NumRoles + 1] = ControllerObject
      /\ NumRoles < NumWorkloads => second[NumWorkloads + 1] = NumWorkloads
  BY <1>1, <1>3
<1> HIDE DEF second
<1>5. Manifest = second \o gateway BY DEF Manifest, second, first, roles
<1>6. CASE HasGateway
  <2>1. /\ Manifest \in Seq(Nat) /\ Len(Manifest) = NumWorkloads + 2
        /\ \A i \in 1 .. (NumWorkloads + 1) : Manifest[i] = second[i]
        /\ Manifest[NumWorkloads + 2] = GatewayObject
    BY <1>1, <1>4, <1>5, <1>6 DEF GatewayObject
  <2> QED BY <1>1, <1>4, <1>6, <2>1 DEF Position, ControllerObject
<1>7. CASE ~HasGateway
  <2>1. Manifest = second BY <1>4, <1>5, <1>7
  <2> QED BY <1>1, <1>4, <1>7, <2>1 DEF Position, ControllerObject
<1> QED BY <1>6, <1>7

-----------------------------------------------------------------------------
(* Types, whatever a deployment meets.                                     *)

LEMMA PodsSound == ASSUME Sound, Pods PROVE Sound' /\ UNCHANGED <<cluster, control, orphans>>
<1> USE DEF Sound, TypeOK
<1> PICK s \in Servers :
      BecomeReady(s) \/ Arrive(s) \/ Finish(s) \/ Restart(s) \/ Flap(s) \/ Evict(s)
  BY DEF Pods
<1> USE DEF BecomeReady, Arrive, Finish, Restart, Flap, Evict
<1>1. UNCHANGED <<cluster, control, orphans>> OBVIOUS
<1>2. FleetOK' BY DEF FleetOK, NewProcess
<1>3. BudgetOK' BY DEF BudgetOK, Fault
<1> QED
  BY <1>1, <1>2, <1>3 DEF ObjectsOK, CheckOK, TimerOK, ControlOK, cluster, control, check, timer

LEMMA CheckSound ==
  ASSUME Sound, Check
  PROVE  Sound' /\ UNCHANGED <<cluster, orphans>> /\ pc \in Polling /\ pc' \in Polling \cup {"Scale"}
<1> USE DEF Sound, TypeOK
<1>1. UNCHANGED <<up, gate, watch, orphans>> BY CheckKeepsObjects
<1>2. pc \in Polling /\ scaled = 0 /\ scaled' = 0 /\ pc' \in Polling \cup {"Scale"}
  BY DEF Check, Sleep, ListTargets, Unrecognized, Decide, Scrape, ScrapeFails, FailOpen, Polling, timer
<1>3. TypeOK' BY <1>1, <1>2, CheckTypes DEF ObjectsOK, ControlOK, Polling, ShuttingDown
<1> QED BY <1>1, <1>2, <1>3 DEF cluster, Polling

\* shut_down takes down what it finds, a Gateway only where there is one.
LEMMA ShutDownSound == ASSUME Sound, ShutDown PROVE Sound' /\ Moving
<1> USE DEF Sound, TypeOK
<1>1. FleetOK' /\ CheckOK' /\ TimerOK' /\ BudgetOK' BY ShutDownTypes
<1>2. Moving
  BY DEF ShutDown, ScaleDown, DeleteGateway, StopController, StopAgain, RestoreWorkload, Reraise,
     Moving, ShuttingDown
<1>3. /\ ObjectsOK' /\ ControlOK' /\ (pc' \in Polling => scaled' = 0) /\ (pc' = "Scale" => scaled' < NumWorkloads)
      /\ (~HasGateway => ~gate' /\ GatewayObject \notin orphans')
  <2>1. CASE ScaleDown
    <3> USE DEF ScaleDown, RollBack, LastWorkload, AfterScaling
    <3>1. pc = "Scale" /\ scaled + 1 \in Position /\ UNCHANGED <<gate, watch>>
      BY <2>1 DEF ControlOK, Position
    <3>2. ObjectsOK' BY <2>1, <3>1 DEF ObjectsOK
    <3>3. scaled' \in 0 .. NumWorkloads /\ (pc' = "Scale" => scaled' < NumWorkloads)
      BY <2>1, <3>1 DEF ControlOK, Position
    <3>4. pc' \in {"Scale", "Gateway", "Stop", "Restore"} BY <2>1
    <3>5. GatewayObject \in orphans' => GatewayObject \in orphans
      BY <2>1, <3>1 DEF GatewayObject, Position
    <3> QED BY <3>1, <3>2, <3>3, <3>4, <3>5 DEF ControlOK, ShuttingDown, Polling
  <2>2. CASE DeleteGateway
    <3> USE DEF DeleteGateway, RollBack
    <3>1. UNCHANGED <<up, watch, scaled>> /\ pc' \in {"Stop", "Restore"} BY <2>2
    <3>2. gate' = gate \/ gate' = FALSE BY <2>2, Zenon
    <3>3. gate' \in BOOLEAN BY <3>2 DEF ObjectsOK
    <3>4. orphans' \subseteq orphans \cup {GatewayObject} BY <2>2
    <3>5. ~gate => ~gate' BY <3>2, Zenon
    <3>6. ~gate => orphans' = orphans BY <2>2, Zenon
    <3>7. ~HasGateway => ~gate' /\ GatewayObject \notin orphans' BY <3>5, <3>6
    <3> QED BY <3>1, <3>3, <3>4, <3>7 DEF ObjectsOK, ControlOK, ShuttingDown, Polling
  <2>3. CASE StopController \/ StopAgain
    <3> USE DEF StopController, StopAgain, StopFails, RollBack
    <3>1. UNCHANGED <<up, gate, scaled, orphans>> BY <2>3 DEF cluster
    <3>2. watch' \in BOOLEAN BY <2>3 DEF ObjectsOK, cluster
    <3>3. pc' \in {"Stop", "StopWait", "Done", "Restore"} BY <2>3
    <3> QED BY <3>1, <3>2, <3>3 DEF ObjectsOK, ControlOK, ShuttingDown, Polling
  <2>4. CASE RestoreWorkload
    <3> USE DEF RestoreWorkload
    <3>1. pc = "Restore" /\ pc' = "Restore" /\ UNCHANGED <<gate, watch>> BY <2>4
    <3>2. scaled \in Position /\ scaled' \in 0 .. NumWorkloads BY <2>4 DEF ControlOK, Position
    <3>3. up' \subseteq up \cup {scaled} /\ orphans' \subseteq orphans \cup {scaled} BY <2>4
    <3> QED BY <3>1, <3>2, <3>3 DEF ObjectsOK, ControlOK, Polling, Position, GatewayObject
  <2>5. CASE Reraise
    <3>1. pc' = "Sleep" /\ scaled' = 0 /\ UNCHANGED <<up, gate, watch, orphans>>
      BY <2>5 DEF Reraise, FailOpen, cluster
    <3> QED BY <3>1 DEF ObjectsOK, ControlOK, Polling
  <2> QED BY <2>1, <2>2, <2>3, <2>4, <2>5 DEF ShutDown
<1> QED BY <1>1, <1>2, <1>3

LEMMA CrashSound ==
  ASSUME Sound, Crash
  PROVE  Sound' /\ watch /\ UNCHANGED cluster /\ pc' = "Sleep" /\ orphans' = orphans \cup LeftBehind
<1> USE DEF Sound, TypeOK
<1>1. /\ watch /\ UNCHANGED <<cluster, fleet, requests, fresh, renewed>> /\ Fault
      /\ pc' = "Sleep" /\ scaled' = 0 /\ orphans' = orphans \cup LeftBehind
  BY DEF Crash, FailOpen
<1>2. TypeOK'
  BY <1>1, FailOpenSafe, FaultSafe DEF Crash, ObjectsOK, FleetOK, fleet, cluster, LeftBehind
<1>3. ~HasGateway => GatewayObject \notin orphans'
  BY <1>1 DEF LeftBehind, Position, GatewayObject
<1> QED BY <1>1, <1>2, <1>3 DEF cluster

LEMMA TerminateSound ==
  ASSUME Sound, Terminate PROVE Sound' /\ ~watch /\ UNCHANGED <<cluster, orphans>> /\ pc' = "Gone"
<1> USE DEF Sound, TypeOK
<1>1. /\ UNCHANGED <<cluster, fleet, requests, faults, fresh, renewed, orphans>>
      /\ ~watch /\ pc' = "Gone" /\ scaled' = 0
  BY DEF Terminate
<1>2. CheckOK' /\ TimerOK'
  <2>1. CheckOK' BY DEF Terminate, CheckAtRest, CheckOK
  <2>2. previous' \in Nat \cup {None} BY DEF Terminate, ResetTimer
  <2>3. age' \in 0 .. Timeout BY DEF Terminate, ResetTimer
  <2>4. missed' \in BOOLEAN /\ blind' \subseteq Causes BY DEF Terminate, ResetTimer
  <2> QED BY <2>1, <2>2, <2>3, <2>4 DEF TimerOK
<1> QED BY <1>1, <1>2 DEF ObjectsOK, FleetOK, fleet, cluster, BudgetOK, ControlOK, Polling

LEMMA ResumeSound ==
  ASSUME Sound, Resume
  PROVE  /\ Sound' /\ UNCHANGED <<cluster, orphans>> /\ watch /\ pc \in {"Done", "Gone"}
         /\ pc' = "Sleep" /\ scaled' = 0
<1> USE DEF Sound, TypeOK
<1>1. /\ UNCHANGED <<cluster, fleet, requests, faults, fresh, renewed, orphans>>
      /\ watch /\ pc \in {"Done", "Gone"} /\ FailOpen /\ pc' = "Sleep" /\ scaled' = 0
  BY DEF Resume, FailOpen
<1>2. CheckOK' /\ TimerOK' /\ ControlOK' BY <1>1, FailOpenSafe
<1> QED BY <1>1, <1>2 DEF ObjectsOK, FleetOK, fleet, cluster, BudgetOK

\* An object that is applied, with or without an answer, and one that is not.
LEMMA AppliedSound ==
  ASSUME Sound, NEW o \in Position \cup {ControllerObject, GatewayObject}, o = GatewayObject => HasGateway,
         Applied(o), UNCHANGED <<control, requests, fresh>>, NoFault \/ Fault
  PROVE  Sound'
<1> USE DEF Sound, TypeOK
<1>1. ObjectsOK' /\ (~HasGateway => ~gate' /\ GatewayObject \notin orphans')
  <2>1. up' \subseteq Position /\ orphans' \subseteq Position \cup {GatewayObject} BY DEF Applied, ObjectsOK
  <2>2. gate' \in BOOLEAN /\ watch' \in BOOLEAN BY DEF Applied, ObjectsOK
  <2>3. ~HasGateway => ~gate' BY DEF Applied
  <2>4. ~HasGateway => GatewayObject \notin orphans' BY DEF Applied
  <2> QED BY <2>1, <2>2, <2>3, <2>4 DEF ObjectsOK
<1>2. FleetOK'
  <2>1. PICK S \in SUBSET Servers : Replaced(S) BY DEF Applied
  <2> QED BY <2>1 DEF Replaced, FleetOK
<1>3. BudgetOK' BY FaultSafe DEF NoFault, BudgetOK
<1> QED BY <1>1, <1>2, <1>3 DEF CheckOK, TimerOK, ControlOK, control, check, timer

-----------------------------------------------------------------------------
(* The invariant.                                                          *)

LEMMA InvInit == RedeployInit => IInv
<1> SUFFICES ASSUME RedeployInit PROVE IInv OBVIOUS
<1>1. SafetyInv BY InitSafe DEF RedeployInit
<1>2. Sound BY <1>1 DEF SafetyInv, RedeployInit, Init, Sound, Polling
<1>3. Applying BY ManifestObjects DEF RedeployInit, Applying
<1> QED BY <1>1, <1>2, <1>3 DEF IInv, Settled, Cleaning, RedeployInit, Init

\* A step beside a deployment that is clean before and after it.
LEMMA BesideCleaning ==
  ASSUME IInv, clean', ~Moving', UNCHANGED <<next, deploys, whole>>, clean,
         Pods \/ Check \/ ShutDown \/ Crash \/ Terminate \/ Resume
  PROVE  Cleaning'
<1> SUFFICES ASSUME next > 0
             PROVE  pc' \in Resting /\ \A i \in 1 .. (next - 1) : Present(Manifest[i])' /\ Manifest[i] \notin orphans'
  BY DEF Cleaning
<1> USE DEF IInv
<1>1. pc \in Resting /\ \A i \in 1 .. (next - 1) : Present(Manifest[i]) /\ Manifest[i] \notin orphans
  BY DEF Cleaning
<1>2. ~ShutDown BY <1>1, ShutDownSound DEF Moving, Resting, Polling, ShuttingDown
<1>3. pc' \in Resting
  <2>1. CASE Pods BY <1>1, <2>1, PodsSound DEF control
  <2>2. CASE Check BY <2>2, CheckSound DEF Moving, ShuttingDown, Resting
  <2>3. CASE Crash \/ Terminate \/ Resume
    BY <2>3, CrashSound, TerminateSound, ResumeSound DEF Resting, Polling
  <2> QED BY <1>2, <2>1, <2>2, <2>3
<1>4. UNCHANGED cluster BY <1>2, PodsSound, CheckSound, CrashSound, TerminateSound, ResumeSound
<1>5. orphans' \subseteq orphans \cup LeftBehind
  BY <1>2, PodsSound, CheckSound, CrashSound, TerminateSound, ResumeSound
<1>6. \A o : Present(o) => Present(o)' BY <1>4 DEF Present, cluster
<1>7. \A i \in 1 .. (next - 1) : Manifest[i] \notin LeftBehind
  BY <1>1 DEF Present, LeftBehind
<1> QED BY <1>1, <1>3, <1>5, <1>6, <1>7

\* A step beside no deployment, after one that restored everything.
LEMMA BesideSettled ==
  ASSUME IInv, UNCHANGED whole, whole,
         Pods \/ Check \/ ShutDown \/ Crash \/ Terminate \/ Resume
  PROVE  Settled'
<1> USE DEF IInv
<1>1. CASE Returned
  <2>1. pc \in {"Done", "Gone"} /\ watch /\ LeftBehind = {} BY <1>1 DEF Returned
  <2>2. ~Check /\ ~ShutDown /\ ~Terminate
    BY <2>1, CheckSound, ShutDownSound, TerminateSound DEF Moving, Polling, ShuttingDown
  <2>3. CASE Pods
    BY <2>1, <2>3, PodsSound DEF Settled, Returned, LeftBehind, control, cluster
  <2>4. CASE Crash \/ Resume
    <3>1. UNCHANGED cluster /\ pc' = "Sleep" /\ Sound'
      BY <2>4, CrashSound, ResumeSound
    <3>2. Position \subseteq up' /\ watch' /\ (gate' \/ ~HasGateway)
      BY <2>1, <3>1 DEF LeftBehind, cluster
    <3>3. SafetyInv'
      BY <3>1, <3>2 DEF SafetyInv, Sound, Teardown, NoWayBack, Accounted, Polling
    <3> QED BY <3>1, <3>3 DEF Settled
  <2> QED BY <2>2, <2>3, <2>4
<1>2. CASE SafetyInv /\ (pc \in {"Done", "Gone"} => ~watch)
  <2>1. ~Resume BY <1>2, ResumeSound
  <2>2. SafetyInv' BY <1>2, <2>1, PodsSafe, CheckSafe, ShutDownSafe, CrashSafe, TerminateSafe
  <2>3. pc' \in {"Done", "Gone"} => ~watch'
    <3>1. CASE Pods BY <1>2, <3>1, PodsSound DEF control, cluster
    <3>2. CASE Check \/ Crash BY <3>2, CheckSound, CrashSound DEF Polling
    <3>3. CASE Terminate BY <3>3, TerminateSound DEF cluster
    <3>4. CASE ShutDown
      BY <3>4 DEF ShutDown, ScaleDown, DeleteGateway, StopController, StopAgain, RestoreWorkload, Reraise,
         StopFails, RollBack, AfterScaling, FailOpen
    <3> QED BY <2>1, <3>1, <3>2, <3>3, <3>4
  <2> QED BY <2>2, <2>3 DEF Settled
<1> QED BY <1>1, <1>2 DEF Settled

LEMMA BesideNext ==
  ASSUME IInv, Beside(Pods \/ Check \/ ShutDown \/ Crash \/ Terminate \/ Resume) PROVE IInv'
<1>1. Pods \/ Check \/ ShutDown \/ Crash \/ Terminate \/ Resume BY DEF Beside
<1>2. clean' = (clean /\ ~Moving') /\ UNCHANGED <<next, deploys, whole>> BY DEF Beside
<1>3. Sound'
  BY <1>1, PodsSound, CheckSound, ShutDownSound, CrashSound, TerminateSound, ResumeSound DEF IInv
<1>4. clean' \in BOOLEAN BY <1>2 DEF IInv, Applying
<1>5. Applying' BY <1>2, <1>4 DEF IInv, Applying
<1>6. Cleaning'
  <2>1. CASE clean'
    <3>1. clean /\ ~Moving' BY <1>2, <2>1
    <3> QED BY <1>1, <1>2, <2>1, <3>1, BesideCleaning
  <2>2. CASE ~clean' BY <2>2 DEF Cleaning
  <2> QED BY <2>1, <2>2
<1>7. Settled'
  <2>1. CASE whole BY <1>1, <1>2, <2>1, BesideSettled
  <2>2. CASE ~whole BY <1>2, <2>2 DEF Settled
  <2> QED BY <2>1, <2>2
<1> QED BY <1>3, <1>5, <1>6, <1>7 DEF IInv

LEMMA StartNext == ASSUME IInv, StartApply PROVE IInv'
<1> USE DEF IInv
<1>1. UNCHANGED vars /\ next' = 1 /\ clean' = ~Moving /\ whole' = FALSE BY DEF StartApply
<1>2. Sound'
  BY <1>1 DEF Sound, vars, cluster, fleet, control, check, timer, TypeOK, ObjectsOK, FleetOK, CheckOK,
     TimerOK, ControlOK, BudgetOK
<1>3. Applying'
  <2>1. clean' \in BOOLEAN BY <1>1 DEF Moving
  <2>2. next' \in 0 .. (Len(Manifest) + 1) BY <1>1, ManifestObjects
  <2> QED BY <1>1, <2>1, <2>2 DEF Applying
<1>4. clean' => pc' \in Resting
  BY <1>1 DEF Moving, Resting, Sound, TypeOK, ControlOK, vars, control
<1>5. Cleaning' BY <1>1, <1>4 DEF Cleaning
<1> QED BY <1>1, <1>2, <1>3, <1>5 DEF Settled

\* An object is applied: a clean deployment has it, and keeps what it had.
LEMMA ApplyNext == ASSUME IInv, ApplyObject PROVE IInv'
<1> USE DEF IInv
<1>1. next \in 1 .. Len(Manifest) /\ next' = next + 1 /\ UNCHANGED <<control, requests, fresh, deploys, whole>>
  BY ManifestObjects DEF ApplyObject
<1> PICK o : o = Manifest[next] OBVIOUS
<1>2. o \in Position \cup {ControllerObject, GatewayObject} /\ (o = GatewayObject => HasGateway)
  BY <1>1, ManifestObjects DEF Position, ControllerObject, GatewayObject
<1>3. Sound'
  <2>1. CASE Applied(o) /\ (NoFault \/ Fault) BY <1>1, <1>2, <2>1, AppliedSound
  <2>2. CASE UNCHANGED <<cluster, fleet, renewed, orphans>> /\ Fault
    <3>1. BudgetOK' BY <1>1, <2>2, FaultSafe DEF Sound, TypeOK
    <3> QED BY <1>1, <2>2, <3>1 DEF Sound, TypeOK, ObjectsOK, FleetOK, CheckOK, TimerOK, ControlOK,
               cluster, fleet, control, check, timer
  <2> QED BY <2>1, <2>2 DEF ApplyObject
<1>4. Applying'
  <2>1. clean' \in BOOLEAN BY DEF ApplyObject
  <2> QED BY <1>1, <2>1, ManifestObjects DEF Applying
<1>5. Cleaning'
  <2> SUFFICES ASSUME clean'
               PROVE  pc' \in Resting /\ \A i \in 1 .. next : Present(Manifest[i])' /\ Manifest[i] \notin orphans'
    BY <1>1, ManifestObjects DEF Cleaning
  <2>1. Applied(o) /\ clean BY DEF ApplyObject
  <2>2. pc \in Resting /\ \A i \in 1 .. (next - 1) : Present(Manifest[i]) /\ Manifest[i] \notin orphans
    BY <1>1, <2>1 DEF Cleaning
  <2>3. pc' = pc BY <1>1 DEF control
  <2>4. up \subseteq up' /\ (gate => gate') /\ (watch => watch') /\ orphans' = orphans \ {o}
    BY <2>1 DEF Applied
  <2>5. Present(o)' /\ o \notin orphans' BY <2>1, <2>4 DEF Applied, Present
  <2>6. \A i \in 1 .. (next - 1) : Present(Manifest[i])' /\ Manifest[i] \notin orphans'
    BY <2>2, <2>4 DEF Present
  <2> QED BY <1>1, <2>2, <2>3, <2>5, <2>6, ManifestObjects
<1> QED BY <1>1, <1>3, <1>4, <1>5 DEF Settled, Applying

\* The end of a clean deployment: all that a shutdown takes down is there.
LEMMA Restored ==
  ASSUME IInv, ApplyDone, clean
  PROVE  up = Position /\ gate = HasGateway /\ watch /\ orphans = {} /\ pc \in Resting
<1> USE DEF IInv
<1>1. /\ pc \in Resting
      /\ \A i \in 1 .. Len(Manifest) : Present(Manifest[i]) /\ Manifest[i] \notin orphans
  BY ManifestObjects DEF Cleaning, ApplyDone
<1>2. \A o \in Position \cup {ControllerObject} : Present(o) /\ o \notin orphans
  BY <1>1, ManifestObjects
<1>3. HasGateway => gate /\ GatewayObject \notin orphans BY <1>1, ManifestObjects DEF Present
<1>4. up = Position /\ watch BY <1>2 DEF Present, Sound, TypeOK, ObjectsOK
<1>5. orphans = {} BY <1>2, <1>3 DEF Sound, TypeOK, ObjectsOK
<1>6. gate = HasGateway BY <1>3 DEF Sound, TypeOK, ObjectsOK
<1> QED BY <1>1, <1>4, <1>5, <1>6

LEMMA DoneNext == ASSUME IInv, ApplyDone \/ Killed PROVE IInv'
<1> USE DEF IInv
<1>1. next' = 0 /\ UNCHANGED <<cluster, fleet, control, requests, fresh, renewed, orphans, clean>>
      /\ (UNCHANGED faults \/ Fault)
  BY DEF ApplyDone, Killed, vars
<1>2. Sound'
  <2>1. BudgetOK' BY <1>1, FaultSafe DEF Sound, TypeOK, BudgetOK
  <2> QED BY <1>1, <2>1 DEF Sound, TypeOK, ObjectsOK, FleetOK, CheckOK, TimerOK, ControlOK,
             cluster, fleet, control, check, timer
<1>3. whole' \in BOOLEAN BY DEF ApplyDone, Killed, Applying
<1>4. Applying' /\ Cleaning' BY <1>1, <1>3, ManifestObjects DEF Applying, Cleaning
<1>5. Settled'
  <2> SUFFICES ASSUME whole' PROVE Returned' \/ (SafetyInv /\ (pc \in {"Done", "Gone"} => ~watch))'
    BY DEF Settled
  <2>1. ApplyDone /\ clean
    <3>1. ~Killed BY ManifestObjects DEF Killed, Applying
    <3> QED BY <3>1 DEF ApplyDone
  <2>2. up = Position /\ gate = HasGateway /\ watch /\ orphans = {} /\ pc \in Resting
    BY <2>1, Restored
  <2>3. CASE pc \in {"Done", "Gone"}
    BY <1>1, <2>2, <2>3 DEF Returned, LeftBehind, cluster, control
  <2>4. CASE pc \in Polling
    <3>1. SafetyInv'
      BY <1>1, <1>2, <2>2, <2>4 DEF SafetyInv, Sound, Teardown, NoWayBack, Accounted, Polling, cluster, control
    <3> QED BY <1>1, <2>4, <3>1 DEF control, Polling
  <2> QED BY <2>2, <2>3, <2>4 DEF Resting
<1> QED BY <1>2, <1>4, <1>5

LEMMA InvNext == ASSUME IInv, [RedeployNext]_everything PROVE IInv'
<1>1. CASE UNCHANGED everything
  BY <1>1 DEF everything, deployment, vars, cluster, fleet, control, check, timer, IInv, Sound, Applying,
     Cleaning, Settled, Returned, LeftBehind, Present, Resting, SafetyInv, TypeOK, ObjectsOK, FleetOK,
     CheckOK, TimerOK, ControlOK, BudgetOK, Teardown, NoWayBack, Accounted
<1>2. CASE Stopped /\ UNCHANGED deployment
  <2>1. UNCHANGED everything BY <1>2 DEF Stopped, everything
  <2> QED BY <1>1, <2>1
<1> QED BY <1>1, <1>2, BesideNext, StartNext, ApplyNext, DoneNext DEF RedeployNext, ApplyStep

-----------------------------------------------------------------------------
THEOREM RedeploySafety == RedeploySpec => []IInv
<1>1. IInv /\ [RedeployNext]_everything => IInv' BY InvNext
<1> QED BY <1>1, InvInit, PTL DEF RedeploySpec

\* "Applying or deploying the spec again restores all of those resources"
\* (README), for any manifest, before, after and between shutdowns: a
\* deployment in which nothing failed and which met no shutdown under way ends
\* with everything up and watched, whatever was down or lost before.
THEOREM DeploymentsDoRestore == RedeploySpec => DeploymentsRestore
<1>1. IInv /\ [RedeployNext]_everything =>
        (next # 0 /\ next' = 0 /\ whole' => up' = Position /\ gate' = HasGateway /\ watch' /\ orphans' = {})
  <2> SUFFICES ASSUME IInv, [RedeployNext]_everything, next # 0, next' = 0, whole'
               PROVE  up' = Position /\ gate' = HasGateway /\ watch' /\ orphans' = {}
    OBVIOUS
  <2>1. ~whole BY ManifestObjects DEF IInv, Applying
  <2>2. ApplyDone /\ clean
    BY <2>1 DEF RedeployNext, ApplyStep, ApplyDone, ApplyObject, StartApply, Killed, Beside, everything,
       deployment, IInv, Applying
  <2>3. up = Position /\ gate = HasGateway /\ watch /\ orphans = {} BY <2>2, Restored
  <2> QED BY <2>2, <2>3 DEF ApplyDone, vars, cluster
<1> QED BY <1>1, RedeploySafety, PTL DEF RedeploySpec, DeploymentsRestore

\* Behind a Gateway an instance that was restored is never up and unwatched:
\* no step that an earlier shutdown had left reaches it.
THEOREM RestoredStaysWatched == ASSUME HasGateway PROVE RedeploySpec => []WholeInstancesAreWatched
<1>1. IInv => WholeInstancesAreWatched
  <2> SUFFICES ASSUME IInv, whole
               PROVE  /\ pc \in Polling => watch /\ LeftBehind \subseteq orphans
                      /\ ~watch /\ HasGateway => up = {} /\ ~gate
    BY DEF WholeInstancesAreWatched
  <2>1. CASE Returned BY <2>1 DEF Returned, Polling
  <2>2. CASE SafetyInv
    BY <2>2 DEF SafetyInv, Teardown, NoWayBack, Accounted, LeftBehind, Position, Polling
  <2> QED BY <2>1, <2>2 DEF IInv, Settled
<1> QED BY <1>1, RedeploySafety, PTL
=============================================================================
