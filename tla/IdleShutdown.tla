----------------------------- MODULE IdleShutdown -----------------------------
(***************************************************************************)
(* The idle-shutdown controller of one instance: the script in             *)
(* manifesto/render/idle_shutdown.py, the Kubernetes objects it scales     *)
(* and deletes, and the vLLM API servers whose metrics it reads.           *)
(*                                                                         *)
(* Every API request and every scrape is a step of its own, so pods        *)
(* restart, requests arrive and the controller dies between any two of     *)
(* them.  A request to the API server is refused, answered, or carried     *)
(* out with its answer lost.  A metrics page is complete, garbled (its     *)
(* values do not parse) or silent (it has none of the watched metrics).    *)
(***************************************************************************)
EXTENDS Naturals, FiniteSets

CONSTANTS
  NumWorkloads,   \* length of WORKLOADS: the roles, then the endpoint picker
  Servers,        \* the ready API servers a fully ready instance has
  Home,           \* the workload each of them belongs to
  HasGateway,     \* GATEWAY is not None
  Timeout,        \* TIMEOUT_SECONDS, in polls
  MaxRequests,    \* bound: requests clients send over the whole run
  MaxFaults,      \* bound: failures of any kind over the whole run
  None

Position == 1 .. NumWorkloads
GatewayObject == 0

ASSUME WorkloadsAssumption == NumWorkloads \in Nat \ {0}
ASSUME HomeAssumption == Home \in [Servers -> Position]
ASSUME ServersAssumption == IsFiniteSet(Servers)
ASSUME GatewayAssumption == HasGateway \in BOOLEAN
ASSUME TimeoutAssumption == Timeout \in Nat \ {0}
ASSUME BoundsAssumption == MaxRequests \in Nat /\ MaxFaults \in Nat
ASSUME NoneAssumption == None \notin Nat

VARIABLES
  (* the Kubernetes objects *)
  up,           \* workloads whose spec.replicas is the rendered number, not 0
  gate,         \* the Gateway exists
  watch,        \* spec.replicas of the controller's own Deployment is 1
  (* the servers *)
  ready,        \* servers whose pod is listed Ready
  running,      \* vllm:num_requests_running + vllm:num_requests_waiting
  completed,    \* vllm:request_success_total + vllm:request_failure_total
  (* the controller process *)
  pc,
  todo,         \* targets still to be scraped in this check
  sum,          \* completed, as scrape_activity adds it up
  busy,         \* running > 0, as scrape_activity adds it up
  recognized,
  previous,     \* previous_completed
  age,          \* time.monotonic() - last_activity, in polls, up to Timeout
  scaled,       \* length of the list scaled: always a prefix of WORKLOADS
  (* what the environment may still do *)
  requests, faults,
  (* history, read by no action of the code *)
  fresh,        \* servers that finished a request since they were last scraped
  renewed,      \* servers that restarted since they were last scraped
  stirred,      \* this check scraped a server that had served or was serving
  dim,          \* why this check's sum is not the true one
  missed,       \* since last_activity some check was stirred and not noticed
  blind,        \* why checks since last_activity had a wrong sum
  orphans       \* objects left scaled down or deleted by a fault

cluster == <<up, gate, watch>>
fleet == <<ready, running, completed>>
check == <<todo, sum, busy, recognized, stirred, dim>>
timer == <<previous, age, missed, blind>>
control == <<pc, check, timer, scaled>>
vars == <<cluster, fleet, control, requests, faults, fresh, renewed, orphans>>

Causes == {"page", "restart"}
Polling == {"Sleep", "List", "Scrape"}
ShuttingDown == {"Scale", "Gateway", "Stop", "StopWait"}

ObjectsOK ==
  /\ up \subseteq Position /\ gate \in BOOLEAN /\ watch \in BOOLEAN
  /\ orphans \subseteq Position \cup {GatewayObject}

FleetOK ==
  /\ ready \subseteq Servers
  /\ running \in [Servers -> Nat] /\ completed \in [Servers -> Nat]
  /\ fresh \subseteq Servers /\ renewed \subseteq Servers

CheckOK ==
  /\ todo \subseteq Servers
  /\ sum \in Nat /\ busy \in BOOLEAN /\ recognized \in BOOLEAN
  /\ stirred \in BOOLEAN /\ dim \subseteq Causes

TimerOK ==
  /\ previous \in Nat \cup {None} /\ age \in 0 .. Timeout
  /\ missed \in BOOLEAN /\ blind \subseteq Causes

ControlOK ==
  /\ pc \in Polling \cup ShuttingDown \cup {"Restore", "Done", "Gone"}
  /\ scaled \in 0 .. NumWorkloads

BudgetOK == requests \in 0 .. MaxRequests /\ faults \in 0 .. MaxFaults

TypeOK == ObjectsOK /\ FleetOK /\ CheckOK /\ TimerOK /\ ControlOK /\ BudgetOK

CheckAtRest ==
  /\ todo' = {} /\ sum' = 0 /\ busy' = FALSE /\ recognized' = FALSE
  /\ stirred' = FALSE /\ dim' = {}

\* last_activity = time.monotonic(); previous_completed = None
ResetTimer ==
  /\ previous' = None /\ age' = 0
  /\ missed' = FALSE /\ blind' = {}

Init ==
  /\ up = Position /\ gate = HasGateway /\ watch = TRUE
  /\ ready = {} /\ running = [s \in Servers |-> 0] /\ completed = [s \in Servers |-> 0]
  /\ pc = "Sleep" /\ scaled = 0
  /\ todo = {} /\ sum = 0 /\ busy = FALSE /\ recognized = FALSE
  /\ previous = None /\ age = 0
  /\ requests = MaxRequests /\ faults = MaxFaults
  /\ fresh = {} /\ renewed = {} /\ stirred = FALSE /\ dim = {}
  /\ missed = FALSE /\ blind = {} /\ orphans = {}

\* A request that raises, or any other failure, spends one fault of the bound.
Fault == faults > 0 /\ faults' = faults - 1
NoFault == UNCHANGED faults

-----------------------------------------------------------------------------
(* Kubernetes and vLLM.                                                    *)

BecomeReady(s) ==
  /\ Home[s] \in up /\ s \notin ready
  /\ ready' = ready \cup {s}
  /\ UNCHANGED <<cluster, running, completed, control, requests, faults, fresh, renewed, orphans>>

Arrive(s) ==
  /\ s \in ready /\ requests > 0
  /\ requests' = requests - 1
  /\ running' = [running EXCEPT ![s] = @ + 1]
  /\ UNCHANGED <<cluster, ready, completed, control, faults, fresh, renewed, orphans>>

Finish(s) ==
  /\ running[s] > 0
  /\ running' = [running EXCEPT ![s] = @ - 1]
  /\ completed' = [completed EXCEPT ![s] = @ + 1]
  /\ fresh' = fresh \cup {s}
  /\ UNCHANGED <<cluster, ready, control, requests, faults, renewed, orphans>>

\* Counters start from zero in a new process; requests in flight are lost.
NewProcess(s) ==
  /\ ready' = ready \ {s}
  /\ running' = [running EXCEPT ![s] = 0]
  /\ completed' = [completed EXCEPT ![s] = 0]
  /\ renewed' = renewed \cup {s}

Restart(s) ==
  /\ s \in ready /\ Fault
  /\ NewProcess(s)
  /\ UNCHANGED <<cluster, control, requests, fresh, orphans>>

\* A readiness probe fails for a while; the process and its counters live on.
Flap(s) ==
  /\ s \in ready /\ Fault
  /\ ready' = ready \ {s}
  /\ UNCHANGED <<cluster, running, completed, control, requests, fresh, renewed, orphans>>

\* The pods of a workload scaled to zero go, some time after the PATCH.
Evict(s) ==
  /\ Home[s] \notin up
  /\ s \in ready \/ running[s] + completed[s] > 0
  /\ NewProcess(s)
  /\ UNCHANGED <<cluster, control, requests, faults, fresh, orphans>>

-----------------------------------------------------------------------------
(* The main loop.                                                          *)

\* time.sleep(POLL_SECONDS); slow calls make the time between checks longer.
Sleep ==
  /\ pc = "Sleep"
  /\ pc' = "List"
  /\ age' \in IF age < Timeout THEN age + 1 .. Timeout ELSE {Timeout}
  /\ UNCHANGED <<cluster, fleet, check, previous, missed, blind, scaled, requests, faults, fresh, renewed, orphans>>

\* except Exception: fail open, back to the loop with the timer reset.
FailOpen ==
  /\ pc' = "Sleep" /\ scaled' = 0
  /\ CheckAtRest /\ ResetTimer

ExpectedTargets == Cardinality(Servers)

\* ready_vllm_targets() lists the Ready pods; any other number of them than
\* EXPECTED_TARGETS resets the timer, as a failed request does.
ListTargets ==
  /\ pc = "List"
  /\ \/ /\ Cardinality(ready) = ExpectedTargets
        /\ pc' = "Scrape" /\ todo' = ready
        /\ UNCHANGED <<sum, busy, recognized, stirred, dim, timer, scaled, faults>>
     \/ Cardinality(ready) # ExpectedTargets /\ FailOpen /\ NoFault
     \/ Fault /\ FailOpen
  /\ UNCHANGED <<cluster, fleet, requests, fresh, renewed, orphans>>

\* What one page adds to completed, running and recognized; metric_value turns
\* a value that does not parse into 0.0.
ReadPage(s, page) ==
  /\ sum' = IF page = "full" THEN sum + completed[s] ELSE sum
  /\ busy' = (busy \/ (page = "full" /\ running[s] > 0))
  /\ recognized' = (recognized \/ page # "silent")

Scrape(s) ==
  /\ pc = "Scrape" /\ s \in todo
  /\ \E page \in {"full", "garbled", "silent"} :
       /\ IF page = "full" THEN NoFault ELSE Fault
       /\ ReadPage(s, page)
       /\ dim' = dim \cup (IF page = "full" THEN {} ELSE {"page"})
                     \cup (IF s \in renewed THEN {"restart"} ELSE {})
  /\ stirred' = (stirred \/ s \in fresh \/ running[s] > 0)
  /\ todo' = todo \ {s} /\ fresh' = fresh \ {s} /\ renewed' = renewed \ {s}
  /\ UNCHANGED <<cluster, fleet, pc, timer, scaled, requests, orphans>>

\* The connection fails, always possible for a server that is not ready.
ScrapeFails(s) ==
  /\ pc = "Scrape" /\ s \in todo
  /\ IF s \in ready THEN Fault ELSE NoFault
  /\ FailOpen
  /\ UNCHANGED <<cluster, fleet, requests, fresh, renewed, orphans>>

Unrecognized ==
  /\ pc = "Scrape" /\ todo = {} /\ ~recognized
  /\ FailOpen
  /\ UNCHANGED <<cluster, fleet, requests, faults, fresh, renewed, orphans>>

\* Mutant: requests in flight are not looked at.
Activity_IgnoresRunning == previous = None \/ sum # previous
Activity == previous = None \/ sum # previous \/ busy

\* Mutant: the wrong comparison.
IdleLongEnough_Strict == age > Timeout
IdleLongEnough == age >= Timeout

\* The timer is set again by activity; only a check without any may shut down.
Decide ==
  /\ pc = "Scrape" /\ todo = {} /\ recognized
  /\ previous' = sum
  /\ age' = IF Activity THEN 0 ELSE age
  /\ missed' = (~Activity /\ (missed \/ stirred))
  /\ blind' = dim \cup (IF Activity THEN {} ELSE blind)
  /\ pc' = IF ~Activity /\ IdleLongEnough THEN "Scale" ELSE "Sleep"
  /\ CheckAtRest
  /\ UNCHANGED <<cluster, fleet, scaled, requests, faults, fresh, renewed, orphans>>

-----------------------------------------------------------------------------
(* shut_down: scale every workload, delete the Gateway, stop the           *)
(* controller; on an exception restore what was scaled and re-raise.       *)

\* Mutant: the last workload scaled is left out of the rollback.
RollBack_SkipsLast == pc' = "Restore" /\ scaled' = IF scaled = 0 THEN 0 ELSE scaled - 1
RollBack == pc' = "Restore" /\ UNCHANGED scaled

\* Mutants: the loop runs one workload too far, or one too few.
LastWorkload_TooFar(w) == w > NumWorkloads
LastWorkload_TooFew(w) == w + 1 >= NumWorkloads
LastWorkload(w) == w = NumWorkloads

AfterScaling == IF HasGateway THEN "Gateway" ELSE "Stop"

ScaleDown ==
  LET w == scaled + 1
  IN /\ pc = "Scale"
     /\ \/ /\ up' = up \ {w} /\ scaled' = w
           /\ pc' = IF LastWorkload(w) THEN AfterScaling ELSE "Scale"
           /\ UNCHANGED <<orphans, faults>>
        \/ /\ Fault /\ RollBack
           /\ UNCHANGED <<up, orphans>>
        \/ /\ Fault /\ RollBack
           /\ up' = up \ {w} /\ orphans' = orphans \cup {w}
     /\ UNCHANGED <<gate, watch, fleet, check, timer, requests, fresh, renewed>>

\* A 404 is success: the Gateway was already deleted.
DeleteGateway ==
  /\ pc = "Gateway"
  /\ \/ /\ gate' = FALSE /\ pc' = "Stop"
        /\ UNCHANGED <<orphans, faults, scaled>>
     \/ /\ Fault /\ RollBack
        /\ UNCHANGED <<gate, orphans>>
     \/ /\ gate /\ Fault /\ RollBack
        /\ gate' = FALSE /\ orphans' = orphans \cup {GatewayObject}
  /\ UNCHANGED <<up, watch, fleet, check, timer, requests, fresh, renewed>>

\* retry is GATEWAY is not None: with a Gateway gone there is no way back.
\* Mutant: a failed stop is always rolled back.
StopFails_NoRetry == RollBack
StopFails == IF HasGateway THEN pc' = "StopWait" /\ UNCHANGED scaled ELSE RollBack

StopController ==
  /\ pc = "Stop"
  /\ \/ /\ watch' = FALSE /\ pc' = "Done"
        /\ UNCHANGED <<faults, scaled>>
     \/ Fault /\ StopFails /\ UNCHANGED watch
     \/ Fault /\ StopFails /\ watch' = FALSE
  /\ UNCHANGED <<up, gate, fleet, check, timer, requests, fresh, renewed, orphans>>

StopAgain ==
  /\ pc = "StopWait"
  /\ pc' = "Stop"
  /\ UNCHANGED <<cluster, fleet, check, timer, scaled, requests, faults, fresh, renewed, orphans>>

\* restore_workloads, last scaled first; a workload that cannot be restored is
\* printed and passed over.
RestoreWorkload ==
  /\ pc = "Restore" /\ scaled > 0
  /\ scaled' = scaled - 1
  /\ \/ /\ up' = up \cup {scaled} /\ orphans' = orphans \ {scaled}
        /\ Fault \/ NoFault
     \/ /\ Fault
        /\ orphans' = orphans \cup {scaled}
        /\ UNCHANGED up
  /\ UNCHANGED <<gate, watch, fleet, pc, check, timer, requests, fresh, renewed>>

\* raise, into the handler of the main loop.
Reraise ==
  /\ pc = "Restore" /\ scaled = 0
  /\ FailOpen
  /\ UNCHANGED <<cluster, fleet, requests, faults, fresh, renewed, orphans>>

-----------------------------------------------------------------------------
(* The controller's pod.                                                   *)

LeftBehind == (Position \ up) \cup (IF HasGateway /\ ~gate THEN {GatewayObject} ELSE {})

\* The container dies and its Deployment starts another with fresh variables.
Crash ==
  /\ watch /\ pc # "Gone" /\ Fault
  /\ FailOpen
  /\ orphans' = orphans \cup LeftBehind
  /\ UNCHANGED <<cluster, fleet, requests, fresh, renewed>>

\* A Deployment scaled to zero loses its pod, wherever the script is.
Terminate ==
  /\ ~watch /\ pc # "Gone"
  /\ pc' = "Gone" /\ scaled' = 0
  /\ CheckAtRest /\ ResetTimer
  /\ UNCHANGED <<cluster, fleet, requests, faults, fresh, renewed, orphans>>

\* The controller is gone and so are the pods: nothing is left to do.
Stopped ==
  /\ pc = "Gone"
  /\ UNCHANGED vars

Pods ==
  \E s \in Servers :
    BecomeReady(s) \/ Arrive(s) \/ Finish(s) \/ Restart(s) \/ Flap(s) \/ Evict(s)

Check == Sleep \/ ListTargets \/ Unrecognized \/ Decide
         \/ \E s \in Servers : Scrape(s) \/ ScrapeFails(s)

ShutDown == ScaleDown \/ DeleteGateway \/ StopController \/ StopAgain
            \/ RestoreWorkload \/ Reraise

Next == Pods \/ Check \/ ShutDown \/ Crash \/ Terminate \/ Stopped

\* The script loops for ever, kubelet and the workload controllers keep acting,
\* and a server finishes what it runs.
Fairness ==
  /\ WF_vars(Check) /\ WF_vars(ShutDown) /\ WF_vars(Terminate)
  /\ \A s \in Servers : WF_vars(BecomeReady(s)) /\ WF_vars(Finish(s)) /\ WF_vars(Evict(s))

Spec == Init /\ [][Next]_vars
FairSpec == Spec /\ Fairness

-----------------------------------------------------------------------------
(* Properties.                                                             *)

\* An instance is taken down only after a whole Timeout in which no check met a
\* server that had served or was serving, unless a check of that time had a
\* wrong sum: a page it could not read, or a server whose counters restarted.
\* (The sequential scrapes of scrape_activity and the test of Decide.)
ShutdownNeedsEvidence == pc \in ShuttingDown /\ blind = {} => ~missed

\* The comment in the except branch: "API, network, and metric-format failures
\* must never tear down a deployment whose idleness cannot be established".
FormatFailuresNeverTearDown == pc \in ShuttingDown /\ "restart" \notin blind => ~missed

\* README: "Once all expected vLLM API servers are ready, it watches request
\* counters [...] After 45 idle minutes it scales [...] to zero".
RestartsNeverHideActivity == pc \in ShuttingDown /\ "page" \notin blind => ~missed

\* While the controller watches, everything of the instance is up, except what
\* a fault took away for good: a PATCH or DELETE carried out with its answer
\* lost, a restore that failed, a controller that died while shutting down.
\* (The list scaled and restore_workloads.)
PartialOnlyAfterFault == pc \in Polling => LeftBehind \subseteq orphans

\* The test test_idle_shutdown_rolls_back_successful_scale_patches: a scale
\* PATCH that took effect is undone when a later request of shut_down fails.
RollBackIsComplete ==
  [][Reraise => up' = Position]_vars

\* The controller is scaled to zero only when it has nothing left to watch.
ControllerOutlivesInstance == ~watch => up = {} /\ ~gate

\* The objects outside move as InstanceRelease allows: the Gateway goes when no
\* workload is left, the controller last, and then nothing comes back.
Release == INSTANCE InstanceRelease WITH Parts <- Position
ReleasesInOrder == Release!Spec

Released == up = {} /\ ~gate /\ pc = "Gone"

\* When clients go quiet and faults end, the instance is released, unless a
\* fault left part of it down: the controller then never again finds every
\* target it expects.
EventuallyReleased == <>(Released \/ orphans # {})

\* README: "After 45 idle minutes it scales the model workloads and endpoint
\* picker to zero, deletes the instance Gateway [...] and scales itself to zero".
IdleInstanceIsReleased == <>Released
=============================================================================
