------------------------------ MODULE SlurmBatch ------------------------------
(***************************************************************************)
(* The batch script of a routed Slurm job (render_routed in                *)
(* manifesto/slurm_routing.py) from the queue to its end: it starts        *)
(* one srun in the background per role, per proxy role, and for the        *)
(* endpoint picker and Envoy, watches them, and stops all when one exits   *)
(* or when it is signalled.                                                *)
(*                                                                         *)
(* Bash handles a signal between two commands, that is, between two        *)
(* actions.  Slurm, srun and the services are environment.                 *)
(***************************************************************************)
EXTENDS Integers, FiniteSets

CONSTANTS
  RoleCount, Proxied,   \* the roles 1 .. RoleCount and those with routing_proxy
  Attempts,             \* rounds of the grace loop (30 in the script)
  Codes,                \* exit statuses of services
  MaxSignals, MaxExits  \* bounds: signals sent, services that exit of their own accord

ASSUME RolesAssumption == RoleCount \in Nat \ {0} /\ Proxied \subseteq 1 .. RoleCount
ASSUME AttemptsAssumption == Attempts \in Nat /\ MaxSignals \in Nat /\ MaxExits \in Nat
ASSUME CodesAssumption == Codes \subseteq 0 .. 255
Signals == {130, 143}   \* the statuses of INT and TERM

VARIABLES
  job,      \* Slurm's view: "queued", "running", "cancelled", "over"
  pc,       \* the next command of the script
  next,     \* the service started next
  pids,     \* MANIFESTO_PIDS
  step,     \* of each service: its srun and tasks
  own,      \* the status with which a service ended of its own accord, or -1
  dir,      \* MANIFESTO_ROUTER_DIR: "none", "made", "removed"
  pending,  \* the signal bash has yet to handle, or 0
  status,   \* the status the script ends with
  attempts, \* rounds of the grace loop left
  signals,  \* signals that may still be sent
  \* history
  cut       \* how the handler was cut short: "no", "early", "again", "killed"

script == <<pc, next, pids, dir, status, attempts, cut>>
vars == <<job, pc, next, pids, step, own, dir, pending, status, attempts, signals, cut>>

\* One service per role, per proxy role, and the two of the router.
ServiceCount == RoleCount + Cardinality(Proxied) + 2
Services == 1 .. ServiceCount
\* The proxy of a role is started right after the role.
Proxies == {r + Cardinality({p \in Proxied : p <= r}) : r \in Proxied}

\* A service is told to stop ("stopping"), loses a task and with it all others
\* ("ending"), or its srun is killed ("dying") while tasks may linger ("lost").
Alive == {"running", "stopping", "ending", "dying"}
Unarmed == {"setup", "mktemp", "arm"}
Starting == {"prepare", "fork", "record"}
Handler == {"term", "grace", "kill", "wait", "remove", "exit"}
\* Mutant: the traps are set when the configuration is complete.
Armed_Late == {"fork", "record", "watch"}
Armed == Starting \cup {"watch"}

Init ==
  /\ job = "queued" /\ pc = "setup" /\ next = 1 /\ pids = {}
  /\ step = [s \in Services |-> "none"] /\ own = [s \in Services |-> -1]
  /\ dir = "none" /\ pending = 0 /\ status = 0 /\ attempts = Attempts
  /\ signals = MaxSignals /\ cut = "no"

Live(s) == step[s] \in Alive
Become(p, from, to) == [s \in Services |-> IF s \in p /\ step[s] \in from THEN to ELSE step[s]]

\* stop: scancel drops a queued job; Slurm terminates everything in a running one.
Stop ==
  /\ job \in {"queued", "running"}
  /\ IF job = "queued" THEN job' = "over" /\ UNCHANGED <<step, pending>>
     ELSE /\ job' = "cancelled"
          /\ step' = Become(Services, {"running"}, "stopping")
          /\ pending' = IF pc # "ended" /\ pending = 0 THEN 143 ELSE pending
  /\ UNCHANGED <<script, own, signals>>

-----------------------------------------------------------------------------
(* The script.                                                             *)

OnNode == job \in {"running", "cancelled"}
Runs(command) == OnNode /\ pending = 0 /\ pc = command

\* Under set -e a command that fails ends the script, through the handler
\* where the EXIT trap is set.
Fails(code) == status' = code /\ pc' = IF pc \in Armed THEN "term" ELSE "ended"

Setup ==
  /\ Runs("setup")
  /\ \/ pc' = "mktemp" /\ UNCHANGED status
     \/ Fails(1)
  /\ UNCHANGED <<job, next, pids, step, own, dir, pending, attempts, signals, cut>>

MakeDirectory ==
  /\ Runs("mktemp")
  /\ \/ dir' = "made" /\ pc' = "arm" /\ UNCHANGED status
     \/ Fails(1) /\ UNCHANGED dir
  /\ UNCHANGED <<job, next, pids, step, own, pending, attempts, signals, cut>>

SetTraps ==
  /\ Runs("arm") /\ pc' = "prepare"
  /\ UNCHANGED <<job, next, pids, step, own, dir, pending, status, attempts, signals, cut>>

\* The hosts (a failing scontrol is an empty list, which the program refuses)
\* and MANIFESTO_PREPARE.
Prepare ==
  /\ Runs("prepare")
  /\ \/ pc' = "fork" /\ UNCHANGED status
     \/ Fails(1)
  /\ UNCHANGED <<job, next, pids, step, own, dir, pending, attempts, signals, cut>>

\* The list of a proxy's hosts cannot be read; what is exported may be empty.
HostsUnread ==
  /\ Runs("fork") /\ next \in Proxies /\ Fails(1)
  /\ UNCHANGED <<job, next, pids, step, own, dir, pending, attempts, signals, cut>>

Fork ==
  /\ Runs("fork") /\ pc' = "record"
  /\ step' = [step EXCEPT ![next] = "running"]
  /\ UNCHANGED <<job, next, pids, own, dir, pending, status, attempts, signals, cut>>

\* Mutant: PIDS=("$!") for PIDS+=("$!").
Recorded_Last == {next}
Recorded == pids \cup {next}
Record ==
  /\ Runs("record")
  /\ pids' = Recorded /\ next' = next + 1
  /\ pc' = IF next = ServiceCount THEN "watch" ELSE "fork"
  /\ UNCHANGED <<job, step, own, dir, pending, status, attempts, signals, cut>>

\* Mutant: the status of the service as it is.
ExitStatus_AsIs(s) == own[s]
ExitStatus(s) == IF own[s] = 0 THEN 1 ELSE own[s]

Notice(s) ==
  /\ Runs("watch") /\ s \in pids /\ ~Live(s)
  /\ status' = ExitStatus(s) /\ pc' = "term"
  /\ UNCHANGED <<job, next, pids, step, own, dir, pending, attempts, signals, cut>>

\* The handler, with every error ignored.
Terminate ==
  /\ Runs("term")
  /\ pc' = IF pids = {} THEN "remove" ELSE "grace"
  /\ step' = Become(pids, {"running"}, "stopping")
  /\ UNCHANGED <<job, next, pids, own, dir, pending, status, attempts, signals, cut>>

AllStopped == \A s \in pids : ~Live(s)
Patience == AllStopped \/ attempts = 0
Grace ==
  /\ Runs("grace")
  /\ IF Patience THEN pc' = "kill" /\ UNCHANGED attempts
     ELSE attempts' = attempts - 1 /\ UNCHANGED pc
  /\ UNCHANGED <<job, next, pids, step, own, dir, pending, status, signals, cut>>

\* Mutant: TERM a second time.
Killed_Terminated == Become(pids, {"running"}, "stopping")
Killed == Become(pids, Alive, "dying")
KillRest ==
  /\ Runs("kill") /\ pc' = "wait"
  /\ step' = Killed
  /\ UNCHANGED <<job, next, pids, own, dir, pending, status, attempts, signals, cut>>

\* Mutant: the sruns are not waited for.
Reaped_Any == TRUE
Reaped == AllStopped
Wait ==
  /\ Runs("wait") /\ Reaped /\ pc' = "remove"
  /\ UNCHANGED <<job, next, pids, step, own, dir, pending, status, attempts, signals, cut>>

RemoveDirectory ==
  /\ Runs("remove") /\ pc' = "exit" /\ dir' = "removed"
  /\ UNCHANGED <<job, next, pids, step, own, pending, status, attempts, signals, cut>>

Exit ==
  /\ Runs("exit") /\ pc' = "ended"
  /\ UNCHANGED <<job, next, pids, step, own, dir, pending, status, attempts, signals, cut>>

\* A signal ends the script: at once before the traps are set; through the
\* EXIT trap afterwards; and at once in the handler, which clears the EXIT trap
\* and leaves those of TERM and INT.
Handle ==
  /\ OnNode /\ pending # 0 /\ pc # "ended"
  /\ status' = pending /\ pending' = 0
  /\ IF pc \in Armed THEN pc' = "term" /\ UNCHANGED cut
     ELSE pc' = "ended" /\ cut' = IF pc \in Handler THEN "again" ELSE "early"
  /\ UNCHANGED <<job, next, pids, step, own, dir, attempts, signals>>

Script ==
  \/ Setup \/ MakeDirectory \/ SetTraps \/ Prepare \/ HostsUnread \/ Fork \/ Record
  \/ \E s \in Services : Notice(s)
  \/ Terminate \/ Grace \/ KillRest \/ Wait \/ RemoveDirectory \/ Exit \/ Handle

-----------------------------------------------------------------------------
(* Slurm, srun and the services.                                           *)

StartJob ==
  /\ job = "queued" /\ job' = "running"
  /\ UNCHANGED <<script, step, own, pending, signals>>

Signal(code) ==
  /\ OnNode /\ pc # "ended" /\ pending = 0 /\ signals > 0
  /\ pending' = code /\ signals' = signals - 1
  /\ UNCHANGED <<job, script, step, own>>

\* A task exits: --kill-on-bad-exit and --wait make srun stop the others.
TaskExits(s, code) ==
  /\ step[s] = "running" /\ Cardinality({q \in Services : own[q] # -1}) < MaxExits
  /\ step' = [step EXCEPT ![s] = "ending"] /\ own' = [own EXCEPT ![s] = code]
  /\ UNCHANGED <<job, script, pending, signals>>

\* Mutant: neither option, so other tasks keep the step alive.
StepEnds_Unpropagated(s) == FALSE
StepEnds(s) == step[s] = "ending"
EndStep(s) ==
  /\ StepEnds(s)
  /\ step' = [step EXCEPT ![s] = "exited"]
  /\ UNCHANGED <<job, script, own, pending, signals>>

Die(s) ==
  /\ step[s] = "dying"
  /\ step' = [step EXCEPT ![s] = "lost"]
  /\ UNCHANGED <<job, script, own, pending, signals>>

\* A service that was told to stop may take any time, or ignore it.
Obey(s) ==
  /\ step[s] \in {"stopping", "lost"}
  /\ step' = [step EXCEPT ![s] = "exited"]
  /\ UNCHANGED <<job, script, own, pending, signals>>

\* The job ends with its batch script, and what is left of its steps with it.
EndJob ==
  /\ OnNode /\ pc = "ended" /\ job' = "over"
  /\ step' = Become(Services, Alive \cup {"lost"}, "exited")
  /\ UNCHANGED <<script, own, pending, signals>>

\* KillWait after a cancellation, the wall time, or a lost node.
KillJob ==
  /\ OnNode /\ pc # "ended"
  /\ job' = "over" /\ pc' = "ended" /\ cut' = "killed" /\ pending' = 0
  /\ step' = Become(Services, Alive \cup {"lost"}, "exited")
  /\ UNCHANGED <<next, pids, own, dir, status, attempts, signals>>

Environment ==
  \/ Stop \/ StartJob \/ EndJob \/ KillJob
  \/ \E code \in Signals : Signal(code)
  \/ \E s \in Services : EndStep(s) \/ Die(s) \/ Obey(s) \/ \E code \in Codes : TaskExits(s, code)

Next == Script \/ Environment

\* Bash goes on with the script, srun takes a step down, Slurm ends a job.
Fairness ==
  /\ WF_vars(Script) /\ WF_vars(EndJob)
  /\ \A s \in Services : WF_vars(EndStep(s)) /\ WF_vars(Die(s))
Spec == Init /\ [][Next]_vars /\ Fairness

-----------------------------------------------------------------------------
States == {"none", "exited", "lost"} \cup Alive
TypeOK ==
  /\ job \in {"queued", "running", "cancelled", "over"}
  /\ pc \in Unarmed \cup Starting \cup {"watch", "ended"} \cup Handler
  /\ next \in 1 .. (ServiceCount + 1) /\ (pc \in {"fork", "record"} => next <= ServiceCount)
  /\ pids \subseteq Services
  /\ step \in [Services -> States] /\ own \in [Services -> Codes \cup {-1}]
  /\ dir \in {"none", "made", "removed"}
  /\ pending \in {0} \cup Signals /\ status \in 0 .. 255
  /\ attempts \in 0 .. Attempts /\ signals \in 0 .. MaxSignals
  /\ cut \in {"no", "early", "again", "killed"}

\* The services read their configuration and endpoints from the directory: it
\* is removed only when every recorded srun has ended (slurm_routing.py:156-159).
DirectoryOutlivesServices == dir = "removed" => AllStopped

\* Once the handler has run to its end the script leaves at most one service
\* behind: the one whose start it was signalled in, before its pid was kept
\* (slurm_routing.py:175).
OnlyUnrecordedSurvives ==
  pc = "ended" /\ cut # "again" => \A s \in Services : Live(s) => s = next /\ s \notin pids

\* The directory stays behind only if a signal came before the traps were set
\* or again in the handler, or Slurm killed the script (slurm_routing.py:139-164).
LeaksAreExplained == pc = "ended" /\ dir = "made" => cut # "no"

\* The job never ends as if it had succeeded, and its status is that of a
\* service that exited (1 for 0), of the signal, or 1 when a command failed
\* before the first service or before a proxy was started (slurm_routing.py:193,
\* 222-224).
StatusTellsTheCause ==
  pc = "ended" /\ cut = "no" =>
    \/ status \in Signals
    \/ status # 0 /\ \E s \in pids : own[s] # -1 /\ status = ExitStatus(s)
    \/ /\ status = 1 /\ next \in {1} \cup Proxies
       /\ \A s \in Services : s >= next => step[s] = "none"

\* "Any service exit ends the deployment" (slurm_routing.py:218), one with
\* status 0 too; "A service failure stops the other steps" (README).
AnyExitEndsAll ==
  \A s \in Services :
    own[s] # -1 ~> pc = "ended" /\ \A other \in Services : step[other] \in {"none", "exited"}

\* A signalled script ends although services may ignore TERM.
SignalEndsScript == pending # 0 ~> pc = "ended"
=============================================================================
