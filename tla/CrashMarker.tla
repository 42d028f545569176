----------------------------- MODULE CrashMarker -----------------------------
(***************************************************************************)
(* The crash marker of the launch script (build_launch_script in           *)
(* manifesto/launch.py) in one pod slot: a container that finds the marker *)
(* of its own pod was preceded by one that died without its exit handler,  *)
(* and clears the compilation caches before it starts vLLM.                *)
(*                                                                         *)
(* A container can be killed between any two commands of the script.  Its  *)
(* caches outlive it; on a pod-local volume they go with the pod, on a     *)
(* persistent one the next pod of the same host name inherits them.  A     *)
(* container may also be told to end: bash, which with a trap on EXIT      *)
(* catches SIGTERM, runs the handler at once, while vLLM goes on.          *)
(***************************************************************************)
EXTENDS Naturals, FiniteSets

CONSTANTS
  Hidden,        \* caches cleared with errors ignored: torch_compile_cache
  Caches,        \* all that cleanup_compile_caches clears
  Settings,      \* the circumstances to look at
  MaxPods, MaxFaults   \* bounds over the whole run

\* The caches are on an emptyDir that goes with the pod; rm may leave files
\* behind; vLLM workers may outlive the vLLM process for a while; the kubelet
\* ends containers with SIGTERM, as it does when a probe fails.
Circumstances == {"pod-local", "rm-fails", "stragglers", "terminated"}

ASSUME CachesAssumption == Hidden \subseteq Caches
ASSUME SettingsAssumption == Settings \subseteq SUBSET Circumstances
ASSUME CrashBounds == MaxPods \in Nat /\ MaxFaults \in Nat

VARIABLES
  setting,    \* which of the circumstances hold, for good
  uid,        \* MANIFESTO_POD_UID of the pod in this slot
  marker,     \* pods whose marker file exists
  dirty,      \* caches with a half-written artifact nobody is writing
  alive,      \* vLLM runs
  writing,    \* caches vLLM is writing to
  pc,
  todo,       \* caches still to be cleared
  faults,
  \* history
  inherited,  \* dirty caches an earlier pod left here
  excused     \* caches that rm could not clear, or written behind the handler

history == <<inherited, excused>>
vars == <<setting, uid, marker, dirty, alive, writing, pc, todo, faults, history>>

Starting == {"Check", "Clear", "Touch", "Trap", "Hooks"}
Handler == {"ExitClear", "Remove", "Exit"}

TypeOK ==
  /\ setting \in Settings
  /\ uid \in 0 .. MaxPods /\ marker \subseteq 0 .. uid
  /\ dirty \subseteq Caches /\ writing \subseteq Caches /\ todo \subseteq Caches
  /\ inherited \subseteq Caches /\ excused \subseteq Caches /\ alive \in BOOLEAN
  /\ (pc \notin {"Clear", "ExitClear"} => todo = {})
  /\ pc \in {"Down", "Running"} \cup Starting \cup Handler
  /\ faults \in 0 .. MaxFaults

Init ==
  /\ setting \in Settings
  /\ uid = 0 /\ marker = {} /\ dirty = {} /\ alive = FALSE /\ writing = {}
  /\ pc = "Down" /\ todo = {} /\ faults = MaxFaults /\ inherited = {} /\ excused = {}

Fault == faults > 0 /\ faults' = faults - 1

\* vLLM ends: what is being written stays half written.
Abandon ==
  /\ dirty' = dirty \cup writing /\ writing' = {} /\ alive' = FALSE
  /\ inherited' = inherited \ writing

-----------------------------------------------------------------------------
(* The script up to vLLM.                                                  *)

Launch ==
  /\ pc = "Down" /\ pc' = "Check"
  /\ UNCHANGED <<setting, uid, marker, dirty, alive, writing, todo, faults, history>>

Marked == uid \in marker

\* Mutant: the directories that find looks for are missed.
Cleanup_MissesHidden == Caches \ Hidden
Cleanup == Caches

CheckMarker ==
  /\ pc = "Check"
  /\ IF Marked THEN pc' = "Clear" /\ todo' = Cleanup ELSE pc' = "Touch" /\ UNCHANGED todo
  /\ UNCHANGED <<setting, uid, marker, dirty, alive, writing, faults, history>>

Removes(c) ==
  /\ todo' = todo \ {c}
  /\ dirty' = dirty \ {c} /\ inherited' = inherited \ {c} /\ excused' = excused \ ({c} \ writing)

\* rm leaves something behind and nobody looks.
Misses(c) ==
  /\ todo' = todo \ {c} /\ excused' = excused \cup {c}
  /\ UNCHANGED <<dirty, inherited>>

\* Mutant: no set -e.
ErrorsIgnored_All(c) == c \in Caches
ErrorsIgnored(c) == c \in Hidden

\* Under set -e an rm that fails ends the script; errors of find are ignored.
Clear(c) ==
  /\ pc = "Clear" /\ c \in todo
  /\ \/ Removes(c) /\ UNCHANGED <<pc, faults>>
     \/ /\ "rm-fails" \in setting /\ Fault
        /\ IF ErrorsIgnored(c) THEN Misses(c) /\ UNCHANGED pc
           ELSE pc' = "Down" /\ todo' = {} /\ UNCHANGED <<dirty, history>>
  /\ UNCHANGED <<setting, uid, marker, alive, writing>>

Cleared ==
  /\ pc = "Clear" /\ todo = {}
  /\ pc' = "Touch"
  /\ UNCHANGED <<setting, uid, marker, dirty, alive, writing, todo, faults, history>>

Touch ==
  /\ pc = "Touch"
  /\ marker' = marker \cup {uid} /\ pc' = "Trap"
  /\ UNCHANGED <<setting, uid, dirty, alive, writing, todo, faults, history>>

Trap ==
  /\ pc = "Trap" /\ pc' = "Hooks"
  /\ UNCHANGED <<setting, uid, marker, dirty, alive, writing, todo, faults, history>>

StartVllm ==
  /\ pc = "Hooks" /\ pc' = "Running" /\ alive' = TRUE
  /\ UNCHANGED <<setting, uid, marker, dirty, writing, todo, faults, history>>

-----------------------------------------------------------------------------
(* vLLM, and the exit handler.                                             *)

\* Behind the handler there is no telling what is written.
Write(c) ==
  /\ alive /\ c \notin writing
  /\ writing' = writing \cup {c}
  /\ excused' = IF pc = "Running" THEN excused ELSE excused \cup {c}
  /\ UNCHANGED <<setting, uid, marker, dirty, alive, pc, todo, faults, inherited>>

Written(c) ==
  /\ alive /\ c \in writing
  /\ writing' = writing \ {c}
  /\ UNCHANGED <<setting, uid, marker, dirty, alive, pc, todo, faults, history>>

\* STATUS is 0: nothing is cleared.
ExitsWell ==
  /\ pc = "Running" /\ writing = {}
  /\ pc' = "Remove" /\ alive' = FALSE
  /\ UNCHANGED <<setting, uid, marker, dirty, writing, todo, faults, history>>

\* vLLM, or a hook before it, exits with another status.
ExitsBadly ==
  /\ pc \in {"Hooks", "Running"} /\ Fault
  /\ Abandon
  /\ pc' = "ExitClear" /\ todo' = Cleanup
  /\ UNCHANGED <<setting, uid, marker, excused>>

\* SIGTERM reaches bash, the first process of the container, and not vLLM:
\* on_exit begins while vLLM runs.  Its $? is 128 + 15 with some versions of
\* bash, with others that of the last command before vLLM: 0.
Terminate ==
  /\ "terminated" \in setting /\ pc \in {"Hooks", "Running"} /\ Fault
  /\ \/ pc' = "ExitClear" /\ todo' = Cleanup
     \/ pc' = "Remove" /\ UNCHANGED todo
  /\ excused' = excused \cup writing
  /\ UNCHANGED <<setting, uid, marker, dirty, alive, writing, inherited>>

\* set +e: an rm that fails is passed over.
ExitClear(c) ==
  /\ pc = "ExitClear" /\ c \in todo
  /\ \/ Removes(c) /\ UNCHANGED faults
     \/ "rm-fails" \in setting /\ Fault /\ Misses(c)
  /\ UNCHANGED <<setting, uid, marker, alive, writing, pc>>

\* Mutant: the marker is removed before the caches are.
ExitCleared_Early == pc = "ExitClear"
ExitCleared == pc = "ExitClear" /\ todo = {}

AfterClearing ==
  /\ ExitCleared /\ pc' = "Remove"
  /\ UNCHANGED <<setting, uid, marker, dirty, alive, writing, todo, faults, history>>

RemoveMarker ==
  /\ pc = "Remove"
  /\ marker' = marker \ {uid} /\ pc' = "Exit"
  /\ UNCHANGED <<setting, uid, dirty, alive, writing, todo, faults, history>>

\* With bash ends the container, and vLLM if it still runs.
Exit ==
  /\ pc = "Exit" /\ pc' = "Down"
  /\ Abandon
  /\ UNCHANGED <<setting, uid, marker, todo, faults, excused>>

\* A worker goes on writing until the container is gone.
StragglerWrites(c) ==
  /\ "stragglers" \in setting /\ pc \in Handler
  /\ dirty' = dirty \cup {c} /\ inherited' = inherited \ {c} /\ excused' = excused \cup {c}
  /\ UNCHANGED <<setting, uid, marker, alive, writing, pc, todo, faults>>

\* SIGKILL, out of memory, a lost node: no handler runs.  Nor does it on
\* SIGTERM before the trap is set, when the first process of a container
\* ignores it until it is killed, or once the handler runs.
Kill ==
  /\ pc # "Down" /\ Fault
  /\ Abandon
  /\ pc' = "Down" /\ todo' = {}
  /\ UNCHANGED <<setting, uid, marker, excused>>

\* Another pod takes the slot: the workload is rolled out or rescheduled.
Replace ==
  /\ pc = "Down" /\ uid < MaxPods
  /\ uid' = uid + 1 /\ excused' = {}
  /\ IF "pod-local" \in setting THEN marker' = {} /\ dirty' = {} /\ inherited' = {}
     ELSE inherited' = dirty /\ UNCHANGED <<marker, dirty>>
  /\ UNCHANGED <<setting, alive, writing, pc, todo, faults>>

Script ==
  \/ Launch \/ CheckMarker \/ Cleared \/ Touch \/ Trap \/ StartVllm
  \/ AfterClearing \/ RemoveMarker \/ Exit
  \/ \E c \in Caches : Clear(c) \/ ExitClear(c)

Environment ==
  \/ ExitsWell \/ ExitsBadly \/ Terminate \/ Kill \/ Replace
  \/ \E c \in Caches : Write(c) \/ Written(c) \/ StragglerWrites(c)

Next == Script \/ Environment

Spec == Init /\ [][Next]_vars

-----------------------------------------------------------------------------
(* Properties.                                                             *)

\* README: "model pods clear their JIT and compilation caches after a failed
\* process exit, or when the same container restarts after terminating without
\* running its exit handler", "retaining possibly corrupt compiled artifacts" is
\* for those who ask for it: vLLM never runs on an artifact its own pod left half
\* written.
RunsOnSoundCaches == pc = "Running" => dirty \subseteq inherited

\* So it is wherever and however the container ends and whatever rm does, but
\* for those very caches that rm missed with nobody looking, or that vLLM or its
\* workers wrote to behind the handler.
SoundButForExcused == pc = "Running" => dirty \subseteq inherited \cup excused

\* A container that found the marker goes on only when every cache is cleared,
\* but for those whose errors are ignored, whatever rm and stray workers do.
RestartsCleared == pc = "Touch" /\ uid \in marker => dirty \subseteq inherited \cup Hidden
=============================================================================
