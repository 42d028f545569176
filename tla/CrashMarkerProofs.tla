--------------------------- MODULE CrashMarkerProofs ---------------------------
(***************************************************************************)
(* Proofs about CrashMarker, for any caches, any number of pods and any    *)
(* number of faults.                                                       *)
(***************************************************************************)
EXTENDS CrashMarker, TLAPS

\* vLLM runs from its start until bash has ended, and only a vLLM that runs writes.
Alive ==
  /\ pc = "Running" => alive
  /\ alive => pc \in {"Running"} \cup Handler
  /\ ~alive => writing = {}

\* From the moment a container may write to its caches until they are clean
\* again, the marker of its pod is there; what is written behind the handler is
\* excused.
Covered ==
  /\ pc \in {"Clear", "Trap", "Hooks", "Running", "ExitClear", "Remove"} => uid \in marker
  /\ uid \notin marker => dirty \subseteq inherited \cup excused
  /\ alive /\ pc \in Handler => writing \subseteq excused

\* Past the start of the script, and past the clearing of the handler, no cache
\* is dirty but those of an earlier pod and the excused ones; within a cleanup,
\* none but these and those still to clear.
Clean ==
  /\ pc \in {"Touch", "Trap", "Hooks", "Running", "Remove"} => dirty \subseteq inherited \cup excused
  /\ pc \in {"Clear", "ExitClear"} => dirty \subseteq inherited \cup excused \cup todo

Inv == TypeOK /\ Alive /\ Covered /\ Clean

LEMMA TypeInit == Init => TypeOK
<1> SUFFICES ASSUME Init PROVE TypeOK
  OBVIOUS
<1>1. alive \in BOOLEAN BY Zenon DEF Init
<1> QED BY <1>1, CrashBounds DEF Init, TypeOK, Starting, Handler

LEMMA TypeNext == TypeOK /\ [Next]_vars => TypeOK'
<1> SUFFICES ASSUME TypeOK, [Next]_vars PROVE TypeOK'
  OBVIOUS
<1> USE CrashBounds DEF TypeOK, Starting, Handler, history
<1>1. CASE Script
  <2>1. CASE Launch BY <2>1 DEF Launch
  <2>2. CASE CheckMarker BY <2>2 DEF CheckMarker, Cleanup
  <2>3. CASE \E c \in Caches : Clear(c)
    BY <2>3 DEF Clear, Removes, Misses, Fault
  <2>4. CASE Cleared \/ StartVllm BY <2>4 DEF Cleared, StartVllm
  <2>5. CASE Touch BY <2>5 DEF Touch
  <2>6. CASE Trap BY <2>6 DEF Trap
  <2>7. CASE \E c \in Caches : ExitClear(c)
    BY <2>7 DEF ExitClear, Removes, Misses, Fault
  <2>8. CASE AfterClearing \/ RemoveMarker \/ Exit
    BY <2>8 DEF AfterClearing, ExitCleared, RemoveMarker, Exit, Abandon
  <2> QED BY <1>1, <2>1, <2>2, <2>3, <2>4, <2>5, <2>6, <2>7, <2>8 DEF Script
<1>2. CASE Environment
  <2>1. CASE ExitsWell BY <2>1 DEF ExitsWell
  <2>2. CASE ExitsBadly
    <3>1. alive' \in BOOLEAN BY <2>2, Zenon DEF ExitsBadly, Abandon
    <3> QED BY <2>2, <3>1 DEF ExitsBadly, Cleanup, Abandon, Fault
  <2>6. CASE Terminate BY <2>6 DEF Terminate, Cleanup, Fault
  <2>3. CASE Kill
    <3>1. alive' \in BOOLEAN BY <2>3, Zenon DEF Kill, Abandon
    <3> QED BY <2>3, <3>1 DEF Kill, Abandon, Fault
  <2>4. CASE Replace
    <3>1. uid' \in 0 .. MaxPods BY <2>4 DEF Replace
    <3>2. marker' \subseteq 0 .. uid' /\ dirty' \subseteq Caches /\ inherited' \subseteq Caches
      <4>1. CASE "pod-local" \in setting BY <2>4, <4>1 DEF Replace
      <4>2. CASE "pod-local" \notin setting
        <5>1. 0 .. uid \subseteq 0 .. uid' BY <2>4 DEF Replace
        <5>2. marker' = marker /\ dirty' = dirty /\ inherited' = dirty
          BY <2>4, <4>2 DEF Replace
        <5> QED BY <5>1, <5>2
      <4> QED BY <4>1, <4>2
    <3> QED BY <2>4, <3>1, <3>2 DEF Replace
  <2>5. CASE \E c \in Caches : Write(c) \/ Written(c) \/ StragglerWrites(c)
    BY <2>5 DEF Write, Written, StragglerWrites
  <2> QED BY <1>2, <2>1, <2>2, <2>3, <2>4, <2>5, <2>6 DEF Environment
<1>3. CASE UNCHANGED vars BY <1>3 DEF vars
<1> QED BY <1>1, <1>2, <1>3 DEF Next

\* Type correctness: in particular nothing is left to clear once the script or
\* the handler goes on.
THEOREM TypeCorrect == Spec => []TypeOK
<1>1. Init => TypeOK BY TypeInit
<1>2. TypeOK /\ [Next]_vars => TypeOK' BY TypeNext
<1> QED BY <1>1, <1>2, PTL DEF Spec

LEMMA InvInit == Init => Inv
BY TypeInit DEF Init, Inv, Alive, Covered, Clean, Handler

LEMMA AliveNext == Alive /\ [Next]_vars => Alive'
<1> SUFFICES ASSUME Alive, [Next]_vars PROVE Alive'
  OBVIOUS
<1>1. ASSUME Script PROVE Alive'
  <2>1. CASE \E c \in Caches : Clear(c) \/ ExitClear(c)
    BY <2>1 DEF Alive, Clear, ExitClear, Handler
  <2> QED
    BY <1>1, <2>1 DEF Alive, Script, Launch, CheckMarker, Cleared, Touch, Trap, StartVllm,
      AfterClearing, ExitCleared, RemoveMarker, Exit, Abandon, Handler
<1>2. ASSUME Environment PROVE Alive'
  BY <1>2 DEF Alive, Environment, ExitsWell, ExitsBadly, Terminate, Abandon, Kill, Replace,
    Write, Written, StragglerWrites, Handler
<1> QED BY <1>1, <1>2 DEF Next, vars, Alive

LEMMA CoveredNext ==
  TypeOK /\ Alive /\ Covered /\ Clean /\ [Next]_vars => Covered' /\ Clean'
<1> SUFFICES ASSUME TypeOK, Alive, Covered, Clean, [Next]_vars PROVE Covered' /\ Clean'
  OBVIOUS
<1> USE DEF Covered, Clean, Alive, Handler, history
<1>1. CASE Script
  <2>1. CASE Launch BY <2>1 DEF Launch
  <2>2. CASE CheckMarker BY <2>2 DEF CheckMarker, Cleanup, Marked, TypeOK
  <2>3. CASE \E c \in Caches : Clear(c)
    BY <2>3 DEF Clear, Removes, Misses
  <2>4. CASE Cleared \/ StartVllm BY <2>4 DEF Cleared, StartVllm
  <2>5. CASE Touch BY <2>5 DEF Touch
  <2>6. CASE Trap BY <2>6 DEF Trap
  <2>7. CASE \E c \in Caches : ExitClear(c)
    BY <2>7 DEF ExitClear, Removes, Misses
  <2>8. CASE AfterClearing \/ RemoveMarker \/ Exit
    BY <2>8 DEF AfterClearing, ExitCleared, RemoveMarker, Exit, Abandon
  <2> QED BY <1>1, <2>1, <2>2, <2>3, <2>4, <2>5, <2>6, <2>7, <2>8 DEF Script
<1>2. CASE Environment
  <2>1. CASE ExitsWell BY <2>1 DEF ExitsWell
  <2>2. CASE ExitsBadly BY <2>2 DEF ExitsBadly, Cleanup, Abandon, TypeOK
  <2>3. CASE Kill BY <2>3 DEF Kill, Abandon
  <2>4. CASE Replace BY <2>4 DEF Replace, TypeOK
  <2>5. CASE \E c \in Caches : Write(c) \/ Written(c) \/ StragglerWrites(c)
    BY <2>5 DEF Write, Written, StragglerWrites
  <2>6. CASE Terminate BY <2>6 DEF Terminate, Cleanup, TypeOK
  <2> QED BY <1>2, <2>1, <2>2, <2>3, <2>4, <2>5, <2>6 DEF Environment
<1>3. CASE UNCHANGED vars BY <1>3 DEF vars
<1> QED BY <1>1, <1>2, <1>3 DEF Next

LEMMA InvNext == Inv /\ [Next]_vars => Inv'
BY TypeNext, AliveNext, CoveredNext DEF Inv

\* vLLM never runs on an artifact that its own pod left half written, wherever
\* and however often the container is killed or told to end and whatever rm
\* does, but in the caches that rm missed with nobody looking, or that were
\* written to behind the handler.
THEOREM SoundCaches == Spec => []SoundButForExcused
<1>1. Init => Inv BY InvInit
<1>2. Inv /\ [Next]_vars => Inv' BY InvNext
<1>3. Inv => SoundButForExcused BY DEF Inv, Clean, SoundButForExcused
<1> QED BY <1>1, <1>2, <1>3, PTL DEF Spec

\* As long as rm removes what it is told to, no worker outlives vLLM and the
\* container dies without a handler or with vLLM, nothing is excused.
Orderly == setting \subseteq {"pod-local"}

NothingExcused == Orderly => excused = {} /\ (alive => pc = "Running")

LEMMA SettingIsFixed == [Next]_vars => setting' = setting
<1>1. ASSUME Script PROVE setting' = setting
  BY <1>1 DEF Script, Launch, CheckMarker, Clear, Cleared, Touch, Trap, StartVllm, ExitClear,
    AfterClearing, RemoveMarker, Exit
<1>2. ASSUME Environment PROVE setting' = setting
  BY <1>2 DEF Environment, ExitsWell, ExitsBadly, Terminate, Kill, Replace, Write, Written,
    StragglerWrites
<1> QED BY <1>1, <1>2 DEF Next, vars

LEMMA NothingExcusedNext == Alive /\ NothingExcused /\ [Next]_vars => NothingExcused'
<1> SUFFICES ASSUME Alive, NothingExcused, [Next]_vars, Orderly
             PROVE (excused = {} /\ (alive => pc = "Running"))'
  BY SettingIsFixed DEF NothingExcused, Orderly
<1>0. "rm-fails" \notin setting /\ "stragglers" \notin setting /\ "terminated" \notin setting
  BY DEF Orderly
<1> USE DEF NothingExcused, Alive, Handler, history
<1>1. ASSUME Script PROVE (excused = {} /\ (alive => pc = "Running"))'
  <2>1. CASE \E c \in Caches : Clear(c) \/ ExitClear(c)
    BY <1>0, <2>1 DEF Clear, ExitClear, Removes
  <2>2. CASE Launch \/ CheckMarker \/ Cleared \/ Touch \/ Trap \/ StartVllm
    BY <2>2 DEF Launch, CheckMarker, Cleared, Touch, Trap, StartVllm
  <2>3. CASE AfterClearing \/ RemoveMarker BY <2>3 DEF AfterClearing, ExitCleared, RemoveMarker
  <2>4. CASE Exit BY <2>4 DEF Exit, Abandon
  <2> QED BY <1>1, <2>1, <2>2, <2>3, <2>4 DEF Script
<1>2. ASSUME Environment PROVE (excused = {} /\ (alive => pc = "Running"))'
  BY <1>0, <1>2 DEF Environment, ExitsWell, ExitsBadly, Terminate, Kill, Replace, Abandon,
    Write, Written, StragglerWrites
<1> QED BY <1>1, <1>2 DEF Next, vars

\* README: what a failed process exit or a container that ended without its
\* handler leaves half written is never run on, if these are the only ways a
\* container ends and rm removes what it is told to.
THEOREM OrderlyRunsOnSoundCaches == Spec => [](Orderly => RunsOnSoundCaches)
<1>1. Init => Inv /\ NothingExcused BY InvInit DEF Init, NothingExcused
<1>2. Inv /\ NothingExcused /\ [Next]_vars => (Inv /\ NothingExcused)'
  BY InvNext, NothingExcusedNext DEF Inv
<1>3. Inv /\ NothingExcused => (Orderly => RunsOnSoundCaches)
  BY DEF Inv, Clean, NothingExcused, RunsOnSoundCaches
<1> QED BY <1>1, <1>2, <1>3, PTL DEF Spec

\* What a restart has cleared so far is clean, but for
\* the caches whose errors the script ignores.
Restarting ==
  /\ pc = "Clear" => uid \in marker /\ dirty \subseteq inherited \cup Hidden \cup todo
  /\ pc = "Touch" /\ uid \in marker => dirty \subseteq inherited \cup Hidden

LEMMA RestartingNext == TypeOK /\ Alive /\ Restarting /\ [Next]_vars => Restarting'
<1> SUFFICES ASSUME TypeOK, Alive, Restarting, [Next]_vars PROVE Restarting'
  OBVIOUS
<1> USE DEF Restarting, Alive, Handler, history
<1>1. CASE Script
  <2>1. CASE Launch BY <2>1 DEF Launch
  <2>2. CASE CheckMarker BY <2>2 DEF CheckMarker, Cleanup, Marked, TypeOK
  <2>3. CASE \E c \in Caches : Clear(c)
    BY <2>3 DEF Clear, Removes, Misses, ErrorsIgnored
  <2>4. CASE Cleared \/ StartVllm BY <2>4 DEF Cleared, StartVllm
  <2>5. CASE Touch BY <2>5 DEF Touch
  <2>6. CASE Trap BY <2>6 DEF Trap
  <2>7. CASE \E c \in Caches : ExitClear(c)
    BY <2>7 DEF ExitClear, Removes, Misses
  <2>8. CASE AfterClearing \/ RemoveMarker \/ Exit
    BY <2>8 DEF AfterClearing, ExitCleared, RemoveMarker, Exit, Abandon
  <2> QED BY <1>1, <2>1, <2>2, <2>3, <2>4, <2>5, <2>6, <2>7, <2>8 DEF Script
<1>2. CASE Environment
  <2>1. CASE ExitsWell BY <2>1 DEF ExitsWell
  <2>2. CASE ExitsBadly BY <2>2 DEF ExitsBadly, Cleanup, Abandon
  <2>6. CASE Terminate BY <2>6 DEF Terminate
  <2>3. CASE Kill BY <2>3 DEF Kill, Abandon
  <2>4. CASE Replace BY <2>4 DEF Replace
  <2>5. CASE \E c \in Caches : Write(c) \/ Written(c) \/ StragglerWrites(c)
    BY <2>5 DEF Write, Written, StragglerWrites, Handler
  <2> QED BY <1>2, <2>1, <2>2, <2>3, <2>4, <2>5, <2>6 DEF Environment
<1>3. CASE UNCHANGED vars BY <1>3 DEF vars
<1> QED BY <1>1, <1>2, <1>3 DEF Next

\* Whatever rm and stray workers do, a container that found the marker of its
\* pod goes on only with the caches cleared.
THEOREM RestartClears == Spec => []RestartsCleared
<1>1. Init => TypeOK /\ Alive /\ Restarting
  BY TypeInit DEF Init, Alive, Restarting
<1>2. TypeOK /\ Alive /\ Restarting /\ [Next]_vars => (TypeOK /\ Alive /\ Restarting)'
  BY TypeNext, AliveNext, RestartingNext
<1>3. Restarting => RestartsCleared BY DEF Restarting, RestartsCleared
<1> QED BY <1>1, <1>2, <1>3, PTL DEF Spec
=============================================================================
