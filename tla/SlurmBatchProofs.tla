--------------------------- MODULE SlurmBatchProofs ---------------------------
(***************************************************************************)
(* Theorems about the batch script, for any number of roles, proxies,      *)
(* grace rounds and signals.                                               *)
(***************************************************************************)
EXTENDS SlurmBatch, FiniteSetTheorems, TLAPS

LEMMA ServiceCountType == ServiceCount \in Nat /\ ServiceCount > 1
<1>1. IsFiniteSet(1 .. RoleCount)
  BY FS_Interval, RolesAssumption
<1>2. IsFiniteSet(Proxied)
  BY <1>1, FS_Subset, RolesAssumption
<1>3. Cardinality(Proxied) \in Nat
  BY <1>2, FS_CardinalityType
<1> QED
  BY <1>3, RolesAssumption DEF ServiceCount

-----------------------------------------------------------------------------
(* The inductive invariant.                                                *)

\* Where the script is fixes which services have been started and recorded.
Progress ==
  /\ pc # "ended" => cut = "no"
  /\ pc \in Unarmed \cup {"prepare"} => next = 1
  /\ pids = 1 .. (next - 1)
  /\ \A s \in Services : s < next \/ (s = next /\ pc = "record") => step[s] # "none"
  /\ \A s \in Services : s > next => step[s] = "none"
  /\ pc \in Unarmed \cup {"prepare", "fork"} => \A s \in Services : s >= next => step[s] = "none"

\* Up to the handler, a service that no longer runs ended of its own accord,
\* unless the signal of a cancellation is pending.
Accord ==
  /\ \A s \in Services : step[s] \in {"none", "running"} => own[s] = -1
  /\ pc \in Armed /\ pending = 0 =>
       \A s \in Services : own[s] = -1 => step[s] \in {"none", "running"}

DirectoryKept ==
  /\ pc \in {"setup", "mktemp"} => dir = "none"
  /\ pc = "exit" => dir = "removed"
  /\ dir = "removed" => pc \in {"exit", "ended"}
  /\ LeaksAreExplained

\* From the removal on nothing recorded is alive.
Stopped ==
  pc \in {"remove", "exit"} \/ dir = "removed" \/ (pc = "ended" /\ cut = "no") => AllStopped
CutShort ==
  /\ cut = "early" => \A s \in Services : step[s] = "none"
  /\ cut = "killed" => \A s \in Services : ~Live(s)

Cause ==
  \/ status \in Signals
  \/ status # 0 /\ \E s \in pids : own[s] # -1 /\ status = ExitStatus(s)
  \/ /\ status = 1 /\ next \in {1} \cup Proxies
     /\ \A s \in Services : s >= next => step[s] = "none"
Caused == pc \in Handler \/ (pc = "ended" /\ cut = "no") => Cause

IInv == TypeOK /\ Progress /\ Accord /\ DirectoryKept /\ Stopped /\ CutShort /\ Caused

USE ServiceCountType
  DEF Services, Alive, Unarmed, Starting, Handler, Armed, Signals, States, Live, AllStopped, OnNode

LEMMA InitHolds == Init => IInv
<1> SUFFICES ASSUME Init PROVE IInv
  OBVIOUS
<1> USE AttemptsAssumption DEF Init
<1>1. TypeOK
  BY DEF TypeOK
<1>2. Progress /\ Accord /\ DirectoryKept /\ Stopped /\ CutShort /\ Caused
  BY DEF Progress, Accord, DirectoryKept, LeaksAreExplained, Stopped, CutShort, Caused
<1> QED
  BY <1>1, <1>2 DEF IInv

LEMMA ExitStatusType ==
  ASSUME IInv, NEW s \in Services, own[s] # -1
  PROVE ExitStatus(s) \in 1 .. 255
<1>1. own[s] \in Codes \cup {-1}
  BY DEF IInv, TypeOK
<1>2. own[s] \in Codes
  BY ONLY <1>1, own[s] # -1
<1>3. own[s] \in 0 .. 255
  BY ONLY <1>2, CodesAssumption
<1> QED
  BY ONLY <1>3 DEF ExitStatus

\* A cause stays one while nothing is started and no service that ended before
\* ends again.
LEMMA CauseStays ==
  ASSUME IInv, Cause, status' = status, pids' = pids, next' = next,
         \A s \in Services : own[s] # -1 => own'[s] = own[s],
         \A s \in Services : step[s] = "none" => step'[s] = "none"
  PROVE Cause'
  BY DEF IInv, TypeOK, Cause, ExitStatus

LEMMA TypeInductive ==
  ASSUME IInv, [Next]_vars
  PROVE TypeOK'
<1> USE DEF TypeOK
<1>0. TypeOK
  BY DEF IInv
<1>02. pc \in Unarmed \cup {"prepare"} => next = 1
  BY DEF IInv, Progress
<1>03. pc = "watch" /\ pending = 0 =>
       \A s \in Services : own[s] = -1 => step[s] \in {"none", "running"}
  BY DEF IInv, Accord
<1>04. \A s \in pids : step[s] # "none"
  BY <1>0 DEF IInv, Progress
<1>01. status \in 0 .. 255
  BY <1>0
<1>1. CASE Setup
  <2>1. status' = status \/ status' = 1
    BY <1>1 DEF Setup, Runs, Fails
  <2>2. status' \in 0 .. 255
    BY ONLY <1>01, <2>1
  <2> QED
    BY <1>0, <1>1, <2>2 DEF Setup, Runs, Fails
<1>2. CASE MakeDirectory
  <2>1. status' = status \/ status' = 1
    BY <1>2 DEF MakeDirectory, Runs, Fails
  <2>2. status' \in 0 .. 255
    BY ONLY <1>01, <2>1
  <2> QED
    BY <1>0, <1>2, <2>2 DEF MakeDirectory, Runs, Fails
<1>3. CASE SetTraps
  BY <1>0, <1>3 DEF SetTraps, Runs
<1>4. CASE Prepare
  <2>1. status' = status \/ status' = 1
    BY <1>4 DEF Prepare, Runs, Fails
  <2>2. status' \in 0 .. 255
    BY ONLY <1>01, <2>1
  <2> QED
    BY <1>0, <1>02, <1>4, <2>2 DEF Prepare, Runs, Fails
<1>23. CASE HostsUnread
  <2>1. status' = 1 /\ status' \in 0 .. 255
    BY <1>23 DEF HostsUnread, Runs, Fails
  <2> QED
    BY <1>0, <1>23, <2>1 DEF HostsUnread, Runs, Fails
<1>5. CASE Fork
  BY <1>0, <1>5 DEF Fork, Runs
<1>6. CASE Record
  BY <1>0, <1>6 DEF Record, Recorded, Runs
<1>7. CASE \E s \in Services : Notice(s)
  <2>1. PICK s \in Services : Notice(s)
    BY <1>7
  <2>2. own[s] # -1
    BY <1>0, <1>03, <1>04, <2>1 DEF Notice, Runs
  <2>3. status' \in 0 .. 255
    <3>1. ExitStatus(s) \in 1 .. 255
      BY <2>2, ExitStatusType
    <3>2. status' = ExitStatus(s)
      BY <2>1 DEF Notice
    <3> QED
      BY ONLY <3>1, <3>2
  <2> QED
    BY <1>0, <2>1, <2>3 DEF Notice, Runs
<1>8. CASE Terminate
  BY <1>0, <1>8 DEF Terminate, Become, Runs
<1>9. CASE Grace
  <2>1. attempts' \in 0 .. Attempts
    <3>1. attempts \in 0 .. Attempts
      BY <1>0
    <3>2. attempts' = attempts \/ (attempts # 0 /\ attempts' = attempts - 1)
      BY <1>9 DEF Grace, Patience
    <3> QED
      BY ONLY <3>1, <3>2, AttemptsAssumption
  <2> QED
    BY <1>0, <1>9, <2>1 DEF Grace, Runs
<1>10. CASE KillRest
  BY <1>0, <1>10 DEF KillRest, Killed, Become, Runs
<1>11. CASE Wait
  BY <1>0, <1>11 DEF Wait, Runs
<1>12. CASE RemoveDirectory
  BY <1>0, <1>12 DEF RemoveDirectory, Runs
<1>13. CASE Exit
  BY <1>0, <1>13 DEF Exit, Runs
<1>14. CASE Handle
  BY <1>0, <1>14 DEF Handle
<1>15. CASE StartJob
  <2>1. UNCHANGED <<script, step, own, pending, signals>>
    BY <1>15 DEF StartJob, script
  <2>2. job' = "running"
    BY <1>15 DEF StartJob
  <2> QED
    BY <1>0, <2>1, <2>2 DEF script
<1>16. CASE \E code \in Signals : Signal(code)
  <2>1. signals' \in 0 .. MaxSignals
    <3>1. signals \in 0 .. MaxSignals /\ signals > 0 /\ signals' = signals - 1
      BY <1>0, <1>16 DEF Signal
    <3> QED
      BY ONLY <3>1, AttemptsAssumption
  <2> QED
    BY <1>0, <1>16, <2>1 DEF Signal, script
<1>17. CASE Stop
  BY <1>0, <1>17 DEF Stop, Become, script
<1>18. CASE EndJob
  BY <1>0, <1>18 DEF EndJob, Become, script
<1>19. CASE KillJob
  BY <1>0, <1>19 DEF KillJob, Become
<1>20. CASE \E s \in Services : EndStep(s) \/ Die(s) \/ Obey(s)
  <2>1. PICK s \in Services : EndStep(s) \/ Die(s) \/ Obey(s)
    BY <1>20
  <2>2. /\ \E state \in {"exited", "lost"} : step' = [step EXCEPT ![s] = state]
        /\ UNCHANGED <<job, script, own, pending, signals>>
    BY <2>1 DEF EndStep, StepEnds, Die, Obey
  <2> QED
    BY <1>0, <2>2 DEF script
<1>21. CASE \E s \in Services, code \in Codes : TaskExits(s, code)
  BY <1>0, <1>21 DEF TaskExits, script
<1>22. CASE UNCHANGED vars
  BY <1>0, <1>22 DEF vars
<1> QED
  BY <1>1, <1>2, <1>3, <1>4, <1>5, <1>6, <1>7, <1>8, <1>9, <1>10, <1>11, <1>12, <1>13, <1>14, <1>15, <1>16, <1>17, <1>18, <1>19, <1>20, <1>21, <1>22, <1>23 DEF Next, Script, Environment

LEMMA ProgressInductive ==
  ASSUME IInv, [Next]_vars
  PROVE Progress'
<1> USE DEF IInv, TypeOK, Progress, Runs, Fails
<1>1. CASE Setup
  BY <1>1 DEF Setup
<1>2. CASE MakeDirectory
  BY <1>2 DEF MakeDirectory
<1>3. CASE SetTraps
  BY <1>3 DEF SetTraps
<1>4. CASE Prepare
  BY <1>4 DEF Prepare
<1>23. CASE HostsUnread
  BY <1>23 DEF HostsUnread
<1>5. CASE Fork
  BY <1>5 DEF Fork
<1>6. CASE Record
  BY <1>6 DEF Record, Recorded
<1>7. CASE \E s \in Services : Notice(s)
  BY <1>7 DEF Notice
<1>8. CASE Terminate
  BY <1>8 DEF Terminate, Become
<1>9. CASE Grace
  BY <1>9 DEF Grace, Patience
<1>10. CASE KillRest
  BY <1>10 DEF KillRest, Killed, Become
<1>11. CASE Wait
  BY <1>11 DEF Wait, Reaped
<1>12. CASE RemoveDirectory
  BY <1>12 DEF RemoveDirectory
<1>13. CASE Exit
  BY <1>13 DEF Exit
<1>14. CASE Handle
  BY <1>14 DEF Handle
<1>15. CASE StartJob
  BY <1>15 DEF StartJob, script
<1>16. CASE \E code \in Signals : Signal(code)
  BY <1>16 DEF Signal, script
<1>17. CASE Stop
  BY <1>17 DEF Stop, Become, script
<1>18. CASE EndJob
  BY <1>18 DEF EndJob, Become, script
<1>19. CASE KillJob
  BY <1>19 DEF KillJob, Become
<1>20. CASE \E s \in Services : EndStep(s) \/ Die(s) \/ Obey(s)
  BY <1>20 DEF EndStep, StepEnds, Die, Obey, script
<1>21. CASE \E s \in Services, code \in Codes : TaskExits(s, code)
  BY <1>21 DEF TaskExits, script
<1>22. CASE UNCHANGED vars
  BY <1>22 DEF vars
<1> QED
  BY <1>1, <1>2, <1>3, <1>4, <1>5, <1>6, <1>7, <1>8, <1>9, <1>10, <1>11, <1>12, <1>13, <1>14, <1>15, <1>16, <1>17, <1>18, <1>19, <1>20, <1>21, <1>22, <1>23 DEF Next, Script, Environment

LEMMA AccordInductive ==
  ASSUME IInv, [Next]_vars
  PROVE Accord'
<1> USE DEF IInv, TypeOK, Accord, Runs, Fails
<1>1. CASE Setup
  BY <1>1 DEF Setup
<1>2. CASE MakeDirectory
  BY <1>2 DEF MakeDirectory
<1>3. CASE SetTraps
  <2>1. \A s \in Services : step[s] = "none"
    BY <1>3 DEF SetTraps, Progress
  <2> QED
    BY <1>3, <2>1 DEF SetTraps
<1>4. CASE Prepare
  BY <1>4 DEF Prepare
<1>23. CASE HostsUnread
  BY <1>23 DEF HostsUnread
<1>5. CASE Fork
  <2>1. next \in Services /\ own[next] = -1
    BY <1>5 DEF Fork, Progress
  <2> QED
    BY <1>5, <2>1 DEF Fork
<1>6. CASE Record
  BY <1>6 DEF Record, Recorded
<1>7. CASE \E s \in Services : Notice(s)
  BY <1>7 DEF Notice
<1>8. CASE Terminate
  BY <1>8 DEF Terminate, Become
<1>9. CASE Grace
  BY <1>9 DEF Grace, Patience
<1>10. CASE KillRest
  BY <1>10 DEF KillRest, Killed, Become
<1>11. CASE Wait
  BY <1>11 DEF Wait, Reaped
<1>12. CASE RemoveDirectory
  BY <1>12 DEF RemoveDirectory
<1>13. CASE Exit
  BY <1>13 DEF Exit
<1>14. CASE Handle
  BY <1>14 DEF Handle
<1>15. CASE StartJob
  BY <1>15 DEF StartJob, script
<1>16. CASE \E code \in Signals : Signal(code)
  BY <1>16 DEF Signal, script
<1>17. CASE Stop
  BY <1>17 DEF Stop, Become, script
<1>18. CASE EndJob
  BY <1>18 DEF EndJob, Become, script
<1>19. CASE KillJob
  BY <1>19 DEF KillJob, Become
<1>20. CASE \E s \in Services : EndStep(s) \/ Die(s) \/ Obey(s)
  BY <1>20 DEF EndStep, StepEnds, Die, Obey, script
<1>21. CASE \E s \in Services, code \in Codes : TaskExits(s, code)
  <2>1. -1 \notin Codes
    BY CodesAssumption
  <2> QED
    BY <1>21, <2>1 DEF TaskExits, script
<1>22. CASE UNCHANGED vars
  BY <1>22 DEF vars
<1> QED
  BY <1>1, <1>2, <1>3, <1>4, <1>5, <1>6, <1>7, <1>8, <1>9, <1>10, <1>11, <1>12, <1>13, <1>14, <1>15, <1>16, <1>17, <1>18, <1>19, <1>20, <1>21, <1>22, <1>23 DEF Next, Script, Environment

LEMMA DirectoryInductive ==
  ASSUME IInv, [Next]_vars
  PROVE DirectoryKept' /\ Stopped' /\ CutShort'
<1> USE DEF IInv, TypeOK, Progress, DirectoryKept, LeaksAreExplained, Stopped, CutShort, Runs, Fails
<1>1. CASE Setup
  BY <1>1 DEF Setup
<1>2. CASE MakeDirectory
  BY <1>2 DEF MakeDirectory
<1>3. CASE SetTraps
  BY <1>3 DEF SetTraps
<1>4. CASE Prepare
  BY <1>4 DEF Prepare
<1>23. CASE HostsUnread
  BY <1>23 DEF HostsUnread
<1>5. CASE Fork
  BY <1>5 DEF Fork
<1>6. CASE Record
  BY <1>6 DEF Record, Recorded
<1>7. CASE \E s \in Services : Notice(s)
  BY <1>7 DEF Notice
<1>8. CASE Terminate
  BY <1>8 DEF Terminate, Become
<1>9. CASE Grace
  BY <1>9 DEF Grace, Patience
<1>10. CASE KillRest
  BY <1>10 DEF KillRest, Killed, Become
<1>11. CASE Wait
  BY <1>11 DEF Wait, Reaped
<1>12. CASE RemoveDirectory
  BY <1>12 DEF RemoveDirectory
<1>13. CASE Exit
  BY <1>13 DEF Exit
<1>14. CASE Handle
  BY <1>14 DEF Handle
<1>15. CASE StartJob
  BY <1>15 DEF StartJob, script
<1>16. CASE \E code \in Signals : Signal(code)
  BY <1>16 DEF Signal, script
<1>17. CASE Stop
  BY <1>17 DEF Stop, Become, script
<1>18. CASE EndJob
  BY <1>18 DEF EndJob, Become, script
<1>19. CASE KillJob
  BY <1>19 DEF KillJob, Become
<1>20. CASE \E s \in Services : EndStep(s) \/ Die(s) \/ Obey(s)
  BY <1>20 DEF EndStep, StepEnds, Die, Obey, script
<1>21. CASE \E s \in Services, code \in Codes : TaskExits(s, code)
  BY <1>21 DEF TaskExits, script
<1>22. CASE UNCHANGED vars
  BY <1>22 DEF vars
<1> QED
  BY <1>1, <1>2, <1>3, <1>4, <1>5, <1>6, <1>7, <1>8, <1>9, <1>10, <1>11, <1>12, <1>13, <1>14, <1>15, <1>16, <1>17, <1>18, <1>19, <1>20, <1>21, <1>22, <1>23 DEF Next, Script, Environment

LEMMA CauseInductive ==
  ASSUME IInv, [Next]_vars
  PROVE Caused'
<1> USE DEF Runs, Fails
<1>1. Caused /\ (pc # "ended" => cut = "no")
  BY DEF IInv, Progress
\* A command that fails before the first service, or before a proxy, is started.
<1>2. CASE Setup \/ MakeDirectory \/ Prepare \/ HostsUnread
  <2>1. \/ pc' \notin Handler \cup {"ended"}
        \/ status' = 1 /\ step' = step /\ next' = next /\ next \in {1} \cup Proxies
    BY <1>2 DEF Setup, MakeDirectory, Prepare, HostsUnread, IInv, Progress
  <2>2. \A s \in Services : s >= next => step[s] = "none"
    BY <1>2 DEF Setup, MakeDirectory, Prepare, HostsUnread, IInv, Progress
  <2> QED
    BY <2>1, <2>2 DEF Caused, Cause
<1>3. CASE SetTraps \/ Fork \/ Record
  BY <1>3 DEF SetTraps, Fork, Record, Caused
<1>4. CASE \E s \in Services : Notice(s)
  <2>1. PICK s \in Services : Notice(s)
    BY <1>4
  <2>2. own[s] # -1 /\ s \in pids
    BY <2>1 DEF Notice, IInv, Accord, Progress, TypeOK
  <2>3. ExitStatus(s) \in 1 .. 255
    BY <2>2, ExitStatusType
  <2>4. status' = ExitStatus(s) /\ pids' = pids /\ own' = own
    BY <2>1 DEF Notice
  <2>5. ExitStatus(s)' = ExitStatus(s)
    BY <2>4 DEF ExitStatus
  <2> QED
    BY <2>2, <2>3, <2>4, <2>5 DEF Caused, Cause
<1>5. CASE Handle
  <2>1. status' \in Signals
    BY <1>5 DEF Handle, IInv, TypeOK
  <2> QED
    BY <2>1 DEF Caused, Cause
<1>6. CASE KillJob
  BY <1>6 DEF KillJob, Caused
\* Every other step leaves the cause alone.
<1>7. ASSUME /\ status' = status /\ pids' = pids /\ next' = next
             /\ \A s \in Services : own[s] # -1 => own'[s] = own[s]
             /\ \A s \in Services : step[s] = "none" => step'[s] = "none"
             /\ pc \in Handler \/ (pc' = pc /\ cut' = cut)
      PROVE Caused'
  <2>1. Cause => Cause'
    BY <1>7, CauseStays
  <2> QED
    BY <1>1, <1>7, <2>1 DEF Caused
<1>8. CASE Terminate \/ Grace \/ KillRest \/ Wait \/ RemoveDirectory \/ Exit
  <2>1. pc \in Handler /\ UNCHANGED <<status, pids, next, own>>
    BY <1>8 DEF Terminate, Grace, KillRest, Wait, RemoveDirectory, Exit
  <2>2. \A s \in Services : step[s] = "none" => step'[s] = "none"
    BY <1>8 DEF Terminate, Grace, KillRest, Wait, RemoveDirectory, Exit, Killed, Become
  <2> QED
    BY <1>7, <2>1, <2>2
<1>9. CASE StartJob \/ Stop \/ EndJob \/ \E code \in Signals : Signal(code)
  <2>1. UNCHANGED <<status, pids, next, own, pc, cut>>
    BY <1>9 DEF StartJob, Stop, EndJob, Signal, script
  <2>2. \A s \in Services : step[s] = "none" => step'[s] = "none"
    BY <1>9 DEF StartJob, Stop, EndJob, Signal, Become
  <2> QED
    BY <1>7, <2>1, <2>2
<1>10. CASE \E s \in Services : EndStep(s) \/ Die(s) \/ Obey(s)
  <2>1. UNCHANGED <<status, pids, next, own, pc, cut>>
    BY <1>10 DEF EndStep, StepEnds, Die, Obey, script
  <2>2. \A s \in Services : step[s] = "none" => step'[s] = "none"
    BY <1>10 DEF IInv, TypeOK, EndStep, StepEnds, Die, Obey
  <2> QED
    BY <1>7, <2>1, <2>2
<1>11. CASE \E s \in Services, code \in Codes : TaskExits(s, code)
  <2>1. PICK s \in Services, code \in Codes : TaskExits(s, code)
    BY <1>11
  <2>2. own[s] = -1
    BY <2>1 DEF TaskExits, IInv, Accord
  <2>3. UNCHANGED <<status, pids, next, pc, cut>>
    BY <2>1 DEF TaskExits, script
  <2>4. \A q \in Services : own[q] # -1 => own'[q] = own[q]
    BY <2>1, <2>2 DEF TaskExits, IInv, TypeOK
  <2>5. \A q \in Services : step[q] = "none" => step'[q] = "none"
    BY <2>1 DEF TaskExits, IInv, TypeOK
  <2> QED
    BY <1>7, <2>3, <2>4, <2>5
<1>12. CASE UNCHANGED vars
  BY <1>7, <1>12 DEF vars
<1> QED
  BY <1>2, <1>3, <1>4, <1>5, <1>6, <1>8, <1>9, <1>10, <1>11, <1>12 DEF Next, Script, Environment

LEMMA Invariance == Spec => []IInv
<1>1. IInv /\ [Next]_vars => IInv'
  BY TypeInductive, ProgressInductive, AccordInductive, DirectoryInductive, CauseInductive DEF IInv
<1> QED
  BY InitHolds, <1>1, PTL DEF Spec

-----------------------------------------------------------------------------

\* Every variable keeps its type.
THEOREM TypeCorrect == Spec => []TypeOK
<1>1. IInv => TypeOK
  BY DEF IInv
<1> QED
  BY Invariance, <1>1, PTL

\* The router's directory goes only after every recorded service.
THEOREM DirectoryOutlives == Spec => []DirectoryOutlivesServices
<1>1. IInv => DirectoryOutlivesServices
  BY DEF IInv, Stopped, DirectoryOutlivesServices
<1> QED
  BY Invariance, <1>1, PTL

\* A handler that was not interrupted leaves at most the service whose start
\* was: one that was started and not recorded.
THEOREM AtMostOneSurvives == Spec => []OnlyUnrecordedSurvives
<1>1. IInv => OnlyUnrecordedSurvives
  BY DEF IInv, TypeOK, Progress, Stopped, CutShort, OnlyUnrecordedSurvives
<1> QED
  BY Invariance, <1>1, PTL

\* A directory that stays behind has a cause outside the script.
THEOREM NoLeakOfItsOwn == Spec => []LeaksAreExplained
<1>1. IInv => LeaksAreExplained
  BY DEF IInv, DirectoryKept
<1> QED
  BY Invariance, <1>1, PTL

\* The status of the job names what ended it, and is never that of a success.
THEOREM StatusIsTrue == Spec => []StatusTellsTheCause
<1>1. IInv => StatusTellsTheCause
  BY DEF IInv, Caused, Cause, StatusTellsTheCause
<1> QED
  BY Invariance, <1>1, PTL
=============================================================================
