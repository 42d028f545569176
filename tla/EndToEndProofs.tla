---------------------------- MODULE EndToEndProofs ----------------------------
(***************************************************************************)
(* Theorems about the end-to-end test, for any roles and any number of     *)
(* failing requests.                                                       *)
(***************************************************************************)
EXTENDS EndToEnd, TLAPS

\* The run works inside the try only in a namespace it created, and a Job
\* exists only there; a Job succeeds only once the model answers.
Ownership ==
  /\ pc \in {"lookup", "create"} => owner # "run"
  /\ pc \in Inside \cup {"cleanup"} => owner = "run"
  /\ owner # "run" => job = "none"
Evidence == job = "succeeded" => answers

IInv == TypeOK /\ Ownership /\ Evidence /\ PassedMeansAnswered /\ LeftoversAreReported

USE FaultsAssumption, PickerAssumption DEF
  Inside, Ended, Targets, Awaited, Fault, Ends, Leaves, cluster

LEMMA InitHolds == Init => IInv
<1> SUFFICES ASSUME Init PROVE IInv
  OBVIOUS
<1>1. faults \in 0 .. MaxFaults /\ result = 0 /\ keep \in BOOLEAN /\ routed \in BOOLEAN
  BY DEF Init
<1>2. pods \in [Targets -> {"absent", "starting", "ready"}]
  BY DEF Init
<1>3. waits \in [Targets -> {"no", "started", "waiting"} \cup Ended]
  BY DEF Init
<1> QED
  BY <1>1, <1>2, <1>3 DEF Init, IInv, TypeOK, Ownership, Evidence, PassedMeansAnswered, LeftoversAreReported

LEMMA Inductive == IInv /\ [Next]_vars => IInv'
<1> SUFFICES ASSUME IInv, [Next]_vars PROVE IInv'
  OBVIOUS
<1> USE DEF IInv, TypeOK, Ownership, Evidence, PassedMeansAnswered, LeftoversAreReported
<1>1. CASE Lookup
  BY <1>1 DEF Lookup
<1>2. CASE Create
  BY <1>2 DEF Create, Creates
<1>3. CASE Cleanup
  <2> USE <1>3 DEF Cleanup, WithCleanup
  <2>1. TypeOK'
    <3>1. pods' \in [Targets -> {"absent", "starting", "ready"}]
      OBVIOUS
    <3>2. result' \in {-9, 0, 1, 2, 130} /\ faults' \in 0 .. MaxFaults
      OBVIOUS
    <3>3. answers' \in BOOLEAN /\ owner' \in {"nobody", "other", "run"}
      OBVIOUS
    <3> QED
      BY <3>1, <3>2, <3>3
  <2>2. Ownership' /\ Evidence'
    OBVIOUS
  <2>3. PassedMeansAnswered' /\ LeftoversAreReported'
    OBVIOUS
  <2> QED
    BY <2>1, <2>2, <2>3
<1>4. CASE Deploy
  BY <1>4 DEF Deploy
<1>5. CASE StartWaits
  BY <1>5 DEF StartWaits
<1>6. CASE EndWaits
  BY <1>6 DEF EndWaits
<1>7. CASE PollFrontend
  BY <1>7 DEF PollFrontend
<1>8. CASE Deadline
  BY <1>8 DEF Deadline, Deadlines
<1>9. CASE CreateJob
  BY <1>9 DEF CreateJob
<1>10. CASE PollJob
  BY <1>10 DEF PollJob, Verdict
<1>11. CASE DeleteJob
  BY <1>11 DEF DeleteJob
<1>12. CASE \E t \in Targets : Select(t)
  BY <1>12 DEF Select
<1>13. CASE \E t \in Targets : EndWait(t)
  BY <1>13 DEF EndWait
<1>14. CASE Interrupt
  BY <1>14 DEF Interrupt
<1>15. CASE Answer
  BY <1>15 DEF Answer, Deployed
<1>16. CASE RunJob
  BY <1>16 DEF RunJob
<1>17. CASE OtherCreates
  BY <1>17 DEF OtherCreates
<1>18. CASE \E t \in Targets : PodProgress(t)
  BY <1>18 DEF PodProgress, Deployed
<1>19. CASE UNCHANGED vars
  BY <1>19 DEF vars
<1> QED
  BY <1>1, <1>2, <1>3, <1>4, <1>5, <1>6, <1>7, <1>8, <1>9, <1>10, <1>11, <1>12, <1>13,
     <1>14, <1>15, <1>16, <1>17, <1>18, <1>19 DEF Next, Program, Environment

LEMMA Invariance == Spec => []IInv
  BY InitHolds, Inductive, PTL DEF Spec

\* Every variable keeps its type.
THEOREM TypeCorrect == Spec => []TypeOK
<1>1. IInv => TypeOK
  BY DEF IInv
<1> QED
  BY Invariance, <1>1, PTL

\* A test that passed was answered in a namespace of its own, and left nothing
\* behind that it was not told to keep.
THEOREM OnlyAnsweredTestsPass == Spec => []PassedMeansAnswered
<1>1. IInv => PassedMeansAnswered
  BY DEF IInv
<1> QED
  BY Invariance, <1>1, PTL

\* A namespace is left behind only after a request failed, and never silently.
THEOREM NoSilentLeftovers == Spec => []LeftoversAreReported
<1>1. IInv => LeftoversAreReported
  BY DEF IInv
<1> QED
  BY Invariance, <1>1, PTL

\* No step of a run changes a namespace that somebody else created.
THEOREM OthersUntouched == Spec => OthersAreSpared
<1>1. IInv /\ [Next]_vars => [owner = "other" => UNCHANGED <<owner, pods, job>>]_vars
  <2> SUFFICES ASSUME IInv, Next, owner = "other" PROVE UNCHANGED <<owner, pods, job>>
    OBVIOUS
  <2>1. pc \in {"lookup", "create", "done"} /\ job = "none"
    BY DEF IInv, TypeOK, Ownership
  <2> QED
    BY <2>1 DEF Next, Program, Environment, Lookup, Create, Creates, Cleanup, Deploy, StartWaits,
      EndWaits, PollFrontend, Deadline, Deadlines, CreateJob, PollJob, DeleteJob, Select, EndWait,
      Interrupt, Answer, RunJob, OtherCreates, PodProgress, Deployed
<1> QED
  BY Invariance, <1>1, PTL DEF Spec, OthersAreSpared
=============================================================================
