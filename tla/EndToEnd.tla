------------------------------- MODULE EndToEnd -------------------------------
(***************************************************************************)
(* manifesto test e2e (manifesto/e2e.py) with manifesto ready inside it    *)
(* (workflow.py): create a namespace, deploy, wait for the pods and the    *)
(* frontend, ask a Job for a completion, delete the namespace.             *)
(*                                                                         *)
(* deploy is a black box here (Deploy models it); Kubernetes and another   *)
(* user of the same namespace name are environment.  Every request may     *)
(* fail with or without effect, at most MaxFaults times.                   *)
(***************************************************************************)
EXTENDS Integers

CONSTANTS Roles,      \* the roles of the spec
          Picker,     \* the deployment of the endpoint picker, not a role
          MaxFaults   \* bound on failed requests and interruptions

ASSUME PickerAssumption == Picker \notin Roles
ASSUME FaultsAssumption == MaxFaults \in Nat

VARIABLES
  keep, routed,   \* --keep-namespace; routing is enabled
  owner,          \* who created the namespace: "nobody", "other", "run"
  pods,           \* of each role (and the picker): "absent", "starting", "ready"
  answers,        \* the frontend and the model behind it answer
  job,            \* the probe: "none", "running", "refused", "succeeded", "failed"
  pc, result,     \* the command, and the exit status it is going to have
  waits,          \* each kubectl wait: "no", "started", "waiting", "ok", "failed", "killed"
  faults

cluster == <<owner, pods, answers, job>>
vars == <<keep, routed, owner, pods, answers, job, pc, result, waits, faults>>

Targets == Roles \cup {Picker}
Awaited == IF routed THEN Targets ELSE Roles

Init ==
  /\ keep \in BOOLEAN /\ routed \in BOOLEAN /\ owner \in {"nobody", "other"}
  /\ pods = [t \in Targets |-> "absent"] /\ answers = FALSE /\ job = "none"
  /\ pc = "lookup" /\ result = 0 /\ waits = [t \in Targets |-> "no"] /\ faults = MaxFaults

Fault == faults > 0 /\ faults' = faults - 1
Ends(code) == pc' = "done" /\ result' = code
Leaves(code) == pc' = "cleanup" /\ result' = code   \* return or raise inside the try

-----------------------------------------------------------------------------
(* The namespace.                                                          *)

\* A lookup that fails reads like an absent namespace.
Lookup ==
  /\ pc = "lookup"
  /\ \/ owner # "nobody" /\ Ends(2) /\ UNCHANGED faults
     \/ owner = "nobody" /\ pc' = "create" /\ UNCHANGED <<result, faults>>
     \/ Fault /\ pc' = "create" /\ UNCHANGED result
  /\ UNCHANGED <<keep, routed, cluster, waits>>

\* Mutant: a namespace that has appeared meanwhile is good enough.
Creates_OrFinds == pc' = "deploy" /\ owner' = "run"
Creates == owner = "nobody" /\ pc' = "deploy" /\ owner' = "run"
\* Refused for a namespace that exists; or failed, with or without effect.
Create ==
  /\ pc = "create"
  /\ \/ Creates /\ UNCHANGED <<result, faults>>
     \/ owner # "nobody" /\ Ends(1) /\ UNCHANGED <<owner, faults>>
     \/ Fault /\ Ends(1) /\ owner' \in {owner} \cup (IF owner = "nobody" THEN {"run"} ELSE {})
  /\ UNCHANGED <<keep, routed, pods, answers, job, waits>>

\* Mutant: the status of a failed cleanup is dropped.
WithCleanup_Dropped(rc) == result
WithCleanup(rc) == IF result = 0 THEN rc ELSE result
\* The finally block of e2e.  An interruption in it leaves the namespace.
Cleanup ==
  /\ pc = "cleanup"
  /\ \/ keep /\ Ends(result) /\ UNCHANGED <<owner, pods, answers, job, faults>>
     \/ /\ ~keep /\ Ends(WithCleanup(0)) /\ UNCHANGED faults
        /\ owner' = "nobody" /\ pods' = [t \in Targets |-> "absent"] /\ answers' = FALSE /\ job' = "none"
     \/ ~keep /\ Fault /\ Ends(WithCleanup(1)) /\ UNCHANGED cluster
  /\ UNCHANGED <<keep, routed, waits>>

-----------------------------------------------------------------------------
(* deploy and ready.                                                       *)

\* The objects exist once they are applied; what a role's workload makes of
\* them comes later.
Deploy ==
  /\ pc = "deploy"
  /\ \/ pc' = "wait" /\ UNCHANGED <<result, faults>>
     \/ Fault /\ Leaves(1)
  /\ pods' = [pods EXCEPT ![Picker] = IF routed THEN "starting" ELSE @]
  /\ UNCHANGED <<keep, routed, owner, answers, job, waits>>

StartWaits ==
  /\ pc = "wait" /\ pc' = "waiting"
  /\ waits' = [t \in Targets |-> IF t \in Awaited THEN "started" ELSE "no"]
  /\ UNCHANGED <<keep, routed, cluster, result, faults>>

\* kubectl wait fails at once when its selector matches nothing.
Select(t) ==
  /\ pc = "waiting" /\ waits[t] = "started"
  /\ waits' = [waits EXCEPT ![t] = IF pods[t] = "absent" THEN "failed" ELSE "waiting"]
  /\ UNCHANGED <<keep, routed, cluster, pc, result, faults>>
EndWait(t) ==
  /\ pc = "waiting"
  /\ \/ waits[t] = "waiting" /\ pods[t] = "ready" /\ waits' = [waits EXCEPT ![t] = "ok"] /\ UNCHANGED faults
     \/ waits[t] = "waiting" /\ pods[t] = "starting" /\ waits' = [waits EXCEPT ![t] = "failed"] /\ UNCHANGED faults
     \/ waits[t] \in {"started", "waiting"} /\ Fault /\ waits' = [waits EXCEPT ![t] = "killed"]
  /\ UNCHANGED <<keep, routed, cluster, pc, result>>

Ended == {"ok", "failed", "killed"}
Status == [s \in Ended |-> CASE s = "ok" -> 0 [] s = "failed" -> 1 [] s = "killed" -> -9]
\* max(proc.wait() ...): one of the statuses, and none is larger.
Largest(rc) ==
  /\ \E t \in Awaited : rc = Status[waits[t]]
  /\ \A t \in Awaited : Status[waits[t]] <= rc
EndWaits ==
  /\ pc = "waiting" /\ \A t \in Awaited : waits[t] \in Ended
  /\ \E rc \in {0, 1, -9} : Largest(rc) /\
       IF rc # 0 THEN Leaves(rc)
       ELSE pc' = (IF routed THEN "frontend" ELSE "probe") /\ UNCHANGED result
  /\ UNCHANGED <<keep, routed, cluster, waits, faults>>

\* A poll that fails, or reads nothing, changes nothing.
PollFrontend ==
  /\ pc = "frontend" /\ answers /\ pc' = "probe"
  /\ UNCHANGED <<keep, routed, cluster, result, waits, faults>>

\* Mutant: the frontend is polled without a deadline.
Deadlines_Job == {"poll"}
Deadlines == {"frontend", "poll"}
Deadline ==
  /\ pc \in Deadlines
  /\ IF pc = "poll" THEN pc' = "forget" /\ result' = 1 ELSE Leaves(1)
  /\ UNCHANGED <<keep, routed, cluster, waits, faults>>

-----------------------------------------------------------------------------
(* run_probe.                                                              *)

CreateJob ==
  /\ pc = "probe"
  /\ \/ pc' = "poll" /\ job' = "running" /\ UNCHANGED <<result, faults>>
     \/ Fault /\ Leaves(1) /\ job' \in {"none", "running"}
  /\ UNCHANGED <<keep, routed, owner, pods, answers, waits>>

\* Mutant: only a Job that reports failure fails the test.
Verdict_NotFailed(state) == IF state = "failed" THEN 1 ELSE 0
Verdict(state) == IF state = "succeeded" THEN 0 ELSE 1
\* A read that fails is "running", as is a Job without a verdict.
PollJob ==
  /\ pc = "poll" /\ job # "running"
  /\ pc' = "forget" /\ result' = Verdict(job)
  /\ UNCHANGED <<keep, routed, cluster, waits, faults>>

\* The finally block of run_probe; what it returns is ignored.
DeleteJob ==
  /\ pc = "forget" /\ pc' = "cleanup"
  /\ \/ keep /\ UNCHANGED <<job, faults>>
     \/ ~keep /\ job' = "none" /\ UNCHANGED faults
     \/ ~keep /\ Fault /\ UNCHANGED job
  /\ UNCHANGED <<keep, routed, owner, pods, answers, result, waits>>

\* Ctrl-C, or an error raised, anywhere inside the try.
Inside == {"deploy", "wait", "waiting", "frontend", "probe", "poll", "forget"}
Interrupt ==
  /\ pc \in Inside /\ Fault /\ Leaves(130)
  /\ UNCHANGED <<keep, routed, cluster, waits>>

-----------------------------------------------------------------------------
(* Kubernetes and the other user of the name.                              *)

Deployed == owner = "run" /\ pc \notin {"lookup", "create", "deploy"}
PodProgress(t) ==
  /\ Deployed /\ t \in Awaited
  /\ \/ t \in Roles /\ pods[t] = "absent" /\ pods' = [pods EXCEPT ![t] = "starting"]
     \/ pods[t] = "starting" /\ pods' = [pods EXCEPT ![t] = "ready"]
     \/ pods[t] = "ready" /\ pods' = [pods EXCEPT ![t] = "starting"]
  /\ UNCHANGED <<keep, routed, owner, answers, job, pc, result, waits, faults>>
Answer ==
  /\ Deployed /\ ~answers /\ \E r \in Roles : pods[r] = "ready"
  /\ answers' = TRUE
  /\ UNCHANGED <<keep, routed, owner, pods, job, pc, result, waits, faults>>
RunJob ==
  /\ job = "running"
  /\ job' \in {"failed", "refused"} \cup (IF answers THEN {"succeeded"} ELSE {})
  /\ UNCHANGED <<keep, routed, owner, pods, answers, pc, result, waits, faults>>
OtherCreates ==
  /\ owner = "nobody" /\ pc \in {"lookup", "create"} /\ owner' = "other"
  /\ UNCHANGED <<keep, routed, pods, answers, job, pc, result, waits, faults>>

Program ==
  \/ Lookup \/ Create \/ Cleanup \/ Deploy \/ StartWaits \/ EndWaits \/ PollFrontend
  \/ Deadline \/ CreateJob \/ PollJob \/ DeleteJob
  \/ \E t \in Targets : Select(t) \/ EndWait(t)
Environment ==
  \/ Interrupt \/ Answer \/ RunJob \/ OtherCreates
  \/ \E t \in Targets : PodProgress(t)
Next == Program \/ Environment

\* The command goes on, and its deadlines and those of kubectl pass.
Spec == Init /\ [][Next]_vars /\ WF_vars(Program)

-----------------------------------------------------------------------------
TypeOK ==
  /\ keep \in BOOLEAN /\ routed \in BOOLEAN /\ owner \in {"nobody", "other", "run"}
  /\ pods \in [Targets -> {"absent", "starting", "ready"}] /\ answers \in BOOLEAN
  /\ job \in {"none", "running", "refused", "succeeded", "failed"}
  /\ pc \in {"lookup", "create", "cleanup", "done"} \cup Inside
  /\ result \in {-9, 0, 1, 2, 130}
  /\ waits \in [Targets -> {"no", "started", "waiting"} \cup Ended]
  /\ faults \in 0 .. MaxFaults

\* "e2e requires a fresh namespace": whatever the lookup read, a namespace that
\* somebody else created is neither used nor deleted (e2e.py:369-399).
OthersAreSpared == [][owner = "other" => UNCHANGED <<owner, pods, job>>]_vars

\* A test passes only when a Job of this run read a completion, and only after
\* all it created is gone, unless it is kept (e2e.py:302-310, 401).
PassedMeansAnswered ==
  /\ pc \in {"forget", "cleanup"} /\ result = 0 => owner = "run" /\ answers
  /\ pc = "done" /\ result = 0 => IF keep THEN owner = "run" /\ answers ELSE owner = "nobody"

\* "The namespace is deleted at the end, including on failure" (README), and a
\* command that leaves it behind says so: only a request that failed leaves it.
LeftoversAreReported ==
  pc = "done" /\ owner = "run" /\ ~keep => result # 0 /\ faults < MaxFaults

\* Whatever fails, the command ends: both poll loops have deadlines.
AlwaysEnds == <>(pc = "done")

\* "wait for pods" (README): ready does not give up on pods that do not exist
\* yet when it looks (workflow.py:1478).
ReadyWaits ==
  [][\A t \in Targets : waits[t] # "failed" /\ waits'[t] = "failed" => pods[t] # "absent"]_vars
=============================================================================
