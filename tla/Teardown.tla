------------------------------- MODULE Teardown -------------------------------
(***************************************************************************)
(* `manifesto stop` in manifesto/workflow.py: find the objects of an       *)
(* instance, delete them, delete the pods that are left, look again.       *)
(*                                                                         *)
(* A discovery runs one kubectl list per resource type, all at the same    *)
(* time; each answers at its own moment, times out and is tried again, or  *)
(* fails.  Meanwhile the namespace moves: a workload's ReplicaSet outlives *)
(* it for a while and goes on replacing pods, and somebody else may apply  *)
(* the instance again.                                                     *)
(***************************************************************************)
EXTENDS Integers, FiniteSets

CONSTANTS
  Objects,       \* everything Manifesto's labels can be on in one instance
  TypeOf,        \* the resource type of each
  Workload,      \* the Deployment that has the pods
  Replicas,      \* how many pods it keeps
  Retries,       \* MANIFESTO_KUBECTL_RETRIES
  UserPrefix,    \* naming.user_prefix of the cluster profile
  Sources,       \* how the target and its profile may be given
  MaxStops, MaxFaults, MaxCreations   \* bounds over the whole run

PodType == "pods"
Pods == {o \in Objects : TypeOf[o] = PodType}
TopLevel == Objects \ Pods
Types == {TypeOf[o] : o \in Objects}

ASSUME ObjectsAssumption == IsFiniteSet(Objects) /\ Workload \in TopLevel /\ Pods # {}
ASSUME RetriesAssumption == Retries \in Nat /\ Replicas \in Nat
ASSUME BoundsAssumption == MaxStops \in Nat /\ MaxFaults \in Nat /\ MaxCreations \in Nat

VARIABLES
  live,       \* objects of the instance in the namespace
  keeper,     \* the ReplicaSet of the workload exists; it has no managed type
  pc,
  target,     \* the instance id stop looks for
  waiting,    \* types whose list has not answered yet
  attempt,    \* attempts used up by capture, per type
  broken,     \* some list raised
  found,      \* what the lists returned
  todo,       \* what kubectl delete has not handled yet
  rc,
  stops, faults, creations,
  \* history
  recent      \* objects created since the last discovery of all types began

namespace == <<live, keeper, creations>>
discovery == <<waiting, attempt, broken, found>>
vars == <<namespace, pc, target, discovery, todo, rc, stops, faults, recent>>

Discoveries == {"Discover", "ListPods", "Verify", "Report"}
Deletions == {"DeleteTop", "DeletePods"}
Verdicts == {"Absent", "Stopped", "Failed"}

TypeOK ==
  /\ live \subseteq Objects /\ recent \subseteq Objects /\ keeper \in BOOLEAN
  /\ pc \in {"Idle"} \cup Discoveries \cup Deletions \cup Verdicts
  /\ target \in BOOLEAN
  /\ waiting \subseteq Types /\ attempt \in [Types -> 0 .. Retries] /\ broken \in BOOLEAN
  /\ found \subseteq Objects /\ todo \subseteq Objects
  /\ rc \in {-9, 0, 1}
  /\ stops \in 0 .. MaxStops /\ faults \in 0 .. MaxFaults /\ creations \in 0 .. MaxCreations

Init ==
  /\ live = TopLevel /\ keeper = TRUE
  /\ pc = "Idle" /\ target = TRUE
  /\ waiting = {} /\ attempt = [t \in Types |-> 0] /\ broken = FALSE
  /\ found = {} /\ todo = {} /\ rc = 0
  /\ stops = MaxStops /\ faults = MaxFaults /\ creations = MaxCreations
  /\ recent = {}

Fault == faults > 0 /\ faults' = faults - 1
NoFault == UNCHANGED faults

-----------------------------------------------------------------------------
(* Kubernetes, and whoever applies the manifest again.                     *)

CreatePod(p) ==
  /\ keeper
  /\ p \notin live /\ Cardinality(Pods \cap live) < Replicas
  /\ live' = live \cup {p} /\ recent' = recent \cup {p}
  /\ UNCHANGED <<keeper, creations, pc, target, discovery, todo, rc, stops, faults>>

\* Deletion is propagated in the background: the ReplicaSet goes some time
\* after the workload, its pods some time after it.
CollectKeeper ==
  /\ keeper /\ Workload \notin live
  /\ keeper' = FALSE
  /\ UNCHANGED <<live, creations, pc, target, discovery, todo, rc, stops, faults, recent>>

CollectPod(p) ==
  /\ ~keeper /\ p \in live
  /\ live' = live \ {p}
  /\ UNCHANGED <<keeper, creations, pc, target, discovery, todo, rc, stops, faults, recent>>

Reapply(o) ==
  /\ o \notin live /\ creations > 0
  /\ creations' = creations - 1
  /\ live' = live \cup {o} /\ recent' = recent \cup {o}
  /\ keeper' = (keeper \/ o = Workload)
  /\ UNCHANGED <<pc, target, discovery, todo, rc, stops, faults>>

-----------------------------------------------------------------------------
(* Discovery: list_objects and capture.                                    *)

Scope(phase) == IF phase = "ListPods" THEN {PodType} ELSE Types

Discovers(phase) ==
  /\ pc' = phase
  /\ waiting' = Scope(phase)
  /\ attempt' = [t \in Types |-> 0]
  /\ broken' = FALSE /\ found' = {}
  /\ recent' = IF phase = "ListPods" THEN recent ELSE {}

\* A type that is not served lists as no objects, and has none.
Answered(t) ==
  /\ waiting' = waiting \ {t}
  /\ found' = found \cup (IF target THEN {o \in live : TypeOf[o] = t} ELSE {})
  /\ NoFault
  /\ UNCHANGED <<attempt, broken>>

AttemptsLeft(t) == attempt[t] < Retries

\* A timeout or a transient error, with attempts left.
Retried(t) ==
  /\ Fault /\ AttemptsLeft(t)
  /\ attempt' = [attempt EXCEPT ![t] = @ + 1]
  /\ UNCHANGED <<waiting, broken, found>>

\* Mutant: a list that failed looks like an empty one.
Breaks_Silently == UNCHANGED broken
Breaks == broken' = TRUE

\* Any other error, an answer that is no list, or no attempt left.
Raised(t) ==
  /\ Fault /\ Breaks
  /\ waiting' = waiting \ {t}
  /\ UNCHANGED <<attempt, found>>

Fetch(t) ==
  /\ pc \in Discoveries /\ t \in waiting
  /\ Answered(t) \/ Retried(t) \/ Raised(t)
  /\ UNCHANGED <<namespace, pc, target, todo, rc, stops, recent>>

AllIn(phase) == pc = phase /\ waiting = {}

-----------------------------------------------------------------------------
(* stop and delete_instance.                                               *)

\* stop takes naming.user_prefix from --cluster and MANIFESTO_CLUSTER only, the
\* profile a deployment is rendered from may come from the kube context as well.
\* With --instance or the picker the identity is the live one.
Identified(source) == source \in {"instance", "flag", "env"} \/ ~UserPrefix

Start ==
  /\ pc \in {"Idle"} \cup Verdicts /\ stops > 0
  /\ stops' = stops - 1
  /\ \E source \in Sources : target' = Identified(source)
  /\ Discovers("Discover")
  /\ todo' = {} /\ rc' = 0
  /\ UNCHANGED <<namespace, faults>>

Ends(verdict) ==
  /\ pc' = verdict
  /\ UNCHANGED <<namespace, target, discovery, todo, rc, stops, faults, recent>>

DiscoveryFails == pc \in Discoveries /\ waiting = {} /\ broken /\ Ends("Failed")

NothingFound == AllIn("Discover") /\ ~broken /\ found = {} /\ Ends("Absent")

BeginDeletion(phase, objects) ==
  /\ pc' = phase /\ todo' = objects
  /\ UNCHANGED <<namespace, target, discovery, rc, stops, faults, recent>>

\* The list an operator picks a server from may be old by now; so may any other.
DeleteTopLevel ==
  /\ AllIn("Discover") /\ ~broken /\ found # {}
  /\ BeginDeletion("DeleteTop", found \ Pods)

DeletePods == AllIn("ListPods") /\ ~broken /\ BeginDeletion("DeletePods", found)

\* One kubectl delete names all objects, goes on after one that failed, and may
\* be killed by a signal, which run reports as a negative number.
DeleteOne ==
  /\ pc \in Deletions
  /\ \E o \in todo :
       \/ /\ live' = live \ {o} /\ todo' = todo \ {o}
          /\ NoFault /\ UNCHANGED rc
       \/ /\ Fault /\ live' \in {live, live \ {o}}
          /\ \/ todo' = todo \ {o} /\ rc' = 1
             \/ todo' = {} /\ rc' = -9
  /\ UNCHANGED <<keeper, creations, pc, target, discovery, stops, recent>>

\* rc = max(rc, run(pod_cmd)): a kubectl that was killed counts as 0 there.
DeletionDone ==
  /\ pc \in Deletions /\ todo = {}
  /\ Discovers(IF pc = "DeletePods" THEN "Verify" ELSE IF rc # 0 THEN "Report" ELSE "ListPods")
  /\ rc' = IF pc = "DeletePods" /\ rc < 0 THEN 0 ELSE rc
  /\ UNCHANGED <<namespace, target, todo, stops, faults>>

Complete == rc = 0 /\ found = {}

Verified == AllIn("Verify") /\ ~broken /\ Ends(IF Complete THEN "Stopped" ELSE "Failed")

Reported == AllIn("Report") /\ ~broken /\ Ends("Failed")

\* The process is killed.
Killed == pc \in Discoveries \cup Deletions /\ Fault /\ pc' = "Failed"
          /\ UNCHANGED <<namespace, target, discovery, todo, rc, stops, recent>>

Finished == stops = 0 /\ pc \in Verdicts /\ UNCHANGED vars

Stop ==
  \/ Start \/ \E t \in Types : Fetch(t)
  \/ DiscoveryFails \/ NothingFound \/ DeleteTopLevel \/ DeletePods
  \/ DeleteOne \/ DeletionDone \/ Verified \/ Reported \/ Killed

Namespace ==
  \/ \E p \in Pods : CreatePod(p) \/ CollectPod(p)
  \/ CollectKeeper
  \/ \E o \in TopLevel : Reapply(o)

Next == Stop \/ Namespace \/ Finished

Spec == Init /\ [][Next]_vars

-----------------------------------------------------------------------------
(* Properties.                                                             *)

\* stop succeeds only when nothing is left that was there when it last looked:
\* what is live was created since, while the lists were on their way.  No
\* timeout, failed list or failed delete is taken for an empty namespace.
SuccessMeansGone ==
  pc \in {"Absent", "Stopped"} => live \subseteq recent

\* report_incomplete_teardown is "the last word on whether a teardown finished":
\* if nobody applies the instance again, a stopped one has no pods.
StoppedMeansNoPods == pc = "Stopped" /\ creations = MaxCreations => live \cap Pods = {}
=============================================================================
