-------------------------------- MODULE Deploy --------------------------------
(***************************************************************************)
(* `manifesto deploy` in manifesto/workflow.py: one process per invocation *)
(* that reads the namespace and changes it with one kubectl command after  *)
(* the other.  Every read and every object a command creates or deletes is *)
(* a step of its own, any command may fail with or without its effect, and *)
(* the process may be killed between two steps.                            *)
(*                                                                         *)
(* An object is [kind, name, instance, component, queue, spec], the fields *)
(* that deploy reads; spec stands for everything else the manifest says.   *)
(***************************************************************************)
EXTENDS Naturals, Sequences, FiniteSets

CONSTANTS
  Deployers,     \* concurrent invocations, each run over and over
  Jobs,          \* what may be asked of them: [objects, routing_only]
  MaxDeploys,    \* bound: invocations over the whole run
  MaxFaults,     \* bound: failed commands and killed processes
  None

WorkloadKinds == {"Deployment", "LeaderWorkerSet"}
FrontendKinds == {"Gateway", "HTTPRoute", "DestinationRule"}

ObjectsOf(j) == {j.objects[i] : i \in DOMAIN j.objects}
Manifested == UNION {ObjectsOf(j) : j \in Jobs}
Key(o) == <<o.kind, o.name>>

\* A Deployment of the endpoint picker or of the idle-shutdown controller is
\* no model workload; a LeaderWorkerSet carries the inferenceServing label.
ModelWorkload(o) == o.kind \in WorkloadKinds /\ o.component \in {"model-server", "lws"}
Workloads(j) == {o \in ObjectsOf(j) : ModelWorkload(o)}
RoutingObjects(j) == {o \in ObjectsOf(j) : o.kind \in {"InferencePool", "Gateway"}}
ClaimTemplates(j) == {o \in ObjectsOf(j) : o.kind = "ResourceClaimTemplate"}
Instances(S) == {o.instance : o \in S}

\* No manifest has two objects of one kind and name, and all of one manifest
\* belong to one instance.
ASSUME JobsAssumption ==
  \A j \in Jobs :
    /\ j.objects \in Seq(ObjectsOf(j)) /\ j.routing_only \in BOOLEAN
    /\ \A a, b \in DOMAIN j.objects : Key(j.objects[a]) = Key(j.objects[b]) => a = b
    /\ \A a, b \in ObjectsOf(j) : a.instance = b.instance
    /\ j.routing_only => Workloads(j) = {}
ASSUME DeployBounds == MaxDeploys \in Nat /\ MaxFaults \in Nat

VARIABLES
  live,       \* the objects of the namespace
  secret,     \* hf-secret exists
  pc, job,
  todo,       \* workloads whose live objects are still to be looked up
  doomed,     \* objects to be deleted by the next commands
  applied,    \* how many objects of the manifest kubectl apply has handled
  failed,     \* the running kubectl command will exit non-zero
  deploys, faults,
  \* history
  disturbed   \* kinds and names that other processes changed since this one began

process == <<pc, job, todo, doomed, applied, failed>>
vars == <<live, secret, process, deploys, faults, disturbed>>

Halted == {"Idle", "Ok", "Failed"}
Running == {"Preflight", "Plan", "Recreate", "Apply", "Prune", "Cleanup"}

NamespaceOK ==
  /\ live \subseteq Manifested /\ secret \in BOOLEAN
  /\ \A a, b \in live : Key(a) = Key(b) => a = b

ProcessOK ==
  /\ pc \in [Deployers -> Halted \cup Running]
  /\ job \in [Deployers -> Jobs \cup {None}]
  /\ \A d \in Deployers : pc[d] # "Idle" => job[d] \in Jobs
  /\ todo \in [Deployers -> SUBSET Manifested]
  /\ doomed \in [Deployers -> SUBSET {Key(o) : o \in Manifested}]
  /\ applied \in [Deployers -> Nat] /\ failed \in [Deployers -> BOOLEAN]
  /\ \A d \in Deployers : pc[d] # "Idle" => applied[d] <= Len(job[d].objects)
  /\ disturbed \in [Deployers -> SUBSET {Key(o) : o \in Manifested}]

BudgetOK == deploys \in 0 .. MaxDeploys /\ faults \in 0 .. MaxFaults

TypeOK == NamespaceOK /\ ProcessOK /\ BudgetOK

Init ==
  /\ live = {} /\ secret = FALSE
  /\ pc = [d \in Deployers |-> "Idle"] /\ job = [d \in Deployers |-> None]
  /\ todo = [d \in Deployers |-> {}] /\ doomed = [d \in Deployers |-> {}]
  /\ applied = [d \in Deployers |-> 0] /\ failed = [d \in Deployers |-> FALSE]
  /\ deploys = MaxDeploys /\ faults = MaxFaults
  /\ disturbed = [d \in Deployers |-> {}]

Fault == faults > 0 /\ faults' = faults - 1
NoFault == UNCHANGED faults

GoTo(d, label) == pc' = [pc EXCEPT ![d] = label]

\* What the process changes it changes behind the back of every other one.
Changed == (live \ live') \cup (live' \ live)
Disturbs(d) ==
  disturbed' = [e \in Deployers |->
                  IF e # d /\ pc[e] \notin {"Idle", "Failed"}
                  THEN disturbed[e] \cup {Key(o) : o \in Changed} ELSE disturbed[e]]

\* Raising WorkflowError, or returning the exit status of a command.
Fails(d) ==
  /\ GoTo(d, "Failed")
  /\ UNCHANGED <<live, secret, job, todo, doomed, applied, failed, deploys, disturbed>>

-----------------------------------------------------------------------------
(* deploy, up to the point where it changes the namespace.                 *)

Start(d) ==
  /\ pc[d] \in Halted /\ deploys > 0
  /\ deploys' = deploys - 1
  /\ \E j \in Jobs :
       /\ job' = [job EXCEPT ![d] = j]
       /\ GoTo(d, IF j.routing_only THEN "Apply" ELSE "Preflight")
  /\ todo' = [todo EXCEPT ![d] = {}] /\ doomed' = [doomed EXCEPT ![d] = {}]
  /\ applied' = [applied EXCEPT ![d] = 0] /\ failed' = [failed EXCEPT ![d] = FALSE]
  /\ disturbed' = [disturbed EXCEPT ![d] = {}]
  /\ UNCHANGED <<live, secret, faults>>

\* preflight_workloads and require_hf_token read what this module does not
\* model (served APIs, queues, device classes, the token): they pass or raise.
Preflight(d) ==
  /\ pc[d] = "Preflight"
  /\ \/ /\ GoTo(d, "Plan") /\ NoFault
        /\ todo' = [todo EXCEPT ![d] = Workloads(job[d])]
        /\ UNCHANGED <<live, secret, job, doomed, applied, failed, deploys, disturbed>>
     \/ Fault /\ Fails(d)

\* Mutant: a workload of the other kind is not looked for.
MustGo_SameKind(o, desired) ==
  o.name = desired.name /\ o.kind = "LeaderWorkerSet" /\ o.queue # desired.queue
\* A live object the desired workload cannot be applied beside or over: it has
\* the other kind, or it is a LeaderWorkerSet admitted by another queue.
MustGo(o, desired) ==
  /\ o.name = desired.name /\ o.kind \in WorkloadKinds
  /\ \/ o.kind # desired.kind
     \/ o.kind = "LeaderWorkerSet" /\ o.queue # desired.queue

\* plan_workload_transitions, one workload at a time.
LookUp(d) ==
  /\ pc[d] = "Plan"
  /\ \E desired \in todo[d] :
       \/ /\ todo' = [todo EXCEPT ![d] = @ \ {desired}]
          /\ doomed' = [doomed EXCEPT ![d] = @ \cup {Key(o) : o \in {l \in live : MustGo(l, desired)}}]
          /\ NoFault
          /\ UNCHANGED <<live, secret, pc, job, applied, failed, deploys, disturbed>>
       \/ Fault /\ Fails(d)

SyncSecret(d) ==
  /\ pc[d] = "Plan" /\ todo[d] = {}
  /\ \/ GoTo(d, "Recreate") /\ secret' = TRUE /\ NoFault
     \/ GoTo(d, "Failed") /\ Fault /\ secret' \in {secret, TRUE}
  /\ UNCHANGED <<live, job, todo, doomed, applied, failed, deploys, disturbed>>

-----------------------------------------------------------------------------
(* Commands that change objects.                                           *)

Without(keys) == {o \in live : Key(o) \notin keys}

\* kubectl delete of one object, not found or not; effective is FALSE when the
\* command failed before the object was gone.
Delete(d, key, effective) ==
  /\ doomed' = [doomed EXCEPT ![d] = @ \ {key}]
  /\ IF effective THEN live' = Without({key}) /\ Disturbs(d)
     ELSE UNCHANGED <<live, disturbed>>

\* execute_workload_transitions stops at the first command that fails.
Recreate(d) ==
  /\ pc[d] = "Recreate"
  /\ \E key \in doomed[d], effective \in BOOLEAN :
       /\ Delete(d, key, effective)
       /\ \/ effective /\ NoFault /\ UNCHANGED pc
          \/ Fault /\ GoTo(d, "Failed")
  /\ UNCHANGED <<secret, job, todo, applied, failed, deploys>>

\* Mutant: apply does not wait for the deletions.
Recreated_Unchecked(d) == pc[d] = "Recreate"
Recreated(d) == pc[d] = "Recreate" /\ doomed[d] = {}

StartApply(d) ==
  /\ Recreated(d)
  /\ GoTo(d, "Apply")
  /\ UNCHANGED <<live, secret, job, todo, doomed, applied, failed, deploys, faults, disturbed>>

\* The selector of a Deployment has the instance in it and is immutable.
Immutable(o) ==
  \E l \in live : Key(l) = Key(o) /\ o.kind = "Deployment" /\ l.instance # o.instance

\* kubectl apply handles the objects of the manifest in order, goes on after an
\* object that failed and exits non-zero in the end.
ApplyObject(d) ==
  /\ pc[d] = "Apply" /\ applied[d] < Len(job[d].objects)
  /\ applied' = [applied EXCEPT ![d] = @ + 1]
  /\ LET o == job[d].objects[applied[d] + 1]
         takes_effect == live' = Without({Key(o)}) \cup {o} /\ Disturbs(d)
         fails == failed' = [failed EXCEPT ![d] = TRUE]
     IN \/ ~Immutable(o) /\ takes_effect /\ NoFault /\ UNCHANGED failed
        \/ ~Immutable(o) /\ takes_effect /\ Fault /\ fails
        \/ Fault /\ fails /\ UNCHANGED <<live, disturbed>>
        \/ Immutable(o) /\ NoFault /\ fails /\ UNCHANGED <<live, disturbed>>
  /\ UNCHANGED <<secret, pc, job, todo, doomed, deploys>>

\* Mutant: the exit status of kubectl apply is not looked at.
ApplyDone_Unchecked(d) == pc[d] = "Apply" /\ applied[d] = Len(job[d].objects)
ApplyDone(d) == pc[d] = "Apply" /\ applied[d] = Len(job[d].objects) /\ ~failed[d]

ApplyFails(d) ==
  /\ pc[d] = "Apply" /\ applied[d] = Len(job[d].objects) /\ failed[d]
  /\ NoFault /\ Fails(d)

-----------------------------------------------------------------------------
(* Pruning what the manifest no longer has.                                *)

\* What the listing finds is deleted by the next command.
Lists(d, label, obsolete) ==
  /\ GoTo(d, label)
  /\ doomed' = [doomed EXCEPT ![d] = {Key(o) : o \in obsolete}]
  /\ failed' = [failed EXCEPT ![d] = FALSE]
  /\ UNCHANGED <<live, secret, job, todo, applied, deploys, disturbed>>

\* Mutants: the templates of every instance are listed; all of one's own go.
ObsoleteTemplate_AnyInstance(o, j) ==
  o.kind = "ResourceClaimTemplate" /\ Key(o) \notin {Key(t) : t \in ClaimTemplates(j)}
ObsoleteTemplate_All(o, j) ==
  o.kind = "ResourceClaimTemplate" /\ o.instance \in Instances(Workloads(j))
\* Templates of the instance that the manifest does not have.
ObsoleteTemplate(o, j) ==
  /\ o.kind = "ResourceClaimTemplate" /\ o.instance \in Instances(Workloads(j))
  /\ Key(o) \notin {Key(t) : t \in ClaimTemplates(j)}

OfStandalone(o) == o.kind = "ConfigMap" /\ o.component = "envoy"
OfGateway(o) == o.kind \in FrontendKinds \/ (o.kind = "ConfigMap" /\ o.component = "gateway")
HasGateway(j) == \E r \in RoutingObjects(j) : r.kind = "Gateway"

\* Mutant: the other way round.
ObsoleteFrontend_Inverted(o, j) ==
  /\ o.instance \in Instances(RoutingObjects(j))
  /\ IF HasGateway(j) THEN OfGateway(o) ELSE OfStandalone(o)

\* Resources of the frontend that the manifest does not have; without routing
\* objects in the manifest there is nothing to go by.
ObsoleteFrontend(o, j) ==
  /\ o.instance \in Instances(RoutingObjects(j))
  /\ IF HasGateway(j) THEN OfStandalone(o) ELSE OfGateway(o)

\* cleanup_obsolete_accelerator_claim_templates lists...
ListTemplates(d) ==
  /\ ApplyDone(d)
  /\ \/ Lists(d, "Prune", {o \in live : ObsoleteTemplate(o, job[d])}) /\ NoFault
     \/ Fault /\ Fails(d)

\* ... and cleanup_obsolete_routing lists once the templates are gone.
ListFrontend(d) ==
  /\ pc[d] = "Prune" /\ doomed[d] = {} /\ ~failed[d]
  /\ \/ Lists(d, "Cleanup", {o \in live : ObsoleteFrontend(o, job[d])}) /\ NoFault
     \/ Fault /\ Fails(d)

\* One kubectl delete names all of them and goes on after one that failed.
DeleteObsolete(d) ==
  /\ pc[d] \in {"Prune", "Cleanup"}
  /\ \E key \in doomed[d], effective \in BOOLEAN :
       /\ Delete(d, key, effective)
       /\ \/ effective /\ NoFault /\ UNCHANGED failed
          \/ Fault /\ failed' = [failed EXCEPT ![d] = TRUE]
  /\ UNCHANGED <<secret, pc, job, todo, applied, deploys>>

DeleteFails(d) ==
  /\ pc[d] \in {"Prune", "Cleanup"} /\ doomed[d] = {} /\ failed[d]
  /\ NoFault /\ Fails(d)

Succeeds(d) ==
  /\ pc[d] = "Cleanup" /\ doomed[d] = {} /\ ~failed[d]
  /\ GoTo(d, "Ok")
  /\ UNCHANGED <<live, secret, job, todo, doomed, applied, failed, deploys, faults, disturbed>>

\* The process is killed; what kubectl did so far stays.
Killed(d) == pc[d] \in Running /\ Fault /\ Fails(d)

Finished ==
  /\ deploys = 0 /\ \A d \in Deployers : pc[d] \in Halted
  /\ UNCHANGED vars

Step(d) ==
  \/ Start(d) \/ Preflight(d) \/ LookUp(d) \/ SyncSecret(d) \/ Recreate(d)
  \/ StartApply(d) \/ ApplyObject(d) \/ ApplyFails(d) \/ ListTemplates(d)
  \/ DeleteObsolete(d) \/ ListFrontend(d) \/ DeleteFails(d) \/ Succeeds(d) \/ Killed(d)

Next == (\E d \in Deployers : Step(d)) \/ Finished

Spec == Init /\ [][Next]_vars

-----------------------------------------------------------------------------
(* What some properties ask of the manifests.                              *)

\* No manifest asks for one workload in two kinds.
OneKindEach ==
  \A j \in Jobs : \A w \in Workloads(j), o \in ObjectsOf(j) :
    o.kind \in WorkloadKinds /\ o.name = w.name => o.kind = w.kind

FrontendComponents == {"gateway", "route", "envoy"}

\* What any manifest of an instance has for a frontend is named like what this
\* one has, or is what this one replaces, but not both.
FrontendsAreKnown ==
  \A j \in Jobs : RoutingObjects(j) # {} =>
    LET Replaced(o) == IF HasGateway(j) THEN OfStandalone(o) ELSE OfGateway(o)
        Kept(o) == Key(o) \in {Key(w) : w \in ObjectsOf(j)}
    IN \A o \in Manifested :
         o.instance \in Instances(ObjectsOf(j)) =>
           /\ Replaced(o) => ~Kept(o)
           /\ o.component \in FrontendComponents => Replaced(o) \/ Kept(o)

\* Objects of two kinds have one name only when both are model workloads.
KindsAreScoped ==
  \A a, b \in Manifested :
    a.kind \in WorkloadKinds /\ b.kind \in WorkloadKinds /\ a.name = b.name =>
      a.kind = b.kind \/ (ModelWorkload(a) /\ ModelWorkload(b))

RoutingComponents == {"gateway", "route", "routing", "envoy", "epp"}

\* No model workload is named like a Deployment that routing needs.
RoutingIsNoWorkload ==
  \A o \in Manifested : o.component \in RoutingComponents =>
    /\ o.kind # "ResourceClaimTemplate"
    /\ \A w \in Manifested : ModelWorkload(w) /\ o.kind \in WorkloadKinds => o.name # w.name

\* Who names a claim template is a model workload of its instance, and any
\* manifest of that workload has the template.
ClaimsAreLocal ==
  \A t, w \in Manifested : t.kind = "ResourceClaimTemplate" /\ w.spec = t.name =>
    /\ ModelWorkload(w) /\ w.instance = t.instance
    /\ \A j \in Jobs : w \in ObjectsOf(j) => Key(t) \in {Key(c) : c \in ClaimTemplates(j)}

\* An instance keeps the names of its roles, from manifest to manifest.
RolesAreKept ==
  \A j \in Jobs, w \in Manifested :
    ModelWorkload(w) /\ w.instance \in Instances(Workloads(j)) => \E v \in Workloads(j) : v.name = w.name

-----------------------------------------------------------------------------
(* Properties.                                                             *)

\* After a success the namespace is what the manifest asks for, however earlier
\* deployments were cut short, and in all that no other process has changed since
\* this one began: its objects are live, no workload of the other kind or of
\* another queue is left under their names, no superseded claim template, nothing
\* of another frontend.
SuccessConverges ==
  \A d \in Deployers :
    pc[d] = "Ok" =>
      LET wanted == ObjectsOf(job[d])
          Mine(o) == o.instance \in Instances(wanted)
          Left == {o \in live : Key(o) \notin disturbed[d]}
      IN /\ \A o \in wanted : Key(o) \in disturbed[d] \/ o \in live
         /\ Workloads(job[d]) # {} => secret
         /\ \A o \in Left, w \in Workloads(job[d]) :
              o.kind \in WorkloadKinds /\ o.name = w.name => o = w
         /\ \A o \in Left :
              o.kind = "ResourceClaimTemplate" /\ Mine(o) /\ Workloads(job[d]) # {} => o \in wanted
         /\ \A o \in Left :
              o.component \in FrontendComponents /\ Mine(o) /\ RoutingObjects(job[d]) # {} => o \in wanted

\* A model never runs, and never asks for its GPUs, as a Deployment and as a
\* LeaderWorkerSet of one name at a time.
OneKindPerName ==
  \A a, b \in live : a.kind \in WorkloadKinds /\ b.kind \in WorkloadKinds /\ a.name = b.name => a = b

Gone(o) == o \in live /\ Key(o) \notin {Key(l) : l \in live'}

\* The way in is never taken away before the next one is there: routing objects
\* of an instance are deleted only when all of a new manifest of it is live.
FrontendReplacedFirst ==
  [][\A o \in live : o.component \in RoutingComponents /\ Gone(o) =>
       \E d \in Deployers :
         /\ pc[d] = "Cleanup" /\ o.instance \in Instances(RoutingObjects(job[d]))
         /\ ObjectsOf(job[d]) \subseteq live \ {o}]_vars

\* The plan of a process that runs beside others may be stale when it is carried
\* out.  Still no workload is applied beside or over one that has to go first, and
\* none is deleted that does not have to go, unless another process has changed that
\* very object since this one began.
OnlyRacesHarm ==
  [][/\ \A o \in live' \ live, l \in live :
          ModelWorkload(o) /\ MustGo(l, o) =>
            \E d \in Deployers : pc[d] = "Apply" /\ o \in ObjectsOf(job[d]) /\ Key(l) \in disturbed[d]
     /\ \A l \in live :
          ModelWorkload(l) /\ Gone(l) =>
            \E d \in Deployers :
              /\ pc[d] = "Recreate"
              /\ Key(l) \in disturbed[d] \/ \E w \in Workloads(job[d]) : MustGo(l, w)]_vars

StaysInside ==
  \A o \in Changed :
    \E d \in Deployers :
      /\ <<pc[d], applied[d], doomed[d]>> # <<pc[d], applied[d], doomed[d]>>'
      /\ o.instance \in Instances(ObjectsOf(job[d]))

\* README: "Every rendered object is scoped by the release-based instance
\* identity": what one step changes belongs to one instance, that of the process
\* which took the step.  (It needs workloads named after their release, and
\* releases of which none begins with another one and a hyphen.)
Isolated == [][StaysInside]_vars

\* Prunes "immutable DRA templates superseded by a successful deployment": no
\* live workload still makes its pods' claims from a template that is deleted.
TemplatesInUseAreKept ==
  [][\A o \in live : o.kind = "ResourceClaimTemplate" /\ Gone(o) => \A w \in live : w.spec # o.name]_vars

\* README: "opt out in the runtime configuration": once a manifest without the
\* idle-shutdown controller was deployed, no controller watches its instance.
OptOutStopsController ==
  \A d \in Deployers :
    /\ pc[d] = "Ok" /\ disturbed[d] = {}
    /\ \A o \in ObjectsOf(job[d]) : o.component # "idle-shutdown"
    => \A o \in live : o.instance \in Instances(ObjectsOf(job[d])) => o.component # "idle-shutdown"

\* README: "`manifesto deploy` removes resources left by the previous frontend
\* after a successful apply".
PreviousFrontendRemoved ==
  \A d \in Deployers :
    /\ pc[d] = "Ok" /\ disturbed[d] = {}
    /\ \A o \in ObjectsOf(job[d]) : o.kind # "Gateway"
    => \A o \in live : o.instance \in Instances(ObjectsOf(job[d])) => o.kind # "Gateway"
=============================================================================
