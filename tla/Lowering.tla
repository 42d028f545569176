------------------------------- MODULE Lowering -------------------------------
(***************************************************************************)
(* manifesto/workload.py and dra.py: a workload w described without regard *)
(* to its controller becomes a Job, a Deployment or a LeaderWorkerSet with *)
(* its Service and its accelerator claim template.                         *)
(*                                                                         *)
(* w is [name, backend, policies, job, labels, pod, leader, selector,      *)
(* count, container, queue, priority, service, serves]: leader is a        *)
(* sequence of at most one template, service says whether there is one and *)
(* serves is its own selector.  A pod template is [labels, containers,     *)
(* placement, claims, uses, gpus, restart]: placement maps the names of    *)
(* annotations and scheduling fields to values, claims are the pod's       *)
(* resource claims as <<name, template>>, uses those of the accelerator    *)
(* container, gpus its extended resource.  Labels map names to values.     *)
(***************************************************************************)
EXTENDS Integers, Sequences, FiniteSets, Functions

None == "none"
Queue == "kueue.x-k8s.io/queue-name"
Priority == "kueue.x-k8s.io/priority-class"
NoLabels == <<>>

Without(labels, names) == Restrict(labels, DOMAIN labels \ names)
\* Labels or placement over those of another owner: the first one's count.
Over(a, b) == [n \in DOMAIN a \cup DOMAIN b |-> IF n \in DOMAIN a THEN a[n] ELSE b[n]]
Stamped(labels, name, value) ==
  IF value = None THEN labels ELSE Over([n \in {name} |-> value], labels)
Selects(selector, labels) ==
  \A name \in DOMAIN selector : name \in DOMAIN labels /\ selector[name] = labels[name]

\* The validators of JobPolicy and Workload.
JobPolicyIsValid(job) ==
  /\ job.indexed => job.completions
  /\ job.rules # "malformed"
WorkloadIsValid(w) ==
  /\ JobPolicyIsValid(w.job)
  /\ w.backend \in w.policies \/ w.backend = "grove"
  /\ w.backend = "job" /\ w.job.rules = "valid" => w.pod.restart = "Never"

-----------------------------------------------------------------------------
\* workload_settings: the part of a cluster that any GPU workload may use.
ImexClaim(c) == IF c.imex THEN <<<<"compute-domain-channel", <<"imex">>>>>> ELSE <<>>
Settings(c) ==
  [accelerators |-> c.accelerators, default |-> c.default, queue |-> c.queue,
   placement |-> c.placement, claims |-> ImexClaim(c)]
Selected(settings, accelerator) ==
  IF accelerator \in {None, "any"} THEN settings.default ELSE accelerator

\* accelerator_claim_template_name: a digest of the claim, so two names are
\* equal when labels, device class and count are.
ClaimTemplate(w, labels, alloc, count) == <<w, labels, alloc, count>>

\* attach_resource_claim, and its conflict check.
ClaimNames(t) == {t.claims[i][1] : i \in DOMAIN t.claims} \cup {t.uses[i] : i \in DOMAIN t.uses}
Attach(t, claims) ==
  [t EXCEPT !.claims = @ \o claims, !.uses = @ \o [i \in DOMAIN claims |-> claims[i][1]]]
Distinct(claims) == \A i, j \in DOMAIN claims : claims[i][1] = claims[j][1] => i = j
\* Mutant: the pod's own claims are not looked at.
Free_Unchecked(t, claims) == TRUE
Free(t, claims) == Distinct(claims) /\ \A i \in DOMAIN claims : claims[i][1] \notin ClaimNames(t)

\* _apply_settings: the pod's own placement wins; the container with the GPUs
\* gets the cluster's claims, then the GPUs as a resource or as a claim.
AcceleratorContainers(w, t) ==
  IF w.container = None THEN t.containers ELSE t.containers \cap {w.container}
Claims(w, settings, a) ==
  settings.claims \o
    IF a.alloc = "dra"
    THEN <<<<"accelerator", ClaimTemplate(w.name, w.labels, a.alloc, w.count)>>>> ELSE <<>>
CanApply(w, settings, accelerator, t) ==
  /\ Selected(settings, accelerator) \in DOMAIN settings.accelerators
  /\ w.count > 0 =>
       /\ Cardinality(AcceleratorContainers(w, t)) = 1
       /\ Free(t, Claims(w, settings, settings.accelerators[Selected(settings, accelerator)]))
Applied(w, settings, accelerator, t) ==
  LET a == settings.accelerators[Selected(settings, accelerator)]
      placed == [t EXCEPT !.placement = Over(@, Over(a.placement, settings.placement))]
  IN IF w.count = 0 THEN placed
     ELSE [Attach(placed, Claims(w, settings, a))
             EXCEPT !.gpus = IF a.alloc = "extended" THEN w.count ELSE @]
AppliedTemplates(w, settings, accelerator) ==
  LET a == settings.accelerators[Selected(settings, accelerator)]
  IN IF w.count > 0 /\ a.alloc = "dra" THEN {ClaimTemplate(w.name, w.labels, a.alloc, w.count)} ELSE {}

-----------------------------------------------------------------------------
\* render_workload; settings is a sequence of at most one, as for a workload
\* that is lowered with a cluster and one that is not.
Templates(w) == {w.pod} \cup {w.leader[i] : i \in DOMAIN w.leader}
\* Mutant: the pods keep their queue labels.
Unqueued_Not(w, t) == t
Unqueued(w, t) ==
  IF w.backend = "leaderworkerset" THEN [t EXCEPT !.labels = Without(@, {Queue, Priority})] ELSE t
Prepared(w, settings, accelerator, t) ==
  IF settings = <<>> THEN Unqueued(w, t)
  ELSE Applied(w, settings[1], accelerator, Unqueued(w, t))
CanLower(w, settings, accelerator) ==
  /\ w.backend # "grove"
  /\ settings # <<>> =>
       \A t \in Templates(w) : CanApply(w, settings[1], accelerator, Unqueued(w, t))

QueueOf(w, settings) ==
  IF w.queue # None \/ settings = <<>> THEN w.queue ELSE settings[1].queue
Admitted(w, settings, labels) ==
  Stamped(Stamped(labels, Queue, QueueOf(w, settings)), Priority, w.priority)
\* Mutant: the labels of the workload select its pods.
SelectorOf_Owner(w, pod) == IF w.selector = NoLabels THEN w.labels ELSE w.selector
SelectorOf(w, pod) == IF w.selector = NoLabels THEN pod.labels ELSE w.selector
Lowered(w, settings, accelerator) ==
  LET pod == Prepared(w, settings, accelerator, w.pod)
      selector == SelectorOf(w, pod)
      labelled == IF w.backend \in {"job", "deployment"}
                  THEN [pod EXCEPT !.labels = Admitted(w, settings, @)] ELSE pod
  IN [name |-> w.name, backend |-> w.backend,
      labels |-> Admitted(w, settings, w.labels),
      pods |-> {labelled} \cup
               (IF w.backend = "leaderworkerset"
                THEN {Prepared(w, settings, accelerator, w.leader[i]) : i \in DOMAIN w.leader} ELSE {}),
      selectors |-> (IF w.backend = "deployment" THEN {selector} ELSE {})
                      \cup (IF ~w.service THEN {} ELSE IF w.serves = NoLabels THEN {selector} ELSE {w.serves}),
      templates |-> IF settings = <<>> THEN {} ELSE AppliedTemplates(w, settings[1], accelerator)]

-----------------------------------------------------------------------------
\* Every selector selects pods of the workload.  An author may be in the way
\* with a selector, or with a queue label that the cluster's queue replaces.
OwnLabelsOnly(w) ==
  w.selector = NoLabels /\ w.serves = NoLabels /\ {Queue, Priority} \cap DOMAIN w.pod.labels = {}
SelectsItsPods(out) == \A s \in out.selectors : \E t \in out.pods : Selects(s, t.labels)

\* Kueue admits a LeaderWorkerSet as a whole, by its own labels alone; the
\* pods of other workloads name the queue that their controller names.
QueueIn(labels) == IF Queue \in DOMAIN labels THEN labels[Queue] ELSE None
AdmittedOnce(w, settings, out) ==
  \A t \in out.pods :
    IF w.backend = "leaderworkerset" THEN {Queue, Priority} \cap DOMAIN t.labels = {}
    ELSE QueueOf(w, settings) # None => QueueIn(t.labels) = QueueIn(out.labels)

\* Claims have unique names, the container uses claims of its pod, and a
\* template that Manifesto names is one that is rendered along.
Generated(template) == Len(template) = 4
ClaimsFit(t, rendered) ==
  /\ Distinct(t.claims)
  /\ \A i \in DOMAIN t.uses : \E j \in DOMAIN t.claims : t.claims[j][1] = t.uses[i]
  /\ \A i \in DOMAIN t.claims : Generated(t.claims[i][2]) => t.claims[i][2] \in rendered
ClaimsResolve(out, rendered) == \A t \in out.pods : ClaimsFit(t, rendered)
=============================================================================
