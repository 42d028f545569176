--------------------------------- MODULE Render ---------------------------------
(***************************************************************************)
(* manifesto render: a parsed spec and a cluster profile become the        *)
(* manifest of a deployment or its Slurm batch script, role by role, or    *)
(* are refused; and a parsed workload becomes one for its controller       *)
(* (render_kubernetes, render_slurm, render_workload).                     *)
(***************************************************************************)
EXTENDS SlurmRender

CONSTANTS Requests,  \* <<spec, cluster>>: parsed specs (see DeploymentSpec and
                     \* SlurmRender) with the profile to render them for
          Clusters,  \* profiles to render workloads for
          Workloads, \* [workload, clustered, accelerator], see Lowering
          NoSpec     \* not a spec

\* What pydantic guarantees of a parsed spec: its fields, and their ranges.
Positive == {n \in Nat : n > 0}
ParsedRole(r) ==
  /\ {"tp", "pp", "dp", "size"} \subseteq DOMAIN r
  /\ {r.tp, r.pp, r.size} \subseteq Positive /\ r.dp \in Nat
ParsedSpec(s) ==
  /\ {"accelerator", "roles"} \subseteq DOMAIN s
  /\ s.roles \in Seq(Roles(s)) /\ \A r \in Roles(s) : ParsedRole(r)
ParsedServing(r) ==
  /\ {"public", "backend", "proxy", "replicas", "gpus", "cpus", "mem"} \subseteq DOMAIN r
  /\ {r.public, r.backend} \subseteq Int /\ r.proxy \in BOOLEAN /\ r.replicas \in Positive
  /\ {r.gpus, r.cpus} \subseteq Nat \cup {Derived} /\ r.mem \in Nat
ParsedCluster(c) ==
  c.platform = "slurm" =>
    {c.slurm.router.cpus, c.slurm.router.mem, c.slurm.proxy.cpus, c.slurm.proxy.mem} \subseteq Nat
\* ... and of a workload; the claims that its author wrote fit each other.
ParsedTemplate(t) ==
  /\ {"labels", "placement", "claims", "uses", "gpus"} \subseteq DOMAIN t
  /\ t.claims \in Seq(Range(t.claims)) /\ t.uses \in Seq(Range(t.uses))
  /\ ClaimsFit(t, {})
ParsedWorkload(w) ==
  /\ w.backend \in {"job", "deployment", "leaderworkerset", "grove"} /\ w.count \in Nat
  /\ \A t \in Templates(w) : ParsedTemplate(t)
ASSUME WorkloadsAssumption == \A q \in Workloads : ParsedWorkload(q.workload)
ASSUME RequestsAssumption ==
  \A q \in Requests :
    ParsedSpec(q[1]) /\ (\A r \in Roles(q[1]) : ParsedServing(r)) /\ ParsedCluster(q[2])

VARIABLES stage,   \* "parsed", "loaded", "sized", "workload", "rendered", "rejected"
          spec,    \* the deployment spec with the defaults applied so far
          cluster, \* the profile
          plans,   \* the plans of the roles resolved so far
          lowered  \* what was rendered so far: [of, settings, out, templates]
vars == <<stage, spec, cluster, plans, lowered>>

Init ==
  /\ plans = <<>> /\ lowered = <<>>
  /\ \/ stage = "parsed" /\ \E q \in Requests : spec = q[1] /\ cluster = q[2]
     \/ stage = "workload" /\ spec = NoSpec /\ cluster \in Clusters

\* DeploymentSpec.model_validate
SpecIsValid(s) == RolesAreValid(s) /\ TopologyIsValid(s)
AcceptSpec ==
  /\ stage = "parsed" /\ SpecIsValid(spec)
  /\ stage' = "loaded" /\ spec' = Defaulted(spec)
  /\ UNCHANGED <<cluster, plans, lowered>>

\* apply_cluster_defaults, and validate_slurm around it
Fits(s, c) == FitsCluster(s, c) /\ (c.platform = "slurm" => SlurmIsValid(Sized(s), c))
FitCluster ==
  /\ stage = "loaded" /\ Fits(spec, cluster)
  /\ stage' = "sized" /\ spec' = Sized(spec)
  /\ UNCHANGED <<cluster, plans, lowered>>

\* resolve_role, for every role before anything is rendered
Resolved == stage = "sized" /\ Len(plans) = Len(spec.roles)
NextRole == spec.roles[Len(plans) + 1]
ResolveRole ==
  /\ stage = "sized" /\ Len(plans) < Len(spec.roles)
  /\ FeaturesAreCompatible(spec, NextRole)
  /\ plans' = Append(plans, Plan(spec, cluster, NextRole))
  /\ UNCHANGED <<stage, spec, cluster, lowered>>

\* A workload as rendered, with the claim templates rendered next to it.
Entry(w, settings, accelerator, templates) ==
  LET out == Lowered(w, settings, accelerator)
  IN [of |-> w, settings |-> settings, out |-> out, templates |-> templates \cup out.templates]

\* render_kubernetes: the workloads in the order of the roles, then routing
RenderRole ==
  /\ Resolved /\ cluster.platform # "slurm" /\ Len(lowered) < Len(plans)
  /\ LET p == plans[Len(lowered) + 1]
         w == RoleWorkload(spec, cluster, p)
     IN lowered' = Append(lowered, Entry(w, <<>>, None, RoleTemplates(spec, cluster, p)))
  /\ UNCHANGED <<stage, spec, cluster, plans>>
RenderRouting ==
  /\ Resolved /\ cluster.platform # "slurm" /\ Len(lowered) = Len(plans)
  /\ CanRoute(spec, plans)
  /\ stage' = "rendered"
  /\ UNCHANGED <<spec, cluster, plans, lowered>>

\* render_slurm
RenderBatch ==
  /\ Resolved /\ cluster.platform = "slurm" /\ CanBatch(spec, cluster, plans)
  /\ stage' = "rendered"
  /\ UNCHANGED <<spec, cluster, plans, lowered>>

\* render_workload, for a cluster or with everything in the description
LowerWorkload(q) ==
  LET settings == IF q.clustered THEN <<Settings(cluster)>> ELSE <<>>
  IN /\ stage = "workload" /\ (q.clustered => cluster.platform # "slurm")
     /\ WorkloadIsValid(q.workload) /\ CanLower(q.workload, settings, q.accelerator)
     /\ lowered' = <<Entry(q.workload, settings, q.accelerator, {})>>
     /\ stage' = "rendered"
     /\ UNCHANGED <<spec, cluster, plans>>

\* Any of the checks fails: the command ends with an error and prints nothing.
Refused ==
  \/ stage = "parsed" /\ ~SpecIsValid(spec)
  \/ stage = "loaded" /\ ~Fits(spec, cluster)
  \/ stage = "sized" /\ Len(plans) < Len(spec.roles) /\ ~FeaturesAreCompatible(spec, NextRole)
  \/ /\ Resolved /\ cluster.platform # "slurm" /\ Len(lowered) = Len(plans)
     /\ ~CanRoute(spec, plans)
  \/ Resolved /\ cluster.platform = "slurm" /\ ~CanBatch(spec, cluster, plans)
Reject ==
  /\ Refused
  /\ stage' = "rejected"
  /\ UNCHANGED <<spec, cluster, plans, lowered>>

Next ==
  \/ AcceptSpec \/ FitCluster \/ ResolveRole \/ RenderRole \/ RenderRouting \/ RenderBatch
  \/ \E q \in Workloads : LowerWorkload(q)
  \/ Reject
Spec == Init /\ [][Next]_vars

-----------------------------------------------------------------------------
TypeOK ==
  /\ stage \in {"parsed", "loaded", "sized", "workload", "rendered", "rejected"}
  /\ spec = NoSpec \/ Len(plans) <= Len(spec.roles)
  /\ Len(lowered) <= 1 + Len(plans)
  /\ \A i \in DOMAIN plans : plans[i].role = spec.roles[i]

\* Parallelism (parallelism.py, launch.py): the workers of the DP ranks fill
\* the GPUs of the nodes exactly, and with external load balancing each rank
\* answers on exactly one node; no script reads START_RANK unset.
RanksArePlaced ==
  \A i \in DOMAIN plans :
    /\ FillsNodes(plans[i].role)
    /\ plans[i].ext => ServedOnce(plans[i].role)
    /\ ReadsStartRank(plans[i].role, plans[i].ext) => SetsStartRank(plans[i].role)

\* "Launch scripts, readiness checks, routing, and idle shutdown use this same
\* endpoint placement" (README): probe, watcher and Service address exactly
\* the servers that the launch scripts start.  On Slurm the discovery file lists
\* exactly those that the steps start, and each task meets at the first node of
\* its own replica (slurm_routing.py).
AddressesAreServed ==
  stage = "rendered" /\ plans # <<>> =>
    IF cluster.platform = "slurm" THEN DiscoveryIsExact(plans) /\ LeadersLead(plans) ELSE EndpointsAgree(spec, plans)

\* The endpoint picker never picks a port that nothing serves and knows every
\* server of the target role (routing.py, render/routing.py).
PicksAreServed ==
  stage = "rendered" /\ plans # <<>> /\ Routed(spec) /\ cluster.platform # "slurm" =>
    NoDeadEndpoint(spec, plans)

\* "A shared PD InferencePool advertises the union of both roles' ports"
\* (lws.py): the picker knows the servers of every role, not of one alone.
PoolHasEveryServer ==
  stage = "rendered" /\ plans # <<>> /\ Routed(spec) /\ cluster.platform # "slurm" =>
    EveryServerPicked(spec, plans)

\* Nothing binds a port twice in a pod when the port bases are the defaults
\* (dp_ports.py, launch.py, render/lws.py).
NoPortBoundTwice == \A i \in DOMAIN plans : PortsDoNotCollide(plans[i])

\* On no node of a Slurm job need the steps more than the batch script leaves
\* them (slurm_routing.py).
SlurmStepsFit ==
  stage = "rendered" /\ cluster.platform = "slurm" /\ plans # <<>> => StepsFit(spec, cluster, plans)

\* What lowering adds fits what the workload brings (workload.py, dra.py):
\* controllers and Services select the pods of their workload; Kueue meets each
\* workload exactly once, a LeaderWorkerSet by its own labels and never by its
\* pods' (README: "removed from LeaderWorkerSet pod templates"); and a claim
\* that a pod uses is one it declares, under a unique name, with its template.
LoweredFits ==
  \A i \in DOMAIN lowered :
    LET l == lowered[i]
    IN /\ plans # <<>> \/ OwnLabelsOnly(l.of) => SelectsItsPods(l.out)
       /\ AdmittedOnce(l.of, l.settings, l.out)
       /\ ClaimsResolve(l.out, l.templates)

\* Each path that vLLM is told to use lies on a volume of its pod (cluster.py).
PathsAreOnVolumes ==
  cluster.platform # "slurm" /\ LogsAreReachable(cluster) =>
    \A i \in DOMAIN plans : PathsAreMounted(cluster, plans[i].kind)
=============================================================================
