-------------------------------- MODULE Serving --------------------------------
(***************************************************************************)
(* What manifesto/render makes of the plans of a deployment for Kubernetes *)
(* (lws.py, base.py, idle_shutdown.py, routing.py): the workload of each   *)
(* role, and everything that addresses the servers the workload starts.    *)
(***************************************************************************)
EXTENDS DeploymentSpec, Lowering, Storage

RoleLabels(component, name) == [instance |-> "this", component |-> component, role |-> name]
PodSelector(name) == IF name = None THEN [instance |-> "this"] ELSE [instance |-> "this", role |-> name]
ServingLabels(s, r) ==
  Over(RoleLabels("model-server", r.name), [serving |-> "true", topology |-> s.topology])

\* render_accelerator_claim_template, and the workload that uses the claim.
RoleTemplates(s, c, p) ==
  IF p.role.gpus > 0 /\ Accelerator(s, c).alloc = "dra"
  THEN {ClaimTemplate(p.role.name, RoleLabels("accelerator-claim-template", p.role.name), "dra", p.role.gpus)}
  ELSE {}
RoleClaims(s, c, p) ==
  p.claims \o
    IF p.role.gpus > 0 /\ Accelerator(s, c).alloc = "dra"
    THEN LET labels == RoleLabels("accelerator-claim-template", p.role.name)
         IN <<<<"accelerator", ClaimTemplate(p.role.name, labels, "dra", p.role.gpus)>>>>
    ELSE <<>>
RolePod(s, c, p) ==
  Attach([labels |-> ServingLabels(s, p.role), containers |-> {"vllm"}, restart |-> "Always",
          placement |-> Over(Accelerator(s, c).placement, c.placement), claims |-> <<>>, uses |-> <<>>,
          gpus |-> IF Accelerator(s, c).alloc = "extended" THEN p.role.gpus ELSE 0],
         RoleClaims(s, c, p))
NoJob == [indexed |-> FALSE, completions |-> FALSE, rules |-> "none"]
RoleWorkload(s, c, p) ==
  LET backend == IF p.kind = "Deployment" THEN "deployment" ELSE "leaderworkerset"
  IN [name |-> p.role.name, backend |-> backend, policies |-> {backend}, job |-> NoJob,
      labels |-> IF p.kind = "Deployment" THEN RoleLabels("model-server", p.role.name)
                 ELSE Over(RoleLabels("lws", p.role.name), ServingLabels(s, p.role)),
      pod |-> RolePod(s, c, p), leader |-> <<>>,
      selector |-> IF p.kind = "Deployment" THEN PodSelector(p.role.name) ELSE NoLabels,
      count |-> 0, container |-> None, queue |-> IF p.role.gpus > 0 THEN c.queue ELSE None,
      priority |-> None, service |-> FALSE, serves |-> NoLabels]

-----------------------------------------------------------------------------
\* The servers: vLLM on node n as its launch script starts it, and the routing
\* proxy in the same pod, which forwards public port i to backend port i.
Live(p, n) == ServesOn(Launch(p.role, p.ext, n))
Forwarded(p, n) == {p.role.public + (port - p.ports.first) : port \in Live(p, n)}
Reachable(p, n) == IF p.proxy THEN Forwarded(p, n) ELSE Live(p, n)
BoundPorts(p, n) ==
  LET flags == Launch(p.role, p.ext, n)
  IN <<Live(p, n), IF flags.supervisor THEN {8100} ELSE {}, IF flags.rpc THEN {5555} ELSE {},
       IF p.proxy THEN p.ports.public ELSE {}>>

\* Who addresses them.
\* Mutant: headless nodes are probed as well.
ApiOrAll_All(p) == Nodes(p.role)
ApiOrAll(p) == IF p.headless THEN p.api_nodes ELSE Nodes(p.role)
Probed(p, n) ==
  IF n \notin ApiOrAll(p) THEN {} ELSE IF p.proxy THEN p.ports.public ELSE p.ports.backend
Watched(p, n) == IF n \in ApiOrAll(p) THEN p.ports.backend ELSE {}
ExpectedTargets(plans) ==
  SumFunction([i \in DOMAIN plans |-> plans[i].role.replicas
                 * Cardinality(plans[i].api_nodes) * Cardinality(plans[i].ports.backend)])
Service(p) ==
  [selector |-> Over(PodSelector(p.role.name), IF p.headless THEN [worker |-> 0] ELSE NoLabels),
   ports |-> p.ports.public]
PodLabels(s, p, n) ==
  Over(ServingLabels(s, p.role), IF p.kind = "LeaderWorkerSet" THEN [worker |-> n] ELSE NoLabels)

-----------------------------------------------------------------------------
\* Routing: the scheduling profiles of the endpoint picker, each for a role,
\* their filters on the nodes with an API, and the pool they pick from.
ProfileRoles(s) ==
  IF s.kind = "pd" THEN [prefill |-> "prefill", decode |-> "decode"] ELSE [default |-> s.target]
BuiltInProfiles(s) == DOMAIN ProfileRoles(s)
ConfiguredProfiles(s) == IF s.profiles = {} THEN BuiltInProfiles(s) ELSE s.profiles
PlanOf(plans, name) == CHOOSE p \in Range(plans) : p.role.name = name
CanRoute(s, plans) ==
  Routed(s) =>
    /\ Range(ProfileRoles(s)) \cup {s.target} \subseteq RoleNames(s)
    /\ \A profile \in DOMAIN ProfileRoles(s) :
         PlanOf(plans, ProfileRoles(s)[profile]).headless => profile \in ConfiguredProfiles(s)
\* Mutant: the picker knows every node of the role.
EndpointFilter_None(s, plans, profile) == Nodes(PlanOf(plans, ProfileRoles(s)[profile]).role)
EndpointFilter(s, plans, profile) == ApiOrAll(PlanOf(plans, ProfileRoles(s)[profile]))
Pool(s, plans) ==
  [selector |-> Over(PodSelector(IF s.kind = "pd" THEN None ELSE s.target),
                     [serving |-> "true", topology |-> s.topology]),
   ports |-> PlanOf(plans, s.target).ports.public]
ActivePorts(s, plans, p) == IF p.llm_d THEN p.ports.public ELSE Pool(s, plans).ports

\* The endpoints a profile may pick: <<node, port>>.
Endpoints(s, plans, profile) ==
  LET p == PlanOf(plans, ProfileRoles(s)[profile])
  IN {e \in EndpointFilter(s, plans, profile) \X (Pool(s, plans).ports \cap ActivePorts(s, plans, p)) :
        Selects(Pool(s, plans).selector, PodLabels(s, p, e[1]))}
ReachableEndpoints(p) == UNION {{n} \X Reachable(p, n) : n \in Nodes(p.role)}
LiveEndpoints(p) == UNION {{n} \X Live(p, n) : n \in Nodes(p.role)}

-----------------------------------------------------------------------------
\* A role whose vLLM has a port base of its own serves it through the proxy:
\* pool, Service and annotation name public ports only.
PublicIsServed(r) == r.proxy \/ r.backend \in {0, r.public}

\* Readiness probes, the idle-shutdown controller and the Service address
\* exactly the servers that the launch scripts start.
EndpointsAgree(s, plans) ==
  /\ \A p \in Range(plans) : \A n \in Nodes(p.role) :
       /\ Probed(p, n) = Reachable(p, n)
       /\ Watched(p, n) = Live(p, n)
       /\ PublicIsServed(p.role) /\ Selects(Service(p).selector, PodLabels(s, p, n)) =>
            Service(p).ports = Reachable(p, n)
  /\ ExpectedTargets(plans) =
       SumFunction([i \in DOMAIN plans |-> plans[i].role.replicas * Cardinality(LiveEndpoints(plans[i]))])

\* The endpoint picker never picks a port that nothing serves, and knows every
\* server of the target role.
NoDeadEndpoint(s, plans) ==
  \A profile \in DOMAIN ProfileRoles(s) :
    LET p == PlanOf(plans, ProfileRoles(s)[profile])
    IN PublicIsServed(p.role) =>
         /\ Endpoints(s, plans, profile) \subseteq ReachableEndpoints(p)
         /\ p.role.name = s.target => ReachableEndpoints(p) \subseteq Endpoints(s, plans, profile)

\* ... and every server of the other roles.
EveryServerPicked(s, plans) ==
  \A profile \in DOMAIN ProfileRoles(s) :
    LET p == PlanOf(plans, ProfileRoles(s)[profile])
    IN PublicIsServed(p.role) => Endpoints(s, plans, profile) = ReachableEndpoints(p)

\* With the default bases nothing binds a port twice in a pod.
DefaultBases(r) == r.public = 8000 /\ r.backend \in {0, 8200}
Disjoint(sets) == \A a, b \in DOMAIN sets : a # b => sets[a] \cap sets[b] = {}
PortsDoNotCollide(p) ==
  DefaultBases(p.role) => \A n \in Nodes(p.role) : Disjoint(BoundPorts(p, n))
=============================================================================
