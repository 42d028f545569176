---------------------------- MODULE DeploymentSpec ----------------------------
(***************************************************************************)
(* A deployment spec from the parsed YAML to the plan of each role: the    *)
(* validators and defaults of manifesto/spec.py, the defaults a cluster    *)
(* profile adds, and the features of manifesto/features.py.                *)
(*                                                                         *)
(* A spec s is [topology, kind, frontend, target, epps, profiles,          *)
(* accelerator, roles]: kind, target and accelerator may be Unset,         *)
(* profiles is the set of scheduling profiles of the selected endpoint-    *)
(* picker config (empty for the built-in one).  A role r is a role of      *)
(* Layout with name, workload ("auto", "deployment", "leaderworkerset"),   *)
(* replicas, ep, proxy, dp_mode (Unset, "internal", "external"),           *)
(* api_servers, owned (arguments that Manifesto sets itself), connectors,  *)
(* env (names the user sets), gpus and cpus (per pod, or Derived).         *)
(* A cluster c is [platform, accelerators, default, imex, queue,           *)
(* placement, storage, slurm]; an accelerator is [alloc, gpus_per_node,    *)
(* placement] with alloc "extended", "dra" or "slurm".                     *)
(***************************************************************************)
EXTENDS Layout, Sequences

Unset == "unset"
Derived == -1
Roles(s) == {s.roles[i] : i \in DOMAIN s.roles}
RoleNames(s) == {r.name : r \in Roles(s)}
RoleNamed(s, name) == CHOOSE r \in Roles(s) : r.name = name
MapRoles(s, F(_)) == [s EXCEPT !.roles = [i \in DOMAIN @ |-> F(@[i])]]

\* RoleSpec.validate_role_configuration, and the uniqueness of role names.
RolesAreValid(s) ==
  /\ \A r \in Roles(s) : r.owned = {}
  /\ \A i, j \in DOMAIN s.roles : s.roles[i].name = s.roles[j].name => i = j
WithProxyBase(r) == [r EXCEPT !.backend = IF r.proxy /\ @ = 0 THEN 8200 ELSE @]

\* DeploymentSpec.apply_topology_defaults: routing, the decode role of a
\* prefill/decode spec, and the load balancing of the DP ranks.
Routed(s) == s.kind # "disabled"
WithRouting(s) ==
  [s EXCEPT !.kind = IF @ # Unset THEN @ ELSE IF s.topology = "pd" THEN "pd" ELSE "load_aware",
            !.target = IF @ = Unset THEN "decode" ELSE @]
\* Mutant: the proxy of decode takes the port of its vLLM.
WithDecodeProxy_SameBase(s) ==
  MapRoles(s, LAMBDA r : IF s.topology = "pd" /\ r.name = "decode" THEN [r EXCEPT !.proxy = TRUE] ELSE r)
Proxied(r) == [r EXCEPT !.proxy = TRUE, !.public = 8000, !.backend = 8200]
WithDecodeProxy(s) ==
  MapRoles(s, LAMBDA r : IF s.topology = "pd" /\ r.name = "decode" THEN Proxied(r) ELSE r)
DpMode(s, r) == IF DpEnabled(r) /\ Routed(s) THEN "external" ELSE "internal"
WithDpMode(s) == MapRoles(s, LAMBDA r : [r EXCEPT !.dp_mode = DpMode(s, r)])
Defaulted(s) ==
  WithDpMode(WithDecodeProxy(WithRouting(MapRoles(s, WithProxyBase))))

TopologyIsValid(s) ==
  LET d == Defaulted(s)
  IN /\ s.topology = "pd" => d.kind = "pd" /\ "decode" \in RoleNames(s)
     /\ \A i \in DOMAIN s.roles :
          /\ s.roles[i].dp_mode \in {Unset, d.roles[i].dp_mode}
          /\ d.roles[i].proxy => Routed(d)
          /\ d.roles[i].dp_mode = "external" => s.roles[i].api_servers <= 1

\* DeploymentSpec.apply_cluster_defaults and the checks of parallel_layout.
AcceleratorName(s, c) == IF s.accelerator = Unset THEN c.default ELSE s.accelerator
Accelerator(s, c) == c.accelerators[AcceleratorName(s, c)]
FitsCluster(s, c) ==
  /\ AcceleratorName(s, c) \in DOMAIN c.accelerators
  /\ \A r \in Roles(s) : Placeable(r) /\ GpusPerPod(r) <= Accelerator(s, c).gpus_per_node
Sized(s) ==
  MapRoles(s, LAMBDA r : [r EXCEPT !.gpus = IF @ = Derived THEN GpusPerPod(r) ELSE @,
                                   !.cpus = IF @ = Derived THEN 6 + 2 * GpusPerPod(r) ELSE @])

-----------------------------------------------------------------------------
Features == {"data-parallel", "pipeline-parallel", "expert-parallel", "prefill-decode", "llm-d"}
Implies(f) == IF f = "prefill-decode" THEN {"llm-d"} ELSE {}
ImpliedBy(E) == UNION {Implies(f) : f \in E}

\* validate_contracts: the implications are complete and have no cycle.
ContractsAreSound ==
  /\ ImpliedBy(Features) \subseteq Features
  /\ \A E \in SUBSET Features \ {{}} : \E f \in E : Implies(f) \cap E = {}
ASSUME ContractsAssumption == ContractsAreSound

Detected(s, r) ==
  {f \in Features :
     \/ f = "data-parallel" /\ DpEnabled(r)
     \/ f = "pipeline-parallel" /\ r.pp > 1
     \/ f = "expert-parallel" /\ r.ep
     \/ f = "prefill-decode" /\ s.topology = "pd"
     \/ f = "llm-d" /\ Routed(s)}
Enabled(s, r) ==
  CHOOSE E \in SUBSET Features :
    LET Closed(F) == Detected(s, r) \subseteq F /\ ImpliedBy(F) \subseteq F
    IN Closed(E) /\ \A F \in SUBSET Features : Closed(F) => E \subseteq F

ExternalDp(s, r) == {"data-parallel", "llm-d"} \subseteq Enabled(s, r)
FeaturesAreCompatible(s, r) ==
  /\ ExternalDp(s, r) => r.api_servers <= 1
  /\ ~(r.size > 1 /\ r.workload = "deployment")

WorkloadKind(r) ==
  CASE r.workload = "deployment" -> "Deployment"
    [] r.workload = "leaderworkerset" -> "LeaderWorkerSet"
    [] r.workload = "auto" -> IF r.size > 1 THEN "LeaderWorkerSet" ELSE "Deployment"
NixlHost(r) == "NixlConnector" \in r.connectors /\ "VLLM_NIXL_SIDE_CHANNEL_HOST" \notin r.env
PlatformClaims(c) == IF c.imex THEN <<<<"compute-domain-channel", <<"imex">>>>>> ELSE <<>>

\* resolve_role: the plan of a role.
Plan(s, c, r) ==
  LET ext == ExternalDp(s, r)
  IN [role |-> r, ext |-> ext, ports |-> Ports(r, ext), api_nodes |-> ApiNodes(r, ext),
      headless |-> HasHeadless(r, ext), kind |-> WorkloadKind(r), proxy |-> r.proxy,
      llm_d |-> "llm-d" \in Enabled(s, r), nixl_host |-> NixlHost(r), claims |-> PlatformClaims(c)]
=============================================================================
