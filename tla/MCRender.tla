-------------------------------- MODULE MCRender --------------------------------
\* Parsed specs, cluster profiles and workloads for the run of Render.
EXTENDS Render, TLC

Role(name, tp, pp, dp, size) ==
  [name |-> name, tp |-> tp, pp |-> pp, dp |-> dp, size |-> size, public |-> 8000, backend |-> 0,
   workload |-> "auto", replicas |-> 2, ep |-> FALSE, proxy |-> FALSE, dp_mode |-> Unset,
   api_servers |-> 1, owned |-> {}, connectors |-> {}, env |-> {}, gpus |-> Derived, cpus |-> Derived,
   mem |-> 3, scratch |-> FALSE]
Aggregated(r) ==
  [topology |-> "aggregated", kind |-> Unset, frontend |-> "standalone", target |-> Unset, epps |-> 1,
   profiles |-> {}, accelerator |-> Unset, roles |-> <<r>>, sidecars |-> FALSE, idle |-> FALSE]
Disaggregated(p, d) ==
  [Aggregated(p) EXCEPT !.topology = "pd",
     !.roles = <<[p EXCEPT !.connectors = {"NixlConnector"}], [d EXCEPT !.connectors = {"NixlConnector"}]>>]
Direct(s) == [s EXCEPT !.kind = "disabled"]

\* Every layout on up to 6 nodes, with and without llm-d.
Layouts(name) == {Role(name, tp, pp, dp, size) : tp \in {1, 2, 3, 4, 8}, pp \in {1, 2}, dp \in 0 .. 8, size \in 1 .. 6}
MCLayouts == {Aggregated(r) : r \in Layouts("decode")}
MCPairs == {Disaggregated(p, d) :
              p \in {Role("prefill", tp, 1, dp, size) : tp \in {1, 2}, dp \in {0, 4}, size \in {1, 2}},
              d \in {Role("decode", tp, 1, dp, size) : tp \in {1, 2, 4}, dp \in {0, 2, 8}, size \in {1, 2, 4}}}

\* One field at a time away from a role of two nodes, or from a spec of one.
Usual == Role("decode", 2, 1, 2, 2)
MCRoles ==
  {[Usual EXCEPT !.workload = k, !.size = n] : k \in {"deployment", "leaderworkerset"}, n \in {1, 2}}
    \cup {[Usual EXCEPT !.proxy = TRUE, !.backend = b] : b \in {0, 8300}}
    \cup {[Usual EXCEPT !.dp_mode = m] : m \in {"internal", "external"}}
    \cup {[Usual EXCEPT !.api_servers = 2], [Usual EXCEPT !.owned = {"revision"}],
          [Usual EXCEPT !.ep = TRUE, !.replicas = 1], [Usual EXCEPT !.scratch = TRUE],
          [Usual EXCEPT !.gpus = 0, !.cpus = 1], [Usual EXCEPT !.connectors = {"NixlConnector"}],
          [Usual EXCEPT !.backend = 8300], [Usual EXCEPT !.public = 9001], [Usual EXCEPT !.cpus = 0]}
MCOdd ==
  {Aggregated(r) : r \in MCRoles}
    \cup {[Aggregated(Usual) EXCEPT !.kind = k] : k \in {"pd", "load_aware"}}
    \cup {[Aggregated(Usual) EXCEPT !.target = "prefill"], [Aggregated(Usual) EXCEPT !.profiles = {"mine"}],
          [Aggregated(Usual) EXCEPT !.profiles = {"default", "mine"}], [Aggregated(Usual) EXCEPT !.epps = 2],
          [Aggregated(Usual) EXCEPT !.accelerator = "none"], [Aggregated(Usual) EXCEPT !.sidecars = TRUE],
          [Aggregated(Usual) EXCEPT !.roles = <<Usual, Usual>>],
          [Aggregated(Usual) EXCEPT !.roles = <<Usual, Role("spare", 1, 1, 0, 1)>>],
          [Disaggregated(Usual, Usual) EXCEPT !.roles = <<Usual>>],
          [Disaggregated(Role("prefill", 1, 1, 2, 2), Usual) EXCEPT !.kind = "load_aware"]}
WithDirect(S) == S \cup {Direct(s) : s \in S}

Volume == [shared |-> TRUE, nvme |-> FALSE, host |-> FALSE, logs |-> FALSE, logs_at |-> "/mnt/logs",
           user_root |-> FALSE, log_root |-> FALSE, cache_root |-> FALSE, hf_home |-> FALSE]
Kubernetes(alloc) ==
  [platform |-> "kubernetes", default |-> "h200", imex |-> FALSE, queue |-> None,
   accelerators |-> "h200" :> [alloc |-> alloc, gpus_per_node |-> 8, placement |-> "gpu" :> "h200"],
   placement |-> "tolerations" :> "all", storage |-> Volume]
SlurmCluster ==
  [Kubernetes("slurm") EXCEPT !.platform = "slurm"]
    @@ ("slurm" :> [exclusive |-> TRUE, port |-> 8080, router |-> [cpus |-> 4, mem |-> 5], proxy |-> [cpus |-> 1, mem |-> 1]])
MCStorages ==
  {[Kubernetes("extended") EXCEPT !.storage = v] :
     v \in {[Volume EXCEPT !.shared = s, !.nvme = n, !.host = h, !.logs = l, !.logs_at = at, !.log_root = r] :
              s, n, h, l, r \in BOOLEAN, at \in {"/mnt/logs", "/mnt/shared"}}}
Plain == {Kubernetes("extended"), [Kubernetes("dra") EXCEPT !.imex = TRUE, !.queue = "research"]}
Slurms == {SlurmCluster, [SlurmCluster EXCEPT !.slurm.port = 9002], [SlurmCluster EXCEPT !.slurm.exclusive = FALSE]}
MCRequests ==
  WithDirect(MCLayouts \cup MCPairs) \X {Kubernetes("extended"), SlurmCluster}
    \cup WithDirect(MCOdd) \X (Plain \cup Slurms)
    \cup {Aggregated(Role("decode", 1, 1, 0, size)) : size \in {1, 2}} \X MCStorages
MCClusters == Plain \cup {SlurmCluster}
MCNoSpec == [topology |-> "none", roles |-> <<>>]

\* Workloads: a trainer with a leader of its own, a Job and a server.
Template(labels, containers, restart) ==
  [labels |-> labels, containers |-> containers, restart |-> restart, placement |-> NoLabels,
   claims |-> <<>>, uses |-> <<>>, gpus |-> 0]
App == "app" :> "train"
Workload(backend, labels, containers, leader) ==
  [name |-> "train", backend |-> backend, policies |-> {backend},
   job |-> [NoJob EXCEPT !.rules = IF backend = "job" THEN "valid" ELSE "none"], labels |-> App @@ ("team" :> "research"),
   pod |-> Template(labels, containers, IF backend = "job" THEN "Never" ELSE "Always"), leader |-> leader,
   selector |-> NoLabels, count |-> 2, container |-> None, queue |-> None, priority |-> None,
   service |-> backend = "deployment", serves |-> NoLabels]
MCShapes ==
  {Workload(b, App, {"main"}, <<>>) : b \in {"job", "deployment", "leaderworkerset", "grove"}}
    \cup {Workload("leaderworkerset", App @@ (Queue :> "own"), {"main"}, <<Template(App @@ (Priority :> "high"), cs, "Always")>>) :
            cs \in {{"main"}, {"main", "log"}}}
    \cup {[Workload("job", App, {"main", "log"}, <<>>) EXCEPT !.container = c] : c \in {None, "main", "init"}}
    \cup {[Workload("job", App, {"main"}, <<>>) EXCEPT !.job.indexed = TRUE],
          [Workload("job", App, {"main"}, <<>>) EXCEPT !.pod.restart = "Always"],
          [Workload("job", App, {"main"}, <<>>) EXCEPT !.policies = {"deployment"}]}
MCOwners ==
  MCShapes \cup {[w EXCEPT !.count = 0] : w \in MCShapes}
    \cup {[w EXCEPT !.queue = "mine", !.priority = "low"] : w \in MCShapes}
    \cup {[w EXCEPT !.pod.claims = <<<<n, <<"own">>>>>>, !.pod.uses = <<n>>] : w \in MCShapes, n \in {"nic", "accelerator"}}
MCWorkloads ==
  {[workload |-> w, clustered |-> k, accelerator |-> a] : w \in MCOwners, k \in BOOLEAN, a \in {None, "b200"}}
=============================================================================
