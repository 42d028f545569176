------------------------------ MODULE SlurmRender ------------------------------
(***************************************************************************)
(* What manifesto/slurm.py and slurm_routing.py make of the plans of a     *)
(* deployment: the allocation of each role, the task of each node, and the *)
(* discovery file that the batch script writes for the endpoint picker.    *)
(*                                                                         *)
(* c.slurm is [exclusive, port, router, proxy]; router, proxy and the      *)
(* amount of a step are [cpus, mem].  A spec also has frontend, epps (the  *)
(* replicas of the picker), sidecars and idle (explicitly enabled), a role *)
(* mem and scratch (ephemeral storage or shm_size is set).                 *)
(***************************************************************************)
EXTENDS Serving

\* validate_slurm, but for the defaults it applies once more.
RoutedRoles(s) == IF s.topology = "pd" THEN {"prefill", "decode"} ELSE {s.target}
SlurmIsValid(s, c) ==
  /\ IF Routed(s)
     THEN /\ c.slurm.exclusive
          /\ s.kind = "pd" <=> s.topology = "pd"
          /\ s.frontend = "standalone" /\ s.epps = 1
          /\ RoleNames(s) = RoutedRoles(s)
     ELSE Len(s.roles) = 1 /\ s.profiles = {}
  /\ ~s.sidecars /\ ~s.idle
  /\ \A r \in Roles(s) :
       /\ r.workload = "auto" /\ ~r.scratch
       /\ ~Routed(s) => ~r.proxy /\ r.connectors = {}
       /\ s.topology = "pd" => r.connectors = {"NixlConnector"}
       /\ r.cpus > 0 /\ r.mem > 0

\* render_routed: the ports of the router on the first node of the first role.
RouterPorts(c) == {c.slurm.port, 9002, 9003, 9090, 19000, 19001}
RouterFits(c, plans) ==
  /\ Cardinality(RouterPorts(c)) = 6
  /\ RouterPorts(c) \cap (plans[1].ports.public \cup plans[1].ports.backend \cup {5555, 8100}) = {}
  /\ c.slurm.router.mem >= 2
CanBatch(s, c, plans) == Routed(s) => RouterFits(c, plans)

\* The nodes of a role are numbered over its replicas, as srun numbers tasks.
Tasks(r) == 0 .. (r.size * r.replicas - 1)
Worker(r, k) == k % r.size
\* Mutant: all replicas meet at the first node of the role.
Leader_First(r, k) == 0
Leader(r, k) == k - Worker(r, k)
HasProxy(p, k) == p.proxy /\ Worker(p.role, k) \in p.api_nodes
ProxyCount(p) == Cardinality(p.api_nodes) * p.role.replicas

\* batch_directives: what is reserved on each node of the role at position i.
Plus(a, b) == [cpus |-> a.cpus + b.cpus, mem |-> a.mem + b.mem]
Nothing == [cpus |-> 0, mem |-> 0]
TaskAmount(p) == [cpus |-> p.role.cpus, mem |-> p.role.mem]
\* Mutant: nothing is reserved for the routing proxies.
Reserved_NoProxy(c, plans, i) == Plus(TaskAmount(plans[i]), IF i = 1 THEN c.slurm.router ELSE Nothing)
Reserved(c, plans, i) ==
  Plus(TaskAmount(plans[i]),
       Plus(IF plans[i].proxy THEN c.slurm.proxy ELSE Nothing, IF i = 1 THEN c.slurm.router ELSE Nothing))

\* The steps that run on node k of the role at position i: vLLM, its proxy,
\* and on the very first node the endpoint picker and Envoy.
Half(a) == [cpus |-> a.cpus \div 2, mem |-> a.mem \div 2]
StepAmount(c, plans, i, k) ==
  Plus(TaskAmount(plans[i]),
       Plus(IF HasProxy(plans[i], k) THEN c.slurm.proxy ELSE Nothing,
            IF i = 1 /\ k = 0 THEN Plus(Half(c.slurm.router), Half(c.slurm.router)) ELSE Nothing))

\* _prepare_config: node k is worker k mod size of replica k div size.
Discovered(p) ==
  UNION {{k} \X (IF p.proxy THEN p.ports.public ELSE p.ports.backend) :
           k \in {j \in Tasks(p.role) : Worker(p.role, j) \in p.api_nodes}}
Serving(p) ==
  UNION {{k} \X (IF p.proxy /\ ~HasProxy(p, k) THEN {} ELSE Reachable(p, Worker(p.role, k))) : k \in Tasks(p.role)}

-----------------------------------------------------------------------------
\* The discovery file lists exactly the servers that the steps start, and the
\* proxies get as many nodes as there are hosts to run on.
DiscoveryIsExact(plans) ==
  \A p \in Range(plans) :
    /\ Discovered(p) = Serving(p)
    /\ p.proxy => ProxyCount(p) = Cardinality({k \in Tasks(p.role) : HasProxy(p, k)})

\* The rendezvous host of a task is the first node of its own replica, and
\* answers there unless the ranks are balanced from outside.
LeadersLead(plans) ==
  \A p \in Range(plans) : \A k \in Tasks(p.role) :
    /\ Leader(p.role, k) \div p.role.size = k \div p.role.size
    /\ Live(p, Worker(p.role, Leader(p.role, k))) # {}

\* On no node do the steps need more than was reserved, and nothing there
\* binds a port of the router.
StepsFit(s, c, plans) ==
  \A i \in DOMAIN plans : \A k \in Tasks(plans[i].role) :
    /\ StepAmount(c, plans, i, k).cpus <= Reserved(c, plans, i).cpus
    /\ StepAmount(c, plans, i, k).mem <= Reserved(c, plans, i).mem
    /\ Routed(s) /\ i = 1 /\ k = 0 =>
         \A ports \in Range(BoundPorts(plans[i], 0)) : ports \cap RouterPorts(c) = {}
=============================================================================
