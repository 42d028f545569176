-------------------------------- MODULE Layout --------------------------------
(***************************************************************************)
(* Where the DP ranks and the TP/PP workers of a role sit, which nodes     *)
(* serve HTTP, and what the launch script tells the vLLM of each node      *)
(* (manifesto/parallelism.py, dp_ports.py, the API nodes of resolve.py and *)
(* the rank flags of launch.py).                                           *)
(*                                                                         *)
(* A role r has tp, pp, dp (0 for "not set" and false), size (nodes of one *)
(* serving replica), public and backend (port bases, backend 0 for "not    *)
(* set"); ext says whether DP ranks are load-balanced from outside.        *)
(* Everything is an operator: the module has no state.                     *)
(***************************************************************************)
EXTENDS Integers

DpSize(r) == IF r.dp = 0 THEN 1 ELSE r.dp
DpEnabled(r) == DpSize(r) > 1

RankGpus(r) == r.tp * r.pp
WorldGpus(r) == RankGpus(r) * DpSize(r)
GpusPerPod(r) == WorldGpus(r) \div r.size
DividesNodes(r) == WorldGpus(r) % r.size = 0

AtLeastOne(n) == IF n > 1 THEN n ELSE 1
NodesPerRank(r) == AtLeastOne(RankGpus(r) \div GpusPerPod(r))
DpLocal(r) == AtLeastOne(DpSize(r) \div r.size)

\* Mutant: equal GPU totals are enough.
Placeable_TotalsOnly(r) == DividesNodes(r)
\* Each node holds whole ranks, or each rank spans whole nodes.
Placeable(r) ==
  /\ DividesNodes(r)
  /\ RankGpus(r) > GpusPerPod(r) => RankGpus(r) % GpusPerPod(r) = 0
  /\ GpusPerPod(r) > RankGpus(r) => GpusPerPod(r) % RankGpus(r) = 0

Nodes(r) == 0 .. (r.size - 1)
ApiNodes(r, ext) == IF ext THEN {n \in Nodes(r) : n % NodesPerRank(r) = 0} ELSE {0}
HasHeadless(r, ext) == ApiNodes(r, ext) # Nodes(r)

PortRange(base, count) == base .. (base + count - 1)
RankCount(r, ext) == IF ext THEN DpLocal(r) ELSE 1
Ports(r, ext) ==
  LET backend == IF r.backend = 0 THEN r.public ELSE r.backend
  IN [public |-> PortRange(r.public, RankCount(r, ext)),
      backend |-> PortRange(backend, RankCount(r, ext)), first |-> backend]

-----------------------------------------------------------------------------
\* The flags of the vLLM process of node n: --data-parallel-start-rank or
\* --data-parallel-rank where a rank fits on a node (otherwise vLLM infers it
\* from --node-rank), --headless, and one server per port or per process.
StartRank(r, n) == IF r.size > 1 THEN n * DpLocal(r) ELSE 0
MultiPort(r, ext) == RankCount(r, ext) > 1
\* The script sets START_RANK in one place and reads it in three.
SetsStartRank(r) == DpEnabled(r) /\ NodesPerRank(r) = 1
ReadsStartRank(r, ext) ==
  \/ HasHeadless(r, ext) /\ NodesPerRank(r) = 1
  \/ DpEnabled(r) /\ MultiPort(r, ext)
  \/ DpEnabled(r) /\ ext /\ NodesPerRank(r) = 1
Launch(r, ext, n) ==
  [start_rank |-> IF SetsStartRank(r) THEN StartRank(r, n) ELSE -1,
   local |-> IF DpEnabled(r) THEN DpLocal(r) ELSE 1,
   node_rank |-> IF NodesPerRank(r) > 1 THEN n ELSE -1,
   headless |-> HasHeadless(r, ext) /\ n \notin ApiNodes(r, ext),
   multi_port |-> MultiPort(r, ext),
   supervisor |-> MultiPort(r, ext),
   rpc |-> DpEnabled(r),
   port |-> Ports(r, ext).first]

\* What vLLM makes of these flags: the DP ranks with workers on the node and
\* the ports on which it serves HTTP.
RanksOf(r, flags) ==
  LET first == IF flags.start_rank >= 0 THEN flags.start_rank
               ELSE IF flags.node_rank >= 0 THEN flags.node_rank \div NodesPerRank(r)
               ELSE 0
  IN first .. (first + flags.local - 1)
ServesOn(flags) ==
  IF flags.headless THEN {}
  ELSE IF flags.multi_port THEN PortRange(flags.port, flags.local)
  ELSE {flags.port}

\* The nodes of rank d, as launched.
HomeNodes(r, d) == {n \in Nodes(r) : d \in RanksOf(r, Launch(r, FALSE, n))}

-----------------------------------------------------------------------------
\* The ranks fill the GPUs of the nodes exactly: the launch scripts name no
\* rank that does not exist, every rank sits on nodes_per_dp_rank consecutive
\* nodes, and the ranks of a node use its GPUs, no more and no fewer.
FillsNodes(r) ==
  /\ DpLocal(r) * RankGpus(r) = NodesPerRank(r) * GpusPerPod(r)
  /\ \A n \in Nodes(r) : RanksOf(r, Launch(r, FALSE, n)) \subseteq 0 .. (DpSize(r) - 1)
  /\ \A d \in 0 .. (DpSize(r) - 1) : \E first \in Nodes(r) :
       HomeNodes(r, d) = first .. (first + NodesPerRank(r) - 1)

\* With external load balancing every rank has workers on exactly one node
\* that serves HTTP: no rank is unreachable and none answers twice.
ServedOnce(r) ==
  \A d \in 0 .. (DpSize(r) - 1) : \E n \in Nodes(r) :
    HomeNodes(r, d) \cap ApiNodes(r, TRUE) = {n}
=============================================================================
