------------------------------ MODULE RenderProofs ------------------------------
(***************************************************************************)
(* Whatever the numbers of GPUs, ranks and nodes of a spec: once a role    *)
(* has a plan, its DP ranks fill its nodes and each is served exactly once;*)
(* what addresses the servers names those that the scripts start; no two   *)
(* listeners of a pod share a port; the Slurm steps fit their reservation; *)
(* paths are on volumes, and what lowering adds fits the workload.         *)
(***************************************************************************)
EXTENDS Render, FiniteSetTheorems, TLAPS

\* What the checks of FitCluster leave: a role whose layout is placeable.
Sound(r) == ParsedRole(r) /\ Placeable(r)

LEMMA Quotient == ASSUME NEW a \in Nat, NEW b \in Positive, NEW k \in Nat, a = k * b
                  PROVE  a \div b = k /\ a % b = 0
  BY DEF Positive
LEMMA Exact == ASSUME NEW a \in Nat, NEW b \in Positive, a % b = 0
               PROVE  a = (a \div b) * b /\ a \div b \in Nat
  <1>1. b \in Nat /\ b > 0
    BY DEF Positive
  <1>2. a = b * (a \div b) /\ a \div b \in Nat
    BY <1>1
  <1>3. b * (a \div b) = (a \div b) * b
    BY <1>1, <1>2
  <1> QED BY <1>2, <1>3
LEMMA Block == ASSUME NEW a \in Nat, NEW b \in Positive, NEW k \in Nat, b * k <= a, a < b * k + b
               PROVE  a \div b = k
  BY DEF Positive
LEMMA DivMod == ASSUME NEW a \in Nat, NEW b \in Positive
                PROVE  a = b * (a \div b) + (a % b) /\ a % b \in 0 .. (b - 1)
  <1>1. a = b * (a \div b) + (a % b)
    BY DEF Positive
  <1>2. a % b \in 0 .. (b - 1)
    BY DEF Positive
  <1> QED BY <1>1, <1>2
LEMMA InBlock == ASSUME NEW a \in Nat, NEW b \in Positive
                 PROVE  a \div b \in Nat /\ b * (a \div b) <= a /\ a < b * (a \div b) + b
  BY DEF Positive

\* The two layouts that pass: k whole ranks on every node, or a rank on m
\* whole nodes.
WholeRanks(r, k) ==
  /\ GpusPerPod(r) = k * RankGpus(r) /\ DpSize(r) = k * r.size
  /\ NodesPerRank(r) = 1 /\ DpLocal(r) = k
WholeNodes(r, m) ==
  /\ RankGpus(r) = m * GpusPerPod(r) /\ r.size = m * DpSize(r)
  /\ NodesPerRank(r) = m /\ DpLocal(r) = 1

LEMMA Sizes == ASSUME NEW r, ParsedRole(r)
               PROVE  r.size \in Positive /\ RankGpus(r) \in Positive /\ DpSize(r) \in Positive
  <1>1. r.tp \in Nat /\ r.tp > 0 /\ r.pp \in Nat /\ r.pp > 0
    BY DEF ParsedRole, Positive
  <1>2. r.tp * r.pp \in Nat /\ r.tp * r.pp > 0
    BY <1>1
  <1>3. r.size \in Positive /\ DpSize(r) \in Positive
    BY DEF ParsedRole, Positive, DpSize
  <1> QED BY <1>2, <1>3 DEF RankGpus, Positive

LEMMA Arithmetic ==
  ASSUME NEW R \in Positive, NEW D \in Positive, NEW S \in Positive, NEW g \in Nat, R * D = g * S
  PROVE  /\ g > 0
         /\ \A k \in Nat : g = k * R => D = k * S /\ k > 0
         /\ \A m \in Nat : R = m * g => S = m * D /\ m > 0
  <1>1. g > 0
    BY DEF Positive
  <1>2. ASSUME NEW k \in Nat, g = k * R PROVE D = k * S /\ k > 0
    <2>1. R * D = R * (k * S)
      BY <1>2 DEF Positive
    <2> QED BY <2>1, <1>1, <1>2 DEF Positive
  <1>3. ASSUME NEW m \in Nat, R = m * g PROVE S = m * D /\ m > 0
    <2>1. g * S = g * (m * D)
      BY <1>3 DEF Positive
    <2> QED BY <2>1, <1>1, <1>3 DEF Positive
  <1> QED BY <1>1, <1>2, <1>3

\* A role that parallel_layout accepts has one of the two layouts.
LEMMA TwoLayouts == ASSUME NEW r, Sound(r)
                    PROVE  (\E k \in Positive : WholeRanks(r, k)) \/ (\E m \in Positive : m > 1 /\ WholeNodes(r, m))
  <1> DEFINE R == RankGpus(r) D == DpSize(r) S == r.size g == GpusPerPod(r)
  <1>1. R \in Positive /\ D \in Positive /\ S \in Positive
    BY Sizes DEF Sound
  <1>2. g \in Nat /\ R * D = g * S
    <2>1. R * D \in Nat
      BY <1>1 DEF Positive
    <2>2. (R * D) % S = 0
      BY DEF Sound, Placeable, DividesNodes, WorldGpus
    <2>3. g = (R * D) \div S
      BY DEF GpusPerPod, WorldGpus
    <2> HIDE DEF R, D, S, g
    <2> QED BY <1>1, <2>1, <2>2, <2>3, Exact
  <1>3. (R > g => R % g = 0) /\ (g > R => g % R = 0)
    BY DEF Sound, Placeable
  <1>4. NodesPerRank(r) = AtLeastOne(R \div g) /\ DpLocal(r) = AtLeastOne(D \div S)
    BY DEF NodesPerRank, DpLocal
  <1> HIDE DEF R, D, S, g
  <1>5. g \in Positive
    BY <1>1, <1>2, Arithmetic DEF Positive
  <1>6. CASE R <= g
    <2>1. PICK k \in Nat : g = k * R
      <3>1. CASE g = R
        BY <3>1, <1>1 DEF Positive
      <3>2. CASE g > R
        BY <3>2, <1>1, <1>2, <1>3, Exact
      <3> QED BY <3>1, <3>2, <1>1, <1>2, <1>6 DEF Positive
    <2>2. D = k * S /\ k > 0
      BY <1>1, <1>2, <2>1, Arithmetic
    <2>3. D \div S = k
      BY <1>1, <2>2, Quotient DEF Positive
    <2>4. AtLeastOne(D \div S) = k
      BY <2>2, <2>3 DEF AtLeastOne
    <2>5. R \div g \in Nat /\ R \div g <= 1
      <3>1. R \div g \in Nat /\ g * (R \div g) <= R
        BY <1>1, <1>5, InBlock DEF Positive
      <3> DEFINE q == R \div g
      <3> HIDE DEF q
      <3>2. q \in Nat /\ g * q <= g
        BY <3>1, <1>1, <1>5, <1>6 DEF q, Positive
      <3>3. q <= 1
        BY <3>2, <1>5 DEF Positive
      <3> QED BY <3>2, <3>3 DEF q
    <2>6. AtLeastOne(R \div g) = 1
      BY <2>5 DEF AtLeastOne
    <2>7. WholeRanks(r, k)
      BY <1>4, <2>1, <2>2, <2>4, <2>6 DEF WholeRanks, R, D, S, g
    <2> QED BY <2>2, <2>7 DEF Positive
  <1>7. CASE R > g
    <2>1. PICK m \in Nat : R = m * g
      BY <1>1, <1>3, <1>5, <1>7, Exact DEF Positive
    <2>2. S = m * D /\ m > 0
      BY <1>1, <1>2, <2>1, Arithmetic
    <2>3. m > 1
      BY <1>1, <1>5, <1>7, <2>1, <2>2 DEF Positive
    <2>4. AtLeastOne(R \div g) = m
      BY <1>1, <1>5, <2>1, <2>3, Quotient DEF AtLeastOne, Positive
    <2>5. D < S
      BY <1>1, <2>2, <2>3 DEF Positive
    <2>6. AtLeastOne(D \div S) = 1
      <3>1. D \div S = 0
        BY <1>1, <2>5, Block DEF Positive
      <3> QED BY <3>1 DEF AtLeastOne
    <2>7. WholeNodes(r, m)
      BY <1>4, <2>1, <2>2, <2>4, <2>6 DEF WholeNodes, R, D, S, g
    <2> QED BY <2>3, <2>7 DEF Positive
  <1> QED BY <1>1, <1>5, <1>6, <1>7 DEF Positive

\* What the launch scripts say of node n.
Ranks(r, n) == RanksOf(r, Launch(r, FALSE, n))

LEMMA Named == ASSUME NEW r, NEW f, NEW a \in Nat, NEW b \in Nat, f.start_rank = a, f.local = b
               PROVE  RanksOf(r, f) = a .. (a + b - 1)
  BY DEF RanksOf
LEMMA Inferred == ASSUME NEW r, NEW f, NEW a \in Int, f.start_rank = -1, f.node_rank = a, f.local = 1,
                         NEW q \in Nat, q = IF a >= 0 THEN a \div NodesPerRank(r) ELSE 0
                  PROVE  RanksOf(r, f) = q .. q
  BY DEF RanksOf

LEMMA RanksOfWhole == ASSUME NEW r, Sound(r), NEW k \in Positive, WholeRanks(r, k), NEW n \in Nodes(r)
                      PROVE  Ranks(r, n) = (n * k) .. (n * k + k - 1)
  <1> DEFINE f == Launch(r, FALSE, n)
  <1>1. r.size \in Nat /\ r.size > 0 /\ DpSize(r) = k * r.size /\ n \in Nat /\ n < r.size /\ k \in Nat /\ k > 0
    BY Sizes DEF Sound, WholeRanks, Nodes, Positive
  <1>2. CASE DpSize(r) > 1
    <2>1. f.start_rank = StartRank(r, n) /\ f.local = k
      BY <1>2 DEF Launch, SetsStartRank, DpEnabled, WholeRanks
    <2>2. StartRank(r, n) = n * k
      BY <1>1 DEF StartRank, WholeRanks
    <2>3. n * k \in Nat
      BY <1>1
    <2>4. Ranks(r, n) = RanksOf(r, f)
      BY DEF Ranks
    <2> HIDE DEF f
    <2> QED BY <1>1, <2>1, <2>2, <2>3, <2>4, Named
  <1>3. CASE DpSize(r) = 1
    <2>1. f.start_rank = -1 /\ f.local = 1 /\ f.node_rank = -1
      BY <1>3 DEF Launch, SetsStartRank, DpEnabled, WholeRanks
    <2>2. Ranks(r, n) = 0 .. 0
      <3>1. Ranks(r, n) = RanksOf(r, f)
        BY DEF Ranks
      <3> HIDE DEF f
      <3> QED BY <2>1, <3>1, Inferred
    <2>3. k = 1 /\ n = 0
      BY <1>1, <1>3
    <2> QED BY <2>2, <2>3
  <1>4. DpSize(r) \in Nat /\ DpSize(r) > 0
    BY Sizes DEF Sound, Positive
  <1> QED BY <1>2, <1>3, <1>4

LEMMA RanksOfSpan == ASSUME NEW r, Sound(r), NEW m \in Positive, m > 1, WholeNodes(r, m), NEW n \in Nodes(r)
                     PROVE  n \div m \in Nat /\ Ranks(r, n) = (n \div m) .. (n \div m)
  <1> DEFINE f == Launch(r, FALSE, n)
  <1>1. n \in Nat /\ m \in Nat /\ m > 0
    BY Sizes DEF Sound, Nodes, Positive
  <1>2. n \div m \in Nat
    BY <1>1
  <1>3. f.start_rank = -1 /\ f.local = 1 /\ f.node_rank = n
    BY <1>1 DEF Launch, SetsStartRank, WholeNodes, DpEnabled
  <1>4. Ranks(r, n) = RanksOf(r, f) /\ NodesPerRank(r) = m
    BY DEF Ranks, WholeNodes
  <1> HIDE DEF f
  <1> DEFINE q == n \div m
  <1>5. q \in Nat /\ n \in Int /\ q = IF n >= 0 THEN n \div NodesPerRank(r) ELSE 0
    BY <1>1, <1>2, <1>4
  <1> HIDE DEF q
  <1>6. RanksOf(r, f) = q .. q
    BY <1>3, <1>5, Inferred
  <1> QED BY <1>2, <1>4, <1>6 DEF q

LEMMA HomeOfWhole == ASSUME NEW r, Sound(r), NEW k \in Positive, WholeRanks(r, k), NEW d \in 0 .. (DpSize(r) - 1)
                     PROVE  d \div k \in Nodes(r) /\ HomeNodes(r, d) = {d \div k}
  <1>1. r.size \in Nat /\ r.size > 0 /\ DpSize(r) = k * r.size /\ k \in Nat /\ k > 0
    BY Sizes DEF Sound, WholeRanks, Positive
  <1>2. d \in Nat /\ d < k * r.size
    BY <1>1
  <1> DEFINE q == d \div k
  <1>3. q \in Nat /\ k * q <= d /\ d < k * q + k
    BY <1>1, <1>2, InBlock DEF Positive
  <1> HIDE DEF q
  <1>4. q < r.size
    BY <1>1, <1>2, <1>3
  <1>5. ASSUME NEW n \in Nat PROVE d \in (n * k) .. (n * k + k - 1) <=> n = q
    <2>1. n = q => d \in (n * k) .. (n * k + k - 1)
      BY <1>1, <1>2, <1>3
    <2>2. n * k \in Nat
      BY <1>1
    <2>3. d \in (n * k) .. (n * k + k - 1) => n * k <= d /\ d < n * k + k
      BY <1>1, <1>2, <2>2
    <2>4. n * k <= d /\ d < n * k + k => n = q
      <3>1. k * n = n * k
        BY <1>1
      <3>2. k * n <= d /\ d < k * n + k => d \div k = n
        BY <1>1, <1>2, Block DEF Positive
      <3> QED BY <3>1, <3>2 DEF q
    <2> QED BY <2>1, <2>3, <2>4
  <1>6. q \in Nodes(r) /\ \A n \in Nodes(r) : n \in Nat
    BY <1>1, <1>3, <1>4 DEF Nodes
  <1>7. \A n \in Nodes(r) : d \in Ranks(r, n) <=> n = q
    BY <1>5, <1>6, RanksOfWhole
  <1>8. HomeNodes(r, d) = {n \in Nodes(r) : d \in Ranks(r, n)}
    BY DEF HomeNodes, Ranks
  <1> QED BY <1>6, <1>7, <1>8 DEF q

LEMMA HomeOfSpan == ASSUME NEW r, Sound(r), NEW m \in Positive, m > 1, WholeNodes(r, m), NEW d \in 0 .. (DpSize(r) - 1)
                    PROVE  /\ m * d \in Nodes(r)
                           /\ HomeNodes(r, d) = (m * d) .. (m * d + m - 1)
  <1>1. r.size \in Nat /\ r.size = m * DpSize(r) /\ m \in Nat /\ m > 0 /\ DpSize(r) \in Nat
    BY Sizes DEF Sound, WholeNodes, Positive
  <1>2. d \in Nat /\ d + 1 <= DpSize(r)
    BY <1>1
  <1>3. m * d \in Nat /\ m * d + m <= r.size
    <2>1. m * (d + 1) <= m * DpSize(r)
      BY <1>1, <1>2
    <2>2. m * (d + 1) = m * d + m
      BY <1>1, <1>2
    <2> QED BY <1>1, <1>2, <2>1, <2>2
  <1>4. ASSUME NEW n \in Nat PROVE n \div m = d <=> n \in (m * d) .. (m * d + m - 1)
    <2>1. n \div m = d => m * d <= n /\ n < m * d + m
      BY <1>1, InBlock DEF Positive
    <2>2. m * d <= n /\ n < m * d + m => n \div m = d
      BY <1>1, <1>2, Block DEF Positive
    <2>3. (m * d <= n /\ n < m * d + m) <=> n \in (m * d) .. (m * d + m - 1)
      BY <1>1, <1>3
    <2> QED BY <2>1, <2>2, <2>3
  <1>5. \A n \in Nodes(r) : d \in Ranks(r, n) <=> n \div m = d
    BY <1>2, RanksOfSpan
  <1>6. \A n \in Nodes(r) : n \in Nat
    BY <1>1 DEF Nodes
  <1>7. \A n \in (m * d) .. (m * d + m - 1) : n \in Nodes(r)
    BY <1>1, <1>3 DEF Nodes
  <1>8. HomeNodes(r, d) = {n \in Nodes(r) : d \in Ranks(r, n)}
    BY DEF HomeNodes, Ranks
  <1>9. m * d \in Nodes(r)
    BY <1>1, <1>3 DEF Nodes
  <1>10. \A n : n \in HomeNodes(r, d) <=> n \in (m * d) .. (m * d + m - 1)
    BY <1>4, <1>5, <1>6, <1>7, <1>8
  <1> QED BY <1>9, <1>10

LEMMA Filled == ASSUME NEW r, Sound(r) PROVE FillsNodes(r)
  <1>1. r.size \in Nat /\ DpSize(r) \in Nat /\ DpSize(r) > 0
    BY Sizes DEF Sound, Positive
  <1>2. CASE \E k \in Positive : WholeRanks(r, k)
    <2>1. PICK k \in Positive : WholeRanks(r, k)
      BY <1>2
    <2>2. k \in Nat /\ k > 0 /\ RankGpus(r) \in Nat /\ DpSize(r) = k * r.size /\ NodesPerRank(r) = 1
      BY <2>1, Sizes DEF Sound, WholeRanks, Positive
    <2>3. DpLocal(r) * RankGpus(r) = NodesPerRank(r) * GpusPerPod(r)
      BY <2>1, <2>2 DEF WholeRanks
    <2>4. ASSUME NEW n \in Nodes(r) PROVE Ranks(r, n) \subseteq 0 .. (DpSize(r) - 1)
      <3>1. n \in Nat /\ n + 1 <= r.size
        BY <1>1 DEF Nodes
      <3>2. n * k \in Nat /\ n * k + k <= r.size * k
        <4>1. (n + 1) * k <= r.size * k
          BY <1>1, <2>2, <3>1
        <4> QED BY <2>2, <3>1, <4>1
      <3>3. r.size * k = DpSize(r)
        BY <1>1, <2>2
      <3>4. Ranks(r, n) = (n * k) .. (n * k + k - 1)
        BY <2>1, RanksOfWhole
      <3> QED BY <1>1, <2>2, <3>2, <3>3, <3>4
    <2>5. ASSUME NEW d \in 0 .. (DpSize(r) - 1)
          PROVE \E first \in Nodes(r) : HomeNodes(r, d) = first .. (first + NodesPerRank(r) - 1)
      <3>1. d \div k \in Nodes(r) /\ HomeNodes(r, d) = {d \div k}
        BY <2>1, HomeOfWhole
      <3> DEFINE q == d \div k
      <3> HIDE DEF q
      <3>2. q \in Nodes(r) /\ HomeNodes(r, d) = q .. (q + NodesPerRank(r) - 1)
        BY <1>1, <2>2, <3>1 DEF q, Nodes
      <3> QED BY <3>2
    <2> QED BY <2>3, <2>4, <2>5 DEF FillsNodes, Ranks
  <1>3. CASE \E m \in Positive : m > 1 /\ WholeNodes(r, m)
    <2>1. PICK m \in Positive : m > 1 /\ WholeNodes(r, m)
      BY <1>3
    <2>2. m \in Nat /\ NodesPerRank(r) = m /\ r.size = m * DpSize(r)
      BY <2>1 DEF WholeNodes, Positive
    <2>3. DpLocal(r) * RankGpus(r) = NodesPerRank(r) * GpusPerPod(r)
      <3>1. RankGpus(r) \in Nat
        BY Sizes DEF Sound, Positive
      <3> QED BY <2>1, <3>1 DEF WholeNodes
    <2>4. ASSUME NEW n \in Nodes(r) PROVE Ranks(r, n) \subseteq 0 .. (DpSize(r) - 1)
      <3>1. n \in Nat /\ n < m * DpSize(r)
        BY <1>1, <2>2 DEF Nodes
      <3> DEFINE q == n \div m
      <3>2. q \in Nat /\ m * q <= n
        BY <2>1, <3>1, InBlock
      <3>3. Ranks(r, n) = q .. q
        BY <2>1, RanksOfSpan
      <3> HIDE DEF q
      <3>4. q < DpSize(r)
        BY <1>1, <2>2, <3>1, <3>2
      <3> QED BY <1>1, <3>2, <3>3, <3>4
    <2>5. ASSUME NEW d \in 0 .. (DpSize(r) - 1)
          PROVE \E first \in Nodes(r) : HomeNodes(r, d) = first .. (first + NodesPerRank(r) - 1)
      <3>1. m * d \in Nodes(r) /\ HomeNodes(r, d) = (m * d) .. (m * d + m - 1)
        BY <2>1, HomeOfSpan
      <3> QED BY <2>2, <3>1
    <2> QED BY <2>3, <2>4, <2>5 DEF FillsNodes, Ranks
  <1> QED BY <1>2, <1>3, TwoLayouts

LEMMA Served == ASSUME NEW r, Sound(r) PROVE ServedOnce(r)
  <1>1. r.size \in Nat /\ DpSize(r) \in Nat /\ DpSize(r) > 0
    BY Sizes DEF Sound, Positive
  <1> SUFFICES ASSUME NEW d \in 0 .. (DpSize(r) - 1)
               PROVE  \E n \in Nodes(r) : HomeNodes(r, d) \cap ApiNodes(r, TRUE) = {n}
    BY DEF ServedOnce
  <1>2. ApiNodes(r, TRUE) = {n \in Nodes(r) : n % NodesPerRank(r) = 0}
    BY DEF ApiNodes
  <1>3. CASE \E k \in Positive : WholeRanks(r, k)
    <2>1. PICK k \in Positive : WholeRanks(r, k)
      BY <1>3
    <2>2. d \div k \in Nodes(r) /\ HomeNodes(r, d) = {d \div k}
      BY <2>1, HomeOfWhole
    <2>3. \A n \in Nodes(r) : n % NodesPerRank(r) = 0
      BY <1>1, <2>1 DEF WholeRanks, Nodes
    <2> QED BY <1>2, <2>2, <2>3
  <1>4. CASE \E m \in Positive : m > 1 /\ WholeNodes(r, m)
    <2>1. PICK m \in Positive : m > 1 /\ WholeNodes(r, m)
      BY <1>4
    <2>2. m * d \in Nodes(r) /\ HomeNodes(r, d) = (m * d) .. (m * d + m - 1)
      BY <2>1, HomeOfSpan
    <2>3. m \in Nat /\ m > 1 /\ NodesPerRank(r) = m /\ d \in Nat /\ m * d \in Nat
      BY <1>1, <2>1 DEF WholeNodes, Positive
    <2>4. ASSUME NEW n \in (m * d) .. (m * d + m - 1) PROVE n % m = 0 <=> n = m * d
      <3>1. n \in Nat /\ m * d <= n /\ n < m * d + m
        BY <2>3
      <3>2. n % m = 0 => n = m * d
        <4>1. n \div m = d
          BY <2>1, <2>3, <3>1, Block
        <4>2. n % m = 0 => n = (n \div m) * m
          BY <2>1, <3>1, Exact
        <4> QED BY <2>3, <4>1, <4>2
      <3>3. n = m * d => n % m = 0
        BY <2>1, <2>3, Quotient
      <3> QED BY <3>2, <3>3
    <2>5. m * d \in (m * d) .. (m * d + m - 1)
      BY <2>3
    <2>6. \A n : n \in HomeNodes(r, d) \cap ApiNodes(r, TRUE) <=> n = m * d
      BY <1>2, <2>2, <2>3, <2>4, <2>5
    <2> QED BY <2>2, <2>6
  <1> QED BY <1>3, <1>4, TwoLayouts

\* No script reads START_RANK unset ("set -u" would end the pod).
LEMMA StartRankIsSet == ASSUME NEW r, Sound(r), NEW ext PROVE ReadsStartRank(r, ext) => SetsStartRank(r)
  <1>1. r.size \in Nat /\ r.size > 0 /\ DpSize(r) \in Nat /\ DpSize(r) > 0
    BY Sizes DEF Sound, Positive
  <1>2. ASSUME MultiPort(r, ext) PROVE NodesPerRank(r) = 1
    <2>1. DpLocal(r) > 1
      BY <1>2 DEF MultiPort, RankCount
    <2>2. ~ \E m \in Positive : m > 1 /\ WholeNodes(r, m)
      BY <2>1 DEF WholeNodes
    <2> QED BY <2>2, TwoLayouts DEF WholeRanks
  <1>3. ASSUME HasHeadless(r, ext), NodesPerRank(r) = 1 PROVE DpEnabled(r)
    <2>1. ~ ext
      <3>1. \A n \in Nodes(r) : n % 1 = 0
        BY <1>1 DEF Nodes
      <3> QED BY <1>3, <3>1 DEF HasHeadless, ApiNodes
    <2>2. r.size > 1
      <3>1. {0} # Nodes(r)
        BY <1>3, <2>1 DEF HasHeadless, ApiNodes
      <3>2. r.size = 1 => Nodes(r) = {0}
        BY DEF Nodes
      <3> QED BY <1>1, <3>1, <3>2
    <2>3. PICK k \in Positive : WholeRanks(r, k)
      BY <1>3, TwoLayouts DEF WholeNodes
    <2>4. k \in Nat /\ k > 0 /\ DpSize(r) = k * r.size
      BY <2>3 DEF WholeRanks, Positive
    <2>5. DpSize(r) > 1
      BY <1>1, <2>2, <2>4
    <2> QED BY <2>5 DEF DpEnabled
  <1> QED BY <1>2, <1>3 DEF ReadsStartRank, SetsStartRank

-----------------------------------------------------------------------------
\* The defaults of a spec leave the layout of every role alone.
SameLayout(r, q) ==
  DOMAIN q = DOMAIN r /\ q.tp = r.tp /\ q.pp = r.pp /\ q.dp = r.dp /\ q.size = r.size
SameLayouts(s, t) ==
  /\ DOMAIN t = DOMAIN s /\ "roles" \in DOMAIN t /\ t.roles \in Seq(Roles(t)) /\ DOMAIN t.roles = DOMAIN s.roles
  /\ \A i \in DOMAIN s.roles : SameLayout(s.roles[i], t.roles[i])

LEMMA SameIsParsed == ASSUME NEW r, NEW q, SameLayout(r, q), ParsedRole(r) PROVE ParsedRole(q)
  BY DEF SameLayout, ParsedRole
LEMMA SameIsSound == ASSUME NEW r, NEW q, SameLayout(r, q), Sound(r) PROVE Sound(q)
  <1>1. RankGpus(q) = RankGpus(r) /\ WorldGpus(q) = WorldGpus(r) /\ q.size = r.size
    BY DEF SameLayout, RankGpus, WorldGpus, DpSize
  <1>2. GpusPerPod(q) = GpusPerPod(r) /\ DividesNodes(q) = DividesNodes(r)
    BY <1>1 DEF GpusPerPod, DividesNodes
  <1> QED BY <1>1, <1>2, SameIsParsed DEF Sound, Placeable
LEMMA SameTwice == ASSUME NEW s, NEW t, NEW u, SameLayouts(s, t), SameLayouts(t, u) PROVE SameLayouts(s, u)
  BY DEF SameLayouts, SameLayout
LEMMA SameSpecIsParsed == ASSUME NEW s, NEW t, ParsedSpec(s), SameLayouts(s, t) PROVE ParsedSpec(t)
  BY SameIsParsed DEF ParsedSpec, SameLayouts, Roles

\* Any list of roles e in the place of those of s.
LEMMA MappedIsSame ==
  ASSUME NEW s, ParsedSpec(s), NEW e, e = [i \in DOMAIN s.roles |-> e[i]],
         \A i \in DOMAIN s.roles : SameLayout(s.roles[i], e[i])
  PROVE  SameLayouts(s, [s EXCEPT !.roles = e])
  <1> DEFINE t == [s EXCEPT !.roles = e]
  <1>1. DOMAIN t = DOMAIN s /\ "roles" \in DOMAIN t /\ t.roles = e
    BY DEF ParsedSpec
  <1>2. DOMAIN s.roles = 1 .. Len(s.roles) /\ Len(s.roles) \in Nat
    BY DEF ParsedSpec
  <1> HIDE DEF t
  <1>3. DOMAIN e = DOMAIN s.roles /\ \A i \in DOMAIN s.roles : e[i] \in Roles(t)
    BY <1>1 DEF Roles
  <1>4. t.roles \in Seq(Roles(t))
    BY <1>1, <1>2, <1>3
  <1>5. SameLayouts(s, t)
    BY <1>1, <1>3, <1>4 DEF SameLayouts
  <1> QED BY <1>5 DEF t

\* One lemma for each step of apply_topology_defaults.
LEMMA FieldsOf == ASSUME NEW s, ParsedSpec(s), NEW i \in DOMAIN s.roles
                  PROVE  {"tp", "pp", "dp", "size"} \subseteq DOMAIN s.roles[i]
  BY DEF ParsedSpec, ParsedRole, Roles
LEMMA ProxyBaseKeeps == ASSUME NEW s, ParsedSpec(s) PROVE SameLayouts(s, MapRoles(s, WithProxyBase))
  <1> DEFINE e == [i \in DOMAIN s.roles |-> WithProxyBase(s.roles[i])]
  <1>1. \A i \in DOMAIN s.roles : SameLayout(s.roles[i], e[i])
    BY FieldsOf DEF SameLayout, WithProxyBase
  <1>2. MapRoles(s, WithProxyBase) = [s EXCEPT !.roles = e]
    BY DEF MapRoles, ParsedSpec
  <1>3. e = [i \in DOMAIN s.roles |-> e[i]]
    OBVIOUS
  <1> HIDE DEF e
  <1> QED BY <1>1, <1>2, <1>3, MappedIsSame
LEMMA RoutingKeeps == ASSUME NEW s, ParsedSpec(s) PROVE SameLayouts(s, WithRouting(s))
  <1>1. /\ DOMAIN WithRouting(s) = DOMAIN s /\ "roles" \in DOMAIN WithRouting(s)
        /\ WithRouting(s).roles = s.roles
    BY DEF WithRouting, ParsedSpec
  <1> QED BY <1>1 DEF SameLayouts, SameLayout, ParsedSpec, Roles
LEMMA DecodeProxyKeeps == ASSUME NEW s, ParsedSpec(s) PROVE SameLayouts(s, WithDecodeProxy(s))
  <1> DEFINE e == [i \in DOMAIN s.roles |->
                     IF s.topology = "pd" /\ s.roles[i].name = "decode" THEN Proxied(s.roles[i]) ELSE s.roles[i]]
  <1>1. \A i \in DOMAIN s.roles : SameLayout(s.roles[i], Proxied(s.roles[i]))
    BY FieldsOf DEF SameLayout, Proxied
  <1>2. \A i \in DOMAIN s.roles : SameLayout(s.roles[i], e[i])
    BY <1>1 DEF SameLayout
  <1>3. WithDecodeProxy(s) = [s EXCEPT !.roles = e]
    BY DEF MapRoles, WithDecodeProxy, ParsedSpec
  <1>4. e = [i \in DOMAIN s.roles |-> e[i]]
    OBVIOUS
  <1> HIDE DEF e
  <1> QED BY <1>2, <1>3, <1>4, MappedIsSame
LEMMA DpModeKeeps == ASSUME NEW s, ParsedSpec(s) PROVE SameLayouts(s, WithDpMode(s))
  <1> DEFINE e == [i \in DOMAIN s.roles |-> [s.roles[i] EXCEPT !.dp_mode = DpMode(s, s.roles[i])]]
  <1>1. \A i \in DOMAIN s.roles : SameLayout(s.roles[i], e[i])
    BY FieldsOf DEF SameLayout
  <1>2. WithDpMode(s) = [s EXCEPT !.roles = e]
    BY DEF MapRoles, WithDpMode, ParsedSpec
  <1>3. e = [i \in DOMAIN s.roles |-> e[i]]
    OBVIOUS
  <1> HIDE DEF e
  <1> QED BY <1>1, <1>2, <1>3, MappedIsSame
LEMMA DefaultsKeep == ASSUME NEW s, ParsedSpec(s) PROVE SameLayouts(s, Defaulted(s))
  <1> DEFINE a == MapRoles(s, WithProxyBase) b == WithRouting(a) c == WithDecodeProxy(b) d == WithDpMode(c)
  <1>1. SameLayouts(s, a) /\ ParsedSpec(a)
    BY ProxyBaseKeeps, SameSpecIsParsed
  <1> HIDE DEF a
  <1>2. SameLayouts(s, b) /\ ParsedSpec(b)
    BY <1>1, RoutingKeeps, SameTwice, SameSpecIsParsed
  <1> HIDE DEF b
  <1>3. SameLayouts(s, c) /\ ParsedSpec(c)
    BY <1>2, DecodeProxyKeeps, SameTwice, SameSpecIsParsed
  <1> HIDE DEF c
  <1>4. SameLayouts(s, d)
    BY <1>3, DpModeKeeps, SameTwice
  <1> QED BY <1>4 DEF a, b, c, d, Defaulted
LEMMA SizingKeeps == ASSUME NEW s, ParsedSpec(s) PROVE SameLayouts(s, Sized(s))
  <1> DEFINE F(r) == [r EXCEPT !.gpus = IF @ = Derived THEN GpusPerPod(r) ELSE @,
                               !.cpus = IF @ = Derived THEN 6 + 2 * GpusPerPod(r) ELSE @]
             e == [i \in DOMAIN s.roles |-> F(s.roles[i])]
  <1>1. \A i \in DOMAIN s.roles : SameLayout(s.roles[i], e[i])
    BY FieldsOf DEF SameLayout
  <1>2. Sized(s) = [s EXCEPT !.roles = e]
    BY DEF MapRoles, Sized, ParsedSpec
  <1>3. e = [i \in DOMAIN s.roles |-> e[i]]
    OBVIOUS
  <1> HIDE DEF e
  <1> QED BY <1>1, <1>2, <1>3, MappedIsSame

-----------------------------------------------------------------------------
(***************************************************************************)
(* The inductive invariant: a spec stays parsed until its layouts are      *)
(* checked, is sound from then on, and plans are only made of its roles.   *)
(***************************************************************************)
SpecIsSound ==
  /\ stage \in {"parsed", "loaded", "sized"} => ParsedSpec(spec)
  /\ stage = "sized" => \A r \in Roles(spec) : Sound(r)
PlansAreSound == plans \in Seq({plans[i] : i \in DOMAIN plans}) /\ \A i \in DOMAIN plans : Sound(plans[i].role)
Inv == SpecIsSound /\ PlansAreSound

LEMMA InvInit == Init => Inv
  <1> SUFFICES ASSUME Init PROVE Inv
    OBVIOUS
  <1>1. PlansAreSound
    BY DEF Init, PlansAreSound
  <1>2. SpecIsSound
    BY RequestsAssumption DEF Init, SpecIsSound
  <1> QED BY <1>1, <1>2 DEF Inv

LEMMA InvNext == Inv /\ [Next]_vars => Inv'
  <1> SUFFICES ASSUME Inv, [Next]_vars PROVE Inv'
    OBVIOUS
  <1> USE DEF Inv
  <1>1. CASE AcceptSpec
    <2>1. ParsedSpec(Defaulted(spec))
      BY <1>1, DefaultsKeep, SameSpecIsParsed DEF AcceptSpec, SpecIsSound
    <2> QED BY <1>1, <2>1 DEF AcceptSpec, SpecIsSound, PlansAreSound
  <1>2. CASE FitCluster
    <2>1. ParsedSpec(spec) /\ \A r \in Roles(spec) : Sound(r)
      BY <1>2 DEF FitCluster, Fits, FitsCluster, SpecIsSound, ParsedSpec, Sound
    <2>2. SameLayouts(spec, Sized(spec))
      BY <2>1, SizingKeeps
    <2>3. ParsedSpec(Sized(spec)) /\ \A r \in Roles(Sized(spec)) : Sound(r)
      BY <2>1, <2>2, SameSpecIsParsed, SameIsSound DEF SameLayouts, Roles
    <2> QED BY <1>2, <2>3 DEF FitCluster, SpecIsSound, PlansAreSound
  <1>3. CASE ResolveRole
    <2>1. Len(plans) + 1 \in DOMAIN spec.roles
      BY <1>3 DEF ResolveRole, SpecIsSound, PlansAreSound, ParsedSpec
    <2>2. Sound(NextRole)
      BY <1>3, <2>1 DEF ResolveRole, NextRole, SpecIsSound, Roles
    <2> DEFINE p == Plan(spec, cluster, NextRole)
    <2>3. Sound(p.role)
      BY <2>2 DEF Plan
    <2>4. plans' = Append(plans, p) /\ UNCHANGED <<stage, spec>>
      BY <1>3 DEF ResolveRole
    <2> HIDE DEF p
    <2>5. \A i \in DOMAIN plans' : Sound(plans'[i].role)
      BY <2>3, <2>4 DEF PlansAreSound
    <2>6. plans' \in Seq({plans'[i] : i \in DOMAIN plans'})
      BY <2>4 DEF PlansAreSound
    <2> QED BY <2>4, <2>5, <2>6 DEF SpecIsSound, PlansAreSound
  <1>4. CASE RenderRole
    BY <1>4 DEF RenderRole, SpecIsSound, PlansAreSound
  <1>5. CASE RenderRouting \/ RenderBatch
    BY <1>5 DEF RenderRouting, RenderBatch, SpecIsSound, PlansAreSound
  <1>6. CASE \E q \in Workloads : LowerWorkload(q)
    BY <1>6 DEF LowerWorkload, SpecIsSound, PlansAreSound
  <1>7. CASE Reject
    BY <1>7 DEF Reject, SpecIsSound, PlansAreSound
  <1>8. CASE UNCHANGED vars
    BY <1>8 DEF vars, SpecIsSound, PlansAreSound
  <1> QED BY <1>1, <1>2, <1>3, <1>4, <1>5, <1>6, <1>7, <1>8 DEF Next

LEMMA SoundIsPlaced == Inv => RanksArePlaced
  BY Filled, Served, StartRankIsSet DEF Inv, PlansAreSound, RanksArePlaced

\* For every number of GPUs, ranks and nodes: the launch scripts of a role
\* that has a plan fill its nodes exactly, leave every rank one HTTP server and
\* never read START_RANK unset (parallelism.py, launch.py).
THEOREM RanksPlaced == Spec => []RanksArePlaced
  <1> QED BY InvInit, InvNext, SoundIsPlaced, PTL DEF Spec

-----------------------------------------------------------------------------
\* What the lengths in TypeOK need: nothing is resolved before a spec is sized,
\* and plans and lowered are lists.
ListsAreKept ==
  /\ lowered \in Seq({lowered[i] : i \in DOMAIN lowered})
  /\ stage \in {"parsed", "loaded", "workload"} => plans = <<>> /\ lowered = <<>>
TypeInv == Inv /\ TypeOK /\ ListsAreKept

LEMMA TypeInit == Init => TypeInv
  <1> SUFFICES ASSUME Init PROVE TypeInv
    OBVIOUS
  <1>1. plans = <<>> /\ lowered = <<>> /\ stage \in {"parsed", "workload"}
    BY DEF Init
  <1>2. spec = NoSpec \/ Len(spec.roles) \in Nat
    BY RequestsAssumption DEF Init, ParsedSpec
  <1> QED BY <1>1, <1>2, InvInit DEF TypeInv, TypeOK, ListsAreKept

LEMMA TypeNext == TypeInv /\ [Next]_vars => TypeInv'
  <1> SUFFICES ASSUME TypeInv, [Next]_vars PROVE TypeInv'
    OBVIOUS
  <1>1. Inv /\ Inv' /\ TypeOK /\ ListsAreKept
    BY InvNext DEF TypeInv
  <1>2. Len(plans) \in Nat /\ Len(lowered) \in Nat
    BY <1>1 DEF Inv, PlansAreSound, ListsAreKept
  <1>3. CASE AcceptSpec \/ FitCluster
    <2>1. Len(spec'.roles) \in Nat /\ stage' \in {"loaded", "sized"}
      BY <1>1, <1>3 DEF AcceptSpec, FitCluster, Inv, SpecIsSound, ParsedSpec
    <2>2. plans' = <<>> /\ lowered' = <<>>
      BY <1>1, <1>3 DEF AcceptSpec, FitCluster, ListsAreKept
    <2> QED BY <1>1, <2>1, <2>2 DEF TypeInv, TypeOK, ListsAreKept
  <1>4. CASE ResolveRole
    <2>1. UNCHANGED <<stage, spec, lowered>> /\ stage = "sized" /\ Len(plans) < Len(spec.roles)
      BY <1>4 DEF ResolveRole
    <2>2. spec.roles \in Seq(Roles(spec))
      BY <1>1, <2>1 DEF Inv, SpecIsSound, ParsedSpec
    <2> DEFINE p == Plan(spec, cluster, NextRole)
    <2>3. p.role = spec.roles[Len(plans) + 1]
      BY DEF Plan, NextRole
    <2>4. plans' = Append(plans, p) /\ plans \in Seq({plans[i] : i \in DOMAIN plans})
      BY <1>1, <1>4 DEF ResolveRole, Inv, PlansAreSound
    <2> HIDE DEF p
    <2>5. Len(plans') = Len(plans) + 1 /\ \A i \in DOMAIN plans' : plans'[i].role = spec.roles[i]
      BY <1>1, <2>3, <2>4 DEF TypeOK
    <2>6. Len(plans') <= Len(spec.roles)
      BY <1>2, <2>1, <2>2, <2>5
    <2> QED BY <1>1, <1>2, <2>1, <2>5, <2>6 DEF TypeInv, TypeOK, ListsAreKept
  <1>5. CASE RenderRole
    <2>1. /\ UNCHANGED <<stage, spec, plans>> /\ stage = "sized" /\ Len(lowered) < Len(plans)
          /\ \E x : lowered' = Append(lowered, x)
      BY <1>5 DEF RenderRole, Resolved
    <2>2. lowered' \in Seq({lowered'[i] : i \in DOMAIN lowered'}) /\ Len(lowered') = Len(lowered) + 1
      BY <1>1, <2>1 DEF ListsAreKept
    <2>3. Len(lowered') <= 1 + Len(plans)
      BY <1>2, <2>1, <2>2
    <2>4. TypeOK'
      BY <1>1, <2>1, <2>3 DEF TypeOK
    <2>5. ListsAreKept'
      BY <1>1, <2>1, <2>2 DEF ListsAreKept
    <2> QED BY <1>1, <2>4, <2>5 DEF TypeInv
  <1>6. CASE RenderRouting \/ RenderBatch \/ Reject
    BY <1>1, <1>6 DEF RenderRouting, RenderBatch, Reject, TypeInv, TypeOK, ListsAreKept
  <1>7. CASE \E q \in Workloads : LowerWorkload(q)
    <2>1. PICK q \in Workloads : LowerWorkload(q)
      BY <1>7
    <2> DEFINE settings == IF q.clustered THEN <<Settings(cluster)>> ELSE <<>>
               x == Entry(q.workload, settings, q.accelerator, {})
    <2>2. UNCHANGED <<spec, plans>> /\ stage' = "rendered" /\ plans = <<>> /\ lowered' = <<x>>
      BY <1>1, <2>1 DEF LowerWorkload, ListsAreKept
    <2> HIDE DEF x
    <2>3. lowered' \in Seq({lowered'[i] : i \in DOMAIN lowered'}) /\ Len(lowered') = 1
      BY <2>2
    <2> QED BY <1>1, <1>2, <2>2, <2>3 DEF TypeInv, TypeOK, ListsAreKept
  <1>8. CASE UNCHANGED vars
    BY <1>1, <1>8 DEF vars, TypeInv, TypeOK, ListsAreKept
  <1> QED BY <1>3, <1>4, <1>5, <1>6, <1>7, <1>8 DEF Next

\* The plans are those of the roles of the spec, in order, and what is rendered
\* follows them (emit.py renders no role before every role is resolved).
THEOREM TypeCorrect == Spec => []TypeOK
  <1>1. TypeInv => TypeOK
    BY DEF TypeInv
  <1> QED BY TypeInit, TypeNext, <1>1, PTL DEF Spec
-----------------------------------------------------------------------------
(***************************************************************************)
(* Ports and nodes of a plan: which servers a launch script starts.        *)
(***************************************************************************)

\* A role as the defaults leave it: a proxy never shares a port base.
Defaults(r) == ParsedServing(r) /\ (r.proxy => r.backend # 0)

\* What resolve_role writes into a plan.
Planned(p) ==
  /\ Sound(p.role) /\ Defaults(p.role)
  /\ p.ports = Ports(p.role, p.ext) /\ p.api_nodes = ApiNodes(p.role, p.ext)
  /\ p.headless = HasHeadless(p.role, p.ext) /\ p.proxy = p.role.proxy

LEMMA PortCounts ==
  ASSUME NEW r, Sound(r), NEW ext
  PROVE  /\ RankCount(r, ext) \in Nat /\ RankCount(r, ext) >= 1
         /\ RankCount(r, ext) > 1 => DpEnabled(r) /\ RankCount(r, ext) = DpLocal(r)
  <1>1. r.size \in Positive /\ DpSize(r) \in Positive
    BY Sizes DEF Sound
  <1> DEFINE q == DpSize(r) \div r.size
  <1>2. q \in Nat /\ r.size * q <= DpSize(r)
    BY <1>1, InBlock DEF Positive
  <1>3. DpLocal(r) = AtLeastOne(q)
    BY DEF DpLocal
  <1> HIDE DEF q
  <1>4. DpLocal(r) \in Nat /\ DpLocal(r) >= 1 /\ (DpLocal(r) > 1 => q > 1)
    BY <1>2, <1>3 DEF AtLeastOne
  <1>5. q > 1 => DpSize(r) > 1
    BY <1>1, <1>2 DEF Positive
  <1> QED BY <1>4, <1>5 DEF RankCount, DpEnabled

LEMMA PortsOf ==
  ASSUME NEW p, Planned(p)
  PROVE  /\ p.ports.first \in Int /\ p.role.public \in Int
         /\ p.ports.first = IF p.role.backend = 0 THEN p.role.public ELSE p.role.backend
         /\ p.ports.public = PortRange(p.role.public, RankCount(p.role, p.ext))
         /\ p.ports.backend = PortRange(p.ports.first, RankCount(p.role, p.ext))
  BY DEF Planned, Defaults, ParsedServing, Ports

\* Every node of a replica without headless nodes serves HTTP, and node 0 does
\* in any case.
LEMMA ApiNodesOf ==
  ASSUME NEW p, Planned(p)
  PROVE  /\ ApiOrAll(p) = p.api_nodes /\ p.api_nodes \subseteq Nodes(p.role)
         /\ 0 \in p.api_nodes /\ 0 \in Nodes(p.role)
  <1>1. p.role.size \in Nat /\ p.role.size > 0
    BY Sizes DEF Planned, Sound, Positive
  <1>2. 0 \in Nodes(p.role)
    BY <1>1 DEF Nodes
  <1>3. NodesPerRank(p.role) \in Positive
    BY TwoLayouts DEF Planned, WholeRanks, WholeNodes, Positive
  <1>4. 0 % NodesPerRank(p.role) = 0
    BY <1>3 DEF Positive
  <1> QED BY <1>2, <1>4 DEF Planned, ApiOrAll, HasHeadless, ApiNodes

\* The vLLM of an API node serves every backend port, that of another none.
LEMMA LiveIs ==
  ASSUME NEW p, Planned(p), NEW n \in Nodes(p.role)
  PROVE  Live(p, n) = IF n \in p.api_nodes THEN p.ports.backend ELSE {}
  <1> DEFINE f == Launch(p.role, p.ext, n)
             k == RankCount(p.role, p.ext)
  <1>1. /\ f.port = p.ports.first
        /\ f.headless = (HasHeadless(p.role, p.ext) /\ n \notin ApiNodes(p.role, p.ext))
        /\ f.multi_port = (k > 1)
        /\ f.local = IF DpEnabled(p.role) THEN DpLocal(p.role) ELSE 1
    BY DEF Launch, MultiPort, Planned
  <1>2. f.headless <=> n \notin p.api_nodes
    BY <1>1 DEF HasHeadless, Planned
  <1>3. k \in Nat /\ k >= 1 /\ (k > 1 => DpEnabled(p.role) /\ k = DpLocal(p.role))
    BY PortCounts DEF Planned
  <1>4. p.ports.first \in Int /\ p.ports.backend = PortRange(p.ports.first, k)
    BY PortsOf
  <1>5. Live(p, n) = ServesOn(f)
    BY DEF Live
  <1> HIDE DEF f, k
  <1>6. CASE k > 1
    BY <1>1, <1>2, <1>3, <1>4, <1>5, <1>6 DEF ServesOn
  <1>7. CASE ~(k > 1)
    <2>1. PortRange(p.ports.first, k) = {p.ports.first}
      BY <1>3, <1>4, <1>7 DEF PortRange
    <2> QED BY <1>1, <1>2, <1>4, <1>5, <1>7, <2>1 DEF ServesOn
  <1> QED BY <1>6, <1>7

\* The proxy forwards public port i to backend port i, for every one of them.
LEMMA ForwardedIs ==
  ASSUME NEW p, Planned(p), NEW n \in Nodes(p.role)
  PROVE  Forwarded(p, n) = IF n \in p.api_nodes THEN p.ports.public ELSE {}
  <1> DEFINE a == p.role.public b == p.ports.first k == RankCount(p.role, p.ext)
  <1>1. k \in Nat /\ a \in Int /\ b \in Int
    BY PortsOf, PortCounts DEF Planned
  <1>2. p.ports.public = a .. (a + k - 1) /\ p.ports.backend = b .. (b + k - 1)
    BY PortsOf DEF PortRange
  <1>3. Forwarded(p, n) = {a + (port - b) : port \in Live(p, n)}
    BY DEF Forwarded
  <1> HIDE DEF a, b, k
  <1>4. {a + (port - b) : port \in b .. (b + k - 1)} = a .. (a + k - 1)
    <2>1. ASSUME NEW x \in a .. (a + k - 1) PROVE \E port \in b .. (b + k - 1) : x = a + (port - b)
      <3>1. x - a + b \in b .. (b + k - 1) /\ x = a + ((x - a + b) - b)
        BY <1>1
      <3> QED BY <3>1
    <2>2. ASSUME NEW port \in b .. (b + k - 1) PROVE a + (port - b) \in a .. (a + k - 1)
      BY <1>1
    <2> QED BY <2>1, <2>2
  <1>5. Live(p, n) = IF n \in p.api_nodes THEN p.ports.backend ELSE {}
    BY LiveIs
  <1> QED BY <1>2, <1>3, <1>4, <1>5

ServedPorts(p) == IF p.proxy THEN p.ports.public ELSE p.ports.backend
LEMMA ReachableIs ==
  ASSUME NEW p, Planned(p), NEW n \in Nodes(p.role)
  PROVE  Reachable(p, n) = IF n \in p.api_nodes THEN ServedPorts(p) ELSE {}
  BY LiveIs, ForwardedIs DEF Reachable, ServedPorts

\* Without a port base of its own a role is served on its public ports.
LEMMA PublicPortsServed ==
  ASSUME NEW p, Planned(p), PublicIsServed(p.role)
  PROVE  ServedPorts(p) = p.ports.public
  BY PortsOf DEF ServedPorts, PublicIsServed, Planned
LEMMA GpusAreCounted == ASSUME NEW r, Sound(r) PROVE GpusPerPod(r) \in Nat
  <1>1. r.size \in Positive /\ RankGpus(r) \in Nat /\ DpSize(r) \in Nat
    BY Sizes DEF Sound, Positive
  <1> DEFINE w == WorldGpus(r)
  <1>2. w \in Nat /\ GpusPerPod(r) = w \div r.size
    BY <1>1 DEF WorldGpus, GpusPerPod
  <1> HIDE DEF w
  <1> QED BY <1>1, <1>2, InBlock

\* A node has no more DP ranks than GPUs.
LEMMA LocalRanksFit ==
  ASSUME NEW r, Sound(r), NEW ext
  PROVE  RankCount(r, ext) <= GpusPerPod(r)
  <1>1. RankGpus(r) \in Nat /\ RankGpus(r) > 0 /\ GpusPerPod(r) \in Nat
    BY Sizes, GpusAreCounted DEF Sound, Positive
  <1>2. CASE \E k \in Positive : WholeRanks(r, k)
    <2>1. PICK k \in Positive : WholeRanks(r, k)
      BY <1>2
    <2>2. k \in Nat /\ k > 0 /\ DpLocal(r) = k /\ GpusPerPod(r) = k * RankGpus(r)
      BY <2>1 DEF WholeRanks, Positive
    <2>3. k <= k * RankGpus(r)
      BY <1>1, <2>2
    <2>4. 1 <= k
      BY <2>2
    <2> QED BY <1>1, <2>2, <2>3, <2>4 DEF RankCount
  <1>3. CASE \E m \in Positive : m > 1 /\ WholeNodes(r, m)
    <2>1. PICK m \in Positive : m > 1 /\ WholeNodes(r, m)
      BY <1>3
    <2>2. m \in Nat /\ DpLocal(r) = 1 /\ RankGpus(r) = m * GpusPerPod(r)
      BY <2>1 DEF WholeNodes, Positive
    <2>3. GpusPerPod(r) # 0
      BY <1>1, <2>2
    <2> QED BY <1>1, <2>2, <2>3 DEF RankCount
  <1> QED BY <1>2, <1>3, TwoLayouts

\* The default bases leave room for a hundred ports each.
LEMMA PortsApart ==
  ASSUME NEW p, Planned(p), RankCount(p.role, p.ext) <= 100
  PROVE  PortsDoNotCollide(p)
  <1> SUFFICES ASSUME DefaultBases(p.role), NEW n \in Nodes(p.role)
               PROVE  Disjoint(BoundPorts(p, n))
    BY DEF PortsDoNotCollide
  <1> DEFINE k == RankCount(p.role, p.ext)
             supervisor == IF Launch(p.role, p.ext, n).supervisor THEN {8100} ELSE {}
             rpc == IF Launch(p.role, p.ext, n).rpc THEN {5555} ELSE {}
             proxy == IF p.proxy THEN p.ports.public ELSE {}
  <1>1. k \in Nat /\ k <= 100
    BY PortCounts DEF Planned
  <1>2. p.ports.public = 8000 .. (8000 + k - 1)
    BY PortsOf DEF DefaultBases, PortRange
  <1>3. \/ p.ports.backend = 8000 .. (8000 + k - 1) /\ ~p.proxy
        \/ p.ports.backend = 8200 .. (8200 + k - 1)
    BY PortsOf DEF DefaultBases, PortRange, Planned, Defaults
  <1>4. Live(p, n) \subseteq p.ports.backend
    BY LiveIs
  <1>5. BoundPorts(p, n) = <<Live(p, n), supervisor, rpc, proxy>>
    BY DEF BoundPorts
  <1>6. supervisor \subseteq {8100} /\ rpc \subseteq {5555}
    OBVIOUS
  <1>7. proxy \subseteq 8000 .. (8000 + k - 1) /\ (p.ports.backend = 8000 .. (8000 + k - 1) => proxy = {} \/ k = 0 \/ p.ports.backend = 8200 .. (8200 + k - 1))
    BY <1>2, <1>3
  <1> HIDE DEF k, supervisor, rpc, proxy
  <1>8. Live(p, n) \cap supervisor = {} /\ Live(p, n) \cap rpc = {} /\ supervisor \cap rpc = {}
    BY <1>1, <1>3, <1>4, <1>6
  <1>9. proxy \cap supervisor = {} /\ proxy \cap rpc = {}
    BY <1>1, <1>6, <1>7
  <1>10. Live(p, n) \cap proxy = {}
    BY <1>1, <1>3, <1>4, <1>7
  <1> QED BY <1>5, <1>8, <1>9, <1>10 DEF Disjoint

-----------------------------------------------------------------------------
(***************************************************************************)
(* Slurm: the tasks of a role, numbered over its replicas.                 *)
(***************************************************************************)
LEMMA TaskOf ==
  ASSUME NEW p, Planned(p), NEW k \in Tasks(p.role)
  PROVE  /\ p.role.size \in Nat /\ p.role.size > 0 /\ k \in Nat
         /\ Worker(p.role, k) \in Nodes(p.role)
         /\ k = p.role.size * (k \div p.role.size) + Worker(p.role, k)
         /\ k \div p.role.size \in 0 .. (p.role.replicas - 1)
  <1> DEFINE z == p.role.size m == p.role.replicas
  <1>1. z \in Nat /\ z > 0 /\ m \in Nat /\ m > 0
    BY Sizes DEF Planned, Sound, Positive, Defaults, ParsedServing
  <1>2. z * m \in Nat
    BY <1>1
  <1>3. k \in Nat /\ k < z * m
    BY <1>2 DEF Tasks
  <1>4. Worker(p.role, k) = k % z /\ Nodes(p.role) = 0 .. (z - 1)
    BY DEF Worker, Nodes
  <1> DEFINE q == k \div z
  <1>5. q \in Nat /\ z * q <= k /\ k < z * q + z /\ k = z * q + (k % z) /\ k % z \in 0 .. (z - 1)
    <2>1. q \in Nat /\ z * q <= k /\ k < z * q + z
      BY <1>1, <1>3, InBlock DEF Positive
    <2>2. k = z * q + (k % z) /\ k % z \in 0 .. (z - 1)
      BY <1>1, <1>3, DivMod DEF Positive
    <2> QED BY <2>1, <2>2
  <1> HIDE DEF q, z, m
  <1>6. q < m
    BY <1>1, <1>3, <1>5
  <1>7. q \in 0 .. (m - 1)
    BY <1>1, <1>5, <1>6
  <1>8. Worker(p.role, k) \in Nodes(p.role) /\ k = z * q + Worker(p.role, k)
    BY <1>4, <1>5
  <1> QED BY <1>1, <1>3, <1>7, <1>8 DEF q, z, m

\* The discovery file lists the servers that the steps start, and no others.
LEMMA DiscoveredIsServing == ASSUME NEW p, Planned(p) PROVE Discovered(p) = Serving(p)
  <1>1. ASSUME NEW k \in Tasks(p.role)
        PROVE  (IF p.proxy /\ ~HasProxy(p, k) THEN {} ELSE Reachable(p, Worker(p.role, k)))
                 = IF Worker(p.role, k) \in p.api_nodes THEN ServedPorts(p) ELSE {}
    <2>1. Worker(p.role, k) \in Nodes(p.role)
      BY TaskOf
    <2>2. HasProxy(p, k) <=> p.proxy /\ Worker(p.role, k) \in p.api_nodes
      BY DEF HasProxy
    <2> QED BY <2>1, <2>2, ReachableIs
  <1>2. \A k, port : <<k, port>> \in Discovered(p) <=>
          k \in Tasks(p.role) /\ Worker(p.role, k) \in p.api_nodes /\ port \in ServedPorts(p)
    BY DEF Discovered, ServedPorts
  <1>3. \A k, port : <<k, port>> \in Serving(p) <=>
          k \in Tasks(p.role) /\ Worker(p.role, k) \in p.api_nodes /\ port \in ServedPorts(p)
    BY <1>1 DEF Serving
  <1>4. \A e \in Discovered(p) : e = <<e[1], e[2]>>
    BY DEF Discovered
  <1>5. \A e \in Serving(p) : e = <<e[1], e[2]>>
    BY DEF Serving
  <1> QED BY <1>2, <1>3, <1>4, <1>5

\* There is a proxy for every API node of every replica.
LEMMA ProxiesCounted ==
  ASSUME NEW p, Planned(p), p.proxy
  PROVE  ProxyCount(p) = Cardinality({k \in Tasks(p.role) : HasProxy(p, k)})
  <1> DEFINE z == p.role.size m == p.role.replicas
             A == p.api_nodes
             T == {k \in Tasks(p.role) : HasProxy(p, k)}
             f == [e \in A \X (0 .. (m - 1)) |-> z * e[2] + e[1]]
  <1>1. z \in Nat /\ z > 0 /\ m \in Nat /\ m > 0 /\ Nodes(p.role) = 0 .. (z - 1)
    BY Sizes DEF Planned, Sound, Positive, Defaults, ParsedServing, Nodes
  <1>2. A \subseteq 0 .. (z - 1)
    BY <1>1, ApiNodesOf
  <1>3. IsFiniteSet(A) /\ IsFiniteSet(0 .. (m - 1)) /\ Cardinality(0 .. (m - 1)) = m
    <2>1. IsFiniteSet(0 .. (z - 1))
      BY <1>1, FS_Interval
    <2>2. IsFiniteSet(A)
      BY <1>2, <2>1, FS_Subset
    <2>3. 0 \in Int /\ m - 1 \in Int /\ ~(0 > m - 1) /\ (m - 1) - 0 + 1 = m
      BY <1>1
    <2>4. IsFiniteSet(0 .. (m - 1)) /\ Cardinality(0 .. (m - 1)) = (m - 1) - 0 + 1
      BY <2>3, FS_Interval
    <2> QED BY <2>2, <2>3, <2>4
  <1>4. \A k : k \in T <=> k \in 0 .. (z * m - 1) /\ k % z \in A
    BY DEF Tasks, HasProxy, Worker
  <1>5. ASSUME NEW k \in T PROVE k % z \in A /\ k \div z \in 0 .. (m - 1) /\ k = z * (k \div z) + (k % z)
    <2>1. k \in Tasks(p.role) /\ k % z \in A
      BY <1>4
    <2>2. k \div z \in 0 .. (m - 1) /\ k = z * (k \div z) + Worker(p.role, k)
      BY <2>1, TaskOf
    <2>3. Worker(p.role, k) = k % z
      BY DEF Worker
    <2> QED BY <2>1, <2>2, <2>3
  <1> HIDE DEF A, T, z, m
  <1>6. ASSUME NEW a \in A, NEW j \in 0 .. (m - 1)
        PROVE  z * j + a \in T /\ (z * j + a) % z = a /\ (z * j + a) \div z = j
    <2>1. a \in Nat /\ a < z /\ j \in Nat /\ j + 1 <= m
      BY <1>1, <1>2
    <2> DEFINE k == z * j + a
    <2>2. z * j \in Nat /\ k \in Nat /\ z * j <= k /\ k < z * j + z
      BY <1>1, <2>1
    <2>3. k \div z = j
      BY <1>1, <2>1, <2>2, Block DEF Positive
    <2>4. k % z = a
      <3>1. k \in Nat /\ k = z * j + a
        BY <2>2
      <3> HIDE DEF k
      <3>2. k = z * (k \div z) + (k % z) /\ k % z \in Int
        BY <1>1, <3>1, DivMod DEF Positive
      <3>3. k = z * j + (k % z) /\ z * j \in Int
        BY <1>1, <2>1, <2>3, <3>2
      <3> DEFINE x == z * j y == k % z
      <3>4. x \in Int /\ y \in Int /\ k = x + y /\ k = x + a
        BY <3>1, <3>2, <3>3
      <3> HIDE DEF x, y
      <3>5. y = a
        BY <2>1, <3>1, <3>4
      <3> QED BY <3>5 DEF y, k
    <2>5. k < z * m
      <3>1. z * (j + 1) <= z * m
        BY <1>1, <2>1
      <3>2. z * (j + 1) = z * j + z
        BY <1>1, <2>1
      <3> QED BY <1>1, <2>1, <2>2, <3>1, <3>2
    <2>6. z * m \in Nat
      BY <1>1
    <2>7. k \in 0 .. (z * m - 1)
      BY <2>2, <2>5, <2>6
    <2> QED BY <1>4, <2>3, <2>4, <2>7
  <1>7. f \in [A \X (0 .. (m - 1)) -> T]
    BY <1>6
  <1>8. f \in Injection(A \X (0 .. (m - 1)), T)
    <2>1. ASSUME NEW d \in A \X (0 .. (m - 1)), NEW e \in A \X (0 .. (m - 1)), f[d] = f[e]
          PROVE  d = e
      <3>1. d[1] \in A /\ d[2] \in 0 .. (m - 1) /\ e[1] \in A /\ e[2] \in 0 .. (m - 1)
        OBVIOUS
      <3>2. z * d[2] + d[1] = z * e[2] + e[1]
        BY <2>1
      <3>3. d[1] = e[1] /\ d[2] = e[2]
        BY <1>6, <3>1, <3>2
      <3> QED BY <3>3
    <2> HIDE DEF f
    <2> QED BY <1>7, <2>1 DEF Injection, IsInjective
  <1>9. f \in Surjection(A \X (0 .. (m - 1)), T)
    <2>1. ASSUME NEW k \in T PROVE \E e \in A \X (0 .. (m - 1)) : f[e] = k
      <3>1. <<k % z, k \div z>> \in A \X (0 .. (m - 1))
        BY <1>5
      <3>2. f[<<k % z, k \div z>>] = z * (k \div z) + (k % z)
        BY <3>1
      <3>3. f[<<k % z, k \div z>>] = k
        BY <3>2, <1>5
      <3> QED BY <3>1, <3>3
    <2> HIDE DEF f
    <2> QED BY <1>7, <2>1 DEF Surjection
  <1> HIDE DEF f
  <1>10. ExistsBijection(A \X (0 .. (m - 1)), T)
    BY <1>8, <1>9 DEF ExistsBijection, Bijection
  <1>11. /\ IsFiniteSet(A \X (0 .. (m - 1)))
         /\ Cardinality(A \X (0 .. (m - 1))) = Cardinality(A) * Cardinality(0 .. (m - 1))
    BY <1>3, FS_Product
  <1>12. Cardinality(T) = Cardinality(A) * m
    BY <1>3, <1>10, <1>11, FS_Bijection
  <1> QED BY <1>12 DEF ProxyCount, A, T, m

\* A task meets at the first node of its own replica, which serves.
LEMMA LeaderOf ==
  ASSUME NEW p, Planned(p), NEW k \in Tasks(p.role)
  PROVE  /\ Leader(p.role, k) \div p.role.size = k \div p.role.size
         /\ Live(p, Worker(p.role, Leader(p.role, k))) # {}
  <1> DEFINE z == p.role.size q == k \div z
  <1>1. z \in Nat /\ z > 0 /\ q \in Nat /\ Leader(p.role, k) = z * q
    <2>1. /\ z \in Nat /\ z > 0 /\ k \in Nat /\ Worker(p.role, k) \in Int
          /\ k = z * q + Worker(p.role, k)
      BY TaskOf DEF Nodes
    <2>2. q \in Nat
      BY <2>1
    <2> HIDE DEF q
    <2>3. k - Worker(p.role, k) = z * q
      BY <2>1, <2>2
    <2> QED BY <2>1, <2>2, <2>3 DEF Leader
  <1> HIDE DEF q
  <1>2. z * q = q * z /\ z * q \in Nat
    BY <1>1
  <1>3. (z * q) \div z = q /\ (z * q) % z = 0
    BY <1>1, <1>2, Quotient DEF Positive
  <1>4. Worker(p.role, Leader(p.role, k)) = 0
    BY <1>1, <1>3 DEF Worker
  <1>5. Live(p, 0) = p.ports.backend
    BY LiveIs, ApiNodesOf
  <1>6. p.ports.first \in p.ports.backend
    <2>1. RankCount(p.role, p.ext) \in Nat /\ RankCount(p.role, p.ext) >= 1
      BY PortCounts DEF Planned
    <2> QED BY <2>1, PortsOf DEF PortRange
  <1>7. Leader(p.role, k) \div z = q
    BY <1>1, <1>3
  <1> QED BY <1>4, <1>5, <1>6, <1>7 DEF q

\* The batch script reserves for the first node what its steps need, with the
\* router's CPUs and memory split between the picker and Envoy.
LEMMA StepsFitReserved ==
  ASSUME NEW s, NEW c, NEW ps, \A i \in DOMAIN ps : Planned(ps[i]),
         ParsedCluster(c), c.platform = "slurm", CanBatch(s, c, ps)
  PROVE  StepsFit(s, c, ps)
  <1> SUFFICES ASSUME NEW i \in DOMAIN ps, NEW k \in Tasks(ps[i].role)
               PROVE  /\ StepAmount(c, ps, i, k).cpus <= Reserved(c, ps, i).cpus
                      /\ StepAmount(c, ps, i, k).mem <= Reserved(c, ps, i).mem
                      /\ Routed(s) /\ i = 1 /\ k = 0 =>
                           \A ports \in Range(BoundPorts(ps[i], 0)) : ports \cap RouterPorts(c) = {}
    BY DEF StepsFit
  <1> DEFINE p == ps[i]
  <1>1. Planned(p)
    OBVIOUS
  <1>2. p.role.cpus \in Int /\ p.role.mem \in Int
    BY <1>1 DEF Planned, Defaults, ParsedServing, Derived
  <1>3. c.slurm.router.cpus \in Nat /\ c.slurm.router.mem \in Nat
        /\ c.slurm.proxy.cpus \in Nat /\ c.slurm.proxy.mem \in Nat
    BY DEF ParsedCluster
  <1>4. HasProxy(p, k) => p.proxy
    BY DEF HasProxy
  <1>5. \A n \in Nat : n \div 2 + n \div 2 <= n /\ n \div 2 \in Nat
    OBVIOUS
  <1>6. StepAmount(c, ps, i, k).cpus <= Reserved(c, ps, i).cpus
    <2> DEFINE a == c.slurm.router.cpus \div 2
    <2>1. a \in Nat /\ a + a <= c.slurm.router.cpus
      BY <1>3, <1>5
    <2>2. StepAmount(c, ps, i, k).cpus =
            p.role.cpus + ((IF HasProxy(p, k) THEN c.slurm.proxy.cpus ELSE 0)
                             + (IF i = 1 /\ k = 0 THEN a + a ELSE 0))
      BY DEF StepAmount, Plus, TaskAmount, Nothing, Half
    <2>3. Reserved(c, ps, i).cpus =
            p.role.cpus + ((IF p.proxy THEN c.slurm.proxy.cpus ELSE 0)
                             + (IF i = 1 THEN c.slurm.router.cpus ELSE 0))
      BY DEF Reserved, Plus, TaskAmount, Nothing
    <2> HIDE DEF a, p
    <2> QED BY <1>2, <1>3, <1>4, <2>1, <2>2, <2>3
  <1>7. StepAmount(c, ps, i, k).mem <= Reserved(c, ps, i).mem
    <2> DEFINE a == c.slurm.router.mem \div 2
    <2>1. a \in Nat /\ a + a <= c.slurm.router.mem
      BY <1>3, <1>5
    <2>2. StepAmount(c, ps, i, k).mem =
            p.role.mem + ((IF HasProxy(p, k) THEN c.slurm.proxy.mem ELSE 0)
                            + (IF i = 1 /\ k = 0 THEN a + a ELSE 0))
      BY DEF StepAmount, Plus, TaskAmount, Nothing, Half
    <2>3. Reserved(c, ps, i).mem =
            p.role.mem + ((IF p.proxy THEN c.slurm.proxy.mem ELSE 0)
                            + (IF i = 1 THEN c.slurm.router.mem ELSE 0))
      BY DEF Reserved, Plus, TaskAmount, Nothing
    <2> HIDE DEF a, p
    <2> QED BY <1>2, <1>3, <1>4, <2>1, <2>2, <2>3
  <1>8. ASSUME Routed(s), i = 1, NEW ports \in Range(BoundPorts(p, 0))
        PROVE  ports \cap RouterPorts(c) = {}
    <2>1. RouterPorts(c) \cap (p.ports.public \cup p.ports.backend \cup {5555, 8100}) = {}
      BY <1>8 DEF CanBatch, RouterFits
    <2>2. Live(p, 0) \subseteq p.ports.backend
      BY <1>1, LiveIs, ApiNodesOf
    <2>3. ports \subseteq p.ports.public \cup p.ports.backend \cup {5555, 8100}
      BY <1>8, <2>2 DEF BoundPorts, Range
    <2> QED BY <2>1, <2>3
  <1> QED BY <1>6, <1>7, <1>8
-----------------------------------------------------------------------------
(***************************************************************************)
(* Kubernetes: labels, and who addresses a server.                         *)
(***************************************************************************)
LEMMA OverDomain == ASSUME NEW a, NEW b PROVE DOMAIN Over(a, b) = DOMAIN a \cup DOMAIN b
  BY DEF Over
LEMMA OverFirst == ASSUME NEW a, NEW b PROVE \A n \in DOMAIN a : Over(a, b)[n] = a[n]
  BY DEF Over
LEMMA OverSecond == ASSUME NEW a, NEW b PROVE \A n \in DOMAIN b \ DOMAIN a : Over(a, b)[n] = b[n]
  BY DEF Over

\* The labels of node n of a role: those of the role, and its worker index if
\* a LeaderWorkerSet runs it.
LEMMA PodLabelsAre ==
  ASSUME NEW s, NEW p, NEW n
  PROVE  LET labels == PodLabels(s, p, n)
         IN /\ {"instance", "role", "serving", "topology"} \subseteq DOMAIN labels
            /\ labels["instance"] = "this" /\ labels["role"] = p.role.name
            /\ labels["serving"] = "true" /\ labels["topology"] = s.topology
            /\ "worker" \in DOMAIN labels => labels["worker"] = n
  <1> DEFINE base == RoleLabels("model-server", p.role.name)
             more == [serving |-> "true", topology |-> s.topology]
             serving == ServingLabels(s, p.role)
             index == IF p.kind = "LeaderWorkerSet" THEN [worker |-> n] ELSE NoLabels
             labels == PodLabels(s, p, n)
  <1>1. /\ DOMAIN base = {"instance", "component", "role"}
        /\ base["instance"] = "this" /\ base["role"] = p.role.name
    BY DEF RoleLabels
  <1>2. /\ DOMAIN more = {"serving", "topology"}
        /\ more["serving"] = "true" /\ more["topology"] = s.topology
    OBVIOUS
  <1>3. serving = Over(base, more) /\ labels = Over(serving, index)
    BY DEF ServingLabels, PodLabels
  <1>4. "worker" \in DOMAIN index => index["worker"] = n
    BY DEF NoLabels
  <1> HIDE DEF base, more, serving, index, labels
  <1>5. /\ DOMAIN serving = {"instance", "component", "role", "serving", "topology"}
        /\ serving["instance"] = "this" /\ serving["role"] = p.role.name
        /\ serving["serving"] = "true" /\ serving["topology"] = s.topology
    <2>1. DOMAIN serving = DOMAIN base \cup DOMAIN more
      BY <1>3, OverDomain
    <2>2. \A x \in DOMAIN base : serving[x] = base[x]
      BY <1>3, OverFirst
    <2>3. \A x \in DOMAIN more \ DOMAIN base : serving[x] = more[x]
      BY <1>3, OverSecond
    <2> QED BY <1>1, <1>2, <2>1, <2>2, <2>3
  <1>6. DOMAIN labels = DOMAIN serving \cup DOMAIN index
    BY <1>3, OverDomain
  <1>7. \A x \in DOMAIN serving : labels[x] = serving[x]
    BY <1>3, OverFirst
  <1>8. "worker" \in DOMAIN labels => labels["worker"] = n
    <2>1. \A x \in DOMAIN index \ DOMAIN serving : labels[x] = index[x]
      BY <1>3, OverSecond
    <2> QED BY <1>4, <1>5, <1>6, <2>1
  <1> QED BY <1>5, <1>6, <1>7, <1>8 DEF labels

\* The Service of a role with headless nodes selects worker 0 alone.
LEMMA ServiceSelects ==
  ASSUME NEW s, NEW p, p.headless, NEW n, Selects(Service(p).selector, PodLabels(s, p, n))
  PROVE  n = 0
  <1> DEFINE base == PodSelector(p.role.name) selector == Service(p).selector labels == PodLabels(s, p, n)
  <1>1. "worker" \notin DOMAIN base
    BY DEF PodSelector
  <1>2. selector = Over(base, [worker |-> 0])
    BY DEF Service
  <1> HIDE DEF base
  <1>3. "worker" \in DOMAIN selector /\ selector["worker"] = 0
    <2> DEFINE more == [worker |-> 0]
    <2>1. DOMAIN more = {"worker"} /\ more["worker"] = 0 /\ selector = Over(base, more)
      BY <1>2
    <2> HIDE DEF more, selector
    <2>2. DOMAIN selector = DOMAIN base \cup DOMAIN more
      BY <2>1, OverDomain
    <2>3. \A x \in DOMAIN more \ DOMAIN base : selector[x] = more[x]
      BY <2>1, OverSecond
    <2> QED BY <1>1, <2>1, <2>2, <2>3
  <1>4. "worker" \in DOMAIN labels /\ labels["worker"] = 0
    BY <1>3 DEF Selects
  <1>5. labels["worker"] = n
    BY <1>4, PodLabelsAre
  <1> QED BY <1>4, <1>5

LEMMA AddressedIs ==
  ASSUME NEW s, NEW p, Planned(p), NEW n \in Nodes(p.role)
  PROVE  /\ Probed(p, n) = Reachable(p, n)
         /\ Watched(p, n) = Live(p, n)
         /\ PublicIsServed(p.role) /\ Selects(Service(p).selector, PodLabels(s, p, n)) =>
              Service(p).ports = Reachable(p, n)
  <1>1. Probed(p, n) = Reachable(p, n) /\ Watched(p, n) = Live(p, n)
    BY ApiNodesOf, LiveIs, ReachableIs DEF Probed, Watched, ServedPorts
  <1>2. ASSUME PublicIsServed(p.role), Selects(Service(p).selector, PodLabels(s, p, n))
        PROVE  Service(p).ports = Reachable(p, n)
    <2>1. n \in p.api_nodes
      <3>1. CASE p.headless
        BY <1>2, <3>1, ServiceSelects, ApiNodesOf
      <3>2. CASE ~p.headless
        BY <3>2 DEF Planned, HasHeadless
      <3> QED BY <3>1, <3>2
    <2>2. Reachable(p, n) = p.ports.public
      BY <1>2, <2>1, ReachableIs, PublicPortsServed
    <2> QED BY <2>2 DEF Service
  <1> QED BY <1>1, <1>2

\* As many servers as the controller expects of a replica.
LEMMA ServersCounted ==
  ASSUME NEW p, Planned(p)
  PROVE  /\ Cardinality(p.api_nodes) * Cardinality(p.ports.backend) = Cardinality(LiveEndpoints(p))
         /\ Cardinality(p.api_nodes) \in Nat /\ Cardinality(p.ports.backend) \in Nat
  <1>1. LiveEndpoints(p) = p.api_nodes \X p.ports.backend
    <2>1. \A e \in LiveEndpoints(p) : e \in p.api_nodes \X p.ports.backend
      BY LiveIs DEF LiveEndpoints
    <2>2. ASSUME NEW n \in p.api_nodes, NEW port \in p.ports.backend
          PROVE  <<n, port>> \in LiveEndpoints(p)
      <3>1. n \in Nodes(p.role) /\ port \in Live(p, n)
        BY ApiNodesOf, LiveIs
      <3> QED BY <3>1 DEF LiveEndpoints
    <2> QED BY <2>1, <2>2
  <1>2. IsFiniteSet(p.api_nodes)
    <2>1. p.role.size \in Nat
      BY Sizes DEF Planned, Sound, Positive
    <2>2. IsFiniteSet(Nodes(p.role))
      BY <2>1, FS_Interval DEF Nodes
    <2> QED BY <2>2, ApiNodesOf, FS_Subset
  <1>3. IsFiniteSet(p.ports.backend)
    <2>1. RankCount(p.role, p.ext) \in Nat
      BY PortCounts DEF Planned
    <2>2. p.ports.backend = p.ports.first .. (p.ports.first + RankCount(p.role, p.ext) - 1)
      BY PortsOf DEF PortRange
    <2>3. p.ports.first \in Int /\ p.ports.first + RankCount(p.role, p.ext) - 1 \in Int
      BY <2>1, PortsOf
    <2> QED BY <2>2, <2>3, FS_Interval
  <1> QED BY <1>1, <1>2, <1>3, FS_Product, FS_CardinalityType

LEMMA EndpointsDoAgree ==
  ASSUME NEW s, NEW ps, \A i \in DOMAIN ps : Planned(ps[i])
  PROVE  EndpointsAgree(s, ps)
  <1>1. \A p \in Range(ps) : Planned(p)
    BY DEF Range
  <1> DEFINE expected == [i \in DOMAIN ps |-> ps[i].role.replicas
                            * Cardinality(ps[i].api_nodes) * Cardinality(ps[i].ports.backend)]
             live == [i \in DOMAIN ps |-> ps[i].role.replicas * Cardinality(LiveEndpoints(ps[i]))]
  <1>2. ASSUME NEW i \in DOMAIN ps PROVE expected[i] = live[i]
    <2> DEFINE a == Cardinality(ps[i].api_nodes) b == Cardinality(ps[i].ports.backend) m == ps[i].role.replicas
    <2>1. a * b = Cardinality(LiveEndpoints(ps[i])) /\ a \in Nat /\ b \in Nat
      BY ServersCounted
    <2>2. m \in Nat
      BY DEF Planned, Defaults, ParsedServing, Positive
    <2>3. expected[i] = m * a * b /\ live[i] = m * Cardinality(LiveEndpoints(ps[i]))
      OBVIOUS
    <2> HIDE DEF a, b, m, expected, live
    <2>4. m * a * b = m * (a * b)
      BY <2>1, <2>2
    <2> QED BY <2>1, <2>3, <2>4
  <1>3. expected = live
    BY <1>2
  <1>4. ExpectedTargets(ps) = SumFunction(live)
    <2>1. ExpectedTargets(ps) = SumFunction(expected)
      BY DEF ExpectedTargets
    <2> HIDE DEF expected, live
    <2> QED BY <1>3, <2>1
  <1>5. \A p \in Range(ps) : \A n \in Nodes(p.role) :
          /\ Probed(p, n) = Reachable(p, n)
          /\ Watched(p, n) = Live(p, n)
          /\ PublicIsServed(p.role) /\ Selects(Service(p).selector, PodLabels(s, p, n)) =>
               Service(p).ports = Reachable(p, n)
    BY <1>1, AddressedIs
  <1> QED BY <1>4, <1>5 DEF EndpointsAgree

\* With routing, every role is planned for the llm-d router.
LEMMA RoutedIsLlmD ==
  ASSUME NEW s, NEW r, Routed(s)
  PROVE  "llm-d" \in Enabled(s, r)
  <1> DEFINE Closed(F) == Detected(s, r) \subseteq F /\ ImpliedBy(F) \subseteq F
             E == Detected(s, r)
             Least(F) == Closed(F) /\ \A G \in SUBSET Features : Closed(G) => F \subseteq G
  <1>1. "llm-d" \in E /\ E \subseteq Features
    BY DEF Detected, Features
  <1>2. \A F \in SUBSET Features : ImpliedBy(F) \subseteq {"llm-d"}
    BY DEF ImpliedBy, Implies
  <1>3. E \in SUBSET Features /\ Least(E)
    BY <1>1, <1>2
  <1>4. Enabled(s, r) = CHOOSE F \in SUBSET Features : Least(F)
    BY DEF Enabled
  <1> HIDE DEF Closed, E
  <1>5. Least(Enabled(s, r))
    BY <1>3, <1>4
  <1>6. Detected(s, r) \subseteq Enabled(s, r)
    BY <1>5 DEF Closed
  <1> QED BY <1>1, <1>6 DEF E

\* The plan that a name stands for.
LEMMA PlanOfIs ==
  ASSUME NEW ps, NEW name, \E i \in DOMAIN ps : ps[i].role.name = name
  PROVE  PlanOf(ps, name) \in Range(ps) /\ PlanOf(ps, name).role.name = name
  <1>1. \E p \in Range(ps) : p.role.name = name
    BY DEF Range
  <1> QED BY <1>1 DEF PlanOf

\* What the endpoint picker may pick: an API node of the profile's role, at a
\* public port of the target's.
LEMMA PicksAre ==
  ASSUME NEW s, NEW ps, NEW profile \in DOMAIN ProfileRoles(s),
         NEW p, p = PlanOf(ps, ProfileRoles(s)[profile]), Planned(p), p.llm_d
  PROVE  \A n, port : <<n, port>> \in Endpoints(s, ps, profile) =>
           n \in p.api_nodes /\ port \in p.ports.public
  BY ApiNodesOf DEF Endpoints, EndpointFilter, ActivePorts

\* The pool selects every pod of the target role.
LEMMA PoolSelects ==
  ASSUME NEW s, NEW ps, NEW p, p.role.name = s.target, NEW n
  PROVE  Selects(Pool(s, ps).selector, PodLabels(s, p, n))
  <1> DEFINE base == PodSelector(IF s.kind = "pd" THEN None ELSE s.target)
             more == [serving |-> "true", topology |-> s.topology]
             selector == Pool(s, ps).selector
             labels == PodLabels(s, p, n)
  <1>1. /\ DOMAIN base \subseteq {"instance", "role"}
        /\ "instance" \in DOMAIN base => base["instance"] = "this"
        /\ "role" \in DOMAIN base => base["role"] = s.target
    BY DEF PodSelector
  <1>2. /\ DOMAIN more = {"serving", "topology"}
        /\ more["serving"] = "true" /\ more["topology"] = s.topology
    OBVIOUS
  <1>3. selector = Over(base, more)
    BY DEF Pool
  <1>4. /\ {"instance", "role", "serving", "topology"} \subseteq DOMAIN labels
        /\ labels["instance"] = "this" /\ labels["role"] = s.target
        /\ labels["serving"] = "true" /\ labels["topology"] = s.topology
    BY PodLabelsAre
  <1> HIDE DEF base, more, selector, labels
  <1>5. DOMAIN selector = DOMAIN base \cup DOMAIN more
    BY <1>3, OverDomain
  <1>6. \A x \in DOMAIN base : selector[x] = base[x]
    BY <1>3, OverFirst
  <1>7. \A x \in DOMAIN more : selector[x] = more[x]
    <2>1. \A x \in DOMAIN more \ DOMAIN base : selector[x] = more[x]
      BY <1>3, OverSecond
    <2> QED BY <1>1, <1>2, <2>1
  <1>8. \A x \in DOMAIN selector : x \in DOMAIN labels /\ selector[x] = labels[x]
    BY <1>1, <1>2, <1>4, <1>5, <1>6, <1>7
  <1> QED BY <1>8 DEF Selects, selector, labels

LEMMA NoPickIsDead ==
  ASSUME NEW s, NEW ps, \A i \in DOMAIN ps : Planned(ps[i]) /\ ps[i].llm_d,
         \A profile \in DOMAIN ProfileRoles(s) :
           \E i \in DOMAIN ps : ps[i].role.name = ProfileRoles(s)[profile]
  PROVE  NoDeadEndpoint(s, ps)
  <1> SUFFICES ASSUME NEW profile \in DOMAIN ProfileRoles(s),
                      NEW p, p = PlanOf(ps, ProfileRoles(s)[profile]), PublicIsServed(p.role)
               PROVE  /\ Endpoints(s, ps, profile) \subseteq ReachableEndpoints(p)
                      /\ p.role.name = s.target => ReachableEndpoints(p) \subseteq Endpoints(s, ps, profile)
    BY DEF NoDeadEndpoint
  <1>1. p \in Range(ps) /\ p.role.name = ProfileRoles(s)[profile]
    BY PlanOfIs
  <1>2. Planned(p) /\ p.llm_d
    BY <1>1 DEF Range
  <1>3. \A n, port : <<n, port>> \in ReachableEndpoints(p) <=>
          n \in Nodes(p.role) /\ n \in p.api_nodes /\ port \in p.ports.public
    BY <1>2, ReachableIs, PublicPortsServed DEF ReachableEndpoints
  <1>4. \A e \in Endpoints(s, ps, profile) : e = <<e[1], e[2]>>
    BY DEF Endpoints
  <1>5. \A e \in ReachableEndpoints(p) : e = <<e[1], e[2]>>
    BY DEF ReachableEndpoints
  <1>6. Endpoints(s, ps, profile) \subseteq ReachableEndpoints(p)
    BY <1>2, <1>3, <1>4, ApiNodesOf, PicksAre
  <1>7. ASSUME p.role.name = s.target, NEW n, NEW port, <<n, port>> \in ReachableEndpoints(p)
        PROVE  <<n, port>> \in Endpoints(s, ps, profile)
    <2>1. Pool(s, ps).ports = p.ports.public
      BY <1>1, <1>7 DEF Pool
    <2>2. EndpointFilter(s, ps, profile) = p.api_nodes
      BY <1>2, ApiNodesOf DEF EndpointFilter
    <2>3. Selects(Pool(s, ps).selector, PodLabels(s, p, n))
      BY <1>7, PoolSelects
    <2>4. n \in p.api_nodes /\ port \in p.ports.public
      BY <1>3, <1>7
    <2> QED BY <1>2, <2>1, <2>2, <2>3, <2>4 DEF Endpoints, ActivePorts
  <1> QED BY <1>5, <1>6, <1>7
-----------------------------------------------------------------------------
(***************************************************************************)
(* What a plan says of its role: the defaults that it went through, and    *)
(* the accelerator that it fits on.                                        *)
(***************************************************************************)

\* The steps of apply_topology_defaults and apply_cluster_defaults, for a role.
LEMMA ProxyBaseServes == ASSUME NEW r, ParsedServing(r) PROVE Defaults(WithProxyBase(r))
  BY DEF ParsedServing, Defaults, WithProxyBase
LEMMA ProxiedServes == ASSUME NEW r, Defaults(r) PROVE Defaults(Proxied(r))
  BY DEF ParsedServing, Defaults, Proxied
LEMMA DpModeServes == ASSUME NEW r, Defaults(r), NEW m PROVE Defaults([r EXCEPT !.dp_mode = m])
  BY DEF ParsedServing, Defaults
LEMMA SizingServes ==
  ASSUME NEW r, Defaults(r), NEW q, DOMAIN q = DOMAIN r,
         <<q.public, q.backend, q.proxy, q.replicas, q.mem>> = <<r.public, r.backend, r.proxy, r.replicas, r.mem>>,
         {q.gpus, q.cpus} \subseteq Nat \cup {Derived}
  PROVE  Defaults(q)
  BY DEF ParsedServing, Defaults

AllDefaults(s) == \A i \in DOMAIN s.roles : Defaults(s.roles[i])
LEMMA DefaultsReached ==
  ASSUME NEW s, ParsedSpec(s), \A i \in DOMAIN s.roles : ParsedServing(s.roles[i])
  PROVE  AllDefaults(Defaulted(s))
  <1> DEFINE a == MapRoles(s, WithProxyBase) b == WithRouting(a) c == WithDecodeProxy(b) d == WithDpMode(c)
  <1>1. ParsedSpec(a) /\ AllDefaults(a)
    <2>1. ParsedSpec(a)
      BY ProxyBaseKeeps, SameSpecIsParsed
    <2>2. a.roles = [i \in DOMAIN s.roles |-> WithProxyBase(s.roles[i])]
      BY DEF MapRoles, ParsedSpec
    <2> QED BY <2>1, <2>2, ProxyBaseServes DEF AllDefaults
  <1> HIDE DEF a
  <1>2. ParsedSpec(b) /\ AllDefaults(b)
    <2>1. ParsedSpec(b)
      BY <1>1, RoutingKeeps, SameSpecIsParsed
    <2>2. b.roles = a.roles
      BY <1>1 DEF WithRouting, ParsedSpec
    <2> QED BY <1>1, <2>1, <2>2 DEF AllDefaults
  <1> HIDE DEF b
  <1>3. ParsedSpec(c) /\ AllDefaults(c)
    <2>1. ParsedSpec(c)
      BY <1>2, DecodeProxyKeeps, SameSpecIsParsed
    <2>2. c.roles = [i \in DOMAIN b.roles |->
                       IF b.topology = "pd" /\ b.roles[i].name = "decode" THEN Proxied(b.roles[i]) ELSE b.roles[i]]
      BY <1>2 DEF MapRoles, WithDecodeProxy, ParsedSpec
    <2> QED BY <1>2, <2>1, <2>2, ProxiedServes DEF AllDefaults
  <1> HIDE DEF c
  <1>4. AllDefaults(d)
    <2>1. d.roles = [i \in DOMAIN c.roles |-> [c.roles[i] EXCEPT !.dp_mode = DpMode(c, c.roles[i])]]
      BY <1>3 DEF MapRoles, WithDpMode, ParsedSpec
    <2>2. ASSUME NEW i \in DOMAIN c.roles PROVE Defaults(d.roles[i])
      <3> DEFINE m == DpMode(c, c.roles[i]) q == c.roles[i]
      <3>1. Defaults(q) /\ d.roles[i] = [q EXCEPT !.dp_mode = m]
        BY <1>3, <2>1 DEF AllDefaults
      <3> HIDE DEF m, q, d
      <3> QED BY <3>1, DpModeServes
    <2>3. DOMAIN d.roles = DOMAIN c.roles
      BY <2>1
    <2> HIDE DEF d
    <2> QED BY <2>2, <2>3 DEF AllDefaults
  <1> QED BY <1>4 DEF a, b, c, d, Defaulted
LEMMA SizedServes ==
  ASSUME NEW s, ParsedSpec(s), AllDefaults(s), \A i \in DOMAIN s.roles : Sound(s.roles[i])
  PROVE  AllDefaults(Sized(s))
  <1> DEFINE F(r) == [r EXCEPT !.gpus = IF r.gpus = Derived THEN GpusPerPod(r) ELSE r.gpus,
                               !.cpus = IF r.cpus = Derived THEN 6 + 2 * GpusPerPod(r) ELSE r.cpus]
             e == [i \in DOMAIN s.roles |-> F(s.roles[i])]
  <1>1. Sized(s).roles = e
    BY DEF MapRoles, Sized, ParsedSpec
  <1>2. ASSUME NEW i \in DOMAIN s.roles PROVE Defaults(e[i])
    <2> DEFINE q == s.roles[i] g == GpusPerPod(q)
    <2>1. g \in Nat /\ 6 + 2 * g \in Nat /\ Defaults(q)
      BY <1>2, GpusAreCounted DEF AllDefaults
    <2>2. e[i] = F(q)
      <3> HIDE DEF F
      <3> QED BY <1>2
    <2> HIDE DEF e, q
    <2>3. DOMAIN F(q) = DOMAIN q /\ {"gpus", "cpus"} \subseteq DOMAIN q
      BY <2>1 DEF Defaults, ParsedServing
    <2>4. <<F(q).public, F(q).backend, F(q).proxy, F(q).replicas, F(q).mem>>
            = <<q.public, q.backend, q.proxy, q.replicas, q.mem>>
      BY <2>1 DEF Defaults, ParsedServing
    <2>5. {F(q).gpus, F(q).cpus} \subseteq Nat \cup {Derived}
      BY <2>1, <2>3 DEF Defaults, ParsedServing
    <2> HIDE DEF F
    <2> QED BY <2>1, <2>2, <2>3, <2>4, <2>5, SizingServes
  <1>3. DOMAIN e = DOMAIN s.roles
    OBVIOUS
  <1> HIDE DEF e
  <1> QED BY <1>1, <1>2, <1>3 DEF AllDefaults

\* Every role of s fits on a node of the cluster's accelerator.
Accelerated(s, c) ==
  /\ AcceleratorName(s, c) \in DOMAIN c.accelerators
  /\ \A i \in DOMAIN s.roles : GpusPerPod(s.roles[i]) <= Accelerator(s, c).gpus_per_node
LEMMA SizingFits ==
  ASSUME NEW s, ParsedSpec(s), NEW c, Accelerated(s, c)
  PROVE  Accelerated(Sized(s), c)
  <1>1. SameLayouts(s, Sized(s))
    BY SizingKeeps
  <1>2. Sized(s).accelerator = s.accelerator
    BY DEF Sized, MapRoles, ParsedSpec
  <1>3. AcceleratorName(Sized(s), c) = AcceleratorName(s, c)
    BY <1>2 DEF AcceleratorName
  <1>4. \A i \in DOMAIN s.roles : GpusPerPod(Sized(s).roles[i]) = GpusPerPod(s.roles[i])
    BY <1>1 DEF SameLayouts, SameLayout, GpusPerPod, WorldGpus, RankGpus, DpSize
  <1> QED BY <1>1, <1>3, <1>4 DEF Accelerated, Accelerator, SameLayouts
-----------------------------------------------------------------------------
(***************************************************************************)
(* The inductive invariant of what is rendered: a plan is that of its role *)
(* for the profile of the request, its role went through the defaults and  *)
(* fits the accelerator, and nothing is rendered unchecked.                *)
(***************************************************************************)
Requested(c) == \E q \in Requests : c = q[2]
RolesAreServed ==
  /\ stage = "parsed" => \A i \in DOMAIN spec.roles : ParsedServing(spec.roles[i])
  /\ stage \in {"loaded", "sized"} => AllDefaults(spec)
  /\ stage \in {"parsed", "loaded", "sized"} \/ plans # <<>> => Requested(cluster)
  /\ stage = "sized" \/ plans # <<>> => ParsedSpec(spec) /\ Accelerated(spec, cluster)
PlansAreMade ==
  \A i \in DOMAIN plans :
    i \in DOMAIN spec.roles /\ plans[i] = Plan(spec, cluster, spec.roles[i]) /\ Defaults(plans[i].role)
RenderedIsChecked ==
  /\ plans # <<>> => stage \in {"sized", "rendered", "rejected"}
  /\ stage = "rendered" /\ plans # <<>> =>
       /\ Len(plans) = Len(spec.roles)
       /\ IF cluster.platform = "slurm" THEN CanBatch(spec, cluster, plans) ELSE CanRoute(spec, plans)
Made == TypeInv /\ RolesAreServed /\ PlansAreMade /\ RenderedIsChecked

LEMMA MadeInit == Init => Made
  <1> SUFFICES ASSUME Init PROVE Made
    OBVIOUS
  <1>1. plans = <<>> /\ stage \in {"parsed", "workload"}
    BY DEF Init
  <1>2. stage = "parsed" => \E q \in Requests : spec = q[1] /\ cluster = q[2]
    BY DEF Init
  <1>3. stage = "parsed" => (\A i \in DOMAIN spec.roles : ParsedServing(spec.roles[i])) /\ Requested(cluster)
    BY <1>2, RequestsAssumption DEF Roles, Requested
  <1>4. RolesAreServed
    BY <1>1, <1>3 DEF RolesAreServed
  <1>5. PlansAreMade /\ RenderedIsChecked
    BY <1>1 DEF PlansAreMade, RenderedIsChecked
  <1> QED BY <1>4, <1>5, TypeInit DEF Made

LEMMA MadeNext == Made /\ [Next]_vars => Made'
  <1> SUFFICES ASSUME Made, [Next]_vars PROVE Made'
    OBVIOUS
  <1>1. TypeInv /\ TypeInv' /\ RolesAreServed /\ PlansAreMade /\ RenderedIsChecked
    BY TypeNext DEF Made
  <1>2. Inv /\ ListsAreKept
    BY <1>1 DEF TypeInv
  <1>3. CASE AcceptSpec
    <2>1. /\ plans = <<>> /\ stage = "parsed" /\ ParsedSpec(spec)
          /\ stage' = "loaded" /\ spec' = Defaulted(spec) /\ UNCHANGED <<cluster, plans>>
      BY <1>2, <1>3 DEF AcceptSpec, ListsAreKept, Inv, SpecIsSound
    <2>2. AllDefaults(spec') /\ Requested(cluster)
      BY <1>1, <2>1, DefaultsReached DEF RolesAreServed
    <2>3. RolesAreServed'
      BY <2>1, <2>2 DEF RolesAreServed
    <2>4. PlansAreMade' /\ RenderedIsChecked'
      BY <2>1 DEF PlansAreMade, RenderedIsChecked
    <2> QED BY <1>1, <2>3, <2>4 DEF Made
  <1>4. CASE FitCluster
    <2>1. /\ plans = <<>> /\ stage = "loaded" /\ ParsedSpec(spec)
          /\ stage' = "sized" /\ spec' = Sized(spec) /\ UNCHANGED <<cluster, plans>>
      BY <1>2, <1>4 DEF FitCluster, ListsAreKept, Inv, SpecIsSound
    <2>2. FitsCluster(spec, cluster)
      BY <1>4 DEF FitCluster, Fits
    <2>3. Accelerated(spec, cluster) /\ \A i \in DOMAIN spec.roles : Sound(spec.roles[i])
      BY <2>1, <2>2 DEF Accelerated, FitsCluster, ParsedSpec, Roles, Sound
    <2>4. AllDefaults(spec) /\ Requested(cluster)
      BY <1>1, <2>1 DEF RolesAreServed
    <2>5. AllDefaults(spec') /\ Accelerated(spec', cluster) /\ ParsedSpec(spec')
      BY <2>1, <2>3, <2>4, SizedServes, SizingFits, SizingKeeps, SameSpecIsParsed
    <2>6. RolesAreServed'
      BY <2>1, <2>4, <2>5 DEF RolesAreServed
    <2>7. PlansAreMade' /\ RenderedIsChecked'
      BY <2>1 DEF PlansAreMade, RenderedIsChecked
    <2> QED BY <1>1, <2>6, <2>7 DEF Made
  <1>5. CASE ResolveRole
    <2> DEFINE n == Len(plans) + 1
    <2>1. n \in DOMAIN spec.roles /\ stage = "sized" /\ UNCHANGED <<stage, spec, cluster>>
      BY <1>2, <1>5 DEF ResolveRole, Inv, SpecIsSound, PlansAreSound, ParsedSpec
    <2> DEFINE p == Plan(spec, cluster, spec.roles[n])
    <2>2. p.role = spec.roles[n]
      BY DEF Plan
    <2>3. plans' = Append(plans, p) /\ plans \in Seq({plans[i] : i \in DOMAIN plans})
      BY <1>2, <1>5 DEF ResolveRole, NextRole, Inv, PlansAreSound
    <2>4. Defaults(p.role)
      BY <1>1, <2>1, <2>2 DEF RolesAreServed, AllDefaults
    <2>5. PlansAreMade'
      <3>1. \A i \in DOMAIN plans' : IF i = n THEN plans'[i] = p ELSE i \in DOMAIN plans /\ plans'[i] = plans[i]
        <4> HIDE DEF p
        <4> QED BY <2>3
      <3>2. ASSUME NEW i \in DOMAIN plans'
            PROVE  /\ i \in DOMAIN spec.roles /\ plans'[i] = Plan(spec, cluster, spec.roles[i])
                   /\ Defaults(plans'[i].role)
        <4>1. CASE i = n
          <5>1. plans'[i] = p
            BY <3>1, <3>2, <4>1
          <5> QED BY <2>1, <2>4, <4>1, <5>1
        <4>2. CASE i # n
          <5>1. i \in DOMAIN plans /\ plans'[i] = plans[i]
            BY <3>1, <3>2, <4>2
          <5> QED BY <1>1, <5>1 DEF PlansAreMade
        <4> QED BY <4>1, <4>2
      <3> QED BY <2>1, <3>2 DEF PlansAreMade
    <2>6. RolesAreServed'
      BY <1>1, <2>1 DEF RolesAreServed
    <2>7. RenderedIsChecked'
      BY <2>1 DEF RenderedIsChecked
    <2> QED BY <1>1, <2>5, <2>6, <2>7 DEF Made
  <1>6. CASE RenderRole \/ Reject \/ UNCHANGED vars
    <2>1. UNCHANGED <<spec, cluster, plans>> /\ stage' \in {stage, "rejected"}
      BY <1>6 DEF RenderRole, Reject, vars
    <2>2. RolesAreServed' /\ PlansAreMade' /\ RenderedIsChecked'
      BY <1>1, <2>1 DEF RolesAreServed, PlansAreMade, RenderedIsChecked
    <2> QED BY <1>1, <2>2 DEF Made
  <1>7. CASE RenderRouting \/ RenderBatch
    <2>1. UNCHANGED <<spec, cluster, plans>> /\ stage' = "rendered" /\ stage = "sized" /\ Len(plans) = Len(spec.roles)
      BY <1>7 DEF RenderRouting, RenderBatch, Resolved
    <2>2. IF cluster.platform = "slurm" THEN CanBatch(spec, cluster, plans) ELSE CanRoute(spec, plans)
      BY <1>7 DEF RenderRouting, RenderBatch
    <2>3. RolesAreServed' /\ PlansAreMade'
      BY <1>1, <2>1 DEF RolesAreServed, PlansAreMade
    <2>4. RenderedIsChecked'
      BY <2>1, <2>2 DEF RenderedIsChecked
    <2> QED BY <1>1, <2>3, <2>4 DEF Made
  <1>8. CASE \E q \in Workloads : LowerWorkload(q)
    <2>1. UNCHANGED <<spec, cluster, plans>> /\ stage = "workload" /\ stage' = "rendered"
      BY <1>8 DEF LowerWorkload
    <2>2. plans = <<>>
      BY <1>2, <2>1 DEF ListsAreKept
    <2> QED BY <1>1, <2>1, <2>2 DEF Made, RolesAreServed, PlansAreMade, RenderedIsChecked
  <1> QED BY <1>3, <1>4, <1>5, <1>6, <1>7, <1>8 DEF Next
LEMMA MadeAlways == Spec => []Made
  BY MadeInit, MadeNext, PTL DEF Spec

LEMMA MadeIsPlanned == ASSUME Made, NEW i \in DOMAIN plans PROVE Planned(plans[i])
  <1>1. plans[i] = Plan(spec, cluster, spec.roles[i]) /\ Defaults(plans[i].role) /\ Sound(plans[i].role)
    BY DEF Made, PlansAreMade, TypeInv, Inv, PlansAreSound
  <1> QED BY <1>1 DEF Planned, Plan

\* Nodes of at most a hundred GPUs: the default port bases are a hundred apart,
\* and dp_ports.py bounds nothing itself.
NodesAreSmall ==
  \A q \in Requests : \A a \in DOMAIN q[2].accelerators : q[2].accelerators[a].gpus_per_node \in 0 .. 100

\* Whatever the numbers of ranks, nodes, replicas and roles: probes, watcher,
\* Service and discovery file name exactly the servers that the launch scripts
\* start, and a Slurm task meets at the head of its own replica.
THEOREM AddressedAreServed == Spec => []AddressesAreServed
  <1>1. Made => AddressesAreServed
    <2> SUFFICES ASSUME Made, plans # <<>>
                 PROVE  /\ DiscoveryIsExact(plans) /\ LeadersLead(plans)
                        /\ EndpointsAgree(spec, plans)
      BY DEF AddressesAreServed
    <2>1. \A i \in DOMAIN plans : Planned(plans[i])
      BY MadeIsPlanned
    <2>2. \A p \in Range(plans) : Planned(p)
      BY <2>1 DEF Range
    <2>3. DiscoveryIsExact(plans)
      BY <2>2, DiscoveredIsServing, ProxiesCounted DEF DiscoveryIsExact
    <2>4. LeadersLead(plans)
      BY <2>2, LeaderOf DEF LeadersLead
    <2>5. EndpointsAgree(spec, plans)
      BY <2>1, EndpointsDoAgree
    <2> QED BY <2>3, <2>4, <2>5
  <1> QED BY <1>1, MadeAlways, PTL

\* The endpoint picker never picks a port that nothing serves and knows every
\* server of the target role, for every routed spec that render_kubernetes
\* accepts (routing.py, render/routing.py).
THEOREM PickedAreServed == Spec => []PicksAreServed
  <1>1. Made => PicksAreServed
    <2> SUFFICES ASSUME Made, stage = "rendered", plans # <<>>, Routed(spec), cluster.platform # "slurm"
                 PROVE  NoDeadEndpoint(spec, plans)
      BY DEF PicksAreServed
    <2>1. Len(plans) = Len(spec.roles) /\ CanRoute(spec, plans)
      BY DEF Made, RenderedIsChecked
    <2>2. \A i \in DOMAIN plans : plans[i] = Plan(spec, cluster, spec.roles[i])
      BY DEF Made, PlansAreMade
    <2>3. ASSUME NEW i \in DOMAIN plans PROVE Planned(plans[i]) /\ plans[i].llm_d
      <3>1. plans[i].llm_d = ("llm-d" \in Enabled(spec, spec.roles[i]))
        BY <2>2 DEF Plan
      <3> QED BY <3>1, MadeIsPlanned, RoutedIsLlmD
    <2>4. DOMAIN plans = DOMAIN spec.roles
      <3>1. plans \in Seq({plans[i] : i \in DOMAIN plans})
        BY DEF Made, TypeInv, Inv, PlansAreSound
      <3>2. spec.roles \in Seq(Roles(spec))
        BY DEF Made, RolesAreServed, ParsedSpec
      <3> QED BY <2>1, <3>1, <3>2
    <2>5. ASSUME NEW profile \in DOMAIN ProfileRoles(spec)
          PROVE  \E i \in DOMAIN plans : plans[i].role.name = ProfileRoles(spec)[profile]
      <3>1. ProfileRoles(spec)[profile] \in Range(ProfileRoles(spec))
        BY DEF Range
      <3>2. ProfileRoles(spec)[profile] \in RoleNames(spec)
        BY <2>1, <3>1 DEF CanRoute
      <3>3. PICK i \in DOMAIN spec.roles : spec.roles[i].name = ProfileRoles(spec)[profile]
        BY <3>2 DEF RoleNames, Roles
      <3>4. plans[i].role = spec.roles[i]
        BY <2>4 DEF Made, TypeInv, TypeOK
      <3> QED BY <2>4, <3>3, <3>4
    <2> QED BY <2>3, <2>5, NoPickIsDead
  <1> QED BY <1>1, MadeAlways, PTL

\* On no node of a job do the steps need more than was reserved, nor bind a
\* port of the router, for every spec that render_slurm accepts.
THEOREM StepsAlwaysFit == Spec => []SlurmStepsFit
  <1>1. Made => SlurmStepsFit
    <2> SUFFICES ASSUME Made, stage = "rendered", plans # <<>>, cluster.platform = "slurm"
                 PROVE  StepsFit(spec, cluster, plans)
      BY DEF SlurmStepsFit
    <2>1. CanBatch(spec, cluster, plans) /\ Requested(cluster)
      BY DEF Made, RenderedIsChecked, RolesAreServed
    <2>2. ParsedCluster(cluster)
      BY <2>1, RequestsAssumption DEF Requested
    <2> QED BY <2>1, <2>2, MadeIsPlanned, StepsFitReserved
  <1> QED BY <1>1, MadeAlways, PTL

\* Nothing in a pod binds a port twice with the default port bases, on nodes of
\* up to a hundred GPUs (dp_ports.py, launch.py, render/lws.py).
THEOREM PortsBoundOnce == ASSUME NodesAreSmall PROVE Spec => []NoPortBoundTwice
  <1>1. Made => NoPortBoundTwice
    <2> SUFFICES ASSUME Made, NEW i \in DOMAIN plans PROVE PortsDoNotCollide(plans[i])
      BY DEF NoPortBoundTwice
    <2>1. plans # <<>> /\ Planned(plans[i])
      BY MadeIsPlanned
    <2>2. Accelerated(spec, cluster) /\ Requested(cluster)
      BY <2>1 DEF Made, RolesAreServed
    <2>3. Accelerator(spec, cluster).gpus_per_node \in 0 .. 100
      BY <2>2, NodesAreSmall DEF NodesAreSmall, Requested, Accelerated, Accelerator
    <2>4. plans[i].role = spec.roles[i] /\ i \in DOMAIN spec.roles
      BY DEF Made, TypeInv, TypeOK, PlansAreMade
    <2>5. Sound(plans[i].role) /\ GpusPerPod(plans[i].role) \in Nat
      BY <2>1, GpusAreCounted DEF Planned
    <2>6. GpusPerPod(plans[i].role) <= Accelerator(spec, cluster).gpus_per_node
      BY <2>2, <2>4 DEF Accelerated
    <2>7. RankCount(plans[i].role, plans[i].ext) <= GpusPerPod(plans[i].role)
      BY <2>5, LocalRanksFit
    <2>8. RankCount(plans[i].role, plans[i].ext) \in Nat
      BY <2>5, PortCounts
    <2>9. RankCount(plans[i].role, plans[i].ext) <= 100
      BY <2>3, <2>5, <2>6, <2>7, <2>8
    <2> QED BY <2>1, <2>9, PortsApart
  <1> QED BY <1>1, MadeAlways, PTL
-----------------------------------------------------------------------------
(***************************************************************************)
(* Paths and volumes, for every combination of the storage a profile has.  *)
(***************************************************************************)
HasMount(c, kind, path) == \E m \in PodMounts(c, kind) : m[2] = path

LEMMA BaseIsMounted ==
  ASSUME NEW c, NEW kind
  PROVE  /\ c.storage.host => HasMount(c, kind, "/var/cache/huggingface") /\ HasMount(c, kind, "/var/cache/vllm")
         /\ ~c.storage.host /\ c.storage.shared => HasMount(c, kind, "/mnt/shared")
         /\ ~c.storage.host /\ c.storage.nvme => HasMount(c, kind, "/mnt/local")
  <1>1. BaseMounts(c) \subseteq PodMounts(c, kind)
    BY DEF PodMounts, VolumeMounts
  <1>2. c.storage.host => /\ <<"hf-cache", "/var/cache/huggingface">> \in BaseMounts(c)
                          /\ <<"jit-cache", "/var/cache/vllm">> \in BaseMounts(c)
    BY DEF BaseMounts
  <1>3. ~c.storage.host /\ c.storage.shared => <<"shared-storage", "/mnt/shared">> \in BaseMounts(c)
    BY DEF BaseMounts
  <1>4. ~c.storage.host /\ c.storage.nvme => <<"local-nvme", "/mnt/local">> \in BaseMounts(c)
    BY DEF BaseMounts
  <1>5. ASSUME NEW name, NEW path, <<name, path>> \in BaseMounts(c) PROVE HasMount(c, kind, path)
    BY <1>1, <1>5 DEF HasMount
  <1> QED BY <1>2, <1>3, <1>4, <1>5
LEMMA LogsAreMounted ==
  ASSUME NEW c, c.storage.logs, NEW kind
  PROVE  HasMount(c, kind, c.storage.logs_at)
  <1>1. CASE LogsMounted(c)
    <2>1. <<"logs", c.storage.logs_at>> \in PodMounts(c, kind)
      BY <1>1 DEF PodMounts, VolumeMounts
    <2> QED BY <2>1 DEF HasMount
  <1>2. CASE ~LogsMounted(c)
    <2>1. PICK m \in BaseMounts(c) : m[2] = c.storage.logs_at
      BY <1>2 DEF LogsMounted
    <2>2. m \in PodMounts(c, kind)
      BY DEF PodMounts, VolumeMounts
    <2> QED BY <2>1, <2>2 DEF HasMount
  <1> QED BY <1>1, <1>2

LEMMA MountsHaveVolumes ==
  ASSUME NEW c, NEW kind, NEW m \in PodMounts(c, kind)
  PROVE  m[1] \in PodVolumes(c, kind)
  <1>1. CASE m \in BaseMounts(c)
    <2>1. m[1] \in BaseVolumes(c)
      BY <1>1 DEF BaseMounts, BaseVolumes
    <2> QED BY <2>1 DEF PodVolumes, Volumes
  <1>2. CASE LogsMounted(c) /\ m = <<"logs", c.storage.logs_at>>
    BY <1>2 DEF PodVolumes, Volumes
  <1>3. CASE PodCache(c, kind) /\ m = <<"pod-jit-cache", "/var/cache/manifesto-pod">>
    BY <1>3 DEF PodVolumes
  <1> QED BY <1>1, <1>2, <1>3 DEF PodMounts, VolumeMounts

LEMMA PathsHaveMounts ==
  ASSUME NEW c, c.platform # "slurm", LogsAreReachable(c), NEW kind
  PROVE  PathsAreMounted(c, kind)
  <1>1. HfHome(c) \in {"explicit", Nowhere} \/ HasMount(c, kind, HfHome(c))
    BY BaseIsMounted DEF HfHome
  <1>2. LogRoot(c) \in {"explicit", Nowhere} \/ HasMount(c, kind, LogRoot(c))
    BY BaseIsMounted, LogsAreMounted DEF LogRoot, UserRoot, LogsAreReachable
  <1>3. CacheRoot(c) \in {"explicit", Nowhere} \/ HasMount(c, kind, CacheRoot(c))
    BY BaseIsMounted DEF CacheRoot
  <1>4. PodCache(c, kind) => HasMount(c, kind, "/var/cache/manifesto-pod")
    <2>1. PodCache(c, kind) => <<"pod-jit-cache", "/var/cache/manifesto-pod">> \in PodMounts(c, kind)
      BY DEF PodMounts
    <2> QED BY <2>1 DEF HasMount
  <1>5. WritableCaches(c, kind) \in {"explicit", Nowhere} \/ HasMount(c, kind, WritableCaches(c, kind))
    BY <1>3, <1>4 DEF WritableCaches, PodCache
  <1> QED BY <1>1, <1>2, <1>5, MountsHaveVolumes DEF PathsAreMounted, HasMount

\* Each path that vLLM is told to use lies on a volume of its pod, for every
\* profile whose logs are reachable and every kind of workload (cluster.py).
THEOREM PathsAlwaysMounted == Spec => []PathsAreOnVolumes
  <1>1. PathsAreOnVolumes
    BY PathsHaveMounts DEF PathsAreOnVolumes
  <1> QED BY <1>1, PTL
-----------------------------------------------------------------------------
(***************************************************************************)
(* Claims: what attach_resource_claim adds to a template fits it.          *)
(***************************************************************************)
LEMMA Appended ==
  ASSUME NEW a, NEW b, a \in Seq(Range(a)), b \in Seq(Range(b))
  PROVE  /\ \A i \in DOMAIN (a \o b) :
              \/ i \in DOMAIN a /\ (a \o b)[i] = a[i]
              \/ i - Len(a) \in DOMAIN b /\ (a \o b)[i] = b[i - Len(a)]
         /\ \A i \in DOMAIN a : i \in DOMAIN (a \o b) /\ (a \o b)[i] = a[i]
         /\ \A j \in DOMAIN b : Len(a) + j \in DOMAIN (a \o b) /\ (a \o b)[Len(a) + j] = b[j]
         /\ DOMAIN a \subseteq Int /\ DOMAIN b \subseteq Int /\ DOMAIN (a \o b) \subseteq Int /\ Len(a) \in Int
  <1>1. a \in Seq(Range(a) \cup Range(b)) /\ b \in Seq(Range(a) \cup Range(b))
    OBVIOUS
  <1> DEFINE X == Range(a) \cup Range(b)
  <1> HIDE DEF X
  <1>2. a \in Seq(X) /\ b \in Seq(X)
    BY <1>1 DEF X
  <1>3. /\ DOMAIN a = 1 .. Len(a) /\ DOMAIN b = 1 .. Len(b) /\ DOMAIN (a \o b) = 1 .. (Len(a) + Len(b))
        /\ Len(a) \in Nat /\ Len(b) \in Nat
    BY <1>2
  <1>4. \A i \in 1 .. (Len(a) + Len(b)) : (a \o b)[i] = IF i <= Len(a) THEN a[i] ELSE b[i - Len(a)]
    BY <1>2, <1>3
  <1>5. \A i \in DOMAIN (a \o b) : \/ i \in DOMAIN a /\ (a \o b)[i] = a[i]
                                   \/ i - Len(a) \in DOMAIN b /\ (a \o b)[i] = b[i - Len(a)]
    BY <1>3, <1>4
  <1>6. \A i \in DOMAIN a : i \in DOMAIN (a \o b) /\ (a \o b)[i] = a[i]
    BY <1>3, <1>4
  <1>7. ASSUME NEW j \in DOMAIN b PROVE Len(a) + j \in DOMAIN (a \o b) /\ (a \o b)[Len(a) + j] = b[j]
    <2>1. j \in 1 .. Len(b) /\ Len(a) + j \in 1 .. (Len(a) + Len(b)) /\ ~(Len(a) + j <= Len(a))
      BY <1>3, <1>7
    <2>2. (a \o b)[Len(a) + j] = b[(Len(a) + j) - Len(a)] /\ (Len(a) + j) - Len(a) = j
      BY <1>3, <1>4, <2>1
    <2> QED BY <1>3, <2>1, <2>2
  <1> QED BY <1>3, <1>5, <1>6, <1>7

LEMMA AttachFits ==
  ASSUME NEW t, {"claims", "uses"} \subseteq DOMAIN t,
         t.claims \in Seq(Range(t.claims)), t.uses \in Seq(Range(t.uses)),
         NEW R, ClaimsFit(t, R),
         NEW C, C \in Seq(Range(C)), Free(t, C), \A i \in DOMAIN C : Generated(C[i][2]) => C[i][2] \in R
  PROVE  ClaimsFit(Attach(t, C), R)
  <1> DEFINE u == Attach(t, C) a == t.claims b == t.uses
             names == [i \in DOMAIN C |-> C[i][1]]
  <1>1. u.claims = a \o C /\ u.uses = b \o names
    BY DEF Attach
  <1>2. a \in Seq(Range(a)) /\ b \in Seq(Range(b)) /\ C \in Seq(Range(C)) /\ names \in Seq(Range(names))
    <2>1. DOMAIN names = DOMAIN C /\ DOMAIN C = 1 .. Len(C) /\ Len(C) \in Nat
      OBVIOUS
    <2>2. \A i \in DOMAIN names : names[i] \in Range(names)
      BY DEF Range
    <2>3. names = [i \in 1 .. Len(C) |-> names[i]]
      BY <2>1
    <2> HIDE DEF names
    <2>4. names \in Seq(Range(names))
      BY <2>1, <2>2, <2>3
    <2> QED BY <2>4
  <1>3. /\ \A i, j \in DOMAIN a : a[i][1] = a[j][1] => i = j
        /\ \A i, j \in DOMAIN C : C[i][1] = C[j][1] => i = j
        /\ \A i \in DOMAIN C, j \in DOMAIN a : C[i][1] # a[j][1]
    BY DEF ClaimsFit, Distinct, Free, ClaimNames
  <1>4. \A i \in DOMAIN b : \E j \in DOMAIN a : a[j][1] = b[i]
    BY DEF ClaimsFit
  <1>5. \A i \in DOMAIN a : Generated(a[i][2]) => a[i][2] \in R
    BY DEF ClaimsFit
  <1>6. DOMAIN names = DOMAIN C /\ \A i \in DOMAIN C : names[i] = C[i][1]
    OBVIOUS
  <1> HIDE DEF u, a, b, names
  <1>7. Distinct(u.claims)
    <2> SUFFICES ASSUME NEW i \in DOMAIN (a \o C), NEW j \in DOMAIN (a \o C), (a \o C)[i][1] = (a \o C)[j][1]
                 PROVE  i = j
      BY <1>1 DEF Distinct
    <2>1. /\ \/ i \in DOMAIN a /\ (a \o C)[i] = a[i]
             \/ i - Len(a) \in DOMAIN C /\ (a \o C)[i] = C[i - Len(a)]
          /\ \/ j \in DOMAIN a /\ (a \o C)[j] = a[j]
             \/ j - Len(a) \in DOMAIN C /\ (a \o C)[j] = C[j - Len(a)]
          /\ i \in Int /\ j \in Int /\ Len(a) \in Int
      <3>1. /\ \A k \in DOMAIN (a \o C) :
                  \/ k \in DOMAIN a /\ (a \o C)[k] = a[k]
                  \/ k - Len(a) \in DOMAIN C /\ (a \o C)[k] = C[k - Len(a)]
            /\ DOMAIN (a \o C) \subseteq Int /\ Len(a) \in Int
        BY <1>2, Appended
      <3> QED BY <3>1
    <2>2. CASE i \in DOMAIN a /\ (a \o C)[i] = a[i] /\ j \in DOMAIN a /\ (a \o C)[j] = a[j]
      BY <1>3, <2>2
    <2>3. CASE /\ i - Len(a) \in DOMAIN C /\ (a \o C)[i] = C[i - Len(a)]
               /\ j - Len(a) \in DOMAIN C /\ (a \o C)[j] = C[j - Len(a)]
      <3>1. i - Len(a) = j - Len(a)
        BY <1>3, <2>3
      <3> QED BY <2>1, <3>1
    <2>4. ~ (i \in DOMAIN a /\ (a \o C)[i] = a[i] /\ j - Len(a) \in DOMAIN C /\ (a \o C)[j] = C[j - Len(a)])
      BY <1>3
    <2>5. ~ (j \in DOMAIN a /\ (a \o C)[j] = a[j] /\ i - Len(a) \in DOMAIN C /\ (a \o C)[i] = C[i - Len(a)])
      BY <1>3
    <2> QED BY <2>1, <2>2, <2>3, <2>4, <2>5
  <1>8. ASSUME NEW i \in DOMAIN u.uses PROVE \E j \in DOMAIN u.claims : u.claims[j][1] = u.uses[i]
    <2>1. CASE i \in DOMAIN b /\ (b \o names)[i] = b[i]
      <3>1. PICK j \in DOMAIN a : a[j][1] = b[i]
        BY <1>4, <2>1
      <3>2. j \in DOMAIN (a \o C) /\ (a \o C)[j] = a[j]
        BY <1>2, Appended
      <3> QED BY <1>1, <2>1, <3>1, <3>2
    <2>2. CASE i - Len(b) \in DOMAIN names /\ (b \o names)[i] = names[i - Len(b)]
      <3> DEFINE j == i - Len(b)
      <3>1. j \in DOMAIN C /\ u.uses[i] = C[j][1]
        BY <1>1, <1>6, <2>2
      <3>2. Len(a) + j \in DOMAIN (a \o C) /\ (a \o C)[Len(a) + j] = C[j]
        BY <1>2, <3>1, Appended
      <3> QED BY <1>1, <3>1, <3>2
    <2>3. \/ i \in DOMAIN b /\ (b \o names)[i] = b[i]
          \/ i - Len(b) \in DOMAIN names /\ (b \o names)[i] = names[i - Len(b)]
      BY <1>1, <1>2, <1>8, Appended
    <2> QED BY <2>1, <2>2, <2>3
  <1>9. ASSUME NEW i \in DOMAIN u.claims, Generated(u.claims[i][2]) PROVE u.claims[i][2] \in R
    <2>1. \/ i \in DOMAIN a /\ (a \o C)[i] = a[i]
          \/ i - Len(a) \in DOMAIN C /\ (a \o C)[i] = C[i - Len(a)]
      BY <1>1, <1>2, <1>9, Appended
    <2> QED BY <1>1, <1>5, <1>9, <2>1
  <1> QED BY <1>7, <1>8, <1>9 DEF ClaimsFit, u
LEMMA FitsWithMore ==
  ASSUME NEW t, NEW R, NEW Q, R \subseteq Q, ClaimsFit(t, R) PROVE ClaimsFit(t, Q)
  BY DEF ClaimsFit
-----------------------------------------------------------------------------
(***************************************************************************)
(* Lowering a workload whose templates fit the claim templates T.          *)
(***************************************************************************)
FitTemplate(t, T) ==
  /\ {"labels", "placement", "claims", "uses", "gpus"} \subseteq DOMAIN t
  /\ t.claims \in Seq(Range(t.claims)) /\ t.uses \in Seq(Range(t.uses))
  /\ ClaimsFit(t, T)
FitWorkload(w, T) ==
  /\ w.backend \in {"job", "deployment", "leaderworkerset", "grove"} /\ w.count \in Nat
  /\ \A t \in Templates(w) : FitTemplate(t, T)
FitSettings(S) ==
  S.claims \in Seq(Range(S.claims)) /\ \A i \in DOMAIN S.claims : ~Generated(S.claims[i][2])

LEMMA SeqOfRange == ASSUME NEW X, NEW s \in Seq(X) PROVE s \in Seq(Range(s))
  BY DEF Range
LEMMA ImexFits == ASSUME NEW c PROVE FitSettings(Settings(c)) /\ ImexClaim(c) \in Seq(Range(ImexClaim(c)))
  <1>1. Settings(c).claims = ImexClaim(c)
    BY DEF Settings
  <1>2. CASE c.imex
    <2> DEFINE X == {<<"compute-domain-channel", <<"imex">>>>}
    <2>1. ImexClaim(c) = <<<<"compute-domain-channel", <<"imex">>>>>>
      BY <1>2 DEF ImexClaim
    <2>2. ImexClaim(c) \in Seq(X) /\ DOMAIN ImexClaim(c) = {1} /\ ImexClaim(c)[1][2] = <<"imex">>
      BY <2>1
    <2>3. ~Generated(<<"imex">>)
      BY DEF Generated
    <2>4. \A i \in DOMAIN ImexClaim(c) : ~Generated(ImexClaim(c)[i][2])
      BY <2>2, <2>3
    <2>5. ImexClaim(c) \in Seq(Range(ImexClaim(c)))
      BY <2>2, SeqOfRange
    <2> QED BY <1>1, <2>4, <2>5 DEF FitSettings
  <1>3. CASE ~c.imex
    <2>1. ImexClaim(c) = <<>>
      BY <1>3 DEF ImexClaim
    <2> QED BY <1>1, <2>1 DEF FitSettings
  <1> QED BY <1>2, <1>3

\* Only the queue labels of a LeaderWorkerSet's pods go, nothing else changes.
LEMMA UnqueuedIs ==
  ASSUME NEW w, NEW t, NEW T, FitTemplate(t, T)
  PROVE  /\ FitTemplate(Unqueued(w, t), T)
         /\ w.backend = "leaderworkerset" => {Queue, Priority} \cap DOMAIN Unqueued(w, t).labels = {}
         /\ w.backend # "leaderworkerset" => Unqueued(w, t) = t
  <1>1. CASE w.backend = "leaderworkerset"
    <2> DEFINE L == Without(t.labels, {Queue, Priority}) u == [t EXCEPT !.labels = L]
    <2>1. Unqueued(w, t) = u
      BY <1>1 DEF Unqueued
    <2>2. DOMAIN L = DOMAIN t.labels \ {Queue, Priority}
      BY DEF Without, Restrict
    <2> HIDE DEF L
    <2>3. u.labels = L /\ DOMAIN u = DOMAIN t /\ u.claims = t.claims /\ u.uses = t.uses
      BY DEF FitTemplate
    <2> HIDE DEF u
    <2>4. FitTemplate(u, T)
      BY <2>3 DEF FitTemplate, ClaimsFit
    <2> QED BY <1>1, <2>1, <2>2, <2>3, <2>4
  <1> QED BY <1>1 DEF Unqueued

\* _apply_settings keeps the labels, and its claims fit.
LEMMA AppliedIs ==
  ASSUME NEW w, w.count \in Nat, NEW S, FitSettings(S), NEW accelerator,
         NEW t, NEW T, FitTemplate(t, T), CanApply(w, S, accelerator, t)
  PROVE  LET u == Applied(w, S, accelerator, t)
         IN u.labels = t.labels /\ ClaimsFit(u, T \cup AppliedTemplates(w, S, accelerator))
  <1> DEFINE a == S.accelerators[Selected(S, accelerator)]
             R == T \cup AppliedTemplates(w, S, accelerator)
             placement == Over(t.placement, Over(a.placement, S.placement))
             placed == [t EXCEPT !.placement = placement]
             C == Claims(w, S, a)
             attached == Attach(placed, C)
             gpus == IF a.alloc = "extended" THEN w.count ELSE attached.gpus
             u == Applied(w, S, accelerator, t)
  <1>1. u = IF w.count = 0 THEN placed ELSE [attached EXCEPT !.gpus = gpus]
    BY DEF Applied
  <1>2. /\ DOMAIN placed = DOMAIN t /\ placed.labels = t.labels
        /\ placed.claims = t.claims /\ placed.uses = t.uses
    <2> HIDE DEF placement
    <2> QED BY DEF FitTemplate
  <1>3. ClaimsFit(placed, R)
    <2> HIDE DEF placed
    <2> QED BY <1>2, FitsWithMore DEF FitTemplate, ClaimsFit
  <1>4. CASE w.count = 0
    BY <1>1, <1>2, <1>3, <1>4
  <1>5. CASE w.count # 0
    <2>1. Free(t, C)
      BY <1>5 DEF CanApply
    <2>2. Free(placed, C)
      <3> HIDE DEF placed, C
      <3> QED BY <1>2, <2>1 DEF Free, ClaimNames
    <2> DEFINE template == ClaimTemplate(w.name, w.labels, a.alloc, w.count)
               extra == IF a.alloc = "dra" THEN <<<<"accelerator", template>>>> ELSE <<>>
    <2>3. C = S.claims \o extra
      BY DEF Claims
    <2>4. /\ extra \in Seq({<<"accelerator", template>>})
          /\ \A i \in DOMAIN extra : extra[i][2] = template /\ a.alloc = "dra"
      <3> HIDE DEF template
      <3>1. CASE a.alloc = "dra"
        <4>1. extra = <<<<"accelerator", template>>>>
          BY <3>1
        <4> HIDE DEF extra
        <4> QED BY <3>1, <4>1
      <3>2. CASE a.alloc # "dra"
        BY <3>2
      <3> QED BY <3>1, <3>2
    <2>5. a.alloc = "dra" => template \in R
      <3>1. w.count > 0
        BY <1>5
      <3> QED BY <3>1 DEF AppliedTemplates
    <2> HIDE DEF extra, template, a, R
    <2>6. extra \in Seq(Range(extra)) /\ S.claims \in Seq(Range(S.claims))
      BY <2>4, SeqOfRange DEF FitSettings
    <2>7. C \in Seq(Range(C))
      <3>1. S.claims \in Seq(Range(S.claims) \cup Range(extra)) /\ extra \in Seq(Range(S.claims) \cup Range(extra))
        BY <2>6
      <3> HIDE DEF C
      <3>2. C \in Seq(Range(S.claims) \cup Range(extra))
        BY <2>3, <3>1
      <3> QED BY <3>2, SeqOfRange
    <2>8. ASSUME NEW i \in DOMAIN C, Generated(C[i][2]) PROVE C[i][2] \in R
      <3>1. \/ i \in DOMAIN S.claims /\ C[i] = S.claims[i]
            \/ i - Len(S.claims) \in DOMAIN extra /\ C[i] = extra[i - Len(S.claims)]
        <4> HIDE DEF C
        <4> QED BY <2>3, <2>6, <2>8, Appended
      <3>2. ~(i \in DOMAIN S.claims /\ C[i] = S.claims[i])
        BY <2>8 DEF FitSettings
      <3> QED BY <2>4, <2>5, <3>1, <3>2
    <2>9. {"claims", "uses", "labels", "gpus"} \subseteq DOMAIN placed
      BY <1>2 DEF FitTemplate
    <2>10. placed.claims \in Seq(Range(placed.claims)) /\ placed.uses \in Seq(Range(placed.uses))
      BY <1>2 DEF FitTemplate
    <2> HIDE DEF placed, C
    <2>11. ClaimsFit(attached, R)
      BY <1>3, <2>2, <2>7, <2>8, <2>9, <2>10, AttachFits
    <2>12. attached.labels = placed.labels /\ DOMAIN attached = DOMAIN placed
      BY <2>9 DEF Attach
    <2> HIDE DEF attached, gpus, u
    <2>13. u = [attached EXCEPT !.gpus = gpus]
      BY <1>1, <1>5
    <2>14. u.labels = attached.labels /\ u.claims = attached.claims /\ u.uses = attached.uses
      BY <2>9, <2>12, <2>13
    <2>15. ClaimsFit(u, R)
      BY <2>11, <2>14 DEF ClaimsFit
    <2> QED BY <1>2, <2>12, <2>14, <2>15 DEF R, u
  <1> QED BY <1>4, <1>5
LEMMA PreparedIs ==
  ASSUME NEW w, w.count \in Nat, NEW settings, NEW accelerator, NEW t, NEW T, FitTemplate(t, T),
         settings # <<>> => FitSettings(settings[1]) /\ CanApply(w, settings[1], accelerator, Unqueued(w, t))
  PROVE  LET u == Prepared(w, settings, accelerator, t)
         IN /\ u.labels = Unqueued(w, t).labels
            /\ ClaimsFit(u, T \cup IF settings = <<>> THEN {} ELSE AppliedTemplates(w, settings[1], accelerator))
  <1>1. FitTemplate(Unqueued(w, t), T)
    BY UnqueuedIs
  <1>2. CASE settings = <<>>
    BY <1>1, <1>2 DEF Prepared, FitTemplate
  <1>3. CASE settings # <<>>
    BY <1>1, <1>3, AppliedIs DEF Prepared
  <1> QED BY <1>2, <1>3
LEMMA PreparedHas ==
  ASSUME NEW w, w.backend # "leaderworkerset", NEW settings, NEW accelerator, NEW t,
         {"labels", "placement", "claims", "uses", "gpus"} \subseteq DOMAIN t
  PROVE  {"labels", "claims", "uses"} \subseteq DOMAIN Prepared(w, settings, accelerator, t)
  <1>1. Unqueued(w, t) = t
    BY DEF Unqueued
  <1>2. CASE settings # <<>>
    BY <1>1, <1>2 DEF Prepared, Applied, Attach
  <1>3. CASE settings = <<>>
    BY <1>1, <1>3 DEF Prepared
  <1> QED BY <1>2, <1>3
\* What admission does to labels: it keeps them, and Kueue's name the queue.
LEMMA StampedIs ==
  ASSUME NEW labels, NEW name, NEW value
  PROVE  LET M == Stamped(labels, name, value)
         IN /\ DOMAIN labels \subseteq DOMAIN M /\ DOMAIN M \subseteq DOMAIN labels \cup {name}
            /\ \A n \in DOMAIN labels : n # name => M[n] = labels[n]
            /\ value # None => name \in DOMAIN M /\ M[name] = value
  <1> DEFINE one == [n \in {name} |-> value] M == Stamped(labels, name, value)
  <1>1. DOMAIN one = {name} /\ one[name] = value
    OBVIOUS
  <1>2. CASE value = None
    BY <1>2 DEF Stamped
  <1>3. CASE value # None
    <2>1. M = Over(one, labels)
      BY <1>3 DEF Stamped
    <2> HIDE DEF one
    <2> QED BY <1>1, <2>1 DEF Over
  <1> QED BY <1>2, <1>3
LEMMA AdmittedIs ==
  ASSUME NEW w, NEW settings, NEW labels
  PROVE  LET M == Admitted(w, settings, labels)
         IN /\ DOMAIN labels \subseteq DOMAIN M
            /\ \A n \in DOMAIN labels : n \notin {Queue, Priority} => M[n] = labels[n]
            /\ QueueOf(w, settings) # None => QueueIn(M) = QueueOf(w, settings)
  <1> DEFINE q == QueueOf(w, settings) L == Stamped(labels, Queue, q) M == Stamped(L, Priority, w.priority)
  <1>1. Admitted(w, settings, labels) = M
    BY DEF Admitted
  <1>2. /\ DOMAIN labels \subseteq DOMAIN L
        /\ \A n \in DOMAIN labels : n # Queue => L[n] = labels[n]
        /\ q # None => Queue \in DOMAIN L /\ L[Queue] = q
    BY StampedIs
  <1> HIDE DEF L, q
  <1>3. DOMAIN L \subseteq DOMAIN M /\ \A n \in DOMAIN L : n # Priority => M[n] = L[n]
    BY StampedIs
  <1> HIDE DEF M
  <1>4. Queue # Priority
    BY DEF Queue, Priority
  <1>5. q # None => QueueIn(M) = q
    BY <1>2, <1>3, <1>4 DEF QueueIn
  <1>6. \A n \in DOMAIN labels : n \notin {Queue, Priority} => M[n] = labels[n]
    BY <1>2, <1>3
  <1> QED BY <1>1, <1>2, <1>3, <1>5, <1>6 DEF q

\* render_workload, for any workload that fits and passes its checks.
Lowers(w, settings, accelerator, T) ==
  /\ FitWorkload(w, T) /\ CanLower(w, settings, accelerator)
  /\ settings # <<>> => FitSettings(settings[1])

LEMMA PodsAre ==
  ASSUME NEW w, NEW settings, NEW accelerator, NEW T, Lowers(w, settings, accelerator, T),
         NEW u \in Lowered(w, settings, accelerator).pods
  PROVE  \E t \in Templates(w) :
           LET v == Prepared(w, settings, accelerator, t)
           IN /\ u.claims = v.claims /\ u.uses = v.uses
              /\ IF w.backend = "leaderworkerset" THEN u.labels = v.labels
                 ELSE t = w.pod /\ u.labels = Admitted(w, settings, v.labels)
  <1> DEFINE v == Prepared(w, settings, accelerator, w.pod)
             others == IF w.backend = "leaderworkerset"
                       THEN {Prepared(w, settings, accelerator, w.leader[i]) : i \in DOMAIN w.leader} ELSE {}
             first == IF w.backend \in {"job", "deployment"}
                      THEN [v EXCEPT !.labels = Admitted(w, settings, v.labels)] ELSE v
  <1>1. u = first \/ u \in others
    BY DEF Lowered
  <1>2. w.pod \in Templates(w) /\ \A i \in DOMAIN w.leader : w.leader[i] \in Templates(w)
    BY DEF Templates
  <1>3. w.backend \in {"job", "deployment", "leaderworkerset"}
    BY DEF Lowers, FitWorkload, CanLower
  <1>4. CASE u \in others
    <2>1. w.backend = "leaderworkerset"
      BY <1>4
    <2>2. PICK i \in DOMAIN w.leader : u = Prepared(w, settings, accelerator, w.leader[i])
      BY <1>4
    <2> QED BY <1>2, <2>1, <2>2
  <1>5. CASE u = first /\ w.backend = "leaderworkerset"
    BY <1>2, <1>5
  <1>6. CASE u = first /\ w.backend # "leaderworkerset"
    <2>1. {"labels", "claims", "uses"} \subseteq DOMAIN v
      <3>1. {"labels", "placement", "claims", "uses", "gpus"} \subseteq DOMAIN w.pod
        BY <1>2 DEF Lowers, FitWorkload, FitTemplate
      <3> QED BY <1>6, <3>1, PreparedHas
    <2> HIDE DEF v
    <2>2. u = [v EXCEPT !.labels = Admitted(w, settings, v.labels)]
      BY <1>3, <1>6
    <2>3. u.labels = Admitted(w, settings, v.labels) /\ u.claims = v.claims /\ u.uses = v.uses
      BY <2>1, <2>2
    <2> QED BY <1>2, <1>6, <2>3 DEF v
  <1> QED BY <1>1, <1>4, <1>5, <1>6

LEMMA TemplatesPrepared ==
  ASSUME NEW w, NEW settings, NEW accelerator, NEW T, Lowers(w, settings, accelerator, T), NEW t \in Templates(w)
  PROVE  LET u == Prepared(w, settings, accelerator, t)
         IN /\ u.labels = Unqueued(w, t).labels /\ FitTemplate(t, T)
            /\ ClaimsFit(u, T \cup Lowered(w, settings, accelerator).templates)
  <1>1. Lowered(w, settings, accelerator).templates
          = IF settings = <<>> THEN {} ELSE AppliedTemplates(w, settings[1], accelerator)
    BY DEF Lowered
  <1>2. FitTemplate(t, T) /\ w.count \in Nat
    BY DEF Lowers, FitWorkload
  <1>3. settings # <<>> => FitSettings(settings[1]) /\ CanApply(w, settings[1], accelerator, Unqueued(w, t))
    BY DEF Lowers, CanLower
  <1> QED BY <1>1, <1>2, <1>3, PreparedIs

LEMMA LoweredResolves ==
  ASSUME NEW w, NEW settings, NEW accelerator, NEW T, Lowers(w, settings, accelerator, T)
  PROVE  LET out == Lowered(w, settings, accelerator)
         IN ClaimsResolve(out, T \cup out.templates) /\ AdmittedOnce(w, settings, out)
  <1> DEFINE out == Lowered(w, settings, accelerator)
  <1>1. out.labels = Admitted(w, settings, w.labels)
    BY DEF Lowered
  <1>2. ASSUME NEW u \in out.pods PROVE ClaimsFit(u, T \cup out.templates)
    <2>1. PICK t \in Templates(w) : LET v == Prepared(w, settings, accelerator, t)
                                    IN u.claims = v.claims /\ u.uses = v.uses
      BY <1>2, PodsAre
    <2>2. ClaimsFit(Prepared(w, settings, accelerator, t), T \cup out.templates)
      BY TemplatesPrepared
    <2> QED BY <2>1, <2>2 DEF ClaimsFit
  <1>3. ASSUME NEW u \in out.pods
        PROVE  IF w.backend = "leaderworkerset" THEN {Queue, Priority} \cap DOMAIN u.labels = {}
               ELSE QueueOf(w, settings) # None => QueueIn(u.labels) = QueueIn(out.labels)
    <2>1. PICK t \in Templates(w) :
            LET v == Prepared(w, settings, accelerator, t)
            IN IF w.backend = "leaderworkerset" THEN u.labels = v.labels
               ELSE u.labels = Admitted(w, settings, v.labels)
      BY <1>3, PodsAre
    <2>2. Prepared(w, settings, accelerator, t).labels = Unqueued(w, t).labels /\ FitTemplate(t, T)
      BY TemplatesPrepared
    <2>3. CASE w.backend = "leaderworkerset"
      BY <2>1, <2>2, <2>3, UnqueuedIs
    <2>4. CASE w.backend # "leaderworkerset"
      BY <1>1, <2>1, <2>4, AdmittedIs
    <2> QED BY <2>3, <2>4
  <1> QED BY <1>2, <1>3 DEF ClaimsResolve, AdmittedOnce

LEMMA FirstPod ==
  ASSUME NEW w, NEW settings, NEW accelerator
  PROVE  LET v == Prepared(w, settings, accelerator, w.pod)
         IN (IF w.backend \in {"job", "deployment"} THEN [v EXCEPT !.labels = Admitted(w, settings, @)] ELSE v)
              \in Lowered(w, settings, accelerator).pods
  BY DEF Lowered
LEMMA OwnLabelsSelect ==
  ASSUME NEW w, NEW settings, NEW accelerator, NEW T, Lowers(w, settings, accelerator, T), OwnLabelsOnly(w)
  PROVE  SelectsItsPods(Lowered(w, settings, accelerator))
  <1> DEFINE v == Prepared(w, settings, accelerator, w.pod)
             M == Admitted(w, settings, v.labels)
             out == Lowered(w, settings, accelerator)
  <1>1. \A s \in out.selectors : s = v.labels
    BY DEF Lowered, OwnLabelsOnly, SelectorOf
  <1>2. w.pod \in Templates(w)
    BY DEF Templates
  <1>3. v.labels = Unqueued(w, w.pod).labels /\ FitTemplate(w.pod, T)
    BY <1>2, TemplatesPrepared
  <1>4. CASE w.backend \in {"job", "deployment"}
    <2>1. [v EXCEPT !.labels = M] \in out.pods
      BY <1>4, FirstPod
    <2>2. "labels" \in DOMAIN v
      BY <1>3, <1>4, PreparedHas DEF FitTemplate
    <2>3. v.labels = w.pod.labels
      BY <1>3, <1>4, UnqueuedIs
    <2>4. Selects(v.labels, M)
      <3>1. \A n \in DOMAIN v.labels : n \in DOMAIN M /\ M[n] = v.labels[n]
        <4>1. \A n \in DOMAIN v.labels : n \notin {Queue, Priority}
          BY <2>3 DEF OwnLabelsOnly
        <4> QED BY <4>1, AdmittedIs
      <3> QED BY <3>1 DEF Selects
    <2> HIDE DEF v, M, out
    <2>5. [v EXCEPT !.labels = M].labels = M
      BY <2>2
    <2> QED BY <1>1, <2>1, <2>4, <2>5 DEF SelectsItsPods, out
  <1>5. CASE w.backend \notin {"job", "deployment"}
    <2>1. v \in out.pods
      BY <1>5, FirstPod
    <2>2. Selects(v.labels, v.labels)
      BY DEF Selects
    <2> QED BY <1>1, <2>1, <2>2 DEF SelectsItsPods
  <1> QED BY <1>4, <1>5

-----------------------------------------------------------------------------
(***************************************************************************)
(* The workloads of the roles, and what Render keeps of either kind.       *)
(***************************************************************************)
LEMMA RoleClaimsFit ==
  ASSUME NEW s, NEW c, NEW p, p.claims = PlatformClaims(c)
  PROVE  LET C == RoleClaims(s, c, p)
         IN /\ C \in Seq(Range(C)) /\ Distinct(C)
            /\ \A i \in DOMAIN C : Generated(C[i][2]) => C[i][2] \in RoleTemplates(s, c, p)
  <1> DEFINE claimed == p.role.gpus > 0 /\ Accelerator(s, c).alloc = "dra"
             labels == RoleLabels("accelerator-claim-template", p.role.name)
             template == ClaimTemplate(p.role.name, labels, "dra", p.role.gpus)
             extra == IF claimed THEN <<<<"accelerator", template>>>> ELSE <<>>
             C == RoleClaims(s, c, p)
             I == ImexClaim(c)
  <1>1. p.claims = I
    BY DEF PlatformClaims, ImexClaim
  <1>2. C = I \o extra
    BY <1>1 DEF RoleClaims
  <1>3. claimed => template \in RoleTemplates(s, c, p)
    BY DEF RoleTemplates
  <1> HIDE DEF claimed, template, C, labels
  <1>4. /\ extra \in Seq({<<"accelerator", template>>})
        /\ \A i \in DOMAIN extra : i = 1 /\ extra[i][1] = "accelerator" /\ extra[i][2] = template /\ claimed
    <2>1. CASE claimed
      <3>1. extra = <<<<"accelerator", template>>>>
        BY <2>1
      <3> HIDE DEF extra
      <3> QED BY <2>1, <3>1
    <2>2. CASE ~claimed
      BY <2>2
    <2> QED BY <2>1, <2>2
  <1> HIDE DEF extra
  <1>5. \A i \in DOMAIN I : i = 1 /\ I[i][1] = "compute-domain-channel" /\ ~Generated(I[i][2])
    <2>1. CASE c.imex
      <3>1. I = <<<<"compute-domain-channel", <<"imex">>>>>>
        BY <2>1 DEF ImexClaim
      <3>2. ~Generated(<<"imex">>)
        BY DEF Generated
      <3> HIDE DEF I
      <3> QED BY <3>1, <3>2
    <2>2. CASE ~c.imex
      BY <2>2 DEF ImexClaim
    <2> QED BY <2>1, <2>2
  <1>6. I \in Seq(Range(I)) /\ extra \in Seq(Range(extra))
    BY <1>4, ImexFits, SeqOfRange
  <1> HIDE DEF I
  <1>7. C \in Seq(Range(C))
    <2>1. I \in Seq(Range(I) \cup Range(extra)) /\ extra \in Seq(Range(I) \cup Range(extra))
      BY <1>6
    <2>2. C \in Seq(Range(I) \cup Range(extra))
      BY <1>2, <2>1
    <2> QED BY <2>2, SeqOfRange
  <1>8. \A i \in DOMAIN C :
          \/ i \in DOMAIN I /\ C[i] = I[i]
          \/ i - Len(I) \in DOMAIN extra /\ C[i] = extra[i - Len(I)]
    BY <1>2, <1>6, Appended
  <1>9. DOMAIN C \subseteq Int /\ Len(I) \in Int
    BY <1>2, <1>6, Appended
  <1>10. ASSUME NEW i \in DOMAIN C, NEW j \in DOMAIN C, C[i][1] = C[j][1] PROVE i = j
    <2>1. CASE i \in DOMAIN I /\ C[i] = I[i] /\ j \in DOMAIN I /\ C[j] = I[j]
      BY <1>5, <2>1
    <2>2. CASE /\ i - Len(I) \in DOMAIN extra /\ C[i] = extra[i - Len(I)]
               /\ j - Len(I) \in DOMAIN extra /\ C[j] = extra[j - Len(I)]
      <3>1. i - Len(I) = 1 /\ j - Len(I) = 1
        BY <1>4, <2>2
      <3> QED BY <1>9, <3>1
    <2> QED BY <1>4, <1>5, <1>8, <1>10, <2>1, <2>2
  <1>11. ASSUME NEW i \in DOMAIN C, Generated(C[i][2]) PROVE C[i][2] \in RoleTemplates(s, c, p)
    <2>1. ~(i \in DOMAIN I /\ C[i] = I[i])
      BY <1>5, <1>11
    <2>2. C[i][2] = template /\ claimed
      BY <1>4, <1>8, <2>1
    <2> QED BY <1>3, <2>2
  <1> QED BY <1>7, <1>10, <1>11 DEF Distinct, C

LEMMA RoleFits ==
  ASSUME NEW s, NEW c, NEW p, p.claims = PlatformClaims(c)
  PROVE  /\ Lowers(RoleWorkload(s, c, p), <<>>, None, RoleTemplates(s, c, p))
         /\ RolePod(s, c, p).labels = ServingLabels(s, p.role)
  <1> DEFINE w == RoleWorkload(s, c, p) T == RoleTemplates(s, c, p) C == RoleClaims(s, c, p)
             placement == Over(Accelerator(s, c).placement, c.placement)
             gpus == IF Accelerator(s, c).alloc = "extended" THEN p.role.gpus ELSE 0
             labels == ServingLabels(s, p.role)
             t == [labels |-> labels, containers |-> {"vllm"}, restart |-> "Always",
                   placement |-> placement, claims |-> <<>>, uses |-> <<>>, gpus |-> gpus]
             u == RolePod(s, c, p)
             names == [i \in DOMAIN C |-> C[i][1]]
  <1>1. u = Attach(t, C)
    BY DEF RolePod
  <1>2. C \in Seq(Range(C)) /\ Distinct(C) /\ \A i \in DOMAIN C : Generated(C[i][2]) => C[i][2] \in T
    BY RoleClaimsFit
  <1> HIDE DEF C, T, placement, gpus, labels, u
  <1>3. t.claims = <<>> /\ t.uses = <<>> /\ t.labels = labels
        /\ {"labels", "placement", "claims", "uses", "gpus"} \subseteq DOMAIN t
    OBVIOUS
  <1> HIDE DEF t
  <1>4. ClaimsFit(t, T) /\ Free(t, C)
    BY <1>2, <1>3 DEF ClaimsFit, Distinct, Free, ClaimNames
  <1>5. t.claims \in Seq(Range(t.claims)) /\ t.uses \in Seq(Range(t.uses))
    BY <1>3
  <1>6. ClaimsFit(u, T)
    BY <1>1, <1>2, <1>3, <1>4, <1>5, AttachFits
  <1>7. /\ DOMAIN u = DOMAIN t /\ u.labels = labels
        /\ u.claims = t.claims \o C /\ u.uses = t.uses \o names
    BY <1>1, <1>3 DEF Attach
  <1>8. u.claims = C /\ u.uses = names
    <2>1. names \in Seq({names[i] : i \in DOMAIN C})
      <3>1. DOMAIN C = 1 .. Len(C) /\ Len(C) \in Nat
        BY <1>2
      <3>2. names = [i \in 1 .. Len(C) |-> names[i]] /\ \A i \in DOMAIN C : names[i] \in {names[j] : j \in DOMAIN C}
        BY <3>1
      <3> HIDE DEF names
      <3> QED BY <3>1, <3>2
    <2> HIDE DEF names
    <2> QED BY <1>2, <1>3, <1>7, <2>1
  <1>9. u.uses \in Seq(Range(u.uses))
    <2>1. DOMAIN C = 1 .. Len(C) /\ Len(C) \in Nat
      BY <1>2
    <2>2. names = [i \in 1 .. Len(C) |-> names[i]] /\ \A i \in 1 .. Len(C) : names[i] \in Range(names)
      BY <2>1 DEF Range
    <2> HIDE DEF names
    <2>3. names \in Seq(Range(names))
      BY <2>1, <2>2
    <2> QED BY <1>8, <2>3
  <1>10. FitTemplate(u, T)
    BY <1>2, <1>3, <1>6, <1>7, <1>8, <1>9 DEF FitTemplate
  <1>11. w.backend \in {"deployment", "leaderworkerset"} /\ w.count = 0 /\ w.pod = u /\ w.leader = <<>>
    BY DEF RoleWorkload, u
  <1> HIDE DEF w
  <1>12. Templates(w) = {u}
    BY <1>11 DEF Templates
  <1>13. FitWorkload(w, T)
    BY <1>10, <1>11, <1>12 DEF FitWorkload
  <1>14. CanLower(w, <<>>, None)
    BY <1>11 DEF CanLower
  <1> QED BY <1>7, <1>13, <1>14 DEF Lowers, w, T, u, labels

LEMMA RoleSelects ==
  ASSUME NEW s, NEW c, NEW p, p.claims = PlatformClaims(c)
  PROVE  SelectsItsPods(Lowered(RoleWorkload(s, c, p), <<>>, None))
  <1> DEFINE w == RoleWorkload(s, c, p) out == Lowered(w, <<>>, None)
             selector == PodSelector(p.role.name) labels == ServingLabels(s, p.role)
             M == Admitted(w, <<>>, labels)
  <1>1. CASE p.kind # "Deployment"
    <2>1. w.backend = "leaderworkerset" /\ w.service = FALSE
      BY <1>1 DEF RoleWorkload
    <2> HIDE DEF w
    <2>2. out.selectors = {}
      BY <2>1 DEF Lowered
    <2> QED BY <2>2 DEF SelectsItsPods, w
  <1>2. CASE p.kind = "Deployment"
    <2>1. w.backend = "deployment" /\ w.service = FALSE /\ w.selector = selector /\ w.pod = RolePod(s, c, p)
      BY <1>2 DEF RoleWorkload
    <2>2. w.pod.labels = labels /\ "labels" \in DOMAIN w.pod
      BY <2>1, RoleFits DEF RolePod, Attach
    <2> HIDE DEF w
    <2>3. Prepared(w, <<>>, None, w.pod) = w.pod
      BY <2>1 DEF Prepared, Unqueued
    <2>4. [w.pod EXCEPT !.labels = M] \in out.pods
      <3>1. [w.pod EXCEPT !.labels = Admitted(w, <<>>, w.pod.labels)] \in out.pods
        BY <2>1, <2>3, FirstPod
      <3> QED BY <2>2, <3>1
    <2>5. /\ DOMAIN selector \subseteq {"instance", "role"} /\ "instance" \in DOMAIN selector
          /\ selector["instance"] = "this"
          /\ "role" \in DOMAIN selector => selector["role"] = p.role.name
      BY DEF PodSelector
    <2>6. selector # NoLabels
      <3>1. DOMAIN NoLabels = {}
        BY DEF NoLabels
      <3> HIDE DEF selector
      <3> QED BY <2>5, <3>1
    <2>7. out.selectors = {selector}
      BY <2>1, <2>6 DEF Lowered, SelectorOf
    <2>8. /\ {"instance", "role"} \subseteq DOMAIN labels
          /\ labels["instance"] = "this" /\ labels["role"] = p.role.name
      <3> DEFINE base == RoleLabels("model-server", p.role.name)
                 more == [serving |-> "true", topology |-> s.topology]
      <3>1. {"instance", "role"} \subseteq DOMAIN base /\ base["instance"] = "this" /\ base["role"] = p.role.name
        BY DEF RoleLabels
      <3>2. labels = Over(base, more)
        BY DEF ServingLabels
      <3> HIDE DEF base, more, labels
      <3>3. DOMAIN base \subseteq DOMAIN labels /\ \A n \in DOMAIN base : labels[n] = base[n]
        BY <3>2 DEF Over
      <3> QED BY <3>1, <3>3
    <2> HIDE DEF selector, labels
    <2>9. {"instance", "role"} \cap {Queue, Priority} = {}
      BY DEF Queue, Priority
    <2>10. Selects(selector, M)
      <3>1. DOMAIN labels \subseteq DOMAIN M /\ \A n \in DOMAIN labels : n \notin {Queue, Priority} => M[n] = labels[n]
        BY AdmittedIs
      <3> HIDE DEF M
      <3>2. \A n \in DOMAIN selector : n \in DOMAIN M /\ M[n] = labels[n] /\ selector[n] = labels[n]
        BY <2>5, <2>8, <2>9, <3>1
      <3> QED BY <3>2 DEF Selects
    <2> HIDE DEF M, out
    <2>11. [w.pod EXCEPT !.labels = M].labels = M
      BY <2>2
    <2> QED BY <2>4, <2>7, <2>10, <2>11 DEF SelectsItsPods, out, w
  <1> QED BY <1>1, <1>2

\* The inductive invariant: what is rendered first is the workload of the first
\* role, and so on, or else one workload that passed its checks.
RoleEntry(p) == Entry(RoleWorkload(spec, cluster, p), <<>>, None, RoleTemplates(spec, cluster, p))
LoweredEntry(l) ==
  \E q \in Workloads, settings \in {<<>>, <<Settings(cluster)>>} :
    CanLower(q.workload, settings, q.accelerator) /\ l = Entry(q.workload, settings, q.accelerator, {})
EntriesAreMade ==
  \A i \in DOMAIN lowered :
    \/ i \in DOMAIN plans /\ lowered[i] = RoleEntry(plans[i])
    \/ plans = <<>> /\ stage # "sized" /\ LoweredEntry(lowered[i])
Rendering == Made /\ EntriesAreMade

LEMMA RenderingInit == Init => Rendering
  <1>1. Init => lowered = <<>>
    BY DEF Init
  <1>2. lowered = <<>> => EntriesAreMade
    BY DEF EntriesAreMade
  <1> QED BY <1>1, <1>2, MadeInit DEF Rendering

LEMMA RenderingNext == Rendering /\ [Next]_vars => Rendering'
  <1> SUFFICES ASSUME Rendering, [Next]_vars PROVE Rendering'
    OBVIOUS
  <1>1. Made /\ Made' /\ EntriesAreMade /\ ListsAreKept /\ PlansAreSound
    BY MadeNext DEF Rendering, Made, TypeInv, Inv
  <1> SUFFICES EntriesAreMade'
    BY <1>1 DEF Rendering
  <1>2. CASE AcceptSpec \/ FitCluster
    <2>1. lowered' = <<>>
      BY <1>1, <1>2 DEF AcceptSpec, FitCluster, ListsAreKept
    <2> QED BY <2>1 DEF EntriesAreMade
  <1>3. CASE ResolveRole
    <2>1. stage = "sized" /\ UNCHANGED <<stage, spec, cluster, lowered>> /\ \E p : plans' = Append(plans, p)
      BY <1>3 DEF ResolveRole
    <2>2. \A i \in DOMAIN plans : i \in DOMAIN plans' /\ plans'[i] = plans[i]
      BY <1>1, <2>1 DEF PlansAreSound
    <2> QED BY <1>1, <2>1, <2>2 DEF EntriesAreMade, RoleEntry
  <1>4. CASE RenderRole
    <2> DEFINE n == Len(lowered) + 1 e == RoleEntry(plans[n])
    <2>1. stage = "sized" /\ UNCHANGED <<stage, spec, cluster, plans>> /\ lowered' = Append(lowered, e)
      BY <1>4 DEF RenderRole, Resolved, RoleEntry
    <2>2. n \in DOMAIN plans
      BY <1>1, <1>4 DEF RenderRole, ListsAreKept, PlansAreSound
    <2>3. \A i \in DOMAIN lowered' : IF i = n THEN lowered'[i] = e ELSE i \in DOMAIN lowered /\ lowered'[i] = lowered[i]
      <3> HIDE DEF e
      <3> QED BY <1>1, <2>1 DEF ListsAreKept
    <2>4. ASSUME NEW i \in DOMAIN lowered' PROVE i \in DOMAIN plans /\ lowered'[i] = RoleEntry(plans[i])
      <3>1. CASE i = n
        <4>1. lowered'[i] = e
          BY <2>3, <2>4, <3>1
        <4> QED BY <2>2, <3>1, <4>1
      <3>2. CASE i # n
        BY <1>1, <2>1, <2>3, <2>4, <3>2 DEF EntriesAreMade
      <3> QED BY <3>1, <3>2
    <2>5. \A p : RoleEntry(p)' = RoleEntry(p)
      BY <2>1 DEF RoleEntry
    <2> QED BY <2>1, <2>4 DEF EntriesAreMade, RoleEntry
  <1>5. CASE RenderRouting \/ RenderBatch \/ Reject
    <2>1. UNCHANGED <<spec, cluster, plans, lowered>> /\ stage' \in {"rendered", "rejected"}
      BY <1>5 DEF RenderRouting, RenderBatch, Reject
    <2> QED BY <1>1, <2>1 DEF EntriesAreMade, RoleEntry, LoweredEntry
  <1>6. CASE \E q \in Workloads : LowerWorkload(q)
    <2>1. PICK q \in Workloads : LowerWorkload(q)
      BY <1>6
    <2> DEFINE settings == IF q.clustered THEN <<Settings(cluster)>> ELSE <<>>
               e == Entry(q.workload, settings, q.accelerator, {})
    <2>2. /\ UNCHANGED <<spec, cluster, plans>> /\ stage = "workload" /\ stage' = "rendered" /\ lowered' = <<e>>
          /\ CanLower(q.workload, settings, q.accelerator)
      BY <2>1 DEF LowerWorkload
    <2>3. plans = <<>>
      BY <1>1, <2>2 DEF ListsAreKept
    <2>4. LoweredEntry(e)
      <3>1. settings \in {<<>>, <<Settings(cluster)>>}
        OBVIOUS
      <3> HIDE DEF settings
      <3> QED BY <2>1, <2>2, <3>1 DEF LoweredEntry
    <2>5. \A l : LoweredEntry(l)' = LoweredEntry(l)
      BY <2>2 DEF LoweredEntry
    <2>6. \A i \in DOMAIN lowered' : lowered'[i] = e
      <3> HIDE DEF e
      <3> QED BY <2>2
    <2> HIDE DEF e
    <2> QED BY <2>2, <2>3, <2>4, <2>6 DEF EntriesAreMade, LoweredEntry
  <1>7. CASE UNCHANGED vars
    BY <1>1, <1>7 DEF vars, EntriesAreMade, RoleEntry, LoweredEntry
  <1> QED BY <1>2, <1>3, <1>4, <1>5, <1>6, <1>7 DEF Next

\* What lowering adds fits what the workload brings, for every workload and
\* every role: controllers and Services select pods of their workload, Kueue
\* meets each workload once, and every claim resolves (workload.py, dra.py).
THEOREM LoweredAlwaysFits == Spec => []LoweredFits
  <1>1. Rendering => LoweredFits
    <2> SUFFICES ASSUME Rendering, NEW i \in DOMAIN lowered
                 PROVE  LET l == lowered[i]
                        IN /\ plans # <<>> \/ OwnLabelsOnly(l.of) => SelectsItsPods(l.out)
                           /\ AdmittedOnce(l.of, l.settings, l.out)
                           /\ ClaimsResolve(l.out, l.templates)
      BY DEF LoweredFits
    <2>1. CASE i \in DOMAIN plans /\ lowered[i] = RoleEntry(plans[i])
      <3> DEFINE p == plans[i] w == RoleWorkload(spec, cluster, p) T == RoleTemplates(spec, cluster, p)
                 out == Lowered(w, <<>>, None) l == lowered[i]
      <3>1. p.claims = PlatformClaims(cluster)
        <4>1. p = Plan(spec, cluster, spec.roles[i])
          BY <2>1 DEF Rendering, Made, PlansAreMade
        <4> HIDE DEF p
        <4> QED BY <4>1 DEF Plan
      <3>2. l.of = w /\ l.settings = <<>> /\ l.out = out /\ l.templates = T \cup out.templates
        BY <2>1 DEF RoleEntry, Entry
      <3> HIDE DEF p, w, T, l
      <3>3. Lowers(w, <<>>, None, T) /\ SelectsItsPods(out)
        BY <3>1, RoleFits, RoleSelects DEF w, T
      <3>4. ClaimsResolve(out, T \cup out.templates) /\ AdmittedOnce(w, <<>>, out)
        BY <3>3, LoweredResolves
      <3> QED BY <3>2, <3>3, <3>4 DEF l
    <2>2. CASE plans = <<>> /\ LoweredEntry(lowered[i])
      <3>1. PICK q \in Workloads, settings \in {<<>>, <<Settings(cluster)>>} :
              /\ CanLower(q.workload, settings, q.accelerator)
              /\ lowered[i] = Entry(q.workload, settings, q.accelerator, {})
        BY <2>2 DEF LoweredEntry
      <3> DEFINE w == q.workload out == Lowered(w, settings, q.accelerator) l == lowered[i]
      <3>2. /\ l.of = w /\ l.settings = settings /\ l.out = out
            /\ l.templates = {} \cup out.templates
        BY <3>1 DEF Entry
      <3>3. FitWorkload(w, {})
        BY WorkloadsAssumption DEF FitWorkload, FitTemplate, ParsedWorkload, ParsedTemplate
      <3>4. settings # <<>> => FitSettings(settings[1])
        BY ImexFits
      <3> HIDE DEF w, l
      <3>5. Lowers(w, settings, q.accelerator, {})
        BY <3>1, <3>3, <3>4 DEF Lowers, w
      <3>6. ClaimsResolve(out, {} \cup out.templates) /\ AdmittedOnce(w, settings, out)
        BY <3>5, LoweredResolves
      <3>7. OwnLabelsOnly(w) => SelectsItsPods(out)
        BY <3>5, OwnLabelsSelect
      <3> QED BY <2>2, <3>2, <3>6, <3>7 DEF l
    <2> QED BY <2>1, <2>2 DEF Rendering, EntriesAreMade
  <1>2. Spec => []Rendering
    BY RenderingInit, RenderingNext, PTL DEF Spec
  <1> QED BY <1>1, <1>2, PTL
=============================================================================
