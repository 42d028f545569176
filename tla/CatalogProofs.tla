----------------------------- MODULE CatalogProofs -----------------------------
(***************************************************************************)
(* Proofs about Catalog, for any names, bundled chains and drafts, and any *)
(* number of commands cut short anywhere.                                  *)
(***************************************************************************)
EXTENDS Catalog, FiniteSetTheorems, WellFoundedInduction, TLAPS

-----------------------------------------------------------------------------
(* Induction, as a fact about sets of natural numbers.                     *)

LEMMA LessIsRelated ==
  ASSUME NEW x \in Nat, NEW y \in Nat, y < x PROVE <<y, x>> \in OpToRel(<, Nat)
BY DEF OpToRel

LEMMA HasLeast ==
  ASSUME NEW T \in SUBSET Nat, T # {}
  PROVE  \E x \in T : \A y \in T : ~(y < x)
<1>1. IsWellFoundedOn(OpToRel(<, Nat), Nat) BY NatLessThanWellFounded
<1> DEFINE R == OpToRel(<, Nat)
<1>2. \E x \in T : \A y \in T : ~(<<y, x>> \in R)
  <2> HIDE DEF R
  <2>1. IsWellFoundedOn(R, Nat) BY <1>1 DEF R
  <2> QED BY <2>1, WFMin
<1> QED BY <1>2, LessIsRelated

LEMMA NatSet ==
  ASSUME NEW S, 0 \in S, \A k \in Nat : k \in S => k + 1 \in S
  PROVE  Nat \subseteq S
<1> SUFFICES ASSUME Nat \ S # {} PROVE FALSE
  OBVIOUS
<1>1. PICK x \in Nat \ S : \A y \in Nat \ S : ~(y < x) BY HasLeast
<1>2. x # 0 /\ x - 1 \in Nat /\ x - 1 < x BY <1>1
<1>3. x - 1 \in S BY <1>1, <1>2
<1> QED BY <1>1, <1>2, <1>3

-----------------------------------------------------------------------------
(* What the recursive definitions compute.                                 *)

Bound == Cardinality(Paths)

LEMMA BoundIsNat == Bound \in Nat /\ \A p \in Paths : Bound > 0
<1>1. IsFiniteSet(Suffixes)
  <2>1. IsFiniteSet({".yaml"}) BY FS_Singleton
  <2>2. IsFiniteSet({".yaml"} \cup {".yml"}) BY <2>1, FS_AddElement
  <2> QED BY <2>2 DEF Suffixes
<1>2. IsFiniteSet(Paths) BY <1>1, CatalogAssumption, FS_Product DEF Paths
<1>3. Bound \in Nat BY <1>2, FS_CardinalityType DEF Bound
<1>4. Bound = 0 => Paths = {} BY <1>2, FS_EmptySet DEF Bound
<1> QED BY <1>3, <1>4

\* The table that Flat fills: the chains of at most k files.
Load(tree) ==
  CHOOSE load : load = [k \in 0 .. Bound |->
    IF k = 0 THEN [p \in Paths |-> Invalid] ELSE Level(tree, load[k - 1])]

LEMMA LoadExists ==
  ASSUME NEW tree
  PROVE  \E load : load = [k \in 0 .. Bound |->
           IF k = 0 THEN [p \in Paths |-> Invalid] ELSE Level(tree, load[k - 1])]
<1> DEFINE None0 == [p \in Paths |-> Invalid]
           Upto(m) == \E g : g = [k \in 0 .. m |-> IF k = 0 THEN None0 ELSE Level(tree, g[k - 1])]
           S == {m \in Nat : Upto(m)}
<1> HIDE DEF None0
<1>1. 0 \in S
  <2>1. [k \in 0 .. 0 |-> None0] =
          [k \in 0 .. 0 |-> IF k = 0 THEN None0 ELSE Level(tree, [j \in 0 .. 0 |-> None0][k - 1])]
    OBVIOUS
  <2> QED BY <2>1
<1>2. ASSUME NEW m \in Nat, m \in S PROVE m + 1 \in S
  <2>1. PICK g : g = [k \in 0 .. m |-> IF k = 0 THEN None0 ELSE Level(tree, g[k - 1])] BY <1>2
  <2> DEFINE h == [k \in 0 .. m + 1 |-> IF k <= m THEN g[k] ELSE Level(tree, g[m])]
  <2>2. \A k \in 0 .. m : h[k] = g[k] OBVIOUS
  <2>3. ASSUME NEW k \in 0 .. m + 1
        PROVE  h[k] = IF k = 0 THEN None0 ELSE Level(tree, h[k - 1])
    <3>1. CASE k = 0 BY <2>1, <3>1
    <3>2. CASE k > 0 /\ k <= m
      <4>1. k \in 0 .. m /\ k - 1 \in 0 .. m BY <3>2
      <4>2. g[k] = Level(tree, g[k - 1]) BY <2>1, <3>2, <4>1
      <4> QED BY <2>2, <3>2, <4>1, <4>2
    <3>3. CASE k = m + 1
      <4>1. h[k] = Level(tree, g[m]) /\ k - 1 = m /\ m \in 0 .. m BY <3>3
      <4> QED BY <2>2, <3>3, <4>1
    <3> QED BY <3>1, <3>2, <3>3
  <2> HIDE DEF h
  <2>4. DOMAIN h = 0 .. m + 1 BY DEF h
  <2>5. h = [k \in DOMAIN h |-> h[k]] BY DEF h
  <2>6. h = [k \in 0 .. m + 1 |-> IF k = 0 THEN None0 ELSE Level(tree, h[k - 1])]
    BY <2>3, <2>4, <2>5
  <2>7. m + 1 \in Nat OBVIOUS
  <2> QED BY <2>6, <2>7
<1>3. Nat \subseteq S
  <2> HIDE DEF S
  <2> QED BY <1>1, <1>2, NatSet
<1> QED BY <1>3, BoundIsNat DEF None0

LEMMA LoadIs ==
  ASSUME NEW tree
  PROVE  /\ Load(tree)[0] = [p \in Paths |-> Invalid]
         /\ \A k \in 1 .. Bound : Load(tree)[k] = Level(tree, Load(tree)[k - 1])
         /\ \A p : Flat(tree, p) = Load(tree)[Bound][p]
<1>1. Load(tree) = [k \in 0 .. Bound |->
        IF k = 0 THEN [p \in Paths |-> Invalid] ELSE Level(tree, Load(tree)[k - 1])]
  BY LoadExists, Zenon DEF Load
<1>2. \A p : Flat(tree, p) = Load(tree)[Bound][p] BY Zenon DEF Flat, Load, Bound
<1> HIDE DEF Load
<1>3. 0 \in 0 .. Bound /\ \A k \in 1 .. Bound : k \in 0 .. Bound /\ k # 0 BY BoundIsNat
<1> QED BY <1>1, <1>2, <1>3

\* So does the table of a copy's plans.
Plans ==
  CHOOSE plans : plans = [k \in 0 .. Bound |->
    IF k = 0 THEN [n \in Names |-> <<n>>] ELSE WithParents(plans[k - 1])]

LEMMA PlansExist ==
  \E plans : plans = [k \in 0 .. Bound |->
    IF k = 0 THEN [n \in Names |-> <<n>>] ELSE WithParents(plans[k - 1])]
<1> DEFINE One == [n \in Names |-> <<n>>]
           Upto(m) == \E g : g = [k \in 0 .. m |-> IF k = 0 THEN One ELSE WithParents(g[k - 1])]
           S == {m \in Nat : Upto(m)}
<1> HIDE DEF One
<1>1. 0 \in S
  <2>1. [k \in 0 .. 0 |-> One] =
          [k \in 0 .. 0 |-> IF k = 0 THEN One ELSE WithParents([j \in 0 .. 0 |-> One][k - 1])]
    OBVIOUS
  <2> QED BY <2>1
<1>2. ASSUME NEW m \in Nat, m \in S PROVE m + 1 \in S
  <2>1. PICK g : g = [k \in 0 .. m |-> IF k = 0 THEN One ELSE WithParents(g[k - 1])] BY <1>2
  <2> DEFINE h == [k \in 0 .. m + 1 |-> IF k <= m THEN g[k] ELSE WithParents(g[m])]
  <2>2. \A k \in 0 .. m : h[k] = g[k] OBVIOUS
  <2>3. ASSUME NEW k \in 0 .. m + 1
        PROVE  h[k] = IF k = 0 THEN One ELSE WithParents(h[k - 1])
    <3>1. CASE k = 0 BY <2>1, <3>1
    <3>2. CASE k > 0 /\ k <= m
      <4>1. k \in 0 .. m /\ k - 1 \in 0 .. m BY <3>2
      <4>2. g[k] = WithParents(g[k - 1]) BY <2>1, <3>2, <4>1
      <4> QED BY <2>2, <3>2, <4>1, <4>2
    <3>3. CASE k = m + 1
      <4>1. h[k] = WithParents(g[m]) /\ k - 1 = m /\ m \in 0 .. m BY <3>3
      <4> QED BY <2>2, <3>3, <4>1
    <3> QED BY <3>1, <3>2, <3>3
  <2> HIDE DEF h
  <2>4. DOMAIN h = 0 .. m + 1 BY DEF h
  <2>5. h = [k \in DOMAIN h |-> h[k]] BY DEF h
  <2>6. h = [k \in 0 .. m + 1 |-> IF k = 0 THEN One ELSE WithParents(h[k - 1])]
    BY <2>3, <2>4, <2>5
  <2>7. m + 1 \in Nat OBVIOUS
  <2> QED BY <2>6, <2>7
<1>3. Nat \subseteq S
  <2> HIDE DEF S
  <2> QED BY <1>1, <1>2, NatSet
<1> QED BY <1>3, BoundIsNat DEF One

LEMMA PlansAre ==
  /\ \A n \in Names : Plans[0][n] = <<n>>
  /\ \A k \in 1 .. Bound : Plans[k] = WithParents(Plans[k - 1])
  /\ \A n : CopyPlan(n) = Plans[Bound][n]
<1>1. Plans = [k \in 0 .. Bound |->
        IF k = 0 THEN [n \in Names |-> <<n>>] ELSE WithParents(Plans[k - 1])]
  BY PlansExist, Zenon DEF Plans
<1>2. \A n : CopyPlan(n) = Plans[Bound][n] BY Zenon DEF CopyPlan, Plans, Bound
<1> HIDE DEF Plans
<1>3. 0 \in 0 .. Bound /\ \A k \in 1 .. Bound : k \in 0 .. Bound /\ k # 0 BY BoundIsNat
<1> QED BY <1>1, <1>2, <1>3

-----------------------------------------------------------------------------
(* What a chain of files means is data, or an error.                       *)

LEMMA SettingType ==
  ASSUME NEW base \in Settings, NEW over \in Settings PROVE Setting(base, over) \in Settings
BY DEF Setting, Settings

LEMMA MergeType ==
  ASSUME NEW base \in Data \cup {Invalid}, NEW over \in Data
  PROVE  Merge(base, over) \in Data \cup {Invalid}
<1> SUFFICES ASSUME ~(\/ base = Invalid
                      \/ over.form = "map" /\ (base.form = "map" \/ ~(DOMAIN over.roles \subseteq DOMAIN base.roles)))
             PROVE  Merge(base, over) \in Data
  BY DEF Merge
<1> DEFINE Some == UNION {[R -> Settings] : R \in SUBSET RoleNames}
           mixed == [r \in DOMAIN base.roles |->
                       IF r \in DOMAIN over.roles THEN Setting(base.roles[r], over.roles[r]) ELSE base.roles[r]]
           roles == CASE over.form = "none" -> base.roles
                      [] over.form = "list" -> over.roles
                      [] over.form = "map" -> mixed
           form == CASE over.form = "none" -> base.form [] OTHER -> "list"
<1>1. /\ base.a \in Settings /\ base.form \in {"none", "map", "list"} /\ base.roles \in Some
      /\ over.a \in Settings /\ over.form \in {"none", "map", "list"} /\ over.roles \in Some
  BY DEF Data
<1>2. /\ DOMAIN base.roles \subseteq RoleNames /\ \A r \in DOMAIN base.roles : base.roles[r] \in Settings
      /\ \A r \in DOMAIN over.roles : over.roles[r] \in Settings
  BY <1>1
<1>3. mixed \in [DOMAIN base.roles -> Settings] BY <1>2, SettingType
<1>4. mixed \in Some BY <1>2, <1>3
<1> HIDE DEF mixed
<1>5. roles \in Some
  <2> HIDE DEF Some
  <2> QED BY <1>1, <1>4
<1>6. form \in {"none", "map", "list"} BY <1>1
<1>7. Merge(base, over) = [a |-> Setting(base.a, over.a), form |-> form, roles |-> roles]
  BY Zenon DEF Merge, mixed
<1>8. Setting(base.a, over.a) \in Settings BY <1>1, SettingType
<1> HIDE DEF form, roles
<1> QED BY <1>5, <1>6, <1>7, <1>8 DEF Data

LEMMA LoadType ==
  ASSUME NEW tree \in Trees
  PROVE  \A k \in 0 .. Bound : Load(tree)[k] \in [Paths -> Data \cup {Invalid}]
<1> DEFINE Typed(k) == k <= Bound => Load(tree)[k] \in [Paths -> Data \cup {Invalid}]
           S == {k \in Nat : Typed(k)}
<1>1. 0 \in S
  <2>1. Load(tree)[0] = [p \in Paths |-> Invalid] BY LoadIs
  <2> QED BY <2>1
<1>2. ASSUME NEW k \in Nat, k \in S PROVE k + 1 \in S
  <2> SUFFICES ASSUME k + 1 <= Bound PROVE Load(tree)[k + 1] \in [Paths -> Data \cup {Invalid}]
    OBVIOUS
  <2>1. k + 1 \in 1 .. Bound /\ (k + 1) - 1 = k BY BoundIsNat
  <2>2. Load(tree)[k + 1] = Level(tree, Load(tree)[k]) BY <2>1, LoadIs
  <2>3. Load(tree)[k] \in [Paths -> Data \cup {Invalid}] BY <1>2, BoundIsNat
  <2>4. ASSUME NEW p \in Paths, tree[p] \notin {Absent, Broken}, tree[p].extends # None
        PROVE  Merge(Load(tree)[k][Yaml(tree[p].extends)], tree[p].data) \in Data \cup {Invalid}
    <3>1. tree[p] \in Files BY <2>4 DEF Trees
    <3>2. tree[p].extends \in Names /\ tree[p].data \in Data BY <2>4, <3>1 DEF Files
    <3>3. Yaml(tree[p].extends) \in Paths BY <3>2 DEF Yaml, Paths, Suffixes
    <3> QED BY <2>3, <3>2, <3>3, MergeType
  <2>5. ASSUME NEW p \in Paths, tree[p] \notin {Absent, Broken} PROVE tree[p].data \in Data
    BY <2>5 DEF Trees, Files
  <2> QED BY <2>2, <2>4, <2>5 DEF Level
<1>3. Nat \subseteq S
  <2> HIDE DEF S
  <2> QED BY <1>1, <1>2, NatSet
<1> QED BY <1>3, BoundIsNat

LEMMA FlatType ==
  ASSUME NEW tree \in Trees, NEW p \in Paths
  PROVE  Flat(tree, p) \in Data \cup {Invalid}
BY LoadType, LoadIs, BoundIsNat

LEMMA BundledTreeType ==
  /\ BundledTree \in Trees
  /\ \A n \in Names : BundledTree[Yaml(n)] = Bundled[n] /\ BundledTree[Yml(n)] = Absent
BY CatalogAssumption DEF BundledTree, Trees, Paths, Yaml, Yml, Suffixes

\* A file without parent means what it says.
LEMMA StandsAlone ==
  ASSUME NEW tree, NEW p \in Paths, NEW data \in Data, tree[p] = [extends |-> None, data |-> data]
  PROVE  Flat(tree, p) = data
<1>1. tree[p] \in Files BY DEF Files
<1>2. tree[p] \notin {Absent, Broken} BY <1>1, MarksAreDistinct
<1>3. Bound \in 1 .. Bound BY BoundIsNat
<1>4. Flat(tree, p) = Level(tree, Load(tree)[Bound - 1])[p] BY <1>3, LoadIs
<1> QED BY <1>2, <1>4 DEF Level

-----------------------------------------------------------------------------
(* The entries of a name.                                                  *)

LEMMA PathsOf ==
  /\ \A n \in Names : Yaml(n) \in Paths /\ Yml(n) \in Paths /\ Yaml(n) # Yml(n) /\ Yaml(n)[1] = n /\ Yml(n)[1] = n
  /\ \A p \in Paths : p[1] \in Names /\ (p = Yaml(p[1]) \/ p = Yml(p[1]))
  /\ \A n, m : Yaml(n) = Yaml(m) => n = m
BY DEF Paths, Yaml, Yml, Suffixes

LEMMA UserPathIs ==
  ASSUME NEW arg \in Arguments
  PROVE  /\ arg[1] \in Names /\ UserPath(arg) \in {Yaml(arg[1]), Yml(arg[1])}
         /\ UserPath(arg) \in Paths /\ UserPath(arg)[1] = arg[1]
         /\ arg[2] = "" => UserPath(arg) = Yaml(arg[1]) /\ arg = <<arg[1], "">>
         /\ arg[2] # "" => UserPath(arg) = arg
<1>1. arg = <<arg[1], arg[2]>> /\ arg[1] \in Names /\ arg[2] \in {"", ".yaml", ".yml"}
  <2> DEFINE Ends == Suffixes \cup {""}
  <2>1. \A x \in Ends : x \in {"", ".yaml", ".yml"} BY DEF Suffixes
  <2>2. arg \in Names \X Ends BY DEF Arguments
  <2> HIDE DEF Ends
  <2>3. arg = <<arg[1], arg[2]>> /\ arg[1] \in Names /\ arg[2] \in Ends BY <2>2
  <2> QED BY <2>1, <2>3
<1>2. arg[2] # "" => UserPath(arg) = arg BY Zenon DEF UserPath
<1>3. UserPath(arg) \in {Yaml(arg[1]), Yml(arg[1])} BY <1>1, <1>2 DEF UserPath, Yaml, Yml
<1>4. arg[2] = "" => UserPath(arg) = Yaml(arg[1]) BY DEF UserPath
<1> QED BY <1>1, <1>2, <1>3, <1>4, PathsOf

\* A name is looked for in NAME.yaml, then in NAME.yml.
LEMMA ListedIs ==
  ASSUME NEW tree, NEW n \in Names
  PROVE  /\ Listed(tree, n) = <<>> <=> tree[Yaml(n)] = Absent /\ tree[Yml(n)] = Absent
         /\ Listed(tree, n) # <<>> => Effective(Listed(tree, n)) = IF tree[Yaml(n)] # Absent THEN Yaml(n) ELSE Yml(n)
<1>1. CASE tree[Yaml(n)] = Absent /\ tree[Yml(n)] = Absent BY <1>1 DEF Listed
<1>2. CASE tree[Yaml(n)] # Absent /\ tree[Yml(n)] = Absent BY <1>2 DEF Listed, Effective
<1>3. CASE tree[Yaml(n)] = Absent /\ tree[Yml(n)] # Absent BY <1>3 DEF Listed, Effective
<1>4. CASE tree[Yaml(n)] # Absent /\ tree[Yml(n)] # Absent BY <1>4 DEF Listed, Effective
<1> QED BY <1>1, <1>2, <1>3, <1>4

LEMMA FirstIs ==
  ASSUME NEW tree, NEW n \in Names
  PROVE  /\ In(tree, <<n, "">>) = {} <=> tree[Yaml(n)] = Absent /\ tree[Yml(n)] = Absent
         /\ In(tree, <<n, "">>) # {} => First(tree, <<n, "">>) = IF tree[Yaml(n)] # Absent THEN Yaml(n) ELSE Yml(n)
<1> DEFINE v == <<Yaml(n), Yml(n)>>
           in == In(tree, <<n, "">>)
           least == CHOOSE i \in in : \A j \in in : i <= j
<1>1. Variants(<<n, "">>) = v BY DEF Variants
<1>2. in = {i \in DOMAIN v : tree[v[i]] # Absent} BY <1>1 DEF In
<1>3. First(tree, <<n, "">>) = v[least] BY <1>1 DEF First
<1>4. DOMAIN v = {1, 2} /\ v[1] = Yaml(n) /\ v[2] = Yml(n) OBVIOUS
<1> HIDE DEF v, in
<1>5. CASE tree[Yaml(n)] # Absent
  <2>1. 1 \in in /\ \A j \in in : 1 <= j /\ (j <= 1 => j = 1) BY <1>2, <1>4, <1>5
  <2>2. \A i \in in : (\A j \in in : i <= j) => i = 1 BY <2>1
  <2>3. least = 1 BY <2>1, <2>2
  <2> QED BY <1>3, <1>4, <1>5, <2>1, <2>3 DEF in
<1>6. CASE tree[Yaml(n)] = Absent /\ tree[Yml(n)] # Absent
  <2>1. in = {2} BY <1>2, <1>4, <1>6
  <2>2. least = 2 BY <2>1
  <2> QED BY <1>3, <1>4, <1>6, <2>1, <2>2 DEF in
<1>7. CASE tree[Yaml(n)] = Absent /\ tree[Yml(n)] = Absent
  <2>1. in = {} BY <1>2, <1>4, <1>7
  <2> QED BY <1>7, <2>1 DEF in
<1> QED BY <1>5, <1>6, <1>7

-----------------------------------------------------------------------------
(* What config edit copies: the parents, each once and below none of them. *)

\* How many files of the bundled chain the meaning of n takes.
Loads(k, n) == Load(BundledTree)[k][Yaml(n)] # Invalid
Depth(n) == CHOOSE d \in 0 .. Bound : Loads(d, n) /\ \A e \in 0 .. Bound : Loads(e, n) => d <= e

LEMMA DepthIs ==
  ASSUME NEW n, NEW k \in 0 .. Bound, Loads(k, n)
  PROVE  Depth(n) \in 0 .. Bound /\ Loads(Depth(n), n) /\ Depth(n) <= k
<1> DEFINE T == {d \in 0 .. Bound : Loads(d, n)}
<1>1. T \subseteq Nat /\ k \in T BY BoundIsNat
<1>2. PICK x \in T : \A y \in T : ~(y < x)
  <2> HIDE DEF T
  <2> QED BY <1>1, HasLeast
<1>3. x \in 0 .. Bound /\ Loads(x, n) /\ \A e \in 0 .. Bound : Loads(e, n) => x <= e BY <1>2, BoundIsNat
<1>4. Depth(n) \in 0 .. Bound /\ Loads(Depth(n), n) /\ \A e \in 0 .. Bound : Loads(e, n) => Depth(n) <= e
  BY <1>3 DEF Depth
<1> QED BY <1>4

LEMMA LoadsParent ==
  ASSUME NEW n \in Names, NEW k \in 0 .. Bound, Loads(k, n)
  PROVE  /\ k > 0 /\ Bundled[n] \in Files
         /\ Bundled[n].extends # None => Bundled[n].extends \in Names /\ Loads(k - 1, Bundled[n].extends)
<1> DEFINE load == Load(BundledTree)
<1>1. Yaml(n) \in Paths /\ BundledTree[Yaml(n)] = Bundled[n] BY PathsOf, BundledTreeType
<1>2. k > 0 BY <1>1, LoadIs, BoundIsNat DEF Loads
<1>3. load[k] = Level(BundledTree, load[k - 1]) BY <1>2, LoadIs, BoundIsNat
<1> HIDE DEF load
<1>4. /\ Bundled[n] \notin {Absent, Broken}
      /\ Bundled[n].extends # None => Merge(load[k - 1][Yaml(Bundled[n].extends)], Bundled[n].data) # Invalid
  BY <1>1, <1>3 DEF Level, Loads, load
<1>5. Bundled[n] \in Files BY <1>4, CatalogAssumption
<1>6. Bundled[n].extends # None => load[k - 1][Yaml(Bundled[n].extends)] # Invalid BY <1>4 DEF Merge
<1> QED BY <1>2, <1>5, <1>6 DEF Files, Loads, load

LEMMA ParentsAreShallower ==
  ASSUME NEW n \in Names, NEW k \in 0 .. Bound, Loads(k, n), Bundled[n].extends # None
  PROVE  Depth(Bundled[n].extends) < Depth(n)
<1>1. Depth(n) \in 0 .. Bound /\ Loads(Depth(n), n) BY DepthIs
<1>2. Depth(n) > 0 /\ Loads(Depth(n) - 1, Bundled[n].extends) BY <1>1, LoadsParent
<1>3. Depth(n) - 1 \in 0 .. Bound BY <1>1, <1>2, BoundIsNat
<1> QED BY <1>1, <1>2, <1>3, DepthIs

\* A tree has the parent of the bundled n, if it has one.
HasParent(tree, n) == LET q == Bundled[n].extends IN q = None \/ tree[Yaml(q)] # Absent
\* The i-th file of a plan: its parent is there, or is copied just before it.
Placed(tree, s, i) ==
  /\ Bundled[s[i]] \in Files
  /\ HasParent(tree, s[i]) \/ (i > 1 /\ s[i - 1] = Bundled[s[i]].extends)
  /\ \A j \in 1 .. Len(s) : s[i] = s[j] => i = j
\* A plan that copies what n needs, n last.
PlanOf(n, s) ==
  /\ s \in Seq(Names) /\ s # <<>> /\ s[Len(s)] = n
  /\ \A i \in 1 .. Len(s) : Placed(user, s, i)
  /\ \A i \in 1 .. Len(s) : i < Len(s) => Missing(s[i])

LEMMA PlanIs ==
  ASSUME NEW n \in Names, Loads(Bound, n)
  PROVE  PlanOf(n, CopyPlan(n))
<1> DEFINE Shallow(m, s) == \A i \in 1 .. Len(s) : Depth(s[i]) \in Int /\ (i < Len(s) => Depth(s[i]) < Depth(m))
           Planned(k) == k <= Bound => \A m \in Names : Loads(k, m) => PlanOf(m, Plans[k][m]) /\ Shallow(m, Plans[k][m])
           S == {k \in Nat : Planned(k)}
<1>1. 0 \in S BY LoadsParent, BoundIsNat
<1>2. ASSUME NEW k \in Nat, k \in S PROVE k + 1 \in S
  <2> SUFFICES ASSUME k + 1 <= Bound, NEW m \in Names, Loads(k + 1, m)
               PROVE  PlanOf(m, Plans[k + 1][m]) /\ Shallow(m, Plans[k + 1][m])
    OBVIOUS
  <2> DEFINE q == Bundled[m].extends
             s == Plans[k + 1][m]
  <2>1. k + 1 \in 0 .. Bound /\ k + 1 \in 1 .. Bound /\ (k + 1) - 1 = k /\ k <= Bound /\ k \in 0 .. Bound BY BoundIsNat
  <2>2. Bundled[m] \in Files /\ (q # None => q \in Names /\ Loads(k, q)) BY <2>1, LoadsParent
  <2>3. Depth(m) \in Int BY <2>1, DepthIs, BoundIsNat
  <2>4. s = IF q = None \/ ~Missing(q) THEN <<m>> ELSE Append(Plans[k][q], m)
    <3>1. Plans[k + 1] = WithParents(Plans[k]) BY <2>1, PlansAre
    <3> QED BY <3>1, Zenon DEF WithParents, ParentsFirst
  <2>5. CASE q = None \/ ~Missing(q)
    <3>1. s = <<m>> BY <2>4, <2>5
    <3> HIDE DEF s
    <3>2. s \in Seq(Names) /\ s # <<>> /\ Len(s) = 1 /\ s[1] = m BY <3>1
    <3>3. HasParent(user, m) BY <2>5 DEF HasParent, Missing
    <3>4. \A i \in 1 .. Len(s) : i = 1 BY <3>2
    <3> QED BY <2>2, <2>3, <3>2, <3>3, <3>4 DEF PlanOf, Placed, s
  <2>6. CASE q # None /\ Missing(q)
    <3> DEFINE t == Plans[k][q]
    <3>1. s = Append(t, m) BY <2>4, <2>6
    <3>2. PlanOf(q, t) /\ Shallow(q, t) BY <1>2, <2>1, <2>2, <2>6
    <3>3. Depth(q) < Depth(m) BY <2>1, <2>6, ParentsAreShallower
    <3> HIDE DEF s, t
    <3>4. t \in Seq(Names) /\ Len(t) \in Nat /\ Len(t) > 0 /\ t[Len(t)] = q BY <3>2 DEF PlanOf
    <3>5. /\ s \in Seq(Names) /\ Len(s) = Len(t) + 1 /\ s[Len(s)] = m /\ s # <<>>
          /\ \A i \in 1 .. Len(t) : s[i] = t[i]
      BY <3>1, <3>4
    <3>6. \A i \in 1 .. Len(t) : Depth(t[i]) \in Int /\ Depth(t[i]) < Depth(m)
      BY <2>3, <3>2, <3>3, <3>4
    <3>7. \A i \in 1 .. Len(t) : s[i] # m BY <2>3, <3>5, <3>6
    <3>8. \A i \in 1 .. Len(s) : i \in 1 .. Len(t) \/ i = Len(s) BY <3>4, <3>5
    <3>9. Shallow(m, s) BY <2>3, <3>4, <3>5, <3>6, <3>8
    <3>10. ASSUME NEW i \in 1 .. Len(s) PROVE Placed(user, s, i)
      <4>1. CASE i \in 1 .. Len(t)
        <5>1. Placed(user, t, i) BY <3>2, <4>1 DEF PlanOf
        <5>2. i > 1 => i - 1 \in 1 .. Len(t) /\ s[i - 1] = t[i - 1] BY <3>4, <3>5, <4>1
        <5>3. \A j \in 1 .. Len(s) : s[i] = s[j] => i = j BY <3>5, <3>7, <3>8, <4>1, <5>1 DEF Placed
        <5> QED BY <3>5, <4>1, <5>1, <5>2, <5>3 DEF Placed
      <4>2. CASE i = Len(s)
        <5>1. i > 1 /\ s[i] = m /\ s[i - 1] = q BY <3>4, <3>5, <4>2
        <5>2. \A j \in 1 .. Len(s) : s[i] = s[j] => i = j BY <3>7, <3>8, <4>2, <5>1
        <5> QED BY <2>2, <5>1, <5>2 DEF Placed
      <4> QED BY <3>8, <4>1, <4>2
    <3>11. \A i \in 1 .. Len(s) : i < Len(s) => Missing(s[i])
      <4> TAKE i \in 1 .. Len(s)
      <4> HAVE i < Len(s)
      <4>1. i \in 1 .. Len(t) BY <3>8
      <4>2. i < Len(t) => Missing(t[i]) BY <3>2, <4>1 DEF PlanOf
      <4>3. i = Len(t) \/ i < Len(t) BY <3>4, <4>1
      <4> QED BY <2>6, <3>4, <3>5, <4>1, <4>2, <4>3
    <3> QED BY <3>5, <3>9, <3>10, <3>11 DEF PlanOf, s
  <2> QED BY <2>5, <2>6
<1>3. Nat \subseteq S
  <2> HIDE DEF S
  <2> QED BY <1>1, <1>2, NatSet
<1>4. PlanOf(n, Plans[Bound][n]) BY <1>3, BoundIsNat
<1> QED BY <1>4, PlansAre

-----------------------------------------------------------------------------
(* Types.                                                                  *)

LEMMA FilesAre ==
  /\ Empty \in Files /\ Absent \notin Files /\ Broken \notin Files /\ Broken # Absent
  /\ \A data \in Data : [extends |-> None, data |-> data] \in Files
<1>1. [r \in {} |-> Unset] \in UNION {[R -> Settings] : R \in SUBSET RoleNames}
  <2>1. [r \in {} |-> Unset] \in [{} -> Settings] OBVIOUS
  <2> QED BY <2>1
<1>2. NoData \in Data BY <1>1 DEF NoData, Data, Settings
<1>3. \A data \in Data : [extends |-> None, data |-> data] \in Files BY DEF Files
<1> QED BY <1>2, <1>3, MarksAreDistinct DEF Empty

\* A user's file of the name, or else the bundled one, or none.
LEMMA EntryIs ==
  ASSUME NEW n \in Names
  PROVE  \/ /\ ~(user[Yaml(n)] = Absent /\ user[Yml(n)] = Absent)
            /\ Entry(n) = <<"user", IF user[Yaml(n)] # Absent THEN Yaml(n) ELSE Yml(n)>>
         \/ /\ user[Yaml(n)] = Absent /\ user[Yml(n)] = Absent /\ Bundled[n] # Absent
            /\ Entry(n) = <<"bundled", Yaml(n)>>
         \/ /\ user[Yaml(n)] = Absent /\ user[Yml(n)] = Absent /\ Bundled[n] = Absent
            /\ Entry(n) = None
<1>1. CASE ~(user[Yaml(n)] = Absent /\ user[Yml(n)] = Absent)
  BY <1>1, ListedIs, Zenon DEF Entry
<1>2. CASE user[Yaml(n)] = Absent /\ user[Yml(n)] = Absent
  <2>1. Listed(user, n) = <<>> BY <1>2, ListedIs
  <2>2. CASE Bundled[n] = Absent
    <3>1. Listed(BundledTree, n) = <<>> BY <2>2, ListedIs, BundledTreeType
    <3> QED BY <1>2, <2>1, <2>2, <3>1 DEF Entry
  <2>3. CASE Bundled[n] # Absent
    <3>1. Listed(BundledTree, n) # <<>> /\ Effective(Listed(BundledTree, n)) = Yaml(n)
      BY <2>3, ListedIs, BundledTreeType
    <3> QED BY <1>2, <2>1, <2>3, <3>1 DEF Entry
  <2> QED BY <2>2, <2>3
<1> QED BY <1>1, <1>2

LEMMA FirstType ==
  ASSUME NEW tree, NEW arg \in Arguments, In(tree, arg) # {}
  PROVE  First(tree, arg) \in Paths
<1>1. arg[1] \in Names /\ (arg[2] = "" => arg = <<arg[1], "">>) /\ (arg[2] # "" => arg \in Paths)
  BY UserPathIs
<1>2. CASE arg[2] = ""
  <2>1. PICK n \in Names : arg = <<n, "">> BY <1>1, <1>2
  <2>2. In(tree, <<n, "">>) # {} BY <2>1
  <2>3. First(tree, <<n, "">>) \in Paths BY <2>2, FirstIs, PathsOf
  <2> QED BY <2>1, <2>3
<1>3. CASE arg[2] # ""
  <2>1. Variants(arg) = <<arg>> BY <1>3 DEF Variants
  <2>2. In(tree, arg) = {1} BY <2>1 DEF In
  <2>3. (CHOOSE i \in In(tree, arg) : \A j \in In(tree, arg) : i <= j) = 1 BY <2>2
  <2>4. First(tree, arg) = <<arg>>[1] BY <2>1, <2>3 DEF First
  <2> QED BY <1>1, <1>3, <2>4
<1> QED BY <1>2, <1>3

LEMMA MeaningType ==
  ASSUME user \in Trees, NEW arg \in Arguments PROVE Meaning(arg) \in Data \cup {Invalid}
<1>1. CASE In(user, arg) # {}
  <2>1. Resolved(arg) = <<"user", First(user, arg)>> BY <1>1 DEF Resolved
  <2>2. First(user, arg) \in Paths BY <1>1, FirstType
  <2>3. Resolved(arg)[1] = "user" /\ Resolved(arg)[2] \in Paths BY <2>1, <2>2
  <2> QED BY <2>3, FlatType DEF Meaning, Tree
<1>2. CASE In(user, arg) = {} /\ In(BundledTree, arg) # {}
  <2>1. Resolved(arg) = <<"bundled", First(BundledTree, arg)>> BY <1>2 DEF Resolved
  <2>2. First(BundledTree, arg) \in Paths BY <1>2, FirstType
  <2>3. Resolved(arg)[1] = "bundled" /\ Resolved(arg)[2] \in Paths BY <2>1, <2>2
  <2> QED BY <2>3, FlatType, BundledTreeType DEF Meaning, Tree
<1>3. CASE In(user, arg) = {} /\ In(BundledTree, arg) = {}
  BY <1>3 DEF Meaning, Resolved
<1> QED BY <1>1, <1>2, <1>3

\* The cases of config edit.
LEMMA EditIs ==
  ASSUME NEW arg \in Arguments, Edit(arg)
  PROVE  LET n == arg[1]
         IN /\ n \in Names /\ pc = "idle" /\ argument' = arg /\ forced' = FALSE
            /\ commands > 0 /\ commands' = commands - 1 /\ UNCHANGED <<exported, meant>>
            /\ \/ /\ ~(user[Yaml(n)] = Absent /\ user[Yml(n)] = Absent)
                  /\ opened' = (IF user[Yaml(n)] # Absent THEN Yaml(n) ELSE Yml(n))
                  /\ pc' = "editor" /\ UNCHANGED <<user, plan, origin>>
               \/ /\ user[Yaml(n)] = Absent /\ user[Yml(n)] = Absent /\ Loads(Bound, n)
                  /\ opened' = UserPath(arg) /\ pc' = "copy" /\ plan' = CopyPlan(n) /\ UNCHANGED <<user, origin>>
               \/ /\ user[Yaml(n)] = Absent /\ user[Yml(n)] = Absent
                  /\ opened' = UserPath(arg) /\ pc' = "editor" /\ UNCHANGED plan
                  /\ Store(UserPath(arg), Empty, "edit")
<1> DEFINE n == arg[1]
           entry == Entry(n)
<1>1. n \in Names BY UserPathIs
<1>2. /\ pc = "idle" /\ argument' = arg /\ forced' = FALSE
      /\ commands > 0 /\ commands' = commands - 1 /\ UNCHANGED <<exported, meant>>
  BY DEF Edit, Command
<1>3. /\ \/ /\ entry # None /\ entry[1] = "user"
            /\ opened' = entry[2] /\ pc' = "editor" /\ UNCHANGED <<user, plan, origin>>
         \/ /\ entry # None /\ entry[1] = "bundled" /\ Valid(Flat(BundledTree, entry[2]))
            /\ opened' = UserPath(arg) /\ pc' = "copy" /\ plan' = CopyPlan(n) /\ UNCHANGED <<user, origin>>
         \/ /\ entry = None
            /\ opened' = UserPath(arg) /\ pc' = "editor" /\ user' = [user EXCEPT ![UserPath(arg)] = Empty]
            /\ origin' = [origin EXCEPT ![UserPath(arg)] = "edit"] /\ UNCHANGED plan
  BY DEF Edit
<1> USE DEF Store
<1>4. CASE /\ ~(user[Yaml(n)] = Absent /\ user[Yml(n)] = Absent)
           /\ entry = <<"user", IF user[Yaml(n)] # Absent THEN Yaml(n) ELSE Yml(n)>>
  <2>1. entry # None /\ entry[1] = "user" BY <1>1, <1>4, PathsOf, MarksAreDistinct
  <2> QED BY <1>1, <1>2, <1>3, <1>4, <2>1
<1>5. CASE /\ user[Yaml(n)] = Absent /\ user[Yml(n)] = Absent /\ Bundled[n] # Absent
           /\ entry = <<"bundled", Yaml(n)>>
  <2>1. entry # None /\ entry[1] = "bundled" /\ entry[2] = Yaml(n) BY <1>1, <1>5, PathsOf, MarksAreDistinct
  <2>2. Valid(Flat(BundledTree, Yaml(n))) => Loads(Bound, n) BY LoadIs DEF Valid, Loads
  <2> QED BY <1>1, <1>2, <1>3, <1>5, <2>1, <2>2
<1>6. CASE /\ user[Yaml(n)] = Absent /\ user[Yml(n)] = Absent /\ Bundled[n] = Absent
           /\ entry = None
  BY <1>1, <1>2, <1>3, <1>6
<1> QED BY <1>1, <1>4, <1>5, <1>6, EntryIs

Origins == {"none", "copy", "import", "edit", "torn"}

LEMMA StoreIs ==
  ASSUME user \in Trees, origin \in [Paths -> Origins],
         NEW p \in Paths, NEW file \in Files \cup {Absent, Broken}, NEW from \in Origins, Store(p, file, from)
  PROVE  /\ user' \in Trees /\ origin' \in [Paths -> Origins]
         /\ user'[p] = file /\ origin'[p] = from
         /\ \A q \in Paths : q # p => user'[q] = user[q] /\ origin'[q] = origin[q]
<1>1. user' = [user EXCEPT ![p] = file] /\ origin' = [origin EXCEPT ![p] = from] BY DEF Store
<1>2. user \in [Paths -> Files \cup {Absent, Broken}] BY DEF Trees
<1>3. user' \in [Paths -> Files \cup {Absent, Broken}] BY <1>1, <1>2
<1>4. user' \in Trees BY <1>3 DEF Trees
<1>5. origin' \in [Paths -> Origins] BY <1>1
<1> QED BY <1>1, <1>2, <1>4, <1>5

LEMMA SourcesAre ==
  ASSUME user \in Trees, exported \in Data \cup {Invalid}, NEW source \in Sources
  PROVE  source[2] \in Data /\ source[1] = [extends |-> None, data |-> source[2]]
<1>1. CASE \E y \in {user, BundledTree} \X Paths :
             Valid(Flat(y[1], y[2])) /\ source = <<Portable(y[1], y[2]), Flat(y[1], y[2])>>
  <2>1. PICK y \in {user, BundledTree} \X Paths :
           Valid(Flat(y[1], y[2])) /\ source = <<Portable(y[1], y[2]), Flat(y[1], y[2])>>
    BY <1>1
  <2>2. y[1] \in Trees /\ y[2] \in Paths BY BundledTreeType
  <2>3. Flat(y[1], y[2]) \in Data BY <2>1, <2>2, FlatType DEF Valid
  <2> QED BY <2>1, <2>3 DEF Portable
<1>2. CASE exported # Invalid /\ source = <<[extends |-> None, data |-> exported], exported>>
  BY <1>2
<1> QED BY <1>1, <1>2, Zenon DEF Sources

LEMMA TargetIs ==
  ASSUME opened \in Paths, NEW n \in Names
  PROVE  Target(n) \in Paths /\ Target(n)[1] = n /\ (n # opened[1] => Target(n) = Yaml(n))
BY PathsOf DEF Target

LEMMA PlanStep ==
  ASSUME plan \in Seq(Names), plan # <<>>
  PROVE  /\ Head(plan) \in Names /\ Head(plan) = plan[1] /\ Tail(plan) \in Seq(Names)
         /\ Len(plan) \in Nat /\ Len(plan) > 0 /\ Len(Tail(plan)) = Len(plan) - 1
         /\ \A i \in 1 .. Len(Tail(plan)) : i + 1 \in 1 .. Len(plan) /\ Tail(plan)[i] = plan[i + 1]
OBVIOUS

LEMMA TypeInit == Init => TypeOK
<1> SUFFICES ASSUME Init PROVE TypeOK OBVIOUS
<1>1. user \in Trees BY DEF Init, Trees
<1>2. plan \in Seq(Names) /\ commands \in 0 .. MaxCommands BY CatalogAssumption DEF Init
<1> QED BY <1>1, <1>2 DEF Init, TypeOK

LEMMA TypeStep == TypeOK /\ [Next]_vars => TypeOK'
<1> SUFFICES ASSUME TypeOK, [Next]_vars PROVE TypeOK' OBVIOUS
<1> USE DEF Origins
<1>1. ASSUME NEW arg \in Arguments, Edit(arg) PROVE TypeOK'
  <2>1. UserPath(arg) \in Paths /\ arg[1] \in Names BY UserPathIs
  <2>2. commands' \in 0 .. MaxCommands
    <3>1. commands > 0 /\ commands' = commands - 1 BY <1>1, EditIs
    <3> QED BY <3>1, CatalogAssumption DEF TypeOK
  <2>3. CASE UNCHANGED <<user, origin, plan>> /\ opened' \in Paths /\ pc' = "editor"
    BY <1>1, <2>2, <2>3, EditIs DEF TypeOK
  <2>4. CASE Loads(Bound, arg[1]) /\ plan' = CopyPlan(arg[1]) /\ opened' = UserPath(arg) /\ pc' = "copy" /\ UNCHANGED <<user, origin>>
    <3>1. plan' \in Seq(Names) BY <2>1, <2>4, PlanIs DEF PlanOf
    <3> QED BY <1>1, <2>1, <2>2, <2>4, <3>1, EditIs DEF TypeOK
  <2>5. CASE Store(UserPath(arg), Empty, "edit") /\ opened' = UserPath(arg) /\ pc' = "editor" /\ UNCHANGED plan
    <3>1. user' \in Trees /\ origin' \in [Paths -> Origins] BY <2>1, <2>5, StoreIs, FilesAre DEF TypeOK
    <3> QED BY <1>1, <2>1, <2>2, <2>5, <3>1, EditIs DEF TypeOK
  <2>6. Yaml(arg[1]) \in Paths /\ Yml(arg[1]) \in Paths BY <2>1, PathsOf
  <2> QED BY <1>1, <2>3, <2>4, <2>5, <2>6, EditIs
<1>2. ASSUME NEW arg \in Arguments, Export(arg) PROVE TypeOK'
  <2>1. exported' \in Data \cup {Invalid} BY <1>2, MeaningType DEF Export, TypeOK
  <2>2. commands' \in 0 .. MaxCommands BY <1>2, CatalogAssumption DEF Export, Command, TypeOK
  <2> QED BY <1>2, <2>1, <2>2 DEF Export, Command, TypeOK
<1>3. ASSUME CopyNext PROVE TypeOK'
  <2>1. plan # <<>> /\ pc = "copy" /\ opened \in Paths BY <1>3 DEF CopyNext, TypeOK
  <2>2. Head(plan) \in Names /\ Tail(plan) \in Seq(Names) BY <2>1, PlanStep DEF TypeOK
  <2>3. Bundled[Head(plan)] \in Files \cup {Absent, Broken} BY <2>2, CatalogAssumption
  <2>4. Target(Head(plan)) \in Paths BY <2>1, <2>2, TargetIs
  <2>5. user' \in Trees /\ origin' \in [Paths -> Origins]
    BY <1>3, <2>3, <2>4, StoreIs DEF CopyNext, TypeOK
  <2> QED BY <1>3, <2>2, <2>5 DEF CopyNext, TypeOK
<1>4. ASSUME OpenEditor PROVE TypeOK'
  BY <1>4 DEF OpenEditor, TypeOK
<1>5. ASSUME Interrupted PROVE TypeOK'
  <2>1. plan # <<>> /\ opened \in Paths BY <1>5 DEF Interrupted, TypeOK
  <2>2. Target(Head(plan)) \in Paths BY <2>1, PlanStep, TargetIs DEF TypeOK
  <2>3. ASSUME Torn(Target(Head(plan))) PROVE user' \in Trees /\ origin' \in [Paths -> Origins]
    <3>1. PICK file \in {Empty, Broken} : Store(Target(Head(plan)), file, "torn") BY <2>3 DEF Torn
    <3> QED BY <2>2, <3>1, StoreIs, FilesAre DEF TypeOK
  <2>4. user' \in Trees /\ origin' \in [Paths -> Origins] BY <1>5, <2>3 DEF Interrupted, TypeOK
  <2>5. plan' \in Seq(Names) BY <1>5 DEF Interrupted
  <2> QED BY <1>5, <2>4, <2>5 DEF Interrupted, TypeOK
<1>6. ASSUME Close PROVE TypeOK'
  BY <1>6 DEF Close, TypeOK
<1>7. ASSUME NEW draft \in Drafts, Save(draft) PROVE TypeOK'
  <2>1. opened \in Paths /\ argument \in Arguments /\ draft \in Files BY <1>7, CatalogAssumption DEF Save, TypeOK
  <2>2. user' \in Trees /\ origin' \in [Paths -> Origins] BY <1>7, <2>1, StoreIs DEF Save, TypeOK
  <2> QED BY <1>7, <2>1, <2>2 DEF Save, TypeOK
<1>8. ASSUME NEW arg \in Arguments, NEW source \in Sources, NEW force \in BOOLEAN, Import(arg, source, force)
      PROVE  TypeOK'
  <2>1. UserPath(arg) \in Paths BY UserPathIs
  <2>2. source[2] \in Data /\ source[1] \in Files BY SourcesAre, FilesAre DEF TypeOK
  <2>3. user' \in Trees /\ origin' \in [Paths -> Origins] /\ meant' \in [Paths -> Data \cup {Invalid}]
    <3>1. CASE Store(UserPath(arg), source[1], "import") /\ meant' = [meant EXCEPT ![UserPath(arg)] = source[2]]
      <4>1. user' \in Trees /\ origin' \in [Paths -> Origins] BY <2>1, <2>2, <3>1, StoreIs DEF TypeOK
      <4> QED BY <2>1, <2>2, <3>1, <4>1 DEF TypeOK
    <3>2. CASE Torn(UserPath(arg)) /\ UNCHANGED meant
      <4>1. PICK file \in {Empty, Broken} : Store(UserPath(arg), file, "torn") BY <3>2 DEF Torn
      <4> QED BY <2>1, <3>2, <4>1, StoreIs, FilesAre DEF TypeOK
    <3> QED BY <1>8, <3>1, <3>2 DEF Import
  <2>4. pc = "idle" /\ commands' \in 0 .. MaxCommands /\ forced' \in BOOLEAN
    BY <1>8, CatalogAssumption DEF Import, Command, TypeOK
  <2> QED BY <1>8, <2>3, <2>4 DEF Import, TypeOK
<1>9. CASE UNCHANGED vars
  BY <1>9 DEF vars, TypeOK
<1> QED BY <1>1, <1>2, <1>3, <1>4, <1>5, <1>6, <1>7, <1>8, <1>9 DEF Next, Finished

-----------------------------------------------------------------------------
(* Where the user's files come from.                                       *)

Imported ==
  \A p \in Paths :
    origin[p] = "import" => meant[p] \in Data /\ user[p] = [extends |-> None, data |-> meant[p]]
Told == \A p \in Paths : user[p] = Absent <=> origin[p] = "none"
Copied ==
  \A p \in Paths : origin[p] = "copy" => user[p] = Bundled[p[1]] /\ Bundled[p[1]] \in Files /\ HasParent(user, p[1])
\* Target, of a path that edit opens.
TargetOf(path, n) == IF n = path[1] THEN path ELSE Yaml(n)
\* What is left of a copy.
Planned ==
  pc = "copy" =>
    /\ opened = UserPath(argument)
    /\ IF plan = <<>> THEN user[opened] # Absent ELSE plan[Len(plan)] = opened[1]
    /\ \A i \in 1 .. Len(plan) : user[TargetOf(opened, plan[i])] = Absent /\ Placed(user, plan, i)
\* What is in the editor.
Editing ==
  pc \in {"editor", "check"} =>
    /\ user[opened] # Absent
    /\ argument[2] = "" =>
         opened = Yaml(argument[1]) \/ (opened = Yml(argument[1]) /\ user[Yaml(argument[1])] = Absent)
IInv == TypeOK /\ Imported /\ Told /\ Copied /\ Planned /\ Editing

LEMMA TargetOfIs ==
  ASSUME NEW path \in Paths, NEW n \in Names
  PROVE  TargetOf(path, n) \in Paths /\ TargetOf(path, n)[1] = n /\ (n # path[1] => TargetOf(path, n) = Yaml(n))
BY PathsOf DEF TargetOf

LEMMA ParentsStay ==
  ASSUME \A p \in Paths : user[p] # Absent => user'[p] # Absent,
         NEW n \in Names, Bundled[n] \in Files, HasParent(user, n)
  PROVE  HasParent(user', n)
<1> DEFINE q == Bundled[n].extends
<1>1. q \in Names \/ q = None BY DEF Files
<1>2. q # None => Yaml(q) \in Paths /\ user[Yaml(q)] # Absent BY <1>1, PathsOf DEF HasParent
<1>3. q # None => user'[Yaml(q)] # Absent BY <1>2
<1> QED BY <1>3 DEF HasParent

\* A file that is written takes nothing from what the others are.
LEMMA WriteStep ==
  ASSUME TypeOK, Imported, Told, Copied,
         NEW p \in Paths, NEW file \in Files \cup {Broken}, NEW from \in Origins \ {"none"}, Store(p, file, from),
         IF from = "import"
           THEN \E data \in Data : file = [extends |-> None, data |-> data] /\ meant' = [meant EXCEPT ![p] = data]
           ELSE meant' = meant,
         from = "copy" => file = Bundled[p[1]] /\ Bundled[p[1]] \in Files /\ HasParent(user, p[1])
  PROVE  Imported' /\ Told' /\ Copied'
<1>1. /\ user'[p] = file /\ origin'[p] = from /\ file # Absent
      /\ \A q \in Paths : q # p => user'[q] = user[q] /\ origin'[q] = origin[q]
  BY StoreIs, FilesAre DEF TypeOK, Origins
<1>2. \A q \in Paths : q # p => meant'[q] = meant[q] BY DEF TypeOK
<1>3. from = "import" => meant'[p] \in Data /\ file = [extends |-> None, data |-> meant'[p]] BY DEF TypeOK
<1>4. Imported'
  <2> SUFFICES ASSUME NEW q \in Paths, origin'[q] = "import"
               PROVE  meant'[q] \in Data /\ user'[q] = [extends |-> None, data |-> meant'[q]]
    BY DEF Imported
  <2>1. CASE q = p BY <1>1, <1>3, <2>1
  <2>2. CASE q # p BY <1>1, <1>2, <2>2 DEF Imported
  <2> QED BY <2>1, <2>2
<1>5. Told'
  <2> SUFFICES ASSUME NEW q \in Paths PROVE user'[q] = Absent <=> origin'[q] = "none"
    BY DEF Told
  <2>1. CASE q = p BY <1>1, <2>1
  <2>2. CASE q # p BY <1>1, <2>2 DEF Told
  <2> QED BY <2>1, <2>2
<1>6. ASSUME NEW n \in Names, Bundled[n] \in Files, HasParent(user, n) PROVE HasParent(user', n)
  BY <1>1, <1>6, ParentsStay
<1>7. Copied'
  <2> SUFFICES ASSUME NEW q \in Paths, origin'[q] = "copy"
               PROVE  user'[q] = Bundled[q[1]] /\ Bundled[q[1]] \in Files /\ HasParent(user', q[1])
    BY DEF Copied
  <2>1. q[1] \in Names BY PathsOf
  <2>2. CASE q = p BY <1>1, <1>6, <2>1, <2>2
  <2>3. CASE q # p
    <3>1. user'[q] = Bundled[q[1]] /\ Bundled[q[1]] \in Files /\ HasParent(user, q[1]) BY <1>1, <2>3 DEF Copied
    <3> QED BY <1>6, <2>1, <3>1
  <2> QED BY <2>2, <2>3
<1> QED BY <1>4, <1>5, <1>7

\* A copy begins: nothing it writes is there, and it ends with what edit opens.
LEMMA CopyBegins ==
  ASSUME NEW arg \in Arguments, user' = user, pc' = "copy", argument' = arg, opened' = UserPath(arg),
         user[Yaml(arg[1])] = Absent, user[Yml(arg[1])] = Absent, Loads(Bound, arg[1]), plan' = CopyPlan(arg[1])
  PROVE  Planned'
<1> DEFINE n == arg[1]
<1>0. PICK s : s = CopyPlan(n) OBVIOUS
<1>1. /\ n \in Names /\ UserPath(arg) \in {Yaml(n), Yml(n)} /\ UserPath(arg)[1] = n
  BY UserPathIs
<1>2. PlanOf(n, s) BY <1>0, <1>1, PlanIs
<1>3. plan' = s /\ n = arg[1] BY <1>0
<1> HIDE DEF n
<1>4. s \in Seq(Names) /\ s # <<>> /\ Len(s) \in 1 .. Len(s) /\ s[Len(s)] = n BY <1>2 DEF PlanOf
<1>5. opened' = UserPath(arg) /\ opened'[1] = n BY <1>1
<1>6. ASSUME NEW i \in 1 .. Len(s) PROVE user'[TargetOf(opened', s[i])] = Absent /\ Placed(user', s, i)
  <2>1. Placed(user, s, i) BY <1>2 DEF PlanOf
  <2>2. Placed(user', s, i) BY <2>1 DEF Placed, HasParent
  <2>3. s[i] = n => user'[TargetOf(opened', s[i])] = Absent BY <1>1, <1>3, <1>5 DEF TargetOf
  <2>4. s[i] # n => i < Len(s) BY <1>4
  <2>5. s[i] # n => Missing(s[i]) BY <1>2, <2>4 DEF PlanOf
  <2>6. s[i] # n => user'[TargetOf(opened', s[i])] = Absent BY <1>5, <2>5 DEF TargetOf, Missing
  <2> QED BY <2>2, <2>3, <2>6
<1>7. \A i \in 1 .. Len(plan') : user'[TargetOf(opened', plan'[i])] = Absent /\ Placed(user', plan', i)
  BY <1>3, <1>6 DEF Placed, HasParent, Target
<1> QED BY <1>3, <1>4, <1>5, <1>7 DEF Planned

\* A copy goes on: what is left stays absent, and its parents stay or come.
LEMMA CopyContinues ==
  ASSUME TypeOK, Planned, CopyNext
  PROVE  /\ Planned' /\ plan \in Seq(Names) /\ plan # <<>>
         /\ user[TargetOf(opened, plan[1])] = Absent /\ Placed(user, plan, 1) /\ HasParent(user, plan[1])
<1>1. pc = "copy" /\ pc' = "copy" /\ plan # <<>> /\ plan' = Tail(plan) /\ UNCHANGED <<opened, argument>>
  BY DEF CopyNext
<1>2. plan \in Seq(Names) /\ opened \in Paths /\ user \in Trees /\ origin \in [Paths -> Origins]
  BY <1>1 DEF TypeOK, Origins
<1> DEFINE p == TargetOf(opened, plan[1])
<1>3. /\ plan[1] \in Names /\ Head(plan) = plan[1] /\ Len(plan) \in Nat /\ Len(plan) > 0 /\ 1 \in 1 .. Len(plan)
      /\ Tail(plan) \in Seq(Names) /\ Len(Tail(plan)) = Len(plan) - 1
      /\ \A i \in 1 .. Len(Tail(plan)) : i + 1 \in 1 .. Len(plan) /\ Tail(plan)[i] = plan[i + 1]
  BY <1>1, <1>2, PlanStep
<1>4. /\ opened = UserPath(argument) /\ plan[Len(plan)] = opened[1]
      /\ \A i \in 1 .. Len(plan) : user[TargetOf(opened, plan[i])] = Absent /\ Placed(user, plan, i)
  BY <1>1 DEF Planned
<1>5. HasParent(user, plan[1]) /\ Bundled[plan[1]] \in Files BY <1>3, <1>4 DEF Placed
<1>6. p \in Paths /\ Store(p, Bundled[plan[1]], "copy") BY <1>2, <1>3, TargetOfIs DEF CopyNext, Target, TargetOf
<1>7. user'[p] = Bundled[plan[1]] /\ user'[p] # Absent /\ \A q \in Paths : q # p => user'[q] = user[q]
  BY <1>2, <1>5, <1>6, StoreIs, FilesAre DEF Origins
<1>8. \A q \in Paths : user[q] # Absent => user'[q] # Absent BY <1>7
<1>9. IF plan' = <<>> THEN user'[opened'] # Absent ELSE plan'[Len(plan')] = opened'[1]
  <2>1. CASE plan' = <<>>
    <3>1. Len(plan) = 1
      <4>1. Len(plan') = Len(plan) - 1 BY <1>1, <1>3
      <4>2. Len(plan') = 0 BY <2>1
      <4>3. Len(plan) \in Nat BY <1>3
      <4> QED BY <4>1, <4>2, <4>3
    <3>2. p = opened BY <1>4, <3>1 DEF TargetOf
    <3> QED BY <1>1, <1>7, <2>1, <3>2
  <2>2. CASE plan' # <<>>
    <3>1. Len(plan') \in 1 .. Len(Tail(plan)) BY <1>1, <1>3, <2>2
    <3> QED BY <1>1, <1>3, <1>4, <2>2, <3>1
  <2> QED BY <2>1, <2>2
<1>10. ASSUME NEW i \in 1 .. Len(plan') PROVE user'[TargetOf(opened', plan'[i])] = Absent /\ Placed(user', plan', i)
  <2>1. i + 1 \in 1 .. Len(plan) /\ plan'[i] = plan[i + 1] /\ i + 1 # 1 /\ i \in 1 .. Len(plan) /\ i \in Int
    BY <1>1, <1>3
  <2>2. plan[i + 1] \in Names /\ plan[i + 1] # plan[1] BY <1>2, <1>3, <1>4, <2>1 DEF Placed
  <2>3. TargetOf(opened, plan[i + 1]) \in Paths /\ TargetOf(opened, plan[i + 1])[1] # p[1] BY <1>2, <1>3, <2>2, TargetOfIs
  <2>4. user'[TargetOf(opened, plan[i + 1])] = Absent BY <1>4, <1>7, <2>1, <2>3
  <2>5. TargetOf(opened', plan'[i]) = TargetOf(opened, plan[i + 1]) BY <1>1, <2>1 DEF TargetOf
  <2>6. Bundled[plan'[i]] \in Files BY <1>4, <2>1 DEF Placed
  <2>7. \A j \in 1 .. Len(plan') : plan'[i] = plan'[j] => i = j
    <3> TAKE j \in 1 .. Len(plan')
    <3>1. j + 1 \in 1 .. Len(plan) /\ plan'[j] = plan[j + 1] /\ j \in Int BY <1>1, <1>3
    <3>2. plan[i + 1] = plan[j + 1] => i + 1 = j + 1 BY <1>4, <2>1, <3>1 DEF Placed
    <3> QED BY <2>1, <3>1, <3>2
  <2>8. HasParent(user', plan[i + 1]) \/ (i > 1 /\ plan'[i - 1] = Bundled[plan'[i]].extends)
    <3>1. CASE HasParent(user, plan[i + 1]) BY <1>8, <2>1, <2>2, <2>6, <3>1, ParentsStay
    <3>2. CASE plan[i] = Bundled[plan[i + 1]].extends /\ i > 1
      <4>1. i - 1 \in 1 .. Len(plan') /\ plan'[i - 1] = plan[i] BY <1>1, <1>3, <2>1, <3>2
      <4> QED BY <2>1, <3>2, <4>1
    <3>3. CASE plan[i] = Bundled[plan[i + 1]].extends /\ i = 1
      <4>1. plan[1] # plan[Len(plan)] BY <1>3, <1>4, <2>1 DEF Placed
      <4>2. p = Yaml(plan[1]) BY <1>2, <1>3, <1>4, <4>1, TargetOfIs
      <4> QED BY <1>7, <3>3, <4>2 DEF HasParent
    <3>4. Placed(user, plan, i + 1) /\ (i + 1) - 1 = i /\ (i > 1 \/ i = 1) BY <1>4, <2>1
    <3> QED BY <3>1, <3>2, <3>3, <3>4 DEF Placed
  <2> QED BY <2>1, <2>4, <2>5, <2>6, <2>7, <2>8 DEF Placed, HasParent
<1>11. Planned' BY <1>1, <1>4, <1>9, <1>10 DEF Planned, UserPath
<1> QED BY <1>1, <1>2, <1>3, <1>4, <1>5, <1>11

LEMMA IInvInit == Init => IInv
<1> SUFFICES ASSUME Init PROVE IInv OBVIOUS
<1>1. TypeOK BY TypeInit
<1>2. user = [p \in Paths |-> Absent] /\ pc = "idle" /\ origin = [p \in Paths |-> "none"] BY DEF Init
<1>3. Imported /\ Told /\ Copied BY <1>2 DEF Imported, Told, Copied
<1>4. Planned /\ Editing BY <1>2 DEF Planned, Editing
<1> QED BY <1>1, <1>3, <1>4 DEF IInv

LEMMA IInvStep == IInv /\ [Next]_vars => IInv'
<1> SUFFICES ASSUME IInv, [Next]_vars PROVE IInv' OBVIOUS
<1>0. /\ TypeOK /\ Imported /\ Told /\ Copied /\ Planned /\ Editing /\ TypeOK'
      /\ user \in Trees /\ origin \in [Paths -> Origins]
  BY TypeStep DEF IInv, TypeOK, Origins
<1> DEFINE TreesOK == Imported /\ Told /\ Copied
           EditOK == Planned /\ Editing
<1>a. UNCHANGED <<user, origin, meant>> => TreesOK' BY <1>0 DEF Imported, Told, Copied
<1>b. UNCHANGED <<user, pc, opened, plan, argument>> \/ pc' = "idle" => EditOK'
  BY <1>0 DEF Planned, Editing
<1>c. ASSUME NEW p \in Paths, NEW file \in Files \cup {Broken}, NEW from \in Origins \ {"none", "copy", "import"},
             Store(p, file, from), meant' = meant
      PROVE  TreesOK'
  BY <1>0, <1>c, WriteStep
<1>d. ASSUME NEW p \in Paths, Torn(p), meant' = meant PROVE TreesOK'
  <2>1. PICK file \in {Empty, Broken} : Store(p, file, "torn") BY <1>d DEF Torn
  <2> QED BY <1>c, <1>d, <2>1, FilesAre DEF Origins
<1>1. ASSUME NEW arg \in Arguments, Edit(arg) PROVE TreesOK' /\ EditOK'
  <2>1. /\ arg[1] \in Names /\ UserPath(arg) \in Paths /\ (arg[2] = "" => UserPath(arg) = Yaml(arg[1]))
        /\ argument' = arg /\ meant' = meant
    BY <1>1, UserPathIs, EditIs
  <2>2. ASSUME ~(user[Yaml(arg[1])] = Absent /\ user[Yml(arg[1])] = Absent), pc' = "editor",
               opened' = (IF user[Yaml(arg[1])] # Absent THEN Yaml(arg[1]) ELSE Yml(arg[1])),
               UNCHANGED <<user, plan, origin>>
        PROVE  TreesOK' /\ EditOK'
    BY <1>a, <2>1, <2>2 DEF Planned, Editing
  <2>3. ASSUME user[Yaml(arg[1])] = Absent, user[Yml(arg[1])] = Absent, Loads(Bound, arg[1]),
               opened' = UserPath(arg), pc' = "copy", plan' = CopyPlan(arg[1]), UNCHANGED <<user, origin>>
        PROVE  TreesOK' /\ EditOK'
    <3>1. Planned' BY <2>1, <2>3, CopyBegins
    <3> QED BY <1>a, <2>1, <2>3, <3>1 DEF Editing
  <2>4. ASSUME opened' = UserPath(arg), pc' = "editor", Store(UserPath(arg), Empty, "edit")
        PROVE  TreesOK' /\ EditOK'
    <3>1. TreesOK' BY <1>c, <2>1, <2>4, FilesAre DEF Origins
    <3>2. user'[UserPath(arg)] = Empty BY <1>0, <2>1, <2>4, StoreIs, FilesAre DEF Origins
    <3>3. user'[opened'] # Absent BY <2>4, <3>2, FilesAre
    <3> QED BY <2>1, <2>4, <3>1, <3>3 DEF Planned, Editing
  <2> QED BY <1>1, <2>2, <2>3, <2>4, EditIs
<1>2. ASSUME NEW arg \in Arguments, Export(arg) PROVE TreesOK' /\ EditOK'
  BY <1>2, <1>a, <1>b DEF Export
<1>3. ASSUME CopyNext PROVE TreesOK' /\ EditOK'
  <2>1. /\ Planned' /\ HasParent(user, plan[1]) /\ Placed(user, plan, 1) /\ plan \in Seq(Names) /\ plan # <<>>
    BY <1>0, <1>3, CopyContinues
  <2>2. plan[1] \in Names /\ Head(plan) = plan[1] BY <2>1, PlanStep
  <2>3. /\ pc = "copy" /\ pc' = "copy" /\ meant' = meant /\ opened \in Paths
        /\ Store(Target(plan[1]), Bundled[plan[1]], "copy")
    BY <1>0, <1>3, <2>2 DEF CopyNext, TypeOK
  <2>4. Target(plan[1]) \in Paths /\ Target(plan[1])[1] = plan[1] BY <2>2, <2>3, TargetIs
  <2>5. Bundled[plan[1]] \in Files BY <2>1 DEF Placed
  <2>6. TreesOK' BY <1>0, <2>1, <2>3, <2>4, <2>5, WriteStep DEF Origins
  <2> QED BY <2>1, <2>3, <2>6 DEF Editing
<1>4. ASSUME OpenEditor PROVE TreesOK' /\ EditOK'
  <2>1. pc = "copy" /\ plan = <<>> /\ pc' = "editor" /\ UNCHANGED <<user, opened, plan, argument, origin, meant>>
    BY <1>4 DEF OpenEditor
  <2>2. opened = UserPath(argument) /\ user[opened] # Absent BY <1>0, <2>1 DEF Planned
  <2>3. argument[2] = "" => opened = Yaml(argument[1]) BY <2>2 DEF UserPath
  <2> QED BY <1>a, <2>1, <2>2, <2>3 DEF Planned, Editing
<1>5. ASSUME Interrupted PROVE TreesOK' /\ EditOK'
  <2>1. pc = "copy" /\ plan # <<>> /\ pc' = "idle" /\ meant' = meant BY <1>5 DEF Interrupted
  <2>2. Target(Head(plan)) \in Paths BY <1>0, <2>1, PlanStep, TargetIs DEF TypeOK
  <2>3. TreesOK' BY <1>5, <1>a, <1>d, <2>1, <2>2 DEF Interrupted
  <2> QED BY <1>b, <2>1, <2>3
<1>6. ASSUME Close PROVE TreesOK' /\ EditOK'
  BY <1>6, <1>a, <1>b DEF Close
<1>7. ASSUME NEW draft \in Drafts, Save(draft) PROVE TreesOK' /\ EditOK'
  <2>1. /\ pc = "editor" /\ pc' = "check" /\ Store(opened, draft, "edit") /\ UNCHANGED <<opened, argument, meant>>
        /\ draft \in Files /\ opened \in Paths /\ argument \in Arguments
    BY <1>0, <1>7, CatalogAssumption DEF Save, TypeOK
  <2>2. TreesOK' BY <1>c, <2>1 DEF Origins
  <2>3. user'[opened] # Absent /\ \A q \in Paths : q # opened => user'[q] = user[q]
    BY <1>0, <2>1, StoreIs, FilesAre DEF Origins
  <2>4. Yaml(argument[1]) \in Paths /\ Yaml(argument[1]) # Yml(argument[1]) BY <2>1, UserPathIs, PathsOf
  <2>5. Editing' BY <1>0, <2>1, <2>3, <2>4 DEF Editing
  <2> QED BY <2>1, <2>2, <2>5 DEF Planned
<1>8. ASSUME NEW arg \in Arguments, NEW source \in Sources, NEW force \in BOOLEAN, Import(arg, source, force)
      PROVE  TreesOK' /\ EditOK'
  <2>1. UserPath(arg) \in Paths /\ pc' = "idle" BY <1>8, UserPathIs DEF Import, Command
  <2>2. source[2] \in Data /\ source[1] = [extends |-> None, data |-> source[2]] /\ source[1] \in Files
    BY <1>0, SourcesAre, FilesAre DEF TypeOK
  <2>3. CASE Store(UserPath(arg), source[1], "import") /\ meant' = [meant EXCEPT ![UserPath(arg)] = source[2]]
    <3>1. TreesOK' BY <1>0, <2>1, <2>2, <2>3, WriteStep DEF Origins
    <3> QED BY <1>b, <2>1, <3>1
  <2>4. CASE Torn(UserPath(arg)) /\ UNCHANGED meant
    BY <1>b, <1>d, <2>1, <2>4
  <2> QED BY <1>8, <2>3, <2>4 DEF Import
<1>9. ASSUME UNCHANGED vars PROVE TreesOK' /\ EditOK'
  <2>1. UNCHANGED <<user, origin, meant>> /\ UNCHANGED <<user, pc, opened, plan, argument>> BY <1>9 DEF vars
  <2> QED BY <2>1, <1>a, <1>b
<1>10. TreesOK' /\ EditOK'
  <2> HIDE DEF TreesOK, EditOK
  <2>1. Finished => UNCHANGED vars BY DEF Finished
  <2> QED BY <1>1, <1>2, <1>3, <1>4, <1>5, <1>6, <1>7, <1>8, <1>9, <2>1 DEF Next
<1> QED BY <1>0, <1>10 DEF IInv

LEMMA Inductive == Spec => []IInv
BY IInvInit, IInvStep, PTL DEF Spec

\* Trees, pc, the plan and what files mean stay within their types: of a file
\* that is not a chain of valid files the meaning is an error, never a part.
THEOREM TypeCorrect == Spec => []TypeOK
<1>1. IInv => TypeOK BY DEF IInv
<1> QED BY Inductive, <1>1, PTL

-----------------------------------------------------------------------------
(* The properties.                                                         *)

\* config import: a model that was imported means what it meant where it came
\* from (_portable_config flattens the chain), whatever happens to the others.
THEOREM ImportedModelsStandAlone == Spec => []ImportsStandAlone
<1>1. IInv => ImportsStandAlone
  <2> SUFFICES ASSUME IInv, NEW p \in Paths, origin[p] = "import" PROVE Flat(user, p) = meant[p]
    BY DEF ImportsStandAlone
  <2>1. meant[p] \in Data /\ user[p] = [extends |-> None, data |-> meant[p]] BY DEF IInv, Imported
  <2> QED BY <2>1, StandsAlone
<1> QED BY Inductive, <1>1, PTL

\* config edit: while the editor is open, the name it was called with resolves
\* to the file in the editor.
THEOREM EditOpensTheEntry == Spec => []EditOpensWhatResolves
<1>1. IInv => EditOpensWhatResolves
  <2> SUFFICES ASSUME IInv, pc \in {"editor", "check"}, argument[2] = ""
               PROVE  Resolved(argument) = <<"user", opened>>
    BY DEF EditOpensWhatResolves
  <2> DEFINE n == argument[1]
  <2>1. argument \in Arguments /\ opened \in Paths BY DEF IInv, TypeOK
  <2>2. n \in Names /\ argument = <<n, "">> BY <2>1, UserPathIs
  <2>3. user[opened] # Absent /\ (opened = Yaml(n) \/ (opened = Yml(n) /\ user[Yaml(n)] = Absent))
    BY DEF IInv, Editing
  <2>4. In(user, <<n, "">>) # {} /\ First(user, <<n, "">>) = opened BY <2>2, <2>3, FirstIs
  <2>5. Resolved(<<n, "">>) = <<"user", opened>> BY <2>4 DEF Resolved
  <2> QED BY <2>2, <2>5
<1> QED BY Inductive, <1>1, PTL

\* A copy writes where the user has nothing.
LEMMA CopyWrites ==
  ASSUME IInv, Next, pc = "copy"
  PROVE  \/ UNCHANGED <<user, origin>>
         \/ \E p \in Paths : user[p] = Absent /\ \A q \in Paths : q # p => user'[q] = user[q] /\ origin'[q] = origin[q]
<1>1. /\ TypeOK /\ Planned /\ user \in Trees /\ origin \in [Paths -> Origins] /\ opened \in Paths /\ plan \in Seq(Names)
  BY DEF IInv, TypeOK, Origins
<1>2. plan # <<>> => /\ Target(Head(plan)) \in Paths /\ Head(plan) \in Names
                     /\ user[Target(Head(plan))] = Absent
  BY <1>1, PlanStep, TargetIs DEF Planned, Target, TargetOf
<1>3. ASSUME NEW file \in Files \cup {Absent, Broken}, NEW from \in Origins, plan # <<>>, Store(Target(Head(plan)), file, from)
      PROVE  \E p \in Paths : user[p] = Absent /\ \A q \in Paths : q # p => user'[q] = user[q] /\ origin'[q] = origin[q]
  BY <1>1, <1>2, <1>3, StoreIs
<1>4. CASE CopyNext
  <2>1. plan # <<>> /\ Store(Target(Head(plan)), Bundled[Head(plan)], "copy") BY <1>4 DEF CopyNext
  <2>2. Bundled[Head(plan)] \in Files \cup {Absent, Broken} BY <1>2, <2>1, CatalogAssumption
  <2> QED BY <1>3, <2>1, <2>2 DEF Origins
<1>5. CASE OpenEditor BY <1>5 DEF OpenEditor
<1>6. CASE Interrupted
  <2>1. plan # <<>> /\ (Torn(Target(Head(plan))) \/ UNCHANGED <<user, origin>>) BY <1>6 DEF Interrupted
  <2>2. CASE Torn(Target(Head(plan)))
    <3>1. PICK file \in {Empty, Broken} : Store(Target(Head(plan)), file, "torn") BY <2>2 DEF Torn
    <3> QED BY <1>3, <2>1, <3>1, FilesAre DEF Origins
  <2> QED BY <2>1, <2>2
<1> QED BY <1>4, <1>5, <1>6 DEF Next, Edit, Export, Import, Command, Close, Save, Finished

\* No command but an import with --force changes a file that the user has, and
\* config edit only the one in the editor: copies never overwrite, also when
\* cut short anywhere.
THEOREM NothingIsOverwritten == Spec => OwnFilesAreKept
<1> DEFINE Kept(p) == user[p] # Absent /\ user'[p] # user[p] => (pc = "editor" /\ p = opened) \/ (pc = "idle" /\ forced')
<1>1. ASSUME IInv, Next, NEW p \in Paths PROVE Kept(p)
  <2>0. TypeOK /\ user \in Trees /\ origin \in [Paths -> Origins] BY <1>1 DEF IInv, TypeOK, Origins
  <2> DEFINE Same == user'[p] = user[p]
  <2>a. ASSUME NEW q \in Paths, NEW file \in Files \cup {Broken}, NEW from \in Origins, Store(q, file, from), p # q
        PROVE  Same
    BY <2>0, <2>a, StoreIs
  <2>1. ASSUME NEW arg \in Arguments, Edit(arg) PROVE Kept(p)
    <3>1. UserPath(arg) \in Paths /\ UserPath(arg) \in {Yaml(arg[1]), Yml(arg[1])} BY UserPathIs
    <3>2. \/ UNCHANGED user
          \/ /\ user[Yaml(arg[1])] = Absent /\ user[Yml(arg[1])] = Absent /\ Store(UserPath(arg), Empty, "edit")
      BY <2>1, EditIs
    <3>3. p # UserPath(arg) => Same BY <2>a, <3>1, <3>2, FilesAre DEF Origins
    <3> QED BY <3>1, <3>2, <3>3
  <2>2. ASSUME pc = "copy" PROVE Kept(p) BY <1>1, <2>2, CopyWrites
  <2>3. ASSUME NEW draft \in Drafts, Save(draft) PROVE Kept(p)
    <3>1. pc = "editor" /\ opened \in Paths /\ Store(opened, draft, "edit") /\ draft \in Files
      BY <2>0, <2>3, CatalogAssumption DEF Save, TypeOK
    <3>2. p # opened => Same BY <2>a, <3>1 DEF Origins
    <3> QED BY <3>1, <3>2
  <2>4. ASSUME NEW arg \in Arguments, NEW source \in Sources, NEW force \in BOOLEAN, Import(arg, source, force)
        PROVE  Kept(p)
    <3>1. /\ UserPath(arg) \in Paths /\ pc = "idle" /\ forced' = force /\ (user[UserPath(arg)] = Absent \/ force)
          /\ Store(UserPath(arg), source[1], "import") \/ Torn(UserPath(arg))
      BY <2>4, UserPathIs DEF Import, Command, MayWrite
    <3>2. source[1] \in Files BY <2>0, SourcesAre, FilesAre DEF TypeOK
    <3>3. p # UserPath(arg) => Same BY <2>a, <3>1, <3>2, FilesAre DEF Origins, Torn
    <3> QED BY <3>1, <3>3
  <2>5. ASSUME UNCHANGED user PROVE Kept(p) BY <2>5
  <2> HIDE DEF Kept
  <2> QED BY <1>1, <2>1, <2>2, <2>3, <2>4, <2>5 DEF Next, Export, CopyNext, OpenEditor, Interrupted, Close, Finished, vars
<1>2. IInv /\ [Next]_vars => [\A p \in Paths : Kept(p)]_vars BY <1>1
<1> QED BY Inductive, <1>2, PTL DEF Spec, OwnFilesAreKept

-----------------------------------------------------------------------------
(* Copies mean what is bundled.                                            *)

\* Every file of a tree is a copy, and its parent is there.
Complete(tree) ==
  \A p \in Paths :
    tree[p] # Absent => tree[p] = Bundled[p[1]] /\ Bundled[p[1]] \in Files /\ HasParent(tree, p[1])

LEMMA CopiesMean ==
  ASSUME NEW tree, Complete(tree), NEW p \in Paths, tree[p] # Absent
  PROVE  Flat(tree, p) = Flat(BundledTree, Yaml(p[1]))
<1> DEFINE Alike(k) ==
             k <= Bound =>
               \A q \in Paths : tree[q] # Absent => Load(tree)[k][q] = Load(BundledTree)[k][Yaml(q[1])]
           S == {k \in Nat : Alike(k)}
<1>1. 0 \in S
  <2>1. \A q \in Paths : Yaml(q[1]) \in Paths BY PathsOf
  <2> QED BY <2>1, LoadIs
<1>2. ASSUME NEW k \in Nat, k \in S PROVE k + 1 \in S
  <2> SUFFICES ASSUME k + 1 <= Bound, NEW q \in Paths, tree[q] # Absent
               PROVE  Load(tree)[k + 1][q] = Load(BundledTree)[k + 1][Yaml(q[1])]
    OBVIOUS
  <2> DEFINE n == q[1]
             parent == Bundled[n].extends
             mine == Load(tree)[k]
             theirs == Load(BundledTree)[k]
  <2>1. k + 1 \in 1 .. Bound /\ (k + 1) - 1 = k /\ k <= Bound BY BoundIsNat
  <2>2. Load(tree)[k + 1] = Level(tree, mine) /\ Load(BundledTree)[k + 1] = Level(BundledTree, theirs)
    BY <2>1, LoadIs
  <2>3. n \in Names /\ Yaml(n) \in Paths /\ BundledTree[Yaml(n)] = Bundled[n] BY PathsOf, BundledTreeType
  <2>4. tree[q] = Bundled[n] /\ Bundled[n] \in Files /\ HasParent(tree, n) BY DEF Complete
  <2>5. Bundled[n] \notin {Absent, Broken} BY <2>4, FilesAre
  <2>6. parent # None => mine[Yaml(parent)] = theirs[Yaml(parent)]
    <3> SUFFICES ASSUME parent # None PROVE mine[Yaml(parent)] = theirs[Yaml(parent)]
      OBVIOUS
    <3>1. parent \in Names BY <2>4 DEF Files
    <3>2. Yaml(parent) \in Paths /\ tree[Yaml(parent)] # Absent /\ Yaml(parent)[1] = parent
      BY <2>4, <3>1, PathsOf DEF HasParent
    <3> QED BY <1>2, <2>1, <3>2
  <2> HIDE DEF n, parent, mine, theirs
  <2>7. Level(tree, mine)[q] =
          IF Bundled[n].extends = None THEN Bundled[n].data
          ELSE Merge(mine[Yaml(Bundled[n].extends)], Bundled[n].data)
    BY <2>4, <2>5, Zenon DEF Level
  <2>8. Level(BundledTree, theirs)[Yaml(n)] =
          IF Bundled[n].extends = None THEN Bundled[n].data
          ELSE Merge(theirs[Yaml(Bundled[n].extends)], Bundled[n].data)
    BY <2>3, <2>5, Zenon DEF Level
  <2> QED BY <2>2, <2>6, <2>7, <2>8 DEF n, parent
<1>3. Nat \subseteq S
  <2> HIDE DEF S
  <2> QED BY <1>1, <1>2, NatSet
<1> QED BY <1>3, BoundIsNat, LoadIs

\* What a name means to the user of a tree.
MeaningIn(tree, n) ==
  IF tree[Yaml(n)] # Absent THEN Flat(tree, Yaml(n))
  ELSE IF tree[Yml(n)] # Absent THEN Flat(tree, Yml(n))
  ELSE IF Bundled[n] # Absent THEN Flat(BundledTree, Yaml(n))
  ELSE Invalid

LEMMA MeaningIs ==
  ASSUME NEW n \in Names PROVE Meaning(<<n, "">>) = MeaningIn(user, n)
<1> DEFINE arg == <<n, "">>
<1>1. CASE ~(user[Yaml(n)] = Absent /\ user[Yml(n)] = Absent)
  <2>1. /\ In(user, arg) # {}
        /\ First(user, arg) = IF user[Yaml(n)] # Absent THEN Yaml(n) ELSE Yml(n)
    BY <1>1, FirstIs
  <2> HIDE DEF arg
  <2>2. Resolved(arg) = <<"user", First(user, arg)>> BY <2>1 DEF Resolved
  <2>3. First(user, arg) \in Paths BY <2>1, PathsOf
  <2>4. Resolved(arg) # None BY <2>2, <2>3, MarksAreDistinct
  <2>5. Meaning(arg) = Flat(user, First(user, arg)) BY <2>2, <2>4 DEF Meaning, Tree
  <2> QED BY <1>1, <2>1, <2>5 DEF MeaningIn, arg
<1>2. CASE user[Yaml(n)] = Absent /\ user[Yml(n)] = Absent /\ Bundled[n] # Absent
  <2>1. BundledTree[Yaml(n)] # Absent BY <1>2, BundledTreeType
  <2>2. In(user, arg) = {} /\ In(BundledTree, arg) # {} /\ First(BundledTree, arg) = Yaml(n)
    BY <1>2, <2>1, FirstIs
  <2> HIDE DEF arg
  <2>3. Resolved(arg) = <<"bundled", Yaml(n)>> BY <2>2 DEF Resolved
  <2>4. Resolved(arg) # None BY <2>3, PathsOf, MarksAreDistinct
  <2>5. Meaning(arg) = Flat(BundledTree, Yaml(n)) BY <2>3, <2>4 DEF Meaning, Tree
  <2> QED BY <1>2, <2>5 DEF MeaningIn, arg
<1>3. CASE user[Yaml(n)] = Absent /\ user[Yml(n)] = Absent /\ Bundled[n] = Absent
  <2>1. BundledTree[Yaml(n)] = Absent /\ BundledTree[Yml(n)] = Absent BY <1>3, BundledTreeType
  <2>2. In(user, arg) = {} /\ In(BundledTree, arg) = {} BY <1>3, <2>1, FirstIs
  <2> QED BY <1>3, <2>2 DEF MeaningIn, Meaning, Resolved
<1> QED BY <1>1, <1>2, <1>3

LEMMA CompleteMeans ==
  ASSUME NEW tree, Complete(tree), NEW n \in Names
  PROVE  MeaningIn(tree, n) = Flat(BundledTree, Yaml(n))
<1>1. Yaml(n) \in Paths /\ Yml(n) \in Paths /\ Yaml(n)[1] = n /\ Yml(n)[1] = n BY PathsOf
<1>2. CASE tree[Yaml(n)] # Absent BY <1>1, <1>2, CopiesMean DEF MeaningIn
<1>3. CASE tree[Yaml(n)] = Absent /\ tree[Yml(n)] # Absent
  <2>1. Flat(tree, Yml(n)) = Flat(BundledTree, Yaml(n)) BY <1>1, <1>3, CopiesMean
  <2> QED BY <1>3, <2>1 DEF MeaningIn
<1>4. CASE tree[Yaml(n)] = Absent /\ tree[Yml(n)] = Absent /\ Bundled[n] = Absent
  <2>1. BundledTree[Yaml(n)] = Absent BY <1>4, BundledTreeType
  <2>2. Bound \in 1 .. Bound BY <1>1, BoundIsNat
  <2>3. Flat(BundledTree, Yaml(n)) = Level(BundledTree, Load(BundledTree)[Bound - 1])[Yaml(n)] BY <2>2, LoadIs
  <2> QED BY <1>1, <1>4, <2>1, <2>3 DEF Level, MeaningIn
<1>5. CASE tree[Yaml(n)] = Absent /\ tree[Yml(n)] = Absent /\ Bundled[n] # Absent
  BY <1>5 DEF MeaningIn
<1> QED BY <1>2, <1>3, <1>4, <1>5

\* config edit copies the parents first: with files of the user's that are all
\* copies, no step of a copy, and no copy cut short, changes what a name means.
THEOREM CopiesAreNeutral == Spec => CopyingIsNeutral
<1> DEFINE Means == \A n \in Names : Meaning(<<n, "">>) = MeaningIn(user, n)
           Neutral == pc = "copy" /\ (\A p \in Paths : origin'[p] \in {"none", "copy"}) =>
                        \A n \in Names : Meaning(<<n, "">>)' = Meaning(<<n, "">>)
<1>1. Means BY MeaningIs
<1>2. ASSUME IInv, IInv', Means, Means', Next PROVE Neutral
  <2> SUFFICES ASSUME pc = "copy", \A p \in Paths : origin'[p] \in {"none", "copy"}, NEW n \in Names
               PROVE  Meaning(<<n, "">>)' = Meaning(<<n, "">>)
    OBVIOUS
  <2>1. \A p \in Paths : origin[p] \in {"none", "copy"}
    <3>1. Told BY <1>2 DEF IInv
    <3> QED BY <1>2, <3>1, CopyWrites DEF Told
  <2>2. Complete(user) BY <1>2, <2>1 DEF IInv, Told, Copied, Complete
  <2>3. Complete(user') BY <1>2 DEF IInv, Told, Copied, Complete
  <2>4. MeaningIn(user, n) = MeaningIn(user', n) BY <2>2, <2>3, CompleteMeans
  <2> QED BY <1>2, <2>4
<1>3. IInv /\ IInv' /\ Means /\ Means' /\ [Next]_vars => [Neutral]_vars
  <2> HIDE DEF Means, Neutral
  <2> QED BY <1>2
<1> QED BY Inductive, <1>1, <1>3, PTL DEF Spec, CopyingIsNeutral
=============================================================================
