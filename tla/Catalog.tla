-------------------------------- MODULE Catalog --------------------------------
(***************************************************************************)
(* The model catalog of Manifesto and the commands that change it: config  *)
(* edit, export and import (manifesto/cli.py), the bundled and the user's  *)
(* tree (catalog.py) and what a file means with its extends chain          *)
(* (overrides.py).  The other catalogs work alike, without extends.        *)
(*                                                                         *)
(* A file is [extends, data]: extends names a file of the same tree, or is *)
(* None.  Its data is [a, form, roles]: one setting (Unset, "$delete" or a *)
(* value) and a setting per role; the roles are a list, a map of overrides *)
(* by name ("map") or not given ("none").  Copies and writes may be cut    *)
(* short and leave an empty or a broken file.                              *)
(***************************************************************************)
EXTENDS Integers, Sequences, FiniteSets

CONSTANTS
  Names,        \* names of models
  Bundled,      \* the bundled tree: [Names -> file or Absent], each NAME.yaml
  Drafts,       \* files a user may leave in the editor
  Values,       \* values of a setting
  MaxCommands,  \* bound on the commands of the whole run
  Absent, Broken, None, Unset, Delete, Invalid

Suffixes == {".yaml", ".yml"}
Paths == Names \X Suffixes
Yaml(n) == <<n, ".yaml">>
Yml(n) == <<n, ".yml">>
\* What a user types: a name, its suffix optional.
Arguments == Names \X (Suffixes \cup {""})

NoData == [a |-> Unset, form |-> "none", roles |-> [r \in {} |-> Unset]]
Empty == [extends |-> None, data |-> NoData]
BundledTree == [p \in Paths |-> IF p[2] = ".yaml" THEN Bundled[p[1]] ELSE Absent]

\* What a file may say, with the roles that the given ones name.
Settings == Values \cup {Unset, Delete}
RoleNames == UNION {DOMAIN f.data.roles : f \in Drafts \cup ({Bundled[n] : n \in Names} \ {Absent})}
Data ==
  [a : Settings, form : {"none", "map", "list"}, roles : UNION {[R -> Settings] : R \in SUBSET RoleNames}]
Files == [extends : Names \cup {None}, data : Data]
Trees == [Paths -> Files \cup {Absent, Broken}]
ASSUME CatalogAssumption ==
  /\ IsFiniteSet(Names) /\ MaxCommands \in Nat
  /\ Bundled \in [Names -> Files \cup {Absent}] /\ Drafts \subseteq Files
ASSUME MarksAreDistinct ==
  /\ {Absent, Broken} \cap Files = {} /\ Absent # Broken /\ Invalid \notin Data
  /\ None \notin Names \cup ({"user", "bundled"} \X Paths)

VARIABLES
  user,      \* the user's tree: [Paths -> file, Absent or Broken]
  pc,        \* config edit: "idle", "copy", "editor", "check"
  opened,    \* the path it copies to and opens
  plan,      \* the files it still has to copy, parents first
  exported,  \* what config export wrote last
  commands,  \* commands left
  \* history
  argument,  \* what edit was called with
  forced,    \* whether the last command was an import with --force
  origin,    \* of each user file: "none", "copy", "import", "edit", "torn"
  meant      \* of each user file: the data it had when it was imported
vars == <<user, pc, opened, plan, exported, commands, argument, forced, origin, meant>>

-----------------------------------------------------------------------------
(* load_spec_data                                                          *)

Setting(base, over) == IF over = Unset THEN base ELSE IF over = Delete THEN Unset ELSE over

\* merge_overrides: a list of roles replaces, a map is merged by name, and a
\* name that the base does not have is an error.
Merge(base, over) ==
  IF base = Invalid \/ (over.form = "map" /\ (base.form = "map" \/ ~(DOMAIN over.roles \subseteq DOMAIN base.roles)))
  THEN Invalid
  ELSE [a |-> Setting(base.a, over.a),
        form |-> CASE over.form = "none" -> base.form [] OTHER -> "list",
        roles |-> CASE over.form = "none" -> base.roles
                    [] over.form = "list" -> over.roles
                    [] over.form = "map" ->
                         [r \in DOMAIN base.roles |->
                            IF r \in DOMAIN over.roles THEN Setting(base.roles[r], over.roles[r]) ELSE base.roles[r]]]

\* The chain of extends: a missing parent or a circle is an error.
Level(tree, parents) ==
  [p \in Paths |->
     IF tree[p] \in {Absent, Broken} THEN Invalid
     ELSE IF tree[p].extends = None THEN tree[p].data
     ELSE Merge(parents[Yaml(tree[p].extends)], tree[p].data)]
Flat(tree, path) ==
  LET load[k \in 0 .. Cardinality(Paths)] ==
        IF k = 0 THEN [p \in Paths |-> Invalid] ELSE Level(tree, load[k - 1])
  IN load[Cardinality(Paths)][path]

\* load_spec, as far as the properties tell: the setting is required.
Valid(data) == data # Invalid /\ data.form = "list" /\ data.a \in Values

-----------------------------------------------------------------------------
(* The effective entries.                                                  *)

\* Where a name with an optional suffix is looked for in a tree, in order.
Variants(arg) == IF arg[2] = "" THEN <<Yaml(arg[1]), Yml(arg[1])>> ELSE <<arg>>
In(tree, arg) == {i \in DOMAIN Variants(arg) : tree[Variants(arg)[i]] # Absent}
First(tree, arg) == Variants(arg)[CHOOSE i \in In(tree, arg) : \A j \in In(tree, arg) : i <= j]

\* resolve_catalog_path (the working directory is not looked at)
Resolved(arg) ==
  IF In(user, arg) # {} THEN <<"user", First(user, arg)>>
  ELSE IF In(BundledTree, arg) # {} THEN <<"bundled", First(BundledTree, arg)>>
  ELSE None
Tree(where) == IF where = "user" THEN user ELSE BundledTree
Meaning(arg) == IF Resolved(arg) = None THEN Invalid ELSE Flat(Tree(Resolved(arg)[1]), Resolved(arg)[2])

\* catalog_entries: the first path of a name, in the order of the paths
Listed(tree, n) ==
  (IF tree[Yaml(n)] = Absent THEN <<>> ELSE <<Yaml(n)>>) \o (IF tree[Yml(n)] = Absent THEN <<>> ELSE <<Yml(n)>>)
\* Mutant: the last path of a name wins.
Effective_Last(paths) == paths[Len(paths)]
Effective(paths) == Head(paths)
Entry(n) ==
  IF Listed(user, n) # <<>> THEN <<"user", Effective(Listed(user, n))>>
  ELSE IF Listed(BundledTree, n) # <<>> THEN <<"bundled", Effective(Listed(BundledTree, n))>>
  ELSE None
\* _user_config_path
UserPath(arg) == IF arg[2] = "" THEN Yaml(arg[1]) ELSE arg

-----------------------------------------------------------------------------
Init ==
  /\ user = [p \in Paths |-> Absent] /\ pc = "idle" /\ opened = None /\ plan = <<>>
  /\ exported = Invalid /\ commands = MaxCommands /\ argument = None /\ forced = FALSE
  /\ origin = [p \in Paths |-> "none"] /\ meant = [p \in Paths |-> Invalid]

Command == pc = "idle" /\ commands > 0 /\ commands' = commands - 1
Store(path, file, from) ==
  /\ user' = [user EXCEPT ![path] = file] /\ origin' = [origin EXCEPT ![path] = from]
Torn(path) == \E file \in {Empty, Broken} : Store(path, file, "torn")

\* _copy_model_with_parents: the parents that the user does not have, and those
\* of these, before the model itself.
\* Mutants: the model before its parents; parents that the user has are copied too.
ParentsFirst_Last(parents, n) == <<n>> \o parents
ParentsFirst(parents, n) == Append(parents, n)
Missing_Any(p) == TRUE
Missing(p) == user[Yaml(p)] = Absent
WithParents(plans) ==
  [n \in Names |->
     LET parent == Bundled[n].extends
     IN IF parent = None \/ ~Missing(parent) THEN <<n>> ELSE ParentsFirst(plans[parent], n)]
CopyPlan(name) ==
  LET plans[k \in 0 .. Cardinality(Paths)] ==
        IF k = 0 THEN [n \in Names |-> <<n>>] ELSE WithParents(plans[k - 1])
  IN plans[Cardinality(Paths)][name]

\* config edit: a user's entry is opened, a bundled one copied first, and a new
\* name touched.
Edit(arg) ==
  LET n == arg[1] entry == Entry(n)
  IN /\ Command /\ argument' = arg /\ forced' = FALSE
     /\ \/ /\ entry # None /\ entry[1] = "user"
           /\ opened' = entry[2] /\ pc' = "editor" /\ UNCHANGED <<user, plan, origin>>
        \/ /\ entry # None /\ entry[1] = "bundled" /\ Valid(Flat(BundledTree, entry[2]))
           /\ opened' = UserPath(arg) /\ pc' = "copy" /\ plan' = CopyPlan(n) /\ UNCHANGED <<user, origin>>
        \/ /\ entry = None
           /\ opened' = UserPath(arg) /\ pc' = "editor" /\ user' = [user EXCEPT ![UserPath(arg)] = Empty]
           /\ origin' = [origin EXCEPT ![UserPath(arg)] = "edit"] /\ UNCHANGED plan
     /\ UNCHANGED <<exported, meant>>

\* The copy of a parent keeps its name, that of the model is what edit opens.
Target(n) == IF n = opened[1] THEN opened ELSE Yaml(n)
CopyNext ==
  /\ pc = "copy" /\ plan # <<>>
  /\ plan' = Tail(plan) /\ Store(Target(Head(plan)), Bundled[Head(plan)], "copy")
  /\ UNCHANGED <<pc, opened, exported, commands, argument, forced, meant>>
OpenEditor ==
  /\ pc = "copy" /\ plan = <<>> /\ pc' = "editor"
  /\ UNCHANGED <<user, opened, plan, exported, commands, argument, forced, origin, meant>>
Interrupted ==
  /\ pc = "copy" /\ plan # <<>>
  /\ pc' = "idle" /\ plan' = <<>>
  /\ Torn(Target(Head(plan))) \/ UNCHANGED <<user, origin>>
  /\ UNCHANGED <<opened, exported, commands, argument, forced, meant>>

\* The editor ends, with an error or not; what it left is validated, and kept.
Save(draft) ==
  /\ pc = "editor" /\ pc' = "check" /\ Store(opened, draft, "edit")
  /\ UNCHANGED <<opened, plan, exported, commands, argument, forced, meant>>
Close ==
  /\ pc \in {"editor", "check"} /\ pc' = "idle"
  /\ UNCHANGED <<user, opened, plan, exported, commands, argument, forced, origin, meant>>

\* config export: valid configs only
Export(arg) ==
  /\ Command /\ Valid(Meaning(arg)) /\ exported' = Meaning(arg) /\ forced' = FALSE
  /\ UNCHANGED <<user, pc, opened, plan, argument, origin, meant>>

\* config import of an exported file, or of one in a tree
\* Mutant: the parents are not merged in.
Portable_Raw(tree, p) == tree[p]
Portable(tree, p) == [extends |-> None, data |-> Flat(tree, p)]
Sources ==
  {<<Portable(x[1], x[2]), Flat(x[1], x[2])>> : x \in {y \in {user, BundledTree} \X Paths : Valid(Flat(y[1], y[2]))}}
    \cup (IF exported = Invalid THEN {} ELSE {<<[extends |-> None, data |-> exported], exported>>})
\* _write_config
MayWrite(path, force) == user[path] = Absent \/ force
Import(arg, source, force) ==
  LET path == UserPath(arg)
  IN /\ Command /\ MayWrite(path, force) /\ forced' = force
     /\ \/ Store(path, source[1], "import") /\ meant' = [meant EXCEPT ![path] = source[2]]
        \/ Torn(path) /\ UNCHANGED meant
     /\ UNCHANGED <<pc, opened, plan, exported, argument>>

Finished == pc = "idle" /\ commands = 0 /\ UNCHANGED vars

Next ==
  \/ \E arg \in Arguments : Edit(arg) \/ Export(arg)
  \/ CopyNext \/ OpenEditor \/ Interrupted \/ Close
  \/ \E draft \in Drafts : Save(draft)
  \/ \E arg \in Arguments, source \in Sources, force \in BOOLEAN : Import(arg, source, force)
  \/ Finished
Spec == Init /\ [][Next]_vars

-----------------------------------------------------------------------------
TypeOK ==
  /\ user \in Trees /\ pc \in {"idle", "copy", "editor", "check"}
  /\ opened \in Paths \cup {None} /\ argument \in Arguments \cup {None}
  /\ pc # "idle" => opened \in Paths /\ argument \in Arguments
  /\ plan \in Seq(Names) /\ exported \in Data \cup {Invalid}
  /\ commands \in 0 .. MaxCommands /\ forced \in BOOLEAN
  /\ origin \in [Paths -> {"none", "copy", "import", "edit", "torn"}]
  /\ meant \in [Paths -> Data \cup {Invalid}]

\* Copying alone changes what no name means, while every file of the user's
\* that takes part is itself a complete copy: no setting moves before the
\* editor opens, also when the copying is cut short, because the parents are
\* copied first (README: "copies it and any relative extends parents").
CopyingIsNeutral ==
  [][pc = "copy" /\ (\A p \in Paths : origin'[p] \in {"none", "copy"}) =>
       \A n \in Names : Meaning(<<n, "">>)' = Meaning(<<n, "">>)]_vars

\* A model that was imported means what it meant in the file it was imported
\* from, whatever happens to every other file: "self-contained" (README).
ImportsStandAlone == \A p \in Paths : origin[p] = "import" => Flat(user, p) = meant[p]

\* "Both refuse to overwrite files unless --force is passed" (README), and edit
\* changes no file of the user's but the one it opens.
OwnFilesAreKept ==
  [][\A p \in Paths :
       user[p] # Absent /\ user'[p] # user[p] => (pc = "editor" /\ p = opened) \/ (pc = "idle" /\ forced')]_vars

\* edit opens the file that its name resolves to for every other command, while
\* the name is given without a suffix (catalog.py:40-84).
EditOpensWhatResolves ==
  pc \in {"editor", "check"} /\ argument[2] = "" => Resolved(argument) = <<"user", opened>>
=============================================================================
