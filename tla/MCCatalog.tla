------------------------------- MODULE MCCatalog -------------------------------
\* A chain of three bundled models and a name that is not bundled.
EXTENDS Catalog

Roles(names, value) == [r \in names |-> value]
File(parent, a, form, roles) == [extends |-> parent, data |-> [a |-> a, form |-> form, roles |-> roles]]
MCBundled ==
  [n \in Names |->
     CASE n = "base" -> File(None, 1, "list", Roles({"prefill", "decode"}, 1))
       [] n = "model" -> File("base", 2, "map", Roles({"decode"}, 2))
       [] n = "variant" -> File("model", Unset, "map", Roles({"prefill"}, Delete))
       [] OTHER -> Absent]
\* A model of the user's own, one that builds on a bundled name, and one that
\* is valid only below a parent with its role.
MCDrafts ==
  {File(None, 3, "list", Roles({"prefill"}, 3)),
   File("model", 3, "none", Roles({}, Unset)),
   File("variant", Delete, "map", Roles({"decode"}, 3))}
=============================================================================
