--------------------------------- MODULE Emit ---------------------------------
(***************************************************************************)
(* render_kubernetes of manifesto/render/emit.py: the objects of a         *)
(* manifest, in the order in which they are emitted, with the fields that  *)
(* deploy and stop read.  Role, RoleBinding, Service and ServiceAccount    *)
(* objects and the ConfigMaps of the picker and of the controller, always  *)
(* applied and never looked at, are left out.                              *)
(*                                                                         *)
(* A deployment spec is [instance, roles, idle, frontend], a role is       *)
(* [name, workload_name, kind, queue, claim]: claim stands for what its    *)
(* accelerator claim asks for, frontend is "gateway", "standalone" or      *)
(* "disabled".                                                             *)
(*                                                                         *)
(* A name is the sequence of the parts between its hyphens: a-b-decode is  *)
(* <<"a", "b", "decode">>, whatever it was put together from.  Slugs have  *)
(* no empty part, so that joining two names with a hyphen is \o.  The      *)
(* digest that replaces the end of a name of more than 63 characters is    *)
(* left out.                                                               *)
(***************************************************************************)
EXTENDS Naturals, Sequences, SequencesExt

CONSTANT None

IsName(x) == x \in Seq(Range(x))

Named(instance, component) == instance \o component
\* A workload_name of the spec takes the place of the instance and of the role.
WorkloadName(spec, role) ==
  IF role.workload_name = None THEN Named(spec.instance, role.name) ELSE role.workload_name
\* The name of the workload and a digest over labels and claim, of fixed length.
TemplateName(spec, role) == <<WorkloadName(spec, role), <<spec.instance, role.name, role.claim>>>>

Object(kind, name, instance, component, content) ==
  [kind |-> kind, name |-> name, instance |-> instance, component |-> component,
   queue |-> None, spec |-> content]

ClaimTemplate(spec, role) ==
  IF role.claim = None THEN <<>>
  ELSE <<Object("ResourceClaimTemplate", TemplateName(spec, role), spec.instance,
                "accelerator-claim-template", None)>>

Workload(spec, role) ==
  LET component == IF role.kind = "LeaderWorkerSet" THEN "lws" ELSE "model-server"
      template == IF role.claim = None THEN None ELSE TemplateName(spec, role)
  IN [Object(role.kind, WorkloadName(spec, role), spec.instance, component, template)
        EXCEPT !.queue = role.queue]

Controller == <<"idle", "shutdown">>
Picker == <<"infpool", "epp">>

IdleShutdown(spec) ==
  IF spec.idle /\ spec.roles # <<>>
  THEN <<Object("Deployment", Named(spec.instance, Controller), spec.instance, "idle-shutdown", None)>>
  ELSE <<>>

Routing(spec) ==
  LET Part(kind, name, component) ==
        Object(kind, Named(spec.instance, name), spec.instance, component, None)
      picker == Object("Deployment", Named(spec.instance, Picker), spec.instance, "epp", <<spec.frontend>>)
      pool == Part("InferencePool", <<"infpool">>, "routing")
  IN CASE spec.frontend = "disabled" -> <<>>
       [] spec.frontend = "standalone" -> <<Part("ConfigMap", <<"envoy", "config">>, "envoy"), pool, picker>>
       [] spec.frontend = "gateway" ->
            <<pool, picker,
              Part("ConfigMap", <<"gateway", "options">>, "gateway"),
              Part("Gateway", <<"gateway">>, "gateway"), Part("HTTPRoute", <<"route">>, "route"),
              Part("DestinationRule", <<"infpool", "backend">>, "routing")>>

Manifest(spec, routing_only) ==
  LET OfRole(role) == Append(ClaimTemplate(spec, role), Workload(spec, role))
      model == IF routing_only THEN <<>>
               ELSE FlattenSeq([i \in DOMAIN spec.roles |-> OfRole(spec.roles[i])])
  IN model \o IdleShutdown(spec) \o Routing(spec)

Job(spec, routing_only) ==
  [objects |-> Manifest(spec, routing_only), routing_only |-> routing_only]

-----------------------------------------------------------------------------
(* What the proofs ask of specs.                                           *)

\* No workload of s is named like a Deployment that Manifesto adds to t.
Apart(s, t) ==
  \A r \in Range(s.roles) :
    WorkloadName(s, r) \notin {Named(t.instance, Controller), Named(t.instance, Picker)}

\* Role names are unique, which is checked; no two workloads are named alike and
\* none like a Deployment that Manifesto adds, which is not.  None is no name.
Renderable(spec) ==
  LET roles == Range(spec.roles)
  IN /\ spec.roles \in Seq(roles) /\ spec.frontend \in {"gateway", "standalone", "disabled"}
     /\ IsName(spec.instance)
     /\ \A r \in roles :
          /\ r.kind \in {"Deployment", "LeaderWorkerSet"}
          /\ IsName(r.name) /\ (r.workload_name = None \/ IsName(r.workload_name))
          /\ TemplateName(spec, r) # None
     /\ \A r, q \in roles : WorkloadName(spec, r) = WorkloadName(spec, q) => r = q
     /\ Apart(spec, spec)

\* No name of an instance can begin with that of another one, which nothing
\* checks: with a release "a" there must be no release "a-b".
PrefixFree(s, t) == s.instance # t.instance => ~IsPrefix(s.instance, t.instance)
=============================================================================
