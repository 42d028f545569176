------------------------------- MODULE MCDeploy -------------------------------
(* Small sets of manifests for Deploy, rendered by Emit.                    *)
EXTENDS Deploy, TLC

CONSTANTS d1, d2

E == INSTANCE Emit

Role(kind, queue, claim) ==
  [name |-> <<"decode">>, workload_name |-> None, kind |-> kind, queue |-> queue, claim |-> claim]
SpecOf(instance, roles, idle, frontend) ==
  [instance |-> instance, roles |-> roles, idle |-> idle, frontend |-> frontend]

OnePod == SpecOf(<<"u", "a">>, <<Role("Deployment", "q1", "c1")>>, TRUE, "standalone")
Multinode == SpecOf(<<"u", "a">>, <<Role("LeaderWorkerSet", "q1", "c2")>>, TRUE, "gateway")
OtherQueue == SpecOf(<<"u", "a">>, <<Role("LeaderWorkerSet", "q2", "c2")>>, TRUE, "standalone")

\* One release over time: kind, queue, claim and frontend change.
Evolving == {E!Job(OnePod, FALSE), E!Job(Multinode, FALSE), E!Job(OtherQueue, FALSE), E!Job(Multinode, TRUE)}

\* One release deployed in two ways, and another one of the same user, which is
\* not routed.
Other(spec) == [spec EXCEPT !.instance = <<"u", "b">>]
Unmanaged(spec) == [spec EXCEPT !.idle = FALSE, !.frontend = "disabled"]
Contended == {E!Job(OnePod, FALSE), E!Job(OtherQueue, FALSE), E!Job(Unmanaged(Other(OnePod)), FALSE)}
Symmetry == Permutations(Deployers)

\* Two releases of one model, whose spec sets workload_name.
Shared(spec) == [spec EXCEPT !.roles[1].workload_name = <<"deepseek">>]
SharedName == {E!Job(Shared(Multinode), FALSE), E!Job(Shared(Other(OtherQueue)), FALSE)}

\* Role b-decode of release u-a, and role decode of release u-a-b.
LongRole == [Multinode EXCEPT !.roles[1].name = <<"b", "decode">>]
LongRelease == [OtherQueue EXCEPT !.instance = <<"u", "a", "b">>]
JoinedNames == {E!Job(LongRole, FALSE), E!Job(LongRelease, FALSE)}

\* A role is renamed; idle shutdown is opted out of; routing is disabled.
Renamed == {E!Job(OnePod, FALSE), E!Job([OnePod EXCEPT !.roles[1].name = <<"serve">>], FALSE)}
OptedOut == {E!Job(OnePod, FALSE), E!Job([OnePod EXCEPT !.idle = FALSE], FALSE)}
Unrouted == {E!Job(Multinode, FALSE), E!Job([Multinode EXCEPT !.frontend = "disabled"], FALSE)}

\* The specs are such as the theorems ask for, with workload_name and without.
ASSUME RenderableSpecs ==
  \A s \in {OnePod, Multinode, OtherQueue, LongRole, LongRelease} :
    E!Renderable(s) /\ E!Renderable(Shared(s)) /\ E!Apart(s, Other(s)) /\ E!PrefixFree(s, Other(s))

\* They exclude a workload_name that is the name of the picker, of this release or
\* of another one, and a release that begins with another one.
PickersName == [Multinode EXCEPT !.roles[1].workload_name = <<"u", "a", "infpool", "epp">>]
ASSUME Excluded ==
  /\ ~E!Renderable(PickersName) /\ E!Renderable(Other(PickersName))
  /\ ~E!Apart(Other(PickersName), Multinode) /\ ~E!PrefixFree(LongRole, LongRelease)

\* What the theorems ask of manifests holds of all of these, but that a role is
\* renamed among some.
ASSUME RenderedManifests ==
  OneKindEach /\ FrontendsAreKnown /\ KindsAreScoped /\ RoutingIsNoWorkload /\ ClaimsAreLocal
ASSUME OnlyRenamed == RolesAreKept <=> Jobs # Renamed
=============================================================================
