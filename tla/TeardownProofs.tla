----------------------------- MODULE TeardownProofs -----------------------------
(***************************************************************************)
(* What holds of `manifesto stop` for any objects of any types, and any    *)
(* number of retries, stops, faults and objects that are applied again.    *)
(***************************************************************************)
EXTENDS Teardown, TLAPS

\* stop computes the identity under which the instance was deployed.
IdentityIsKept == \A source \in Sources : Identified(source)

\* The discoveries whose emptiness stop reports: they list every type.
Looks == {"Discover", "Verify"}

\* What is live was found, is of a type whose list is still to answer, or was
\* created since the lists were started; unless one of them raised.
Seen ==
  pc \in Looks /\ ~broken =>
    \A o \in live : TypeOf[o] \in waiting \/ o \in found \/ o \in recent

IInv == TypeOK /\ target /\ Seen /\ SuccessMeansGone

\* TypeOK by what its parts are about.
NamespaceOK == live \subseteq Objects /\ recent \subseteq Objects /\ keeper \in BOOLEAN
DiscoveryOK ==
  /\ waiting \subseteq Types /\ attempt \in [Types -> 0 .. Retries] /\ broken \in BOOLEAN
  /\ found \subseteq Objects
BoundsOK == stops \in 0 .. MaxStops /\ faults \in 0 .. MaxFaults /\ creations \in 0 .. MaxCreations
PhaseOK ==
  /\ pc \in {"Idle"} \cup Discoveries \cup Deletions \cup Verdicts
  /\ target \in BOOLEAN /\ todo \subseteq Objects /\ rc \in {-9, 0, 1}

LEMMA TypeParts == TypeOK <=> NamespaceOK /\ DiscoveryOK /\ BoundsOK /\ PhaseOK
BY DEF TypeOK, NamespaceOK, DiscoveryOK, BoundsOK, PhaseOK

LEMMA FaultBounds ==
  ASSUME BoundsOK, Fault, UNCHANGED <<stops, creations>> PROVE BoundsOK'
BY BoundsAssumption DEF BoundsOK, Fault

-----------------------------------------------------------------------------
(* Type correctness.                                                       *)

LEMMA TypeInit == Init => TypeOK
<1> SUFFICES ASSUME Init PROVE NamespaceOK /\ DiscoveryOK /\ BoundsOK /\ PhaseOK BY TypeParts
<1>1. NamespaceOK BY DEF Init, NamespaceOK, TopLevel
<1>2. DiscoveryOK
  <2>1. attempt \in [Types -> 0 .. Retries] BY RetriesAssumption DEF Init
  <2> QED BY <2>1 DEF Init, DiscoveryOK
<1>3. BoundsOK BY BoundsAssumption DEF Init, BoundsOK
<1>4. PhaseOK
  <2>1. rc \in {-9, 0, 1} BY DEF Init
  <2> QED BY <2>1 DEF Init, PhaseOK
<1> QED BY <1>1, <1>2, <1>3, <1>4

\* The steps of the namespace.
LEMMA NamespaceType == ASSUME TypeOK, Namespace PROVE TypeOK'
<1> USE TypeParts
<1> SUFFICES NamespaceOK' /\ DiscoveryOK' /\ BoundsOK' /\ PhaseOK' BY PTL
<1>0. UNCHANGED <<pc, target, discovery, todo, rc, stops, faults>>
  BY DEF Namespace, CreatePod, CollectPod, CollectKeeper, Reapply
<1>1. DiscoveryOK' /\ PhaseOK' BY <1>0 DEF DiscoveryOK, PhaseOK, discovery
<1>2. BoundsOK'
  BY <1>0, BoundsAssumption DEF BoundsOK, Namespace, CreatePod, CollectPod, CollectKeeper, Reapply
<1>3. NamespaceOK'
  BY DEF NamespaceOK, Namespace, CreatePod, CollectPod, CollectKeeper, Reapply, Pods, TopLevel
<1> QED BY <1>1, <1>2, <1>3

\* A list answers, is tried again, or raises.
LEMMA FetchType == ASSUME TypeOK, NEW t \in Types, Fetch(t) PROVE TypeOK'
<1> USE TypeParts
<1> SUFFICES NamespaceOK' /\ DiscoveryOK' /\ BoundsOK' /\ PhaseOK' BY PTL
<1>0. UNCHANGED <<namespace, pc, target, todo, rc, stops, recent>> BY DEF Fetch
<1>1. NamespaceOK' /\ PhaseOK' BY <1>0 DEF NamespaceOK, PhaseOK, namespace
<1>2. BoundsOK'
  BY <1>0, FaultBounds DEF Fetch, Answered, Retried, Raised, NoFault, BoundsOK, namespace
<1>3. DiscoveryOK'
  <2>1. CASE Answered(t) BY <2>1 DEF Answered, DiscoveryOK, NamespaceOK
  <2>2. CASE Retried(t)
    <3>1. attempt[t] \in Nat /\ attempt[t] + 1 \in 0 .. Retries
      BY <2>2, RetriesAssumption DEF Retried, AttemptsLeft, DiscoveryOK
    <3> QED BY <2>2, <3>1 DEF Retried, DiscoveryOK
  <2>3. CASE Raised(t) BY <2>3 DEF Raised, Breaks, DiscoveryOK
  <2> QED BY <2>1, <2>2, <2>3 DEF Fetch
<1> QED BY <1>1, <1>2, <1>3

LEMMA DiscoversType ==
  ASSUME NEW phase \in Discoveries, NamespaceOK, Discovers(phase)
  PROVE  DiscoveryOK' /\ recent' \subseteq Objects /\ pc' \in Discoveries
<1>1. Scope(phase) \subseteq Types BY ObjectsAssumption DEF Scope, Types, Pods
<1>2. attempt' \in [Types -> 0 .. Retries] BY RetriesAssumption DEF Discovers
<1>3. recent' \subseteq Objects BY DEF Discovers, NamespaceOK
<1> QED BY <1>1, <1>2, <1>3 DEF Discovers, DiscoveryOK

\* The steps of stop.
LEMMA StopType == ASSUME TypeOK, Stop PROVE TypeOK'
<1> USE TypeParts
<1> SUFFICES NamespaceOK' /\ DiscoveryOK' /\ BoundsOK' /\ PhaseOK' BY PTL
<1>1. CASE Start
  <2>1. UNCHANGED <<namespace, faults>> /\ Discovers("Discover") /\ todo' = {} /\ rc' = 0
    BY <1>1 DEF Start
  <2>2. target' \in BOOLEAN
    <3>1. \A source \in Sources : Identified(source) \in BOOLEAN BY DEF Identified
    <3> QED BY <1>1, <3>1 DEF Start
  <2>3. DiscoveryOK' /\ recent' \subseteq Objects /\ pc' \in Discoveries
    BY <2>1, DiscoversType DEF Discoveries
  <2>4. BoundsOK' BY <1>1, BoundsAssumption DEF Start, BoundsOK, namespace
  <2>5. NamespaceOK' BY <2>1, <2>3 DEF NamespaceOK, namespace
  <2>6. rc' \in {-9, 0, 1} BY <2>1
  <2>7. PhaseOK' BY <2>1, <2>2, <2>3, <2>6 DEF PhaseOK
  <2> QED BY <2>3, <2>4, <2>5, <2>7
<1>2. CASE \E t \in Types : Fetch(t)
  <2>1. TypeOK' BY <1>2, FetchType
  <2> QED BY <2>1, PTL
<1>3. ASSUME NEW verdict \in Verdicts, Ends(verdict) PROVE NamespaceOK' /\ DiscoveryOK' /\ BoundsOK' /\ PhaseOK'
  BY <1>3 DEF Ends, NamespaceOK, DiscoveryOK, BoundsOK, PhaseOK, namespace, discovery
<1>4. CASE DiscoveryFails \/ NothingFound \/ Verified \/ Reported
  <2>1. \E verdict \in Verdicts : Ends(verdict)
    BY <1>4 DEF DiscoveryFails, NothingFound, Verified, Reported, Verdicts
  <2> QED BY <1>3, <2>1
<1>5. CASE DeleteTopLevel \/ DeletePods
  BY <1>5 DEF DeleteTopLevel, DeletePods, BeginDeletion, Deletions,
     NamespaceOK, DiscoveryOK, BoundsOK, PhaseOK, namespace, discovery
<1>6. CASE DeleteOne
  <2>1. UNCHANGED <<keeper, creations, pc, target, discovery, stops, recent>> BY <1>6 DEF DeleteOne
  <2>2. NamespaceOK' BY <1>6, <2>1 DEF DeleteOne, NamespaceOK
  <2>3. DiscoveryOK' BY <2>1 DEF DiscoveryOK, discovery
  <2>4. BoundsOK' BY <1>6, <2>1, FaultBounds DEF DeleteOne, NoFault, BoundsOK
  <2>5. rc' \in {-9, 0, 1} BY <1>6 DEF DeleteOne, PhaseOK
  <2>6. todo' \subseteq Objects BY <1>6 DEF DeleteOne, PhaseOK
  <2> QED BY <2>1, <2>2, <2>3, <2>4, <2>5, <2>6 DEF PhaseOK
<1>7. CASE DeletionDone
  <2>1. PICK phase \in {"Verify", "Report", "ListPods"} : Discovers(phase) BY <1>7 DEF DeletionDone
  <2>2. UNCHANGED <<namespace, target, todo, stops, faults>> BY <1>7 DEF DeletionDone
  <2>3. DiscoveryOK' /\ recent' \subseteq Objects /\ pc' \in Discoveries
    BY <2>1, DiscoversType DEF Discoveries
  <2>4. NamespaceOK' /\ BoundsOK' BY <2>2, <2>3 DEF NamespaceOK, BoundsOK, namespace
  <2>5. rc' \in {-9, 0, 1} BY <1>7 DEF DeletionDone, PhaseOK
  <2>6. PhaseOK' BY <2>2, <2>3, <2>5 DEF PhaseOK
  <2> QED BY <2>3, <2>4, <2>6
<1>8. CASE Killed
  <2>1. UNCHANGED <<namespace, target, discovery, todo, rc, stops, recent>> /\ Fault /\ pc' = "Failed"
    BY <1>8 DEF Killed
  <2>2. BoundsOK' BY <2>1, FaultBounds DEF namespace
  <2> QED BY <2>1, <2>2 DEF NamespaceOK, DiscoveryOK, PhaseOK, Verdicts, namespace, discovery
<1> QED BY <1>1, <1>2, <1>4, <1>5, <1>6, <1>7, <1>8 DEF Stop

LEMMA TypeNext == ASSUME TypeOK, [Next]_vars PROVE TypeOK'
<1>1. CASE UNCHANGED vars BY <1>1 DEF TypeOK, vars, namespace, discovery
<1> QED BY <1>1, StopType, NamespaceType DEF Next, Finished

\* No step of stop or of the namespace leaves the types: kubectl is tried a
\* bounded number of times, and nothing but what a list returned is deleted.
THEOREM TypeCorrect == Spec => []TypeOK
<1>1. TypeOK /\ [Next]_vars => TypeOK' BY TypeNext
<1> QED BY <1>1, TypeInit, PTL DEF Spec

-----------------------------------------------------------------------------
(* A success is true.                                                      *)

LEMMA SeenNext ==
  ASSUME IdentityIsKept, IInv, [Next]_vars PROVE target' /\ Seen' /\ SuccessMeansGone'
<1> USE DEF IInv
<1>1. CASE Namespace
  <2>1. UNCHANGED <<pc, target, discovery>> /\ (live' \ live) \subseteq recent' /\ recent \subseteq recent'
    BY <1>1 DEF Namespace, CreatePod, CollectPod, CollectKeeper, Reapply
  <2>2. Seen' BY <2>1 DEF Seen, discovery
  <2> QED BY <2>1, <2>2 DEF SuccessMeansGone
<1>2. ASSUME NEW phase \in Discoveries, Discovers(phase), live' = live, TypeOK
      PROVE  Seen' /\ SuccessMeansGone'
  <2>1. phase \in Looks => Scope(phase) = Types BY DEF Looks, Scope
  <2>2. \A o \in live : TypeOf[o] \in Types BY <1>2 DEF TypeOK, Types
  <2> QED BY <1>2, <2>1, <2>2 DEF Discovers, Seen, SuccessMeansGone, Discoveries
<1>3. CASE Start
  <2>1. target' BY <1>3 DEF Start, IdentityIsKept
  <2> QED BY <1>2, <1>3, <2>1 DEF Start, Discoveries, namespace
<1>4. CASE DeletionDone
  <2>1. PICK phase \in {"Verify", "Report", "ListPods"} : Discovers(phase) BY <1>4 DEF DeletionDone
  <2>2. live' = live /\ target' = target BY <1>4 DEF DeletionDone, namespace
  <2> QED BY <1>2, <2>1, <2>2 DEF Discoveries
<1>5. ASSUME NEW t \in Types, Fetch(t) PROVE target' /\ Seen' /\ SuccessMeansGone'
  <2>1. UNCHANGED <<live, pc, target, recent>> BY <1>5 DEF Fetch, namespace
  <2>2. Seen' BY <1>5, <2>1 DEF Fetch, Answered, Retried, Raised, Breaks, Seen
  <2> QED BY <2>1, <2>2 DEF SuccessMeansGone
<1>6. CASE NothingFound \/ Verified
  <2>1. UNCHANGED <<live, target, recent>> BY <1>6 DEF NothingFound, Verified, Ends, namespace
  <2>2. pc' \in Verdicts BY <1>6 DEF NothingFound, Verified, Ends, Verdicts
  <2>3. pc' \in {"Absent", "Stopped"} => live \subseteq recent
    BY <1>6 DEF NothingFound, Verified, Ends, AllIn, Complete, Seen, Looks
  <2> QED BY <2>1, <2>2, <2>3 DEF Seen, SuccessMeansGone, Looks, Verdicts
<1>7. CASE DiscoveryFails \/ Reported \/ DeleteTopLevel \/ DeletePods \/ DeleteOne \/ Killed
  <2>1. target' = target
    BY <1>7 DEF DiscoveryFails, Reported, DeleteTopLevel, DeletePods, DeleteOne, Killed, BeginDeletion, Ends
  <2>2. pc' \in {"Failed"} \cup Deletions
    BY <1>7 DEF DiscoveryFails, Reported, DeleteTopLevel, DeletePods, DeleteOne, Killed, BeginDeletion, Ends, Deletions
  <2> QED BY <2>1, <2>2 DEF Seen, SuccessMeansGone, Looks, Deletions
<1>8. CASE UNCHANGED vars BY <1>8 DEF vars, namespace, discovery, Seen, SuccessMeansGone
<1> QED BY <1>1, <1>3, <1>4, <1>5, <1>6, <1>7, <1>8 DEF Next, Stop, Finished

\* Whatever times out, fails or is killed, and whatever is created meanwhile:
\* a stop that looks for the identity of the deployment and succeeds left
\* nothing that was there when its last look began.
THEOREM SuccessIsTrue == ASSUME IdentityIsKept PROVE Spec => []SuccessMeansGone
<1>1. Init => IInv
  <2>1. Init => target /\ Seen /\ SuccessMeansGone BY DEF Init, Seen, SuccessMeansGone, Looks
  <2> QED BY <2>1, TypeInit DEF IInv
<1>2. IInv /\ [Next]_vars => IInv' BY SeenNext, TypeNext DEF IInv
<1>3. IInv => SuccessMeansGone BY DEF IInv
<1> QED BY <1>1, <1>2, <1>3, PTL DEF Spec
=============================================================================
