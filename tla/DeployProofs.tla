----------------------------- MODULE DeployProofs -----------------------------
(***************************************************************************)
(* Proofs about Deploy, for any manifests, any number of concurrent        *)
(* deployers, and any number of failures at any command.                   *)
(***************************************************************************)
EXTENDS Deploy, WellFoundedInduction, TLAPS

LEMMA ObjectsAreManifested == \A j \in Jobs : ObjectsOf(j) \subseteq Manifested
BY DEF Manifested

LEMMA ObjectAt ==
  ASSUME NEW j \in Jobs, NEW i \in 1 .. Len(j.objects)
  PROVE  j.objects[i] \in ObjectsOf(j)
<1>1. j.objects \in Seq(ObjectsOf(j)) BY JobsAssumption
<1>2. i \in DOMAIN j.objects BY <1>1
<1> QED BY <1>2 DEF ObjectsOf

LEMMA LenIsNat == \A j \in Jobs : Len(j.objects) \in Nat
BY JobsAssumption

LEMMA TypeInit == Init => TypeOK
<1> SUFFICES ASSUME Init PROVE TypeOK
  OBVIOUS
<1>1. NamespaceOK BY DEF Init, NamespaceOK
<1>2. ProcessOK BY DEF Init, ProcessOK, Halted
<1>3. BudgetOK BY DeployBounds DEF Init, BudgetOK
<1> QED BY <1>1, <1>2, <1>3 DEF TypeOK

LEMMA BudgetStep ==
  ASSUME BudgetOK, NEW d \in Deployers, Step(d)
  PROVE  BudgetOK'
<1> USE DeployBounds DEF BudgetOK, Fault, NoFault
<1>1. CASE Start(d) BY <1>1 DEF Start
<1>2. CASE Preflight(d) BY <1>2 DEF Preflight, Fails
<1>3. CASE LookUp(d) BY <1>3 DEF LookUp, Fails
<1>4. CASE SyncSecret(d)
  <2>1. faults' = faults \/ Fault BY <1>4, Zenon DEF SyncSecret, NoFault
  <2>2. deploys' = deploys BY <1>4 DEF SyncSecret
  <2> QED BY <2>1, <2>2
<1>5. CASE Recreate(d) BY <1>5 DEF Recreate, Delete
<1>6. CASE StartApply(d) BY <1>6 DEF StartApply
<1>7. CASE ApplyObject(d) BY <1>7 DEF ApplyObject
<1>8. CASE ApplyFails(d) BY <1>8 DEF ApplyFails, Fails
<1>9. CASE ListTemplates(d) BY <1>9 DEF ListTemplates, Lists, Fails
<1>10. CASE DeleteObsolete(d) BY <1>10 DEF DeleteObsolete, Delete
<1>11. CASE ListFrontend(d) BY <1>11 DEF ListFrontend, Lists, Fails
<1>12. CASE DeleteFails(d) BY <1>12 DEF DeleteFails, Fails
<1>13. CASE Succeeds(d) BY <1>13 DEF Succeeds
<1>14. CASE Killed(d) BY <1>14 DEF Killed, Fails
<1> QED BY <1>1, <1>2, <1>3, <1>4, <1>5, <1>6, <1>7, <1>8, <1>9, <1>10, <1>11, <1>12, <1>13, <1>14 DEF Step

\* What a step of one process leaves to every other one.
LEMMA OthersNext ==
  ASSUME ProcessOK, NEW d \in Deployers, Step(d), NEW e \in Deployers, e # d
  PROVE  /\ pc'[e] = pc[e] /\ job'[e] = job[e] /\ todo'[e] = todo[e]
         /\ doomed'[e] = doomed[e] /\ applied'[e] = applied[e] /\ failed'[e] = failed[e]
<1> USE DEF ProcessOK, GoTo
<1>1. CASE Start(d) BY <1>1 DEF Start
<1>2. CASE Preflight(d) BY <1>2 DEF Preflight, Fails
<1>3. CASE LookUp(d) BY <1>3 DEF LookUp, Fails
<1>4. CASE SyncSecret(d) BY <1>4 DEF SyncSecret
<1>5. CASE Recreate(d) BY <1>5 DEF Recreate, Delete
<1>6. CASE StartApply(d) BY <1>6 DEF StartApply
<1>7. CASE ApplyObject(d) BY <1>7 DEF ApplyObject
<1>8. CASE ApplyFails(d) BY <1>8 DEF ApplyFails, Fails
<1>9. CASE ListTemplates(d) BY <1>9 DEF ListTemplates, Lists, Fails
<1>10. CASE DeleteObsolete(d) BY <1>10 DEF DeleteObsolete, Delete
<1>11. CASE ListFrontend(d) BY <1>11 DEF ListFrontend, Lists, Fails
<1>12. CASE DeleteFails(d) BY <1>12 DEF DeleteFails, Fails
<1>13. CASE Succeeds(d) BY <1>13 DEF Succeeds
<1>14. CASE Killed(d) BY <1>14 DEF Killed, Fails
<1> QED BY <1>1, <1>2, <1>3, <1>4, <1>5, <1>6, <1>7, <1>8, <1>9, <1>10, <1>11, <1>12, <1>13, <1>14 DEF Step

LEMMA NamespaceStep ==
  ASSUME TypeOK, NEW d \in Deployers, Step(d)
  PROVE  NamespaceOK'
<1> USE DEF NamespaceOK, TypeOK
<1>0. ASSUME pc[d] # "Idle" PROVE job[d] \in Jobs BY <1>0 DEF ProcessOK
<1>1. CASE Start(d) BY <1>1 DEF Start
<1>2. CASE Preflight(d) BY <1>2 DEF Preflight, Fails
<1>3. CASE LookUp(d) BY <1>3 DEF LookUp, Fails
<1>4. CASE SyncSecret(d) BY <1>4 DEF SyncSecret
<1>5. CASE Recreate(d)
  BY <1>5 DEF Recreate, Delete, Without
<1>6. CASE StartApply(d) BY <1>6 DEF StartApply
<1>7. CASE ApplyObject(d)
  <2> DEFINE o == job[d].objects[applied[d] + 1]
  <2>1. job[d] \in Jobs /\ applied[d] + 1 \in 1 .. Len(job[d].objects)
    BY <1>7, <1>0, LenIsNat DEF ApplyObject, ProcessOK
  <2>2. o \in Manifested BY <2>1, ObjectAt, ObjectsAreManifested
  <2>3. live' = live \/ live' = Without({Key(o)}) \cup {o} BY <1>7 DEF ApplyObject
  <2>4. secret' = secret BY <1>7 DEF ApplyObject
  <2> QED BY <2>2, <2>3, <2>4 DEF Without
<1>8. CASE ApplyFails(d) BY <1>8 DEF ApplyFails, Fails
<1>9. CASE ListTemplates(d) BY <1>9 DEF ListTemplates, Lists, Fails
<1>10. CASE DeleteObsolete(d)
  BY <1>10 DEF DeleteObsolete, Delete, Without
<1>11. CASE ListFrontend(d) BY <1>11 DEF ListFrontend, Lists, Fails
<1>12. CASE DeleteFails(d) BY <1>12 DEF DeleteFails, Fails
<1>13. CASE Succeeds(d) BY <1>13 DEF Succeeds
<1>14. CASE Killed(d) BY <1>14 DEF Killed, Fails
<1> QED BY <1>1, <1>2, <1>3, <1>4, <1>5, <1>6, <1>7, <1>8, <1>9, <1>10, <1>11, <1>12, <1>13, <1>14 DEF Step

LEMMA ProcessFails ==
  ASSUME TypeOK, NEW d \in Deployers, pc[d] # "Idle", Fails(d)
  PROVE  ProcessOK'
BY DEF TypeOK, ProcessOK, Fails, GoTo, Halted

LEMMA ProcessLists ==
  ASSUME TypeOK, NEW d \in Deployers, pc[d] # "Idle", NEW label \in Running,
         NEW obsolete \in SUBSET live, Lists(d, label, obsolete)
  PROVE  ProcessOK'
<1>1. {Key(o) : o \in obsolete} \in SUBSET {Key(o) : o \in Manifested}
  BY DEF TypeOK, NamespaceOK
<1>2. pc' = [pc EXCEPT ![d] = label] /\ doomed' = [doomed EXCEPT ![d] = {Key(o) : o \in obsolete}]
  BY DEF Lists, GoTo
<1>3. failed' = [failed EXCEPT ![d] = FALSE] BY DEF Lists
<1>4. UNCHANGED <<job, todo, applied, disturbed>> BY DEF Lists
<1> HIDE DEF Lists
<1> QED BY <1>1, <1>2, <1>3, <1>4 DEF TypeOK, ProcessOK

\* Only a command that changes the namespace disturbs, and it disturbs all others.
LEMMA WhatDisturbs ==
  ASSUME NEW d \in Deployers, Step(d)
  PROVE  \/ Start(d) /\ live' = live
         \/ Disturbs(d)
         \/ disturbed' = disturbed /\ live' = live
<1>1. CASE Start(d) BY <1>1 DEF Start
<1>2. CASE Preflight(d) BY <1>2 DEF Preflight, Fails
<1>3. CASE LookUp(d) BY <1>3 DEF LookUp, Fails
<1>4. CASE SyncSecret(d) BY <1>4 DEF SyncSecret
<1>5. CASE Recreate(d) BY <1>5 DEF Recreate, Delete
<1>6. CASE StartApply(d) BY <1>6 DEF StartApply
<1>7. CASE ApplyObject(d) BY <1>7 DEF ApplyObject
<1>8. CASE ApplyFails(d) BY <1>8 DEF ApplyFails, Fails
<1>9. CASE ListTemplates(d) BY <1>9 DEF ListTemplates, Lists, Fails
<1>10. CASE DeleteObsolete(d) BY <1>10 DEF DeleteObsolete, Delete
<1>11. CASE ListFrontend(d) BY <1>11 DEF ListFrontend, Lists, Fails
<1>12. CASE DeleteFails(d) BY <1>12 DEF DeleteFails, Fails
<1>13. CASE Succeeds(d) BY <1>13 DEF Succeeds
<1>14. CASE Killed(d) BY <1>14 DEF Killed, Fails
<1> QED BY <1>1, <1>2, <1>3, <1>4, <1>5, <1>6, <1>7, <1>8, <1>9, <1>10, <1>11, <1>12, <1>13, <1>14 DEF Step

LEMMA DisturbedStep ==
  ASSUME TypeOK, NEW d \in Deployers, Step(d)
  PROVE  disturbed' \in [Deployers -> SUBSET {Key(o) : o \in Manifested}]
<1>1. disturbed \in [Deployers -> SUBSET {Key(o) : o \in Manifested}] BY DEF TypeOK, ProcessOK
<1>2. CASE Start(d)
  <2>1. disturbed' = [disturbed EXCEPT ![d] = {}] BY <1>2 DEF Start
  <2> QED BY <1>1, <2>1
<1>3. CASE Disturbs(d)
  <2>1. {Key(o) : o \in Changed} \subseteq {Key(o) : o \in Manifested}
    BY NamespaceStep DEF TypeOK, NamespaceOK, Changed
  <2> QED BY <1>1, <1>3, <2>1 DEF Disturbs
<1> QED BY <1>1, <1>2, <1>3, WhatDisturbs

LEMMA ProcessStep ==
  ASSUME TypeOK, NEW d \in Deployers, Step(d)
  PROVE  ProcessOK'
<1> USE DEF GoTo
<1>0. disturbed' \in [Deployers -> SUBSET {Key(o) : o \in Manifested}] BY DisturbedStep
<1>1. CASE Start(d) BY <1>1 DEF Start, TypeOK, ProcessOK, Halted, Running
<1>2. CASE Preflight(d)
  <2>1. CASE Fails(d) BY <1>2, <2>1, ProcessFails DEF Preflight
  <2>2. CASE ~Fails(d)
    <3>1. Workloads(job[d]) \subseteq Manifested
      BY <1>2, ObjectsAreManifested DEF Preflight, Workloads, TypeOK, ProcessOK
    <3> QED BY <1>2, <2>2, <3>1 DEF Preflight, TypeOK, ProcessOK, Running
  <2> QED BY <2>1, <2>2
<1>3. CASE LookUp(d)
  <2>1. CASE Fails(d) BY <1>3, <2>1, ProcessFails DEF LookUp
  <2>2. CASE ~Fails(d)
    <3>1. PICK desired \in todo[d] :
            /\ todo' = [todo EXCEPT ![d] = @ \ {desired}]
            /\ doomed' = [doomed EXCEPT ![d] = @ \cup {Key(o) : o \in {l \in live : MustGo(l, desired)}}]
            /\ UNCHANGED <<pc, job, applied, failed>>
      BY <1>3, <2>2, Zenon DEF LookUp
    <3>2. {Key(o) : o \in {l \in live : MustGo(l, desired)}} \subseteq {Key(o) : o \in Manifested}
      BY DEF TypeOK, NamespaceOK
    <3>3. doomed' \in [Deployers -> SUBSET {Key(o) : o \in Manifested}]
      BY <3>1, <3>2 DEF TypeOK, ProcessOK
    <3>4. todo' \in [Deployers -> SUBSET Manifested] BY <3>1 DEF TypeOK, ProcessOK
    <3> QED BY <1>0, <3>1, <3>3, <3>4 DEF TypeOK, ProcessOK
  <2> QED BY <2>1, <2>2
<1>4. CASE SyncSecret(d) BY <1>4 DEF SyncSecret, TypeOK, ProcessOK, Halted, Running
<1>5. CASE Recreate(d) BY <1>5, <1>0 DEF Recreate, Delete, TypeOK, ProcessOK, Halted, Running
<1>6. CASE StartApply(d)
  BY <1>6 DEF StartApply, Recreated, TypeOK, ProcessOK, Running
<1>7. CASE ApplyObject(d)
  <2>1. pc[d] = "Apply" /\ applied[d] < Len(job[d].objects) BY <1>7 DEF ApplyObject
  <2>2. applied' = [applied EXCEPT ![d] = @ + 1] /\ UNCHANGED <<pc, job, todo, doomed>>
    BY <1>7 DEF ApplyObject
  <2>3. failed' \in [Deployers -> BOOLEAN]
    <3>1. failed' = failed \/ failed' = [failed EXCEPT ![d] = TRUE] BY <1>7 DEF ApplyObject
    <3> QED BY <3>1 DEF TypeOK, ProcessOK
  <2>4. applied[d] + 1 <= Len(job[d].objects)
    BY <2>1, LenIsNat DEF TypeOK, ProcessOK
  <2>5. applied' \in [Deployers -> Nat] BY <2>2 DEF TypeOK, ProcessOK
  <2>6. \A e \in Deployers : pc'[e] # "Idle" => applied'[e] <= Len(job'[e].objects)
    BY <2>2, <2>4 DEF TypeOK, ProcessOK
  <2> QED BY <1>0, <2>2, <2>3, <2>5, <2>6 DEF TypeOK, ProcessOK
<1>8. CASE ApplyFails(d) BY <1>8 DEF ApplyFails, Fails, TypeOK, ProcessOK, Halted, Running
<1>9. CASE ListTemplates(d)
  <2>1. CASE Fails(d) BY <1>9, <2>1, ProcessFails DEF ListTemplates, ApplyDone
  <2>2. CASE ~Fails(d)
    BY <1>9, <2>2, ProcessLists DEF ListTemplates, ApplyDone, Running
  <2> QED BY <2>1, <2>2
<1>10. CASE DeleteObsolete(d)
  <2>1. PICK key \in doomed[d] : doomed' = [doomed EXCEPT ![d] = @ \ {key}]
    BY <1>10 DEF DeleteObsolete, Delete
  <2>2. failed' \in [Deployers -> BOOLEAN]
    <3>1. failed' = failed \/ failed' = [failed EXCEPT ![d] = TRUE] BY <1>10 DEF DeleteObsolete
    <3> QED BY <3>1 DEF TypeOK, ProcessOK
  <2>3. UNCHANGED <<pc, job, todo, applied>> BY <1>10 DEF DeleteObsolete
  <2>4. doomed' \in [Deployers -> SUBSET {Key(o) : o \in Manifested}]
    BY <2>1 DEF TypeOK, ProcessOK
  <2> QED BY <1>0, <2>2, <2>3, <2>4 DEF TypeOK, ProcessOK
<1>11. CASE ListFrontend(d)
  <2>1. CASE Fails(d) BY <1>11, <2>1, ProcessFails DEF ListFrontend
  <2>2. CASE ~Fails(d)
    BY <1>11, <2>2, ProcessLists DEF ListFrontend, Running
  <2> QED BY <2>1, <2>2
<1>12. CASE DeleteFails(d) BY <1>12 DEF DeleteFails, Fails, TypeOK, ProcessOK, Halted, Running
<1>13. CASE Succeeds(d) BY <1>13 DEF Succeeds, TypeOK, ProcessOK, Halted, Running
<1>14. CASE Killed(d) BY <1>14 DEF Killed, Fails, TypeOK, ProcessOK, Halted, Running
<1> QED BY <1>1, <1>2, <1>3, <1>4, <1>5, <1>6, <1>7, <1>8, <1>9, <1>10, <1>11, <1>12, <1>13, <1>14 DEF Step

LEMMA TypeNext == TypeOK /\ [Next]_vars => TypeOK'
<1> SUFFICES ASSUME TypeOK, [Next]_vars PROVE TypeOK'
  OBVIOUS
<1>1. CASE \E d \in Deployers : Step(d)
  BY <1>1, NamespaceStep, ProcessStep, BudgetStep DEF TypeOK
<1>2. CASE UNCHANGED vars
  BY <1>2 DEF vars, process, TypeOK, NamespaceOK, ProcessOK, BudgetOK
<1> QED BY <1>1, <1>2 DEF Next, Finished

\* Type correctness: in particular the namespace never has two objects of one
\* kind and name, and apply never runs past the end of a manifest.
THEOREM TypeCorrect == Spec => []TypeOK
<1>1. Init => TypeOK BY TypeInit
<1>2. TypeOK /\ [Next]_vars => TypeOK' BY TypeNext
<1> QED BY <1>1, <1>2, PTL DEF Spec

-----------------------------------------------------------------------------
(* Releases do not touch each other.                                       *)

\* As long as no two instances have objects of one kind and name, nor workloads
\* of one name.
NamesAreScoped ==
  \A a, b \in Manifested :
    /\ a.kind = b.kind \/ (a.kind \in WorkloadKinds /\ b.kind \in WorkloadKinds)
    /\ a.name = b.name
    => a.instance = b.instance

\* What a process is about to look up or to delete belongs to its instance.
Own ==
  \A d \in Deployers :
    /\ pc[d] = "Plan" => todo[d] \subseteq Workloads(job[d])
    /\ \A o \in Manifested : Key(o) \in doomed[d] => o.instance \in Instances(ObjectsOf(job[d]))

LEMMA KeyHasName == ASSUME NEW a, NEW b, Key(a) = Key(b) PROVE a.kind = b.kind /\ a.name = b.name
BY DEF Key

LEMMA ListedIsOwn ==
  ASSUME NEW j \in Jobs, NEW o, ObsoleteTemplate(o, j) \/ ObsoleteFrontend(o, j)
  PROVE  o.instance \in Instances(ObjectsOf(j))
BY DEF ObsoleteTemplate, ObsoleteFrontend, Instances, Workloads, RoutingObjects

LEMMA OwnStep ==
  ASSUME NamesAreScoped, TypeOK, Own, NEW d \in Deployers, Step(d)
  PROVE  Own'
<1> DEFINE OwnOf(e) ==
      /\ pc[e] = "Plan" => todo[e] \subseteq Workloads(job[e])
      /\ \A o \in Manifested : Key(o) \in doomed[e] => o.instance \in Instances(ObjectsOf(job[e]))
<1>1. ASSUME NEW e \in Deployers, e # d PROVE OwnOf(e)'
  BY <1>1, OthersNext DEF Own, TypeOK
<1>2. OwnOf(d)'
  <2> USE DEF GoTo
  <2>0. TypeOK /\ OwnOf(d) BY DEF Own
  <2>15. live \subseteq Manifested BY DEF TypeOK, NamespaceOK
  <2>1. CASE Start(d) BY <2>1, <2>0 DEF Start, TypeOK, ProcessOK
  <2>2. CASE Preflight(d)
      <3>1. CASE Fails(d) BY <2>0, <2>2, <3>1 DEF Preflight, Fails, TypeOK, ProcessOK
      <3>2. CASE ~Fails(d) BY <2>0, <2>2, <3>2 DEF Preflight, TypeOK, ProcessOK
      <3> QED BY <3>1, <3>2
  <2>3. CASE LookUp(d)
      <3>1. pc[d] = "Plan" /\ UNCHANGED job BY <2>3 DEF LookUp, Fails
      <3>2. CASE Fails(d) BY <2>0, <3>1, <3>2 DEF Fails, TypeOK, ProcessOK
      <3>3. CASE ~Fails(d)
        <4>1. PICK desired \in todo[d] :
                /\ todo' = [todo EXCEPT ![d] = @ \ {desired}]
                /\ doomed' = [doomed EXCEPT ![d] = @ \cup {Key(o) : o \in {l \in live : MustGo(l, desired)}}]
          BY <2>3, <3>3, Zenon DEF LookUp
        <4>2. todo'[d] \subseteq Workloads(job[d]) BY <2>0, <3>1, <4>1 DEF TypeOK, ProcessOK
        <4>3. /\ desired \in Manifested /\ desired \in ObjectsOf(job[d])
              /\ desired.kind \in WorkloadKinds
          BY <2>0, <3>1 DEF TypeOK, ProcessOK, Workloads, ModelWorkload
        <4>4. ASSUME NEW o \in Manifested, Key(o) \in doomed'[d], Key(o) \notin doomed[d]
              PROVE  o.instance = desired.instance
          <5>1. doomed'[d] = doomed[d] \cup {Key(l) : l \in {l \in live : MustGo(l, desired)}}
            BY <4>1 DEF TypeOK, ProcessOK
          <5>2. PICK l \in live : MustGo(l, desired) /\ Key(o) = Key(l) BY <4>4, <5>1
          <5>3. o.name = desired.name /\ o.kind \in WorkloadKinds BY <5>2, KeyHasName DEF MustGo
          <5> QED BY <4>3, <5>3 DEF NamesAreScoped
        <4>5. desired.instance \in Instances(ObjectsOf(job[d])) BY <4>3 DEF Instances
        <4> QED BY <2>0, <3>1, <4>2, <4>4, <4>5
      <3> QED BY <3>2, <3>3
  <2>4. CASE SyncSecret(d) BY <2>4, <2>0 DEF SyncSecret, TypeOK, ProcessOK
  <2>5. CASE Recreate(d)
      <3>1. UNCHANGED <<job, todo>> /\ pc'[d] # "Plan" BY <2>5 DEF Recreate, TypeOK, ProcessOK
      <3>2. doomed'[d] \subseteq doomed[d] BY <2>5 DEF Recreate, Delete, TypeOK, ProcessOK
      <3> QED BY <2>0, <3>1, <3>2
  <2>6. CASE StartApply(d) BY <2>6, <2>0 DEF StartApply, TypeOK, ProcessOK
  <2>7. CASE ApplyObject(d)
      <3>1. UNCHANGED <<pc, job, todo, doomed>> BY <2>7 DEF ApplyObject
      <3> QED BY <2>0, <3>1
  <2>8. CASE ApplyFails(d) BY <2>8, <2>0 DEF ApplyFails, Fails, TypeOK, ProcessOK
  <2>9. CASE ListTemplates(d)
      <3>1. CASE Fails(d) BY <2>0, <2>9, <3>1 DEF Fails, TypeOK, ProcessOK
      <3>2. CASE ~Fails(d)
        <4>1. Lists(d, "Prune", {o \in live : ObsoleteTemplate(o, job[d])}) BY <2>9, <3>2 DEF ListTemplates
        <4>2. job[d] \in Jobs BY <2>9 DEF ListTemplates, ApplyDone, TypeOK, ProcessOK
        <4>3. doomed'[d] = {Key(o) : o \in {l \in live : ObsoleteTemplate(l, job[d])}}
        BY <2>0, <4>1 DEF Lists, TypeOK, ProcessOK
      <4>4. pc'[d] = "Prune" /\ job' = job BY <2>0, <4>1 DEF Lists, TypeOK, ProcessOK
      <4>5. ASSUME NEW o \in Manifested, Key(o) \in doomed'[d]
            PROVE  o.instance \in Instances(ObjectsOf(job[d]))
        <5>1. PICK l \in live : ObsoleteTemplate(l, job[d]) /\ Key(o) = Key(l) BY <4>3, <4>5
        <5>2. o.instance = l.instance BY <2>15, <5>1, KeyHasName DEF NamesAreScoped
        <5> QED BY <4>2, <5>1, <5>2, ListedIsOwn
      <4> QED BY <4>4, <4>5
      <3> QED BY <3>1, <3>2
  <2>10. CASE DeleteObsolete(d)
      <3>1. UNCHANGED <<pc, job, todo>> BY <2>10 DEF DeleteObsolete
      <3>2. doomed'[d] \subseteq doomed[d] BY <2>10 DEF DeleteObsolete, Delete, TypeOK, ProcessOK
      <3> QED BY <2>0, <3>1, <3>2
  <2>11. CASE ListFrontend(d)
      <3>1. CASE Fails(d) BY <2>0, <2>11, <3>1 DEF Fails, TypeOK, ProcessOK
      <3>2. CASE ~Fails(d)
        <4>1. Lists(d, "Cleanup", {o \in live : ObsoleteFrontend(o, job[d])}) BY <2>11, <3>2 DEF ListFrontend
        <4>2. job[d] \in Jobs BY <2>11 DEF ListFrontend, TypeOK, ProcessOK
        <4>3. doomed'[d] = {Key(o) : o \in {l \in live : ObsoleteFrontend(l, job[d])}}
        BY <2>0, <4>1 DEF Lists, TypeOK, ProcessOK
      <4>4. pc'[d] = "Cleanup" /\ job' = job BY <2>0, <4>1 DEF Lists, TypeOK, ProcessOK
      <4>5. ASSUME NEW o \in Manifested, Key(o) \in doomed'[d]
            PROVE  o.instance \in Instances(ObjectsOf(job[d]))
        <5>1. PICK l \in live : ObsoleteFrontend(l, job[d]) /\ Key(o) = Key(l) BY <4>3, <4>5
        <5>2. o.instance = l.instance BY <2>15, <5>1, KeyHasName DEF NamesAreScoped
        <5> QED BY <4>2, <5>1, <5>2, ListedIsOwn
      <4> QED BY <4>4, <4>5
      <3> QED BY <3>1, <3>2
  <2>12. CASE DeleteFails(d) BY <2>12, <2>0 DEF DeleteFails, Fails, TypeOK, ProcessOK
  <2>13. CASE Succeeds(d) BY <2>13, <2>0 DEF Succeeds, TypeOK, ProcessOK
  <2>14. CASE Killed(d) BY <2>14, <2>0 DEF Killed, Fails, TypeOK, ProcessOK
  <2> QED BY <2>1, <2>2, <2>3, <2>4, <2>5, <2>6, <2>7, <2>8, <2>9, <2>10, <2>11, <2>12, <2>13, <2>14 DEF Step
<1> QED BY <1>1, <1>2 DEF Own

LEMMA OwnInit == Init => Own
BY DEF Init, Own

LEMMA OwnNext == ASSUME NamesAreScoped, TypeOK, Own, [Next]_vars PROVE Own'
<1>1. CASE \E d \in Deployers : Step(d) BY <1>1, OwnStep
<1>2. CASE UNCHANGED vars BY <1>2 DEF vars, process, Own
<1> QED BY <1>1, <1>2 DEF Next, Finished

\* Deleting one object that belongs to the process.
LEMMA DeleteIsolated ==
  ASSUME TypeOK, Own, NEW d \in Deployers,
         NEW key \in doomed[d], NEW effective \in BOOLEAN, Delete(d, key, effective)
  PROVE  StaysInside
<1>1. doomed' # doomed /\ doomed'[d] # doomed[d] BY DEF Delete, TypeOK, ProcessOK
<1>2. CASE effective
  <2>1. live' = {o \in live : Key(o) # key} BY <1>2 DEF Delete, Without
  <2>2. ASSUME NEW o \in Changed
        PROVE  o.instance \in Instances(ObjectsOf(job[d]))
    <3>1. o \in live /\ Key(o) = key BY <2>1, <2>2 DEF Changed
    <3> QED BY <3>1 DEF Own, TypeOK, NamespaceOK
  <2> QED BY <1>1, <2>2 DEF StaysInside
<1>3. CASE ~effective
  <2>1. live' = live BY <1>3 DEF Delete
  <2> QED BY <2>1 DEF StaysInside, Changed
<1> QED BY <1>2, <1>3

\* Applying one object replaces at most the object of its kind and name.
LEMMA ApplyIsolated ==
  ASSUME NamesAreScoped, TypeOK, NEW d \in Deployers, ApplyObject(d)
  PROVE  StaysInside
<1> DEFINE object == job[d].objects[applied[d] + 1]
<1>1. applied'[d] # applied[d] BY DEF ApplyObject, TypeOK, ProcessOK
<1>2. live' = live \/ live' = Without({Key(object)}) \cup {object} BY Zenon DEF ApplyObject
<1>3. job[d] \in Jobs /\ applied[d] + 1 \in 1 .. Len(job[d].objects)
  <2>1. job[d] \in Jobs BY DEF ApplyObject, TypeOK, ProcessOK
  <2>2. Len(job[d].objects) \in Nat BY <2>1, LenIsNat
  <2> QED BY <2>1, <2>2 DEF ApplyObject, TypeOK, ProcessOK
<1>4. object \in ObjectsOf(job[d]) /\ object \in Manifested BY <1>3, ObjectAt, ObjectsAreManifested
<1>5. ASSUME NEW o \in Changed
      PROVE  o.instance \in Instances(ObjectsOf(job[d]))
  <2>1. object.instance \in Instances(ObjectsOf(job[d])) BY <1>4 DEF Instances
  <2>2. CASE o = object BY <2>1, <2>2
  <2>3. CASE o # object
    <3>1. o \in live /\ Key(o) = Key(object) BY <1>2, <1>5, <2>3 DEF Without, Changed
    <3>2. o.kind = object.kind /\ o.name = object.name /\ o \in Manifested BY <3>1, KeyHasName DEF TypeOK, NamespaceOK
    <3> QED BY <1>4, <2>1, <3>2 DEF NamesAreScoped
  <2> QED BY <2>2, <2>3
<1> QED BY <1>1, <1>5 DEF StaysInside

LEMMA StepIsolated ==
  ASSUME NamesAreScoped, TypeOK, Own, [Next]_vars PROVE [StaysInside]_vars
<1>1. ASSUME NEW d \in Deployers, Step(d) PROVE StaysInside
  <2>1. CASE live' = live BY <2>1 DEF StaysInside, Changed
  <2>2. CASE Recreate(d) BY <2>2, DeleteIsolated, Zenon DEF Recreate
  <2>3. CASE DeleteObsolete(d) BY <2>3, DeleteIsolated, Zenon DEF DeleteObsolete
  <2>4. CASE ApplyObject(d) BY <2>4, ApplyIsolated
  <2>5. Recreate(d) \/ DeleteObsolete(d) \/ ApplyObject(d) \/ live' = live
    BY <1>1 DEF Step, Start, Preflight, LookUp, SyncSecret, StartApply, ApplyFails,
       ListTemplates, ListFrontend, Lists, DeleteFails, Succeeds, Killed, Fails
  <2> QED BY <2>1, <2>2, <2>3, <2>4, <2>5
<1> QED BY <1>1 DEF Next, Finished

\* However many deployments run at a time, fail and are killed: if no workloads
\* of two instances have one name, a step of a deployment changes objects of its
\* own instance only.  (The assumption is what DeploySharedName.cfg and
\* DeployJoinedNames.cfg lack.)
THEOREM ReleasesAreIsolated == ASSUME NamesAreScoped PROVE Spec => Isolated
<1>1. Init => TypeOK /\ Own BY TypeInit, OwnInit
<1>2. TypeOK /\ Own /\ [Next]_vars => (TypeOK /\ Own)' BY TypeNext, OwnNext
<1>3. TypeOK /\ Own /\ [Next]_vars => [StaysInside]_vars BY StepIsolated
<1> QED BY <1>1, <1>2, <1>3, PTL DEF Spec, Isolated

-----------------------------------------------------------------------------
(* A success converges.                                                    *)

\* What stands in the way of the workloads looked up so far will be deleted,
\* where no other process has changed anything.
Planned(d) ==
  LET Dealt(w) == \A o \in live : MustGo(o, w) => Key(o) \in doomed[d] \cup disturbed[d]
  IN /\ pc[d] = "Plan" =>
          todo[d] \subseteq Workloads(job[d]) /\ \A w \in Workloads(job[d]) \ todo[d] : Dealt(w)
     /\ pc[d] = "Recreate" => \A w \in Workloads(job[d]) : Dealt(w)

\* From there on nothing stands in their way, and they find their token.
Applying == {"Apply", "Prune", "Cleanup", "Ok"}
Cleared(d) ==
  /\ pc[d] \in Applying =>
       \A w \in Workloads(job[d]), o \in live : MustGo(o, w) => Key(o) \in disturbed[d]
  /\ pc[d] \in Applying \cup {"Recreate"} /\ Workloads(job[d]) # {} => secret

\* What was applied is live, and pruning spares it.
Pruning == {"Prune", "Cleanup", "Ok"}
Wanted(d) ==
  LET There(o) == Key(o) \in disturbed[d] \/ o \in live
  IN /\ pc[d] \in {"Preflight", "Plan", "Recreate"} => applied[d] = 0
     /\ pc[d] = "Apply" /\ ~failed[d] => \A i \in 1 .. applied[d] : There(job[d].objects[i])
     /\ pc[d] \in Pruning => \A o \in ObjectsOf(job[d]) : There(o) /\ Key(o) \notin doomed[d]

\* What is obsolete goes, or a command failed.
Pruned(d) ==
  /\ pc[d] = "Prune" =>
       \A o \in live : ObsoleteTemplate(o, job[d]) => failed[d] \/ Key(o) \in doomed[d] \cup disturbed[d]
  /\ pc[d] \in {"Cleanup", "Ok"} => \A o \in live : ObsoleteTemplate(o, job[d]) => Key(o) \in disturbed[d]
  /\ pc[d] = "Cleanup" =>
       \A o \in live : ObsoleteFrontend(o, job[d]) => failed[d] \/ Key(o) \in doomed[d] \cup disturbed[d]
  /\ pc[d] = "Ok" => \A o \in live : ObsoleteFrontend(o, job[d]) => Key(o) \in disturbed[d]

Progress(d) == Planned(d) /\ Cleared(d) /\ Wanted(d) /\ Pruned(d)
Converging == \A d \in Deployers : Progress(d)

LEMMA SameObject ==
  ASSUME NEW j \in Jobs, NEW a \in ObjectsOf(j), NEW b \in ObjectsOf(j), Key(a) = Key(b)
  PROVE  a = b
BY JobsAssumption DEF ObjectsOf

\* The secret stays, and what one process changes is disturbed for every other
\* one that is under way.
LEMMA SecretStays ==
  ASSUME NEW d \in Deployers, Step(d) PROVE secret => secret'
<1>1. CASE SyncSecret(d)
  <2>1. secret' = secret \/ secret' = TRUE BY <1>1, Zenon DEF SyncSecret
  <2> QED BY <2>1
<1>2. CASE ~SyncSecret(d)
  <2>1. secret' = secret
    BY <1>2 DEF Step, Start, Preflight, LookUp, Recreate, StartApply, ApplyObject, ApplyFails,
      ListTemplates, ListFrontend, Lists, DeleteObsolete, DeleteFails, Succeeds, Killed, Fails
  <2> QED BY <2>1
<1> QED BY <1>1, <1>2

LEMMA DisturbedNext ==
  ASSUME ProcessOK, NEW d \in Deployers, Step(d), NEW e \in Deployers
  PROVE  /\ e # d => disturbed[e] \subseteq disturbed'[e]
         /\ e # d /\ pc[e] \notin {"Idle", "Failed"} => \A o \in Changed : Key(o) \in disturbed'[e]
         /\ e = d /\ ~Start(d) => disturbed'[e] = disturbed[e]
<1>1. CASE Start(d) /\ live' = live BY <1>1 DEF Start, ProcessOK, Changed
<1>2. CASE Disturbs(d)
  <2>1. disturbed'[e] = IF e # d /\ pc[e] \notin {"Idle", "Failed"}
                        THEN disturbed[e] \cup {Key(o) : o \in Changed} ELSE disturbed[e]
    BY <1>2, Zenon DEF Disturbs
  <2> QED BY <2>1
<1>3. CASE disturbed' = disturbed /\ live' = live BY <1>3 DEF Changed
<1> QED BY <1>1, <1>2, <1>3, WhatDisturbs

LEMMA ProgressOthers ==
  ASSUME TypeOK, Converging, NEW d \in Deployers, Step(d), NEW e \in Deployers, e # d
  PROVE  Progress(e)'
<1>1. UNCHANGED <<pc[e], job[e], todo[e], doomed[e], applied[e], failed[e]>> BY OthersNext DEF TypeOK
<1>2. CASE pc[e] \in {"Idle", "Failed"}
  BY <1>1, <1>2 DEF Progress, Planned, Cleared, Wanted, Pruned, Applying, Pruning
<1>3. CASE pc[e] \notin {"Idle", "Failed"}
  <2>1. disturbed[e] \subseteq disturbed'[e] /\ \A o \in Changed : Key(o) \in disturbed'[e]
    BY <1>3, DisturbedNext DEF TypeOK
  <2>2. \A o \in live' : Key(o) \notin disturbed'[e] => o \in live BY <2>1 DEF Changed
  <2>3. \A o \in live : Key(o) \notin disturbed'[e] => o \in live' BY <2>1 DEF Changed
  <2>4. (secret => secret') /\ Progress(e) BY SecretStays DEF Converging
  <2>5. Planned(e)' BY <1>1, <2>1, <2>2, <2>4 DEF Progress, Planned
  <2>6. Cleared(e)' BY <1>1, <2>1, <2>2, <2>4 DEF Progress, Cleared
  <2>7. Wanted(e)' BY <1>1, <2>1, <2>3, <2>4 DEF Progress, Wanted
  <2>8. Pruned(e)' BY <1>1, <2>1, <2>2, <2>4 DEF Progress, Pruned
  <2> QED BY <2>5, <2>6, <2>7, <2>8 DEF Progress
<1> QED BY <1>2, <1>3

\* Where a process has failed or has not begun there is nothing to keep.
LEMMA ProgressStops ==
  ASSUME NEW d \in Deployers, pc'[d] \in {"Idle", "Failed"} PROVE Progress(d)'
BY DEF Progress, Planned, Cleared, Wanted, Pruned, Applying, Pruning

LEMMA ProgressFails ==
  ASSUME TypeOK, NEW d \in Deployers, Fails(d) PROVE Progress(d)'
<1>1. pc'[d] = "Failed" BY DEF Fails, GoTo, TypeOK, ProcessOK
<1> QED BY <1>1, ProgressStops

LEMMA ProgressStart ==
  ASSUME TypeOK, NEW d \in Deployers, Start(d) PROVE Progress(d)'
<1>1. PICK j \in Jobs : job'[d] = j /\ pc'[d] = (IF j.routing_only THEN "Apply" ELSE "Preflight")
  BY DEF Start, GoTo, TypeOK, ProcessOK
<1>4. applied'[d] = 0 BY DEF Start, TypeOK, ProcessOK
<1>2. CASE ~j.routing_only
  BY <1>1, <1>2, <1>4 DEF Progress, Planned, Cleared, Wanted, Pruned, Applying, Pruning
<1>3. CASE j.routing_only
  <2>1. Workloads(j) = {} BY <1>3, JobsAssumption
  <2>2. applied'[d] = 0 BY <1>4
  <2> QED BY <1>1, <1>3, <2>1, <2>2 DEF Progress, Planned, Cleared, Wanted, Pruned, Applying, Pruning
<1> QED BY <1>2, <1>3

LEMMA ProgressPlan ==
  ASSUME TypeOK, NEW d \in Deployers, Progress(d), disturbed'[d] = disturbed[d],
         Preflight(d) \/ LookUp(d) \/ SyncSecret(d)
  PROVE  Progress(d)'
<1> USE DEF GoTo
<1>1. CASE Fails(d) BY <1>1, ProgressFails
<1>2. CASE Preflight(d) /\ ~Fails(d)
  <2>1. pc'[d] = "Plan" /\ job'[d] = job[d] /\ todo'[d] = Workloads(job[d])
    BY <1>2 DEF Preflight, TypeOK, ProcessOK
  <2>2. pc[d] = "Preflight" /\ applied'[d] = applied[d] BY <1>2 DEF Preflight
  <2>3. Planned(d)' BY <2>1, <2>2 DEF Progress, Planned
  <2>4. Cleared(d)' BY <2>1, <2>2 DEF Progress, Planned, Cleared, Applying
  <2>5. Wanted(d)' BY <2>1, <2>2 DEF Progress, Wanted, Pruning
  <2>6. Pruned(d)' BY <2>1, <2>2 DEF Progress, Pruned
  <2> QED BY <2>3, <2>4, <2>5, <2>6 DEF Progress
<1>3. CASE LookUp(d) /\ ~Fails(d)
  <2>1. PICK desired \in todo[d] :
          /\ todo' = [todo EXCEPT ![d] = @ \ {desired}]
          /\ doomed' = [doomed EXCEPT ![d] = @ \cup {Key(o) : o \in {l \in live : MustGo(l, desired)}}]
          /\ UNCHANGED <<live, pc, job, applied>>
    BY <1>3, Zenon DEF LookUp
  <2>2. todo'[d] = todo[d] \ {desired} BY <2>1 DEF TypeOK, ProcessOK
  <2>3. doomed'[d] = doomed[d] \cup {Key(o) : o \in {l \in live : MustGo(l, desired)}}
    BY <2>1 DEF TypeOK, ProcessOK
  <2>4. pc[d] = "Plan" BY <1>3 DEF LookUp
  <2>5. \A w \in Workloads(job[d]) \ todo'[d], o \in live :
          MustGo(o, w) => Key(o) \in doomed'[d] \cup disturbed[d]
    BY <2>2, <2>3, <2>4 DEF Progress, Planned
  <2>6. Planned(d)' BY <2>1, <2>2, <2>4, <2>5 DEF Progress, Planned
  <2>7. Cleared(d)' BY <2>1, <2>2, <2>4, <2>5 DEF Progress, Planned, Cleared, Applying
  <2>8. Wanted(d)' BY <2>1, <2>2, <2>4, <2>5 DEF Progress, Wanted, Pruning
  <2>9. Pruned(d)' BY <2>1, <2>2, <2>4, <2>5 DEF Progress, Pruned
  <2> QED BY <2>6, <2>7, <2>8, <2>9 DEF Progress
<1>4. CASE SyncSecret(d)
  <2>1. pc[d] = "Plan" /\ todo[d] = {} /\ UNCHANGED <<live, job, doomed, applied>> BY <1>4 DEF SyncSecret
  <2>2. CASE pc'[d] = "Failed" BY <2>2, ProgressStops
  <2>3. CASE pc'[d] # "Failed"
    <3>1. pc'[d] = "Recreate" /\ secret' BY <1>4, <2>3 DEF SyncSecret, TypeOK, ProcessOK
    <3>2. Planned(d)' BY <2>1, <3>1 DEF Progress, Planned
    <3>3. Cleared(d)' BY <2>1, <3>1 DEF Progress, Planned, Cleared, Applying
    <3>4. Wanted(d)' BY <2>1, <3>1 DEF Progress, Wanted, Pruning
    <3>5. Pruned(d)' BY <2>1, <3>1 DEF Progress, Pruned
    <3> QED BY <3>2, <3>3, <3>4, <3>5 DEF Progress
  <2> QED BY <2>2, <2>3
<1> QED BY <1>1, <1>2, <1>3, <1>4

LEMMA ProgressRecreate ==
  ASSUME TypeOK, NEW d \in Deployers, Progress(d), disturbed'[d] = disturbed[d],
         Recreate(d) \/ StartApply(d)
  PROVE  Progress(d)'
<1> USE DEF GoTo
<1>1. CASE Recreate(d)
  <2>1. PICK key \in doomed[d], effective \in BOOLEAN :
          /\ Delete(d, key, effective)
          /\ \/ effective /\ NoFault /\ UNCHANGED pc
             \/ Fault /\ GoTo(d, "Failed")
    BY <1>1 DEF Recreate
  <2>2. pc[d] = "Recreate" /\ UNCHANGED <<secret, job, applied>> BY <1>1 DEF Recreate
  <2>3. CASE pc'[d] = "Failed" BY <2>3, ProgressStops
  <2>4. CASE pc'[d] # "Failed"
    <3>1. effective /\ pc' = pc BY <2>1, <2>4 DEF TypeOK, ProcessOK
    <3>2. live' = {o \in live : Key(o) # key} BY <2>1, <3>1 DEF Delete, Without
    <3>3. doomed'[d] = doomed[d] \ {key} BY <2>1 DEF Delete, TypeOK, ProcessOK
    <3>4. Planned(d)' BY <2>2, <3>1, <3>2, <3>3 DEF Progress, Planned
    <3>5. Cleared(d)' BY <2>2, <3>1, <3>2, <3>3 DEF Progress, Planned, Cleared, Applying
    <3>6. Wanted(d)' BY <2>2, <3>1, <3>2, <3>3 DEF Progress, Wanted, Pruning
    <3>7. Pruned(d)' BY <2>2, <3>1, <3>2, <3>3 DEF Progress, Pruned
    <3> QED BY <3>4, <3>5, <3>6, <3>7 DEF Progress
  <2> QED BY <2>3, <2>4
<1>2. CASE StartApply(d)
  <2>1. pc[d] = "Recreate" /\ doomed[d] = {} /\ pc'[d] = "Apply" /\ UNCHANGED <<live, secret, job, applied>>
    BY <1>2 DEF StartApply, Recreated, TypeOK, ProcessOK
  <2> QED BY <2>1 DEF Progress, Planned, Cleared, Wanted, Pruned, Applying, Pruning
<1> QED BY <1>1, <1>2

\* What apply adds is never in the way of a workload of its own manifest.
LEMMA ProgressApply ==
  ASSUME OneKindEach, TypeOK, NEW d \in Deployers, Progress(d), disturbed'[d] = disturbed[d],
         ApplyObject(d)
  PROVE  Progress(d)'
<1> DEFINE o == job[d].objects[applied[d] + 1]
<1>1. pc[d] = "Apply" /\ UNCHANGED <<secret, pc, job, todo, doomed>> /\ applied[d] < Len(job[d].objects)
  BY DEF ApplyObject
<1>2. job[d] \in Jobs /\ applied[d] \in Nat /\ applied'[d] = applied[d] + 1
  BY <1>1 DEF ApplyObject, TypeOK, ProcessOK
<1>3. \A i \in 1 .. applied'[d] : i \in 1 .. Len(job[d].objects) BY <1>1, <1>2, LenIsNat
<1>4. applied[d] + 1 \in 1 .. Len(job[d].objects) BY <1>1, <1>2, LenIsNat
<1>5. o \in ObjectsOf(job[d]) BY <1>2, <1>4, ObjectAt
<1>6. live' = live \/ live' = Without({Key(o)}) \cup {o} BY DEF ApplyObject
<1>7. \A w \in Workloads(job[d]) : ~MustGo(o, w)
  <2> SUFFICES ASSUME NEW w \in Workloads(job[d]), MustGo(o, w) PROVE FALSE
    OBVIOUS
  <2>1. o.kind = w.kind BY <1>2, <1>5 DEF MustGo, OneKindEach
  <2>2. o = w BY <1>2, <1>5, <2>1, SameObject DEF MustGo, Workloads, Key
  <2> QED BY <2>2 DEF MustGo
<1>8. Cleared(d)'
  <2>1. \A l \in live' : l \in live \/ l = o BY <1>6 DEF Without
  <2> QED BY <1>1, <1>7, <2>1 DEF Progress, Cleared, Applying
<1>9. ASSUME ~failed'[d], NEW i \in 1 .. applied'[d] 
      PROVE  Key(job[d].objects[i]) \in disturbed[d] \/ job[d].objects[i] \in live'
  <2>1. ~failed[d] /\ live' = Without({Key(o)}) \cup {o}
    BY <1>9 DEF ApplyObject, TypeOK, ProcessOK
  <2>2. CASE i = applied[d] + 1 BY <2>1, <2>2
  <2>3. CASE i # applied[d] + 1
    <3>1. i \in 1 .. applied[d] BY <1>2, <2>3
    <3>2. Key(job[d].objects[i]) \in disturbed[d] \/ job[d].objects[i] \in live
      BY <1>1, <2>1, <3>1 DEF Progress, Wanted
    <3>3. i \in DOMAIN job[d].objects /\ applied[d] + 1 \in DOMAIN job[d].objects
      <4>1. job[d].objects \in Seq(ObjectsOf(job[d])) BY <1>2, JobsAssumption
      <4> QED BY <1>3, <1>4, <4>1
    <3>4. Key(job[d].objects[i]) # Key(o) BY <1>2, <2>3, <3>3, JobsAssumption
    <3> QED BY <2>1, <3>2, <3>4 DEF Without
  <2> QED BY <2>2, <2>3
<1>10. Wanted(d)' BY <1>1, <1>9 DEF Wanted, Pruning
<1>11. Planned(d)' /\ Pruned(d)' BY <1>1 DEF Planned, Pruned
<1> QED BY <1>8, <1>10, <1>11 DEF Progress

\* Once all objects were applied, all of the manifest is live, or disturbed.
Present(d) == \A o \in ObjectsOf(job[d]) : Key(o) \in disturbed[d] \/ o \in live

LEMMA AllApplied ==
  ASSUME TypeOK, NEW d \in Deployers, Progress(d), ApplyDone(d)
  PROVE  Present(d)
<1>1. job[d] \in Jobs /\ pc[d] = "Apply" /\ ~failed[d] /\ applied[d] = Len(job[d].objects)
  BY DEF ApplyDone, TypeOK, ProcessOK
<1>2. job[d].objects \in Seq(ObjectsOf(job[d])) BY <1>1, JobsAssumption
<1>3. DOMAIN job[d].objects = 1 .. Len(job[d].objects) BY <1>2
<1> QED BY <1>1, <1>3 DEF Progress, Wanted, ObjectsOf, Present

LEMMA TemplatesAreSpared ==
  ASSUME NEW j \in Jobs, NEW o, NEW w \in ObjectsOf(j), ObsoleteTemplate(o, j)
  PROVE  Key(o) # Key(w)
BY DEF ObsoleteTemplate, ClaimTemplates, Key

LEMMA ProgressListTemplates ==
  ASSUME TypeOK, NEW d \in Deployers, Progress(d), disturbed'[d] = disturbed[d],
         ListTemplates(d)
  PROVE  Progress(d)'
<1>1. CASE Fails(d) BY <1>1, ProgressFails
<1>2. CASE ~Fails(d)
  <2>1. Lists(d, "Prune", {o \in live : ObsoleteTemplate(o, job[d])}) BY <1>2 DEF ListTemplates
  <2>2. pc[d] = "Apply" /\ job[d] \in Jobs BY DEF ListTemplates, ApplyDone, TypeOK, ProcessOK
  <2>3. pc'[d] = "Prune" /\ UNCHANGED <<live, secret, job, applied>>
    BY <2>1 DEF Lists, GoTo, TypeOK, ProcessOK
  <2>4. doomed'[d] = {Key(o) : o \in {l \in live : ObsoleteTemplate(l, job[d])}}
    BY <2>1 DEF Lists, TypeOK, ProcessOK
  <2>5. Present(d) BY AllApplied DEF ListTemplates
  <2>6. \A w \in ObjectsOf(job[d]) : Key(w) \notin doomed'[d] BY <2>2, <2>4, TemplatesAreSpared
  <2>7. Planned(d)' BY <2>3 DEF Planned
  <2>8. Cleared(d)' BY <2>2, <2>3 DEF Progress, Cleared, Applying
  <2>9. Wanted(d)' BY <2>3, <2>5, <2>6 DEF Wanted, Present
  <2>10. Pruned(d)' BY <2>3, <2>4 DEF Pruned
  <2> QED BY <2>7, <2>8, <2>9, <2>10 DEF Progress
<1> QED BY <1>1, <1>2

\* The frontend of a manifest is not what it replaces.
LEMMA FrontendIsSpared ==
  ASSUME FrontendsAreKnown, NEW j \in Jobs, NEW o \in Manifested, NEW w \in ObjectsOf(j),
         ObsoleteFrontend(o, j)
  PROVE  Key(o) # Key(w)
<1>1. RoutingObjects(j) # {} /\ o.instance \in Instances(ObjectsOf(j))
  BY DEF ObsoleteFrontend, Instances, RoutingObjects
<1> QED BY <1>1 DEF FrontendsAreKnown, ObsoleteFrontend

LEMMA ProgressListFrontend ==
  ASSUME FrontendsAreKnown, TypeOK, NEW d \in Deployers, Progress(d), disturbed'[d] = disturbed[d],
         ListFrontend(d)
  PROVE  Progress(d)'
<1>1. CASE Fails(d) BY <1>1, ProgressFails
<1>2. CASE ~Fails(d)
  <2>1. Lists(d, "Cleanup", {o \in live : ObsoleteFrontend(o, job[d])}) BY <1>2 DEF ListFrontend
  <2>2. pc[d] = "Prune" /\ doomed[d] = {} /\ ~failed[d] /\ job[d] \in Jobs
    BY DEF ListFrontend, TypeOK, ProcessOK
  <2>3. pc'[d] = "Cleanup" /\ UNCHANGED <<live, secret, job, applied>>
    BY <2>1 DEF Lists, GoTo, TypeOK, ProcessOK
  <2>4. doomed'[d] = {Key(o) : o \in {l \in live : ObsoleteFrontend(l, job[d])}}
    BY <2>1 DEF Lists, TypeOK, ProcessOK
  <2>5. Present(d) BY <2>2 DEF Progress, Wanted, Pruning, Present
  <2>6. \A w \in ObjectsOf(job[d]) : Key(w) \notin doomed'[d] BY <2>2, <2>4, FrontendIsSpared DEF TypeOK, NamespaceOK
  <2>7. Planned(d)' BY <2>3 DEF Planned
  <2>8. Cleared(d)' BY <2>2, <2>3 DEF Progress, Cleared, Applying
  <2>9. Wanted(d)' BY <2>3, <2>5, <2>6 DEF Wanted, Present
  <2>10. Pruned(d)' BY <2>2, <2>3, <2>4 DEF Progress, Pruned
  <2> QED BY <2>7, <2>8, <2>9, <2>10 DEF Progress
<1> QED BY <1>1, <1>2

LEMMA ProgressDelete ==
  ASSUME TypeOK, NEW d \in Deployers, Progress(d), disturbed'[d] = disturbed[d],
         DeleteObsolete(d)
  PROVE  Progress(d)'
<1>1. PICK key \in doomed[d], effective \in BOOLEAN :
        /\ Delete(d, key, effective)
        /\ \/ effective /\ NoFault /\ UNCHANGED failed
           \/ Fault /\ failed' = [failed EXCEPT ![d] = TRUE]
  BY DEF DeleteObsolete
<1>2. pc[d] \in {"Prune", "Cleanup"} /\ UNCHANGED <<secret, pc, job, todo, applied>> BY DEF DeleteObsolete
<1>3. doomed'[d] = doomed[d] \ {key} BY <1>1 DEF Delete, TypeOK, ProcessOK
<1>4. live' = live \/ live' = {o \in live : Key(o) # key} BY <1>1 DEF Delete, Without
<1>5. failed'[d] \/ (failed'[d] = failed[d] /\ live' = {o \in live : Key(o) # key})
  BY <1>1 DEF Delete, Without, TypeOK, ProcessOK
<1>6. Planned(d)' BY <1>2 DEF Planned
<1>7. Cleared(d)' BY <1>2, <1>4 DEF Progress, Cleared, Applying
<1>8. Wanted(d)' BY <1>1, <1>2, <1>3, <1>4 DEF Progress, Wanted, Pruning
<1>9. Pruned(d)' BY <1>2, <1>3, <1>4, <1>5 DEF Progress, Pruned
<1> QED BY <1>6, <1>7, <1>8, <1>9 DEF Progress

LEMMA ProgressSucceeds ==
  ASSUME TypeOK, NEW d \in Deployers, Progress(d), disturbed'[d] = disturbed[d],
         Succeeds(d)
  PROVE  Progress(d)'
<1>1. pc[d] = "Cleanup" /\ doomed[d] = {} /\ ~failed[d] /\ pc'[d] = "Ok"
  BY DEF Succeeds, GoTo, TypeOK, ProcessOK
<1>2. UNCHANGED <<live, secret, job, doomed>> BY DEF Succeeds
<1>3. Planned(d)' BY <1>1 DEF Planned
<1>4. Cleared(d)' BY <1>1, <1>2 DEF Progress, Cleared, Applying
<1>5. Wanted(d)' BY <1>1, <1>2 DEF Progress, Wanted, Pruning
<1>6. Pruned(d)' BY <1>1, <1>2 DEF Progress, Pruned
<1> QED BY <1>3, <1>4, <1>5, <1>6 DEF Progress

LEMMA ConvergingNext ==
  ASSUME OneKindEach, FrontendsAreKnown, TypeOK, Converging, [Next]_vars
  PROVE  Converging'
<1>1. ASSUME NEW d \in Deployers, Step(d), NEW e \in Deployers
      PROVE  Progress(e)'
  <2>1. CASE e # d BY <1>1, <2>1, ProgressOthers
  <2>2. CASE e = d
    <3>1. CASE Start(d) BY <2>2, <3>1, ProgressStart
    <3>2. CASE ~Start(d)
      <4>1. Progress(d) /\ disturbed'[d] = disturbed[d]
        BY <1>1, <2>2, <3>2, DisturbedNext DEF Converging, TypeOK
      <4>2. CASE ApplyFails(d) \/ DeleteFails(d) \/ Killed(d)
        BY <2>2, <4>2, ProgressFails DEF ApplyFails, DeleteFails, Killed
      <4> QED BY <1>1, <2>2, <3>2, <4>1, <4>2, ProgressPlan, ProgressRecreate, ProgressApply,
             ProgressListTemplates, ProgressListFrontend, ProgressDelete, ProgressSucceeds DEF Step
    <3> QED BY <3>1, <3>2
  <2> QED BY <2>1, <2>2
<1>2. CASE UNCHANGED vars
  BY <1>2 DEF vars, process, Converging, Progress, Planned, Cleared, Wanted, Pruned
<1> QED BY <1>1, <1>2 DEF Next, Finished, Converging

LEMMA ConvergingInit == Init => Converging
BY DEF Init, Converging, Progress, Planned, Cleared, Wanted, Pruned, Applying, Pruning

\* What a success leaves behind.
LEMMA SuccessIsWhole ==
  ASSUME FrontendsAreKnown, TypeOK, NEW d \in Deployers, pc[d] = "Ok", Progress(d)
  PROVE  LET wanted == ObjectsOf(job[d])
             Mine(o) == o.instance \in Instances(wanted)
             Left == {o \in live : Key(o) \notin disturbed[d]}
         IN /\ \A o \in wanted : Key(o) \in disturbed[d] \/ o \in live
            /\ Workloads(job[d]) # {} => secret
            /\ \A o \in Left, w \in Workloads(job[d]) :
                 o.kind \in WorkloadKinds /\ o.name = w.name => o = w
            /\ \A o \in Left :
                 o.kind = "ResourceClaimTemplate" /\ Mine(o) /\ Workloads(job[d]) # {} => o \in wanted
            /\ \A o \in Left :
                 o.component \in FrontendComponents /\ Mine(o) /\ RoutingObjects(job[d]) # {} => o \in wanted
<1> DEFINE j == job[d]
<1>1. j \in Jobs BY DEF TypeOK, ProcessOK
<1>2. Present(d) /\ (Workloads(j) # {} => secret)
  BY DEF Progress, Wanted, Cleared, Pruning, Applying, Present
<1>3. ASSUME NEW o \in live, Key(o) \notin disturbed[d], NEW w \in ObjectsOf(j), Key(o) = Key(w)
      PROVE  o = w
  BY <1>2, <1>3 DEF TypeOK, NamespaceOK, Present
<1>4. ASSUME NEW o \in live, Key(o) \notin disturbed[d], NEW w \in Workloads(j),
             o.kind \in WorkloadKinds, o.name = w.name
      PROVE  o = w
  <2>1. ~MustGo(o, w) BY <1>4 DEF Progress, Cleared, Applying
  <2>2. Key(o) = Key(w) BY <1>4, <2>1 DEF MustGo, Key
  <2> QED BY <1>3, <1>4, <2>2 DEF Workloads
<1>5. ASSUME NEW o \in live, Key(o) \notin disturbed[d], o.kind = "ResourceClaimTemplate",
             o.instance \in Instances(ObjectsOf(j)), Workloads(j) # {}
      PROVE  o \in ObjectsOf(j)
  <2>1. o.instance \in Instances(Workloads(j)) BY <1>1, <1>5, JobsAssumption DEF Instances, Workloads
  <2>2. ~ObsoleteTemplate(o, j) BY <1>5 DEF Progress, Pruned
  <2>3. PICK t \in ClaimTemplates(j) : Key(o) = Key(t) BY <1>5, <2>1, <2>2 DEF ObsoleteTemplate
  <2> QED BY <1>3, <1>5, <2>3 DEF ClaimTemplates
<1>6. ASSUME NEW o \in live, Key(o) \notin disturbed[d], o.component \in FrontendComponents,
             o.instance \in Instances(ObjectsOf(j)), RoutingObjects(j) # {}
      PROVE  o \in ObjectsOf(j)
  <2>1. ~ObsoleteFrontend(o, j) BY <1>6 DEF Progress, Pruned
  <2>2. o \in Manifested BY DEF TypeOK, NamespaceOK
  <2>4. o.instance \in Instances(RoutingObjects(j))
    BY <1>1, <1>6, JobsAssumption DEF Instances, RoutingObjects
  <2>3. PICK w \in ObjectsOf(j) : Key(o) = Key(w)
    BY <1>1, <1>6, <2>1, <2>2, <2>4 DEF FrontendsAreKnown, ObsoleteFrontend
  <2> QED BY <1>3, <1>6, <2>3
<1> HIDE DEF j
<1>7. \A o \in ObjectsOf(j) : Key(o) \in disturbed[d] \/ o \in live BY <1>2 DEF Present, j
<1> QED BY <1>2, <1>4, <1>5, <1>6, <1>7 DEF j

\* However earlier deployments were cut short, and whoever deploys beside it: a
\* success leaves what its manifest asks for, in all that no other process changed
\* meanwhile, if manifests name workloads and frontends as FrontendsAreKnown and
\* OneKindEach say.
THEOREM SuccessDoesConverge ==
  ASSUME OneKindEach, FrontendsAreKnown PROVE Spec => []SuccessConverges
<1>1. Init => TypeOK /\ Converging BY TypeInit, ConvergingInit
<1>2. TypeOK /\ Converging /\ [Next]_vars => (TypeOK /\ Converging)' BY TypeNext, ConvergingNext
<1>3. TypeOK /\ Converging => SuccessConverges
  BY SuccessIsWhole DEF Converging, SuccessConverges, FrontendComponents
<1> QED BY <1>1, <1>2, <1>3, PTL DEF Spec

-----------------------------------------------------------------------------
(* One kind per name.                                                      *)

Undisturbed == \A d \in Deployers : disturbed[d] = {}

LEMMA OneKindStep ==
  ASSUME KindsAreScoped, TypeOK, Undisturbed, Converging, OneKindPerName, NEW d \in Deployers, Step(d)
  PROVE  OneKindPerName'
<1>1. CASE ApplyObject(d)
  <2> DEFINE o == job[d].objects[applied[d] + 1]
  <2>1. live' = live \/ live' = Without({Key(o)}) \cup {o} BY <1>1 DEF ApplyObject
  <2>2. pc[d] = "Apply" /\ job[d] \in Jobs /\ applied[d] + 1 \in 1 .. Len(job[d].objects)
    BY <1>1, LenIsNat DEF ApplyObject, TypeOK, ProcessOK
  <2>3. o \in ObjectsOf(job[d]) /\ o \in Manifested BY <2>2, ObjectAt, ObjectsAreManifested
  <2>4. ASSUME NEW l \in Without({Key(o)}), l.kind \in WorkloadKinds, o.kind \in WorkloadKinds,
               l.name = o.name
        PROVE  FALSE
    <3>1. l \in live /\ Key(l) # Key(o) BY DEF Without
    <3>2. l.kind # o.kind BY <2>4, <3>1 DEF Key
    <3>3. l \in Manifested BY <3>1 DEF TypeOK, NamespaceOK
    <3>4. ModelWorkload(o) BY <2>3, <2>4, <3>2, <3>3 DEF KindsAreScoped
    <3>5. o \in Workloads(job[d]) BY <2>3, <3>4 DEF Workloads
    <3>6. MustGo(l, o) BY <2>4, <3>2 DEF MustGo
    <3> QED BY <2>2, <3>1, <3>5, <3>6 DEF Undisturbed, Converging, Progress, Cleared, Applying
  <2> QED BY <2>1, <2>4 DEF OneKindPerName, Without
<1>2. CASE ~ApplyObject(d)
  <2>1. live' \subseteq live
    BY <1>2 DEF Step, Start, Preflight, LookUp, SyncSecret, Recreate, StartApply, ApplyFails,
       ListTemplates, ListFrontend, Lists, DeleteObsolete, Delete, Without, DeleteFails, Succeeds, Killed, Fails
  <2> QED BY <2>1 DEF OneKindPerName
<1> QED BY <1>1, <1>2

\* One deployer is never disturbed.
LEMMA AloneNext ==
  ASSUME \A d, e \in Deployers : d = e, TypeOK, Undisturbed, [Next]_vars
  PROVE  Undisturbed'
<1>1. ASSUME NEW d \in Deployers, Step(d) PROVE Undisturbed'
  <2>1. CASE Start(d) BY <2>1 DEF Start, Undisturbed, TypeOK, ProcessOK
  <2>2. CASE ~Start(d) BY <1>1, <2>2, DisturbedNext DEF Undisturbed, TypeOK
  <2> QED BY <2>1, <2>2
<1>2. CASE UNCHANGED vars BY <1>2 DEF vars, Undisturbed
<1> QED BY <1>1, <1>2 DEF Next, Finished

\* One deployer, however often it fails, is killed and begins again with another
\* manifest, never has two kinds of one workload.
THEOREM OneKindAtATime ==
  ASSUME OneKindEach, FrontendsAreKnown, KindsAreScoped, \A d, e \in Deployers : d = e
  PROVE  Spec => []OneKindPerName
<1> DEFINE Inv == TypeOK /\ Undisturbed /\ Converging /\ OneKindPerName
<1>1. Init => Inv BY TypeInit, ConvergingInit DEF Init, Undisturbed, OneKindPerName
<1>2. Inv /\ [Next]_vars => Inv'
  <2> SUFFICES ASSUME Inv, [Next]_vars PROVE Inv'
    OBVIOUS
  <2>1. OneKindPerName'
    <3>1. CASE UNCHANGED vars BY <3>1 DEF vars, OneKindPerName
    <3> QED BY <3>1, OneKindStep DEF Next, Finished
  <2> QED BY <2>1, TypeNext, AloneNext, ConvergingNext
<1> QED BY <1>1, <1>2, PTL DEF Spec

-----------------------------------------------------------------------------
(* What is deleted, and when.                                              *)

\* What a process is about to delete was found for what it does next: a workload
\* in the way, a superseded template, an object of the other frontend; or another
\* process has changed it meanwhile.
Condemned(d) ==
  /\ pc[d] = "Preflight" => doomed[d] = {}
  /\ pc[d] = "Plan" => todo[d] \subseteq Workloads(job[d])
  /\ pc[d] \in {"Prune", "Cleanup"} => \A key \in doomed[d] : key[1] \notin WorkloadKinds
  /\ \A o \in live : Key(o) \in doomed[d] \ disturbed[d] =>
       /\ pc[d] \in {"Plan", "Recreate"} => \E w \in Workloads(job[d]) : MustGo(o, w)
       /\ pc[d] = "Prune" => ObsoleteTemplate(o, job[d])
       /\ pc[d] = "Cleanup" => ObsoleteFrontend(o, job[d])
AllCondemned == \A d \in Deployers : Condemned(d)

LEMMA CondemnedStops ==
  ASSUME NEW d \in Deployers, pc'[d] \in {"Idle", "Apply", "Ok", "Failed"} PROVE Condemned(d)'
BY DEF Condemned

LEMMA CondemnedFails ==
  ASSUME TypeOK, NEW d \in Deployers, Fails(d) PROVE Condemned(d)'
<1>1. pc'[d] = "Failed" BY DEF Fails, GoTo, TypeOK, ProcessOK
<1> QED BY <1>1, CondemnedStops

\* A deletion leaves less to delete, and less to find.
LEMMA CondemnedDelete ==
  ASSUME TypeOK, NEW d \in Deployers, Condemned(d), NEW key, NEW effective \in BOOLEAN,
         Delete(d, key, effective), pc' = pc, UNCHANGED <<job, todo>>,
         disturbed'[d] = disturbed[d]
  PROVE  Condemned(d)'
<1>1. doomed'[d] = doomed[d] \ {key} BY DEF Delete, TypeOK, ProcessOK
<1>2. live' \subseteq live BY DEF Delete, Without
<1> QED BY <1>1, <1>2 DEF Condemned

\* What a listing finds is what the next command deletes.
LEMMA ListedAre ==
  ASSUME TypeOK, NEW d \in Deployers, NEW label, NEW obsolete \in SUBSET live, Lists(d, label, obsolete)
  PROVE  /\ pc'[d] = label /\ UNCHANGED <<live, job, todo>> /\ doomed'[d] = {Key(o) : o \in obsolete}
         /\ \A o \in live : Key(o) \in doomed'[d] => o \in obsolete
<1>1. pc'[d] = label /\ doomed'[d] = {Key(o) : o \in obsolete} /\ UNCHANGED <<live, job, todo>>
  BY DEF Lists, GoTo, TypeOK, ProcessOK
<1>2. \A a, b \in live : Key(a) = Key(b) => a = b BY DEF TypeOK, NamespaceOK
<1> QED BY <1>1, <1>2

LEMMA CondemnedLookUp ==
  ASSUME TypeOK, NEW d \in Deployers, Condemned(d), LookUp(d), ~Fails(d),
         disturbed'[d] = disturbed[d]
  PROVE  Condemned(d)'
<1>1. PICK desired \in todo[d] :
        /\ todo' = [todo EXCEPT ![d] = @ \ {desired}]
        /\ doomed' = [doomed EXCEPT ![d] = @ \cup {Key(o) : o \in {l \in live : MustGo(l, desired)}}]
        /\ UNCHANGED <<live, pc, job>>
  BY Zenon DEF LookUp
<1>2. pc[d] = "Plan" BY DEF LookUp
<1>3. todo'[d] = todo[d] \ {desired} BY <1>1 DEF TypeOK, ProcessOK
<1>4. doomed'[d] = doomed[d] \cup {Key(o) : o \in {l \in live : MustGo(l, desired)}}
  BY <1>1 DEF TypeOK, ProcessOK
<1>5. desired \in Workloads(job[d]) BY <1>2 DEF Condemned
<1>6. \A a, b \in live : Key(a) = Key(b) => a = b BY DEF TypeOK, NamespaceOK
<1>7. ASSUME NEW o \in live, Key(o) \in doomed'[d] \ disturbed[d]
      PROVE  \E w \in Workloads(job[d]) : MustGo(o, w)
  <2>1. CASE Key(o) \in doomed[d] BY <2>1, <1>2, <1>7 DEF Condemned
  <2>2. CASE Key(o) \notin doomed[d]
    <3>1. PICK l \in live : MustGo(l, desired) /\ Key(o) = Key(l) BY <1>4, <1>7, <2>2
    <3>2. o = l BY <1>6, <3>1
    <3> QED BY <1>5, <3>1, <3>2
  <2> QED BY <2>1, <2>2
<1>8. pc'[d] = "Plan" /\ job'[d] = job[d] /\ live' = live BY <1>1, <1>2
<1> QED BY <1>2, <1>3, <1>7, <1>8 DEF Condemned

LEMMA CondemnedStep ==
  ASSUME TypeOK, NEW d \in Deployers, Condemned(d), Step(d)
  PROVE  Condemned(d)'
<1> USE DEF GoTo
<1>20. \A o : ObsoleteTemplate(o, job[d]) \/ ObsoleteFrontend(o, job[d]) => Key(o)[1] \notin WorkloadKinds
  BY DEF ObsoleteTemplate, ObsoleteFrontend, OfStandalone, OfGateway, FrontendKinds, WorkloadKinds, Key
<1>1. CASE Start(d)
  <2>1. doomed'[d] = {} /\ pc'[d] \in {"Apply", "Preflight"} BY <1>1 DEF Start, TypeOK, ProcessOK
  <2> QED BY <2>1 DEF Condemned
<1>0. ~Start(d) => disturbed'[d] = disturbed[d] BY DisturbedNext DEF TypeOK
<1>2. CASE Preflight(d)
  <2>1. CASE Fails(d) BY <2>1, CondemnedFails
  <2>2. CASE ~Fails(d)
    <3>1. pc[d] = "Preflight" /\ pc'[d] = "Plan" /\ todo'[d] = Workloads(job[d]) /\ UNCHANGED <<live, job, doomed, disturbed>>
      BY <1>2, <2>2 DEF Preflight, TypeOK, ProcessOK
    <3> QED BY <3>1 DEF Condemned
  <2> QED BY <2>1, <2>2
<1>3. CASE LookUp(d)
  <2>1. disturbed'[d] = disturbed[d] BY <1>3 DEF LookUp, Fails
  <2> QED BY <1>3, <2>1, CondemnedFails, CondemnedLookUp
<1>4. CASE SyncSecret(d)
  <2>1. pc[d] = "Plan" /\ pc'[d] \in {"Recreate", "Failed"} /\ UNCHANGED <<live, job, todo, doomed, disturbed>>
    BY <1>4 DEF SyncSecret, TypeOK, ProcessOK
  <2> QED BY <2>1 DEF Condemned
<1>5. CASE Recreate(d)
  <2>1. PICK key \in doomed[d], effective \in BOOLEAN :
          Delete(d, key, effective) /\ (UNCHANGED pc \/ pc' = [pc EXCEPT ![d] = "Failed"])
    BY <1>5 DEF Recreate
  <2>2. UNCHANGED <<job, todo>> BY <1>5 DEF Recreate
  <2>3. CASE pc'[d] = "Failed" BY <2>3, CondemnedStops
  <2>4. CASE UNCHANGED pc
    <3>1. disturbed'[d] = disturbed[d] BY <1>5, <1>0 DEF Recreate, Start, Halted
    <3> QED BY <2>1, <2>2, <2>4, <3>1, CondemnedDelete
  <2> QED BY <2>1, <2>3, <2>4 DEF TypeOK, ProcessOK
<1>6. CASE StartApply(d)
  <2>1. pc'[d] = "Apply" BY <1>6 DEF StartApply, Recreated, TypeOK, ProcessOK
  <2> QED BY <2>1, CondemnedStops
<1>7. CASE ApplyObject(d)
  <2>1. pc'[d] = "Apply" BY <1>7 DEF ApplyObject
  <2> QED BY <2>1, CondemnedStops
<1>8. CASE ListTemplates(d)
  <2>1. CASE Fails(d) BY <2>1, CondemnedFails
  <2>2. CASE ~Fails(d)
    <3>1. Lists(d, "Prune", {o \in live : ObsoleteTemplate(o, job[d])}) BY <1>8, <2>2 DEF ListTemplates
    <3>2. /\ pc'[d] = "Prune" /\ UNCHANGED <<live, job, todo>>
          /\ \A o \in live : Key(o) \in doomed'[d] => o \in {l \in live : ObsoleteTemplate(l, job[d])}
          /\ doomed'[d] = {Key(o) : o \in {l \in live : ObsoleteTemplate(l, job[d])}}
      BY <3>1, ListedAre
    <3>4. \A key \in doomed'[d] : key[1] \notin WorkloadKinds BY <1>20, <3>2
    <3>3. disturbed'[d] = disturbed[d] BY <3>1 DEF Lists
    <3> QED BY <3>2, <3>3, <3>4 DEF Condemned
  <2> QED BY <2>1, <2>2
<1>9. CASE ListFrontend(d)
  <2>1. CASE Fails(d) BY <2>1, CondemnedFails
  <2>2. CASE ~Fails(d)
    <3>1. Lists(d, "Cleanup", {o \in live : ObsoleteFrontend(o, job[d])}) BY <1>9, <2>2 DEF ListFrontend
    <3>2. /\ pc'[d] = "Cleanup" /\ UNCHANGED <<live, job, todo>>
          /\ \A o \in live : Key(o) \in doomed'[d] => o \in {l \in live : ObsoleteFrontend(l, job[d])}
          /\ doomed'[d] = {Key(o) : o \in {l \in live : ObsoleteFrontend(l, job[d])}}
      BY <3>1, ListedAre
    <3>4. \A key \in doomed'[d] : key[1] \notin WorkloadKinds BY <1>20, <3>2
    <3>3. disturbed'[d] = disturbed[d] BY <3>1 DEF Lists
    <3> QED BY <3>2, <3>3, <3>4 DEF Condemned
  <2> QED BY <2>1, <2>2
<1>10. CASE DeleteObsolete(d)
  <2>1. PICK key \in doomed[d], effective \in BOOLEAN : Delete(d, key, effective)
    BY <1>10 DEF DeleteObsolete
  <2>2. disturbed'[d] = disturbed[d] BY <1>10, <1>0 DEF DeleteObsolete, Start, Halted
  <2> QED BY <1>10, <2>1, <2>2, CondemnedDelete DEF DeleteObsolete
<1>11. CASE ApplyFails(d) \/ DeleteFails(d) \/ Killed(d)
  BY <1>11, CondemnedFails DEF ApplyFails, DeleteFails, Killed
<1>12. CASE Succeeds(d)
  <2>1. pc'[d] = "Ok" BY <1>12 DEF Succeeds, TypeOK, ProcessOK
  <2> QED BY <2>1, CondemnedStops
<1> QED BY <1>1, <1>2, <1>3, <1>4, <1>5, <1>6, <1>7, <1>8, <1>9, <1>10, <1>11, <1>12 DEF Step

LEMMA CondemnedInit == Init => AllCondemned
BY DEF Init, AllCondemned, Condemned

LEMMA CondemnedOthers ==
  ASSUME TypeOK, NEW d \in Deployers, Step(d), NEW e \in Deployers, e # d, Condemned(e)
  PROVE  Condemned(e)'
<1>1. UNCHANGED <<pc[e], job[e], todo[e], doomed[e]>> BY OthersNext DEF TypeOK
<1>2. CASE pc[e] \in {"Idle", "Failed"} BY <1>1, <1>2 DEF Condemned
<1>3. CASE pc[e] \notin {"Idle", "Failed"}
  <2>1. disturbed[e] \subseteq disturbed'[e] /\ \A o \in Changed : Key(o) \in disturbed'[e]
    BY <1>3, DisturbedNext DEF TypeOK
  <2>2. \A o \in live' : Key(o) \notin disturbed'[e] => o \in live BY <2>1 DEF Changed
  <2> QED BY <1>1, <2>1, <2>2 DEF Condemned
<1> QED BY <1>2, <1>3

LEMMA CondemnedNext ==
  ASSUME TypeOK, AllCondemned, [Next]_vars
  PROVE  AllCondemned'
<1>1. ASSUME NEW d \in Deployers, Step(d) PROVE AllCondemned'
  BY <1>1, CondemnedStep, CondemnedOthers DEF AllCondemned
<1>2. CASE UNCHANGED vars BY <1>2 DEF vars, process, AllCondemned, Condemned
<1> QED BY <1>1, <1>2 DEF Next, Finished

\* Only a command that deletes takes an object away: applying one puts one of
\* the same kind and name in its place.
LEMMA GoneWasDoomed ==
  ASSUME TypeOK, NEW d \in Deployers, Step(d), NEW o \in live, Gone(o)
  PROVE  Key(o) \in doomed[d] /\ pc[d] \in {"Recreate", "Prune", "Cleanup"}
<1>1. CASE Recreate(d) \/ DeleteObsolete(d)
  <2>1. PICK key \in doomed[d], effective \in BOOLEAN : Delete(d, key, effective)
    BY <1>1 DEF Recreate, DeleteObsolete
  <2>2. live' = live \/ live' = {l \in live : Key(l) # key} BY <2>1 DEF Delete, Without
  <2>3. Key(o) = key BY <2>2 DEF Gone
  <2> QED BY <1>1, <2>3 DEF Recreate, DeleteObsolete
<1>2. CASE ApplyObject(d)
  <2> DEFINE w == job[d].objects[applied[d] + 1]
  <2>1. live' = live \/ live' = Without({Key(w)}) \cup {w} BY <1>2 DEF ApplyObject
  <2> QED BY <2>1 DEF Gone, Without
<1>3. CASE live' = live BY <1>3 DEF Gone
<1>4. Recreate(d) \/ DeleteObsolete(d) \/ ApplyObject(d) \/ live' = live
  BY DEF Step, Start, Preflight, LookUp, SyncSecret, StartApply, ApplyFails,
     ListTemplates, ListFrontend, Lists, DeleteFails, Succeeds, Killed, Fails
<1> QED BY <1>1, <1>2, <1>3, <1>4

\* A workload that goes away had to go, or another process has changed it.
LEMMA DeletionIsDue ==
  ASSUME TypeOK, AllCondemned, NEW d \in Deployers, Step(d), NEW l \in live, ModelWorkload(l), Gone(l)
  PROVE  /\ pc[d] = "Recreate"
         /\ Key(l) \in disturbed[d] \/ \E w \in Workloads(job[d]) : MustGo(l, w)
<1>1. Key(l) \in doomed[d] /\ pc[d] \in {"Recreate", "Prune", "Cleanup"} BY GoneWasDoomed
<1>2. Condemned(d) /\ job[d] \in Jobs BY <1>1 DEF AllCondemned, TypeOK, ProcessOK
<1>3. ~ObsoleteTemplate(l, job[d]) /\ ~ObsoleteFrontend(l, job[d])
  BY DEF ModelWorkload, WorkloadKinds, ObsoleteTemplate, ObsoleteFrontend, OfStandalone, OfGateway, FrontendKinds
<1>4. Key(l)[1] \in WorkloadKinds BY DEF ModelWorkload, Key
<1> QED BY <1>1, <1>2, <1>3, <1>4 DEF Condemned

\* A workload is applied only when what has to go first is gone, or another
\* process has put it there.
LEMMA ApplicationIsDue ==
  ASSUME TypeOK, Converging, NEW d \in Deployers, Step(d), NEW o \in live' \ live,
         ModelWorkload(o), NEW l \in live, MustGo(l, o)
  PROVE  pc[d] = "Apply" /\ o \in ObjectsOf(job[d]) /\ Key(l) \in disturbed[d]
<1>1. CASE ApplyObject(d)
  <2> DEFINE w == job[d].objects[applied[d] + 1]
  <2>1. live' = live \/ live' = Without({Key(w)}) \cup {w} BY <1>1 DEF ApplyObject
  <2>2. o = w BY <2>1 DEF Without
  <2>3. pc[d] = "Apply" /\ job[d] \in Jobs /\ applied[d] + 1 \in 1 .. Len(job[d].objects)
    BY <1>1, LenIsNat DEF ApplyObject, TypeOK, ProcessOK
  <2>4. o \in ObjectsOf(job[d]) BY <2>2, <2>3, ObjectAt
  <2>5. o \in Workloads(job[d]) BY <2>4 DEF Workloads
  <2> QED BY <2>3, <2>4, <2>5 DEF Converging, Progress, Cleared, Applying
<1>2. CASE ~ApplyObject(d)
  <2>1. live' \subseteq live
    BY <1>2 DEF Step, Start, Preflight, LookUp, SyncSecret, Recreate, StartApply, ApplyFails,
       ListTemplates, ListFrontend, Lists, DeleteObsolete, Delete, Without, DeleteFails, Succeeds, Killed, Fails
  <2> QED BY <2>1
<1> QED BY <1>1, <1>2

\* However many processes deploy at a time, whatever fails and with stale plans:
\* no workload is applied beside or over one that has to go first, and none is
\* deleted that does not have to go, but where another process has changed that
\* very object meanwhile (workflow.py, plan_workload_transitions).
THEOREM OnlyRacesDoHarm ==
  ASSUME OneKindEach, FrontendsAreKnown PROVE Spec => OnlyRacesHarm
<1> DEFINE Inv == TypeOK /\ Converging /\ AllCondemned
           Applied ==
             \A o \in live' \ live, l \in live :
               ModelWorkload(o) /\ MustGo(l, o) =>
                 \E d \in Deployers : pc[d] = "Apply" /\ o \in ObjectsOf(job[d]) /\ Key(l) \in disturbed[d]
           Deleted ==
             \A l \in live :
               ModelWorkload(l) /\ Gone(l) =>
                 \E d \in Deployers :
                   /\ pc[d] = "Recreate"
                   /\ Key(l) \in disturbed[d] \/ \E w \in Workloads(job[d]) : MustGo(l, w)
<1>1. Init => Inv BY TypeInit, ConvergingInit, CondemnedInit
<1>2. Inv /\ [Next]_vars => Inv' BY TypeNext, ConvergingNext, CondemnedNext
<1>3. Inv /\ [Next]_vars => [Applied /\ Deleted]_vars
  <2> SUFFICES ASSUME Inv, NEW d \in Deployers, Step(d) PROVE Applied /\ Deleted
    BY DEF Next, Finished
  <2>1. Applied BY ApplicationIsDue
  <2>2. Deleted BY DeletionIsDue
  <2> QED BY <2>1, <2>2
<1> QED BY <1>1, <1>2, <1>3, PTL DEF Spec, OnlyRacesHarm

Deleting == TypeOK /\ Undisturbed /\ Converging /\ AllCondemned

LEMMA DeletingInit == Init => Deleting
BY TypeInit, ConvergingInit, CondemnedInit DEF Init, Undisturbed, Deleting

LEMMA DeletingNext ==
  ASSUME OneKindEach, FrontendsAreKnown, \A d, e \in Deployers : d = e, Deleting, [Next]_vars
  PROVE  Deleting'
BY TypeNext, AloneNext, ConvergingNext, CondemnedNext DEF Deleting

\* A routing object that goes away is one of the previous frontend.
LEMMA OnlyCleanupTakesRouting ==
  ASSUME RoutingIsNoWorkload, Deleting, NEW d \in Deployers, Step(d),
         NEW o \in live, o.component \in RoutingComponents, Gone(o)
  PROVE  /\ pc[d] = "Cleanup" /\ o.instance \in Instances(RoutingObjects(job[d]))
         /\ ObjectsOf(job[d]) \subseteq live \ {o}
<1>0. disturbed[d] = {} BY DEF Deleting, Undisturbed
<1>1. Key(o) \in doomed[d] /\ pc[d] \in {"Recreate", "Prune", "Cleanup"}
  BY GoneWasDoomed DEF Deleting
<1>2. o \in Manifested /\ Condemned(d) /\ Progress(d) /\ job[d] \in Jobs
  BY <1>1 DEF Deleting, TypeOK, NamespaceOK, ProcessOK, AllCondemned, Converging, Undisturbed
<1>3. pc[d] # "Recreate"
  <2> SUFFICES ASSUME NEW w \in Workloads(job[d]), MustGo(o, w) PROVE FALSE
    BY <1>0, <1>1, <1>2 DEF Condemned
  <2>1. w \in Manifested /\ ModelWorkload(w) BY <1>2, ObjectsAreManifested DEF Workloads
  <2> QED BY <1>2, <2>1 DEF RoutingIsNoWorkload, MustGo
<1>4. pc[d] # "Prune" BY <1>0, <1>1, <1>2 DEF Condemned, ObsoleteTemplate, RoutingIsNoWorkload
<1>5. ObsoleteFrontend(o, job[d]) BY <1>0, <1>1, <1>2, <1>3, <1>4 DEF Condemned
<1>6. \A w \in ObjectsOf(job[d]) : w \in live /\ Key(w) \notin doomed[d]
  BY <1>0, <1>1, <1>2, <1>3, <1>4 DEF Progress, Wanted, Pruning
<1> QED BY <1>1, <1>3, <1>4, <1>5, <1>6 DEF ObsoleteFrontend

\* One deployer, whatever it is asked for and wherever it fails or is killed,
\* deletes routing objects of an instance only when it cleans up after a
\* manifest with another frontend, all of which is live (workflow.py,
\* cleanup_obsolete_routing).
THEOREM FrontendsAreReplacedFirst ==
  ASSUME OneKindEach, FrontendsAreKnown, RoutingIsNoWorkload, \A d, e \in Deployers : d = e
  PROVE  Spec => FrontendReplacedFirst
<1> DEFINE Replaced ==
      \A o \in live : o.component \in RoutingComponents /\ Gone(o) =>
        \E d \in Deployers :
          /\ pc[d] = "Cleanup" /\ o.instance \in Instances(RoutingObjects(job[d]))
          /\ ObjectsOf(job[d]) \subseteq live \ {o}
<1>1. Init => Deleting BY DeletingInit
<1>2. Deleting /\ [Next]_vars => Deleting' BY DeletingNext
<1>3. Deleting /\ [Next]_vars => [Replaced]_vars
  BY OnlyCleanupTakesRouting DEF Next, Finished
<1> QED BY <1>1, <1>2, <1>3, PTL DEF Spec, FrontendReplacedFirst

\* The workloads of a manifest are the only ones of its instance by then.
LEMMA UsersAreWanted ==
  ASSUME RolesAreKept, TypeOK, NEW d \in Deployers, Progress(d), disturbed[d] = {}, pc[d] = "Prune",
         NEW w \in live, ModelWorkload(w), w.instance \in Instances(Workloads(job[d]))
  PROVE  w \in ObjectsOf(job[d])
<1>1. w \in Manifested /\ job[d] \in Jobs BY DEF TypeOK, NamespaceOK, ProcessOK
<1>2. PICK v \in Workloads(job[d]) : v.name = w.name BY <1>1 DEF RolesAreKept
<1>3. ~MustGo(w, v) BY DEF Progress, Cleared, Applying
<1>4. Key(w) = Key(v) BY <1>2, <1>3 DEF MustGo, ModelWorkload, Key
<1>5. v \in ObjectsOf(job[d]) /\ v \in live BY DEF Workloads, Progress, Wanted, Pruning
<1> QED BY <1>4, <1>5 DEF TypeOK, NamespaceOK

LEMMA TemplateIsUnused ==
  ASSUME RolesAreKept, ClaimsAreLocal, Deleting, NEW d \in Deployers, Step(d),
         NEW o \in live, o.kind = "ResourceClaimTemplate", Gone(o), NEW w \in live, w.spec = o.name
  PROVE  FALSE
<1>0. disturbed[d] = {} BY DEF Deleting, Undisturbed
<1>1. Key(o) \in doomed[d] /\ pc[d] \in {"Recreate", "Prune", "Cleanup"}
  BY GoneWasDoomed DEF Deleting
<1>2. o \in Manifested /\ w \in Manifested /\ Condemned(d) /\ Progress(d) /\ TypeOK
  BY DEF Deleting, TypeOK, NamespaceOK, AllCondemned, Converging, Undisturbed
<1>3. pc[d] # "Recreate" BY <1>0, <1>1, <1>2 DEF Condemned, MustGo, WorkloadKinds
<1>4. pc[d] # "Cleanup"
  BY <1>0, <1>1, <1>2 DEF Condemned, ObsoleteFrontend, OfStandalone, OfGateway, FrontendKinds
<1>5. ObsoleteTemplate(o, job[d]) /\ pc[d] = "Prune" BY <1>0, <1>1, <1>2, <1>3, <1>4 DEF Condemned
<1>6. ModelWorkload(w) /\ w.instance = o.instance BY <1>2 DEF ClaimsAreLocal
<1>7. w \in ObjectsOf(job[d]) BY <1>0, <1>2, <1>5, <1>6, UsersAreWanted DEF ObsoleteTemplate
<1>8. job[d] \in Jobs BY <1>2, <1>5 DEF TypeOK, ProcessOK
<1> QED BY <1>2, <1>5, <1>7, <1>8 DEF ClaimsAreLocal, ObsoleteTemplate

\* As long as an instance keeps the names of its roles, one deployer never
\* deletes a claim template from which a live workload makes the claims of its
\* pods, whatever failed before.  (DeployRenamed.cfg is what a new name does;
\* workflow.py, cleanup_obsolete_accelerator_claim_templates.)
THEOREM UsedTemplatesStay ==
  ASSUME OneKindEach, FrontendsAreKnown, ClaimsAreLocal, RolesAreKept, \A d, e \in Deployers : d = e
  PROVE  Spec => TemplatesInUseAreKept
<1> DEFINE Kept ==
      \A o \in live : o.kind = "ResourceClaimTemplate" /\ Gone(o) => \A w \in live : w.spec # o.name
<1>1. Init => Deleting BY DeletingInit
<1>2. Deleting /\ [Next]_vars => Deleting' BY DeletingNext
<1>3. Deleting /\ [Next]_vars => [Kept]_vars
  BY TemplateIsUnused DEF Next, Finished
<1> QED BY <1>1, <1>2, <1>3, PTL DEF Spec, TemplatesInUseAreKept

-----------------------------------------------------------------------------
(* What the theorems ask of manifests, render_kubernetes gives.            *)

E == INSTANCE Emit

LEMMA NatSet ==
  ASSUME NEW S, 0 \in S, \A k \in Nat : k \in S => k + 1 \in S
  PROVE  Nat \subseteq S
<1> SUFFICES ASSUME Nat \ S # {} PROVE FALSE
  OBVIOUS
<1> DEFINE R == OpToRel(<, Nat)
<1>1. \A x, y \in Nat : y < x => <<y, x>> \in R BY DEF OpToRel
<1>2. IsWellFoundedOn(R, Nat) BY NatLessThanWellFounded
<1> HIDE DEF R
<1>3. PICK x \in Nat \ S : \A y \in Nat \ S : ~(<<y, x>> \in R) BY <1>2, WFMin
<1>4. x # 0 /\ x - 1 \in Nat /\ x - 1 < x BY <1>3
<1>5. x - 1 \in S BY <1>1, <1>3, <1>4
<1> QED BY <1>3, <1>4, <1>5

LEMMA ConcatAt ==
  ASSUME NEW S, NEW s \in Seq(S), NEW t \in Seq(S)
  PROVE  /\ s \o t \in Seq(S) /\ Len(s \o t) = Len(s) + Len(t) /\ Len(s) \in Nat /\ Len(t) \in Nat
         /\ \A i \in 1 .. Len(s) : i \in 1 .. Len(s) + Len(t) /\ (s \o t)[i] = s[i]
         /\ \A i \in 1 .. Len(t) : Len(s) + i \in 1 .. Len(s) + Len(t) /\ (s \o t)[Len(s) + i] = t[i]
<1>1. s \o t \in Seq(S) /\ Len(s \o t) = Len(s) + Len(t) /\ Len(s) \in Nat /\ Len(t) \in Nat OBVIOUS
<1>2. \A i \in 1 .. Len(s) : i \in 1 .. Len(s) + Len(t) /\ (s \o t)[i] = s[i] BY <1>1
<1>3. \A i \in 1 .. Len(t) : Len(s) + i \in 1 .. Len(s) + Len(t) /\ (s \o t)[Len(s) + i] = t[i] BY <1>1
<1> QED BY <1>1, <1>2, <1>3

LEMMA ConcatIs ==
  ASSUME NEW S, NEW s \in Seq(S), NEW t \in Seq(S)
  PROVE  s \o t \in Seq(S) /\ E!Range(s \o t) = E!Range(s) \cup E!Range(t)
<1>1. s \o t \in Seq(S) /\ Len(s \o t) = Len(s) + Len(t) /\ Len(s) \in Nat /\ Len(t) \in Nat OBVIOUS
<1>2. DOMAIN s = 1 .. Len(s) /\ DOMAIN t = 1 .. Len(t) /\ DOMAIN (s \o t) = 1 .. Len(s) + Len(t) BY <1>1
<1>3. \A i \in 1 .. Len(s) : i \in 1 .. Len(s) + Len(t) /\ (s \o t)[i] = s[i] BY ConcatAt
<1>4. \A i \in 1 .. Len(t) : Len(s) + i \in 1 .. Len(s) + Len(t) /\ (s \o t)[Len(s) + i] = t[i] BY ConcatAt
<1>5. \A i \in 1 .. Len(s) + Len(t) : i \in 1 .. Len(s) \/ (i - Len(s) \in 1 .. Len(t) /\ Len(s) + (i - Len(s)) = i) BY <1>1
<1>6. ASSUME NEW x PROVE x \in E!Range(s \o t) <=> x \in E!Range(s) \/ x \in E!Range(t)
  <2>1. x \in E!Range(s \o t) <=> \E i \in 1 .. Len(s) + Len(t) : x = (s \o t)[i] BY <1>2 DEF E!Range
  <2>2. x \in E!Range(s) <=> \E i \in 1 .. Len(s) : x = s[i] BY <1>2 DEF E!Range
  <2>3. x \in E!Range(t) <=> \E i \in 1 .. Len(t) : x = t[i] BY <1>2 DEF E!Range
  <2>4. ASSUME NEW i \in 1 .. Len(s) + Len(t), x = (s \o t)[i] PROVE x \in E!Range(s) \/ x \in E!Range(t)
    <3>1. CASE i \in 1 .. Len(s) BY <1>3, <2>2, <2>4, <3>1
    <3>2. CASE i - Len(s) \in 1 .. Len(t) /\ Len(s) + (i - Len(s)) = i
      <4>1. (s \o t)[i] = t[i - Len(s)] BY <1>4, <3>2
      <4> QED BY <2>3, <2>4, <3>2, <4>1
    <3> QED BY <1>5, <3>1, <3>2
  <2>5. x \in E!Range(s) => x \in E!Range(s \o t) BY <1>3, <2>1, <2>2
  <2>6. x \in E!Range(t) => x \in E!Range(s \o t) BY <1>4, <2>1, <2>3
  <2> QED BY <2>1, <2>4, <2>5, <2>6
<1> QED BY <1>1, <1>6

\* The function that FlattenSeq is made of exists.
LEMMA FlattenExists ==
  ASSUME NEW seqs, NEW n \in Nat
  PROVE  \E f : f = [i \in 1 .. n |-> IF i = 1 THEN seqs[i] ELSE f[i - 1] \o seqs[i]]
<1> DEFINE Upto(m) == \E f : f = [i \in 1 .. m |-> IF i = 1 THEN seqs[i] ELSE f[i - 1] \o seqs[i]]
           S == {m \in Nat : Upto(m)}
<1>1. 0 \in S
  <2>1. [i \in 1 .. 0 |-> 0] = [i \in 1 .. 0 |-> IF i = 1 THEN seqs[i] ELSE [j \in 1 .. 0 |-> 0][i - 1] \o seqs[i]]
    OBVIOUS
  <2> QED BY <2>1
<1>2. ASSUME NEW m \in Nat, m \in S PROVE m + 1 \in S
  <2>1. PICK f : f = [i \in 1 .. m |-> IF i = 1 THEN seqs[i] ELSE f[i - 1] \o seqs[i]] BY <1>2
  <2> DEFINE last == IF m + 1 = 1 THEN seqs[m + 1] ELSE f[m] \o seqs[m + 1]
             h == [i \in 1 .. m + 1 |-> IF i <= m THEN f[i] ELSE last]
  <2>2. \A i \in 1 .. m : h[i] = f[i] OBVIOUS
  <2>3. ASSUME NEW i \in 1 .. m + 1
        PROVE  h[i] = IF i = 1 THEN seqs[i] ELSE h[i - 1] \o seqs[i]
    <3>1. CASE i <= m
      <4>1. i \in 1 .. m /\ (i # 1 => i - 1 \in 1 .. m) BY <3>1
      <4>2. f[i] = IF i = 1 THEN seqs[i] ELSE f[i - 1] \o seqs[i] BY <2>1, <4>1
      <4> HIDE DEF h
      <4> QED BY <2>2, <4>1, <4>2
    <3>2. CASE i = m + 1
      <4>1. h[i] = last /\ i - 1 = m /\ (i # 1 => m \in 1 .. m) BY <3>2
      <4> HIDE DEF h
      <4> QED BY <2>2, <3>2, <4>1
    <3> QED BY <3>1, <3>2
  <2> HIDE DEF h
  <2>4. DOMAIN h = 1 .. m + 1 /\ h = [i \in DOMAIN h |-> h[i]] BY DEF h
  <2>5. h = [i \in 1 .. m + 1 |-> IF i = 1 THEN seqs[i] ELSE h[i - 1] \o seqs[i]] BY <2>3, <2>4
  <2>6. Upto(m + 1) BY <2>5
  <2>7. m + 1 \in Nat OBVIOUS
  <2> QED BY <2>6, <2>7
<1>3. Nat \subseteq S
  <2> HIDE DEF S
  <2> QED BY <1>1, <1>2, NatSet
<1> QED BY <1>3

LEMMA FlattenIs ==
  ASSUME NEW S, NEW seqs \in Seq(Seq(S))
  PROVE  /\ E!FlattenSeq(seqs) \in Seq(S)
         /\ E!Range(E!FlattenSeq(seqs)) = UNION {E!Range(seqs[i]) : i \in DOMAIN seqs}
<1> DEFINE n == Len(seqs)
           f == CHOOSE g : g = [i \in 1 .. n |-> IF i = 1 THEN seqs[i] ELSE g[i - 1] \o seqs[i]]
           Flat(k) == f[k] \in Seq(S) /\ E!Range(f[k]) = UNION {E!Range(seqs[i]) : i \in 1 .. k}
           T == {k \in Nat : k \in 1 .. n => Flat(k)}
<1>1. n \in Nat /\ DOMAIN seqs = 1 .. n /\ \A i \in 1 .. n : seqs[i] \in Seq(S) OBVIOUS
<1>2. f = [i \in 1 .. n |-> IF i = 1 THEN seqs[i] ELSE f[i - 1] \o seqs[i]]
  BY <1>1, FlattenExists, Zenon
<1>3. E!FlattenSeq(seqs) = IF n = 0 THEN seqs ELSE f[n] BY Zenon DEF E!FlattenSeq
<1> HIDE DEF f
<1>4. 0 \in T OBVIOUS
<1>5. ASSUME NEW k \in Nat, k \in T PROVE k + 1 \in T
  <2> SUFFICES ASSUME k + 1 \in 1 .. n PROVE Flat(k + 1)
    OBVIOUS
  <2>1. CASE k = 0
    <3>1. f[1] = seqs[1] /\ 1 \in 1 .. n BY <1>2, <2>1
    <3>2. \A i \in 1 .. 1 : i = 1 OBVIOUS
    <3> QED BY <1>1, <2>1, <3>1, <3>2
  <2>2. CASE k # 0
    <3>1. k \in 1 .. n /\ k + 1 # 1 /\ (k + 1) - 1 = k BY <1>1, <2>2
    <3>2. f[k + 1] = f[k] \o seqs[k + 1] BY <1>2, <3>1
    <3>3. Flat(k) /\ seqs[k + 1] \in Seq(S) BY <1>1, <1>5, <3>1
    <3>4. f[k + 1] \in Seq(S) /\ E!Range(f[k + 1]) = E!Range(f[k]) \cup E!Range(seqs[k + 1])
      BY <3>2, <3>3, ConcatIs
    <3>5. \A i : i \in 1 .. k + 1 <=> i \in 1 .. k \/ i = k + 1 BY <3>1
    <3> QED BY <3>3, <3>4, <3>5
  <2> QED BY <2>1, <2>2
<1>6. Nat \subseteq T
  <2> HIDE DEF T
  <2> QED BY <1>4, <1>5, NatSet
<1>7. CASE n = 0
  <2>1. E!FlattenSeq(seqs) = seqs /\ DOMAIN seqs = {} BY <1>1, <1>3, <1>7
  <2>2. seqs = <<>> BY <1>7
  <2> QED BY <2>1, <2>2 DEF E!Range
<1>8. CASE n # 0
  <2>1. n \in 1 .. n BY <1>1, <1>8
  <2>2. n \in T
    <3> HIDE DEF T
    <3> QED BY <1>1, <1>6
  <2>3. Flat(n) BY <2>1, <2>2
  <2> QED BY <1>1, <1>3, <1>8, <2>3
<1> QED BY <1>7, <1>8

Part(s, kind, name, component, content) ==
  [kind |-> kind, name |-> E!Named(s.instance, name), instance |-> s.instance, component |-> component,
   queue |-> None, spec |-> content]
Pool(s) == Part(s, "InferencePool", <<"infpool">>, "routing", None)
Picker(s) == Part(s, "Deployment", E!Picker, "epp", <<s.frontend>>)
Envoy(s) == Part(s, "ConfigMap", <<"envoy", "config">>, "envoy", None)
Options(s) == Part(s, "ConfigMap", <<"gateway", "options">>, "gateway", None)
Standalone(s) == {Envoy(s), Pool(s), Picker(s)}
Gateway(s) ==
  {Pool(s), Picker(s), Options(s), Part(s, "Gateway", <<"gateway">>, "gateway", None),
   Part(s, "HTTPRoute", <<"route">>, "route", None),
   Part(s, "DestinationRule", <<"infpool", "backend">>, "routing", None)}
RoutingOf(s) ==
  IF s.frontend = "gateway" THEN Gateway(s) ELSE IF s.frontend = "standalone" THEN Standalone(s) ELSE {}
Controller(s) == Part(s, "Deployment", E!Controller, "idle-shutdown", None)
OfRole(s, r) == E!Range(E!ClaimTemplate(s, r)) \cup {E!Workload(s, r)}

LEMMA RoutingIs ==
  ASSUME NEW s, E!Renderable(s), NEW S, RoutingOf(s) \subseteq S
  PROVE  E!Routing(s) \in Seq(S) /\ E!Range(E!Routing(s)) = RoutingOf(s)
<1> DEFINE pool == Pool(s)
           picker == Picker(s)
           envoy == Envoy(s)
           options == Options(s)
           gateway == Part(s, "Gateway", <<"gateway">>, "gateway", None)
           route == Part(s, "HTTPRoute", <<"route">>, "route", None)
           rule == Part(s, "DestinationRule", <<"infpool", "backend">>, "routing", None)
<1>1. CASE s.frontend = "disabled"
  <2>1. E!Routing(s) = <<>> BY <1>1 DEF E!Routing
  <2> QED BY <1>1, <2>1 DEF E!Range, RoutingOf
<1>2. CASE s.frontend = "standalone"
  <2>1. E!Routing(s) = <<envoy, pool, picker>> BY <1>2 DEF E!Routing, E!Object, Part, Pool, Picker, Envoy, Options
  <2>2. RoutingOf(s) = {envoy, pool, picker} BY <1>2 DEF RoutingOf, Standalone
  <2> HIDE DEF envoy, pool, picker
  <2> QED BY <2>1, <2>2 DEF E!Range
<1>3. CASE s.frontend = "gateway"
  <2>1. E!Routing(s) = <<pool, picker, options, gateway, route, rule>>
    BY <1>3 DEF E!Routing, E!Object, Part, Pool, Picker, Envoy, Options
  <2>2. RoutingOf(s) = {pool, picker, options, gateway, route, rule} BY <1>3 DEF RoutingOf, Gateway
  <2> HIDE DEF pool, picker, options, gateway, route, rule
  <2>3. E!Routing(s) \in Seq(S) BY <2>1, <2>2
  <2>4. E!Range(E!Routing(s)) = RoutingOf(s) BY <2>1, <2>2 DEF E!Range
  <2> QED BY <2>3, <2>4
<1> QED BY <1>1, <1>2, <1>3 DEF E!Renderable

LEMMA RoleIs ==
  ASSUME NEW s, NEW r, NEW S, OfRole(s, r) \subseteq S
  PROVE  /\ Append(E!ClaimTemplate(s, r), E!Workload(s, r)) \in Seq(S)
         /\ E!Range(Append(E!ClaimTemplate(s, r), E!Workload(s, r))) = OfRole(s, r)
<1> DEFINE w == E!Workload(s, r)
           c == E!Object("ResourceClaimTemplate", E!TemplateName(s, r), s.instance, "accelerator-claim-template", None)
<1>1. E!ClaimTemplate(s, r) = IF r.claim = None THEN <<>> ELSE <<c>> BY DEF E!ClaimTemplate
<1>2. OfRole(s, r) = E!Range(E!ClaimTemplate(s, r)) \cup {w} BY DEF OfRole
<1> HIDE DEF w, c
<1> SUFFICES /\ Append(E!ClaimTemplate(s, r), w) \in Seq(S)
             /\ E!Range(Append(E!ClaimTemplate(s, r), w)) = OfRole(s, r)
  BY DEF w
<1>3. CASE r.claim = None
  <2>1. E!ClaimTemplate(s, r) = <<>> BY <1>1, <1>3
  <2>2. Append(E!ClaimTemplate(s, r), w) = <<w>> BY <2>1
  <2>3. OfRole(s, r) = {w} BY <1>2, <2>1 DEF E!Range
  <2> QED BY <2>2, <2>3 DEF E!Range
<1>4. CASE r.claim # None
  <2>1. E!ClaimTemplate(s, r) = <<c>> BY <1>1, <1>4
  <2>2. OfRole(s, r) = {c, w} BY <1>2, <2>1 DEF E!Range
  <2>3. c \in S /\ w \in S BY <2>2
  <2>4. <<c>> \in Seq(S) /\ Len(<<c>>) = 1 /\ <<c>>[1] = c BY <2>3
  <2>5. Append(<<c>>, w) \in Seq(S) /\ Len(Append(<<c>>, w)) = 2 BY <2>3, <2>4
  <2>6. Append(<<c>>, w)[1] = c /\ Append(<<c>>, w)[2] = w BY <2>3, <2>4
  <2>7. DOMAIN Append(<<c>>, w) = {1, 2} BY <2>5
  <2>8. E!Range(Append(<<c>>, w)) = {c, w} BY <2>6, <2>7 DEF E!Range
  <2> QED BY <2>1, <2>2, <2>5, <2>8
<1> QED BY <1>3, <1>4

\* The objects of a manifest, without their order.
LEMMA ManifestIs ==
  ASSUME NEW s, E!Renderable(s), NEW only \in BOOLEAN
  PROVE  ObjectsOf(E!Job(s, only)) =
           (IF only THEN {} ELSE UNION {OfRole(s, r) : r \in E!Range(s.roles)})
             \cup (IF s.idle /\ s.roles # <<>> THEN {Controller(s)} ELSE {}) \cup RoutingOf(s)
<1> DEFINE Models == UNION {OfRole(s, r) : r \in E!Range(s.roles)}
           S == Models \cup {Controller(s)} \cup RoutingOf(s)
           Of(r) == Append(E!ClaimTemplate(s, r), E!Workload(s, r))
           seqs == [i \in DOMAIN s.roles |-> Of(s.roles[i])]
           flat == E!FlattenSeq(seqs)
           model == IF only THEN <<>> ELSE flat
           idle == E!IdleShutdown(s)
           routing == E!Routing(s)
<1>1. E!Job(s, only).objects = (model \o idle) \o routing BY DEF E!Job, E!Manifest
<1>2. \A r \in E!Range(s.roles) : OfRole(s, r) \subseteq Models OBVIOUS
<1>3. Models \subseteq S /\ Controller(s) \in S /\ RoutingOf(s) \subseteq S OBVIOUS
<1> HIDE DEF S
<1>4. ASSUME NEW r \in E!Range(s.roles) PROVE Of(r) \in Seq(S) /\ E!Range(Of(r)) = OfRole(s, r)
  <2>1. OfRole(s, r) \subseteq S BY <1>2, <1>3
  <2> QED BY <2>1, RoleIs
<1>5. s.roles \in Seq(E!Range(s.roles)) /\ Len(s.roles) \in Nat /\ DOMAIN s.roles = 1 .. Len(s.roles)
  BY DEF E!Renderable
<1>6. \A i \in DOMAIN s.roles : s.roles[i] \in E!Range(s.roles) BY DEF E!Range
<1> HIDE DEF Of
<1>7. seqs \in Seq(Seq(S)) /\ DOMAIN seqs = DOMAIN s.roles BY <1>4, <1>5, <1>6
<1>8. flat \in Seq(S) /\ E!Range(flat) = Models
  <2>1. flat \in Seq(S) /\ E!Range(flat) = UNION {E!Range(seqs[i]) : i \in DOMAIN seqs}
    BY <1>7, FlattenIs
  <2>2. \A i \in DOMAIN s.roles : E!Range(seqs[i]) = OfRole(s, s.roles[i]) BY <1>4, <1>6
  <2> HIDE DEF seqs
  <2>3. UNION {E!Range(seqs[i]) : i \in DOMAIN seqs} \subseteq Models
    <3> SUFFICES ASSUME NEW i \in DOMAIN seqs PROVE E!Range(seqs[i]) \subseteq Models OBVIOUS
    <3> QED BY <1>2, <1>6, <1>7, <2>2
  <2>4. Models \subseteq UNION {E!Range(seqs[i]) : i \in DOMAIN seqs}
    <3> SUFFICES ASSUME NEW r \in E!Range(s.roles)
                 PROVE  OfRole(s, r) \subseteq UNION {E!Range(seqs[i]) : i \in DOMAIN seqs}
      OBVIOUS
    <3>1. PICK i \in DOMAIN s.roles : s.roles[i] = r BY DEF E!Range
    <3> QED BY <1>7, <2>2, <3>1
  <2> QED BY <2>1, <2>3, <2>4
<1>9. idle \in Seq(S) /\ E!Range(idle) = IF s.idle /\ s.roles # <<>> THEN {Controller(s)} ELSE {}
  <2>1. idle = IF s.idle /\ s.roles # <<>> THEN <<Controller(s)>> ELSE <<>>
    BY DEF E!IdleShutdown, E!Object, Part, Controller
  <2> QED BY <1>3, <2>1 DEF E!Range
<1>10. routing \in Seq(S) /\ E!Range(routing) = RoutingOf(s) BY <1>3, RoutingIs
<1> HIDE DEF flat, idle, routing, Models
<1>11. model \in Seq(S) /\ E!Range(model) = IF only THEN {} ELSE Models
  <2>1. CASE only BY <2>1 DEF E!Range
  <2>2. CASE ~only BY <1>8, <2>2
  <2> QED BY <2>1, <2>2
<1> HIDE DEF model
<1>12. model \o idle \in Seq(S) /\ E!Range(model \o idle) = E!Range(model) \cup E!Range(idle)
  BY <1>9, <1>11, ConcatIs
<1>13. PICK both : both = model \o idle OBVIOUS
<1>14. E!Range(both \o routing) = E!Range(both) \cup E!Range(routing)
  <2>1. both \in Seq(S) BY <1>12, <1>13
  <2>2. routing \in Seq(S) BY <1>10
  <2> QED BY <2>1, <2>2, ConcatIs
<1>15. ObjectsOf(E!Job(s, only)) = E!Range((model \o idle) \o routing) BY <1>1 DEF ObjectsOf, E!Range
<1> QED BY <1>9, <1>10, <1>11, <1>12, <1>13, <1>14, <1>15 DEF Models

Template(s, r) ==
  [kind |-> "ResourceClaimTemplate", name |-> E!TemplateName(s, r), instance |-> s.instance,
   component |-> "accelerator-claim-template", queue |-> None, spec |-> None]

\* What can be in a manifest.
LEMMA ObjectIs ==
  ASSUME NEW s, E!Renderable(s), NEW only \in BOOLEAN, NEW o \in ObjectsOf(E!Job(s, only))
  PROVE  \/ ~only /\ \E r \in E!Range(s.roles) : o = E!Workload(s, r)
         \/ ~only /\ \E r \in E!Range(s.roles) : r.claim # None /\ o = Template(s, r)
         \/ o = Controller(s)
         \/ o \in RoutingOf(s)
<1>1. CASE ~only /\ \E r \in E!Range(s.roles) : o \in OfRole(s, r)
  <2>1. PICK r \in E!Range(s.roles) : o \in OfRole(s, r) BY <1>1
  <2>2. o = E!Workload(s, r) \/ o \in E!Range(E!ClaimTemplate(s, r)) BY <2>1 DEF OfRole
  <2>3. E!ClaimTemplate(s, r) = IF r.claim = None THEN <<>> ELSE <<Template(s, r)>>
    BY DEF E!ClaimTemplate, E!Object, Template
  <2>4. E!Range(E!ClaimTemplate(s, r)) = IF r.claim = None THEN {} ELSE {Template(s, r)}
    BY <2>3 DEF E!Range
  <2> QED BY <1>1, <2>2, <2>4
<1>2. CASE o = Controller(s) \/ o \in RoutingOf(s) BY <1>2
<1> QED BY <1>1, <1>2, ManifestIs

\* What of a manifest is there.
LEMMA ManifestHas ==
  ASSUME NEW s, E!Renderable(s), NEW only \in BOOLEAN
  PROVE  /\ RoutingOf(s) \subseteq ObjectsOf(E!Job(s, only))
         /\ ~only => \A r \in E!Range(s.roles) :
              /\ E!Workload(s, r) \in ObjectsOf(E!Job(s, only))
              /\ r.claim # None => Template(s, r) \in ObjectsOf(E!Job(s, only))
<1>1. ASSUME ~only, NEW r \in E!Range(s.roles)
      PROVE  /\ E!Workload(s, r) \in ObjectsOf(E!Job(s, only))
             /\ r.claim # None => Template(s, r) \in ObjectsOf(E!Job(s, only))
  <2>1. OfRole(s, r) \subseteq ObjectsOf(E!Job(s, only)) BY <1>1, ManifestIs
  <2>2. r.claim # None => E!ClaimTemplate(s, r) = <<Template(s, r)>>
    BY DEF E!ClaimTemplate, E!Object, Template
  <2>3. r.claim # None => Template(s, r) \in E!Range(E!ClaimTemplate(s, r)) BY <2>2 DEF E!Range
  <2> QED BY <2>1, <2>3 DEF OfRole
<1> QED BY <1>1, ManifestIs

LEMMA WorkloadIs ==
  ASSUME NEW s, E!Renderable(s), NEW r \in E!Range(s.roles), NEW w, w = E!Workload(s, r)
  PROVE  /\ w.kind = r.kind /\ w.kind \in WorkloadKinds /\ w.name = E!WorkloadName(s, r)
         /\ w.instance = s.instance /\ w.component \in {"lws", "model-server"} /\ ModelWorkload(w)
         /\ w.spec = IF r.claim = None THEN None ELSE E!TemplateName(s, r)
BY DEF E!Renderable, E!Workload, E!Object, ModelWorkload, WorkloadKinds

LEMMA TemplateIs ==
  ASSUME NEW s, NEW r, NEW o, o = Template(s, r)
  PROVE  /\ o.kind = "ResourceClaimTemplate" /\ o.name = E!TemplateName(s, r) /\ o.instance = s.instance
         /\ o.component = "accelerator-claim-template" /\ o.spec = None
         /\ o.kind \notin WorkloadKinds /\ ~ModelWorkload(o)
BY DEF Template, ModelWorkload, WorkloadKinds

LEMMA ControllerIs ==
  ASSUME NEW s, NEW o, o = Controller(s)
  PROVE  /\ o.kind = "Deployment" /\ o.name = E!Named(s.instance, E!Controller) /\ o.instance = s.instance
         /\ o.component = "idle-shutdown" /\ o.spec = None /\ ~ModelWorkload(o)
BY DEF Controller, Part, ModelWorkload

RoutingKinds == {"InferencePool", "Deployment", "ConfigMap", "Gateway", "HTTPRoute", "DestinationRule"}

IsRouting(s, o) ==
  /\ o.instance = s.instance /\ o.component \in RoutingComponents /\ o.kind # "ResourceClaimTemplate"
  /\ o.kind \in WorkloadKinds => o.kind = "Deployment" /\ o.name = E!Named(s.instance, E!Picker)
  /\ o.spec \in {None, <<s.frontend>>} /\ ~ModelWorkload(o)
  /\ \E x : E!IsName(x) /\ o.name = E!Named(s.instance, x)

LEMMA PartIs ==
  ASSUME NEW s, NEW kind \in RoutingKinds, NEW name, E!IsName(name), NEW component \in RoutingComponents,
         NEW content \in {None, <<s.frontend>>},
         kind = "Deployment" => name = E!Picker /\ component = "epp"
  PROVE  IsRouting(s, Part(s, kind, name, component, content))
<1> DEFINE o == Part(s, kind, name, component, content)
<1>1. /\ o.kind = kind /\ o.name = E!Named(s.instance, name) /\ o.instance = s.instance
      /\ o.component = component /\ o.spec = content
  BY DEF Part
<1> HIDE DEF o
<1>2. o.kind \in WorkloadKinds => o.kind = "Deployment" /\ name = E!Picker /\ component = "epp"
  BY <1>1 DEF WorkloadKinds, RoutingKinds
<1>3. ~ModelWorkload(o) BY <1>1, <1>2 DEF ModelWorkload
<1>4. o.kind # "ResourceClaimTemplate" BY <1>1 DEF RoutingKinds
<1>5. IsRouting(s, o) BY <1>1, <1>2, <1>3, <1>4 DEF IsRouting
<1> QED BY <1>5 DEF o

LEMMA ShortNames ==
  /\ \A x : E!IsName(<<x>>)
  /\ \A x, y : E!IsName(<<x, y>>)
<1>1. \A S : \A x \in S : <<x>> \in Seq(S) OBVIOUS
<1>2. \A S : \A x, y \in S : <<x, y>> \in Seq(S) OBVIOUS
<1>3. \A x : E!Range(<<x>>) = {x} BY DEF E!Range
<1>4. \A x, y : E!Range(<<x, y>>) = {x, y} BY DEF E!Range
<1> QED BY <1>1, <1>2, <1>3, <1>4 DEF E!IsName

LEMMA RoutingObjectIs ==
  ASSUME NEW s, NEW o \in RoutingOf(s) PROVE IsRouting(s, o)
<1>1. \A kind \in RoutingKinds \ {"Deployment"}, component \in RoutingComponents : \A name :
        E!IsName(name) => IsRouting(s, Part(s, kind, name, component, None))
  BY PartIs
<1>2. {"InferencePool", "ConfigMap", "Gateway", "HTTPRoute", "DestinationRule"} \subseteq RoutingKinds \ {"Deployment"}
  BY DEF RoutingKinds
<1>3. "Deployment" \in RoutingKinds BY DEF RoutingKinds
<1>4. {"epp", "routing", "envoy", "gateway", "route"} \subseteq RoutingComponents BY DEF RoutingComponents
<1>5. IsRouting(s, Picker(s))
  <2>1. E!IsName(E!Picker) BY ShortNames DEF E!Picker
  <2>2. "epp" \in RoutingComponents BY <1>4
  <2> QED BY <1>3, <2>1, <2>2, PartIs DEF Picker
<1>6. IsRouting(s, Pool(s)) BY <1>1, <1>2, <1>4, ShortNames DEF Pool
<1>7. IsRouting(s, Envoy(s)) BY <1>1, <1>2, <1>4, ShortNames DEF Envoy
<1>8. IsRouting(s, Options(s)) BY <1>1, <1>2, <1>4, ShortNames DEF Options
<1>9. IsRouting(s, Part(s, "Gateway", <<"gateway">>, "gateway", None)) BY <1>1, <1>2, <1>4, ShortNames
<1>10. IsRouting(s, Part(s, "HTTPRoute", <<"route">>, "route", None)) BY <1>1, <1>2, <1>4, ShortNames
<1>11. IsRouting(s, Part(s, "DestinationRule", <<"infpool", "backend">>, "routing", None))
  BY <1>1, <1>2, <1>4, ShortNames
<1> QED BY <1>5, <1>6, <1>7, <1>8, <1>9, <1>10, <1>11 DEF RoutingOf, Gateway, Standalone

\* The name of a template tells its instance.
LEMMA TemplateNames ==
  ASSUME NEW s, NEW r, NEW t, NEW q
  PROVE  /\ E!TemplateName(s, r) = E!TemplateName(t, q) => s.instance = t.instance
         /\ \A x : E!TemplateName(s, r) # <<x>>
BY DEF E!TemplateName

\* All manifests are rendered from Specs.
Rendered(Specs) ==
  /\ \A s \in Specs : E!Renderable(s)
  /\ Jobs \subseteq {E!Job(s, only) : s \in Specs, only \in BOOLEAN}

\* No workload of any spec is named like the picker or the controller of another
\* one; no instance begins with another one.
AllApart(Specs) == \A s, t \in Specs : E!Apart(s, t)
NoPrefixes(Specs) == \A s, t \in Specs : E!PrefixFree(s, t)

Object(s, o) ==
  \/ \E r \in E!Range(s.roles) : o = E!Workload(s, r)
  \/ \E r \in E!Range(s.roles) : r.claim # None /\ o = Template(s, r)
  \/ o = Controller(s)
  \/ o \in RoutingOf(s)

LEMMA JobIs ==
  ASSUME NEW Specs, Rendered(Specs), NEW j \in Jobs
  PROVE  \E s \in Specs, only \in BOOLEAN :
           E!Renderable(s) /\ j = E!Job(s, only) /\ \A o \in ObjectsOf(j) : Object(s, o)
<1>1. PICK s \in Specs, only \in BOOLEAN : j = E!Job(s, only) BY DEF Rendered
<1>2. E!Renderable(s) BY DEF Rendered
<1>3. \A o \in ObjectsOf(E!Job(s, only)) : Object(s, o) BY <1>2, ObjectIs DEF Object
<1> QED BY <1>1, <1>2, <1>3

LEMMA ManifestedIs ==
  ASSUME NEW Specs, Rendered(Specs), NEW o \in Manifested
  PROVE  \E s \in Specs : E!Renderable(s) /\ Object(s, o)
<1>1. PICK j \in Jobs : o \in ObjectsOf(j) BY DEF Manifested
<1> QED BY <1>1, JobIs

\* What is not a model workload, a template or of routing.
LEMMA ObjectsAre ==
  ASSUME NEW s, E!Renderable(s), NEW o, Object(s, o)
  PROVE  /\ o.instance = s.instance
         /\ ModelWorkload(o) => \E r \in E!Range(s.roles) : o = E!Workload(s, r)
         /\ o.kind = "ResourceClaimTemplate" => \E r \in E!Range(s.roles) : r.claim # None /\ o = Template(s, r)
         /\ o.component \in RoutingComponents => o \in RoutingOf(s)
         /\ o.kind \in WorkloadKinds /\ ~ModelWorkload(o) =>
              o.kind = "Deployment" /\ o.name \in {E!Named(s.instance, E!Controller), E!Named(s.instance, E!Picker)}
<1>1. CASE \E r \in E!Range(s.roles) : o = E!Workload(s, r)
  <2>1. PICK r \in E!Range(s.roles) : o = E!Workload(s, r) BY <1>1
  <2>2. o.instance = s.instance /\ o.kind \in WorkloadKinds /\ o.component \in {"lws", "model-server"} /\ ModelWorkload(o)
    BY <2>1, WorkloadIs
  <2> QED BY <2>1, <2>2 DEF RoutingComponents, WorkloadKinds
<1>2. CASE \E r \in E!Range(s.roles) : r.claim # None /\ o = Template(s, r)
  <2>1. PICK r \in E!Range(s.roles) : r.claim # None /\ o = Template(s, r) BY <1>2
  <2>2. /\ o.instance = s.instance /\ o.kind \notin WorkloadKinds /\ o.component = "accelerator-claim-template"
        /\ ~ModelWorkload(o)
    BY <2>1, TemplateIs
  <2> QED BY <2>1, <2>2 DEF RoutingComponents
<1>3. CASE o = Controller(s)
  <2>1. /\ o.kind = "Deployment" /\ o.name = E!Named(s.instance, E!Controller) /\ o.instance = s.instance
        /\ o.component = "idle-shutdown" /\ ~ModelWorkload(o)
    BY <1>3, ControllerIs
  <2> QED BY <2>1 DEF RoutingComponents
<1>4. CASE o \in RoutingOf(s) BY <1>4, RoutingObjectIs DEF IsRouting
<1> QED BY <1>1, <1>2, <1>3, <1>4 DEF Object

\* Where no workload is named like a Deployment that Manifesto adds.
LEMMA WorkloadsApart ==
  ASSUME NEW s, E!Renderable(s), NEW a, Object(s, a), NEW t, E!Renderable(t), NEW b, Object(t, b),
         E!Apart(s, t), E!Apart(t, s),
         a.kind \in WorkloadKinds, b.kind \in WorkloadKinds, a.name = b.name
  PROVE  /\ ModelWorkload(a) <=> ModelWorkload(b)
         /\ ~ModelWorkload(a) => a.kind = b.kind
<1>1. ASSUME NEW u, E!Renderable(u), NEW w, Object(u, w), ModelWorkload(w),
             NEW v, E!Renderable(v), NEW o, Object(v, o), o.kind \in WorkloadKinds, ~ModelWorkload(o),
             E!Apart(u, v)
      PROVE  w.name # o.name
  <2>1. PICK r \in E!Range(u.roles) : w = E!Workload(u, r) BY <1>1, ObjectsAre
  <2>2. w.name = E!WorkloadName(u, r) BY <1>1, <2>1, WorkloadIs
  <2>3. o.name \in {E!Named(v.instance, E!Controller), E!Named(v.instance, E!Picker)} BY <1>1, ObjectsAre
  <2> QED BY <1>1, <2>2, <2>3 DEF E!Apart
<1>2. ModelWorkload(a) <=> ModelWorkload(b) BY <1>1
<1>3. ~ModelWorkload(a) => a.kind = b.kind
  <2>1. ASSUME NEW u, E!Renderable(u), NEW o, Object(u, o), o.kind \in WorkloadKinds, ~ModelWorkload(o)
        PROVE  o.kind = "Deployment"
    BY <2>1, ObjectsAre
  <2> QED BY <1>2, <2>1
<1> QED BY <1>2, <1>3

LEMMA WorkloadsAreOneKind == ASSUME NEW Specs, Rendered(Specs) PROVE OneKindEach
<1> SUFFICES ASSUME NEW j \in Jobs, NEW w \in Workloads(j), NEW o \in ObjectsOf(j),
                    o.kind \in WorkloadKinds, o.name = w.name
             PROVE  o.kind = w.kind
  BY DEF OneKindEach
<1>1. PICK s \in Specs : E!Renderable(s) /\ \A x \in ObjectsOf(j) : Object(s, x) BY JobIs
<1>2. w \in ObjectsOf(j) /\ ModelWorkload(w) /\ w.kind \in WorkloadKinds BY DEF Workloads, ModelWorkload
<1>3. ModelWorkload(o) BY <1>1, <1>2, WorkloadsApart DEF E!Renderable
<1>4. PICK r \in E!Range(s.roles) : w = E!Workload(s, r) BY <1>1, <1>2, ObjectsAre
<1>5. PICK q \in E!Range(s.roles) : o = E!Workload(s, q) BY <1>1, <1>3, ObjectsAre
<1>6. w.name = E!WorkloadName(s, r) BY <1>1, <1>4, WorkloadIs
<1>7. o.name = E!WorkloadName(s, q) BY <1>1, <1>5, WorkloadIs
<1>8. r = q BY <1>1, <1>6, <1>7 DEF E!Renderable
<1> QED BY <1>4, <1>5, <1>8

LEMMA KindsAreTold == ASSUME NEW Specs, Rendered(Specs), AllApart(Specs) PROVE KindsAreScoped
<1> SUFFICES ASSUME NEW a \in Manifested, NEW b \in Manifested,
                    a.kind \in WorkloadKinds, b.kind \in WorkloadKinds, a.name = b.name
             PROVE  a.kind = b.kind \/ (ModelWorkload(a) /\ ModelWorkload(b))
  BY DEF KindsAreScoped
<1>1. PICK s \in Specs : E!Renderable(s) /\ Object(s, a) BY ManifestedIs
<1>2. PICK t \in Specs : E!Renderable(t) /\ Object(t, b) BY ManifestedIs
<1> QED BY <1>1, <1>2, WorkloadsApart DEF AllApart

LEMMA RoutingStandsApart == ASSUME NEW Specs, Rendered(Specs), AllApart(Specs) PROVE RoutingIsNoWorkload
<1> SUFFICES ASSUME NEW o \in Manifested, o.component \in RoutingComponents
             PROVE  /\ o.kind # "ResourceClaimTemplate"
                    /\ \A w \in Manifested : ModelWorkload(w) /\ o.kind \in WorkloadKinds => o.name # w.name
  BY DEF RoutingIsNoWorkload
<1>1. PICK s \in Specs : E!Renderable(s) /\ Object(s, o) BY ManifestedIs
<1>2. o \in RoutingOf(s) BY <1>1, ObjectsAre
<1>3. o.kind # "ResourceClaimTemplate" /\ ~ModelWorkload(o) BY <1>2, RoutingObjectIs DEF IsRouting
<1>4. ASSUME NEW w \in Manifested, ModelWorkload(w), o.kind \in WorkloadKinds PROVE o.name # w.name
  <2>1. PICK t \in Specs : E!Renderable(t) /\ Object(t, w) BY ManifestedIs
  <2>2. w.kind \in WorkloadKinds BY <1>4 DEF ModelWorkload
  <2> QED BY <1>1, <1>3, <1>4, <2>1, <2>2, WorkloadsApart DEF AllApart
<1> QED BY <1>3, <1>4

LEMMA ClaimsStayLocal == ASSUME NEW Specs, Rendered(Specs) PROVE ClaimsAreLocal
<1> SUFFICES ASSUME NEW t \in Manifested, NEW w \in Manifested,
                    t.kind = "ResourceClaimTemplate", w.spec = t.name
             PROVE  /\ ModelWorkload(w) /\ w.instance = t.instance
                    /\ \A j \in Jobs : w \in ObjectsOf(j) => Key(t) \in {Key(c) : c \in ClaimTemplates(j)}
  BY DEF ClaimsAreLocal
<1>1. PICK s \in Specs : E!Renderable(s) /\ Object(s, t) BY ManifestedIs
<1>2. PICK r \in E!Range(s.roles) : r.claim # None /\ t = Template(s, r) BY <1>1, ObjectsAre
<1>3. t.name = E!TemplateName(s, r) /\ t.instance = s.instance BY <1>2, TemplateIs
<1>4. t.name # None BY <1>1, <1>3 DEF E!Renderable
<1>5. ASSUME NEW u, E!Renderable(u), Object(u, w)
      PROVE  \E q \in E!Range(u.roles) : q.claim # None /\ w = E!Workload(u, q) /\ w.spec = E!TemplateName(u, q)
  <2>1. CASE \E q \in E!Range(u.roles) : w = E!Workload(u, q)
    <3>1. PICK q \in E!Range(u.roles) : w = E!Workload(u, q) BY <2>1
    <3>2. w.spec = IF q.claim = None THEN None ELSE E!TemplateName(u, q) BY <1>5, <3>1, WorkloadIs
    <3> QED BY <1>4, <3>1, <3>2
  <2>2. ~(\E q \in E!Range(u.roles) : q.claim # None /\ w = Template(u, q)) BY <1>4, TemplateIs
  <2>3. w # Controller(u) BY <1>4, ControllerIs
  <2>4. w \notin RoutingOf(u)
    <3>1. w \in RoutingOf(u) => w.spec \in {None, <<u.frontend>>} BY RoutingObjectIs DEF IsRouting
    <3>2. t.name # <<u.frontend>> BY <1>3, TemplateNames
    <3> QED BY <1>4, <3>1, <3>2
  <2> QED BY <1>5, <2>1, <2>2, <2>3, <2>4 DEF Object
<1>6. PICK u \in Specs : E!Renderable(u) /\ Object(u, w) BY ManifestedIs
<1>7. PICK q \in E!Range(u.roles) : q.claim # None /\ w = E!Workload(u, q) /\ w.spec = E!TemplateName(u, q)
  BY <1>5, <1>6
<1>8. ModelWorkload(w) /\ w.instance = u.instance BY <1>6, <1>7, WorkloadIs
<1>9. u.instance = s.instance BY <1>3, <1>7, TemplateNames
<1>10. ASSUME NEW j \in Jobs, w \in ObjectsOf(j) PROVE Key(t) \in {Key(c) : c \in ClaimTemplates(j)}
  <2>1. PICK v \in Specs, only \in BOOLEAN :
          E!Renderable(v) /\ j = E!Job(v, only) /\ \A x \in ObjectsOf(j) : Object(v, x)
    BY JobIs
  <2>2. PICK p \in E!Range(v.roles) : p.claim # None /\ w = E!Workload(v, p) /\ w.spec = E!TemplateName(v, p)
    BY <1>5, <1>10, <2>1
  <2>3. ~only
    <3> SUFFICES ASSUME only PROVE FALSE OBVIOUS
    <3>1. Workloads(j) = {}
      <4>1. j.routing_only = only BY <2>1 DEF E!Job
      <4> QED BY <4>1, JobsAssumption
    <3> QED BY <1>8, <1>10, <3>1 DEF Workloads
  <2> DEFINE c == Template(v, p)
  <2>4. c \in ObjectsOf(j) BY <2>1, <2>2, <2>3, ManifestHas
  <2>5. c.kind = "ResourceClaimTemplate" /\ c.name = E!TemplateName(v, p) BY TemplateIs
  <2>6. c \in ClaimTemplates(j) BY <2>4, <2>5 DEF ClaimTemplates
  <2>7. Key(c) = Key(t) BY <2>2, <2>5 DEF Key
  <2> QED BY <2>6, <2>7
<1> QED BY <1>3, <1>8, <1>9, <1>10

LEMMA RoutingByKind ==
  ASSUME NEW s, E!Renderable(s), NEW o, Object(s, o),
         o.kind \in {"InferencePool", "Gateway", "HTTPRoute", "DestinationRule", "ConfigMap"}
  PROVE  o \in RoutingOf(s)
<1>1. ~(\E r \in E!Range(s.roles) : o = E!Workload(s, r)) BY WorkloadIs DEF WorkloadKinds
<1>2. ~(\E r \in E!Range(s.roles) : r.claim # None /\ o = Template(s, r)) BY TemplateIs
<1>3. o # Controller(s) BY ControllerIs
<1> QED BY <1>1, <1>2, <1>3 DEF Object

LEMMA ConfigMapsDiffer ==
  ASSUME NEW s, E!Renderable(s), NEW t, t.instance = s.instance
  PROVE  Envoy(t).name # Options(s).name
<1> DEFINE S == E!Range(s.instance) \cup {"envoy", "config", "gateway", "options"}
           i == s.instance
           envoy == <<"envoy", "config">>
           options == <<"gateway", "options">>
           k == Len(i) + 1
<1>1. Envoy(t).name = i \o envoy /\ Options(s).name = i \o options
  BY DEF Envoy, Options, Part, E!Named
<1>2. i \in Seq(E!Range(i)) BY DEF E!Renderable, E!IsName
<1>3. envoy \in Seq(S) /\ Len(envoy) = 2 /\ envoy[1] = "envoy" OBVIOUS
<1>4. options \in Seq(S) /\ Len(options) = 2 /\ options[1] = "gateway" OBVIOUS
<1>5. i \in Seq(S) BY <1>2
<1> HIDE DEF S, envoy, options, i
<1>6. \A x \in Seq(S) : Len(x) = 2 => (i \o x)[k] = x[1] BY <1>5, ConcatAt
<1> QED BY <1>1, <1>3, <1>4, <1>6

\* The objects of the other frontend: of these no manifest has one by its name.
LEMMA OthersAreReplaced ==
  ASSUME NEW s, E!Renderable(s), NEW t, t.instance = s.instance, NEW o \in RoutingOf(t)
  PROVE  /\ s.frontend = "gateway" =>
              /\ OfStandalone(o) => \A w \in RoutingOf(s) : Key(o) # Key(w)
              /\ o.component \in FrontendComponents => OfStandalone(o) \/ \E w \in RoutingOf(s) : Key(o) = Key(w)
         /\ s.frontend = "standalone" =>
              /\ OfGateway(o) => \A w \in RoutingOf(s) : Key(o) # Key(w)
              /\ o.component \in FrontendComponents => OfGateway(o) \/ \E w \in RoutingOf(s) : Key(o) = Key(w)
<1>1. \A x : x.kind = "ConfigMap" /\ x \in Gateway(s) => x = Options(s)
  BY DEF Gateway, Pool, Picker, Part
<1>2. \A x : x.kind = "ConfigMap" /\ x \in Standalone(s) => x = Envoy(s)
  BY DEF Standalone, Pool, Picker, Part
<1>3. OfStandalone(o) => o = Envoy(t)
  BY DEF OfStandalone, RoutingOf, Gateway, Standalone, Pool, Picker, Envoy, Options, Part
<1>4. OfGateway(o) => o = Options(t) \/ o.kind \in FrontendKinds
  BY DEF OfGateway, FrontendKinds, RoutingOf, Gateway, Standalone, Pool, Picker, Envoy, Options, Part
<1>5. Envoy(t).name # Options(s).name /\ Envoy(s).name # Options(t).name
  <2>1. Envoy(s).name = Envoy(t).name /\ Options(s).name = Options(t).name BY DEF Envoy, Options, Part
  <2> QED BY <2>1, ConfigMapsDiffer
<1>6. Envoy(t).kind = "ConfigMap" /\ Options(t).kind = "ConfigMap" BY DEF Envoy, Options, Part
<1>7. \A x \in Standalone(s) : x.kind \notin FrontendKinds
  BY DEF Standalone, FrontendKinds, Pool, Picker, Envoy, Part
<1>8. CASE s.frontend = "gateway"
  <2>1. RoutingOf(s) = Gateway(s) BY <1>8 DEF RoutingOf
  <2>2. ASSUME OfStandalone(o), NEW w \in Gateway(s), Key(o) = Key(w) PROVE FALSE
    <3>1. o.kind = w.kind /\ o.name = w.name BY <2>2 DEF Key
    <3> QED BY <1>1, <1>3, <1>5, <1>6, <2>2, <3>1
  <2>3. ASSUME o.component \in FrontendComponents PROVE OfStandalone(o) \/ \E w \in Gateway(s) : Key(o) = Key(w)
    <3>1. CASE o \in Gateway(t) BY <3>1 DEF Gateway, Pool, Picker, Options, Part, Key
    <3>2. CASE o \in Standalone(t)
      BY <2>3, <3>2 DEF Standalone, Pool, Picker, Envoy, Part, OfStandalone, FrontendComponents
    <3> QED BY <3>1, <3>2 DEF RoutingOf
  <2> QED BY <1>8, <2>1, <2>2, <2>3
<1>9. CASE s.frontend = "standalone"
  <2>1. RoutingOf(s) = Standalone(s) BY <1>9 DEF RoutingOf
  <2>2. ASSUME OfGateway(o), NEW w \in Standalone(s), Key(o) = Key(w) PROVE FALSE
    <3>1. o.kind = w.kind /\ o.name = w.name BY <2>2 DEF Key
    <3> QED BY <1>2, <1>4, <1>5, <1>6, <1>7, <2>2, <3>1
  <2>3. ASSUME o.component \in FrontendComponents PROVE OfGateway(o) \/ \E w \in Standalone(s) : Key(o) = Key(w)
    <3>1. CASE o \in Gateway(t)
      BY <2>3, <3>1 DEF Gateway, Pool, Picker, Options, Part, OfGateway, FrontendKinds, FrontendComponents
    <3>2. CASE o \in Standalone(t) BY <3>2 DEF Standalone, Pool, Picker, Envoy, Part, Key
    <3> QED BY <3>1, <3>2 DEF RoutingOf
  <2> QED BY <1>9, <2>1, <2>2, <2>3
<1> QED BY <1>8, <1>9

LEMMA FrontendsAreOfTwoKinds == ASSUME NEW Specs, Rendered(Specs) PROVE FrontendsAreKnown
<1> DEFINE Replaced(j, o) == IF HasGateway(j) THEN OfStandalone(o) ELSE OfGateway(o)
           Kept(j, o) == Key(o) \in {Key(w) : w \in ObjectsOf(j)}
<1> SUFFICES ASSUME NEW j \in Jobs, RoutingObjects(j) # {},
                    NEW o \in Manifested, o.instance \in Instances(ObjectsOf(j))
             PROVE  /\ Replaced(j, o) => ~Kept(j, o)
                    /\ o.component \in FrontendComponents => Replaced(j, o) \/ Kept(j, o)
  BY DEF FrontendsAreKnown
<1>1. PICK s \in Specs, only \in BOOLEAN :
        E!Renderable(s) /\ j = E!Job(s, only) /\ \A x \in ObjectsOf(j) : Object(s, x)
  BY JobIs
<1>2. RoutingOf(s) \subseteq ObjectsOf(j) BY <1>1, ManifestHas
<1>3. PICK t \in Specs : E!Renderable(t) /\ Object(t, o) BY ManifestedIs
<1>4. t.instance = s.instance
  <2>1. o.instance = t.instance BY <1>3, ObjectsAre
  <2>2. o.instance = s.instance BY <1>1, ObjectsAre DEF Instances
  <2> QED BY <2>1, <2>2
<1>5. \A w \in ObjectsOf(j) :
        w.kind \in {"InferencePool", "Gateway", "HTTPRoute", "DestinationRule", "ConfigMap"} => w \in RoutingOf(s)
  BY <1>1, RoutingByKind
<1>6. s.frontend \in {"gateway", "standalone"}
  <2>1. RoutingOf(s) # {} BY <1>5 DEF RoutingObjects
  <2> QED BY <2>1 DEF RoutingOf
<1>7. HasGateway(j) <=> s.frontend = "gateway"
  <2>1. CASE s.frontend = "gateway"
    <3>1. PICK g : g = Part(s, "Gateway", <<"gateway">>, "gateway", None) OBVIOUS
    <3>2. g \in RoutingOf(s) BY <2>1, <3>1 DEF RoutingOf, Gateway
    <3>3. g.kind = "Gateway" BY <3>1 DEF Part
    <3> QED BY <1>2, <2>1, <3>2, <3>3 DEF HasGateway, RoutingObjects
  <2>2. CASE s.frontend = "standalone"
    <3>1. \A w \in RoutingOf(s) : w.kind # "Gateway"
      BY <2>2 DEF RoutingOf, Standalone, Pool, Picker, Envoy, Part
    <3> QED BY <1>5, <2>2, <3>1 DEF HasGateway, RoutingObjects
  <2> QED BY <1>6, <2>1, <2>2
<1>8. ASSUME Replaced(j, o), Kept(j, o) PROVE FALSE
  <2>1. o.kind \in {"InferencePool", "Gateway", "HTTPRoute", "DestinationRule", "ConfigMap"}
    BY <1>8 DEF OfStandalone, OfGateway, FrontendKinds
  <2>2. o \in RoutingOf(t) BY <1>3, <2>1, RoutingByKind
  <2>3. PICK w \in ObjectsOf(j) : Key(o) = Key(w) BY <1>8
  <2>4. w.kind = o.kind BY <2>3 DEF Key
  <2>5. w \in RoutingOf(s) BY <1>5, <2>1, <2>4
  <2> QED BY <1>1, <1>4, <1>6, <1>7, <1>8, <2>2, <2>3, <2>5, OthersAreReplaced
<1>9. ASSUME o.component \in FrontendComponents PROVE Replaced(j, o) \/ Kept(j, o)
  <2>1. o \in RoutingOf(t) BY <1>3, <1>9, ObjectsAre DEF FrontendComponents, RoutingComponents
  <2> QED BY <1>1, <1>2, <1>4, <1>6, <1>7, <1>9, <2>1, OthersAreReplaced
<1> QED BY <1>8, <1>9

\* Whatever specs the manifests are rendered from, what the theorems about
\* convergence, frontends and templates ask of the manifests is so.  What the
\* others ask, that nothing else is named like a Deployment which Manifesto adds,
\* is so where no name of a workload is that of another release's Deployment.
THEOREM RenderedManifestsAreKnown ==
  ASSUME NEW Specs, Rendered(Specs)
  PROVE  /\ OneKindEach /\ FrontendsAreKnown /\ ClaimsAreLocal
         /\ AllApart(Specs) => KindsAreScoped /\ RoutingIsNoWorkload
BY WorkloadsAreOneKind, FrontendsAreOfTwoKinds, KindsAreTold, RoutingStandsApart, ClaimsStayLocal

\* Deploying what render_kubernetes gives for any specs, however names of
\* different releases meet, by any processes with any faults: a process that
\* succeeds leaves what its manifest asks for, in all that no other one changed,
\* and none recreates, or applies over, what it should not unless another one
\* changed it meanwhile.
THEOREM RenderedDeploysConverge ==
  ASSUME NEW Specs, Rendered(Specs) PROVE Spec => []SuccessConverges /\ OnlyRacesHarm
<1>1. Spec => []SuccessConverges BY RenderedManifestsAreKnown, SuccessDoesConverge
<1>2. Spec => OnlyRacesHarm BY RenderedManifestsAreKnown, OnlyRacesDoHarm
<1> QED BY <1>1, <1>2

\* One process at a time, and no workload named like the picker or the controller
\* of any release: no workload is ever there in two kinds, and routing objects go
\* only once a whole manifest is live.
THEOREM RenderedDeploysOneByOne ==
  ASSUME NEW Specs, Rendered(Specs), AllApart(Specs), \A d, e \in Deployers : d = e
  PROVE  Spec => []OneKindPerName /\ FrontendReplacedFirst
<1>1. Spec => []OneKindPerName BY RenderedManifestsAreKnown, OneKindAtATime
<1>2. Spec => FrontendReplacedFirst BY RenderedManifestsAreKnown, FrontendsAreReplacedFirst
<1> QED BY <1>1, <1>2

\* A name that two instances could have put together begins with both.
LEMMA PrefixOf ==
  ASSUME NEW S, NEW s \in Seq(S), NEW t \in Seq(S), NEW x \in Seq(S), NEW y \in Seq(S),
         s \o x = t \o y, Len(s) <= Len(t)
  PROVE  E!IsPrefix(s, t)
<1>1. Len(s) \in Nat /\ Len(t) \in Nat BY ConcatAt
<1>2. ASSUME NEW i \in 1 .. Len(s) PROVE s[i] = t[i]
  <2>1. (s \o x)[i] = s[i] BY ConcatAt
  <2>2. i \in 1 .. Len(t) BY <1>1
  <2>3. (t \o y)[i] = t[i] BY <2>2, ConcatAt
  <2> QED BY <2>1, <2>3
<1>3. SubSeq(s, 1, Len(s)) = [i \in 1 .. Len(s) |-> s[i]] BY <1>1
<1>4. SubSeq(t, 1, Len(s)) = [i \in 1 .. Len(s) |-> t[i]] BY <1>1
<1> QED BY <1>2, <1>3, <1>4 DEF E!IsPrefix

LEMMA NameTellsInstance ==
  ASSUME NEW s, E!Renderable(s), NEW t, E!Renderable(t), E!PrefixFree(s, t), E!PrefixFree(t, s),
         NEW x, E!IsName(x), NEW y, E!IsName(y),
         E!Named(s.instance, x) = E!Named(t.instance, y)
  PROVE  s.instance = t.instance
<1> DEFINE S == E!Range(s.instance) \cup E!Range(t.instance) \cup E!Range(x) \cup E!Range(y)
<1>1. s.instance \in Seq(S) /\ t.instance \in Seq(S) /\ x \in Seq(S) /\ y \in Seq(S)
  BY DEF E!Renderable, E!IsName
<1>2. s.instance \o x = t.instance \o y BY DEF E!Named
<1> HIDE DEF S
<1>3. Len(s.instance) <= Len(t.instance) \/ Len(t.instance) <= Len(s.instance)
  <2>1. Len(s.instance) \in Nat /\ Len(t.instance) \in Nat BY <1>1, ConcatAt
  <2> QED BY <2>1
<1>4. E!IsPrefix(s.instance, t.instance) \/ E!IsPrefix(t.instance, s.instance)
  BY <1>1, <1>2, <1>3, PrefixOf
<1> QED BY <1>4 DEF E!PrefixFree

\* Without workload_name all names of an instance but those of templates begin
\* with it.
LEMMA NamesBeginWithInstance ==
  ASSUME NEW s, E!Renderable(s), \A r \in E!Range(s.roles) : r.workload_name = None,
         NEW o, Object(s, o), o.kind # "ResourceClaimTemplate"
  PROVE  \E x : E!IsName(x) /\ o.name = E!Named(s.instance, x)
<1>1. CASE \E r \in E!Range(s.roles) : o = E!Workload(s, r)
  <2>1. PICK r \in E!Range(s.roles) : o = E!Workload(s, r) BY <1>1
  <2>2. o.name = E!WorkloadName(s, r) BY <2>1, WorkloadIs
  <2>3. o.name = E!Named(s.instance, r.name) BY <2>2 DEF E!WorkloadName
  <2>4. E!IsName(r.name) BY DEF E!Renderable
  <2> QED BY <2>3, <2>4
<1>2. ~(\E r \in E!Range(s.roles) : r.claim # None /\ o = Template(s, r)) BY TemplateIs
<1>3. CASE o = Controller(s)
  <2>1. E!IsName(E!Controller) BY ShortNames DEF E!Controller
  <2> QED BY <1>3, <2>1, ControllerIs
<1>4. CASE o \in RoutingOf(s) BY <1>4, RoutingObjectIs DEF IsRouting
<1> QED BY <1>1, <1>2, <1>3, <1>4 DEF Object

\* Releases of any specs in which no role sets workload_name, and of which none
\* begins with another one and a hyphen, do not touch each other: all their names
\* are scoped by the instance.
THEOREM RenderedReleasesAreIsolated ==
  ASSUME NEW Specs, Rendered(Specs), NoPrefixes(Specs),
         \A s \in Specs : \A r \in E!Range(s.roles) : r.workload_name = None
  PROVE  Spec => Isolated
<1>1. NamesAreScoped
  <2> SUFFICES ASSUME NEW a \in Manifested, NEW b \in Manifested, a.name = b.name,
                      a.kind = b.kind \/ (a.kind \in WorkloadKinds /\ b.kind \in WorkloadKinds)
               PROVE  a.instance = b.instance
    BY DEF NamesAreScoped
  <2>1. PICK s \in Specs : E!Renderable(s) /\ Object(s, a) BY ManifestedIs
  <2>2. PICK t \in Specs : E!Renderable(t) /\ Object(t, b) BY ManifestedIs
  <2>3. a.instance = s.instance /\ b.instance = t.instance BY <2>1, <2>2, ObjectsAre
  <2>4. CASE a.kind = "ResourceClaimTemplate"
    <3>1. b.kind = "ResourceClaimTemplate" BY <2>4 DEF WorkloadKinds
    <3>2. PICK r \in E!Range(s.roles) : a = Template(s, r) BY <2>1, <2>4, ObjectsAre
    <3>3. PICK q \in E!Range(t.roles) : b = Template(t, q) BY <2>2, <3>1, ObjectsAre
    <3>4. E!TemplateName(s, r) = E!TemplateName(t, q) BY <3>2, <3>3, TemplateIs
    <3> QED BY <2>3, <3>4, TemplateNames
  <2>5. CASE a.kind # "ResourceClaimTemplate"
    <3>1. b.kind # "ResourceClaimTemplate" BY <2>5 DEF WorkloadKinds
    <3>2. PICK x : E!IsName(x) /\ a.name = E!Named(s.instance, x)
      BY <2>1, <2>5, NamesBeginWithInstance
    <3>3. PICK y : E!IsName(y) /\ b.name = E!Named(t.instance, y)
      BY <2>2, <3>1, NamesBeginWithInstance
    <3>4. E!PrefixFree(s, t) /\ E!PrefixFree(t, s) BY DEF NoPrefixes
    <3> QED BY <2>1, <2>2, <2>3, <3>2, <3>3, <3>4, NameTellsInstance
  <2> QED BY <2>4, <2>5
<1> QED BY <1>1, ReleasesAreIsolated

\* Specs of one instance name their workloads alike.
SameRoles(Specs) ==
  \A s, t \in Specs : s.instance = t.instance =>
    \A r \in E!Range(s.roles) : \E q \in E!Range(t.roles) : E!WorkloadName(t, q) = E!WorkloadName(s, r)

\* One process at a time, deploying any specs that keep the roles of an
\* instance: no claim template is deleted under a live workload that uses it.
THEOREM RenderedTemplatesStay ==
  ASSUME NEW Specs, Rendered(Specs), SameRoles(Specs), \A d, e \in Deployers : d = e
  PROVE  Spec => TemplatesInUseAreKept
<1>1. RolesAreKept
  <2> SUFFICES ASSUME NEW j \in Jobs, NEW w \in Manifested, ModelWorkload(w),
                      w.instance \in Instances(Workloads(j))
               PROVE  \E v \in Workloads(j) : v.name = w.name
    BY DEF RolesAreKept
  <2>1. PICK x \in Workloads(j) : x.instance = w.instance BY DEF Instances
  <2>2. PICK s \in Specs, only \in BOOLEAN :
          E!Renderable(s) /\ j = E!Job(s, only) /\ \A o \in ObjectsOf(j) : Object(s, o)
    BY JobIs
  <2>3. ~only
    <3>1. j.routing_only = only BY <2>2 DEF E!Job
    <3> QED BY <2>1, <3>1, JobsAssumption
  <2>4. s.instance = w.instance BY <2>1, <2>2, ObjectsAre DEF Workloads
  <2>5. PICK t \in Specs : E!Renderable(t) /\ Object(t, w) BY ManifestedIs
  <2>6. PICK r \in E!Range(t.roles) : w = E!Workload(t, r) BY <2>5, ObjectsAre
  <2>7. w.name = E!WorkloadName(t, r) /\ w.instance = t.instance BY <2>5, <2>6, WorkloadIs
  <2>8. PICK q \in E!Range(s.roles) : E!WorkloadName(s, q) = w.name BY <2>4, <2>7 DEF SameRoles
  <2> DEFINE v == E!Workload(s, q)
  <2>9. v \in ObjectsOf(j) BY <2>2, <2>3, ManifestHas
  <2>10. v.name = w.name /\ ModelWorkload(v) BY <2>2, <2>8, WorkloadIs
  <2> QED BY <2>9, <2>10 DEF Workloads
<1> QED BY <1>1, RenderedManifestsAreKnown, UsedTemplatesStay
=============================================================================
