--------------------------- MODULE PodRolloutProofs ---------------------------
(***************************************************************************)
(* Proofs about PodRollout, for any nodes, names, versions, times to wait  *)
(* and any combination of failures that the theorems' hypotheses allow.    *)
(***************************************************************************)
EXTENDS PodRollout, FiniteSetTheorems, TLAPS

--------------------------------------------------------------------------------
(* Versions *)

(* The code's comparison is the order of releases, whatever numbers they have.   *)
THEOREM ReleasesAreOrdered ==
    ASSUME NEW v, NEW w, IsRelease(v), IsRelease(w)
    PROVE  NewerThan(v, w) <=> Older(v, w)
  <1>1. Len(v) = 4 /\ \A i \in 1 .. 3 : IsNumber(v[i]) /\ IsNumber(w[i])
    BY DEF IsRelease
  <1>2. \A i \in 1 .. 3 : /\ SameNumber(v[i], w[i]) <=> Number(v[i]) = Number(w[i])
                          /\ Lower(v, w, i) <=> Number(v[i]) < Number(w[i])
    BY <1>1 DEF SameNumber, Lower
  <1> DEFINE Decides(i) == /\ \A j \in 1 .. i - 1 : SameNumber(v[j], w[j])
                           /\ \/ i < Len(v) /\ Lower(v, w, i)
                              \/ i = Len(v) /\ TextBefore(v[i], w[i])
  <1>3. NewerThan(v, w) <=> Decides(1) \/ Decides(2) \/ Decides(3) \/ Decides(4)
    <2>1. NewerThan(v, w) <=> \E i \in 1 .. 4 : Decides(i)
      BY <1>1 DEF NewerThan
    <2> HIDE DEF Decides
    <2>2. 1 .. 4 = {1, 2, 3, 4}
      OBVIOUS
    <2>3. QED
      BY <2>1, <2>2
  <1>4. 1 .. 1 - 1 = {} /\ 1 .. 2 - 1 = {1} /\ 1 .. 3 - 1 = {1, 2} /\ 1 .. 4 - 1 = {1, 2, 3}
    OBVIOUS
  <1>5. /\ Decides(1) <=> Lower(v, w, 1)
        /\ Decides(2) <=> SameNumber(v[1], w[1]) /\ Lower(v, w, 2)
        /\ Decides(3) <=> SameNumber(v[1], w[1]) /\ SameNumber(v[2], w[2]) /\ Lower(v, w, 3)
        /\ Decides(4) <=> /\ SameNumber(v[1], w[1]) /\ SameNumber(v[2], w[2])
                          /\ SameNumber(v[3], w[3]) /\ TextBefore(v[4], w[4])
    BY <1>1, <1>4
  <1>6. QED
    <2> HIDE DEF Decides
    <2> QED BY <1>2, <1>3, <1>5 DEF Older

LEMMA DesiredNewer ==
    ASSUME NEW v \in Version, NEW w \in Version
    PROVE  IsDesiredNewer(v, w) <=> v < w
  BY ReleaseAssumption, ReleasesAreOrdered DEF IsDesiredNewer

--------------------------------------------------------------------------------
(* Typing *)

Pods == [Node -> [Name -> Pod \cup {None}]]

LEMMA NumbersType ==
    /\ WaitSecs \in Nat /\ Splay \in Nat /\ Width \in Nat \ {0} /\ 0 \in 0 .. Width - 1
    /\ MaxVersion \in Nat /\ Version \subseteq 0 .. MaxVersion /\ 1 \in Version
    /\ \A v \in Version : v \in Nat
  BY NumbersAssumption DEF Version

LEMMA PutType ==
    ASSUME pods \in Pods, NEW n \in Node, NEW m \in Name, NEW pod \in Pod \cup {None}, Put(n, m, pod)
    PROVE  pods' \in Pods
  BY DEF Pods, Put

LEMMA PutEffect ==
    ASSUME pods \in Pods, NEW n \in Node, NEW m \in Name, NEW pod, Put(n, m, pod)
    PROVE  \A k \in Node, l \in Name :
              pods'[k][l] = IF k = n /\ l = m THEN pod ELSE pods[k][l]
  BY DEF Pods, Put

LEMMA EndedType ==
    ASSUME Ended
    PROVE  /\ pc' = "idle" /\ wanted' \in 0 .. MaxVersion /\ doomed' \in SUBSET PodName
           /\ target' \in PodName \cup {None} /\ splay' \in 0 .. Width - 1 /\ touched' \in SUBSET Node
  BY NumbersType DEF Ended

LEMMA GoOnType ==
    ASSUME TypeOK, GoOn
    PROVE  /\ pc' \in {"idle", "delete"} /\ wanted' \in 0 .. MaxVersion /\ doomed' \in SUBSET PodName
           /\ target' \in PodName \cup {None} /\ splay' \in 0 .. Width - 1 /\ touched' \in SUBSET Node
  <1>1. CASE Ended
    BY <1>1, EndedType
  <1>2. CASE ~Ended
    BY <1>2, NumbersType DEF GoOn, TypeOK
  <1>3. QED
    BY <1>1, <1>2

LEMMA TimedOutType ==
    ASSUME NEW failed \in BOOLEAN, TimedOut(failed)
    PROVE  GoOn \/ Ended
  BY DEF TimedOut

LEMMA NextSplayType == TypeOK => NextSplay \in 0 .. Width - 1
  BY NumbersType DEF NextSplay, TypeOK

LEMMA InitType == Init => TypeOK
  <1> SUFFICES ASSUME Init PROVE TypeOK
    OBVIOUS
  <1>1. pods \in Pods
    <2>1. [ver |-> 1, phase |-> "ready", terminating |-> FALSE] \in Pod
      BY NumbersType DEF Pod
    <2>2. QED
      BY <2>1 DEF Init, Pods
  <1>2. latest \in Version /\ reported \in [Node -> 0 .. MaxVersion]
    BY NumbersType DEF Init
  <1>3. QED
    BY <1>1, <1>2, NumbersType, FaultsAssumption DEF Init, TypeOK, Pods

(* What the world around the pass does to the pods: it changes one of them, or   *)
(* none, and leaves the pass alone.                                              *)
World(n, m) == PodStarts(n, m) \/ PodUnready(n, m) \/ PodGone(n, m) \/ PodKilled(n, m)
               \/ SecondPodGone(n, m)

LEMMA WorldPuts ==
    ASSUME TypeOK, NEW n \in Node, NEW m \in Name, World(n, m)
    PROVE  \E pod \in Pod \cup {None} :
              /\ Put(n, m, pod)
              /\ pods[n][m] # None
              /\ pod # None => /\ pod.ver = pods[n][m].ver
                               /\ pods[n][m].terminating => pod.terminating
  <1> DEFINE old == pods[n][m]
  <1>0. old \in Pod \cup {None}
    BY DEF TypeOK
  <1>1. CASE PodGone(n, m)
    BY <1>1 DEF PodGone
  <1>2. CASE PodStarts(n, m)
    <2>1. old \in Pod
      BY <1>0, <1>2 DEF PodStarts
    <2>2. [old EXCEPT !.phase = "running"] \in Pod /\ [old EXCEPT !.phase = "ready"] \in Pod
      BY <2>1 DEF Pod
    <2>3. QED
      BY <1>2, <2>1, <2>2, NoneAssumption DEF PodStarts, Pod
  <1>3. CASE PodUnready(n, m)
    <2>1. old \in Pod
      BY <1>0, <1>3 DEF PodUnready
    <2>2. [old EXCEPT !.phase = "running"] \in Pod
      BY <2>1 DEF Pod
    <2>3. QED
      BY <1>3, <2>1, <2>2, NoneAssumption DEF PodUnready, Pod
  <1>4. CASE PodKilled(n, m) \/ SecondPodGone(n, m)
    <2>1. old \in Pod
      BY <1>0, <1>4 DEF PodKilled, SecondPodGone, Settled, Here
    <2>2. [old EXCEPT !.terminating = TRUE] \in Pod
      BY <2>1 DEF Pod
    <2>3. QED
      BY <1>4, <2>1, <2>2, NoneAssumption DEF PodKilled, SecondPodGone, Pod
  <1>5. QED
    BY <1>1, <1>2, <1>3, <1>4 DEF World

LEMMA WorldLeaves ==
    ASSUME NEW n, NEW m, World(n, m)
    PROVE  UNCHANGED <<dynatrace, pass, faults>>
  BY DEF World, PodStarts, PodUnready, PodGone, PodKilled, SecondPodGone

LEMMA NewPodType == TypeOK => NewPod \in Pod /\ NewPod.ver = latest /\ ~NewPod.terminating
  BY DEF TypeOK, NewPod, Pod

LEMMA CreatedType ==
    ASSUME TypeOK, NEW n \in Node, PodCreated(n)
    PROVE  pods' \in Pods
  <1>1. PICK m \in NewNames(n) : Put(n, m, NewPod)
    BY DEF PodCreated
  <1>2. m \in Name /\ pods \in Pods
    BY DEF NewNames, TypeOK, Pods
  <1>3. QED
    BY <1>1, <1>2, NewPodType, PutType

(* The pod that is deleted is the one of the list, and it exists.                *)
LEMMA DeletePodEffect ==
    ASSUME TypeOK, DeletePod
    PROVE  \E p \in doomed :
              /\ p \in PodName /\ At(p) \in Pod
              /\ target' = p /\ doomed' = doomed \ {p} /\ touched' = touched \cup {p[1]}
              /\ \A k \in Node, l \in Name :
                    pods'[k][l] = IF <<k, l>> = p THEN [At(p) EXCEPT !.terminating = TRUE]
                                                  ELSE pods[k][l]
              /\ pods' \in Pods
  <1>1. PICK p \in doomed : \E v \in Victims(p) :
          /\ pods' = [pods EXCEPT ![v[1]][v[2]].terminating = TRUE]
          /\ target' = v /\ doomed' = doomed \ {p}
          /\ touched' = touched \cup {p[1]}
    BY DEF DeletePod
  <1>2. p \in PodName /\ At(p) # None /\ target' = p
        /\ pods' = [pods EXCEPT ![p[1]][p[2]].terminating = TRUE]
    BY <1>1 DEF Victims, TypeOK
  <1>3. p = <<p[1], p[2]>> /\ p[1] \in Node /\ p[2] \in Name
    BY <1>2 DEF PodName
  <1>4. At(p) \in Pod /\ [At(p) EXCEPT !.terminating = TRUE] \in Pod
    <2>1. At(p) \in Pod
      BY <1>2, <1>3 DEF TypeOK, At
    <2>2. QED
      BY <2>1 DEF Pod
  <1>5. Put(p[1], p[2], [At(p) EXCEPT !.terminating = TRUE])
    BY <1>2 DEF Put, At
  <1>6. pods \in Pods
    BY DEF TypeOK, Pods
  <1>7. pods' \in Pods
    BY <1>3, <1>4, <1>5, <1>6, PutType
  <1>8. \A k \in Node, l \in Name :
           pods'[k][l] = IF k = p[1] /\ l = p[2] THEN [At(p) EXCEPT !.terminating = TRUE]
                                                 ELSE pods[k][l]
    BY <1>3, <1>5, <1>6, PutEffect
  <1>9. \A k \in Node, l \in Name : <<k, l>> = p <=> k = p[1] /\ l = p[2]
    BY <1>3
  <1> DEFINE gone == [At(p) EXCEPT !.terminating = TRUE]
  <1> HIDE DEF gone
  <1>10. \A k \in Node, l \in Name :
           pods'[k][l] = IF <<k, l>> = p THEN gone ELSE pods[k][l]
    BY <1>8, <1>9 DEF gone
  <1>11. QED
    BY <1>1, <1>2, <1>4, <1>7, <1>10 DEF gone

(* What a pass that waits does with its own variables.                           *)
LEMMA AgainGoes ==
    ASSUME NEW failed \in BOOLEAN, Again(failed)
    PROVE  \/ /\ TimeLeft(NextSplay) /\ splay' = NextSplay
              /\ UNCHANGED <<pc, wanted, doomed, target, touched>>
           \/ ~TimeLeft(NextSplay) /\ ~failed /\ GoOn
           \/ ~TimeLeft(NextSplay) /\ failed /\ Ended
  BY DEF Again, TimedOut

LEMMA WaitGoes ==
    ASSUME Attempt \/ NoWait
    PROVE  \/ /\ TimeLeft(NextSplay) /\ splay' = NextSplay
              /\ UNCHANGED <<pc, wanted, doomed, target, touched>>
           \/ GoOn /\ (TimeLeft(splay) => \E m : m \in FoundPods)
           \/ Ended
  <1>1. CASE NoWait
    BY <1>1 DEF NoWait, TimedOut
  <1>2. CASE Attempt /\ Ready /\ GoOn
    BY <1>2 DEF Ready
  <1>3. CASE Attempt /\ Again(TRUE)
    BY <1>3, AgainGoes
  <1>4. CASE Attempt /\ Again(Cardinality(FoundPods) # 1)
    <2>1. Cardinality(FoundPods) = 1 => FoundPods # {}
      BY FS_EmptySet
    <2>2. (Cardinality(FoundPods) # 1) \in BOOLEAN
      OBVIOUS
    <2>3. QED
      BY <1>4, <2>1, <2>2, AgainGoes
  <1>5. QED
    BY <1>1, <1>2, <1>3, <1>4 DEF Attempt

LEMMA WaitType ==
    ASSUME TypeOK, Attempt \/ NoWait
    PROVE  TypeOK'
  <1>1. UNCHANGED <<kubernetes, dynatrace, faults>>
    BY DEF Attempt, NoWait
  <1>2. /\ pc' \in {"idle", "delete", "wait"} /\ wanted' \in 0 .. MaxVersion /\ doomed' \in SUBSET PodName
        /\ target' \in PodName \cup {None} /\ splay' \in 0 .. Width - 1 /\ touched' \in SUBSET Node
        /\ pc' = "wait" => target' # None
    <2>1. CASE splay' = NextSplay /\ UNCHANGED <<pc, wanted, doomed, target, touched>>
      BY <2>1, NextSplayType DEF TypeOK
    <2>2. CASE GoOn
      BY <2>2, GoOnType
    <2>3. CASE Ended
      BY <2>3, EndedType
    <2>4. QED
      BY <2>1, <2>2, <2>3, WaitGoes
  <1>3. QED
    BY <1>1, <1>2 DEF TypeOK, kubernetes, dynatrace

LEMMA TypeStep == TypeOK /\ [Next]_vars => TypeOK'
  <1> SUFFICES ASSUME TypeOK, [Next]_vars PROVE TypeOK'
    OBVIOUS
  <1> USE DEF kubernetes, dynatrace, pass
  <1>1. CASE UNCHANGED vars
    BY <1>1 DEF vars, TypeOK
  <1>2. ASSUME NEW n \in Node, PodCreated(n) PROVE TypeOK'
    <2>1. pods' \in Pods
      BY <1>2, CreatedType
    <2>2. QED
      BY <1>2, <2>1 DEF PodCreated, TypeOK, Pods
  <1>3. ASSUME NEW n \in Node, HostReported(n) \/ HostSilent(n) PROVE TypeOK'
    <2>1. \A m \in Unreported(n) : pods[n][m].ver \in 0 .. MaxVersion
      BY NumbersType DEF Unreported, Settled, Here, TypeOK, Pod
    <2>2. reported' \in [Node -> 0 .. MaxVersion]
      BY <1>3, <2>1, NumbersType DEF HostReported, HostSilent, TypeOK
    <2>3. QED
      BY <1>3, <2>2 DEF HostReported, HostSilent, TypeOK
  <1>4. ASSUME NEW n \in Node, NEW m \in Name, World(n, m) PROVE TypeOK'
    <2>1. pods' \in Pods
      BY <1>4, WorldPuts, PutType DEF TypeOK, Pods
    <2>2. QED
      BY <1>4, <2>1, WorldLeaves DEF TypeOK, Pods
  <1>5. CASE VersionPublished
    BY <1>5 DEF VersionPublished, TypeOK
  <1>6. CASE FaultsEnd
    BY <1>6 DEF FaultsEnd, TypeOK
  <1>7. CASE Plan \/ PlanNothing
    <2>1. Outdated(latest) \in SUBSET PodName /\ latest \in 0 .. MaxVersion
      BY NumbersType DEF Outdated, TypeOK
    <2>2. QED
      BY <1>1, <1>7, <2>1 DEF Plan, PlanNothing, TypeOK
  <1>8. CASE DeletePod
    <2>1. target' \in PodName /\ doomed' \in SUBSET PodName /\ touched' \in SUBSET Node /\ pods' \in Pods
      BY <1>8, DeletePodEffect DEF TypeOK, PodName
    <2>2. QED
      BY <1>8, <2>1, NoneAssumption DEF DeletePod, TypeOK, Pods
  <1>9. CASE DeleteFails \/ Crash
    BY <1>9, EndedType DEF DeleteFails, Crash, TypeOK
  <1>10. CASE Attempt \/ NoWait
    BY <1>10, WaitType
  <1>11. QED
    BY <1>1, <1>2, <1>3, <1>4, <1>5, <1>6, <1>7, <1>8, <1>9, <1>10 DEF Next, Rollout, World

(* Every reachable state is well typed: the counter stays within its width, and  *)
(* whoever waits knows the pod it has deleted.                                   *)
THEOREM TypeCorrect == Spec => []TypeOK
  <1>1. Init => TypeOK
    BY InitType
  <1>2. TypeOK /\ [Next]_vars => TypeOK'
    BY TypeStep
  <1>3. QED
    BY <1>1, <1>2, PTL DEF Spec

--------------------------------------------------------------------------------
(* Only outdated pods are deleted *)

(* Every pod of the list that still exists is older than what the pass brings,   *)
(* whoever else has deleted or started pods since the list was made.             *)
ListOfOutdated == \A p \in doomed : At(p) # None => At(p).ver < wanted
ListInv == faults \subseteq Faults /\ ListOfOutdated

LEMMA PassGoesOn ==
    ASSUME GoOn \/ Ended
    PROVE  doomed' = {} \/ UNCHANGED <<doomed, wanted>>
  BY DEF GoOn, Ended

LEMMA KeptList ==
    ASSUME ListInv, UNCHANGED pods, faults' \subseteq faults,
           doomed' = {} \/ UNCHANGED <<doomed, wanted>>
    PROVE  ListInv'
  BY DEF ListInv, ListOfOutdated, At

LEMMA PlannedList ==
    ASSUME TypeOK, "early" \notin faults, Plan
    PROVE  ListOfOutdated'
  <1> SUFFICES ASSUME NEW p \in doomed', At(p)' # None PROVE At(p)'.ver < wanted'
    BY DEF ListOfOutdated
  <1>0. /\ p \in PodName /\ At(p) # None /\ At(p)' = At(p) /\ wanted' = latest
        /\ reported[p[1]] # 0 /\ IsDesiredNewer(reported[p[1]], latest)
    BY DEF Plan, Outdated, kubernetes, At
  <1>1. /\ p \in PodName /\ At(p) # None /\ At(p)' = At(p) /\ wanted' = latest
        /\ reported[p[1]] # 0 /\ reported[p[1]] < latest
    <2>1. reported[p[1]] \in Version /\ latest \in Version
      BY <1>0, NumbersType DEF TypeOK, PodName, Version
    <2>2. QED
      BY <1>0, <2>1, DesiredNewer
  <1>2. p[1] \in Node /\ p[2] \in Here(p[1])
    BY <1>1 DEF PodName, Here, At
  <1>3. reported[p[1]] \in {0, At(p).ver}
    BY <1>2 DEF Plan, UpToDate, At
  <1>4. QED
    BY <1>1, <1>3

LEMMA ListStep == TypeOK /\ ListInv /\ "early" \notin Faults /\ [Next]_vars => ListInv'
  <1> SUFFICES ASSUME TypeOK, ListInv, "early" \notin Faults, [Next]_vars PROVE ListInv'
    OBVIOUS
  <1> USE DEF kubernetes, dynatrace, pass
  <1>1. CASE UNCHANGED vars
    BY <1>1 DEF vars, ListInv, ListOfOutdated, At
  <1>2. ASSUME NEW n \in Node, PodCreated(n) PROVE ListInv'
    <2>1. PICK m \in NewNames(n) : Put(n, m, NewPod)
      BY <1>2 DEF PodCreated
    <2>2. m \in Name /\ <<n, m>> \notin doomed
      BY <2>1 DEF NewNames, Remembered
    <2>3. \A k \in Node, l \in Name : <<k, l>> \in doomed => pods'[k][l] = pods[k][l]
      <3>1. \A k \in Node, l \in Name :
               pods'[k][l] = IF k = n /\ l = m THEN NewPod ELSE pods[k][l]
        BY <2>1, <2>2, PutEffect DEF TypeOK, Pods
      <3>2. QED
        BY <2>2, <3>1
    <2>4. \A p \in doomed : At(p)' = At(p)
      BY <2>3 DEF TypeOK, PodName, At
    <2>5. QED
      BY <1>2, <2>4 DEF PodCreated, ListInv, ListOfOutdated
  <1>3. ASSUME NEW n \in Node, HostReported(n) \/ HostSilent(n) PROVE ListInv'
    BY <1>3, KeptList DEF HostReported, HostSilent
  <1>4. ASSUME NEW n \in Node, NEW m \in Name, World(n, m) PROVE ListInv'
    <2>1. PICK pod \in Pod \cup {None} : /\ Put(n, m, pod) /\ pods[n][m] # None
                                         /\ pod # None => pod.ver = pods[n][m].ver
      BY <1>4, WorldPuts
    <2>2. \A k \in Node, l \in Name :
             pods'[k][l] # None => pods[k][l] # None /\ pods'[k][l].ver = pods[k][l].ver
      BY <2>1, PutEffect DEF TypeOK, Pods
    <2>3. \A p \in doomed : At(p)' # None => At(p) # None /\ At(p)'.ver = At(p).ver
      BY <2>2 DEF TypeOK, PodName, At
    <2>4. UNCHANGED <<doomed, wanted, faults>>
      BY <1>4, WorldLeaves
    <2>5. QED
      BY <2>3, <2>4 DEF ListInv, ListOfOutdated
  <1>5. CASE VersionPublished \/ FaultsEnd \/ PlanNothing
    BY <1>5, KeptList DEF VersionPublished, FaultsEnd, PlanNothing, vars
  <1>6. CASE Plan
    BY <1>6, PlannedList DEF Plan, ListInv
  <1>7. CASE DeletePod
    <2>1. PICK p \in doomed :
              /\ At(p) \in Pod /\ doomed' = doomed \ {p}
              /\ \A k \in Node, l \in Name :
                    <<k, l>> # p => pods'[k][l] = pods[k][l]
      BY <1>7, DeletePodEffect
    <2>2. \A q \in doomed' : q \in doomed /\ At(q)' = At(q)
      BY <2>1 DEF TypeOK, PodName, At
    <2>3. QED
      BY <1>7, <2>2 DEF DeletePod, ListInv, ListOfOutdated
  <1>8. CASE DeleteFails \/ Crash
    BY <1>8, PassGoesOn, KeptList DEF DeleteFails, Crash
  <1>9. CASE Attempt \/ NoWait
    <2>1. doomed' = {} \/ UNCHANGED <<doomed, wanted>>
      BY <1>9, WaitGoes, PassGoesOn
    <2>2. QED
      BY <1>9, <2>1, KeptList DEF Attempt, NoWait
  <1>10. QED
    BY <1>1, <1>2, <1>3, <1>4, <1>5, <1>6, <1>7, <1>8, <1>9 DEF Next, Rollout, World

(* Only DeletePod goes from deleting to waiting.                                 *)
LEMMA DeletionIsDeletePod ==
    ASSUME [Next]_vars, pc = "delete", pc' = "wait"
    PROVE  DeletePod
  <1> USE DEF kubernetes, dynatrace, pass
  <1>1. ASSUME NEW n, NEW m, World(n, m) PROVE pc' = pc
    BY <1>1, WorldLeaves
  <1>2. ~(Attempt \/ NoWait \/ Plan \/ PlanNothing)
    BY DEF Attempt, NoWait, Plan, PlanNothing
  <1>3. ~(DeleteFails \/ Crash)
    BY DEF DeleteFails, Crash, Ended
  <1>4. QED
    BY <1>1, <1>2, <1>3 DEF Next, Rollout, World, vars, PodCreated, HostReported, HostSilent,
                            VersionPublished, FaultsEnd

(* When passes start with Dynatrace up to date, a pass deletes no pod that has   *)
(* the version it brings or a newer one, for any number of nodes and pods, with  *)
(* rollbacks, pods killed by others and second pods on a node.                   *)
THEOREM DeletesOnlyOutdated ==
    ASSUME "early" \notin Faults
    PROVE  Spec => OnlyOutdatedPodsAreDeleted
  <1>1. Init => ListInv
    BY DEF Init, ListInv, ListOfOutdated
  <1>2. TypeOK /\ ListInv /\ [Next]_vars => ListInv'
    BY ListStep
  <1>3. TypeOK /\ ListInv /\ [Next]_vars
        => [pc = "delete" /\ pc' = "wait" => pods[target'[1]][target'[2]].ver < wanted]_vars
    <2> SUFFICES ASSUME TypeOK, ListInv, [Next]_vars, pc = "delete", pc' = "wait"
                 PROVE  pods[target'[1]][target'[2]].ver < wanted
      OBVIOUS
    <2>1. DeletePod
      BY DeletionIsDeletePod
    <2>2. target' \in doomed /\ At(target') \in Pod
      BY <2>1, DeletePodEffect
    <2>3. QED
      BY <2>2, NoneAssumption DEF ListInv, ListOfOutdated, At
  <1>4. QED
    BY <1>1, <1>2, <1>3, TypeCorrect, PTL DEF Spec, OnlyOutdatedPodsAreDeleted

--------------------------------------------------------------------------------
(* One node at a time *)

(* Only the rollout deletes pods, it starts when earlier restarts are over, and  *)
(* it waits at all.                                                              *)
Undisturbed == Faults \cap {"early", "killed", "second"} = {} /\ WaitSecs > 0

Terminating(p) == At(p) # None /\ At(p).terminating

(* A node has one pod that stays, and one pod in the list, if any.               *)
OnePodPerNode ==
    /\ \A n \in Node : \A k, l \in Settled(n) : k = l
    /\ \A p, q \in doomed : p[1] = q[1] => p = q

(* The pods being terminated are those the pass has deleted: it has not been to  *)
(* the nodes in the list, and on the node it waits for only its target goes.     *)
OnlyOursGo ==
    /\ \A p \in doomed : p[1] \notin touched
    /\ pc # "idle" => \A p \in PodName : Terminating(p) => p[1] \in touched
    /\ pc = "wait" => /\ target \in PodName /\ target[1] \in touched
                      /\ \A p \in PodName : p[1] = target[1] /\ Terminating(p) => p = target

(* The nodes it is done with have a pod that runs.                               *)
OthersRun ==
    \A n \in touched : (pc = "wait" /\ n = target[1]) \/ ~Down(n)

Counter == IF pc = "wait" THEN TimeLeft(splay) ELSE splay = 0
IdleIsEmpty == pc = "idle" => touched = {} /\ doomed = {}

NodesInv == /\ faults \subseteq Faults /\ Counter /\ IdleIsEmpty
            /\ OnePodPerNode /\ OnlyOursGo /\ OthersRun

(* Undisturbed, what Kubernetes does to existing pods leaves those that stay     *)
(* and those that go as they are, and stops no pod that runs.                    *)
LEMMA CalmPuts ==
    ASSUME TypeOK, OnePodPerNode, "killed" \notin faults,
           NEW n \in Node, NEW m \in Name, World(n, m)
    PROVE  \E pod \in Pod \cup {None} :
              /\ Put(n, m, pod) /\ pods[n][m] # None
              /\ pod = None => pods[n][m].terminating
              /\ pod # None => /\ pod.terminating = pods[n][m].terminating
                               /\ pods[n][m].phase # "pending" => pod.phase # "pending"
  <1> DEFINE old == pods[n][m]
  <1>0. old \in Pod \cup {None}
    BY DEF TypeOK
  <1>1. CASE PodGone(n, m)
    BY <1>1 DEF PodGone
  <1>2. CASE PodStarts(n, m)
    <2>1. old \in Pod
      BY <1>0, <1>2 DEF PodStarts
    <2>2. [old EXCEPT !.phase = "running"] \in Pod /\ [old EXCEPT !.phase = "ready"] \in Pod
      BY <2>1 DEF Pod
    <2>3. QED
      BY <1>2, <2>1, <2>2, NoneAssumption DEF PodStarts, Pod
  <1>3. CASE PodUnready(n, m)
    <2>1. old \in Pod
      BY <1>0, <1>3 DEF PodUnready
    <2>2. [old EXCEPT !.phase = "running"] \in Pod
      BY <2>1 DEF Pod
    <2>3. QED
      BY <1>3, <2>1, <2>2, NoneAssumption DEF PodUnready, Pod
  <1>4. ~PodKilled(n, m)
    BY DEF PodKilled
  <1>5. ~SecondPodGone(n, m)
    <2> SUFFICES ASSUME SecondPodGone(n, m) PROVE FALSE
      OBVIOUS
    <2>1. Settled(n) = {m}
      BY DEF SecondPodGone, OnePodPerNode
    <2>2. Cardinality(Settled(n)) = 1
      BY <2>1, FS_Singleton
    <2>3. QED
      BY <2>2 DEF SecondPodGone
  <1>6. QED
    BY <1>1, <1>2, <1>3, <1>4, <1>5 DEF World

(* What matters of the pods.                                                     *)
SamePods ==
    /\ \A p \in PodName : Terminating(p)' => Terminating(p)
    /\ \A n \in Node : \A k, l \in Settled(n)' : k = l
    /\ \A n \in Node : ~Down(n) => ~Down(n)'

LEMMA KeptNodes ==
    ASSUME TypeOK, NodesInv, SamePods, UNCHANGED pass, faults' \subseteq faults
    PROVE  NodesInv'
  <1> USE DEF NodesInv, pass
  <1>1. Counter' /\ IdleIsEmpty' /\ (faults \subseteq Faults)'
    BY DEF Counter, IdleIsEmpty, TimeLeft
  <1>2. OnePodPerNode'
    BY DEF OnePodPerNode, SamePods
  <1>3. OnlyOursGo'
    BY DEF OnlyOursGo, SamePods
  <1>4. OthersRun'
    BY DEF OthersRun, SamePods, TypeOK
  <1>5. QED
    BY <1>1, <1>2, <1>3, <1>4

LEMMA UnchangedPods == OnePodPerNode /\ UNCHANGED pods => SamePods
  BY DEF SamePods, OnePodPerNode, Terminating, At, Settled, Here, Down

LEMMA WorldKeepsPods ==
    ASSUME TypeOK, OnePodPerNode, "killed" \notin faults,
           NEW n \in Node, NEW m \in Name, World(n, m)
    PROVE  SamePods
  <1>1. PICK pod \in Pod \cup {None} :
              /\ Put(n, m, pod) /\ pods[n][m] # None
              /\ pod = None => pods[n][m].terminating
              /\ pod # None => /\ pod.terminating = pods[n][m].terminating
                               /\ pods[n][m].phase # "pending" => pod.phase # "pending"
    BY CalmPuts
  <1>2. \A k \in Node, l \in Name :
            pods'[k][l] = IF k = n /\ l = m THEN pod ELSE pods[k][l]
    BY <1>1, PutEffect DEF TypeOK, Pods
  <1>3. \A k \in Node, l \in Name :
            /\ pods'[k][l] # None => pods[k][l] # None /\ pods'[k][l].terminating = pods[k][l].terminating
            /\ pods'[k][l] = None => pods[k][l] = None \/ pods[k][l].terminating
    BY <1>1, <1>2
  <1>4. \A k \in Node : Settled(k)' = Settled(k)
    BY <1>1, <1>2, <1>3 DEF Settled, Here
  <1>5. \A k \in Node : \A l \in Settled(k) : pods[k][l].phase # "pending" => pods'[k][l].phase # "pending"
    BY <1>1, <1>2, <1>4 DEF Settled, Here
  <1>6. \A p \in PodName : Terminating(p)' => Terminating(p)
    BY <1>3 DEF Terminating, At, PodName
  <1>7. QED
    BY <1>4, <1>5, <1>6 DEF SamePods, OnePodPerNode, Down

LEMMA CreationKeepsPods ==
    ASSUME TypeOK, OnePodPerNode, "second" \notin faults, NEW n \in Node, PodCreated(n)
    PROVE  SamePods
  <1>1. PICK m \in NewNames(n) : Put(n, m, NewPod)
    BY DEF PodCreated
  <1>2. m \in Name /\ pods[n][m] = None
    BY DEF NewNames, Here
  <1>3. \A k \in Node, l \in Name :
            pods'[k][l] = IF k = n /\ l = m THEN NewPod ELSE pods[k][l]
    BY <1>1, <1>2, PutEffect DEF TypeOK, Pods
  <1>4. NewPod \in Pod /\ ~NewPod.terminating /\ NewPod # None
    BY NewPodType, NoneAssumption
  <1>5. Settled(n) = {} /\ Settled(n)' = {m}
    BY <1>2, <1>3, <1>4 DEF PodCreated, Settled, Here
  <1>6. \A k \in Node : k # n => Settled(k)' = Settled(k) /\ (Down(k) <=> Down(k)')
    BY <1>3 DEF Settled, Here, Down
  <1>7. Down(n)
    BY <1>5 DEF Down
  <1>8. \A p \in PodName : Terminating(p)' => Terminating(p)
    BY <1>3, <1>4 DEF Terminating, At, PodName
  <1>9. QED
    BY <1>5, <1>6, <1>7, <1>8 DEF SamePods, OnePodPerNode

(* A pass that has ended has nothing left to do.                                 *)
LEMMA EndedNodes ==
    ASSUME NodesInv, Ended, UNCHANGED pods, faults' \subseteq faults
    PROVE  NodesInv'
  <1>1. Counter' /\ IdleIsEmpty' /\ OnlyOursGo' /\ OthersRun'
    BY DEF Ended, Counter, IdleIsEmpty, OnlyOursGo, OthersRun
  <1>2. OnePodPerNode'
    BY DEF Ended, NodesInv, OnePodPerNode, Settled, Here
  <1>3. QED
    BY <1>1, <1>2 DEF NodesInv

LEMMA PlannedNodes ==
    ASSUME TypeOK, NodesInv, "early" \notin faults, Plan
    PROVE  NodesInv'
  <1> USE DEF kubernetes
  <1>1. pc = "idle" /\ pc' = "delete" /\ touched' = {} /\ splay' = 0 /\ UNCHANGED <<pods, faults>>
        /\ doomed' = Outdated(latest)
    BY DEF Plan, NodesInv, IdleIsEmpty, Counter
  <1>2. \A p \in PodName : ~Terminating(p)
    BY DEF Plan, UpToDate, Terminating, PodName, At, Here
  <1>3. \A p \in Outdated(latest) : p \in PodName /\ p[2] \in Settled(p[1])
    BY <1>2 DEF Outdated, Terminating, PodName, At, Settled, Here
  <1>4. \A p, q \in Outdated(latest) : p[1] = q[1] => p = q
    <2> SUFFICES ASSUME NEW p \in Outdated(latest), NEW q \in Outdated(latest), p[1] = q[1]
                 PROVE  p = q
      OBVIOUS
    <2>1. p[2] = q[2]
      BY <1>3 DEF NodesInv, OnePodPerNode, PodName
    <2>2. QED
      BY <1>3, <2>1 DEF PodName
  <1>5. OnePodPerNode'
    BY <1>1, <1>4 DEF NodesInv, OnePodPerNode, Settled, Here
  <1>6. OnlyOursGo'
    BY <1>1, <1>2 DEF OnlyOursGo, Terminating, At
  <1>7. Counter' /\ IdleIsEmpty' /\ OthersRun'
    BY <1>1 DEF Counter, IdleIsEmpty, OthersRun
  <1>8. QED
    BY <1>1, <1>5, <1>6, <1>7 DEF NodesInv

LEMMA DeletedNodes ==
    ASSUME TypeOK, NodesInv, WaitSecs > 0, DeletePod
    PROVE  NodesInv'
  <1>1. PICK p \in doomed :
              /\ p \in PodName /\ At(p) \in Pod
              /\ target' = p /\ doomed' = doomed \ {p} /\ touched' = touched \cup {p[1]}
              /\ \A k \in Node, l \in Name :
                    pods'[k][l] = IF <<k, l>> = p THEN [At(p) EXCEPT !.terminating = TRUE]
                                                  ELSE pods[k][l]
    BY DeletePodEffect
  <1>2. pc = "delete" /\ pc' = "wait" /\ UNCHANGED <<splay, faults>>
    BY DEF DeletePod
  <1>3. \A q \in PodName : q # p => At(q)' = At(q)
    BY <1>1 DEF PodName, At
  <1> DEFINE gone == [At(p) EXCEPT !.terminating = TRUE]
  <1>4. At(p)' = gone
    <2>1. p[1] \in Node /\ p[2] \in Name /\ <<p[1], p[2]>> = p
      BY <1>1 DEF PodName
    <2>2. \A k \in Node, l \in Name : <<k, l>> = p => pods'[k][l] = gone
      BY <1>1
    <2> HIDE DEF gone
    <2>3. pods'[p[1]][p[2]] = gone
      BY <2>1, <2>2
    <2>4. QED
      BY <2>3 DEF At
  <1>5. At(p)'.terminating
    BY <1>1, <1>4 DEF Pod
  <1>6. p[1] \notin touched
    BY <1>1 DEF NodesInv, OnlyOursGo
  <1>7. \A k \in Node : /\ Settled(k)' \subseteq Settled(k)
                        /\ k # p[1] => Settled(k)' = Settled(k) /\ (Down(k)' <=> Down(k))
    <2>1. \A k \in Node, l \in Name : <<k, l>> # p => pods'[k][l] = pods[k][l]
      BY <1>1
    <2>2. \A k \in Node, l \in Name : k # p[1] => pods'[k][l] = pods[k][l]
      BY <2>1
    <2>3. p[1] \in Node /\ p[2] \in Name /\ p = <<p[1], p[2]>> /\ p[2] \notin Settled(p[1])'
      BY <1>1, <1>5 DEF PodName, At, Settled
    <2>4. \A k \in Node : Settled(k)' \subseteq Settled(k)
      BY <2>1, <2>3 DEF Settled, Here
    <2>5. \A k \in Node : k # p[1] => Settled(k)' = Settled(k)
      BY <2>2 DEF Settled, Here
    <2>6. \A k \in Node : k # p[1] => (Down(k)' <=> Down(k))
      BY <2>2, <2>5 DEF Down, Settled, Here
    <2>7. QED
      BY <2>4, <2>5, <2>6
  <1>8. OnePodPerNode'
    BY <1>1, <1>7 DEF NodesInv, OnePodPerNode
  <1>9. OnlyOursGo'
    <2>1. \A q \in doomed' : q[1] \notin touched'
      BY <1>1 DEF NodesInv, OnlyOursGo, OnePodPerNode
    <2>2. \A q \in PodName : Terminating(q)' => q = p \/ Terminating(q)
      BY <1>3 DEF Terminating
    <2>3. \A q \in PodName : Terminating(q)' => q[1] \in touched'
      BY <1>1, <1>2, <2>2 DEF NodesInv, OnlyOursGo
    <2>4. \A q \in PodName : q[1] = p[1] /\ Terminating(q)' => q = p
      BY <1>2, <1>6, <2>2 DEF NodesInv, OnlyOursGo
    <2>5. QED
      BY <1>1, <1>2, <2>1, <2>3, <2>4 DEF OnlyOursGo
  <1>10. OthersRun'
    <2>1. \A n \in touched : ~Down(n) /\ n # p[1] /\ n \in Node
      BY <1>2, <1>6 DEF NodesInv, OthersRun, TypeOK
    <2>2. \A n \in touched : ~Down(n)'
      BY <1>7, <2>1
    <2>3. QED
      BY <1>1, <1>2, <2>2 DEF OthersRun
  <1>11. Counter' /\ IdleIsEmpty'
    BY <1>2, NumbersType DEF NodesInv, Counter, IdleIsEmpty, TimeLeft
  <1>12. QED
    BY <1>2, <1>8, <1>9, <1>10, <1>11 DEF NodesInv

(* The pod an attempt takes for the replacement stays, and runs.                 *)
LEMMA FoundPodRuns ==
    ASSUME TypeOK, NodesInv, pc = "wait", NEW m \in FoundPods
    PROVE  ~Down(target[1])
  <1>1. target \in PodName /\ target[1] \in Node /\ m \in Here(target[1]) /\ m \in Name
        /\ <<target[1], m>> # target /\ pods[target[1]][m].phase # "pending"
    BY DEF NodesInv, OnlyOursGo, FoundPods, Here, PodName
  <1>2. <<target[1], m>> \in PodName
    BY <1>1 DEF PodName
  <1>3. ~Terminating(<<target[1], m>>)
    BY <1>1, <1>2 DEF NodesInv, OnlyOursGo
  <1>4. m \in Settled(target[1])
    BY <1>1, <1>3 DEF Terminating, At, Settled, Here
  <1>5. QED
    BY <1>1, <1>4 DEF Down

LEMMA WaitedNodes ==
    ASSUME TypeOK, NodesInv, Attempt \/ NoWait
    PROVE  NodesInv'
  <1>1. pc = "wait" /\ TimeLeft(splay) /\ UNCHANGED <<pods, faults>>
    BY DEF Attempt, NoWait, NodesInv, Counter, kubernetes
  <1>2. CASE Ended
    BY <1>1, <1>2, EndedNodes
  <1>3. CASE TimeLeft(NextSplay) /\ splay' = NextSplay
             /\ UNCHANGED <<pc, wanted, doomed, target, touched>>
    <2>1. Counter' /\ IdleIsEmpty'
      BY <1>1, <1>3 DEF Counter, IdleIsEmpty, TimeLeft
    <2>2. OnePodPerNode' /\ OnlyOursGo' /\ OthersRun'
      BY <1>1, <1>3 DEF NodesInv, OnePodPerNode, OnlyOursGo, OthersRun, Terminating, At, Settled, Here, Down
    <2>3. QED
      BY <1>1, <2>1, <2>2 DEF NodesInv
  <1>4. CASE GoOn /\ ~Ended /\ \E m : m \in FoundPods
    <2>1. pc' = "delete" /\ splay' = 0 /\ UNCHANGED <<wanted, doomed, touched>>
      BY <1>4 DEF GoOn
    <2>2. ~Down(target[1])
      BY <1>1, <1>4, FoundPodRuns
    <2>3. OthersRun'
      BY <1>1, <2>1, <2>2 DEF NodesInv, OthersRun, Down, Settled, Here
    <2>4. OnePodPerNode' /\ OnlyOursGo'
      BY <1>1, <2>1 DEF NodesInv, OnePodPerNode, OnlyOursGo, Terminating, At, Settled, Here
    <2>5. Counter' /\ IdleIsEmpty'
      BY <2>1 DEF Counter, IdleIsEmpty
    <2>6. QED
      BY <1>1, <2>3, <2>4, <2>5 DEF NodesInv
  <1>5. QED
    BY <1>1, <1>2, <1>3, <1>4, WaitGoes

LEMMA NodesStep == TypeOK /\ NodesInv /\ Undisturbed /\ [Next]_vars => NodesInv'
  <1> SUFFICES ASSUME TypeOK, NodesInv, Undisturbed, [Next]_vars PROVE NodesInv'
    OBVIOUS
  <1>1. OnePodPerNode /\ faults \cap {"early", "killed", "second"} = {} /\ WaitSecs > 0
    BY DEF NodesInv, Undisturbed
  <1>2. ASSUME UNCHANGED <<pods, pass>>, faults' \subseteq faults PROVE NodesInv'
    BY <1>1, <1>2, UnchangedPods, KeptNodes DEF pass
  <1>3. CASE UNCHANGED vars
    BY <1>2, <1>3 DEF vars, kubernetes
  <1>4. ASSUME NEW n \in Node, PodCreated(n) PROVE NodesInv'
    BY <1>1, <1>4, CreationKeepsPods, KeptNodes DEF PodCreated
  <1>5. ASSUME NEW n \in Node, NEW m \in Name, World(n, m) PROVE NodesInv'
    BY <1>1, <1>5, WorldKeepsPods, WorldLeaves, KeptNodes
  <1>6. ASSUME NEW n \in Node, HostReported(n) \/ HostSilent(n) PROVE NodesInv'
    BY <1>2, <1>6 DEF HostReported, HostSilent, kubernetes
  <1>7. CASE VersionPublished \/ FaultsEnd \/ PlanNothing
    BY <1>2, <1>7 DEF VersionPublished, FaultsEnd, PlanNothing, kubernetes, vars
  <1>8. CASE Plan
    BY <1>1, <1>8, PlannedNodes
  <1>9. CASE DeletePod
    BY <1>1, <1>9, DeletedNodes
  <1>10. CASE DeleteFails \/ Crash
    BY <1>10, EndedNodes DEF DeleteFails, Crash, kubernetes
  <1>11. CASE Attempt \/ NoWait
    BY <1>11, WaitedNodes
  <1>12. QED
    BY <1>3, <1>4, <1>5, <1>6, <1>7, <1>8, <1>9, <1>10, <1>11 DEF Next, Rollout, World

LEMMA InitNodes == Init => NodesInv
  <1> SUFFICES ASSUME Init PROVE NodesInv
    OBVIOUS
  <1>1. PICK m \in Name : pods = [n \in Node |-> [k \in Name |->
            IF k = m THEN [ver |-> 1, phase |-> "ready", terminating |-> FALSE] ELSE None]]
    BY DEF Init
  <1>2. \A n \in Node : Settled(n) \subseteq {m}
    BY <1>1 DEF Settled, Here
  <1>3. OnePodPerNode
    BY <1>2 DEF Init, OnePodPerNode
  <1>4. QED
    BY <1>3 DEF Init, NodesInv, Counter, IdleIsEmpty, OnlyOursGo, OthersRun

LEMMA AtMostOneDown == TypeOK /\ NodesInv => OneNodeAtATime
  <1> SUFFICES ASSUME TypeOK, NodesInv PROVE OneNodeAtATime
    OBVIOUS
  <1>1. Away \subseteq {target[1]}
    BY DEF NodesInv, OthersRun, Away
  <1>2. IsFiniteSet({target[1]}) /\ Cardinality({target[1]}) = 1
    BY FS_Singleton
  <1>3. Cardinality(Away) <= 1
    BY <1>1, <1>2, FS_Subset
  <1>4. QED
    BY <1>3 DEF OneNodeAtATime

(* While pods are deleted by nobody else, a pass that waits at all never has two *)
(* of the nodes it works on without a running pod: for any number of nodes, with *)
(* failing calls, crashes, pods that get unready or never start, and rollbacks.  *)
THEOREM OneAfterTheOther ==
    ASSUME Undisturbed
    PROVE  Spec => []OneNodeAtATime
  <1>1. Init => NodesInv
    BY InitNodes
  <1>2. TypeOK /\ NodesInv /\ [Next]_vars => NodesInv'
    BY NodesStep
  <1>3. TypeOK /\ NodesInv => OneNodeAtATime
    BY AtMostOneDown
  <1>4. QED
    BY <1>1, <1>2, <1>3, TypeCorrect, PTL DEF Spec

--------------------------------------------------------------------------------
(* A pass restarts the nodes in turn *)

(* Nobody takes away the pods that are still in the list.                        *)
Present == \A p \in doomed : At(p) # None

(* The pod deleted last does not stay, and no other gets its name.               *)
TargetGoes == pc = "wait" => At(target) = None \/ Terminating(target)
TurnInv == NodesInv /\ Present /\ TargetGoes

LEMMA PresentStep ==
    ASSUME TypeOK, NodesInv, Present, Undisturbed, [Next]_vars
    PROVE  Present'
  <1> USE DEF kubernetes, dynatrace, pass
  <1>1. OnePodPerNode /\ faults \cap {"early", "killed", "second"} = {}
    BY DEF NodesInv, Undisturbed
  <1>2. ASSUME UNCHANGED pods, doomed' \subseteq doomed PROVE Present'
    BY <1>2 DEF Present, At
  <1>3. ASSUME NEW n \in Node, PodCreated(n) PROVE Present'
    <2>1. PICK m \in NewNames(n) : Put(n, m, NewPod)
      BY <1>3 DEF PodCreated
    <2>2. m \in Name /\ NewPod # None
      BY <2>1, NewPodType, NoneAssumption DEF NewNames
    <2>3. \A k \in Node, l \in Name : pods[k][l] # None => pods'[k][l] # None
      BY <2>1, <2>2, PutEffect DEF TypeOK, Pods
    <2>4. UNCHANGED doomed
      BY <1>3 DEF PodCreated
    <2>5. QED
      BY <2>3, <2>4 DEF Present, TypeOK, PodName, At
  <1>4. ASSUME NEW n \in Node, NEW m \in Name, World(n, m) PROVE Present'
    <2>1. PICK pod \in Pod \cup {None} : /\ Put(n, m, pod)
                                         /\ pod = None => pods[n][m].terminating
      BY <1>1, <1>4, CalmPuts
    <2>2. \A k \in Node, l \in Name :
             pods'[k][l] = None => pods[k][l] = None \/ pods[k][l].terminating
      BY <2>1, PutEffect DEF TypeOK, Pods
    <2>3. \A p \in doomed : ~Terminating(p) /\ p \in PodName
      BY DEF NodesInv, OnlyOursGo, IdleIsEmpty, TypeOK
    <2>4. UNCHANGED doomed
      BY <1>4, WorldLeaves
    <2>5. QED
      BY <2>2, <2>3, <2>4 DEF Present, Terminating, PodName, At
  <1>5. CASE Plan
    BY <1>5 DEF Plan, Present, Outdated, At
  <1>6. CASE DeletePod
    <2>1. PICK p \in doomed :
              /\ doomed' = doomed \ {p}
              /\ \A k \in Node, l \in Name : <<k, l>> # p => pods'[k][l] = pods[k][l]
      BY <1>6, DeletePodEffect
    <2>2. \A q \in doomed' : q \in doomed /\ At(q)' = At(q)
      BY <2>1 DEF TypeOK, PodName, At
    <2>3. QED
      BY <2>2 DEF Present
  <1>7. CASE DeleteFails \/ Crash
    BY <1>2, <1>7 DEF DeleteFails, Crash, Ended
  <1>8. CASE Attempt \/ NoWait
    BY <1>2, <1>8, WaitGoes, PassGoesOn DEF Attempt, NoWait
  <1>9. CASE UNCHANGED <<pods, doomed>>
    BY <1>2, <1>9
  <1>10. QED
    BY <1>3, <1>4, <1>5, <1>6, <1>7, <1>8, <1>9
    DEF Next, Rollout, World, vars, HostReported, HostSilent, VersionPublished, FaultsEnd, PlanNothing

LEMMA TargetStep ==
    ASSUME TypeOK, NodesInv, TargetGoes, Undisturbed, [Next]_vars
    PROVE  TargetGoes'
  <1> USE DEF kubernetes, dynatrace, pass
  <1>1. OnePodPerNode /\ faults \cap {"early", "killed", "second"} = {}
    BY DEF NodesInv, Undisturbed
  <1>2. ASSUME UNCHANGED pods, pc' = "wait" => UNCHANGED <<pc, target>> PROVE TargetGoes'
    BY <1>2 DEF TargetGoes, Terminating, At
  <1>3. ASSUME NEW n \in Node, PodCreated(n) PROVE TargetGoes'
    <2>1. PICK m \in NewNames(n) : Put(n, m, NewPod)
      BY <1>3 DEF PodCreated
    <2>2. m \in Name /\ <<n, m>> # target
      BY <2>1 DEF NewNames, Remembered
    <2>3. \A k \in Node, l \in Name : <<k, l>> = target => pods'[k][l] = pods[k][l]
      <3>1. \A k \in Node, l \in Name :
               pods'[k][l] = IF k = n /\ l = m THEN NewPod ELSE pods[k][l]
        BY <2>1, <2>2, PutEffect DEF TypeOK, Pods
      <3>2. QED
        BY <2>2, <3>1
    <2>4. UNCHANGED <<pc, target>>
      BY <1>3 DEF PodCreated
    <2>5. QED
      BY <2>3, <2>4 DEF TargetGoes, NodesInv, OnlyOursGo, Terminating, PodName, At
  <1>4. ASSUME NEW n \in Node, NEW m \in Name, World(n, m) PROVE TargetGoes'
    <2>1. PICK pod \in Pod \cup {None} :
              /\ Put(n, m, pod) /\ pods[n][m] # None
              /\ pod # None => pod.terminating = pods[n][m].terminating
      BY <1>1, <1>4, CalmPuts
    <2>2. \A k \in Node, l \in Name :
             pods'[k][l] # None => pods[k][l] # None /\ pods'[k][l].terminating = pods[k][l].terminating
      BY <2>1, PutEffect DEF TypeOK, Pods
    <2>3. UNCHANGED <<pc, target>>
      BY <1>4, WorldLeaves
    <2>4. QED
      BY <2>2, <2>3 DEF TargetGoes, NodesInv, OnlyOursGo, Terminating, PodName, At
  <1>5. CASE DeletePod
    <2>1. PICK p \in doomed :
              /\ p \in PodName /\ At(p) \in Pod /\ target' = p
              /\ \A k \in Node, l \in Name :
                    pods'[k][l] = IF <<k, l>> = p THEN [At(p) EXCEPT !.terminating = TRUE]
                                                  ELSE pods[k][l]
      BY <1>5, DeletePodEffect
    <2> DEFINE gone == [At(p) EXCEPT !.terminating = TRUE]
    <2>2. gone.terminating
      BY <2>1 DEF Pod
    <2> HIDE DEF gone
    <2>3. p[1] \in Node /\ p[2] \in Name /\ <<p[1], p[2]>> = p
      BY <2>1 DEF PodName
    <2>4. \A k \in Node, l \in Name : <<k, l>> = p => pods'[k][l] = gone
      BY <2>1 DEF gone
    <2>5. pods'[p[1]][p[2]] = gone
      BY <2>3, <2>4
    <2>6. QED
      BY <2>1, <2>2, <2>5 DEF TargetGoes, Terminating, At
  <1>6. CASE Plan
    BY <1>6 DEF Plan, TargetGoes
  <1>7. CASE DeleteFails \/ Crash
    BY <1>2, <1>7 DEF DeleteFails, Crash, Ended
  <1>8. CASE Attempt \/ NoWait
    <2>1. UNCHANGED pods /\ pc = "wait"
      BY <1>8 DEF Attempt, NoWait
    <2>2. pc' = "wait" => UNCHANGED <<pc, target>>
      BY <1>8, <2>1, WaitGoes DEF GoOn, Ended
    <2>3. QED
      BY <1>2, <2>1, <2>2
  <1>9. CASE UNCHANGED <<pods, pc, target>>
    BY <1>2, <1>9
  <1>10. QED
    BY <1>3, <1>4, <1>5, <1>6, <1>7, <1>8, <1>9
    DEF Next, Rollout, World, vars, HostReported, HostSilent, VersionPublished, FaultsEnd, PlanNothing

(* While only Kubernetes moves, nobody goes away: at most the one comes back.    *)
LEMMA PodsTurn ==
    ASSUME TypeOK, NodesInv, SamePods, UNCHANGED pass, UNCHANGED faults
    PROVE  [Turn!Next]_(Turn!vars)
  <1>1. UNCHANGED <<Busy, Left, Trouble>>
    BY DEF Busy, Left, Trouble, pass
  <1>2. Away' \subseteq Away /\ Away \subseteq {target[1]}
    BY DEF Away, SamePods, TypeOK, pass, NodesInv, OthersRun
  <1>3. Away' = Away \/ (Away # {} /\ Away' = {})
    BY <1>2
  <1>4. QED
    BY <1>1, <1>3 DEF Turn!Next, Turn!vars, Turn!ComesBack

LEMMA DeletionTurn ==
    ASSUME TypeOK, NodesInv, NodesInv', DeletePod
    PROVE  Turn!Next
  <1>1. PICK p \in doomed :
              /\ p \in PodName /\ At(p) \in Pod
              /\ target' = p /\ doomed' = doomed \ {p} /\ touched' = touched \cup {p[1]}
              /\ \A k \in Node, l \in Name :
                    pods'[k][l] = IF <<k, l>> = p THEN [At(p) EXCEPT !.terminating = TRUE]
                                                  ELSE pods[k][l]
    BY DeletePodEffect
  <1>2. pc = "delete" /\ pc' = "wait" /\ UNCHANGED faults
    BY DEF DeletePod
  <1>3. p[1] \in Node /\ p[2] \in Name /\ p = <<p[1], p[2]>>
    BY <1>1 DEF PodName
  <1>4. Busy /\ Busy' /\ UNCHANGED Trouble
    BY <1>2 DEF Busy, Trouble
  <1>5. p[1] \in Left /\ Left' = Left \ {p[1]}
    BY <1>1 DEF Left, NodesInv, OnePodPerNode
  <1>6. Away = {}
    BY <1>2 DEF Away, NodesInv, OthersRun
  <1>7. Settled(p[1])' = {}
    <2> DEFINE gone == [At(p) EXCEPT !.terminating = TRUE]
    <2>1. gone.terminating /\ p[2] \in Here(p[1])
      BY <1>1, <1>3, NoneAssumption DEF Pod, Here, At
    <2> HIDE DEF gone
    <2>2. pods'[p[1]][p[2]] = gone
      BY <1>1, <1>3 DEF gone
    <2>3. \A l \in Name : l # p[2] => pods'[p[1]][l] = pods[p[1]][l]
      BY <1>1, <1>3
    <2>4. p[2] \in Settled(p[1])
      BY <1>1, <1>2, <1>3, <2>1 DEF NodesInv, OnlyOursGo, Terminating, Settled, Here, At
    <2>5. \A l \in Settled(p[1]) : l = p[2]
      BY <1>3, <2>4 DEF NodesInv, OnePodPerNode
    <2>6. QED
      BY <2>1, <2>2, <2>3, <2>5 DEF Settled, Here
  <1>8. Away' = {p[1]}
    <2>1. p[1] \in Away'
      BY <1>1, <1>7 DEF Away, Down
    <2>2. Away' \subseteq {p[1]}
      BY <1>1 DEF Away, NodesInv, OthersRun
    <2>3. QED
      BY <2>1, <2>2
  <1>9. QED
    BY <1>3, <1>4, <1>5, <1>6, <1>8 DEF Turn!Next, Turn!TakeDown

(* A pass that stops has the list done and all agents running, or a reason.      *)
LEMMA StopTurns ==
    ASSUME NodesInv, pc # "idle", Ended, UNCHANGED faults,
           (Left = {} /\ Away = {}) \/ Away # {} \/ Trouble
    PROVE  Turn!Next
  <1>1. Busy /\ ~Busy' /\ Left' = {} /\ Away' = {} /\ UNCHANGED Trouble
    BY DEF Busy, Left, Away, Trouble, Ended
  <1>2. QED
    BY <1>1 DEF Turn!Next, Turn!Finish, Turn!GiveUp, Turn!Stop

(* The wait is over with the node's agent running.                               *)
LEMMA GoOnTurns ==
    ASSUME NodesInv, pc = "wait", ~Down(target[1]), GoOn, UNCHANGED <<pods, faults>>
    PROVE  [Turn!Next]_(Turn!vars)
  <1>1. Away = {}
    BY DEF Away, NodesInv, OthersRun
  <1>2. CASE doomed = {}
    BY <1>1, <1>2, StopTurns DEF GoOn, Left
  <1>3. CASE doomed # {}
    <2>1. pc' = "delete" /\ UNCHANGED <<doomed, touched>>
      BY <1>3 DEF GoOn
    <2>2. UNCHANGED <<Busy, Left, Away, Trouble>>
      BY <2>1 DEF Busy, Left, Away, Trouble, Down, Settled, Here
    <2>3. QED
      BY <2>2 DEF Turn!vars
  <1>4. QED
    BY <1>2, <1>3

(* The code gives up a wait without a failed call only for a node without a      *)
(* running pod: one that runs is the only pod it finds.                          *)
LEMMA NoneFound ==
    ASSUME TypeOK, NodesInv, TargetGoes, pc = "wait", Cardinality(FoundPods) # 1
    PROVE  Down(target[1])
  <1> SUFFICES ASSUME ~Down(target[1]) PROVE FALSE
    OBVIOUS
  <1>1. PICK m \in Settled(target[1]) : pods[target[1]][m].phase # "pending"
    BY DEF Down
  <1>2. target \in PodName /\ target = <<target[1], target[2]>> /\ target[1] \in Node
    BY DEF NodesInv, OnlyOursGo, PodName
  <1>3. \A l \in FoundPods : l \in Settled(target[1])
    <2> SUFFICES ASSUME NEW l \in FoundPods PROVE l \in Settled(target[1])
      OBVIOUS
    <2>1. l \in Here(target[1]) /\ l \in Name /\ <<target[1], l>> # target
      BY DEF FoundPods, Here
    <2>2. <<target[1], l>> \in PodName /\ ~Terminating(<<target[1], l>>)
      BY <1>2, <2>1 DEF PodName, NodesInv, OnlyOursGo
    <2>3. QED
      BY <2>1, <2>2 DEF Terminating, At, Settled, Here
  <1>4. FoundPods \subseteq {m}
    BY <1>2, <1>3 DEF NodesInv, OnePodPerNode
  <1>5. <<target[1], m>> # target
    BY <1>1, <1>2 DEF TargetGoes, Terminating, At, Settled, Here
  <1>6. FoundPods = {m}
    BY <1>1, <1>4, <1>5 DEF FoundPods, Settled
  <1>7. QED
    BY <1>6, FS_Singleton

LEMMA WaitTurns ==
    ASSUME TypeOK, TurnInv, Attempt \/ NoWait
    PROVE  [Turn!Next]_(Turn!vars)
  <1>1. pc = "wait" /\ TimeLeft(splay) /\ UNCHANGED <<pods, faults>> /\ target[1] \in touched
    BY DEF Attempt, NoWait, TurnInv, NodesInv, Counter, OnlyOursGo, kubernetes
  <1>2. ASSUME splay' = NextSplay /\ UNCHANGED <<pc, wanted, doomed, target, touched>>
        PROVE  [Turn!Next]_(Turn!vars)
    <2>1. UNCHANGED <<Busy, Left, Away, Trouble>>
      BY <1>1, <1>2 DEF Busy, Left, Away, Trouble, Down, Settled, Here
    <2>2. QED
      BY <2>1 DEF Turn!vars
  <1>3. ASSUME GoOn, NEW m \in FoundPods PROVE [Turn!Next]_(Turn!vars)
    BY <1>1, <1>3, FoundPodRuns, GoOnTurns DEF TurnInv
  <1>4. ASSUME Ended, Down(target[1]) \/ Trouble PROVE [Turn!Next]_(Turn!vars)
    <2>1. Away # {} \/ Trouble
      BY <1>1, <1>4 DEF Away
    <2>2. QED
      BY <1>1, <1>4, <2>1, StopTurns DEF TurnInv
  <1>5. CASE Ready /\ GoOn
    BY <1>3, <1>5 DEF Ready
  <1>6. CASE Again(Cardinality(FoundPods) # 1)
    <2>1. Cardinality(FoundPods) = 1 => FoundPods # {}
      BY FS_EmptySet
    <2>2. Cardinality(FoundPods) # 1 => Down(target[1])
      BY <1>1, NoneFound DEF TurnInv
    <2>3. (Cardinality(FoundPods) # 1) \in BOOLEAN
      OBVIOUS
    <2>4. QED
      BY <1>2, <1>3, <1>4, <1>6, <2>1, <2>2, <2>3, AgainGoes
  <1>7. CASE "api" \in faults /\ Again(TRUE)
    <2>1. Trouble
      BY <1>7 DEF Trouble
    <2>2. QED
      BY <1>2, <1>4, <1>7, <2>1, AgainGoes
  <1>8. QED
    BY <1>1, <1>5, <1>6, <1>7 DEF Attempt, NoWait

LEMMA TurnStep ==
    ASSUME TypeOK, TurnInv, TurnInv', Undisturbed, [Next]_vars
    PROVE  [Turn!Next]_(Turn!vars)
  <1> USE DEF TurnInv
  <1>1. OnePodPerNode /\ faults \cap {"early", "killed", "second"} = {}
    BY DEF NodesInv, Undisturbed
  <1>2. ASSUME UNCHANGED <<pods, pass, faults>> PROVE [Turn!Next]_(Turn!vars)
    BY <1>1, <1>2, UnchangedPods, PodsTurn
  <1>3. CASE UNCHANGED vars \/ PlanNothing
    BY <1>2, <1>3 DEF vars, kubernetes, PlanNothing
  <1>4. ASSUME NEW n \in Node, PodCreated(n) PROVE [Turn!Next]_(Turn!vars)
    BY <1>1, <1>4, CreationKeepsPods, PodsTurn DEF PodCreated
  <1>5. ASSUME NEW n \in Node, NEW m \in Name, World(n, m) PROVE [Turn!Next]_(Turn!vars)
    BY <1>1, <1>5, WorldKeepsPods, WorldLeaves, PodsTurn
  <1>6. ASSUME NEW n \in Node, HostReported(n) \/ HostSilent(n) PROVE [Turn!Next]_(Turn!vars)
    BY <1>2, <1>6 DEF HostReported, HostSilent, kubernetes
  <1>7. CASE VersionPublished
    BY <1>2, <1>7 DEF VersionPublished, kubernetes
  <1>8. CASE FaultsEnd
    <2>1. UNCHANGED <<Busy, Left, Away>> /\ Trouble' = FALSE /\ Trouble \in BOOLEAN
      BY <1>8 DEF FaultsEnd, kubernetes, pass, Busy, Left, Away, Trouble, Down, Settled, Here
    <2>2. QED
      BY <2>1 DEF Turn!Next, Turn!TroubleEnds, Turn!vars
  <1>9. CASE Plan
    <2>1. ~Busy /\ Busy' /\ UNCHANGED Trouble
      BY <1>9 DEF Plan, Busy, Trouble
    <2>2. Left' \in (SUBSET Node) \ {{}}
      BY <1>9 DEF Plan, Left, Outdated, PodName
    <2>3. Away' = {} /\ Away = {}
      BY <1>9 DEF Plan, Away, NodesInv, IdleIsEmpty
    <2>4. QED
      BY <2>1, <2>2, <2>3 DEF Turn!Next, Turn!Begin
  <1>10. CASE DeletePod
    BY <1>10, DeletionTurn
  <1>11. CASE DeleteFails \/ Crash
    <2>1. Trouble
      BY <1>11 DEF DeleteFails, Crash, Present, Trouble
    <2>2. QED
      BY <1>11, <2>1, StopTurns DEF DeleteFails, Crash
  <1>12. CASE Attempt \/ NoWait
    BY <1>12, WaitTurns
  <1>13. QED
    BY <1>3, <1>4, <1>5, <1>6, <1>7, <1>8, <1>9, <1>10, <1>11, <1>12 DEF Next, Rollout, World

(* The rollout implements RollingRestart while nobody else deletes pods: for any *)
(* number of nodes a pass takes each down once and in turn, and gives up only    *)
(* when calls fail or a node does not come back, whatever becomes of its pods.   *)
THEOREM RestartsAreInTurn ==
    ASSUME Undisturbed
    PROVE  Spec => RestartsInTurn
  <1>1. Init => TurnInv /\ Turn!Init
    <2> SUFFICES ASSUME Init PROVE TurnInv /\ Turn!Init
      OBVIOUS
    <2>1. TurnInv
      BY InitNodes DEF Init, TurnInv, Present, TargetGoes
    <2>2. Busy = FALSE /\ Left = {} /\ Away = {} /\ Trouble \in BOOLEAN
      BY DEF Init, Busy, Left, Away, Trouble
    <2>3. QED
      BY <2>1, <2>2 DEF Turn!Init
  <1>2. TypeOK /\ TurnInv /\ [Next]_vars => TurnInv'
    BY NodesStep, PresentStep, TargetStep DEF TurnInv
  <1>3. TypeOK /\ TurnInv /\ TurnInv' /\ [Next]_vars => [Turn!Next]_(Turn!vars)
    BY TurnStep
  <1>4. QED
    BY <1>1, <1>2, <1>3, TypeCorrect, PTL DEF Spec, RestartsInTurn, Turn!Spec

================================================================================
