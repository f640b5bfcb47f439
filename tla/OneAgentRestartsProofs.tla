------------------------ MODULE OneAgentRestartsProofs ------------------------
(***************************************************************************)
(* How far restarts of pods are apart in OneAgentReconcile, for any specs, *)
(* versions and interval, and whatever fails: lost status updates, changes *)
(* of the spec during a pass and restarts of the operator included.        *)
(***************************************************************************)
EXTENDS OneAgentReconcileProofs

(* The invariant: each status, the saved one and the one in memory, has either   *)
(* not seen the pods of the last restart, so that the next probe finds other     *)
(* instances, or its probe is not older than the restart.  So nothing is lost    *)
(* when a pass and its status are.                                               *)
Aware(st) == \/ st.instances = None \/ st.instances.names # fleet.names
             \/ st.updateAge <= sinceRestart

SpacingInv ==
    /\ Aware(status) /\ (rec # None => Aware(rec.st))
    /\ pc \in {"version", "restart"} => sinceRestart > Interval

(* Instances and the time of their probe are the same.                           *)
Same(st, other) == other.instances = st.instances /\ other.updateAge = st.updateAge

LEMMA SameIsAware ==
    ASSUME NEW st, NEW other, Same(st, other), Aware(st),
           UNCHANGED <<fleet, sinceRestart>>
    PROVE  other.instances = None \/ other.instances.names # fleet'.names
           \/ other.updateAge <= sinceRestart'
BY DEF Same, Aware

--------------------------------------------------------------------------------
(* Most steps of a pass leave instances and the time of their probe alone.       *)

LEMMA SetSame ==
    ASSUME NEW r \in Rec, NEW st \in Status, Same(r.st, st)
    PROVE  Same(r.st, Set(r, st).st) /\ Same(r.st, Updates(r, st).st) /\ Same(r.st, Fails(r).st)
BY SetType, UpdatesType, FailsType DEF Same

LEMMA SwitchedSame ==
    ASSUME TypeOK, pc # "idle"
    PROVE  Same(rec.st, Switched.st)
<1> DEFINE st == [rec.st EXCEPT !.immutable = rec.spec.immutable]
<1>1. rec \in Rec /\ rec.st \in Status /\ rec.spec.immutable \in BOOLEAN
  BY InPass DEF SpecType
<1>2. st \in Status /\ Same(rec.st, st)
  BY <1>1 DEF Status, Same
<1>3. Switched = Set(rec, st)
  BY DEF Switched
<1> HIDE DEF st
<1> QED BY <1>1, <1>2, <1>3, SetSame

LEMMA ProbeImageSame == TypeOK /\ ProbeImage => Same(rec.st, rec'.st)
<1> SUFFICES ASSUME TypeOK, ProbeImage PROVE Same(rec.st, rec'.st)
  OBVIOUS
<1> DEFINE st == [Switched.st EXCEPT !.imageAge = 0]
           v == Newer(st, ImageVersion(rec.spec))
           found == [st EXCEPT !.image = v]
<1>1. rec \in Rec /\ rec.spec \in SpecType /\ Switched.st \in Status /\ Same(rec.st, Switched.st)
  BY InPass, SwitchedFollows, SwitchedSame DEF ProbeImage
<1>2. st \in Status /\ Same(rec.st, st)
  <2>1. 0 \in 0 .. Old
    BY AgesAreNaturals
  <2> QED BY <1>1, <2>1 DEF Status, Same
<1>3. Goto("secret", Updates(rec, found)) \/ Goto("secret", Fails(Updates(rec, st)))
  BY DEF ProbeImage
<1> HIDE DEF st
<1>4. v \in Version
  BY <1>1, <1>2, ImageVersionType, NewerType
<1> HIDE DEF v
<1>5. found \in Status /\ Same(rec.st, found)
  BY <1>2, <1>4 DEF Status, Same
<1> HIDE DEF found
<1>6. Updates(rec, found).st = found /\ Fails(Updates(rec, st)).st = st
  BY <1>1, <1>2, <1>5, UpdatesType, FailsType
<1>7. rec'.st \in {found, st}
  BY <1>3, <1>6 DEF Goto
<1> QED
  BY <1>2, <1>5, <1>7

LEMMA RolloutSame == TypeOK /\ Rollout => Same(rec.st, rec'.st)
<1> SUFFICES ASSUME TypeOK, Rollout PROVE Same(rec.st, rec'.st)
  OBVIOUS
<1> DEFINE v == FirstVersion(rec.spec, rec.st)
           st == [rec.st EXCEPT !.version = v, !.phase = "Deploying"]
<1>1. rec \in Rec /\ rec.st \in Status /\ rec.spec \in SpecType
  BY InPass DEF Rollout
<1>2. v \in Version
  BY <1>1, BoundsAssumption DEF FirstVersion, SpecType, Version, TypeOK
<1>3. Goto("probe", rec) \/ Goto("save", Updates(rec, st)) \/ Goto("save", Fails(rec))
  BY DEF Rollout
<1> HIDE DEF v
<1>4. st \in Status /\ Same(rec.st, st)
  BY <1>1, <1>2 DEF Status, Same
<1> HIDE DEF st
<1> QED
  BY <1>1, <1>3, <1>4, SetSame DEF Goto, Same

LEMMA DeterminePhaseSame == TypeOK /\ DeterminePhase => Same(rec.st, rec'.st)
<1> SUFFICES ASSUME TypeOK, DeterminePhase PROVE Same(rec.st, rec'.st)
  OBVIOUS
<1> DEFINE st == [rec.st EXCEPT !.phase = PhaseOf(ready)]
           error == [rec.st EXCEPT !.phase = "Error"]
           failed == [rec EXCEPT !.st.phase = "Error"]
<1>1. rec \in Rec /\ rec.st \in Status
  BY InPass DEF DeterminePhase
<1>2. st \in Status /\ Same(rec.st, st) /\ error \in Status /\ Same(rec.st, error)
  BY <1>1 DEF Status, PhaseOf, Same
<1>3. failed = [rec EXCEPT !.st = error]
  BY <1>1 DEF Rec
<1>4. Goto("save", Set(rec, st)) \/ Goto("save", Fails(failed))
  BY DEF DeterminePhase
<1> HIDE DEF st, error, failed
<1>5. failed \in Rec /\ failed.st = error
  BY <1>1, <1>2, <1>3 DEF Rec
<1> QED
  BY <1>1, <1>2, <1>4, <1>5, SetSame, FailsType DEF Goto, Same

LEMMA FindOutdatedSame ==
    TypeOK /\ FindOutdated => Same(rec.st, rec'.st) /\ (status' = status \/ status' = rec'.st)
<1> SUFFICES ASSUME TypeOK, FindOutdated PROVE Same(rec.st, rec'.st)
  BY FindOutdatedGoesOn
<1> DEFINE st == [rec.st EXCEPT !.version = latest]
           r == Set(rec, st)
           b == r.st # rec.st
           deploying == [r.st EXCEPT !.phase = "Deploying"]
           s == [r EXCEPT !.st.phase = "Deploying", !.found = b]
<1>1. rec \in Rec /\ rec.st \in Status
  BY InPass DEF FindOutdated
<1>2. st \in Status /\ Same(rec.st, st)
  <2>1. latest \in Version
    BY VersionsAreNaturals DEF TypeOK
  <2> QED BY <1>1, <2>1 DEF Status, Same
<1>3. r \in Rec /\ r.st \in Status /\ Same(rec.st, r.st)
  <2> HIDE DEF st
  <2> QED BY <1>1, <1>2, SetType, SetSame
<1>4. rec' \in {r, s, Fails(rec), Fails(r)}
  BY DEF FindOutdated, Goto
<1> HIDE DEF r, b
<1>5. deploying \in Status /\ Same(r.st, deploying)
  BY <1>3 DEF Status, Same
<1>6. s = [r EXCEPT !.st = deploying, !.found = b]
  BY <1>3 DEF Rec
<1> HIDE DEF deploying
<1>7. s.st = deploying
  BY <1>3, <1>6 DEF Rec
<1> HIDE DEF s
<1> QED
  BY <1>1, <1>3, <1>4, <1>5, <1>7, FailsType DEF Same

LEMMA BeginSame == TypeOK /\ Begin => Same(status, rec'.st)
<1> SUFFICES ASSUME TypeOK, Begin PROVE Same(status, rec'.st)
  OBVIOUS
<1>1. status \in Status
  BY DEF TypeOK
<1>2. rec'.st \in {status, [status EXCEPT !.complaint = TRUE],
                   [status EXCEPT !.complaint = FALSE, !.asked = TRUE]}
  BY DEF Begin, Goto, Read
<1> QED
  BY <1>1, <1>2 DEF Status, Same

--------------------------------------------------------------------------------
(* The steps that change what is known *)

(* The probe resets its time.  It goes on to restart pods only if it found the   *)
(* instances it knew before, and then the last restart is longer ago than the    *)
(* probe before this one.                                                        *)
LEMMA ProbeSpaces == TypeOK /\ SpacingInv /\ Probe => SpacingInv'
<1> SUFFICES ASSUME TypeOK, SpacingInv, Probe PROVE SpacingInv'
  OBVIOUS
<1> DEFINE r == Timestamp(rec)
           timed == [rec.st EXCEPT !.updateAge = 0]
<1>1. rec \in Rec /\ rec.st \in Status /\ rec # None /\ sinceRestart \in 0 .. Old
      /\ UNCHANGED <<fleet, running, status, sinceRestart>>
  BY InPass, NoneAssumption DEF Probe, TypeOK, dynatrace, cluster, history
<1>2. timed \in Status /\ timed.instances = rec.st.instances /\ timed.updateAge = 0
  <2>1. 0 \in 0 .. Old
    BY AgesAreNaturals
  <2> QED BY <1>1, <2>1 DEF Status
<1>3. r = Updates(rec, timed)
  BY DEF Timestamp
<1> HIDE DEF timed
<1>4. r \in Rec /\ r.st \in Status /\ r.st.instances = rec.st.instances /\ r.st.updateAge = 0
  <2> HIDE DEF r
  <2> QED BY <1>1, <1>2, <1>3, UpdatesType
<1> HIDE DEF r
<1>5. \A seen \in Snapshot : LET st == [r.st EXCEPT !.instances = seen]
                            IN  st \in Status /\ st.updateAge = 0
  BY <1>4 DEF Status
<1>6. rec.st.updateAge \in Nat /\ sinceRestart \in Nat /\ Interval \in Nat
  <2>1. rec.st.updateAge \in 0 .. Old
    BY <1>1 DEF Status
  <2> QED BY <1>1, <2>1, AgesAreNaturals
<1>7. CASE Goto("phase", rec)
  BY <1>1, <1>7 DEF SpacingInv, Aware, Goto
<1>8. ASSUME NEW seen \in {Seen, None}, ProbeInstances(r, seen), rec.st.updateAge > Interval
      PROVE  /\ rec'.st.updateAge = 0
             /\ pc' \in {"version", "restart"} => sinceRestart > Interval
  <2>1. CASE Goto("save", Updates(r, [r.st EXCEPT !.instances = seen]))
    <3> DEFINE st == [r.st EXCEPT !.instances = seen]
    <3>1. st \in Status /\ st.updateAge = 0
      BY <1>5, SeenType
    <3> HIDE DEF st
    <3> QED BY <1>4, <2>1, <3>1, UpdatesType DEF Goto, st
  <2>2. CASE ~InstancesChanged(r.st, seen)
    <3>1. rec' = r
      BY <1>8, <2>2 DEF ProbeInstances, Goto
    <3>2. rec.st.instances # None /\ rec.st.instances = Seen /\ Seen # None
      BY <1>4, <2>2 DEF InstancesChanged
    <3>3. rec.st.instances.names = fleet.names
      BY <3>2 DEF Seen
    <3>4. rec.st.updateAge <= sinceRestart
      BY <1>1, <3>2, <3>3 DEF SpacingInv, Aware
    <3>5. sinceRestart > Interval
      BY <1>8, <1>6, <3>4
    <3> QED BY <1>4, <3>1, <3>5
  <2> QED BY <1>8, <2>1, <2>2 DEF ProbeInstances
<1>9. ASSUME rec'.st.updateAge = 0, pc' \in {"version", "restart"} => sinceRestart > Interval
      PROVE  SpacingInv'
  BY <1>1, <1>9 DEF SpacingInv, Aware
<1>10. ASSUME rec' \in {Fails(r), Fails(Updates(r, [r.st EXCEPT !.instances = None]))}, pc' = "save"
      PROVE  SpacingInv'
  <2>1. rec'.st.updateAge = 0
    <3> DEFINE st == [r.st EXCEPT !.instances = None]
    <3>1. st \in Status /\ st.updateAge = 0
      BY <1>5, SeenType
    <3> HIDE DEF st
    <3>2. Fails(r).st = r.st /\ Fails(Updates(r, st)).st = st
      BY <1>4, <3>1, UpdatesType, FailsType
    <3> QED BY <1>4, <1>10, <3>1, <3>2 DEF st
  <2> QED BY <1>9, <1>10, <2>1
<1> QED
  <2>1. CASE rec.st.updateAge > Interval
    <3>1. \/ ProbeInstances(r, Seen) \/ ProbeInstances(r, None)
          \/ rec' \in {Fails(r), Fails(Updates(r, [r.st EXCEPT !.instances = None]))} /\ pc' = "save"
          \/ Goto("phase", rec)
      BY DEF Probe, Goto, r
    <3> QED BY <1>7, <1>8, <1>9, <1>10, <2>1, <3>1
  <2>2. CASE ~(rec.st.updateAge > Interval)
    <3>1. rec.st.updateAge <= Interval
      BY <2>2, <1>6
    <3> QED BY <1>7, <3>1 DEF Probe
  <2> QED BY <2>1, <2>2

(* No status knows pods that have just replaced others.                          *)
LEMMA ReplacedUnseen ==
    ASSUME TypeOK, fleet'.names = NewNames, UNCHANGED status,
           rec' # None => rec # None /\ Same(rec.st, rec'.st)
    PROVE  Aware(status)' /\ (rec' # None => Aware(rec.st)')
<1>1. NewNames \notin Held
  BY NewNamesType
<1> QED
  BY <1>1 DEF Held, NamesIn, Aware, Same

LEMMA RestartSpaces == TypeOK /\ SpacingInv /\ Restart => SpacingInv'
<1> SUFFICES ASSUME TypeOK, SpacingInv, Restart PROVE SpacingInv'
  OBVIOUS
<1>1. rec \in Rec /\ rec # None /\ rec' \in {rec, Fails(rec)} /\ UNCHANGED status
      /\ pc' \in {"save", "phase"}
  BY InPass, NoneAssumption DEF Restart, Goto
<1>2. rec'.st = rec.st /\ rec' # None
  BY <1>1, FailsType, NoneAssumption
<1>3. CASE Restarted
  <2>1. fleet'.names = NewNames
    BY <1>3 DEF Restarted, TypeOK
  <2> QED BY <1>1, <1>2, <2>1, ReplacedUnseen DEF SpacingInv, Same
<1>4. CASE UNCHANGED <<fleet, sinceRestart>>
  BY <1>1, <1>2, <1>4 DEF SpacingInv, Aware
<1> QED
  BY <1>3, <1>4 DEF Restart

LEMMA PodsReadySpaces == TypeOK /\ SpacingInv /\ PodsReady => SpacingInv'
<1> SUFFICES ASSUME TypeOK, SpacingInv, PodsReady PROVE SpacingInv'
  OBVIOUS
<1>1. UNCHANGED <<pc, rec, status, sinceRestart>> /\ (fleet' = fleet \/ fleet'.names = NewNames)
  BY DEF PodsReady, TypeOK, history
<1> QED
  BY <1>1, ReplacedUnseen DEF SpacingInv, Aware, Same

LEMMA TickSpaces == TypeOK /\ SpacingInv /\ Tick => SpacingInv'
<1> SUFFICES ASSUME TypeOK, SpacingInv, Tick PROVE SpacingInv'
  OBVIOUS
<1>1. ASSUME NEW st \in Status, Aware(st)
      PROVE  \/ Aged(st).instances = None \/ Aged(st).instances.names # fleet.names
             \/ Aged(st).updateAge <= Later(sinceRestart, Old)
  <2>1. Aged(st).instances = st.instances /\ Aged(st).updateAge = Later(st.updateAge, Old)
    BY DEF Aged, Status
  <2>2. st.updateAge \in 0 .. Old /\ sinceRestart \in 0 .. Old
    BY DEF Status, TypeOK
  <2>3. st.updateAge <= sinceRestart => Later(st.updateAge, Old) <= Later(sinceRestart, Old)
    BY <2>2, AgesAreNaturals DEF Later
  <2> QED BY <1>1, <2>1, <2>3 DEF Aware
<1>2. /\ status \in Status /\ status' = Aged(status) /\ UNCHANGED <<pc, fleet>>
      /\ sinceRestart' = Later(sinceRestart, Old)
  BY DEF Tick, TypeOK, dynatrace
<1>3. rec' # None => rec # None /\ rec \in Rec /\ rec.st \in Status /\ rec'.st = Aged(rec.st)
  <2>1. rec # None => rec \in Rec /\ rec.st \in Status
    BY DEF TypeOK, Rec
  <2>2. rec # None => rec'.st = Aged(rec.st)
    <3> DEFINE st == Aged(rec.st)
    <3>1. rec # None => rec' = [rec EXCEPT !.st = st]
      BY DEF Tick
    <3> HIDE DEF st
    <3>2. rec # None => rec'.st = st
      BY <2>1, <3>1 DEF Rec
    <3> QED BY <3>2 DEF st
  <2> QED BY <2>1, <2>2 DEF Tick
<1>4. sinceRestart > Interval => sinceRestart' > Interval
  BY <1>2, AgesAreNaturals DEF Later, TypeOK
<1>5. Aware(status)' /\ (rec' # None => Aware(rec.st)')
  BY <1>1, <1>2, <1>3 DEF SpacingInv, Aware
<1> QED
  BY <1>2, <1>4, <1>5 DEF SpacingInv

(* A step after which no status knows more or less.                              *)
LEMMA NothingLearnt ==
    ASSUME SpacingInv, UNCHANGED <<fleet, sinceRestart>>,
           Same(status, status') \/ (rec # None /\ Same(rec.st, status')),
           rec' # None => (rec # None /\ Same(rec.st, rec'.st)) \/ Same(status, rec'.st),
           pc' \in {"version", "restart"} => pc \in {"version", "restart"}
    PROVE  SpacingInv'
BY DEF SpacingInv, Aware, Same

LEMMA SpacingInit == Init => SpacingInv
<1>1. NewStatus.instances = None
  BY DEF NewStatus
<1> QED
  BY <1>1, AgesAreNaturals DEF Init, SpacingInv, Aware

LEMMA OutcomeSame == ASSUME TypeOK, pc # "idle" PROVE Same(rec.st, Outcome)
BY InPass DEF Outcome, Status, Same

LEMMA SpacingStep == TypeOK /\ SpacingInv /\ [Next]_vars => SpacingInv'
<1> SUFFICES ASSUME TypeOK, SpacingInv, [Next]_vars PROVE SpacingInv'
  OBVIOUS
<1> USE DEF cluster, dynatrace, history
<1>1. pc # "idle" => rec \in Rec /\ rec # None
  BY InPass, NoneAssumption
<1>2. CASE Begin
  <2>1. pc' \in {"save", "istio"}
    BY <1>2 DEF Begin, Goto
  <2> QED BY <1>2, <2>1, BeginSame, NothingLearnt DEF Begin, Same
<1>3. CASE Istio \/ PullSecret \/ RolloutFails
  <2>1. rec' \in {rec, Fails(rec)} /\ pc' \in {"save", "image", "rollout"}
        /\ pc # "idle" /\ UNCHANGED <<status, fleet, sinceRestart>>
    BY <1>3 DEF Istio, PullSecret, RolloutFails, Goto
  <2>2. Same(rec.st, rec'.st)
    BY <1>1, <2>1, FailsType DEF Same
  <2> QED BY <1>1, <2>1, <2>2, NothingLearnt DEF Same
<1>4. CASE SkipImage
  <2>1. Same(rec.st, rec'.st) /\ pc # "idle" /\ pc' = "secret"
    BY <1>4, SwitchedSame DEF SkipImage, Goto
  <2> QED BY <1>1, <1>4, <2>1, NothingLearnt DEF SkipImage, Same
<1>5. CASE ProbeImage
  <2>1. pc # "idle" /\ pc' = "secret"
    BY <1>5 DEF ProbeImage, Goto
  <2> QED BY <1>1, <1>5, <2>1, ProbeImageSame, NothingLearnt DEF ProbeImage, Same
<1>6. CASE Rollout
  <2>1. pc # "idle" /\ pc' \in {"probe", "save"}
    BY <1>6 DEF Rollout, Goto
  <2> QED BY <1>1, <1>6, <2>1, RolloutSame, NothingLearnt DEF Rollout, Same
<1>7. CASE Probe
  BY <1>7, ProbeSpaces
<1>8. CASE FindOutdated
  <2>1. pc = "version" /\ Same(rec.st, rec'.st) /\ (status' = status \/ status' = rec'.st)
        /\ UNCHANGED <<fleet, sinceRestart>>
    BY <1>8, FindOutdatedSame DEF FindOutdated
  <2> QED BY <1>1, <2>1, NothingLearnt DEF Same
<1>9. CASE Restart
  BY <1>9, RestartSpaces
<1>10. CASE DeterminePhase
  <2>1. pc # "idle" /\ pc' = "save"
    BY <1>10 DEF DeterminePhase, Goto
  <2> QED BY <1>1, <1>10, <2>1, DeterminePhaseSame, NothingLearnt DEF DeterminePhase, Same
<1>11. CASE End
  <2>1. pc # "idle" /\ pc' = "idle" /\ rec' = None /\ UNCHANGED <<fleet, sinceRestart>>
        /\ (status' = status \/ status' = Outcome)
    BY <1>11 DEF End, Goto, Save
  <2> QED BY <1>1, <2>1, OutcomeSame, NothingLearnt DEF Same
<1>12. CASE Crash
  BY <1>12, NothingLearnt DEF Crash, Goto, Same
<1>13. CASE EditSpec \/ TokensChange \/ VersionPublished \/ IstioOutdated \/ PodsStopped
             \/ FaultsEnd \/ UNCHANGED vars
  <2>1. UNCHANGED <<status, rec, pc, fleet, sinceRestart>>
    BY <1>13 DEF EditSpec, TokensChange, VersionPublished, IstioOutdated, PodsStopped,
                 FaultsEnd, vars
  <2> QED BY <2>1, NothingLearnt DEF Same
<1>14. CASE HostsReport
  <2>1. fleet'.names = fleet.names /\ UNCHANGED <<status, rec, pc, sinceRestart>>
    BY <1>14 DEF HostsReport, TypeOK
  <2> QED BY <2>1 DEF SpacingInv, Aware
<1>15. CASE PodsReady
  BY <1>15, PodsReadySpaces
<1>16. CASE Tick
  BY <1>16, TickSpaces
<1> QED
  BY <1>2, <1>3, <1>4, <1>5, <1>6, <1>7, <1>8, <1>9, <1>10, <1>11, <1>12, <1>13, <1>14,
     <1>15, <1>16 DEF Next, Step

--------------------------------------------------------------------------------

(* Whatever fails, pods are not restarted before Dynatrace had more than the     *)
(* time between two probes to learn of the version of the last restart.          *)
THEOREM RestartsAreSpaced == Spec => RestartsAreFarApart
<1>1. TypeOK /\ SpacingInv /\ [Next]_vars
      => [Restart /\ fleet' # fleet => sinceRestart > Interval]_vars
  BY DEF SpacingInv, Restart
<1>2. TypeOK /\ SpacingInv /\ [Next]_vars => SpacingInv'
  BY SpacingStep
<1> QED
  BY <1>1, <1>2, SpacingInit, TypeCorrect, PTL DEF Spec, RestartsAreFarApart

================================================================================
