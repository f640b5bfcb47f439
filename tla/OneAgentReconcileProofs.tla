------------------------ MODULE OneAgentReconcileProofs ------------------------
(***************************************************************************)
(* Proofs about OneAgentReconcile, for every set of specs, every number of *)
(* versions, every interval and every set of failures: its type invariant, *)
(* that the image version found and written to the DaemonSet's annotation  *)
(* does not go back, as long as no status update gets lost or nothing but  *)
(* status updates; and, when none gets lost, that the registry is not      *)
(* asked too often.                                                        *)
(***************************************************************************)
EXTENDS OneAgentReconcile, TLAPS

--------------------------------------------------------------------------------
(* The operators on ages, statuses and reconciliations *)

LEMMA AgesAreNaturals == Old \in Nat /\ Interval \in Nat /\ Old = Interval + 1
BY BoundsAssumption DEF Old

LEMMA VersionsAreNaturals == /\ \A v \in Version : v \in Nat
                             /\ 0 \in Version /\ \A v \in 1 .. MaxVersion : v \in Version
BY BoundsAssumption DEF Version

LEMMA LaterType ==
    ASSUME NEW age \in 0 .. Old
    PROVE  Later(age, Old) \in 0 .. Old
BY AgesAreNaturals DEF Later

(* Time changes no version.                                                      *)
LEMMA AgedStatus ==
    ASSUME NEW st \in Status
    PROVE  Aged(st) \in Status /\ Aged(st).image = st.image
<1>1. Later(st.imageAge, Old) \in 0 .. Old /\ Later(st.updateAge, Old) \in 0 .. Old
  BY LaterType DEF Status
<1> QED
  BY <1>1 DEF Aged, Status

LEMMA FailsType ==
    ASSUME NEW r \in Rec
    PROVE  /\ Fails(r) \in Rec
           /\ Fails(r).st = r.st /\ Fails(r).spec = r.spec /\ Fails(r).update = r.update
BY DEF Fails, Rec

LEMMA UpdatesType ==
    ASSUME NEW r \in Rec, NEW st \in Status
    PROVE  /\ Updates(r, st) \in Rec
           /\ Updates(r, st).st = st /\ Updates(r, st).spec = r.spec /\ Updates(r, st).update
BY DEF Updates, Rec

(* A change of the status asks for it to be saved.                               *)
LEMMA SetType ==
    ASSUME NEW r \in Rec, NEW st \in Status
    PROVE  /\ Set(r, st) \in Rec
           /\ Set(r, st).st = st /\ Set(r, st).spec = r.spec
           /\ r.update => Set(r, st).update
           /\ st # r.st => Set(r, st).update
<1> DEFINE b == r.update \/ st # r.st
<1>1. Set(r, st) = [r EXCEPT !.st = st, !.update = b]
  BY DEF Set
<1>2. b \in BOOLEAN
  BY DEF Rec
<1> HIDE DEF b
<1>3. Set(r, st) \in Rec /\ Set(r, st).st = st /\ Set(r, st).spec = r.spec /\ Set(r, st).update = b
  BY <1>1, <1>2 DEF Rec
<1> QED
  BY <1>3 DEF b

--------------------------------------------------------------------------------
(* The invariant *)

Places == {"istio", "image", "secret", "rollout", "probe", "version", "restart", "phase", "save"}

(* The status the next pass or the rest of this one works with.                  *)
Carried == IF rec = None THEN status ELSE rec.st

(* The DaemonSet shows no version the code does not know any more, and the age   *)
(* of the probe is its real one; a pass that changes either saves it.            *)
Remembered ==
    /\ ds # None => ds.annotation <= Carried.image
    /\ Carried.imageAge <= sinceProbe
    /\ rec # None /\ (rec.st.image # status.image \/ rec.st.imageAge # status.imageAge)
       => rec.update
    /\ stale = FALSE /\ faults \subseteq Faults

(* No status update is lost: it does not fail, no pass is cut off, and nobody    *)
(* changes a OneAgent during its pass.                                           *)
NothingLost == Faults \cap {"save", "crash", "conflict"} = {}

(* t goes on from r without another version or age, or forgetting to save one.   *)
Follows(r, t) ==
    /\ t \in Rec /\ t.spec = r.spec
    /\ t.st.image = r.st.image /\ t.st.imageAge = r.st.imageAge
    /\ r.update => t.update

LEMMA FollowsSelf == ASSUME NEW r \in Rec PROVE Follows(r, r)
BY DEF Follows

LEMMA FollowsFails == ASSUME NEW r \in Rec PROVE Follows(r, Fails(r))
BY FailsType DEF Follows

LEMMA FollowsUpdates ==
    ASSUME NEW r \in Rec, NEW st \in Status, st.image = r.st.image, st.imageAge = r.st.imageAge
    PROVE  Follows(r, Updates(r, st))
BY UpdatesType DEF Follows

LEMMA FollowsSet ==
    ASSUME NEW r \in Rec, NEW st \in Status, st.image = r.st.image, st.imageAge = r.st.imageAge
    PROVE  Follows(r, Set(r, st))
BY SetType DEF Follows

LEMMA FollowsFollows ==
    ASSUME NEW r, NEW s, NEW t, Follows(r, s), Follows(s, t)
    PROVE  Follows(r, t)
BY DEF Follows

LEMMA InPass == TypeOK /\ pc # "idle" => rec \in Rec /\ rec.st \in Status /\ rec.spec \in SpecType
BY DEF TypeOK, Rec

LEMMA SeenType == TypeOK => Seen \in Snapshot /\ None \in Snapshot
BY DEF TypeOK, Seen, Snapshot

LEMMA TypeOfPlaces ==
    ASSUME NEW p \in Places, NEW r \in Rec, Goto(p, r)
    PROVE  pc' \in Places /\ pc' # "idle" /\ rec' = r /\ rec' # None
BY NoneAssumption DEF Places, Goto

(* A step of a pass that only goes on keeps the type of where it is.             *)
LEMMA PlacesType ==
    ASSUME pc' \in Places, rec' \in Rec
    PROVE  /\ pc' \in {"idle", "istio", "image", "secret", "rollout", "probe", "version",
                       "restart", "phase", "save"}
           /\ rec' \in Rec \cup {None} /\ (rec' = None <=> pc' = "idle")
BY NoneAssumption DEF Places

--------------------------------------------------------------------------------
(* Where the steps of a pass lead *)

(* Those that only go on.                                                        *)
GoesOn == pc' \in Places /\ Follows(rec, rec')

LEMMA GoesOnTo ==
    ASSUME NEW p \in Places, NEW r, Follows(rec, r), Goto(p, r)
    PROVE  GoesOn
BY DEF GoesOn, Goto

LEMMA IstioGoesOn == TypeOK /\ Istio => GoesOn
<1> SUFFICES ASSUME TypeOK, Istio PROVE GoesOn
  OBVIOUS
<1>1. Follows(rec, rec)
  BY InPass, FollowsSelf DEF Istio
<1> QED
  BY <1>1, GoesOnTo DEF Istio, Places

LEMMA SwitchedFollows ==
    ASSUME TypeOK, pc # "idle"
    PROVE  /\ Switched \in Rec /\ Follows(rec, Switched) /\ Switched.st \in Status
           /\ Switched.st.imageAge = rec.st.imageAge /\ Switched.st.image = rec.st.image
<1>1. rec \in Rec /\ rec.st \in Status /\ rec.spec.immutable \in BOOLEAN
  BY InPass DEF SpecType
<1> DEFINE st == [rec.st EXCEPT !.immutable = rec.spec.immutable]
<1>2. st \in Status /\ st.image = rec.st.image /\ st.imageAge = rec.st.imageAge
  BY <1>1 DEF Status
<1>3. Switched = Set(rec, st)
  BY DEF Switched
<1> HIDE DEF st
<1> QED
  BY <1>1, <1>2, <1>3, SetType, FollowsSet

LEMMA SwitchedImmutable ==
    ASSUME TypeOK, pc # "idle"
    PROVE  Switched.st.immutable = rec.spec.immutable
<1>1. rec \in Rec /\ rec.st \in Status /\ rec.spec.immutable \in BOOLEAN
  BY InPass DEF SpecType
<1> DEFINE st == [rec.st EXCEPT !.immutable = rec.spec.immutable]
<1>2. st \in Status /\ st.immutable = rec.spec.immutable
  BY <1>1 DEF Status
<1>3. Switched = Set(rec, st)
  BY DEF Switched
<1> HIDE DEF st
<1> QED
  BY <1>1, <1>2, <1>3, SetType

LEMMA SkipImageGoesOn == TypeOK /\ SkipImage => GoesOn
<1> SUFFICES ASSUME TypeOK, SkipImage PROVE GoesOn
  OBVIOUS
<1>1. Follows(rec, Switched)
  BY SwitchedFollows DEF SkipImage
<1> QED
  BY <1>1, GoesOnTo DEF SkipImage, Places

LEMMA PullSecretGoesOn == TypeOK /\ PullSecret => GoesOn
<1> SUFFICES ASSUME TypeOK, PullSecret PROVE GoesOn
  OBVIOUS
<1>1. Follows(rec, rec) /\ Follows(rec, Fails(rec))
  BY InPass, FollowsSelf, FollowsFails DEF PullSecret
<1> QED
  BY <1>1, GoesOnTo DEF PullSecret, Places

LEMMA RolloutFailsGoesOn == TypeOK /\ RolloutFails => GoesOn
BY InPass, FollowsFails, GoesOnTo DEF RolloutFails, Places

(* The first version of a OneAgent is no version of the image.                   *)
LEMMA RolloutGoesOn == TypeOK /\ Rollout => GoesOn
<1> SUFFICES ASSUME TypeOK, Rollout PROVE GoesOn
  OBVIOUS
<1> DEFINE st == [rec.st EXCEPT !.version = FirstVersion(rec.spec, rec.st), !.phase = "Deploying"]
<1>1. rec \in Rec /\ rec.st \in Status /\ rec.spec \in SpecType
  BY InPass DEF Rollout
<1>2. FirstVersion(rec.spec, rec.st) \in Version
  BY <1>1, BoundsAssumption DEF FirstVersion, SpecType, Version, TypeOK
<1>3. st \in Status /\ st.image = rec.st.image /\ st.imageAge = rec.st.imageAge
  BY <1>1, <1>2 DEF Status
<1>4. Follows(rec, rec) /\ Follows(rec, Fails(rec)) /\ Follows(rec, Updates(rec, st))
  <2> HIDE DEF st
  <2> QED BY <1>1, <1>3, FollowsSelf, FollowsFails, FollowsUpdates
<1>5. \/ Goto("probe", rec) \/ Goto("save", Updates(rec, st)) \/ Goto("save", Fails(rec))
  BY DEF Rollout
<1> HIDE DEF st
<1> QED
  BY <1>4, <1>5, GoesOnTo DEF Places

LEMMA ProbeInstancesGoesOn ==
    ASSUME NEW r \in Rec, NEW seen \in Snapshot, Follows(rec, r), ProbeInstances(r, seen)
    PROVE  GoesOn
<1> DEFINE st == [r.st EXCEPT !.instances = seen]
<1>1. r.st \in Status
  BY DEF Rec
<1>2. st \in Status /\ st.image = r.st.image /\ st.imageAge = r.st.imageAge
  BY <1>1 DEF Status
<1>3. \/ Goto("save", Updates(r, st)) \/ Goto("save", r) \/ Goto("phase", r) \/ Goto("version", r)
  BY DEF ProbeInstances
<1> HIDE DEF st
<1>4. Follows(rec, Updates(r, st))
  BY <1>1, <1>2, FollowsUpdates, FollowsFollows
<1> QED
  BY <1>3, <1>4, GoesOnTo DEF Places

LEMMA ProbeGoesOn == TypeOK /\ Probe => GoesOn
<1> SUFFICES ASSUME TypeOK, Probe PROVE GoesOn
  OBVIOUS
<1> DEFINE r == Timestamp(rec)
           st == [r.st EXCEPT !.instances = None]
           timed == [rec.st EXCEPT !.updateAge = 0]
<1>1. rec \in Rec /\ rec.st \in Status
  BY InPass DEF Probe
<1>2. timed \in Status /\ timed.image = rec.st.image /\ timed.imageAge = rec.st.imageAge
  <2>1. 0 \in 0 .. Old
    BY AgesAreNaturals
  <2> QED BY <1>1, <2>1 DEF Status
<1>3. r = Updates(rec, timed)
  BY DEF Timestamp
<1>4. r \in Rec /\ Follows(rec, r) /\ r.st \in Status
  <2> HIDE DEF timed, r
  <2> QED BY <1>1, <1>2, <1>3, UpdatesType, FollowsUpdates
<1>5. \/ Goto("phase", rec) \/ ProbeInstances(r, Seen) \/ ProbeInstances(r, None)
      \/ Goto("save", Fails(r)) \/ Goto("save", Fails(Updates(r, st)))
  BY DEF Probe
<1> HIDE DEF r
<1>6. st \in Status /\ st.image = r.st.image /\ st.imageAge = r.st.imageAge
  BY <1>4, SeenType DEF Status
<1> HIDE DEF st
<1>7. Follows(rec, Fails(r)) /\ Follows(rec, Fails(Updates(r, st)))
  BY <1>4, <1>6, UpdatesType, FollowsFails, FollowsUpdates, FollowsFollows
<1> QED
  BY <1>1, <1>4, <1>5, <1>7, SeenType, FollowsSelf, ProbeInstancesGoesOn, GoesOnTo DEF Places

LEMMA RestartGoesOn == TypeOK /\ Restart => GoesOn
<1> SUFFICES ASSUME TypeOK, Restart PROVE GoesOn
  OBVIOUS
<1>1. Follows(rec, rec) /\ Follows(rec, Fails(rec))
  BY InPass, FollowsSelf, FollowsFails DEF Restart
<1> QED
  BY <1>1, GoesOnTo DEF Restart, Places

LEMMA DeterminePhaseGoesOn == TypeOK /\ DeterminePhase => GoesOn
<1> SUFFICES ASSUME TypeOK, DeterminePhase PROVE GoesOn
  OBVIOUS
<1> DEFINE st == [rec.st EXCEPT !.phase = PhaseOf(ready)]
           failed == [rec EXCEPT !.st.phase = "Error"]
<1>1. rec \in Rec /\ rec.st \in Status
  BY InPass DEF DeterminePhase
<1>2. st \in Status /\ st.image = rec.st.image /\ st.imageAge = rec.st.imageAge
  BY <1>1 DEF Status, PhaseOf
<1>3. [rec.st EXCEPT !.phase = "Error"] \in Status
  BY <1>1 DEF Status
<1>4. failed = [rec EXCEPT !.st = [rec.st EXCEPT !.phase = "Error"]]
  BY <1>1 DEF Rec
<1>5. Follows(rec, failed) /\ failed \in Rec
  BY <1>1, <1>3, <1>4 DEF Follows, Rec, Status
<1>6. Goto("save", Set(rec, st)) \/ Goto("save", Fails(failed))
  BY DEF DeterminePhase
<1> HIDE DEF st, failed
<1>7. Follows(rec, Set(rec, st)) /\ Follows(rec, Fails(failed))
  BY <1>1, <1>2, <1>5, FollowsSet, FollowsFails, FollowsFollows
<1> QED
  BY <1>6, <1>7, GoesOnTo DEF Places

--------------------------------------------------------------------------------
(* Begin, ProbeImage, FindOutdated and End do more than go on.                   *)

LEMMA ReadType ==
    ASSUME TypeOK, NEW st \in Status, NEW upd \in BOOLEAN, NEW failed \in BOOLEAN
    PROVE  /\ Read(st, upd, failed) \in Rec
           /\ Read(st, upd, failed).st = st /\ Read(st, upd, failed).update = upd
           /\ Read(st, upd, failed).spec = spec
BY SpecsAssumption DEF Read, Rec, TypeOK

LEMMA BeginReads ==
    TypeOK /\ Begin => /\ pc' \in Places /\ rec' \in Rec
                       /\ rec'.st.image = status.image /\ rec'.st.imageAge = status.imageAge
                       /\ rec'.spec = spec
<1> SUFFICES ASSUME TypeOK, Begin
             PROVE  /\ pc' \in Places /\ rec' \in Rec
                    /\ rec'.st.image = status.image /\ rec'.st.imageAge = status.imageAge
                    /\ rec'.spec = spec
  OBVIOUS
<1> DEFINE missing == [status EXCEPT !.complaint = TRUE]
           there == [status EXCEPT !.complaint = FALSE, !.asked = TRUE]
<1>1. status \in Status
  BY DEF TypeOK
<1>2. /\ missing \in Status /\ missing.image = status.image /\ missing.imageAge = status.imageAge
      /\ there \in Status /\ there.image = status.image /\ there.imageAge = status.imageAge
  BY <1>1 DEF Status
<1>3. PICK st \in {status, missing, there}, upd \in BOOLEAN, failed \in BOOLEAN :
          \E p \in Places : Goto(p, Read(st, upd, failed))
  <2>1. \/ Goto("save", Read(missing, ~status.complaint, TRUE))
        \/ Goto("save", Read(status, FALSE, TRUE))
        \/ Goto("istio", Read(status, FALSE, FALSE))
        \/ Goto("istio", Read(there, TRUE, FALSE))
    BY DEF Begin
  <2> HIDE DEF missing, there
  <2> QED BY <1>1, <2>1 DEF Places
<1> HIDE DEF missing, there
<1>4. Read(st, upd, failed) \in Rec /\ Read(st, upd, failed).st = st
      /\ Read(st, upd, failed).spec = spec
  BY <1>1, <1>2, ReadType
<1> QED
  BY <1>2, <1>3, <1>4 DEF Goto

LEMMA ImageVersionType ==
    ASSUME TypeOK, NEW s \in SpecType
    PROVE  ImageVersion(s) \in Version
BY BoundsAssumption DEF ImageVersion, Tagged, SpecType, Version, TypeOK

(* No downgrades.                                                                *)
LEMMA NewerType ==
    ASSUME NEW st \in Status, NEW v \in Version
    PROVE  /\ Newer(st, v) \in Version /\ Newer(st, v) \in {st.image, v}
           /\ st.image <= Newer(st, v) /\ v <= Newer(st, v)
<1>1. st.image \in Version
  BY DEF Status
<1>2. st.image \in Nat /\ v \in Nat
  BY <1>1, VersionsAreNaturals
<1> QED
  BY <1>1, <1>2 DEF Newer

(* The version is the image's if that is newer, the one before otherwise.        *)
ProbeSucceeds ==
    /\ PullSecretExists /\ ImageVersion(rec.spec) <= rec'.st.image
    /\ rec'.st.image \in {rec.st.image, ImageVersion(rec.spec)}
ProbeFails == (~PullSecretExists \/ "api" \in faults) /\ rec'.st.image = rec.st.image

LEMMA ProbeImageGoesOn ==
    TypeOK /\ ProbeImage => /\ pc' \in Places /\ rec' \in Rec
                            /\ rec.st.image <= rec'.st.image
                            /\ rec'.st.imageAge = 0 /\ rec'.update /\ rec'.spec = rec.spec
                            /\ \/ ProbeSucceeds
                               \/ ProbeFails
<1> SUFFICES ASSUME TypeOK, ProbeImage
             PROVE  /\ pc' \in Places /\ rec' \in Rec
                    /\ rec.st.image <= rec'.st.image
                    /\ rec'.st.imageAge = 0 /\ rec'.update /\ rec'.spec = rec.spec
                    /\ \/ ProbeSucceeds
                       \/ ProbeFails
  OBVIOUS
<1> DEFINE st == [Switched.st EXCEPT !.imageAge = 0]
           v == Newer(st, ImageVersion(rec.spec))
           found == [st EXCEPT !.image = v]
<1>1. rec \in Rec /\ rec.spec \in SpecType /\ Switched.st \in Status
      /\ Switched.st.image = rec.st.image
  BY InPass, SwitchedFollows DEF ProbeImage
<1>2. st \in Status /\ st.image = rec.st.image /\ st.imageAge = 0
  <2>1. 0 \in 0 .. Old
    BY AgesAreNaturals
  <2> QED BY <1>1, <2>1 DEF Status
<1>3. \/ Goto("secret", Updates(rec, found)) /\ PullSecretExists
      \/ Goto("secret", Fails(Updates(rec, st))) /\ (~PullSecretExists \/ "api" \in faults)
  BY DEF ProbeImage
<1> HIDE DEF st
<1>4. /\ v \in Version /\ v \in {st.image, ImageVersion(rec.spec)}
      /\ st.image <= v /\ ImageVersion(rec.spec) <= v
  BY <1>1, <1>2, ImageVersionType, NewerType
<1> HIDE DEF v
<1>5. found \in Status /\ found.image = v /\ found.imageAge = 0
  BY <1>2, <1>4 DEF Status
<1>6. st.image <= st.image
  <2>1. st.image \in Version
    BY <1>2 DEF Status
  <2> QED BY <2>1, VersionsAreNaturals
<1> HIDE DEF found
<1>7. CASE Goto("secret", Updates(rec, found)) /\ PullSecretExists
  <2>1. rec' \in Rec /\ rec'.st = found /\ rec'.update /\ rec'.spec = rec.spec
    BY <1>1, <1>5, <1>7, UpdatesType DEF Goto
  <2>2. ProbeSucceeds
    BY <1>2, <1>4, <1>5, <1>7, <2>1 DEF ProbeSucceeds
  <2> QED
    BY <1>2, <1>4, <1>5, <1>7, <2>1, <2>2 DEF Goto, Places
<1>8. CASE Goto("secret", Fails(Updates(rec, st))) /\ (~PullSecretExists \/ "api" \in faults)
  BY <1>1, <1>2, <1>6, <1>8, UpdatesType, FailsType DEF Goto, Places, ProbeFails
<1> QED
  BY <1>3, <1>7, <1>8

(* What is saved before pods are deleted is what the pass goes on with.          *)
LEMMA FindOutdatedGoesOn ==
    TypeOK /\ FindOutdated => /\ GoesOn
                              /\ \/ status' = status
                                 \/ status' = rec'.st
                              /\ again' \in BOOLEAN
<1> SUFFICES ASSUME TypeOK, FindOutdated
             PROVE  GoesOn /\ (status' = status \/ status' = rec'.st) /\ again' \in BOOLEAN
  OBVIOUS
<1> DEFINE st == [rec.st EXCEPT !.version = latest]
           r == Set(rec, st)
           b == r.st # rec.st
           deploying == [r.st EXCEPT !.phase = "Deploying"]
           s == [r EXCEPT !.st.phase = "Deploying", !.found = b]
<1>1. rec \in Rec /\ rec.st \in Status
  BY InPass DEF FindOutdated
<1>2. st \in Status /\ st.image = rec.st.image /\ st.imageAge = rec.st.imageAge
  <2>1. latest \in Version
    BY VersionsAreNaturals DEF TypeOK
  <2> QED BY <1>1, <2>1 DEF Status
<1>3. r \in Rec /\ r.st \in Status /\ Follows(rec, r)
  <2> HIDE DEF st
  <2> QED BY <1>1, <1>2, SetType, FollowsSet
<1>4. \/ /\ Goto("save", r) \/ Goto("phase", r) \/ Goto("save", Fails(rec)) \/ Goto("save", Fails(r))
         /\ UNCHANGED <<status, again>>
      \/ Goto("restart", s) /\ UNCHANGED <<status, again>>
      \/ Goto("restart", s) /\ Save(s.st)
  BY DEF FindOutdated
<1>5. b \in BOOLEAN
  OBVIOUS
<1> HIDE DEF r, b
<1>6. deploying \in Status /\ deploying.image = r.st.image /\ deploying.imageAge = r.st.imageAge
  BY <1>3 DEF Status
<1>7. s = [r EXCEPT !.st = deploying, !.found = b]
  BY <1>3 DEF Rec
<1> HIDE DEF deploying
<1>8. s \in Rec /\ s.st = deploying /\ s.update = r.update /\ s.spec = r.spec
  BY <1>3, <1>5, <1>6, <1>7 DEF Rec
<1> HIDE DEF s
<1>9. Follows(rec, s) /\ Follows(rec, Fails(rec)) /\ Follows(rec, Fails(r))
  <2>1. Follows(r, s)
    BY <1>6, <1>8 DEF Follows
  <2> QED BY <1>1, <1>3, <2>1, FollowsFails, FollowsFollows
<1>10. GoesOn
  BY <1>3, <1>4, <1>9, GoesOnTo DEF Places
<1> QED
  BY <1>4, <1>10 DEF Goto, Save, TypeOK

LEMMA OutcomeType ==
    ASSUME TypeOK, pc # "idle"
    PROVE  /\ Outcome \in Status
           /\ Outcome.image = rec.st.image /\ Outcome.imageAge = rec.st.imageAge
BY InPass DEF Outcome, Status

--------------------------------------------------------------------------------
(* The types *)

(* A scenario is a spec and faults of the instance.                              *)
LEMMA FirstScenario == Init => spec \in Specs /\ faults \subseteq Faults
<1> SUFFICES ASSUME Init PROVE spec \in Specs /\ faults \subseteq Faults
  OBVIOUS
<1>1. PICK s \in Scenarios : spec = s[1] /\ faults = s[2]
  BY DEF Init
<1> QED
  BY <1>1, ScenariosAssumption

LEMMA InitType == Init => TypeOK
<1> SUFFICES ASSUME Init PROVE TypeOK
  OBVIOUS
<1>1. Old \in 0 .. Old /\ 0 \in Version /\ 1 \in 1 .. MaxVersion
  BY AgesAreNaturals, VersionsAreNaturals, BoundsAssumption
<1>2. NewStatus \in Status
  <2>1. None \in Snapshot
    BY DEF Snapshot
  <2> QED BY <1>1, <2>1 DEF NewStatus, Status
<1>3. 0 \in PodNames
  BY DEF PodNames
<1> QED
  BY <1>1, <1>2, <1>3, FirstScenario, FaultsAssumption DEF Init, TypeOK

LEMMA TemplateOf ==
    ASSUME NEW s \in SpecType, NEW st \in Status
    PROVE  /\ Template(s, st) \in TemplateType
           /\ Template(s, st).annotation \in {0, st.image}
<1>1. /\ s.agentVersion \in Version /\ st.image \in Version /\ 0 \in Version
      /\ s.image \in BOOLEAN /\ s.unprivileged \in BOOLEAN /\ st.immutable \in BOOLEAN
  BY VersionsAreNaturals DEF SpecType, Status, Version
<1>2. Annotation(s, st) \in Version /\ Annotation(s, st) \in {0, st.image}
  BY <1>1 DEF Annotation
<1>3. PodSpec(s, st) \in PodSpecType
  <2> DEFINE tag == IF st.immutable /\ ~s.image THEN s.agentVersion ELSE 0
             own == st.immutable /\ s.customPullSecret
  <2>1. tag \in Version /\ own \in BOOLEAN
    BY <1>1
  <2>2. PodSpec(s, st) = [immutable |-> st.immutable, own |-> s.image, tag |-> tag,
                          customPullSecret |-> own, unprivileged |-> s.unprivileged]
    BY DEF PodSpec
  <2> HIDE DEF tag, own
  <2> QED
    BY <1>1, <2>1, <2>2 DEF PodSpecType
<1>4. Template(s, st) = [pod |-> PodSpec(s, st), annotation |-> Annotation(s, st)]
  BY DEF Template
<1> QED
  BY <1>2, <1>3, <1>4 DEF TemplateType

LEMMA NewNamesType == TypeOK => NewNames \in PodNames /\ NewNames \notin Held
<1> SUFFICES ASSUME TypeOK PROVE \E k \in PodNames : k \notin Held
  BY DEF NewNames
<1>1. PICK y : NamesIn(status) \subseteq {y}
  BY DEF NamesIn
<1>2. PICK z : (IF rec = None THEN {} ELSE NamesIn(rec.st)) \subseteq {z}
  BY DEF NamesIn
<1>3. \E k \in 0 .. 3 : k # fleet.names /\ k # y /\ k # z
  <2>1. 0 \in 0 .. 3 /\ 1 \in 0 .. 3 /\ 2 \in 0 .. 3 /\ 3 \in 0 .. 3
    OBVIOUS
  <2>2. 0 # 1 /\ 0 # 2 /\ 0 # 3 /\ 1 # 2 /\ 1 # 3 /\ 2 # 3
    OBVIOUS
  <2> QED BY <2>1, <2>2
<1> QED
  BY <1>1, <1>2, <1>3 DEF PodNames, Held

LEMMA ReplacedPods ==
    ASSUME TypeOK, NEW v \in Version
    PROVE  [fleet EXCEPT !.ver = v, !.names = NewNames]
               \in [ver : Version, reports : Version, names : PodNames]
<1> DEFINE n == NewNames
<1>1. n \in PodNames
  BY NewNamesType
<1> HIDE DEF n
<1>2. [fleet EXCEPT !.ver = v, !.names = n] \in [ver : Version, reports : Version, names : PodNames]
  BY <1>1 DEF TypeOK
<1> QED
  BY <1>2 DEF n

LEMMA PodsReadyType == TypeOK /\ PodsReady => TypeOK'
<1> SUFFICES ASSUME TypeOK, PodsReady PROVE TypeOK'
  OBVIOUS
<1>1. fleet' \in [ver : Version, reports : Version, names : PodNames]
  <2>1. ds.pod.tag \in Version /\ latest \in Version
    BY VersionsAreNaturals DEF TypeOK, PodsReady, TemplateType, PodSpecType
  <2>2. Tagged(ds.pod.tag) \in Version
    BY <2>1 DEF Tagged
  <2> QED BY <2>2, ReplacedPods DEF TypeOK, PodsReady
<1> QED
  BY <1>1 DEF TypeOK, PodsReady, user, dynatrace, history

LEMMA RestartType == TypeOK /\ Restart => TypeOK'
<1> SUFFICES ASSUME TypeOK, Restart PROVE TypeOK'
  OBVIOUS
<1>1. pc' \in Places /\ rec' \in Rec
  BY RestartGoesOn DEF GoesOn, Follows
<1>2. fleet' \in [ver : Version, reports : Version, names : PodNames] /\ sinceRestart' \in 0 .. Old
  <2>1. latest \in Version /\ 0 \in 0 .. Old
    BY VersionsAreNaturals, AgesAreNaturals DEF TypeOK
  <2> QED BY <2>1, ReplacedPods DEF TypeOK, Restart, Restarted
<1> QED
  BY <1>1, <1>2, PlacesType DEF TypeOK, Restart, user, cluster

LEMMA TickType == TypeOK /\ Tick => TypeOK'
<1> SUFFICES ASSUME TypeOK, Tick PROVE TypeOK'
  OBVIOUS
<1>1. Aged(status) \in Status /\ Later(sinceProbe, Old) \in 0 .. Old
      /\ Later(sinceRestart, Old) \in 0 .. Old
  BY AgedStatus, LaterType DEF TypeOK
<1>2. CASE rec = None
  BY <1>1, <1>2 DEF TypeOK, Tick, user, cluster, dynatrace
<1>3. CASE rec # None
  <2> DEFINE st == Aged(rec.st)
  <2>1. rec \in Rec /\ st \in Status
    BY <1>3, AgedStatus DEF TypeOK, Rec
  <2>2. rec' = [rec EXCEPT !.st = st]
    BY <1>3 DEF Tick
  <2> HIDE DEF st
  <2>3. rec' \in Rec /\ rec' # None
    BY <2>1, <2>2, NoneAssumption DEF Rec
  <2> QED BY <1>1, <1>3, <2>3 DEF TypeOK, Tick, user, cluster, dynatrace
<1> QED
  BY <1>2, <1>3

LEMMA NextType == TypeOK /\ [Next]_vars => TypeOK'
<1> SUFFICES ASSUME TypeOK, [Next]_vars PROVE TypeOK'
  OBVIOUS
<1> USE DEF user, cluster, dynatrace, history
<1>1. CASE Begin
  <2>1. pc' \in Places /\ rec' \in Rec
    BY <1>1, BeginReads
  <2> QED BY <1>1, <2>1, PlacesType DEF TypeOK, Begin
<1>2. CASE Istio
  <2>1. pc' \in Places /\ rec' \in Rec
    BY <1>2, IstioGoesOn DEF GoesOn, Follows
  <2> QED BY <1>2, <2>1, PlacesType DEF TypeOK, Istio
<1>3. CASE SkipImage
  <2>1. pc' \in Places /\ rec' \in Rec
    BY <1>3, SkipImageGoesOn DEF GoesOn, Follows
  <2> QED BY <1>3, <2>1, PlacesType DEF TypeOK, SkipImage
<1>4. CASE ProbeImage
  <2>1. pc' \in Places /\ rec' \in Rec /\ 0 \in 0 .. Old
    BY <1>4, ProbeImageGoesOn, AgesAreNaturals
  <2> QED BY <1>4, <2>1, PlacesType DEF TypeOK, ProbeImage
<1>5. CASE PullSecret
  <2>1. pc' \in Places /\ rec' \in Rec
    BY <1>5, PullSecretGoesOn DEF GoesOn, Follows
  <2> QED BY <1>5, <2>1, PlacesType DEF TypeOK, PullSecret
<1>6. CASE RolloutFails
  <2>1. pc' \in Places /\ rec' \in Rec
    BY <1>6, RolloutFailsGoesOn DEF GoesOn, Follows
  <2> QED BY <1>6, <2>1, PlacesType DEF TypeOK, RolloutFails
<1>7. CASE Rollout
  <2>1. pc' \in Places /\ rec' \in Rec
    BY <1>7, RolloutGoesOn DEF GoesOn, Follows
  <2>2. Template(rec.spec, rec.st) \in TemplateType
    BY <1>7, InPass, TemplateOf DEF Rollout
  <2>3. ready' \in BOOLEAN
    BY <1>7 DEF Rollout
  <2> QED BY <1>7, <2>1, <2>2, <2>3, PlacesType DEF TypeOK, Rollout
<1>8. CASE Probe
  <2>1. pc' \in Places /\ rec' \in Rec
    BY <1>8, ProbeGoesOn DEF GoesOn, Follows
  <2> QED BY <1>8, <2>1, PlacesType DEF TypeOK, Probe
<1>9. CASE FindOutdated
  <2>1. pc' \in Places /\ rec' \in Rec /\ again' \in BOOLEAN
        /\ (status' = status \/ status' = rec'.st)
    BY <1>9, FindOutdatedGoesOn DEF GoesOn, Follows
  <2>2. status' \in Status
    BY <2>1 DEF TypeOK, Rec
  <2> QED BY <1>9, <2>1, <2>2, PlacesType DEF TypeOK, FindOutdated
<1>10. CASE Restart
  BY <1>10, RestartType
<1>11. CASE DeterminePhase
  <2>1. pc' \in Places /\ rec' \in Rec
    BY <1>11, DeterminePhaseGoesOn DEF GoesOn, Follows
  <2> QED BY <1>11, <2>1, PlacesType DEF TypeOK, DeterminePhase
<1>12. CASE End
  BY <1>12, OutcomeType DEF TypeOK, End, Save, Goto
<1>13. CASE Crash
  BY <1>13 DEF TypeOK, Crash, Goto
<1>14. CASE EditSpec
  BY <1>14 DEF TypeOK, EditSpec
<1>15. CASE TokensChange
  BY <1>15 DEF TypeOK, TokensChange
<1>16. CASE VersionPublished
  BY <1>16 DEF TypeOK, VersionPublished
<1>17. CASE IstioOutdated
  BY <1>17 DEF TypeOK, IstioOutdated
<1>18. CASE PodsStopped
  BY <1>18 DEF TypeOK, PodsStopped
<1>19. CASE PodsReady
  BY <1>19, PodsReadyType
<1>20. CASE HostsReport
  BY <1>20 DEF TypeOK, HostsReport
<1>21. CASE Tick
  BY <1>21, TickType
<1>22. CASE FaultsEnd
  BY <1>22 DEF TypeOK, FaultsEnd
<1>23. CASE UNCHANGED vars
  BY <1>23 DEF TypeOK, vars
<1> QED
  BY <1>1, <1>2, <1>3, <1>4, <1>5, <1>6, <1>7, <1>8, <1>9, <1>10, <1>11, <1>12, <1>13, <1>14,
     <1>15, <1>16, <1>17, <1>18, <1>19, <1>20, <1>21, <1>22, <1>23 DEF Next, Step

--------------------------------------------------------------------------------
(* What is remembered *)

LEMMA NothingIsLost == NothingLost /\ Remembered => ~MaySaveFail /\ CanSave
                                                    /\ "crash" \notin faults
                                                    /\ "conflict" \notin faults
BY DEF NothingLost, Remembered, MaySaveFail, CanSave

LEMMA InitRemembered == Init => Remembered
<1>1. Old \in Nat
  BY AgesAreNaturals
<1>2. NewStatus.imageAge = Old
  BY DEF NewStatus
<1> QED
  BY <1>1, <1>2, FirstScenario DEF Init, Remembered, Carried

(* A step that goes on and leaves the status and the DaemonSet alone.            *)
LEMMA GoesOnRemembered ==
    ASSUME TypeOK, Remembered, pc # "idle", GoesOn, UNCHANGED <<ds, status, sinceProbe, stale, faults>>
    PROVE  Remembered'
<1>1. rec # None /\ rec' # None
  BY NoneAssumption DEF TypeOK, GoesOn, Follows
<1> QED
  BY <1>1 DEF Remembered, Carried, GoesOn, Follows

(* Transitivity, of version numbers.                                             *)
LEMMA DaemonSetVersion ==
    ASSUME NEW t \in TemplateType, NEW r \in Rec, NEW v \in Rec,
           t.annotation <= r.st.image, r.st.image <= v.st.image
    PROVE  t.annotation <= v.st.image
<1>1. t.annotation \in Version /\ r.st.image \in Version /\ v.st.image \in Version
  BY DEF TemplateType, Rec, Status
<1>2. t.annotation \in Nat /\ r.st.image \in Nat /\ v.st.image \in Nat
  BY <1>1, VersionsAreNaturals
<1> QED
  BY <1>2

LEMMA ProbeImageRemembered == TypeOK /\ Remembered /\ ProbeImage => Remembered'
<1> SUFFICES ASSUME TypeOK, Remembered, ProbeImage PROVE Remembered'
  OBVIOUS
<1>1. /\ rec' \in Rec /\ rec.st.image <= rec'.st.image
      /\ rec'.st.imageAge = 0 /\ rec'.update
  BY ProbeImageGoesOn
<1>2. rec \in Rec /\ rec # None /\ rec' # None
  BY <1>1, InPass, NoneAssumption DEF ProbeImage
<1>3. Carried = rec.st /\ Carried' = rec'.st /\ sinceProbe' = 0
      /\ UNCHANGED <<ds, stale, faults>>
  BY <1>2 DEF Carried, ProbeImage, cluster
<1>4. ds # None => ds \in TemplateType
  BY DEF TypeOK
<1>5. ds # None => ds.annotation <= rec'.st.image
  BY <1>1, <1>2, <1>3, <1>4, DaemonSetVersion DEF Remembered
<1> QED
  BY <1>1, <1>2, <1>3, <1>5 DEF Remembered

(* The DaemonSet is rolled out for the version the pass carries, or for none.    *)
LEMMA RolloutRemembered ==
    TypeOK /\ Remembered /\ Rollout
    => /\ Remembered'
       /\ ds # None /\ ds'.annotation # 0 => ds.annotation <= ds'.annotation
<1> SUFFICES ASSUME TypeOK, Remembered, Rollout
             PROVE  /\ Remembered'
                    /\ ds # None /\ ds'.annotation # 0 => ds.annotation <= ds'.annotation
  OBVIOUS
<1>1. rec \in Rec /\ rec.st \in Status /\ rec.spec \in SpecType /\ pc # "idle"
  BY InPass DEF Rollout
<1>2. rec' \in Rec /\ rec'.st.image = rec.st.image /\ rec'.st.imageAge = rec.st.imageAge
      /\ (rec.update => rec'.update)
  BY RolloutGoesOn DEF GoesOn, Follows
<1>3. Carried = rec.st /\ Carried' = rec'.st
  BY <1>1, <1>2, NoneAssumption DEF Carried
<1>4. ds' = Template(rec.spec, rec.st) /\ UNCHANGED <<status, stale, faults, sinceProbe>>
  BY DEF Rollout, history
<1>5. ds'.annotation = 0 \/ ds'.annotation = rec.st.image
  BY <1>1, <1>4, TemplateOf
<1>6. rec.st.image \in Nat
  <2>1. rec.st.image \in Version
    BY <1>1 DEF Status
  <2> QED BY <2>1, VersionsAreNaturals
<1>7. ds'.annotation <= rec.st.image
  BY <1>5, <1>6
<1>8. Remembered'
  BY <1>1, <1>2, <1>3, <1>4, <1>7, NoneAssumption DEF Remembered
<1> QED
  BY <1>3, <1>5, <1>8 DEF Remembered

LEMMA TickRemembered == TypeOK /\ Remembered /\ Tick => Remembered'
<1> SUFFICES ASSUME TypeOK, Remembered, Tick PROVE Remembered'
  OBVIOUS
<1>1. status \in Status /\ (rec # None => rec.st \in Status /\ rec \in Rec)
  BY DEF TypeOK, Rec
<1>2. rec # None => /\ rec'.st = Aged(rec.st) /\ rec'.update = rec.update
                    /\ rec' # None
  <2> SUFFICES ASSUME rec # None PROVE /\ rec'.st = Aged(rec.st) /\ rec'.update = rec.update
                                       /\ rec' # None
    OBVIOUS
  <2> DEFINE st == Aged(rec.st)
  <2>1. st \in Status /\ rec \in Rec
    BY <1>1, AgedStatus
  <2>2. rec' = [rec EXCEPT !.st = st]
    BY DEF Tick
  <2> HIDE DEF st
  <2>3. rec' \in Rec /\ rec'.st = st /\ rec'.update = rec.update
    BY <2>1, <2>2 DEF Rec
  <2> QED BY <2>3, NoneAssumption DEF st
<1>3. Carried \in Status /\ Carried' = Aged(Carried) /\ (rec = None <=> rec' = None)
  BY <1>1, <1>2 DEF Carried, Tick
<1>4. /\ Carried'.image = Carried.image /\ status'.image = status.image
      /\ rec # None => rec'.st.image = rec.st.image
  BY <1>1, <1>2, <1>3, AgedStatus DEF Tick
<1>5. \A st \in Status : Aged(st).imageAge = Later(st.imageAge, Old)
  BY DEF Aged, Status
<1>6. Carried'.imageAge <= sinceProbe'
  <2>1. Carried.imageAge \in 0 .. Old /\ sinceProbe \in 0 .. Old
        /\ Carried.imageAge <= sinceProbe
    BY <1>3 DEF Status, TypeOK, Remembered
  <2>2. Carried'.imageAge = Later(Carried.imageAge, Old) /\ sinceProbe' = Later(sinceProbe, Old)
    BY <1>3, <1>5 DEF Tick
  <2>3. Later(Carried.imageAge, Old) <= Later(sinceProbe, Old)
    BY <2>1, AgesAreNaturals DEF Later
  <2> QED BY <2>2, <2>3
<1>7. rec # None /\ rec.st.imageAge = status.imageAge => rec'.st.imageAge = status'.imageAge
  BY <1>1, <1>2, <1>5 DEF Tick
<1>8. UNCHANGED <<ds, stale, faults>>
  BY DEF Tick, cluster
<1> QED
  BY <1>2, <1>3, <1>4, <1>6, <1>7, <1>8 DEF Remembered

(* A pass that changed the version or made a probe has its status saved.         *)
LEMMA EndRemembered == NothingLost /\ TypeOK /\ Remembered /\ End => Remembered'
<1> SUFFICES ASSUME NothingLost, TypeOK, Remembered, End PROVE Remembered'
  OBVIOUS
<1>1. rec \in Rec /\ rec # None /\ rec' = None
      /\ UNCHANGED <<ds, sinceProbe, faults>> /\ stale' = FALSE
  BY InPass, NoneAssumption DEF End, Goto, cluster, history
<1>2. Carried = rec.st /\ Carried' = status'
  BY <1>1 DEF Carried
<1>3. /\ Outcome.image = rec.st.image /\ Outcome.imageAge = rec.st.imageAge
  BY OutcomeType DEF End
<1>4. CASE ~Written /\ UNCHANGED status
  <2>1. ~rec.update
    BY <1>4 DEF Written
  <2> QED BY <1>1, <1>2, <1>4, <2>1 DEF Remembered
<1>5. CASE status' = Outcome
  BY <1>1, <1>2, <1>3, <1>5 DEF Remembered
<1> QED
  BY <1>4, <1>5, NothingIsLost DEF End, Save

LEMMA FindOutdatedRemembered == TypeOK /\ Remembered /\ FindOutdated => Remembered'
<1> SUFFICES ASSUME TypeOK, Remembered, FindOutdated PROVE Remembered'
  OBVIOUS
<1>1. GoesOn /\ (status' = status \/ status' = rec'.st)
  BY FindOutdatedGoesOn
<1>2. UNCHANGED <<ds, sinceProbe, stale, faults>> /\ pc # "idle"
  BY DEF FindOutdated, cluster, history
<1>3. CASE status' = status
  BY <1>1, <1>2, <1>3, GoesOnRemembered
<1>4. CASE status' = rec'.st
  <2>1. rec # None /\ rec' # None
    BY <1>1, <1>2, NoneAssumption DEF TypeOK, GoesOn, Follows
  <2> QED BY <1>1, <1>2, <1>4, <2>1 DEF Remembered, Carried, GoesOn, Follows
<1> QED
  BY <1>1, <1>3, <1>4

LEMMA NextRemembered ==
    NothingLost /\ TypeOK /\ Remembered /\ [Next]_vars => Remembered'
<1> SUFFICES ASSUME NothingLost, TypeOK, Remembered, [Next]_vars PROVE Remembered'
  OBVIOUS
<1> USE DEF user, cluster, dynatrace, history
<1>1. CASE Begin
  <2>1. rec = None /\ rec' # None /\ rec'.st.image = status.image
        /\ rec'.st.imageAge = status.imageAge /\ stale' = FALSE
        /\ UNCHANGED <<status, ds, faults, sinceProbe>>
    BY <1>1, BeginReads, NoneAssumption DEF Begin, TypeOK
  <2> QED BY <2>1 DEF Remembered, Carried
<1>2. CASE Istio
  BY <1>2, IstioGoesOn, GoesOnRemembered DEF Istio
<1>3. CASE SkipImage
  BY <1>3, SkipImageGoesOn, GoesOnRemembered DEF SkipImage
<1>4. CASE ProbeImage
  BY <1>4, ProbeImageRemembered
<1>5. CASE PullSecret
  BY <1>5, PullSecretGoesOn, GoesOnRemembered DEF PullSecret
<1>6. CASE RolloutFails
  BY <1>6, RolloutFailsGoesOn, GoesOnRemembered DEF RolloutFails
<1>7. CASE Rollout
  BY <1>7, RolloutRemembered
<1>8. CASE Probe
  BY <1>8, ProbeGoesOn, GoesOnRemembered DEF Probe
<1>9. CASE FindOutdated
  BY <1>9, FindOutdatedRemembered
<1>10. CASE Restart
  BY <1>10, RestartGoesOn, GoesOnRemembered DEF Restart
<1>11. CASE DeterminePhase
  BY <1>11, DeterminePhaseGoesOn, GoesOnRemembered DEF DeterminePhase
<1>12. CASE End
  BY <1>12, EndRemembered
<1>13. CASE Crash
  BY <1>13, NothingIsLost DEF Crash
<1>14. CASE EditSpec
  <2>1. stale' = FALSE
    BY <1>14, NothingIsLost DEF EditSpec
  <2> QED BY <1>14, <2>1 DEF EditSpec, Remembered, Carried
<1>15. CASE TokensChange \/ VersionPublished \/ IstioOutdated \/ PodsStopped \/ PodsReady
            \/ HostsReport \/ UNCHANGED vars
  <2>1. UNCHANGED <<ds, status, rec, sinceProbe, stale, faults>>
    BY <1>15 DEF TokensChange, VersionPublished, IstioOutdated, PodsStopped, PodsReady,
                 HostsReport, vars
  <2> QED BY <2>1 DEF Remembered, Carried
<1>16. CASE Tick
  BY <1>16, TickRemembered
<1>17. CASE FaultsEnd
  BY <1>17 DEF FaultsEnd, Remembered, Carried
<1> QED
  BY <1>1, <1>2, <1>3, <1>4, <1>5, <1>6, <1>7, <1>8, <1>9, <1>10, <1>11, <1>12, <1>13, <1>14,
     <1>15, <1>16, <1>17 DEF Next, Step

--------------------------------------------------------------------------------
(* What a rollout writes *)

(* The annotations of unprivileged pods replace the one with the version.        *)
Unannotated == ds # None /\ ds.pod.unprivileged => ds.annotation = 0

(* The only step that changes the DaemonSet.                                     *)
LEMMA OnlyRollout == [Next]_vars /\ ds' # ds => Rollout
BY DEF Next, Step, Begin, Istio, SkipImage, ProbeImage, PullSecret, RolloutFails, Probe,
       FindOutdated, Restart, DeterminePhase, End, Crash, EditSpec, TokensChange,
       VersionPublished, IstioOutdated, PodsStopped, PodsReady, HostsReport, Tick,
       FaultsEnd, vars, cluster

LEMMA RolloutAnnotates ==
    ASSUME TypeOK, Rollout
    PROVE  /\ ds' \in TemplateType
           /\ ds'.annotation = IF ds'.pod.unprivileged THEN 0 ELSE Carried.image
<1>1. rec.spec \in SpecType /\ rec.st \in Status /\ Carried = rec.st
  BY InPass DEF Rollout, Carried, TypeOK
<1>2. ds' = Template(rec.spec, rec.st)
  BY DEF Rollout
<1>3. Template(rec.spec, rec.st) \in TemplateType
  BY <1>1, TemplateOf
<1>4. Template(rec.spec, rec.st).pod.unprivileged = rec.spec.unprivileged
  BY DEF Template, PodSpec
<1>5. Template(rec.spec, rec.st).annotation
      = IF rec.spec.unprivileged THEN 0 ELSE rec.st.image
  BY DEF Template, Annotation
<1> QED
  BY <1>1, <1>2, <1>3, <1>4, <1>5

--------------------------------------------------------------------------------
(* What is found again *)

(* What fails is that status updates get lost and passes are cut off; calls do   *)
(* not, the spec stays as it is, and the registry does not go back.              *)
OnlyUpdatesLost == Faults \cap {"api", "edit", "conflict", "rollback"} = {}

(* The DaemonSet shows a version st does not know.                               *)
Behind(st) == ds # None /\ st.image < ds.annotation

(* The next probe is due as far as the saved status knows, it will succeed, and  *)
(* it finds v or a newer version.                                                *)
WillFind(v) ==
    /\ spec.immutable /\ ~spec.disabled /\ (spec.customPullSecret \/ secret)
    /\ v <= ImageVersion(spec) /\ status.imageAge >= Interval

(* The timestamp of a probe is lost together with its version: whoever does not  *)
(* know the version makes the probe again before the DaemonSet is written.       *)
FoundAgain ==
    /\ Behind(status) => WillFind(ds.annotation)
    /\ faults \subseteq Faults
    /\ rec # None =>
         /\ rec.spec = spec
         /\ rec.st.image # status.image => WillFind(rec.st.image)
         /\ pc \in {"istio", "image"} \/ Behind(rec.st)
            => rec.st.image = status.image /\ rec.st.imageAge = status.imageAge
         /\ Behind(rec.st) => pc \in {"istio", "image", "save"}

LEMMA NoCallFails ==
    ASSUME OnlyUpdatesLost, FoundAgain
    PROVE  faults \cap {"api", "edit", "conflict", "rollback"} = {}
BY DEF OnlyUpdatesLost, FoundAgain

(* The image the spec names does not get older.                                  *)
LEMMA WillStillFind ==
    ASSUME TypeOK, NEW v \in Version, WillFind(v), UNCHANGED spec, latest <= latest',
           TypeOK', secret => secret', status'.imageAge >= Interval
    PROVE  WillFind(v)'
<1>1. ImageVersion(spec) <= ImageVersion(spec)'
  <2>1. spec \in SpecType /\ latest \in Nat /\ latest' \in Nat
    BY SpecsAssumption, BoundsAssumption DEF TypeOK
  <2>2. spec.agentVersion \in Nat
    BY <2>1, VersionsAreNaturals DEF SpecType, Version
  <2> QED BY <2>1, <2>2 DEF ImageVersion, Tagged
<1>2. ImageVersion(spec) \in Version /\ ImageVersion(spec)' \in Version
  BY SpecsAssumption, BoundsAssumption DEF ImageVersion, Tagged, SpecType, Version, TypeOK
<1>3. v \in Nat /\ ImageVersion(spec) \in Nat /\ ImageVersion(spec)' \in Nat
  BY <1>2, VersionsAreNaturals
<1>4. v <= ImageVersion(spec)'
  BY <1>1, <1>3 DEF WillFind
<1> QED
  BY <1>4 DEF WillFind

(* A step of a pass that goes on, and leaves the status and the DaemonSet alone. *)
LEMMA GoesOnFoundAgain ==
    ASSUME TypeOK, TypeOK', FoundAgain, pc # "idle", GoesOn,
           UNCHANGED <<spec, latest, status, ds, faults>>, secret => secret',
           pc \notin {"istio", "image"} => pc' \notin {"istio", "image"},
           Behind(rec.st) => pc' \in {"istio", "image", "save"}
    PROVE  FoundAgain'
<1>1. /\ rec # None /\ rec' # None /\ rec.st \in Status
      /\ rec'.spec = rec.spec
      /\ rec'.st.image = rec.st.image /\ rec'.st.imageAge = rec.st.imageAge
  BY InPass, NoneAssumption DEF TypeOK, GoesOn, Follows
<1>2. Behind(status)' <=> Behind(status)
  BY DEF Behind
<1>3. Behind(rec.st)' <=> Behind(rec.st)
  BY <1>1 DEF Behind
<1>4. ASSUME NEW v \in Version, WillFind(v) PROVE WillFind(v)'
  <2>1. latest <= latest'
    BY DEF TypeOK
  <2>2. status'.imageAge >= Interval
    BY <1>4 DEF WillFind
  <2> QED BY <1>4, <2>1, <2>2, WillStillFind
<1>5. rec.st.image \in Version /\ (ds # None => ds.annotation \in Version)
  BY <1>1 DEF Status, TypeOK, TemplateType
<1>6. Behind(status)' => WillFind(ds.annotation)'
  BY <1>2, <1>4, <1>5 DEF FoundAgain, Behind
<1>7. rec'.st.image # status'.image => WillFind(rec.st.image)'
  BY <1>1, <1>4, <1>5 DEF FoundAgain
<1> QED
  BY <1>1, <1>3, <1>6, <1>7 DEF FoundAgain

(* Without a probe no newer version is missing, with one it is found.            *)
LEMMA SkipImageFoundAgain ==
    ASSUME OnlyUpdatesLost, TypeOK, TypeOK', FoundAgain, SkipImage
    PROVE  FoundAgain'
<1>1. GoesOn /\ pc # "idle" /\ rec # None
  BY SkipImageGoesOn, InPass, NoneAssumption DEF SkipImage
<1>2. ~Behind(rec.st)
  <2> SUFFICES ASSUME Behind(rec.st) PROVE FALSE
    OBVIOUS
  <2>1. /\ rec.st.image = status.image /\ rec.st.imageAge = status.imageAge
        /\ rec.spec = spec
    BY <1>1 DEF FoundAgain
  <2>2. WillFind(ds.annotation)
    BY <2>1 DEF FoundAgain, Behind
  <2>3. Switched.st.immutable = rec.spec.immutable /\ Switched.spec = rec.spec
        /\ Switched.st.imageAge = rec.st.imageAge
    BY <1>1, SwitchedFollows, SwitchedImmutable DEF Follows
  <2> QED BY <2>1, <2>2, <2>3 DEF WillFind, SkipImage, ProbeDue
<1> QED
  BY <1>1, <1>2, GoesOnFoundAgain
     DEF SkipImage, Goto, user, cluster, dynatrace

LEMMA ProbeImageFoundAgain ==
    ASSUME OnlyUpdatesLost, TypeOK, TypeOK', FoundAgain, ProbeImage
    PROVE  FoundAgain'
<1>1. /\ pc' \in Places /\ rec' \in Rec /\ rec'.spec = rec.spec
      /\ rec.st.image <= rec'.st.image
      /\ \/ ProbeSucceeds
         \/ ProbeFails
  BY ProbeImageGoesOn
<1>2. rec \in Rec /\ rec # None /\ rec' # None /\ pc = "image" /\ pc' = "secret"
  BY <1>1, InPass, NoneAssumption DEF ProbeImage, Goto
<1>3. UNCHANGED <<spec, latest, status, ds, faults, secret>>
  BY DEF ProbeImage, user, cluster, dynatrace
<1>4. /\ rec.spec = spec /\ rec.st.image = status.image /\ rec.st.imageAge = status.imageAge
  BY <1>2 DEF FoundAgain
<1>5. spec.immutable /\ ~spec.disabled /\ status.imageAge >= Interval
  <2>1. Switched.st.immutable = rec.spec.immutable /\ Switched.spec = rec.spec
        /\ Switched.st.imageAge = rec.st.imageAge
    BY <1>2, SwitchedFollows, SwitchedImmutable DEF Follows
  <2> QED BY <1>4, <2>1 DEF ProbeImage, ProbeDue
<1>6. ASSUME NEW v, WillFind(v) PROVE WillFind(v)'
  BY <1>3, <1>6 DEF WillFind, ImageVersion, Tagged
<1>7. Behind(status)' <=> Behind(status)
  BY <1>3 DEF Behind
<1>8. Behind(status)' => WillFind(ds.annotation)'
  BY <1>3, <1>6, <1>7 DEF FoundAgain
<1>9. /\ status.image \in Nat /\ rec'.st.image \in Nat /\ ImageVersion(spec) \in Nat
      /\ ds # None => ds.annotation \in Nat
  <2>1. status.image \in Version /\ rec'.st.image \in Version
        /\ (ds # None => ds.annotation \in Version) /\ ImageVersion(spec) \in Version
    BY <1>1, SpecsAssumption, ImageVersionType DEF TypeOK, Rec, Status, TemplateType
  <2> QED BY <2>1, VersionsAreNaturals
<1>10. CASE ProbeSucceeds
  <2>1. /\ spec.customPullSecret \/ secret
        /\ ImageVersion(spec) <= rec'.st.image
        /\ rec'.st.image \in {status.image, ImageVersion(spec)}
    BY <1>4, <1>10 DEF ProbeSucceeds, PullSecretExists
  <2>2. rec'.st.image # status.image => WillFind(rec'.st.image)
    BY <1>5, <1>9, <2>1 DEF WillFind
  <2>3. ~Behind(rec.st)'
    <3> SUFFICES ASSUME ds # None PROVE ds.annotation <= rec'.st.image
      BY <1>3, <1>9 DEF Behind
    <3>1. CASE Behind(status)
      BY <1>9, <2>1, <3>1 DEF FoundAgain, WillFind
    <3>2. CASE ~Behind(status)
      BY <1>1, <1>4, <1>9, <3>2 DEF Behind
    <3> QED BY <3>1, <3>2
  <2>4. rec'.st.image # status'.image => WillFind(rec.st.image)'
    BY <1>3, <2>2 DEF WillFind, ImageVersion, Tagged
  <2> QED BY <1>1, <1>2, <1>3, <1>4, <1>8, <2>3, <2>4 DEF FoundAgain
<1>11. CASE ProbeFails
  <2>1. ~(spec.customPullSecret \/ secret) /\ rec'.st.image = status.image
    BY <1>4, <1>11, NoCallFails DEF ProbeFails, PullSecretExists
  <2>2. ~Behind(status)
    BY <2>1 DEF FoundAgain, WillFind
  <2>3. ~Behind(rec.st)'
    BY <1>3, <2>1, <2>2 DEF Behind
  <2> QED BY <1>1, <1>2, <1>3, <1>4, <1>8, <2>1, <2>3 DEF FoundAgain
<1> QED
  BY <1>1, <1>10, <1>11

(* The DaemonSet gets the version of the pass, which is no older one.            *)
LEMMA RolloutOfFound ==
    ASSUME TypeOK, FoundAgain, Rollout, ds # None
    PROVE  ds.annotation <= Carried.image
<1>1. rec # None /\ rec.st \in Status /\ Carried = rec.st /\ pc = "rollout"
  BY InPass, NoneAssumption DEF Rollout, Carried
<1>2. ~Behind(rec.st)
  BY <1>1 DEF FoundAgain
<1>3. ds.annotation \in Version /\ rec.st.image \in Version
  BY <1>1 DEF TypeOK, TemplateType, Status
<1> QED
  BY <1>1, <1>2, <1>3, VersionsAreNaturals DEF Behind

LEMMA RolloutFoundAgain ==
    ASSUME TypeOK, TypeOK', FoundAgain, Rollout
    PROVE  FoundAgain'
<1>1. /\ rec \in Rec /\ rec # None /\ rec' # None /\ rec.st \in Status
      /\ rec'.spec = rec.spec /\ pc = "rollout" /\ pc' \in {"probe", "save"}
      /\ rec'.st.image = rec.st.image /\ rec'.st.imageAge = rec.st.imageAge
  BY InPass, NoneAssumption, RolloutGoesOn DEF Rollout, Goto, GoesOn, Follows
<1>2. UNCHANGED <<spec, latest, status, secret, faults>>
  BY DEF Rollout, user, dynatrace
<1>3. ds'.annotation \in {0, rec.st.image} /\ ds' \in TemplateType
  BY <1>1, RolloutAnnotates DEF Carried
<1>4. status.image \in Nat /\ rec.st.image \in Nat
  <2>1. status.image \in Version /\ rec.st.image \in Version
    BY <1>1 DEF TypeOK, Status
  <2> QED BY <2>1, VersionsAreNaturals
<1>5. ~Behind(rec.st)'
  BY <1>1, <1>3, <1>4 DEF Behind
<1>6. ASSUME NEW v, WillFind(v) PROVE WillFind(v)'
  BY <1>2, <1>6 DEF WillFind, ImageVersion, Tagged
<1>7. Behind(status)' => ds'.annotation = rec.st.image /\ rec.st.image # status.image
  BY <1>2, <1>3, <1>4 DEF Behind
<1>8. Behind(status)' => WillFind(ds.annotation)'
  BY <1>1, <1>2, <1>7 DEF FoundAgain, WillFind, ImageVersion, Tagged
<1>9. rec'.st.image # status'.image => WillFind(rec.st.image)'
  BY <1>1, <1>2 DEF FoundAgain, WillFind, ImageVersion, Tagged
<1> QED
  BY <1>1, <1>2, <1>5, <1>8, <1>9 DEF FoundAgain

LEMMA BeginFoundAgain ==
    ASSUME TypeOK, FoundAgain, Begin
    PROVE  FoundAgain'
<1>1. /\ rec' # None /\ pc' \in {"istio", "save"}
      /\ rec'.spec = spec /\ rec'.st.image = status.image /\ rec'.st.imageAge = status.imageAge
  BY BeginReads, NoneAssumption DEF Begin, Goto
<1>2. UNCHANGED <<spec, latest, status, ds, secret, faults>>
  BY DEF Begin, user, cluster, dynatrace
<1>3. (Behind(status)' <=> Behind(status)) /\ (Behind(rec.st)' <=> Behind(status))
  BY <1>1, <1>2 DEF Behind
<1> QED
  BY <1>1, <1>2, <1>3 DEF FoundAgain, WillFind, ImageVersion, Tagged

(* Pods are only looked at when the DaemonSet has the version of the pass.       *)
LEMMA FindOutdatedFoundAgain ==
    ASSUME TypeOK, TypeOK', FoundAgain, FindOutdated
    PROVE  FoundAgain'
<1>1. /\ GoesOn /\ (status' = status \/ status' = rec'.st)
      /\ pc = "version" /\ pc' \in {"save", "phase", "restart"}
  BY FindOutdatedGoesOn DEF FindOutdated, Goto
<1>2. UNCHANGED <<spec, latest, ds, secret, faults>>
  BY DEF FindOutdated, user, cluster, dynatrace
<1>3. rec # None /\ ~Behind(rec.st)
  BY <1>1, InPass, NoneAssumption DEF FoundAgain
<1>4. CASE status' = status
  BY <1>1, <1>2, <1>3, <1>4, GoesOnFoundAgain
<1>5. CASE status' = rec'.st
  <2>1. rec'.st.image = rec.st.image /\ rec'.spec = rec.spec
    BY <1>1 DEF GoesOn, Follows
  <2>2. ~Behind(rec.st)' /\ ~Behind(status)'
    BY <1>2, <1>3, <1>5, <2>1 DEF Behind
  <2> QED BY <1>1, <1>2, <1>3, <1>5, <2>1, <2>2 DEF FoundAgain
<1> QED
  BY <1>1, <1>4, <1>5

(* A status that misses a version still has the timestamp from before its probe. *)
LEMMA EndFoundAgain ==
    ASSUME TypeOK, FoundAgain, End
    PROVE  FoundAgain'
<1>1. rec # None /\ rec' = None /\ UNCHANGED <<spec, latest, ds, secret, faults>>
  BY InPass, NoneAssumption DEF End, Goto, user, cluster, dynatrace
<1>2. Outcome.image = rec.st.image /\ Outcome.imageAge = rec.st.imageAge
  BY OutcomeType DEF End
<1>3. CASE UNCHANGED status
  BY <1>1, <1>3 DEF FoundAgain, Behind, WillFind, ImageVersion, Tagged
<1>4. CASE status' = Outcome
  <2>1. Behind(status)' => Behind(rec.st)
    BY <1>1, <1>2, <1>4 DEF Behind
  <2>2. Behind(rec.st) => /\ rec.st.image = status.image /\ rec.st.imageAge = status.imageAge
                          /\ Behind(status)
    BY <1>1 DEF FoundAgain, Behind
  <2>3. Behind(status)' => WillFind(ds.annotation) /\ status'.imageAge = status.imageAge
    BY <1>2, <1>4, <2>1, <2>2 DEF FoundAgain
  <2>4. Behind(status)' => WillFind(ds.annotation)'
    BY <1>1, <2>3 DEF WillFind, ImageVersion, Tagged
  <2> QED BY <1>1, <2>4 DEF FoundAgain
<1> QED
  BY <1>3, <1>4 DEF End, Save

LEMMA TickFoundAgain ==
    ASSUME TypeOK, TypeOK', FoundAgain, Tick
    PROVE  FoundAgain'
<1>1. status \in Status /\ (rec # None => rec \in Rec /\ rec.st \in Status)
  BY DEF TypeOK, Rec
<1>2. /\ UNCHANGED <<spec, latest, ds, secret, faults, pc>>
      /\ rec' = None <=> rec = None
  BY DEF Tick, TypeOK, user, cluster, dynatrace
<1>3. \A st \in Status : Aged(st).imageAge = Later(st.imageAge, Old)
  BY DEF Aged, Status
<1>4. /\ status'.image = status.image
      /\ status'.imageAge = Later(status.imageAge, Old)
  BY <1>1, <1>3, AgedStatus DEF Tick
<1>5. rec # None => /\ rec'.st.image = rec.st.image /\ rec'.spec = rec.spec
                    /\ rec'.st.imageAge = Later(rec.st.imageAge, Old)
  <2> SUFFICES ASSUME rec # None
               PROVE  /\ rec'.st.image = rec.st.image /\ rec'.spec = rec.spec
                      /\ rec'.st.imageAge = Later(rec.st.imageAge, Old)
    OBVIOUS
  <2> DEFINE st == Aged(rec.st)
  <2>1. st \in Status /\ rec \in Rec /\ st.image = rec.st.image
        /\ st.imageAge = Later(rec.st.imageAge, Old)
    BY <1>1, <1>3, AgedStatus
  <2>2. rec' = [rec EXCEPT !.st = st]
    BY DEF Tick
  <2> HIDE DEF st
  <2> QED BY <2>1, <2>2 DEF Rec
<1>6. status.imageAge >= Interval => status'.imageAge >= Interval
  <2>1. status.imageAge \in 0 .. Old
    BY <1>1 DEF Status
  <2> QED BY <1>4, <2>1, AgesAreNaturals DEF Later
<1>7. ASSUME NEW v, WillFind(v) PROVE WillFind(v)'
  BY <1>2, <1>6, <1>7 DEF WillFind, ImageVersion, Tagged
<1>8. (Behind(status)' <=> Behind(status)) /\ (rec # None => (Behind(rec.st)' <=> Behind(rec.st)))
  BY <1>2, <1>4, <1>5 DEF Behind
<1>9. Behind(status)' => WillFind(ds.annotation)'
  BY <1>2, <1>7, <1>8 DEF FoundAgain
<1>10. rec # None /\ rec'.st.image # status'.image => WillFind(rec.st.image)'
  BY <1>4, <1>5, <1>7 DEF FoundAgain
<1> QED
  BY <1>2, <1>4, <1>5, <1>8, <1>9, <1>10 DEF FoundAgain

(* Where the operator does nothing; the registry gets a newer version at most.   *)
LEMMA AroundFoundAgain ==
    ASSUME TypeOK, TypeOK', FoundAgain, latest <= latest', faults' \subseteq faults,
           UNCHANGED <<spec, status, ds, secret, pc, rec>>
    PROVE  FoundAgain'
<1>1. ASSUME NEW v \in Version, WillFind(v) PROVE WillFind(v)'
  <2>1. status'.imageAge >= Interval
    BY <1>1 DEF WillFind
  <2> QED BY <1>1, <2>1, WillStillFind
<1>2. /\ ds # None => ds.annotation \in Version
      /\ rec # None => rec.st.image \in Version
  BY DEF TypeOK, TemplateType, Rec, Status
<1>3. (Behind(status)' <=> Behind(status)) /\ (Behind(rec.st)' <=> Behind(rec.st))
  BY DEF Behind
<1>4. Behind(status)' => WillFind(ds.annotation)'
  BY <1>1, <1>2, <1>3 DEF FoundAgain, Behind
<1>5. rec # None /\ rec'.st.image # status'.image => WillFind(rec.st.image)'
  BY <1>1, <1>2 DEF FoundAgain
<1> QED
  BY <1>3, <1>4, <1>5 DEF FoundAgain

LEMMA NextFoundAgain ==
    OnlyUpdatesLost /\ TypeOK /\ FoundAgain /\ [Next]_vars => FoundAgain'
<1> SUFFICES ASSUME OnlyUpdatesLost, TypeOK, FoundAgain, [Next]_vars PROVE FoundAgain'
  OBVIOUS
<1>0. TypeOK'
  BY NextType
<1> USE DEF user, cluster, dynatrace
<1>1. CASE Begin
  BY <1>1, BeginFoundAgain
<1>2. CASE Istio
  <2>1. pc = "istio" /\ pc' \in {"image", "save"}
        /\ UNCHANGED <<spec, latest, status, ds, secret, faults>>
    BY <1>2 DEF Istio, Goto
  <2> QED BY <1>0, <1>2, <2>1, IstioGoesOn, GoesOnFoundAgain
<1>3. CASE SkipImage
  BY <1>0, <1>3, SkipImageFoundAgain
<1>4. CASE ProbeImage
  BY <1>0, <1>4, ProbeImageFoundAgain
<1>5. CASE PullSecret \/ RolloutFails \/ Probe \/ Restart \/ DeterminePhase
  <2>1. GoesOn
    BY <1>5, PullSecretGoesOn, RolloutFailsGoesOn, ProbeGoesOn, RestartGoesOn,
       DeterminePhaseGoesOn
  <2>2. pc \in {"secret", "rollout", "probe", "restart", "phase"}
        /\ pc' \notin {"istio", "image"}
    BY <1>5 DEF PullSecret, RolloutFails, Probe, ProbeInstances, Restart, DeterminePhase, Goto
  <2>3. UNCHANGED <<spec, latest, status, ds, faults>> /\ (secret => secret')
    BY <1>5 DEF PullSecret, RolloutFails, Probe, Restart, DeterminePhase
  <2>4. ~Behind(rec.st)
    BY <2>2, InPass, NoneAssumption DEF FoundAgain
  <2> QED BY <1>0, <2>1, <2>2, <2>3, <2>4, GoesOnFoundAgain
<1>6. CASE Rollout
  BY <1>0, <1>6, RolloutFoundAgain
<1>7. CASE FindOutdated
  BY <1>0, <1>7, FindOutdatedFoundAgain
<1>8. CASE End
  BY <1>8, EndFoundAgain
<1>9. CASE Crash
  BY <1>9 DEF Crash, Goto, FoundAgain, Behind, WillFind, ImageVersion, Tagged
<1>10. CASE EditSpec
  BY <1>10, NoCallFails DEF EditSpec
<1>11. CASE TokensChange \/ VersionPublished \/ IstioOutdated \/ PodsStopped \/ PodsReady
            \/ HostsReport \/ FaultsEnd \/ UNCHANGED vars
  <2>1. latest \in Nat
    BY DEF TypeOK
  <2>2. latest' = latest \/ latest' > latest
    BY <1>11, NoCallFails DEF TokensChange, VersionPublished, IstioOutdated, PodsStopped,
       PodsReady, HostsReport, FaultsEnd, vars
  <2>3. latest' \in Nat
    BY <1>0 DEF TypeOK
  <2>4. latest <= latest'
    BY <2>1, <2>2, <2>3
  <2>5. UNCHANGED <<spec, status, ds, secret, pc, rec>> /\ faults' \subseteq faults
    BY <1>11 DEF TokensChange, VersionPublished, IstioOutdated, PodsStopped, PodsReady,
       HostsReport, FaultsEnd, vars
  <2> QED BY <1>0, <2>4, <2>5, AroundFoundAgain
<1>12. CASE Tick
  BY <1>0, <1>12, TickFoundAgain
<1> QED
  BY <1>1, <1>2, <1>3, <1>4, <1>5, <1>6, <1>7, <1>8, <1>9, <1>10, <1>11, <1>12 DEF Next, Step

--------------------------------------------------------------------------------
(* The theorems *)

(* Whatever fails, the status, the DaemonSet and the reconciliation keep their   *)
(* types, and a reconciliation exists as long as its pass and no longer.         *)
THEOREM TypeCorrect == Spec => []TypeOK
<1>1. Init => TypeOK
  BY InitType
<1>2. TypeOK /\ [Next]_vars => TypeOK'
  BY NextType
<1> QED
  BY <1>1, <1>2, PTL DEF Spec

(* As long as no status update is lost, every version the DaemonSet was rolled   *)
(* out for is remembered.                                                        *)
LEMMA VersionsAreRemembered == NothingLost /\ Spec => []Remembered
<1> SUFFICES ASSUME NothingLost PROVE Spec => []Remembered
  OBVIOUS
<1>1. Init => Remembered
  BY InitRemembered
<1>2. TypeOK /\ Remembered /\ [Next]_vars => Remembered'
  BY NextRemembered
<1> QED
  BY <1>1, <1>2, TypeCorrect, PTL DEF Spec

(* When only status updates are lost, the version the DaemonSet was rolled out   *)
(* for is found again before it is written.                                      *)
LEMMA VersionsAreFoundAgain == OnlyUpdatesLost /\ Spec => []FoundAgain
<1> SUFFICES ASSUME OnlyUpdatesLost PROVE Spec => []FoundAgain
  OBVIOUS
<1>1. Init => FoundAgain
  BY FirstScenario DEF Init, FoundAgain, Behind
<1>2. TypeOK /\ FoundAgain /\ [Next]_vars => FoundAgain'
  BY NextFoundAgain
<1> QED
  BY <1>1, <1>2, TypeCorrect, PTL DEF Spec

LEMMA UnprivilegedIsUnannotated == Spec => []Unannotated
<1>1. Init => Unannotated
  BY DEF Init, Unannotated
<1>2. TypeOK /\ Unannotated /\ [Next]_vars => Unannotated'
  <2> SUFFICES ASSUME TypeOK, Unannotated, [Next]_vars PROVE Unannotated'
    OBVIOUS
  <2>1. CASE ds' = ds
    BY <2>1 DEF Unannotated
  <2>2. CASE Rollout
    BY <2>2, RolloutAnnotates DEF Unannotated
  <2> QED BY <2>1, <2>2, OnlyRollout
<1> QED
  BY <1>1, <1>2, TypeCorrect, PTL DEF Spec

(* What a rollout does to the DaemonSet that exists, when the pass carries no    *)
(* older version than the DaemonSet shows.                                       *)
LEMMA RolloutIsNoDowngrade ==
    ASSUME TypeOK, Unannotated, Rollout, ds # None, ds' # ds, ds.annotation <= Carried.image
    PROVE  /\ ds'.annotation # 0 => ds.annotation <= ds'.annotation
           /\ ds'.pod = ds.pod => ds.annotation < ds'.annotation
<1>1. /\ ds \in TemplateType /\ ds' \in TemplateType
      /\ ds'.annotation = IF ds'.pod.unprivileged THEN 0 ELSE Carried.image
  BY RolloutAnnotates DEF TypeOK
<1>2. ds'.annotation # 0 => ds.annotation <= ds'.annotation
  BY <1>1
<1>3. ASSUME ds'.pod = ds.pod PROVE ds.annotation < ds'.annotation
  <2>1. ds.annotation # ds'.annotation
    BY <1>1, <1>3 DEF TemplateType
  <2>2. ~ds.pod.unprivileged
    BY <1>1, <1>3, <2>1 DEF Unannotated
  <2>3. ds.annotation <= ds'.annotation
    BY <1>1, <1>3, <2>2
  <2>4. ds.annotation \in Nat /\ ds'.annotation \in Nat
    BY <1>1, VersionsAreNaturals DEF TemplateType
  <2> QED BY <2>1, <2>3, <2>4
<1> QED
  BY <1>2, <1>3

(* The image version in the DaemonSet's annotation does not go back, and unless  *)
(* the user changes what the pods are made of (an older agentVersion among it),  *)
(* they are replaced for a newer version only (oneagent_controller.go:387).  So  *)
(* it is as long as no status update is lost, whatever the registry and the user *)
(* do and whichever calls fail; and when all that happens is that status updates *)
(* are lost and passes are cut off, as the next pass makes the probe again.      *)
THEOREM NoUnaskedDowngrades == (NothingLost \/ OnlyUpdatesLost) /\ Spec => NoUnaskedDowngrade
<1> DEFINE Up == ds # None /\ ds' # ds =>
                   /\ ds'.annotation # 0 => ds.annotation <= ds'.annotation
                   /\ ds'.pod = ds.pod => ds.annotation < ds'.annotation
<1>1. TypeOK /\ Unannotated /\ (Remembered \/ FoundAgain) /\ [Next]_vars => [Up]_vars
  <2> SUFFICES ASSUME TypeOK, Unannotated, Remembered \/ FoundAgain, [Next]_vars,
                      ds # None, ds' # ds
               PROVE  /\ ds'.annotation # 0 => ds.annotation <= ds'.annotation
                      /\ ds'.pod = ds.pod => ds.annotation < ds'.annotation
    OBVIOUS
  <2>1. Rollout
    BY OnlyRollout
  <2>2. ds.annotation <= Carried.image
    <3>1. CASE Remembered
      BY <3>1 DEF Remembered
    <3>2. CASE FoundAgain
      BY <2>1, <3>2, RolloutOfFound
    <3> QED BY <3>1, <3>2
  <2> QED BY <2>1, <2>2, RolloutIsNoDowngrade
<1>2. CASE NothingLost
  BY <1>1, <1>2, TypeCorrect, VersionsAreRemembered, UnprivilegedIsUnannotated, PTL
     DEF Spec, NoUnaskedDowngrade
<1>3. CASE OnlyUpdatesLost
  BY <1>1, <1>3, TypeCorrect, VersionsAreFoundAgain, UnprivilegedIsUnannotated, PTL
     DEF Spec, NoUnaskedDowngrade
<1> QED
  BY <1>2, <1>3

(* As long as no status update is lost, the registry is asked at most once per   *)
(* interval, also when it or anything else in the pass fails.                    *)
THEOREM ProbesAreFarApart == NothingLost /\ Spec => ProbesAreSpaced
<1> SUFFICES ASSUME NothingLost PROVE Spec => ProbesAreSpaced
  OBVIOUS
<1>1. TypeOK /\ Remembered /\ ProbeImage => sinceProbe >= Interval
  <2> SUFFICES ASSUME TypeOK, Remembered, ProbeImage PROVE sinceProbe >= Interval
    OBVIOUS
  <2>1. Switched.st.imageAge >= Interval /\ Switched.st.imageAge = rec.st.imageAge
    BY SwitchedFollows DEF ProbeImage, ProbeDue
  <2>2. Carried = rec.st /\ rec.st \in Status
    BY InPass, NoneAssumption DEF ProbeImage, Carried
  <2>3. rec.st.imageAge <= sinceProbe /\ rec.st.imageAge \in 0 .. Old /\ sinceProbe \in 0 .. Old
    BY <2>2 DEF Remembered, TypeOK, Status
  <2> QED BY <2>1, <2>3, AgesAreNaturals
<1>2. TypeOK /\ Remembered /\ [Next]_vars => [ProbeImage => sinceProbe >= Interval]_vars
  BY <1>1
<1> QED
  BY <1>2, TypeCorrect, VersionsAreRemembered, PTL DEF Spec, ProbesAreSpaced

================================================================================
