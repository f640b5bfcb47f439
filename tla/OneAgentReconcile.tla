--------------------------- MODULE OneAgentReconcile ---------------------------
(***************************************************************************)
(* The OneAgent controller (controllers/oneagent/oneagent_controller.go): *)
(* a pass reads a OneAgent, checks the tokens, probes the version of the   *)
(* image, writes the pull secret and the DaemonSet, looks at the instances *)
(* and restarts outdated ones from time to time, and saves the status.     *)
(* Between two of these steps the user, Kubernetes and Dynatrace go on, a  *)
(* call may fail, and the operator may be restarted.                       *)
(*                                                                         *)
(* Versions are numbers in their order and 0 is the empty string.  Times   *)
(* are ages in ticks, up to the first age at which nothing changes any     *)
(* more; a timestamp that is not set is as good as one of that age.  The   *)
(* restart of outdated pods is the subject of PodRollout and one step      *)
(* here, the tokens of the secret are good or bad.                         *)
(*                                                                         *)
(* Operators named Bug... are defects the code could have had; no action   *)
(* uses them, they show which property would notice.                       *)
(***************************************************************************)
EXTENDS Integers

CONSTANTS
    Specs,       \* the specs the user gives the OneAgent, see SpecType
    MaxVersion,  \* bound: the highest version of the environment
    Interval,    \* defaultUpdateInterval and imageProbeInterval, in ticks
    Faults,      \* what may go wrong, a subset of FaultKinds
    Scenarios,   \* bound: the first spec together with what goes wrong from then on
    None         \* model value: no pass, no DaemonSet

(* The fields of the spec the code decides on: useImmutableImage, agentVersion,  *)
(* image, customPullSecret, disableAgentUpdate, useUnprivilegedMode.             *)
SpecType == [immutable : BOOLEAN, agentVersion : 0 .. MaxVersion, image : BOOLEAN,
             customPullSecret : BOOLEAN, disabled : BOOLEAN, unprivileged : BOOLEAN]

(* "api": a call fails.  "save": a status update fails.  "crash": the operator   *)
(* is restarted.  "edit": the spec is changed between passes.  "conflict": it is *)
(* changed during a pass.  "switch": these changes may be from installer to      *)
(* immutable image or back.  "rollback": the latest version may become older.    *)
(* "tokens": the tokens get lost and come back.  "unready": pods get unready.    *)
(* "istio": Istio objects have to be written.                                    *)
FaultKinds == {"api", "save", "crash", "edit", "conflict", "switch", "rollback", "tokens",
               "unready", "istio"}

ASSUME BoundsAssumption == MaxVersion \in Nat \ {0} /\ Interval \in Nat \ {0}
ASSUME SpecsAssumption == Specs \subseteq SpecType /\ Specs # {}
ASSUME FaultsAssumption == Faults \subseteq FaultKinds
ASSUME ScenariosAssumption == Scenarios \subseteq Specs \X SUBSET Faults

VARIABLES
    spec,          \* the spec of the OneAgent
    status,        \* its status, as saved
    secret,        \* the pull secret exists
    ds,            \* the template of the DaemonSet, None before it is created
    running,       \* the template its pods have
    ready,         \* NumberReady is CurrentNumberScheduled
    fleet,         \* the pods' version, the version Dynatrace reports, and their names
    latest,        \* the latest version of the environment
    tokens,        \* the secret with the tokens is there and complete
    istio,         \* Istio objects have to be written
    pc,            \* where the pass is
    rec,           \* the reconciliation: the OneAgent as read and changed, err, update,
                   \* and whether a new version was found
    again,         \* the watch event of a status update has not been handled
    stale,         \* the OneAgent was changed since the pass read it
    faults,        \* what may still go wrong
    sinceProbe,    \* history: ticks since the last look at the image
    sinceRestart   \* history: ticks since the last restart of pods

user == <<spec, tokens>>
cluster == <<secret, ds, running, ready, istio>>
dynatrace == <<fleet, latest>>
history == <<sinceProbe, sinceRestart>>
vars == <<user, status, cluster, dynatrace, pc, rec, again, stale, faults, history>>

--------------------------------------------------------------------------------
(* The OneAgent and its DaemonSet *)

Version == 0 .. MaxVersion
Old == Interval + 1                  \* an age at which a probe is due
Later(age, bound) == IF age < bound THEN age + 1 ELSE age

(* The names of the pods stand for all of them; names that nothing remembers are *)
(* given again.                                                                  *)
PodNames == 0 .. 3
Snapshot == [ver : Version, names : PodNames] \cup {None}
Seen == IF running = None THEN None ELSE [ver |-> fleet.reports, names |-> fleet.names]

Status == [phase : {"", "Running", "Deploying", "Error"}, version : Version,
           immutable : BOOLEAN, image : Version, instances : Snapshot,
           imageAge : 0 .. Old, updateAge : 0 .. Old, complaint : BOOLEAN, asked : BOOLEAN]
NewStatus == [phase |-> "", version |-> 0, immutable |-> FALSE, image |-> 0,
              instances |-> None, imageAge |-> Old, updateAge |-> Old, complaint |-> FALSE, asked |-> FALSE]
Aged(st) == [st EXCEPT !.imageAge = Later(@, Old), !.updateAge = Later(@, Old), !.asked = FALSE]

(* newDaemonSetForCR, as far as the model tells DaemonSets apart: in the spec of  *)
(* the pods the kind of image, its name and tag, the secret it is pulled with    *)
(* and the security context; and the annotation with the version of the image.   *)
(* The annotations of unprivileged pods replace this one.                        *)
PodSpec(s, st) ==
    [immutable |-> st.immutable, own |-> s.image,
     tag |-> IF st.immutable /\ ~s.image THEN s.agentVersion ELSE 0,
     customPullSecret |-> st.immutable /\ s.customPullSecret, unprivileged |-> s.unprivileged]
PodSpecType == [immutable : BOOLEAN, own : BOOLEAN, tag : Version,
                customPullSecret : BOOLEAN, unprivileged : BOOLEAN]

BugAnnotation(s, st) == 0
Annotation(s, st) == IF s.unprivileged THEN 0 ELSE st.image
Template(s, st) == [pod |-> PodSpec(s, st), annotation |-> Annotation(s, st)]
TemplateType == [pod : PodSpecType, annotation : Version]

(* A reconciliation: the OneAgent as the pass read and changed it, and so on.    *)
Rec == [spec : SpecType, st : Status, update : BOOLEAN, err : BOOLEAN, found : BOOLEAN]

ASSUME NoneAssumption == None \notin Rec /\ None \notin TemplateType

(* Pods that replace others have names that no snapshot has.                     *)
NamesIn(st) == IF st.instances = None THEN {} ELSE {st.instances.names}
Held == {fleet.names} \cup NamesIn(status) \cup (IF rec = None THEN {} ELSE NamesIn(rec.st))
NewNames == CHOOSE k \in PodNames : k \notin Held

(* The version in the image a spec or a template names.                          *)
Tagged(tag) == IF tag = 0 THEN latest ELSE tag
ImageVersion(s) == Tagged(IF s.image THEN 0 ELSE s.agentVersion)

--------------------------------------------------------------------------------
(* What happens around the operator *)

EditSpec ==
    /\ IF pc = "idle" THEN "edit" \in faults ELSE "conflict" \in faults
    /\ spec' \in Specs \ {spec}
    /\ spec'.immutable = spec.immutable \/ "switch" \in faults
    /\ again' = TRUE /\ stale' = (pc # "idle")
    /\ UNCHANGED <<tokens, status, cluster, dynatrace, pc, rec, faults, history>>

TokensChange ==
    /\ "tokens" \in faults
    /\ tokens' = ~tokens
    /\ UNCHANGED <<spec, status, cluster, dynatrace, pc, rec, again, stale, faults, history>>

VersionPublished ==
    /\ \E v \in 1 .. MaxVersion : (v > latest \/ "rollback" \in faults) /\ latest' = v
    /\ latest' # latest
    /\ UNCHANGED <<user, status, cluster, fleet, pc, rec, again, stale, faults, history>>

IstioOutdated ==
    /\ "istio" \in faults
    /\ istio' = TRUE
    /\ UNCHANGED <<user, status, secret, ds, running, ready, dynatrace, pc, rec, again, stale,
                   faults, history>>

(* The DaemonSet controller replaces the pods when the template has changed.     *)
PodsStopped ==
    /\ ds # None /\ ready /\ (running # ds \/ "unready" \in faults)
    /\ ready' = FALSE
    /\ UNCHANGED <<user, status, secret, ds, running, istio, dynatrace, pc, rec, again, stale,
                   faults, history>>
PodsReady ==
    /\ ds # None /\ ~ready
    /\ running' = ds /\ ready' = TRUE
    /\ fleet' = IF running = ds THEN fleet
                ELSE [fleet EXCEPT !.ver = Tagged(ds.pod.tag), !.names = NewNames]
    /\ UNCHANGED <<user, status, secret, ds, istio, latest, pc, rec, again, stale, faults,
                   history>>

HostsReport ==
    /\ fleet.reports # fleet.ver
    /\ fleet' = [fleet EXCEPT !.reports = fleet.ver]
    /\ UNCHANGED <<user, status, cluster, latest, pc, rec, again, stale, faults, history>>

(* The event of a status update is handled before much time has passed; within a *)
(* pass, only the restart of pods takes time.                                    *)
Tick ==
    /\ (pc = "idle" /\ ~again) \/ pc = "restart"
    /\ status' = Aged(status)
    /\ rec' = IF rec = None THEN None ELSE [rec EXCEPT !.st = Aged(@)]
    /\ sinceProbe' = Later(sinceProbe, Old) /\ sinceRestart' = Later(sinceRestart, Old)
    /\ UNCHANGED <<user, cluster, dynatrace, pc, again, stale, faults>>

FaultsEnd ==
    /\ faults # {} /\ faults' = {}
    /\ UNCHANGED <<user, status, cluster, dynatrace, pc, rec, again, stale, history>>

--------------------------------------------------------------------------------
(* The pass: reconcileImpl, and Reconcile around it *)

(* Where rec.err, rec.update and the status of the OneAgent in memory go from    *)
(* one step to the next.                                                         *)
Goto(place, r) == pc' = place /\ rec' = r
Fails(r) == [r EXCEPT !.err = TRUE]
Updates(r, st) == [r EXCEPT !.st = st, !.update = TRUE]
Set(r, st) == [r EXCEPT !.st = st, !.update = @ \/ st # r.st]

Read(st, upd, failed) ==
    [spec |-> spec, st |-> st, update |-> upd, err |-> failed, found |-> FALSE]

(* The OneAgent is read from the API server, the tokens are checked and their    *)
(* conditions set: to a complaint when they are missing; when they are there,    *)
(* Dynatrace is asked for them unless that was less than five minutes, which is  *)
(* less than a tick, ago.                                                        *)
Begin ==
    /\ pc = "idle"
    /\ again' = FALSE /\ stale' = FALSE
    /\ \/ ~tokens /\ Goto("save", Read([status EXCEPT !.complaint = TRUE], ~status.complaint, TRUE))
       \/ "api" \in faults /\ Goto("save", Read(status, FALSE, TRUE))
       \/ tokens /\ status.asked /\ Goto("istio", Read(status, FALSE, FALSE))
       \/ /\ tokens /\ ~status.asked
          /\ Goto("istio", Read([status EXCEPT !.complaint = FALSE, !.asked = TRUE], TRUE, FALSE))
    /\ UNCHANGED <<user, status, cluster, dynatrace, faults, history>>

(* Once Istio objects were written the pass is over; an error does not matter.   *)
Istio ==
    /\ pc = "istio"
    /\ \/ istio /\ istio' = FALSE /\ Goto("save", rec)
       \/ (istio => "api" \in faults) /\ Goto("image", rec) /\ UNCHANGED istio
    /\ UNCHANGED <<user, status, secret, ds, running, ready, dynatrace, again, stale, faults,
                   history>>

(* SetUseImmutableImageStatus and reconcileImageVersion.  The probe is only made *)
(* a while after the last; it fails without a pull secret, and the pass goes on. *)
BugSwitched == rec
Switched == Set(rec, [rec.st EXCEPT !.immutable = rec.spec.immutable])
ProbeDue(r) == r.st.immutable /\ ~r.spec.disabled /\ r.st.imageAge >= Interval
PullSecretExists == rec.spec.customPullSecret \/ secret
BugNewer(st, v) == v
Newer(st, v) == IF st.image = 0 \/ st.image < v THEN v ELSE st.image
SkipImage ==
    /\ pc = "image" /\ ~ProbeDue(Switched)
    /\ Goto("secret", Switched)
    /\ UNCHANGED <<user, status, cluster, dynatrace, again, stale, faults, history>>
BugProbeImage ==
    /\ pc = "image" /\ ProbeDue(Switched)
    /\ LET st == [Switched.st EXCEPT !.imageAge = 0]
       IN  \/ /\ PullSecretExists
              /\ Goto("secret", Updates(rec, [st EXCEPT !.image = Newer(st, ImageVersion(rec.spec))]))
           \/ /\ ~PullSecretExists \/ "api" \in faults
              /\ Goto("secret", Fails(Updates(rec, Switched.st)))
    /\ sinceProbe' = 0
    /\ UNCHANGED <<user, status, cluster, dynatrace, again, stale, faults, sinceRestart>>
BugSaveProbeTime ==
    /\ pc = "image" /\ ProbeDue(Switched)
    /\ LET st == [Switched.st EXCEPT !.imageAge = 0]
       IN  \/ /\ PullSecretExists
              /\ Goto("secret", Updates(rec, [st EXCEPT !.image = Newer(st, ImageVersion(rec.spec))]))
           \/ /\ ~PullSecretExists \/ "api" \in faults
              /\ Goto("secret", Fails(Updates(rec, st)))
    /\ sinceProbe' = 0 /\ status' = [status EXCEPT !.imageAge = 0]
    /\ UNCHANGED <<user, cluster, dynatrace, again, stale, faults, sinceRestart>>
ProbeImage ==
    /\ pc = "image" /\ ProbeDue(Switched)
    /\ LET st == [Switched.st EXCEPT !.imageAge = 0]
       IN  \/ /\ PullSecretExists
              /\ Goto("secret", Updates(rec, [st EXCEPT !.image = Newer(st, ImageVersion(rec.spec))]))
           \/ /\ ~PullSecretExists \/ "api" \in faults
              /\ Goto("secret", Fails(Updates(rec, st)))
    /\ sinceProbe' = 0
    /\ UNCHANGED <<user, status, cluster, dynatrace, again, stale, faults, sinceRestart>>

(* reconcilePullSecret.                                                          *)
PullSecret ==
    /\ pc = "secret"
    /\ \/ /\ rec.st.immutable /\ ~rec.spec.image /\ tokens
          /\ secret' = TRUE /\ Goto("rollout", rec)
       \/ /\ rec.st.immutable /\ ~rec.spec.image /\ (~tokens \/ "api" \in faults)
          /\ Goto("save", Fails(rec)) /\ UNCHANGED secret
       \/ /\ ~rec.st.immutable \/ rec.spec.image
          /\ Goto("rollout", rec) /\ UNCHANGED secret
    /\ UNCHANGED <<user, status, ds, running, ready, istio, dynatrace, again, stale, faults,
                   history>>

(* reconcileRollout: the DaemonSet is created or updated; then, for a OneAgent   *)
(* without a version, its first version is found, and that is all for this pass. *)
FixedVersion(s, st) == st.immutable /\ ~s.image /\ s.agentVersion # 0
FirstVersion(s, st) == IF FixedVersion(s, st) THEN s.agentVersion ELSE latest
RolloutFails ==
    /\ pc = "rollout" /\ "api" \in faults
    /\ Goto("save", Fails(rec))
    /\ UNCHANGED <<user, status, cluster, dynatrace, again, stale, faults, history>>
Rollout ==
    /\ pc = "rollout"
    /\ ds' = Template(rec.spec, rec.st)
    /\ ready' = (ready \/ ds = None)
    /\ \/ rec.st.version # 0 /\ Goto("probe", rec)
       \/ /\ rec.st.version = 0
          /\ Goto("save", Updates(rec, [rec.st EXCEPT !.version = FirstVersion(rec.spec, rec.st),
                                                      !.phase = "Deploying"]))
       \/ /\ rec.st.version = 0 /\ ~FixedVersion(rec.spec, rec.st) /\ "api" \in faults
          /\ Goto("save", Fails(rec))
    /\ UNCHANGED <<user, status, secret, running, istio, dynatrace, again, stale, faults,
                   history>>

(* The probe of the instances (reconcileInstanceStatuses).  When they changed    *)
(* the status is saved and nothing else is done until the next probe.  A failed  *)
(* list of pods counts as no instances; Dynatrace's limit of requests leaves     *)
(* those that were read, or is an error if there are none.                       *)
BugInstancesChanged(st, seen) == FALSE
InstancesChanged(st, seen) == st.instances = None \/ st.instances # seen
ProbeInstances(r, seen) ==
    IF InstancesChanged(r.st, seen) THEN Goto("save", Updates(r, [r.st EXCEPT !.instances = seen]))
    ELSE IF r.spec.disabled THEN Goto("save", r)
    ELSE IF r.st.immutable THEN Goto("phase", r)
    ELSE Goto("version", r)
Timestamp(r) == Updates(r, [r.st EXCEPT !.updateAge = 0])
Probe ==
    /\ pc = "probe"
    /\ IF rec.st.updateAge <= Interval THEN Goto("phase", rec)
       ELSE LET r == Timestamp(rec)
            IN  \/ ProbeInstances(r, Seen)
                \/ "api" \in faults /\ ProbeInstances(r, None)
                \/ "api" \in faults /\ Goto("save", Fails(r))
                \/ "api" \in faults /\ Goto("save", Fails(Updates(r, [r.st EXCEPT !.instances = None])))
    /\ UNCHANGED <<user, status, cluster, dynatrace, again, stale, faults, history>>

(* A status update: refused when the OneAgent has been changed meanwhile.        *)
CanSave == ~stale
MaySaveFail == stale \/ "save" \in faults
Save(st) == status' = st /\ again' = TRUE

(* reconcileVersionInstaller as far as deletePods: the version of the OneAgent   *)
(* follows the latest one; before pods are deleted the phase is set and saved,   *)
(* an error of which does not matter.                                            *)
Outdated(st) == fleet.reports # 0 /\ fleet.reports < st.version
FindOutdated ==
    /\ pc = "version"
    /\ LET r == Set(rec, [rec.st EXCEPT !.version = latest])
           s == [r EXCEPT !.st.phase = "Deploying", !.found = r.st # rec.st]
       IN  \/ ~Outdated(r.st) /\ Goto(IF r.st # rec.st THEN "save" ELSE "phase", r)
              /\ UNCHANGED <<status, again>>
           \/ /\ Outdated(r.st) /\ (r.st.phase = "Deploying" \/ MaySaveFail)
              /\ Goto("restart", s) /\ UNCHANGED <<status, again>>
           \/ /\ Outdated(r.st) /\ r.st.phase # "Deploying" /\ CanSave
              /\ Goto("restart", s) /\ Save(s.st)
           \/ "api" \in faults /\ Goto("save", Fails(rec)) /\ UNCHANGED <<status, again>>
           \/ "api" \in faults /\ Goto("save", Fails(r)) /\ UNCHANGED <<status, again>>
    /\ UNCHANGED <<user, cluster, dynatrace, stale, faults, history>>

(* deletePods, see PodRollout: pods are restarted, all or some of them, and an   *)
(* error ends the pass.  A restarted pod installs the latest version.            *)
Restarted == fleet' = [fleet EXCEPT !.ver = latest, !.names = NewNames] /\ sinceRestart' = 0
Restart ==
    /\ pc = "restart"
    /\ \/ Restarted /\ Goto(IF rec.found THEN "save" ELSE "phase", rec)
       \/ "api" \in faults /\ Restarted /\ Goto("save", Fails(rec))
       \/ "api" \in faults /\ Goto("save", Fails(rec)) /\ UNCHANGED <<fleet, sinceRestart>>
    /\ UNCHANGED <<user, status, cluster, latest, again, stale, faults, sinceProbe>>

(* determineOneAgentPhase.                                                       *)
BugPhaseOf(numbersEqual) == "Running"
PhaseOf(numbersEqual) == IF numbersEqual THEN "Running" ELSE "Deploying"
DeterminePhase ==
    /\ pc = "phase"
    /\ \/ Goto("save", Set(rec, [rec.st EXCEPT !.phase = PhaseOf(ready)]))
       \/ "api" \in faults /\ Goto("save", Fails([rec EXCEPT !.st.phase = "Error"]))
    /\ UNCHANGED <<user, status, cluster, dynatrace, again, stale, faults, history>>

(* The end of Reconcile: the status is saved if something asked for it, else if  *)
(* there is an error that changes the phase.                                     *)
BugOutcome == rec.st
Outcome == IF rec.err /\ ~rec.update THEN [rec.st EXCEPT !.phase = "Error"] ELSE rec.st
Written == rec.update \/ Outcome # rec.st
BugEnd ==
    /\ pc = "save"
    /\ \/ ~Written /\ UNCHANGED <<status, again>>
       \/ Written /\ CanSave /\ Save(Outcome)
       \/ Written /\ MaySaveFail /\ UNCHANGED <<status, again>>
    /\ pc' = "idle" /\ UNCHANGED rec /\ stale' = FALSE
    /\ UNCHANGED <<user, cluster, dynatrace, faults, history>>
End ==
    /\ pc = "save"
    /\ \/ ~Written /\ UNCHANGED <<status, again>>
       \/ Written /\ CanSave /\ Save(Outcome)
       \/ Written /\ MaySaveFail /\ UNCHANGED <<status, again>>
    /\ Goto("idle", None) /\ stale' = FALSE
    /\ UNCHANGED <<user, cluster, dynatrace, faults, history>>

(* All OneAgents are queued again when the operator starts.                      *)
Crash ==
    /\ "crash" \in faults /\ pc # "idle"
    /\ Goto("idle", None) /\ again' = TRUE /\ stale' = FALSE
    /\ UNCHANGED <<user, status, cluster, dynatrace, faults, history>>

--------------------------------------------------------------------------------

Init ==
    /\ \E s \in Scenarios : spec = s[1] /\ faults = s[2]
    /\ status = NewStatus
    /\ secret = FALSE /\ ds = None /\ running = None /\ ready = TRUE /\ istio = FALSE
    /\ fleet = [ver |-> 0, reports |-> 0, names |-> 0] /\ latest = 1 /\ tokens = TRUE
    /\ pc = "idle" /\ rec = None /\ again = TRUE /\ stale = FALSE
    /\ sinceProbe = Old /\ sinceRestart = Old

Step ==
    \/ Istio \/ SkipImage \/ ProbeImage \/ PullSecret \/ RolloutFails \/ Rollout \/ Probe
    \/ FindOutdated \/ Restart \/ DeterminePhase \/ End

Next ==
    \/ Begin \/ Step \/ Crash
    \/ EditSpec \/ TokensChange \/ VersionPublished \/ IstioOutdated
    \/ PodsStopped \/ PodsReady \/ HostsReport \/ Tick \/ FaultsEnd

Spec == Init /\ [][Next]_vars

(* Every way out of Reconcile queues the OneAgent again, after half an hour at   *)
(* most, and the only worker gets to it; calls return.  Time goes on.            *)
ControllerFairness == WF_vars(Begin) /\ WF_vars(Step) /\ SF_vars(Tick)
ControllerSpec == Spec /\ ControllerFairness

(* The DaemonSet controller stops outdated pods and agents report.  Whether pods *)
(* get ready is left open.                                                       *)
LiveSpec == ControllerSpec /\ WF_vars(PodsStopped) /\ WF_vars(HostsReport)

--------------------------------------------------------------------------------
(* Properties *)

TypeOK ==
    /\ spec \in Specs /\ status \in Status
    /\ secret \in BOOLEAN /\ ready \in BOOLEAN /\ istio \in BOOLEAN /\ tokens \in BOOLEAN
    /\ ds \in TemplateType \cup {None} /\ running \in TemplateType \cup {None}
    /\ fleet \in [ver : Version, reports : Version, names : PodNames]
    /\ latest \in 1 .. MaxVersion
    /\ pc \in {"idle", "istio", "image", "secret", "rollout", "probe", "version", "restart",
               "phase", "save"}
    /\ rec \in Rec \cup {None} /\ (rec = None <=> pc = "idle")
    /\ again \in BOOLEAN /\ stale \in BOOLEAN /\ faults \in SUBSET FaultKinds
    /\ sinceProbe \in 0 .. Old /\ sinceRestart \in 0 .. Old

(* The image version that reconcileImageVersion lets through only when it is     *)
(* newer (oneagent_controller.go:387), and that the DaemonSet's annotation has:  *)
(* it goes back neither with the registry nor with edits of the spec; and as     *)
(* long as the user leaves what the pods are made of alone, its agentVersion     *)
(* included, they are replaced for nothing but a newer version.  An older        *)
(* agentVersion does take the pods back: it changes ds.pod, not the annotation.  *)
NoUnaskedDowngrade ==
    [][ds # None /\ ds' # ds =>
         /\ ds'.annotation # 0 => ds.annotation <= ds'.annotation
         /\ ds'.pod = ds.pod => ds.annotation < ds'.annotation]_vars

(* The registry is asked at most every quarter of an hour, also when that fails  *)
(* ("only do the request very 15 minutes", CHANGELOG.md:39).                     *)
ProbesAreSpaced == [][ProbeImage => sinceProbe >= Interval]_vars

(* After a restart of pods the next probe finds them changed and stops there.    *)
(* So no pods are restarted before Dynatrace had the time between two probes to  *)
(* learn of their version, however long the restart before has taken.            *)
RestartsAreFarApart == [][Restart /\ fleet' # fleet => sinceRestart > Interval]_vars

(* Once nothing fails any more, and as pods get ready, they get the latest       *)
(* version their image or the installer has ("Upgrade OneAgent Pods using the    *)
(* immutable image by looking at the version label embedded on the images",      *)
(* CHANGELOG.md:27).                                                             *)
Calm == faults = {} /\ tokens
PodsGetReady == []<>ready
PodsAreUpgraded ==
    (<>[]Calm /\ PodsGetReady) =>
    <>[](~spec.disabled => fleet.ver >= IF spec.immutable THEN ImageVersion(spec) ELSE latest)

(* ... and the DaemonSet is the one of the spec, with a phase that says so.      *)
EventuallyRunning ==
    (<>[]Calm /\ PodsGetReady) =>
    <>[](/\ status.immutable = spec.immutable /\ status.phase = "Running"
         /\ ds = Template(spec, status) /\ running = ds)

(* Missing tokens end up as phase Error, although the pass that finds them       *)
(* missing saves other things; and pods that do not get ready as Deploying.      *)
ErrorIsShown == <>[](faults = {} /\ ~tokens) => <>[](status.phase = "Error")
DeployingIsShown ==
    <>[](Calm /\ ~ready) => <>[](status.phase = "Deploying")

================================================================================
