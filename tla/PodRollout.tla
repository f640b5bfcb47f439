------------------------------ MODULE PodRollout ------------------------------
(***************************************************************************)
(* How the OneAgent controller brings the installer-based OneAgents up to  *)
(* date (controllers/oneagent/oneagent_update.go and deletePods,           *)
(* waitPodReadyState of oneagent_utils.go): a pass asks Dynatrace for the  *)
(* latest version, finds the pods whose hosts report an older one, deletes *)
(* them one by one and waits after each for the pod the DaemonSet puts in  *)
(* its place.  Kubernetes and the hosts are modelled as far as this code   *)
(* sees them.                                                              *)
(*                                                                         *)
(* A version is a number here, in the order the versions come out; Release  *)
(* has the text by which the code knows it.                                *)
(*                                                                         *)
(* Operators named Bug... are defects the code could have had; no action   *)
(* uses them, they show which property would notice.                       *)
(***************************************************************************)
EXTENDS AgentVersions, FiniteSets

CONSTANTS
    Node,        \* the nodes the DaemonSet covers
    Name,        \* names of pods on a node; a bound on those alive or remembered
    MaxVersion,  \* bound: the highest version Dynatrace publishes
    Release,     \* the text of each version, by components
    WaitSecs,    \* waitReadySeconds
    Splay,       \* splayTimeSeconds
    Width,       \* 2^16: one more than the largest uint16
    None,        \* model value: no pod
    Faults       \* the failures that may happen, a subset of FaultKinds

(* "api": a call to Kubernetes or Dynatrace fails.  "crash": the operator is     *)
(* restarted.  "early": a pass may start before the pods deleted earlier are     *)
(* gone and the hosts report the version of the pods they have.  "silent": a     *)
(* host is not reported, as Dynatrace has not seen it for half an hour.          *)
(* "unready": a pod may become unready again.  "rollback": the latest version    *)
(* may become an older one.  "killed": a pod is deleted by somebody else.        *)
(* "second": a second pod with the labels shows up on a node.                    *)
FaultKinds == {"api", "crash", "early", "silent", "unready", "rollback", "killed", "second"}

ASSUME NumbersAssumption ==
    /\ MaxVersion \in Nat \ {0} /\ Splay \in Nat \ {0}
    /\ Width \in Nat /\ WaitSecs \in 0 .. Width - 1 /\ Splay < Width
ASSUME FaultsAssumption == Faults \subseteq FaultKinds

VARIABLES
    latest,    \* the latest version of the Dynatrace environment
    pods,      \* per node and name, the pod
    reported,  \* the version Dynatrace knows for the host, 0 for none
    pc,        \* where the pass is
    wanted,    \* instance.Status.Version in the pass, 0 between passes
    doomed,    \* the pods still to delete
    target,    \* the pod deleted last
    splay,     \* the counter of waitPodReadyState
    faults,    \* the failures that may still happen
    touched    \* history: the nodes the pass has deleted pods of

kubernetes == <<pods>>
dynatrace == <<latest, reported>>
pass == <<pc, wanted, doomed, target, splay, touched>>
vars == <<kubernetes, dynatrace, pass, faults>>

--------------------------------------------------------------------------------
(* Pods *)

Version == 1 .. MaxVersion
ASSUME ReleaseAssumption ==
    /\ \A v \in Version : IsRelease(Release[v])
    /\ \A v, w \in Version : v < w <=> Older(Release[v], Release[w])
Pod == [ver : Version, phase : {"pending", "running", "ready"}, terminating : BOOLEAN]
PodName == Node \X Name
ASSUME NoneAssumption == None \notin Pod /\ None \notin PodName
At(p) == pods[p[1]][p[2]]
Here(n) == {m \in Name : pods[n][m] # None}
Settled(n) == {m \in Here(n) : ~pods[n][m].terminating}

(* A name is not given again while anything remembers it.                        *)
Remembered(n) == {m \in Name : <<n, m>> \in doomed \/ target = <<n, m>>}
NewNames(n) == Name \ (Here(n) \cup Remembered(n))

IsDesiredNewer(actual, desired) == NewerThan(Release[actual], Release[desired])

--------------------------------------------------------------------------------
(* Kubernetes, the hosts and Dynatrace *)

Put(n, m, pod) == pods' = [pods EXCEPT ![n][m] = pod]
NewPod == [ver |-> latest, phase |-> "pending", terminating |-> FALSE]

(* The DaemonSet replaces what is missing; the pod installs the latest version.  *)
PodCreated(n) ==
    /\ Settled(n) = {} \/ ("second" \in faults /\ Cardinality(Settled(n)) = 1)
    /\ \E m \in NewNames(n) : Put(n, m, NewPod)
    /\ UNCHANGED <<dynatrace, pass, faults>>

PodStarts(n, m) ==
    /\ pods[n][m] # None /\ ~pods[n][m].terminating
    /\ \/ pods[n][m].phase = "pending" /\ Put(n, m, [pods[n][m] EXCEPT !.phase = "running"])
       \/ pods[n][m].phase = "running" /\ Put(n, m, [pods[n][m] EXCEPT !.phase = "ready"])
    /\ UNCHANGED <<dynatrace, pass, faults>>

PodUnready(n, m) ==
    /\ "unready" \in faults
    /\ pods[n][m] # None /\ pods[n][m].phase = "ready"
    /\ Put(n, m, [pods[n][m] EXCEPT !.phase = "running"])
    /\ UNCHANGED <<dynatrace, pass, faults>>

PodGone(n, m) ==
    /\ pods[n][m] # None /\ pods[n][m].terminating
    /\ Put(n, m, None)
    /\ UNCHANGED <<dynatrace, pass, faults>>

PodKilled(n, m) ==
    /\ "killed" \in faults
    /\ m \in Settled(n)
    /\ Put(n, m, [pods[n][m] EXCEPT !.terminating = TRUE])
    /\ UNCHANGED <<dynatrace, pass, faults>>

(* The second pod goes again.                                                    *)
SecondPodGone(n, m) ==
    /\ m \in Settled(n) /\ Cardinality(Settled(n)) > 1
    /\ Put(n, m, [pods[n][m] EXCEPT !.terminating = TRUE])
    /\ UNCHANGED <<dynatrace, pass, faults>>

(* The agent of a pod that is ready reports its version to Dynatrace.            *)
Unreported(n) == {m \in Settled(n) : pods[n][m].phase = "ready" /\ pods[n][m].ver # reported[n]}
HostReported(n) ==
    /\ \E m \in Unreported(n) : reported' = [reported EXCEPT ![n] = pods[n][m].ver]
    /\ UNCHANGED <<kubernetes, latest, pass, faults>>

HostSilent(n) ==
    /\ "silent" \in faults
    /\ reported[n] # 0
    /\ reported' = [reported EXCEPT ![n] = 0]
    /\ UNCHANGED <<kubernetes, latest, pass, faults>>

VersionPublished ==
    /\ \E v \in Version : (v > latest \/ "rollback" \in faults) /\ latest' = v
    /\ latest' # latest
    /\ UNCHANGED <<kubernetes, reported, pass, faults>>

NothingFails == faults \subseteq {"early"}
FaultsEnd ==
    /\ ~NothingFails /\ faults' = faults \cap {"early"}
    /\ UNCHANGED <<kubernetes, dynatrace, pass>>

--------------------------------------------------------------------------------
(* The pass: reconcileVersionInstaller *)

Ended == /\ pc' = "idle" /\ wanted' = 0 /\ doomed' = {} /\ target' = None /\ splay' = 0
         /\ touched' = {}

(* Dynatrace shows the host as it is, and no earlier restart is still going on.  *)
UpToDate(n) == \A m \in Here(n) : /\ ~pods[n][m].terminating
                                  /\ reported[n] \in {0, pods[n][m].ver}

(* findOutdatedPodsInstaller, on the pods and versions of one moment.  A host    *)
(* that Dynatrace does not know is left alone.                                   *)
Outdated(desired) ==
    {p \in PodName : /\ At(p) # None /\ reported[p[1]] # 0
                     /\ IsDesiredNewer(reported[p[1]], desired)}

(* The pass as far as deletePods.  One that finds no outdated pod changes nothing *)
(* here; no more does one that cannot read the latest version, the pods or a     *)
(* host's version.                                                               *)
PlanNothing ==
    /\ pc = "idle"
    /\ Outdated(latest) = {}
    /\ UNCHANGED vars
Plan ==
    /\ pc = "idle"
    /\ "early" \in faults \/ \A n \in Node : UpToDate(n)
    /\ Outdated(latest) # {}
    /\ wanted' = latest /\ doomed' = Outdated(latest)
    /\ pc' = "delete"
    /\ UNCHANGED <<target, splay, touched, kubernetes, dynatrace, faults>>

(* deletePods: the next pod is deleted under the name it had when it was listed. *)
BugVictims(p) == {<<p[1], m>> : m \in Here(p[1])}
Victims(p) == {p} \cap {q \in PodName : At(q) # None}
BugDeletePod ==
    /\ pc = "delete"
    /\ \E p \in doomed : \E v \in Victims(p) :
          /\ pods' = [pods EXCEPT ![v[1]][v[2]].terminating = TRUE]
          /\ doomed' = doomed \ {p}
          /\ touched' = touched \cup {p[1]}
    /\ pc' = "wait"
    /\ UNCHANGED <<wanted, target, splay, dynatrace, faults>>
DeletePod ==
    /\ pc = "delete"
    /\ \E p \in doomed : \E v \in Victims(p) :
          /\ pods' = [pods EXCEPT ![v[1]][v[2]].terminating = TRUE]
          /\ target' = v /\ doomed' = doomed \ {p}
          /\ touched' = touched \cup {p[1]}
    /\ pc' = "wait"
    /\ UNCHANGED <<wanted, splay, dynatrace, faults>>

(* A pod that is gone is an error, and an error ends the pass.                   *)
DeleteFails ==
    /\ pc = "delete"
    /\ \E p \in doomed : At(p) = None \/ "api" \in faults
    /\ Ended
    /\ UNCHANGED <<kubernetes, dynatrace, faults>>

GoOn == IF doomed = {} THEN Ended
        ELSE /\ pc' = "delete" /\ target' = None /\ splay' = 0
             /\ UNCHANGED <<wanted, doomed, touched>>

(* waitPodReadyState: the pods of the node that run and have another name.       *)
BugFoundPods == {m \in Here(target[1]) : pods[target[1]][m].phase # "pending"}
FoundPods ==
    {m \in Here(target[1]) : /\ <<target[1], m>> # target
                             /\ pods[target[1]][m].phase # "pending"}
Ready == \E m \in FoundPods : FoundPods = {m} /\ pods[target[1]][m].phase = "ready"
TimeLeft(s) == s < WaitSecs
BugNextSplay == splay
NextSplay == (splay + Splay) % Width

(* The wait is over: its status is what the last attempt left.                   *)
BugTimedOut(failed) == GoOn
TimedOut(failed) == IF failed THEN Ended ELSE GoOn

Again(failed) ==
    IF TimeLeft(NextSplay) THEN splay' = NextSplay /\ UNCHANGED <<pc, wanted, doomed, target, touched>>
                           ELSE TimedOut(failed)

(* An attempt, once in ten seconds: the pod is there and ready; or not, where    *)
(* one that runs without being ready leaves no error; or the list fails.         *)
Attempt ==
    /\ pc = "wait" /\ TimeLeft(splay)
    /\ \/ Ready /\ GoOn
       \/ ~Ready /\ Again(Cardinality(FoundPods) # 1)
       \/ "api" \in faults /\ Again(TRUE)
    /\ UNCHANGED <<kubernetes, dynatrace, faults>>

NoWait ==
    /\ pc = "wait" /\ ~TimeLeft(splay)
    /\ TimedOut(FALSE)
    /\ UNCHANGED <<kubernetes, dynatrace, faults>>

Crash ==
    /\ "crash" \in faults /\ pc # "idle"
    /\ Ended
    /\ UNCHANGED <<kubernetes, dynatrace, faults>>

--------------------------------------------------------------------------------

Init ==
    /\ latest = 1
    /\ \E m \in Name : pods = [n \in Node |-> [k \in Name |->
            IF k = m THEN [ver |-> 1, phase |-> "ready", terminating |-> FALSE] ELSE None]]
    /\ reported = [n \in Node |-> 1]
    /\ pc = "idle" /\ wanted = 0 /\ doomed = {} /\ target = None /\ splay = 0
    /\ touched = {} /\ faults = Faults

Rollout == Plan \/ PlanNothing \/ DeletePod \/ DeleteFails \/ Attempt \/ NoWait

Next ==
    \/ \E n \in Node : \/ PodCreated(n) \/ HostReported(n) \/ HostSilent(n)
                       \/ \E m \in Name : \/ PodStarts(n, m) \/ PodUnready(n, m) \/ PodGone(n, m)
                                          \/ PodKilled(n, m) \/ SecondPodGone(n, m)
    \/ VersionPublished \/ FaultsEnd
    \/ Rollout \/ Crash

Spec == Init /\ [][Next]_vars

(* The controller comes back every quarter of an hour; the kubelet, the          *)
(* DaemonSet and the agents do their work.                                       *)
LiveSpec ==
    /\ Spec
    /\ WF_vars(Rollout)
    /\ \A n \in Node :
          /\ WF_vars(PodCreated(n)) /\ WF_vars(HostReported(n))
          /\ \A m \in Name : WF_vars(PodStarts(n, m)) /\ WF_vars(PodGone(n, m))
                             /\ WF_vars(SecondPodGone(n, m))

--------------------------------------------------------------------------------
(* Properties *)

TypeOK ==
    /\ latest \in Version
    /\ pods \in [Node -> [Name -> Pod \cup {None}]]
    /\ reported \in [Node -> 0 .. MaxVersion]
    /\ pc \in {"idle", "delete", "wait"}
    /\ wanted \in 0 .. MaxVersion
    /\ doomed \in SUBSET PodName /\ target \in PodName \cup {None}
    /\ pc = "wait" => target # None
    /\ splay \in 0 .. Width - 1
    /\ touched \in SUBSET Node
    /\ faults \in SUBSET FaultKinds

(* When Dynatrace shows the hosts as they are at the start of a pass, the pass   *)
(* deletes no pod that already has the version it brings, or a newer one: not    *)
(* after a rollback ("Don't restart OneAgent Pods if OneAgent version has been   *)
(* downgraded", CHANGELOG.md:59), nor a pod that appeared since.                 *)
OnlyOutdatedPodsAreDeleted ==
    [][pc = "delete" /\ pc' = "wait" => pods[target'[1]][target'[2]].ver < wanted]_vars

(* A pass takes the nodes one by one: of those it has deleted pods of, at most   *)
(* one has no pod running.                                                       *)
Down(n) == \A m \in Settled(n) : pods[n][m].phase = "pending"
Away == {n \in touched : Down(n)}
OneNodeAtATime == Cardinality(Away) <= 1

(* Between other programs that change pods, what a pass does is a restart of the *)
(* nodes in turn: it takes each down once, never while another has no pod        *)
(* running, and gives up only when calls fail or a node does not come back.      *)
Busy == pc # "idle"
Left == {p[1] : p \in doomed}
Trouble == faults \cap {"api", "crash"} # {}
Turn == INSTANCE RollingRestart WITH busy <- Busy, left <- Left, away <- Away, trouble <- Trouble
RestartsInTurn == Turn!Spec

(* A pass comes to its end even when a pod never gets ready: every wait is over  *)
(* after waitReadySeconds, or ended by an error.                                 *)
PassesEnd == (pc # "idle") ~> (pc = "idle")

(* Once nothing fails any more, all hosts get at least the latest version.       *)
EventuallyUpToDate ==
    NothingFails ~> \A n \in Node : reported[n] >= latest

(* The next pod is deleted only when the pod of the last node is ready: the      *)
(* comment of deletePods lists "timeout on waiting for ready state" among its    *)
(* errors (oneagent_utils.go:139), and an error ends the pass.                   *)
NextOnlyWhenReady == [][pc = "wait" /\ pc' = "delete" => Ready]_vars

================================================================================
