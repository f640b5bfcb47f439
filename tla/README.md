# A TLA+ model of the Dynatrace OneAgent Operator

This directory holds TLA+ modules of the operator's reconciliation logic, TLC
configurations that check them on small instances, and proofs of their main
safety properties for all values of the constants. The modules are written from
the Go sources; each definition can be found in the code through the `map` of
`PROJECT.json`. Paths below are relative to the repository.

    tlc -config nodes_faults.cfg MCNodesController.tla     # check a run
    tlapm NodesControllerProofs.tla                        # check the proofs of a module

## 1. The system

The operator manages three kinds of things in a Kubernetes cluster: OneAgents on
the nodes (a DaemonSet per `OneAgent` resource), the injection of OneAgents into
application pods (a mutating webhook, for `OneAgentAPM` resources), and what
Dynatrace is told of the nodes. It runs as separate processes: the operator, and
a pod with the webhook's bootstrapper and the webhook server in two containers
which share a volume. Controllers are written with controller-runtime: a queue of
names, one worker per controller, reads from an informer's cache, writes to the
API server that are refused when the object has changed since it was read.

| Component | State it keeps | Operations |
|---|---|---|
| **Nodes controller** `controllers/nodes` | ConfigMap `dynatrace-node-cache`: per node the OneAgent, the IP, `LastSeen`, `LastMarkedForTermination`; three channels | node updated, node deleted, tick every five minutes; sends *marked for termination* events |
| **OneAgent controller** `controllers/oneagent/oneagent_controller.go` | `OneAgent.Status`: phase, version, image version, instances, conditions, two timestamps | one reconciliation, half-hourly and after each change |
| **OneAgent rollout** `oneagent_update.go`, `oneagent_utils.go` | the list of pods to delete, a counter; nothing survives the pass | find outdated pods, delete one, wait for its replacement |
| **DaemonSet builder** `oneagent_daemonset.go` | the DaemonSet, its template hash | create, update when the hash differs |
| **Token conditions** `controllers/utils/dynatrace_client_reconciler.go` | a condition per token, timestamps of the last questions | check presence and scopes, at most every five minutes |
| **Istio** `controllers/istio` | service entries and virtual services, labelled by role | create what is missing, remove what is obsolete |
| **Instance statuses** `oneagent_controller.go` (`reconcileInstanceStatuses`), `error_handler.go`, `dtclient/dynatrace_client.go` | `OneAgent.Status.Instances`; the hosts of one answer of Dynatrace | list the pods, ask for the version of each host |
| **OneAgentAPM controller** `controllers/oneagentapm` | `OneAgentAPM.Status` | tokens, image kind, Istio |
| **Namespace controller** `controllers/namespace` | two secrets per injected namespace | derive them from tokens, instances and the cluster |
| **Webhook bootstrapper** `webhook/bootstrapper` | secret with CA and server certificate, files, service, CA bundle | reconciliation every five minutes |
| **Webhook server** `webhook_server.go`, `webhook/server` | the certificate it serves | wait for the files, serve, reload; inject into pods |
| **Dynatrace client** `dtclient` | a cache of the hosts, per client | versions, hosts, events, tokens, connection |
| **Set-up and helpers** | none | managers, flags, logging, image names, secrets |

How they interact:

* through the API server. The OneAgent controller writes `Status.Instances`, from
  which the nodes controller and the namespace controller learn which OneAgent
  runs on a node; token conditions and Istio are parts of the passes of both the
  OneAgent and the OneAgentAPM controller;
* the OneAgent controller's pass calls the token check, Istio, the DaemonSet
  builder, the version probes and the rollout, in this order, and saves the status
  at the end;
* bootstrapper and webhook server share nothing but the two files; the API server
  reaches the webhook through the service, with the CA bundle the bootstrapper
  publishes;
* with Dynatrace through requests that fail, or succeed while the answer is lost.

What makes it hard: every pass is a sequence of calls of which any may fail, with
what was done before left in place; what a pass reads may be old; a pass takes
minutes when pods are restarted; timestamps decide what a pass does at all; the
process may stop anywhere; notifications are lost at a restart. `PROJECT.json`
lists each such hazard at its line.

What makes the components correct:

* *Nodes controller*: a node that is deleted, or cordoned, is announced to
  Dynatrace; a mark stands for an event; events are an hour apart; entries of nodes
  that are gone leave the cache; no mark is lost to a write from an old copy.
* *Certificates*: what is served is valid and trusted, again and again; a failure
  at any step is repaired; good certificates are not replaced; the trust anchor does
  not get ahead of the files.
* *Rollout*: only outdated pods are deleted, one node after the other, each wait
  ends, and in the end all are up to date.
* *OneAgent controller*: the image version it records does not go back, probes and restarts keep their
  distance, new versions reach the pods in every mode, the phase tells the truth.
* *Token conditions*: in the end each condition says what is wrong with the token that
  is in the secret; questions to Dynatrace are five minutes apart.
* *Istio*: a pass that goes to sleep for half an hour has found exactly the objects
  that are needed; objects in use come back when the other role removed them.
* *OneAgentAPM controller*: its own status updates do not keep it going for ever; the
  image kind gets into the status.
* *Namespaces and pod injection*: the two secrets follow the token and the nodes; image,
  pull secret and script of an injected container agree; no injected pod waits for ever.
* *Instance statuses*: in the end every node with an agent has the version of its host.

## 2. Modules

| Module | What it is |
|---|---|
| `NodesController` | the nodes controller |
| `NodesOnTime` | the same with a history variable, for what depends on passes being on time |
| `WebhookCerts` | bootstrapper, files, webhook server |
| `WebhookCertsOnTime` | the same with a history of completed passes |
| `CertificateHandover` | abstract: certificates go from the secret to the server and on to the API server; implemented by `WebhookCerts` |
| `AgentVersions` | the comparison of agent versions |
| `RollingRestart` | abstract: the agents of a list of nodes are restarted in turn |
| `PodRollout` | a pass of the rollout with Kubernetes and Dynatrace around it; implements `RollingRestart` |
| `OneAgentReconcile` | a pass of the OneAgent controller, with the rollout of pods as one step |
| `TokenConditions` | the check of the tokens |
| `Istio` | the Istio objects of one resource |
| `OneAgentAPM` | a pass of the OneAgentAPM controller, composed of the two before |
| `InstanceStatuses` | the instances in the status of the OneAgents |
| `Namespaces` | the namespace controller, for one namespace |
| `PodInjection` | the webhook's decisions about one pod |
| `ApplicationMonitoring` | the composition of the last four |
| `MC...` | values of the constants for TLC |
| `...Proofs` | theorems and their proofs |

Conventions. The failures a module knows are listed at `FaultKinds`; a run or a
theorem names those it allows (constant `Faults`). Where a module has a variable
`faults`, the action `FaultsEnd` stops them all for good: liveness is about what
happens after. Time is kept as ages that saturate at the first value the code does
not tell from later ones. Operators named `Bug...` are defects the code could have
had, kept beside the definition they alter; no action uses them, and each makes TLC
report the property that `PROJECT.json` lists with it.

### NodesController

`pc` is where the one goroutine of `Start` is: it takes an element of one of three
channels (`TakeUpdate`, `TakeDeletion`, `TakeTick`), with the reads its handler
starts with, and then goes through `updateNode` (`UpdateNode`), `onDeletion`
(`RemoveDeleted`), or `reconcileAll` (`ListNodes`, `MarkNode` for each cordoned node,
`Refresh`, `RemoveMissing` for each entry without node, `Removed`), and
`updateCache` (`SaveCache`, `EndUnsaved`). Other programs act between any two
steps. `saved` is the ConfigMap, `view` what the informer shows of it, `cache` the
`Cache` object of the handler, `fresh` whether its resource version is current. The
early returns are there: any error ends a handler with its cache unsaved (`Idle`),
while the removal of a missing node logs the error and goes on with the mark in
place. A timestamp is its age; both tests on timestamps are "more than an hour ago",
so `Ancient` stands for all older ones and for the zero time. `told` and `warned` are
histories of the events Dynatrace took, whether it answered or not.

### WebhookCerts

A pass of `Reconcile`: `ReadSecret` (with `ValidateCerts`, the rule what to renew),
`SaveSecret`, `WriteCrt`, `WriteKey`, `ReconcileService`, `ReconcileWebhookConfig`.
A certificate is its key, its signer's key and the time it has left; keys are small
numbers, and a number nothing holds is used again (lowest first, which removes
symmetric states). A file is the certificate, missing or `Torn` (partly written);
the server loads a pair only when both belong together. A request in the queue is
`due`; the ticker's period is a step of the clock. The informers' copies may lag,
which the API server notices at a write (`Accepted`).

`CertificateHandover` is what the bootstrapper promises to the two servers it works for:
each renewal brings a new key, the webhook server is offered the pair that is kept or
nothing, and the API server is told to trust a CA only while the pair it signed is
offered. `Handover` maps it to the program: `Kept` is the secret, `Offered` the pair of
files if they belong together, `Served` what the server has loaded, `TrustedCA` the CA
bundle, each by its keys. That time passes, that copies lag and that calls fail is invisible
there. `HandedOverInOrder` says that `WebhookCerts` implements it; it is checked by
`certs_late` and proved.

### PodRollout

`reconcileVersionInstaller` and below: `Plan` (`findOutdatedPodsInstaller`),
`DeletePod`, and `Attempt`, one round of `waitPodReadyState` with its counter `splay`
modulo `Width` (`uint16`). `Ready` and `FoundPods` are what the code takes for the
replacement: pods with the labels on the node, another name, and running.
`TimedOut(failed)` keeps the code's way to leave the loop: its status is that of the
last attempt, and finding one pod that runs without being ready is no error.
Around it, the DaemonSet creates pods, pods start, get unready and disappear, and
hosts report to Dynatrace late or not at all. The start of a pass (`Plan`) waits until
earlier restarts are over and reported, unless fault `early` is on: passes are 15 to 30
minutes apart, and the code itself does not check.

`IsDesiredNewer` compares two versions as `isDesiredNewer` does (`AgentVersions`):
component by component, numbers as numbers, the last component as text. A version in the
model is an index into `Release`, a sequence of versions in the order in which
they come out; `ReleaseAssumption` says what is known of them (four components, the
first three numeric), and theorem `ReleasesAreOrdered` that the code's comparison then is
the order of the releases. The runs have 1.9.0, 1.10.0 and a second build of 1.10.0:
a comparison of text would take 1.9.0 for the newer.

`RollingRestart` is what a pass promises to the owner of the cluster. `Turn` maps
it to the pass: `Left` are the nodes of the pods still to be deleted, `Away` those touched
whose agent does not run. That `PodRollout` implements it (`RestartsInTurn`) is checked by
`rollout_live` and proved.

### OneAgentReconcile

`rec` is the `reconciliation` object: the OneAgent as it was read and changed in
memory, `err`, `update`. `Begin` reads the OneAgent and checks the tokens; then `Istio`,
the image probe (`ProbeImage`, `SkipImage`), `PullSecret`, `Rollout` (DaemonSet and
first version), `Probe` (instances), `FindOutdated`, `Restart`, `DeterminePhase` and
`End`, which decides what is saved (`Outcome`, `Written`). `stale` makes status
updates fail when the user changed the OneAgent in between; `again` is the watch event
of a status update, which brings the next pass at once. `ds` is the DaemonSet's
template as far as the model tells templates apart (`PodSpec`, `Annotation`). Ticks are
counted from `Interval`, the quarter of an hour of `defaultUpdateInterval` and
`imageProbeInterval`; five minutes between two questions for a token are less than
a tick. The restart of pods is one step, with the outcomes all, some or none;
`fleet.names` stands for the pods' names: new pods get one that no snapshot has
(`NewNames`), and one nothing remembers is given again.

### TokenConditions, Istio and OneAgentAPM

`Reconcile` of the OneAgentAPM controller calls two parts which the OneAgent controller
calls as well; each is a module without a specification of its own, whose steps the pass
contains. `BeginPass` reads the OneAgentAPM, `ReadSecret`, `BuildClient` and
`AskDynatrace` are the check of the tokens (the secret is read twice, and may change in
between), `SaveStatus` is the update of the status with the way the pass goes on,
`SaveFails` one that is refused, and `StartIstio`, `CreateEntry`, `CreateService`,
`Remove`, `RoleEnds` are the calls of `ReconcileIstio`: first for the host of the API URL,
and for the communication endpoints if nothing was written for it. Any of these calls may
fail, and the operator may be restarted between any two. `mem` is the status in
memory, `stale` makes an update fail, `again` is the watch event of an edit or of
an update (the watch has no predicate, so the controller's own update brings a pass).
`asked` in a status holds the tokens whose timestamp is younger than five minutes;
`recent` is the history it is compared with: the questions of the last five minutes
whose timestamp was not lost with a refused update.

`settled` counts the passes since anything changed and saturates at `MaxSettled`.

### InstanceStatuses, Namespaces, PodInjection

`ListPods` and `AskHosts` are `reconcileInstanceStatuses`: a list that fails is taken for
no pods; a failing question leaves the version known last; Dynatrace's request limit ends
the probe; of two hosts with one address the later in the answer counts. `Namespaces` has
a step for each read and write of a pass (`Begin` with the nodes from the OneAgents,
`ReadTokens`, `WriteConfig`, `WritePull`), and keeps the queue as far as it decides
whether there is another pass: `queued`. `PodInjection` has a request as one step: the
webhook reads from a cache and decides on image, pull secret and script (`Image`,
`PullSecrets`, `Copies`); a pod that is injected already stays as it is (`CopyPod`).

### ApplicationMonitoring

The composition: `spec.image` and `status.immutable` of the OneAgentAPM are what the
namespace controller and the webhook read, the nodes come from `InstanceStatuses`, the
token from the secret the OneAgentAPM controller checks. Nothing orders the steps of
the four.

## 3. What each run checks

A run finishes within a few minutes with two workers. Deadlock is checked in all of
them.

| Run | Question | Instance | Shows |
|---|---|---|---|
| `nodes_faults` | Do failures leave the cache and Dynatrace in agreement? | one node, one OneAgent, an hour of one step, all failures but those of the Dynatrace API | `TypeOK`, `MarkMeansTold`, `DropIsJustified`, `SavedMarksAreKept` |
| `nodes_on_time` | Is a deleted node announced when passes are on time? | the same, an hour of two steps, deletions may be missed | `DeletedNodeIsAnnounced`, `EventsAnHourApart`, `DeletedNodesAreForgotten` (liveness) |
| `nodes_starved` | The same with a second node whose IP Dynatrace does not know | two nodes, no other failure | **violated**, finding 1 |
| `certs_late` | Does every pass that works repair everything, and is what is served valid? | lives of 5 and 4 steps, threshold 3; late passes, failing calls, replaced pods | `TypeOK`, `PassesConverge`, `ServedCertificateIsValid`, `HandedOverInOrder` (refinement) |
| `certs_live` | Is the webhook trusted in the end, in the right order? | lives of 6 and 4, threshold 2; everything but late passes | `SecretConsistent`, `BundleFollowsFiles`, `RenewedOnlyWhenDue`, `EventuallyTrusted` (liveness) |
| `rollout_live` | Are nodes taken one by one, does a pass end, are all hosts updated? | two nodes with two pod names, two versions; failing calls, crashes, unready pods, rollback | `TypeOK`, `OneNodeAtATime`, `RestartsInTurn` (refinement), `PassesEnd`, `EventuallyUpToDate` (liveness) |
| `rollout_deletions` | Are only outdated pods deleted? | one node with three pod names, three versions, no wait at all; killed and second pods, silent hosts, crashes, rollback | `OnlyOutdatedPodsAreDeleted` |
| `rollout_not_ready` | Does a pass wait until the pod is ready? | two nodes, no failures | **violated**, finding 2 |
| `oneagent_safe` | Does the recorded image version go back, are probes and restarts spaced? | four specs the user changes between with failing calls; a registry that goes back, with failing calls and Istio objects | `NoUnaskedDowngrade`, `ProbesAreSpaced`, `RestartsAreFarApart` |
| `oneagent_live` | Do new versions and specs reach the pods, and does the phase tell the truth? | five kinds of spec with lost status updates and crashes; one spec while tokens come and go and pods get unready | `TypeOK`, `NoUnaskedDowngrade`, `PodsAreUpgraded`, `EventuallyRunning`, `ErrorIsShown`, `DeployingIsShown` (liveness) |
| `oneagent_unprivileged` | `PodsAreUpgraded` in unprivileged mode | one spec, no failures | **violated**, finding 3 |
| `monitoring` | Do conditions, Istio objects, secrets, pods and instances follow what they are made of, while everything around them changes and fails? | two hosts, two nodes, one namespace, one pod; six scenarios | `TypesOK`, `ImageFits`, `QuestionsAreSpaced`, `WritesSettle`, `HalfHourMeansDone`; `StatusTellsTheTruth`, `IstioSettles`, `ScriptsSettle`, `InjectedPodsStart`, `InstancesSettle` (liveness) |

### Bounds, and why they are enough

* *Nodes.* `Hour` is counted in periods of the ticker, twelve in the code. What
  matters is that an age can be zero, within the hour, and over it: one step gives
  that, two leave a pass in between. A node's entry is only touched by handlers of
  that node and by the periodic pass, which goes through nodes one after the other;
  nodes meet in two places only, the write of the whole ConfigMap and the error that
  ends a pass. The write is covered by one node (its entry goes back to an old copy),
  the error by `nodes_starved`. `QueueCap` bounds the pending notifications of a
  channel; the code's channels hold more, but each handler reads the cluster again.
* *Certificates.* The order `Threshold < TLSLife < CALife` is the code's (four
  hours, 7 days, 365 days); lifetimes are small enough for the CA to expire in reach
  and far enough apart for renewals of one without the other. Ten key numbers are
  more than the copies that can exist at one time. `certs_live` lets the secret be
  deleted once. The clock of `certs_live` waits for pending work; that of `certs_late`
  does not.
* *Rollout.* Two nodes are needed for one at a time; a pass visits nodes in any
  order and has no memory of earlier ones but `touched`. Three versions give older,
  wanted and newer; three names a pod deleted, its replacement and a stranger.
  `WaitSecs` 2 gives two rounds of waiting; `Width` 8 leaves room above it, as `uint16`
  does above any sensible `waitReadySeconds`.
* *OneAgent.* `Interval` 1 gives ages before, at and after the limit, which is where
  the two comparisons of the code differ (`After` the quarter of an hour for the image,
  `>` for the instances). Versions 0 to 2 give none, old and new; a registry that goes
  back (`rollback`) is a scenario of its own in `oneagent_safe`, with failing calls.
  `NoUnaskedDowngrade` is about the version the code compares before it takes it over,
  which the DaemonSet has in its annotation, and about DaemonSets that change without the
  user; older pods that the user asks for are in section 5. The user's changes in
  `oneagent_safe` keep to one kind of image (no `switch`): with both kinds the states are
  more than TLC searches in minutes; the theorems cover the switch as well.

* *Scenarios* (`oneagent_safe`, `oneagent_live`, `monitoring`). Failures and changes that
  touch different parts of the state are explored one group after the other, in one run:
  each scenario has its first values and its set `faults`. The number of states is the
  sum and not the product.
* *Monitoring.* The scenarios: `TokensOnly` (the secret changes, is removed, lacks a
  token; Dynatrace fails; updates are refused; restarts), `WithIstio` (endpoints and the
  API URL change, calls fail, restarts; the cluster has Istio or not; one of two hosts is
  an IP address, and each host may be in both roles), `NewTokens` (the namespace while
  secret, label and the written secrets change and calls fail), `NewNodes` (the namespace
  and the instances while agents come and go and calls fail), `OnePod` (pods while the
  spec is edited and the status follows), `OneAgents` (the instances under every failure,
  with four answers of Dynatrace, one of them with an old host after its successor).
  Where a scenario is not about a controller, that controller is `"off"`; each pair that
  share state are on together in one: OneAgentAPM controller and webhook in `OnePod`,
  OneAgents and namespace in `NewNodes`, namespace and webhook in both. Two hosts are
  enough for the Istio part: it treats hosts one by one, and they meet only in the error
  that ends a role and in the object two roles share. `MaxSettled` 3 is one more than
  the passes that may follow a status update.

### Fairness

* *Nodes* (`Fairness`): Go's `select` takes a ready channel at random, so each is
  served in the end; handlers run to their end; the informer catches up; requests do
  not fail forever.
* *Certificates* (`LiveSpec`): the controller's worker, the informers, the ticker, the
  server and its watcher go on. An error comes back (`Failed` keeps `due`).
* *Rollout* (`LiveSpec`): the controller comes back; DaemonSet controller, kubelets
  and agents do their work. Nothing is assumed of pods becoming ready during a wait:
  `PassesEnd` rests on the counter.
* *OneAgent* (`ControllerSpec`, `LiveSpec`): every way out of `Reconcile` queues the
  OneAgent again and there is one worker, so `Begin` and the steps of a pass are weakly
  fair. Time goes on (strong fairness of `Tick`, which waits for a pass or an event to be
  over, as these are disabled only in between). `ErrorIsShown` and `DeployingIsShown`
  assume nothing of Kubernetes: that unready pods stay unready is the premise.
* *Monitoring* (`MonitoringSpec`): every way out of the OneAgentAPM's `Reconcile` queues it
  again (at once, after 30 seconds or after 30 minutes), so the next pass and its steps are
  weakly fair; so are the probe of the instances every quarter of an hour and the steps of
  the namespace controller, whose `queued` says whether there is a next pass. Five minutes
  pass (strong fairness of `FiveMinutesPass`, which waits until a pass and the watch events
  are dealt with: both take seconds). A kubelet tries to start a pod again and again,
  and Dynatrace forgets a host it has not seen for half an hour.

Liveness properties speak of what happens once failures have ended; none assumes that
they end (`FaultsEnd` is not fair).

## 4. What is proved

For all values of the constants that satisfy the named assumptions; the proofs are
checked to the last leaf.

**`NodesControllerProofs`**, any number of nodes, OneAgents, any hour, any queue:

* `TypeCorrect`: `Spec => []TypeOK`, whatever fails.
* `MarksAreBacked`: `MarkMeansTold`, assuming that the Dynatrace API answers (`"send"`
  is not in `Faults`, `Unreachable` is empty). The mark is set before the event is sent, so the
  property holds only because each failing path drops the cache; it is inductive
  together with the type (`Backed` for the three copies of the cache).
* `DropsAreJustified`: `DropIsJustified`, under the same assumptions. It needs
  `MarkMeansTold` for the case that a node is dropped because of its mark, and that an
  idle goroutine has no cache (`IdleIsEmpty`).
* `NoMarkIsLost`: `SavedMarksAreKept`, whatever fails. The invariant `CopyOK` says of
  the copy being worked on that it is at least as recent as the ConfigMap whenever its
  resource version is current (`AsRecent`, `AsFull`); the API server's check does the
  rest. Without it a handler could save an old copy: the mutant `BugSaveCacheBlindly`.

**`NodesOnTimeProofs`**, the same constants, when passes run to their end: of the failures
only missed notifications and slow passes, and Dynatrace knows each IP. (With any one of
`read`, `send`, `save`, `crash`, `lag` or `noip` TLC finds both properties violated.)

* `EventsAreAnHourApart`: `EventsAnHourApart`. `Calm` says that a handler always works on an
  up-to-date copy of the cache and gets to save it; `WarnInv` that each event of the last
  hour has its mark in the ConfigMap or in the copy being worked on, in the latter with
  the way to the save still ahead.
* `DeletedNodesAreAnnounced`: `DeletedNodeIsAnnounced`. `SeenInv` compares `LastSeen` with
  the history of what periodic passes have observed: it is no older, except in a pass that
  has listed a node and has not come to its refresh yet (`Awaited`).

**`WebhookCertsProofs`**, any lifetimes, keys and failures:

* `TypeCorrect`.
* `SecretIsConsistent`: `SecretConsistent`. Strengthened to every copy of the secret, as
  an old one is where the next renewal starts (`CertsInv`).
* `BundleFollows`: `BundleFollowsFiles`. `FilesInv` says which files have been written
  at each place of the pass.
* `RenewsOnlyWhatIsDue`: `RenewedOnlyWhenDue`, with informers that lag. `Due` holds of
  the pair a pass has read and the pair it is about to save, and goes on holding while
  time passes; the API server accepts the save only if the secret is still the one read.
* `PassesLeaveAgreement`: `PassesConverge`, if the informers do not lag or nobody deletes
  the secret. In the first case `Reached` states how far a pass has brought the world at
  each place, and that a request remains whenever it has not reached the end. In the
  second an old copy of the secret is due for renewal, and saving the renewal is refused
  (`HandInv`), and the bundle, old copies of it included, is that of the secret or has
  another key (`LaggingInv`), so that the comparison with an old copy does not mislead.
  With both failures it does not hold: a copy of the deleted secret that is still good is
  published beside a new secret.
* `CertificatesAreHandedOver`: `HandedOverInOrder`, that is, `WebhookCerts` implements
  `CertificateHandover`, unless the secret is deleted (with `"deleted"` alone TLC finds it
  violated: what the files offer is then kept nowhere). Each action is a step of
  `CertificateHandover` or changes nothing of it (`SaveHand`, `FilesHand`, `ConfigHand`,
  `ServerHand`); it needs that a pass publishes the pair of the secret (`HandInv`) and that
  the files hold it when the bundle is changed (`FilesInv`).

**`WebhookCertsOnTimeProofs`**, the same constants:

* `ServesValidCertificates`: `ServedCertificateIsValid`, if no file write fails and the
  bootstrapper is not stopped (`"write"`, `"crash"` not in `Faults`; TLC finds it violated with
  `{"late", "write"}` and with `{"late", "api", "crash"}`, see section 6). `LastsInv` relates the
  time that certificates have left to the time since the last pass that worked: what was
  renewed or found good `d` steps ago has at least `Threshold - d` left, which holds of the
  pass's pair, of files and bundle, and of what the server serves, unless it is about
  to reload.

**`PodRolloutProofs`**, any number of nodes and pods, any versions and waiting times:

* `TypeCorrect`, whatever fails.
* `DeletesOnlyOutdated`: `OnlyOutdatedPodsAreDeleted`, if passes start with Dynatrace up
  to date (`"early"` is not in `Faults`). The invariant `ListOfOutdated` says that the
  pods of the pass's list which still exist are older than `wanted`: a rollback makes only
  later pods older, and no pod gets a name that is still on the list.
* `ReleasesAreOrdered`: `isDesiredNewer` answers, for any two releases, whether the first
  came out before the second.
* `RestartsAreInTurn`: `RestartsInTurn`, that is, `PodRollout` implements
  `RollingRestart`, under the assumptions of `OneAfterTheOther`. Each action is a step of
  `RollingRestart` or changes nothing of it: a deletion takes down the next node
  (`PodsTurn`, `DeletionTurn`), a pod that starts is `ComesBack`, the ways out of a pass
  are `Finish` or `GiveUp` (`StopTurns`). It needs the invariant of `OneAfterTheOther`, that
  pods on the list exist (`Present`), and that the pod of the node a pass waits for is off
  the list (`TargetGoes`).
* `OneAfterTheOther`: `OneNodeAtATime`, if nobody else deletes pods, nodes have one
  pod each and passes wait (`Undisturbed`). The invariant `NodesInv` says that a
  deletion touches only pods of the list (`OnlyOursGo`), that all nodes touched before
  the current one run a pod again (`OthersRun`) and that the counter, on which leaving the
  wait depends, is reset between two waits (`Counter`).

**`OneAgentReconcileProofs`**, any specs, versions and interval:

* `TypeCorrect`, whatever fails, changes of the spec in the middle of a pass included.
* `NoUnaskedDowngrades` and `ProbesAreFarApart`: `NoUnaskedDowngrade`, `ProbesAreSpaced`, if
  no status update is lost (`NothingLost`: no failing save, no restart of the operator, no
  change in the middle of a pass). The invariant `Remembered` is about the status the pass
  carries in memory, or the saved one between passes: its image version is at least
  that of the DaemonSet's annotation, its timestamp at least as young as the last probe,
  and what the pass has changed of the two it has asked to save. Without the last part an
  error after the probe could lose both. Every error return between probe and save is a
  case of the proof (`GoesOn`, `Follows`). That a DaemonSet with the same pods changes for a
  *newer* version also needs that unprivileged pods have no annotation (`Unannotated`).
* `NoUnaskedDowngrades` has a second case: status updates are lost and passes cut off, but no
  call fails, the spec stays and the registry does not go back (`OnlyUpdatesLost`). Then the
  saved status may miss the version the DaemonSet has, and the invariant `FoundAgain` says
  why no harm comes of it: the timestamp of the probe was lost together with the version,
  so the next pass that gets as far as the DaemonSet makes the probe again (`WillFind`), and
  finds that version or a newer one. Neither condition can be dropped: with a lost update
  or a crash and a failing probe, a registry that goes back, or a changed spec, TLC finds
  the DaemonSet rolled out for an older version.

**`OneAgentRestartsProofs`**, the same constants:

* `RestartsAreSpaced`: `RestartsAreFarApart`, whatever fails. The invariant `Aware` holds of
  the saved status and of the one in memory separately, so losing either does no
  harm: it has not seen the pods of the last restart, and then the next probe finds
  other instances and ends the pass, or it was probed after the restart, and then the
  next probe is an interval away.

**`ApplicationMonitoringProofs`**, any hosts, specs, secrets, nodes and scenarios, in the
composition:

* `WholeTypes`: `TypesOK`. `TypeInv` has the types of the OneAgentAPM controller and its two
  parts, with what a pass has at each of its places (`PassType`), `AgentTypes` and
  `NamespaceTypes` those of the others. That the version of a host is one of Dynatrace's
  answer needs the largest element of a finite set (`Largest`), which follows from the
  well-foundedness of `<` on the naturals.
* `QuestionsSpaced`: `QuestionsAreSpaced`. The invariant `SpacedInv` says where the
  timestamps of recent questions are: in the copy of the status in memory until it is
  saved or given up, in the saved status otherwise.
* `HalfHourIsDone`: `HalfHourMeansDone`. The invariant `NetInv` says what the pass
  has achieved at each place of `ReconcileIstio`: the hosts dealt with have their
  objects (`HostsDone`), nothing obsolete carries the label of the role after the removal
  unless a call failed, and while the second role is at work, the API URL keeps its objects
  unless something was written (`FirstRoleDone`). That last part is where the two roles
  share an object: the endpoints' role may remove what the API URL needs, and then the pass
  counts as one that has written, and does not go to sleep. Of the objects earlier passes
  left, nothing is assumed.
* `ImagesFit`: `ImageFits`. The three decisions of the webhook agree for each answer of
  the cache.
* `StatusWritesSettle`: `WritesSettle`. The invariant `SettledInv` follows the passes that begin
  after the last change: while the first checks the tokens, it decides on what is there
  (`LateCheck`); once it has saved, the conditions are as the check would leave them
  (`Fixed`); once the second has, the image kind is that of the spec.

Assumptions on constants are stated where the constants are declared and are the
code's: an hour, an interval, lifetimes and thresholds are positive and in order, model
values differ from the records they stand beside.

With these, every invariant, action property and refinement of the passing runs is a
theorem.

**Only model-checked:** liveness under fairness (the prover has no rules for it, nor for
`ENABLED`): `DeletedNodesAreForgotten`, `EventuallyTrusted`, `PassesEnd`,
`EventuallyUpToDate`, `PodsAreUpgraded`, `EventuallyRunning`, `ErrorIsShown`,
`DeployingIsShown`, `StatusTellsTheTruth`, `IstioSettles`, `ScriptsSettle`,
`InjectedPodsStart`, `InstancesSettle`. No module has a recursive operator; `Number` in
`AgentVersions` is a recursive function, whose values the proofs need not know.

## 5. Findings

1. **`nodes_starved`** — `reconcileAll` returns at the first cordoned node it cannot
   handle (`nodes_controller.go:164-166`), before it refreshes `LastSeen` of any node. An
   hour later, all other entries count as stale, and a deleted node is dropped without
   the event `CHANGELOG.md:111` promises.
2. **`rollout_not_ready`** — a wait that runs out while the new pod runs but is not
   ready returns no error (`oneagent_utils.go:108-133`), and the next node's pod is
   deleted; the comment of `deletePods` (139) lists the timeout as an error.
3. **`oneagent_unprivileged`** — `newDaemonSetForCR` replaces the template's annotations
   in unprivileged mode (`oneagent_daemonset.go:69-73`) and drops the image version set
   before (60-62), which is all that changes in the template with a new version: pods
    are not upgraded, against `CHANGELOG.md:27`.

Seen while modelling, in the modules but without a run of their own:

* One failed request loses the event of a deleted node: `markForTermination` sets the
  mark before it sends (384-388), the periodic pass keeps it (210-215), and the next one
  takes it for an event (`nodes_on_time` with `Faults = {"send"}` shows it).
* An event may be repeated within the hour: an error of one node ends `reconcileAll`
  (165) before the marks of the others are saved.
* The webhook server waits for `tls.crt` only (`webhook_server.go:51-62`), and the
  bootstrapper writes `tls.key` after it (`bootstrapper/controller.go:209`): the
  manager may start too early, fail, and be restarted.
* `splay` is a `uint16` (`oneagent_utils.go:98`): for a `waitReadySeconds` above
  65530 it wraps below the limit, and the wait for a pod that never gets ready does not end (`rollout_live` with `WaitSecs = 7`, `Splay = 2`).
* A pod being terminated that still runs counts as the replacement of another one
  (`oneagent_utils.go:116`); with `early` in `rollout_live`, `OneNodeAtATime` is violated.
* An own image without a custom pull secret is never probed: the probe wants a
  secret (`oneagent_controller.go:366-374`) that `reconcilePullSecret` does not make for
  own images (227-232).
* An older `spec.agentVersion` replaces the pods of the immutable image by older ones: the
  DaemonSet takes the tag from the spec whatever is installed (`oneagent_daemonset.go:272`).
  The next probe of that image logs "downgrades are not supported" (`oneagent_update.go:118`,
  and `CHANGELOG.md:102` speaks of an update mechanism that prevents downgrades), and
  leaves `Status.ImageVersion` and the annotation of the pods at the newer version, which
  no pod has any more. `NoUnaskedDowngrade` says nothing against it; that `fleet.ver` does not
  fall is violated with the specs `Immutable` and `Pinned`.
* With immutable images, `Status.Version` stays the first version found (312-335).
* A pass that fails after it asked for a status update does not show phase `Error` (142)
  before the next failing pass.
* After a restart of the operator between the update of the DaemonSet (307) and that of the
  status (158), a registry that went back takes the DaemonSet back with it; so does a
  failing probe, which rolls it out for the version saved last
  (`NoUnaskedDowngrade` with `crash` and `rollback`, or `crash` and `api`).
* A pod injected with the image of the Dynatrace registry waits for ever if the spec of
  the OneAgentAPM names an image before the namespace's pull secret is written: the secret
  is then not written any more (`namespace_controller.go`), and the pod refers to it.
  `InjectedPodsStart` exempts these pods.
* An object that both roles need is removed when one of them does not need it any more, and
  created again by the next pass: meanwhile the agents have no route to that host
  (`istio/controller.go:158`). `IstioSettles` holds, an invariant would not.
* `isDesiredNewer` indexes the desired version by the length of the actual one
  (`oneagent_update.go:114`): one with fewer components stops the operator.
* The webhook escapes the annotation of technologies as a whole, also the commas at which it
  is split later (`server.go:107`, `utils.go:260`).

## 6. What is abstracted, and what is not modelled

* *Nodes*: an entry that no longer parses; what an event says. Orders of two nodes'
  handlers are only explored in `nodes_starved`.
* *Certificates*: contents other than key, signer and time; a secret that no longer
  parses. With an informer that lags behind the deletion of the secret, `PassesConverge`
  may fail until the next pass; with either alone it is proved. `certs_late` has neither, as
  it is the run for a clock that does not wait. `ServedCertificateIsValid` is checked and
  proved without failing file writes and restarts of the bootstrapper: with them files that
  do not match keep the server from loading what the pass has renewed.
* *Rollout*: the informer's list of pods is current; the list and the versions of a pass
  are of one moment. `OneNodeAtATime` is about the pods the pass deletes, so `killed`
  and `second` are not in that run.
* *OneAgent*: instances are one snapshot, not a map per host; token conditions are one
  complaint; Istio is the answer of one call. Environment variables, volumes and resource
  limits of the DaemonSet are data. A deleted OneAgent and a renamed token secret are left
  out. A change of the spec in the middle of a pass (`conflict`) is in the model and in the
  proofs of types, but no passing run has it: with it, and with the minutes a restart
  takes, `oneagent_live` grows beyond what TLC can search in minutes. Lost status
  updates, its main effect, come from `save` and `crash` there.
* *Tokens*: missing proxy secret or config map of CAs is a failing call, an empty
  value of the secret a missing one; the migration of old condition timestamps and the
  environment ID are left out. The condition of the API token stays when the immutable image
  is switched off, and no property asks for more.
* *Istio*: contents of the objects; object types the cluster does not know, which fail
  like a call. Objects stay when Istio is switched off in the spec; the properties
  speak of specs with Istio. A OneAgent and a OneAgentAPM of the same name use the same
  objects; there is one of them here.
* *OneAgentAPM*: its deletion; when the next pass comes (at once, 30 seconds, 30 minutes)
  is left open.
* *Instances, namespaces, pods*: the OneAgents are taken together as one, with
  `webhookInjection` and a known environment, and a node has at most one of them; one
  namespace, one pod at a time; of the annotations, those for the installer URL and the image.
* *Not modelled*: set-up of the processes (see `PROJECT.json`); building requests, parsing
  answers, registry access, generated code: they have no state of their own, and decide
  nothing but the success of a call.

## 7. What could follow

Everything that keeps state between calls is in a module. In the order of what would add
most:

1. **`OneAgentReconcile`**: its check of the tokens and its Istio step replaced by
   `TokenConditions` and `Istio`, as in `OneAgentAPM`; the states are too many for TLC in
   one run, so the scenarios would have to be cut further. Its step `Restart` is an
   abstraction of a pass of `PodRollout`.
2. **`CertificateHandover`** with a deleted secret: what is offered would be the pair kept
   last, which the program can no longer look up.
3. **Two resources with one name**, and two nodes' handlers interleaved in
   `NodesController` with all failures.
