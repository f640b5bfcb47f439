-------------------------- MODULE ApplicationMonitoring --------------------------
(***************************************************************************)
(* The parts that monitor applications, together: the OneAgentAPM           *)
(* controller, whose status decides on the image of the injected container; *)
(* the namespace controller, which writes the secrets that pods need; the   *)
(* webhook; and the instances in the status of the OneAgents, from which    *)
(* the script takes the nodes.  They share the OneAgentAPM, the secret with *)
(* the tokens and the status of the OneAgents, and nothing orders them.     *)
(***************************************************************************)
EXTENDS OneAgentAPM, Sequences

CONSTANTS
    Node,     \* the nodes of the cluster
    Answers   \* the lists of hosts Dynatrace may answer with

VARIABLES
    agentPods, answer, instances, probe, found,                        \* the OneAgents
    label, queued, at, nodes, apmImage, token, config, pull,           \* the namespace
    pod                                                                \* a pod in it

Agents == INSTANCE InstanceStatuses
Namespace == INSTANCE Namespaces WITH
    agentNodes <- {n \in Node : instances[n] # None}, image <- spec.image
Webhook == INSTANCE PodInjection WITH
    image <- spec.image, immutable <- status.immutable

ASSUME AnswersAssumption == Answers \subseteq Seq(Agents!Host)
ASSUME MonitoringAssumption ==
    \A s \in Scenarios : /\ s.labels \subseteq BOOLEAN /\ s.agents \subseteq SUBSET Node
                         /\ s.answers \subseteq Answers /\ s.probe \in {"off", "idle"}

agentVars == <<agentPods, answer, instances, probe, found>>
namespaceVars == <<label, queued, at, nodes, apmImage, token, config, pull>>
allVars == <<vars, agentVars, namespaceVars, pod>>

OneAgentStep ==
    /\ Agents!ListPods \/ Agents!AskHosts
    /\ UNCHANGED <<vars, namespaceVars, pod>>
NamespaceStep ==
    /\ \/ Namespace!Begin \/ Namespace!ReadTokens
       \/ Namespace!WriteConfig \/ Namespace!WritePull
    /\ UNCHANGED <<vars, agentVars, pod>>
Request ==
    /\ Webhook!CreatePod \/ Webhook!CopyPod
    /\ UNCHANGED <<vars, agentVars, namespaceVars>>
PodStarts == Webhook!PodStarts /\ UNCHANGED <<vars, agentVars, namespaceVars>>
PodDeleted == Webhook!PodDeleted /\ UNCHANGED <<vars, agentVars, namespaceVars>>

NodesChange ==
    /\ \/ Agents!AgentPodsChange \/ Agents!HostsChange
    /\ UNCHANGED <<vars, namespaceVars, pod>>
HostForgotten ==
    /\ \E i \in DOMAIN answer : Agents!HostForgotten(i)
    /\ UNCHANGED <<vars, namespaceVars, pod>>
NamespaceChanges ==
    /\ Namespace!LabelChanges \/ Namespace!SecretsRemoved
    /\ UNCHANGED <<vars, agentVars, pod>>

ApmStep == Next /\ UNCHANGED <<agentVars, namespaceVars, pod>>

--------------------------------------------------------------------------------

MonitoringInit ==
    /\ \E s \in Scenarios :
         /\ InitFor(s)
         /\ label \in s.labels /\ agentPods \in s.agents /\ answer \in s.answers
         /\ probe = s.probe
    /\ instances = [n \in Node |-> None] /\ found = {}
    /\ queued = label /\ at = "idle" /\ nodes = {} /\ apmImage = None /\ token = None
    /\ config = None /\ pull = None
    /\ pod = None

MonitoringNext ==
    \/ ApmStep \/ OneAgentStep \/ NamespaceStep
    \/ Request \/ PodStarts \/ PodDeleted
    \/ NodesChange \/ HostForgotten \/ NamespaceChanges

(* The OneAgent controller looks at its instances every quarter of an hour, the  *)
(* namespace controller handles what is queued, and a pod is started again and   *)
(* again; a host that is no more is forgotten.                                   *)
MonitoringSpec ==
    /\ MonitoringInit /\ [][MonitoringNext]_allVars
    /\ Fairness
    /\ WF_allVars(OneAgentStep) /\ WF_allVars(NamespaceStep) /\ WF_allVars(PodStarts)
    /\ WF_allVars(HostForgotten)

--------------------------------------------------------------------------------
(* Properties *)

TypesOK ==
    /\ TypeOK
    /\ agentPods \subseteq Node /\ answer \in Seq(Agents!Host)
    /\ instances \in [Node -> Nat \cup {None}]
    /\ probe \in {"off", "idle", "ask"} /\ found \subseteq Node
    /\ label \in BOOLEAN /\ queued \in BOOLEAN /\ at \in {"idle", "tokens", "config", "pull"}
    /\ nodes \subseteq Node /\ apmImage \in BOOLEAN \cup {None}
    /\ token \in Tokens!Content \cup {None} /\ pull \in Tokens!Content \cup {None}
    /\ config \in [token : Tokens!Content, nodes : SUBSET Node] \cup {None}
    /\ pod \in Webhook!Pod \cup {None}

(* The webhook takes the image of the container, the pull secret of the pod and  *)
(* the way the script gets the agent from the OneAgentAPM each on its own.  They *)
(* agree: what is copied is in the image, and an image of the Dynatrace registry *)
(* comes with the secret to pull it, while the spec and the status of the        *)
(* OneAgentAPM disagree as well.                                                 *)
ImageFits ==
    pod # None => /\ pod.copies <=> pod.image # "operator"
                  /\ pod.image = "built" => pod.pull

(* When nothing fails or changes any more, the secrets in the namespace are made *)
(* of the token and the nodes of now, after failed calls, lists of pods that     *)
(* failed, tokens that were missing or not accepted, labels that came and went   *)
(* and secrets that were removed.                                                *)
Calm == faults = {} /\ label /\ Namespace!Accepted(secret)
UpToDate ==
    /\ secret # None
    /\ config = [token |-> secret["paas"], nodes |-> agentPods]
    /\ ~spec.image => pull = secret["paas"]
ScriptsSettle == <>[]Calm => <>[]UpToDate

(* ... and no pod waits for them for ever, except one that was injected with the *)
(* image of the Dynatrace registry before the spec named an image: its secret is *)
(* no longer written.                                                            *)
PodGoesOn == pod # None => pod.runs \/ (pod.image = "built" /\ spec.image)
InjectedPodsStart ==
    <>[]Calm => []<>PodGoesOn

(* The versions in the status come to be those of the hosts of now, after failed *)
(* calls, Dynatrace's request limit, status updates that are lost, and an old    *)
(* host that Dynatrace lists after its successor.                                *)
InstancesSettle == <>[](faults = {}) => <>[]Agents!Exact

================================================================================
