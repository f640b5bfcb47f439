---------------------------- MODULE InstanceStatuses ----------------------------
(***************************************************************************)
(* The instances in the status of a OneAgent (reconcileInstanceStatuses of  *)
(* controllers/oneagent/oneagent_controller.go, error_handler.go): the node *)
(* of every OneAgent pod with the version Dynatrace reports for its host.   *)
(* The pods are listed first; the hosts come from one answer of Dynatrace,  *)
(* which a client keeps by address (dtclient/dynatrace_client.go).          *)
(*                                                                         *)
(* The OneAgent is one with webhookInjection whose environment is known;    *)
(* the instances of others are not looked at by anything modelled here.     *)
(***************************************************************************)
EXTENDS Integers, FiniteSets, FiniteSetsExt

CONSTANTS
    Node,     \* the nodes of the cluster; each has one address
    Answers,  \* the lists of hosts Dynatrace may answer with
    None      \* model value: no instance

VARIABLES
    agentPods,  \* the nodes with a OneAgent pod
    answer,     \* the hosts Dynatrace knows, in the order of its answer
    instances,  \* per node, the version in the status, 0 for unknown, None: no instance
    probe,      \* where the probe of the instances is; "off": there is no OneAgent
    found,      \* the pods it has listed
    faults      \* what may still go wrong

instanceVars == <<agentPods, answer, instances, probe, found>>

(* A host as Dynatrace lists it.  counted: it was seen in the last half hour and *)
(* is in the network zone of the OneAgent.  old: the node has another host now.  *)
Host == [node : Node, ver : Nat, counted : BOOLEAN, old : BOOLEAN]

(* setHostCacheFromResponse: of two hosts with one address the later one stays.  *)
Counted(n) == {i \in DOMAIN answer : answer[i].node = n /\ answer[i].counted}
Version(n) == IF Counted(n) = {} THEN 0 ELSE answer[Max(Counted(n))].ver

(* A version that cannot be learned leaves the one known last.                   *)
LastKnown(n) == IF instances[n] = None THEN 0 ELSE instances[n]
BugLearned(n) == IF LastKnown(n) # 0 THEN LastKnown(n) ELSE Version(n)
Learned(n) == IF Version(n) # 0 THEN Version(n) ELSE LastKnown(n)
Statuses(pods, failing) ==
    [n \in Node |-> IF n \notin pods THEN None
                    ELSE IF n \in failing THEN LastKnown(n) ELSE Learned(n)]

(* A list that fails is taken for one without pods.                              *)
ListPods ==
    /\ probe = "idle" /\ probe' = "ask"
    /\ \/ found' = agentPods
       \/ "api" \in faults /\ found' = {}
    /\ UNCHANGED <<agentPods, answer, instances>>

(* The client asks until it has an answer with hosts in it.  Dynatrace's request *)
(* limit ends the probe: with nothing saved when it hits the first pod, else     *)
(* with the pods before it, none of which had an answer either.                  *)
AskHosts ==
    /\ probe = "ask" /\ probe' = "idle" /\ found' = {}
    /\ \/ \E failing \in SUBSET found :
            /\ "dynatrace" \in faults \/ failing = {}
            /\ instances' = Statuses(found, failing)
       \/ "limit" \in faults
          /\ \E pods \in (SUBSET found) \ {{}, found} : instances' = Statuses(pods, pods)
       \/ (("limit" \in faults /\ found # {}) \/ "save" \in faults) /\ UNCHANGED instances
    /\ UNCHANGED <<agentPods, answer>>

AgentPodsChange ==
    /\ "nodes" \in faults
    /\ agentPods' \in (SUBSET Node) \ {agentPods}
    /\ UNCHANGED <<answer, instances, probe, found>>

HostsChange ==
    /\ "agents" \in faults
    /\ answer' \in Answers \ {answer}
    /\ UNCHANGED <<agentPods, instances, probe, found>>

(* A host that is no more has not been seen for half an hour.                    *)
HostForgotten(i) ==
    /\ i \in DOMAIN answer /\ answer[i].old /\ answer[i].counted
    /\ answer' = [answer EXCEPT ![i].counted = FALSE]
    /\ UNCHANGED <<agentPods, instances, probe, found>>

(* What the status has to say of a node: its host's version, if Dynatrace counts *)
(* the host.                                                                     *)
Current(n) == {i \in Counted(n) : ~answer[i].old}
Exact ==
    /\ \A n \in Node : (instances[n] # None) <=> (n \in agentPods)
    /\ \A n \in agentPods : \A i \in Current(n) : instances[n] = answer[i].ver

================================================================================
