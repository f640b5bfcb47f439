------------------------------- MODULE OneAgentAPM -------------------------------
(***************************************************************************)
(* The OneAgentAPM controller (controllers/oneagentapm/                     *)
(* oneagentapm_controller.go): a pass reads the OneAgentAPM, checks the     *)
(* tokens, saves the status if something changed and writes Istio objects. *)
(* It composes TokenConditions and Istio, which hold the steps of the two   *)
(* parts; between the steps the user, Dynatrace and Kubernetes go on.       *)
(*                                                                         *)
(* Operators named Bug... are defects the code could have had; no action   *)
(* uses them, they show which property would notice.                       *)
(***************************************************************************)
EXTENDS Naturals

CONSTANTS
    Hosts, IPs,  \* communication hosts, and which of them are IP addresses
    Specs,       \* the specs the user gives the OneAgentAPM
    Secrets,     \* what the secret with the tokens may contain
    Scenarios,   \* bound: the first specs and secrets, and what goes wrong
    None         \* model value

(* "api": a call to Kubernetes fails.  "dynatrace": a question to Dynatrace      *)
(* fails.  "save": the status update fails.  "crash": the operator is restarted. *)
(* "tokens", "hosts", "edit": the secret, the endpoints, the spec are changed.   *)
(* The others are those of the components the module is composed with.           *)
FaultKinds == {"api", "dynatrace", "save", "crash", "tokens", "hosts", "edit",
               "label", "removed", "limit", "nodes", "agents"}

(* The fields of the spec the code decides on.  None: apiUrl is empty.  image:    *)
(* an image is named.                                                             *)
SpecType == [immutable : BOOLEAN, istio : BOOLEAN, apiUrl : Hosts \cup {None}, image : BOOLEAN]

ASSUME HostsAssumption == IPs \subseteq Hosts /\ Hosts # {} /\ None \notin Hosts
ASSUME ScenariosAssumption ==
    \A s \in Scenarios : /\ s.specs \subseteq Specs /\ s.secrets \subseteq Secrets
                         /\ s.faults \subseteq FaultKinds /\ s.pc \in {"off", "idle"}

VARIABLES
    spec,        \* the spec: useImmutableImage, enableIstio, apiUrl
    pc,          \* where the pass is; "off": the controller is left out of a scenario
    input,       \* the spec as the pass read it
    stale,       \* the OneAgentAPM was changed since
    again,       \* the watch event of a change or a status update has not been handled
    secret, status, mem, check, managed, read, client, recent,                    \* the tokens
    entries, services, installed, endpoints, istio, role, hosts, host, todo, wrote, failed,
    faults,      \* what may still go wrong
    settled      \* history: passes finished since anything changed

Tokens == INSTANCE TokenConditions
Net == INSTANCE Istio

ASSUME SpecsAssumption == Specs \subseteq SpecType
ASSUME RolesAssumption == None \notin Net!Role
ASSUME SecretsAssumption == Secrets \subseteq Tokens!Secret \cup {None}

tokenVars == <<secret, status, mem, check, managed, read, client, recent>>
istioVars == <<entries, services, installed, endpoints, istio, role, hosts, host, todo, wrote, failed>>
own == <<spec, pc, input, stale, again>>
vars == <<own, tokenVars, istioVars, faults, settled>>

MaxSettled == 3
Later == IF settled < MaxSettled THEN settled + 1 ELSE settled

--------------------------------------------------------------------------------
(* What happens around the operator *)

EditSpec ==
    /\ "edit" \in faults
    /\ \E s \in Scenarios : spec \in s.specs /\ spec' \in s.specs \ {spec}
    /\ stale' = (pc # "idle") /\ again' = TRUE /\ settled' = 0
    /\ UNCHANGED <<pc, input, tokenVars, istioVars, faults>>

SecretChanges ==
    /\ Tokens!SecretChanges /\ settled' = 0
    /\ UNCHANGED <<own, istioVars, faults>>

EndpointsChange ==
    /\ Net!EndpointsChange /\ settled' = 0
    /\ UNCHANGED <<own, tokenVars, faults>>

(* A pass takes less than five minutes, and so does the delivery of an event.    *)
FiveMinutesPass(t) ==
    /\ pc = "idle" /\ ~again /\ Tokens!FiveMinutesPass(t)
    /\ settled' = 0
    /\ UNCHANGED <<own, istioVars, faults>>

FaultsEnd ==
    /\ faults # {} /\ faults' = {} /\ settled' = 0
    /\ UNCHANGED <<own, tokenVars, istioVars>>

--------------------------------------------------------------------------------
(* Reconcile *)

(* The end of a pass, by whatever way out of Reconcile.  When the next one comes *)
(* (at once, after 30 seconds when Istio objects were written, after 30 minutes) *)
(* is left open.                                                                 *)
PassEnds ==
    /\ pc' = "idle" /\ input' = None /\ stale' = FALSE
    /\ mem' = None /\ check' = "off" /\ managed' = {} /\ read' = None /\ client' = None
    /\ istio' = "off" /\ role' = None /\ hosts' = {} /\ host' = None /\ todo' = {} /\ wrote' = FALSE
    /\ settled' = IF faults = {} THEN Later ELSE settled

(* The OneAgentAPM is read from the API server.                                  *)
Managed(s) == IF s.immutable THEN {"paas", "api"} ELSE {"paas"}
BeginPass ==
    /\ pc = "idle"
    /\ stale' = FALSE /\ again' = FALSE /\ failed' = FALSE
    /\ IF spec.apiUrl # None
       THEN /\ pc' = "tokens" /\ input' = spec /\ Tokens!StartCheck(Managed(spec))
            /\ UNCHANGED <<settled, read, client, istio, role, hosts, host, todo, wrote>>
       ELSE PassEnds
    /\ UNCHANGED <<spec, secret, status, recent, entries, services, installed, endpoints, faults>>

ReadSecret ==
    /\ pc = "tokens" /\ Tokens!ReadSecret /\ UNCHANGED <<own, istioVars, faults, settled>>
BuildClient ==
    /\ pc = "tokens" /\ Tokens!BuildClient /\ UNCHANGED <<own, istioVars, faults, settled>>
AskDynatrace ==
    /\ pc = "tokens" /\ Tokens!AskDynatrace /\ UNCHANGED <<own, istioVars, faults, settled>>

(* upd || SetUseImmutableImageStatus: the switch waits when the tokens changed   *)
(* something.  A refused update ends the pass, and its timestamps are lost.      *)
(* The watch on the OneAgentAPM has no predicate: it also delivers this update.  *)
ToSave == IF Tokens!Updated THEN mem ELSE [mem EXCEPT !.immutable = input.immutable]
Writes == Tokens!Updated \/ ToSave.immutable # mem.immutable
BugStatusEvent == again
StatusEvent == TRUE
Forgotten == recent' = status.asked
SaveFails ==
    /\ pc = "tokens" /\ check \in {"passed", "failed"}
    /\ Writes /\ (stale \/ "save" \in faults)
    /\ Forgotten /\ PassEnds
    /\ UNCHANGED <<spec, again, secret, status, entries, services, installed, endpoints, failed,
                   faults>>
SaveStatus ==
    /\ pc = "tokens" /\ check \in {"passed", "failed"}
    /\ \/ Writes /\ ~stale /\ status' = ToSave /\ again' = StatusEvent
       \/ ~Writes /\ UNCHANGED <<status, again>>
    /\ \/ (check = "failed" \/ ~input.istio) /\ PassEnds
       \/ /\ check = "passed" /\ input.istio
          /\ pc' = "istio" /\ istio' = "start"
          /\ UNCHANGED <<input, stale, mem, check, managed, read, client, role, hosts, host, todo,
                         wrote, settled>>
    /\ UNCHANGED <<spec, secret, recent, entries, services, installed, endpoints, failed, faults>>

StartIstio ==
    /\ pc = "istio" /\ Net!StartIstio(input.apiUrl) /\ UNCHANGED <<own, tokenVars, faults, settled>>
CreateEntry ==
    /\ pc = "istio" /\ Net!CreateEntry /\ UNCHANGED <<own, tokenVars, faults, settled>>
CreateService ==
    /\ pc = "istio" /\ Net!CreateService /\ UNCHANGED <<own, tokenVars, faults, settled>>
Remove ==
    /\ pc = "istio" /\ Net!Remove /\ UNCHANGED <<own, tokenVars, faults, settled>>
RoleEnds ==
    /\ pc = "istio" /\ Net!RoleEnds(~Tokens!Accepted(client))
    /\ UNCHANGED <<own, tokenVars, faults, settled>>

(* An error of the Istio part is logged and the pass goes on.                    *)
EndPass ==
    /\ pc = "istio" /\ istio \in {"updated", "same", "failed"}
    /\ PassEnds
    /\ UNCHANGED <<spec, again, secret, status, recent, entries, services, installed, endpoints,
                   failed, faults>>

Crash ==
    /\ "crash" \in faults /\ pc # "idle"
    /\ Forgotten /\ PassEnds /\ again' = TRUE
    /\ UNCHANGED <<spec, secret, status, entries, services, installed, endpoints, failed,
                   faults>>

--------------------------------------------------------------------------------

InitFor(s) ==
    /\ faults = s.faults /\ secret \in s.secrets /\ spec \in s.specs /\ pc = s.pc
    /\ input = None /\ stale = FALSE /\ again = TRUE
    /\ status = Tokens!NewStatus /\ mem = None /\ check = "off" /\ managed = {} /\ read = None
    /\ client = None /\ recent = {}
    /\ entries = [h \in Hosts |-> None] /\ services = [h \in Hosts |-> None]
    /\ installed \in BOOLEAN /\ (~spec.istio => installed = FALSE)
    /\ endpoints = Hosts
    /\ istio = "off" /\ role = None /\ hosts = {} /\ host = None /\ todo = {} /\ wrote = FALSE
    /\ failed = FALSE
    /\ settled = 0
Init == \E s \in Scenarios : InitFor(s)

Step ==
    \/ ReadSecret \/ BuildClient \/ AskDynatrace \/ SaveFails \/ SaveStatus
    \/ StartIstio \/ CreateEntry \/ CreateService \/ Remove \/ RoleEnds \/ EndPass

Next ==
    \/ BeginPass \/ Step \/ Crash
    \/ EditSpec \/ SecretChanges \/ EndpointsChange \/ FaultsEnd
    \/ \E t \in Tokens!Token : FiveMinutesPass(t)

Spec == Init /\ [][Next]_vars

(* Every way out of Reconcile queues the OneAgentAPM again, after half an hour   *)
(* at most, and five minutes pass before that; calls return.                     *)
Fairness == WF_vars(BeginPass \/ Step) /\ \A t \in Tokens!Token : SF_vars(FiveMinutesPass(t))

--------------------------------------------------------------------------------
(* Properties *)

TypeOK ==
    /\ spec \in Specs /\ input \in Specs \cup {None} /\ stale \in BOOLEAN /\ again \in BOOLEAN
    /\ pc \in {"off", "idle", "tokens", "istio"}
    /\ secret \in Secrets /\ read \in Tokens!Secret \cup {None}
    /\ status \in Tokens!Status /\ mem \in Tokens!Status \cup {None}
    /\ check \in {"off", "secret", "client", "ask", "passed", "failed"}
    /\ managed \subseteq Tokens!Token /\ recent \subseteq Tokens!Token
    /\ client \in Tokens!Content \cup {None}
    /\ entries \in Net!Labels /\ services \in Net!Labels /\ installed \in BOOLEAN
    /\ endpoints \in (SUBSET Hosts) \ {{}}
    /\ istio \in {"off", "start", "entry", "service", "remove", "removed", "updated", "same",
                  "failed"}
    /\ role \in Net!Role \cup {None} /\ hosts \subseteq Hosts /\ todo \subseteq hosts
    /\ host \in hosts \cup {None} /\ wrote \in BOOLEAN /\ failed \in BOOLEAN
    /\ faults \subseteq FaultKinds /\ settled \in 0 .. MaxSettled

(* "we wait at least 5 mins between proves" (dynatrace_client_reconciler.go:146) *)
(* holds across passes, retries and restarts of the operator, as long as no      *)
(* status with a question's timestamp is lost.                                   *)
QuestionsAreSpaced ==
    [][AskDynatrace => recent \cap Tokens!Asked = {}]_vars

(* Each status update brings another pass.  That comes to an end: once nothing   *)
(* changes any more, two passes after the one under way may write the status,    *)
(* and no later one.                                                             *)
WritesSettle == [][SaveStatus /\ Writes => settled < MaxSettled]_vars

(* When nothing fails or changes any more, each condition ends up saying what is *)
(* wrong with its token, also after a change of the secret between the two reads *)
(* or within the five minutes; and the switch to immutable images gets through.  *)
StatusTellsTheTruth ==
    <>[](faults = {} /\ spec.apiUrl # None /\ pc # "off") =>
    <>[](/\ status.immutable = spec.immutable
         /\ \A t \in Managed(spec) : status.cond[t] \in Tokens!Truth(t, Managed(spec)))

(* A pass that leaves the next one for half an hour without a failed call has    *)
(* found exactly the objects that the hosts it knows need, also those that were  *)
(* created or removed by halves before or carry the label of the other role.     *)
HalfHourMeansDone ==
    [][RoleEnds /\ istio' = "same" /\ ~failed => Net!Exact({input.apiUrl} \cup hosts)]_vars

(* ... and there is such a pass: an object that one role has removed although    *)
(* the other needs it comes back.                                                *)
Reachable == spec.istio /\ installed /\ spec.apiUrl # None
             /\ secret # None /\ Tokens!Lacking(Managed(spec), secret) = {}
             /\ Tokens!Accepted(secret["paas"])
IstioSettles ==
    <>[](faults = {} /\ Reachable) => <>[]Net!Exact({spec.apiUrl} \cup endpoints)

================================================================================
