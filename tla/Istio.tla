---------------------------------- MODULE Istio ----------------------------------
(***************************************************************************)
(* The Istio controller (controllers/istio/controller.go): a service entry  *)
(* and, for a host with a name, a virtual service for every host the agents *)
(* talk to.  The hosts have two roles, the API URL and the communication    *)
(* endpoints; an object is found by the name of its host, whatever its      *)
(* role, and carries the role it was created for as a label.  The module is *)
(* instantiated by the controller whose pass contains ReconcileIstio.       *)
(***************************************************************************)
EXTENDS FiniteSets

CONSTANTS
    Hosts,  \* communication hosts: protocol, host and port
    IPs,    \* those that are an IP address
    None    \* model value: no object, no host

VARIABLES
    entries,    \* the service entry of a host: the label with its role, or None
    services,   \* the virtual services likewise
    installed,  \* the cluster has Istio
    endpoints,  \* Dynatrace's communication endpoints
    istio,      \* where ReconcileIstio is
    role,       \* the role it is at
    hosts,      \* the hosts of this role
    host,       \* the host whose service entry is there
    todo,       \* the hosts that follow
    wrote,      \* something was written for this role: add || rem
    failed,     \* some call has failed
    faults      \* what may still go wrong

istioVars == <<entries, services, installed, endpoints, istio, role, hosts, host, todo, wrote, failed>>

Role == {"api-url", "communication-endpoint"}
Labels == [Hosts -> Role \cup {None}]

At(place) == istio' = place
StartRole(r, hs) ==
    /\ At("entry") /\ role' = r /\ hosts' = hs /\ todo' = hs /\ host' = None /\ wrote' = FALSE
BugReset == role' = None /\ hosts' = {} /\ todo' = {} /\ UNCHANGED host /\ wrote' = FALSE
Reset == role' = None /\ hosts' = {} /\ todo' = {} /\ host' = None /\ wrote' = FALSE
IstioEnds(result) == At(result) /\ Reset
Fails == failed' = TRUE /\ IstioEnds("failed")

(* CheckIstioEnabled; then the host in the API URL, which needs no call.         *)
StartIstio(apiHost) ==
    /\ istio = "start"
    /\ \/ installed /\ StartRole("api-url", {apiHost}) /\ UNCHANGED failed
       \/ ~installed /\ IstioEnds("same") /\ UNCHANGED failed
       \/ "api" \in faults /\ Fails
    /\ UNCHANGED <<entries, services, installed, endpoints>>

(* handleIstioConfigurationForServiceEntry: an object that is there is left      *)
(* alone; an error of the query or of the creation ends the role.                *)
CreateEntry ==
    /\ istio = "entry"
    /\ \E h \in todo :
         \/ /\ entries' = [entries EXCEPT ![h] = IF @ = None THEN role ELSE @]
            /\ wrote' = (wrote \/ entries[h] = None)
            /\ host' = h /\ todo' = todo \ {h} /\ At("service")
            /\ UNCHANGED <<role, hosts, failed>>
         \/ "api" \in faults /\ Fails /\ UNCHANGED entries
    /\ UNCHANGED <<services, installed, endpoints>>

(* handleIstioConfigurationForVirtualService: none for an IP address.            *)
AfterHost == IF todo = {} THEN "remove" ELSE "entry"
CreateService ==
    /\ istio = "service"
    /\ \/ /\ services' = [services EXCEPT ![host] = IF @ = None /\ host \notin IPs THEN role ELSE @]
          /\ wrote' = (wrote \/ services'[host] # services[host])
          /\ host' = None /\ At(AfterHost)
          /\ UNCHANGED <<role, hosts, todo, failed>>
       \/ "api" \in faults /\ Fails /\ UNCHANGED services
    /\ UNCHANGED <<entries, installed, endpoints>>

(* reconcileIstioRemoveConfigurations: the objects with the label of this role   *)
(* whose host is none of its hosts.  A deletion that fails is passed over.       *)
BugObsolete(objects) == {h \in Hosts \ hosts : objects[h] # None}
Obsolete(objects) == {h \in Hosts \ hosts : objects[h] = role}
Without(objects, gone) == [h \in Hosts |-> IF h \in gone THEN None ELSE objects[h]]
BugRemoved ==
    \E vs \in SUBSET Obsolete(services), se \in SUBSET Obsolete(entries) :
      LET all == vs = Obsolete(services) /\ se = Obsolete(entries)
      IN  /\ all \/ "api" \in faults
          /\ services' = Without(services, vs) /\ entries' = Without(entries, se)
          /\ failed' = (failed \/ ~all)
          /\ UNCHANGED wrote
Removed ==
    \E vs \in SUBSET Obsolete(services), se \in SUBSET Obsolete(entries) :
      LET all == vs = Obsolete(services) /\ se = Obsolete(entries)
      IN  /\ all \/ "api" \in faults
          /\ services' = Without(services, vs) /\ entries' = Without(entries, se)
          /\ failed' = (failed \/ ~all)
          /\ wrote' = (wrote \/ vs # {} \/ se # {})
Remove ==
    /\ istio = "remove"
    /\ \/ Removed /\ At("removed") /\ UNCHANGED <<role, hosts, host, todo>>
       \/ /\ "api" \in faults /\ Fails
          /\ \E vs \in SUBSET Obsolete(services) : services' = Without(services, vs)
          /\ UNCHANGED entries
    /\ UNCHANGED <<installed, endpoints>>

(* When something was written for the API URL the endpoints wait for the next    *)
(* pass; else Dynatrace is asked for them.                                       *)
RoleEnds(infoFails) ==
    /\ istio = "removed"
    /\ \/ wrote /\ IstioEnds("updated") /\ UNCHANGED failed
       \/ ~wrote /\ role = "communication-endpoint" /\ IstioEnds("same") /\ UNCHANGED failed
       \/ /\ ~wrote /\ role = "api-url" /\ ~infoFails
          /\ StartRole("communication-endpoint", endpoints) /\ UNCHANGED failed
       \/ /\ ~wrote /\ role = "api-url" /\ (infoFails \/ "api" \in faults) /\ Fails
    /\ UNCHANGED <<entries, services, installed, endpoints>>

EndpointsChange ==
    /\ "hosts" \in faults
    /\ endpoints' \in (SUBSET Hosts) \ {{}, endpoints}
    /\ UNCHANGED <<entries, services, installed, istio, role, hosts, host, todo, wrote, failed>>

(* The objects the agents need, and no other.                                    *)
Exact(needed) ==
    /\ \A h \in Hosts : (entries[h] # None) <=> (h \in needed)
    /\ \A h \in Hosts : (services[h] # None) <=> (h \in needed \ IPs)

================================================================================
