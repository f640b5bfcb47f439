----------------------- MODULE ApplicationMonitoringProofs -----------------------
(***************************************************************************)
(* Proofs about ApplicationMonitoring, for any hosts, specs, secrets and    *)
(* scenarios: the types of the OneAgentAPM controller and of what it is     *)
(* composed of, the distance between two questions about a token, and that  *)
(* a pass which leaves the next one for half an hour has found the Istio    *)
(* objects that are needed.                                                 *)
(***************************************************************************)
EXTENDS ApplicationMonitoring, WellFoundedInduction, TLAPS

--------------------------------------------------------------------------------
(* Types of the OneAgentAPM controller *)

InPass(s) == s \in SpecType /\ s.apiUrl \in Hosts
Writing == {"entry", "service", "remove", "removed"}

(* What is known in a pass.                                                      *)
PassType ==
    /\ pc \in {"tokens", "istio"} => InPass(input)
    /\ pc = "tokens" => mem \in Tokens!Status
    /\ check \in {"client", "ask"} => read \in Tokens!Secret
    /\ istio \in Writing => role \in Net!Role
    /\ istio = "service" => host \in hosts
    /\ pc # "istio" => istio = "off"
TypeInv == TypeOK /\ PassType

(* The values of the variables of a pass when it is over.                        *)
LEMMA PassEndsType ==
    ASSUME TypeInv, PassEnds
    PROVE  /\ pc' = "idle" /\ input' \in Specs \cup {None} /\ stale' \in BOOLEAN
           /\ mem' \in Tokens!Status \cup {None} /\ check' = "off" /\ managed' \subseteq Tokens!Token
           /\ read' \in Tokens!Secret \cup {None} /\ client' \in Tokens!Content \cup {None}
           /\ istio' = "off" /\ role' \in Net!Role \cup {None} /\ hosts' \subseteq Hosts
           /\ host' \in hosts' \cup {None} /\ todo' \subseteq hosts' /\ wrote' \in BOOLEAN
           /\ settled' \in 0 .. MaxSettled
  <1>1. settled \in 0 .. MaxSettled
    BY DEF TypeInv, TypeOK
  <1>2. settled' \in 0 .. MaxSettled
    BY <1>1 DEF PassEnds, Later, MaxSettled
  <1>3. QED
    BY <1>2 DEF PassEnds

LEMMA EndedType ==
    ASSUME TypeInv, PassEnds, UNCHANGED <<spec, secret, entries, services, installed, endpoints, faults>>,
           again' \in BOOLEAN, status' \in Tokens!Status, recent' \subseteq Tokens!Token, failed' \in BOOLEAN
    PROVE  TypeInv'
  <1>1. TypeOK'
    BY PassEndsType DEF TypeInv, TypeOK
  <1>2. PassType'
    BY PassEndsType DEF PassType, Writing
  <1>3. QED
    BY <1>1, <1>2 DEF TypeInv

LEMMA InitType == Init => TypeInv
  <1> SUFFICES ASSUME NEW s \in Scenarios, InitFor(s) PROVE TypeInv
    BY DEF Init
  <1>1. s.specs \subseteq Specs /\ s.secrets \subseteq Secrets /\ s.faults \subseteq FaultKinds
        /\ s.pc \in {"off", "idle"}
    BY ScenariosAssumption
  <1>2. Tokens!NewStatus \in Tokens!Status
    BY DEF Tokens!NewStatus, Tokens!Status, Tokens!Reason
  <1>3. [h \in Hosts |-> None] \in Net!Labels
    BY DEF Net!Labels
  <1>4. /\ spec \in Specs /\ secret \in Secrets /\ faults \subseteq FaultKinds
        /\ pc \in {"off", "idle"} /\ endpoints \in (SUBSET Hosts) \ {{}}
        /\ entries \in Net!Labels /\ services \in Net!Labels /\ status \in Tokens!Status
    BY <1>1, <1>2, <1>3, HostsAssumption DEF InitFor
  <1>5. /\ input = None /\ stale \in BOOLEAN /\ again \in BOOLEAN /\ mem = None /\ check = "off"
        /\ managed = {} /\ read = None /\ client = None /\ recent = {}
    BY DEF InitFor
  <1>6. /\ installed \in BOOLEAN /\ istio = "off" /\ role = None /\ hosts = {} /\ host = None
        /\ todo = {} /\ wrote \in BOOLEAN /\ failed \in BOOLEAN /\ settled = 0
    BY DEF InitFor
  <1> HIDE DEF InitFor
  <1>7. TypeOK
    BY <1>4, <1>5, <1>6 DEF TypeOK, MaxSettled
  <1>8. PassType
    BY <1>4, <1>5, <1>6 DEF PassType, Writing
  <1>9. QED
    BY <1>7, <1>8 DEF TypeInv

LEMMA ConditionsType ==
    ASSUME NEW st \in Tokens!Status, NEW tokens, NEW reason \in Tokens!Reason
    PROVE  /\ Tokens!Conditions(st, tokens, reason) \in Tokens!Status
           /\ Tokens!Conditions(st, tokens, reason).asked = st.asked
  BY DEF Tokens!Conditions, Tokens!Status

(* What the check of the tokens does before Dynatrace is asked.                  *)
LEMMA CheckType ==
    ASSUME TypeInv, ReadSecret \/ BuildClient
    PROVE  TypeInv' /\ pc = "tokens" /\ mem'.asked = mem.asked
           /\ UNCHANGED <<own, istioVars, faults, settled, secret, status, recent>>
  <1>1. pc = "tokens" /\ mem \in Tokens!Status /\ InPass(input) /\ UNCHANGED <<own, istioVars, faults, settled>>
        /\ UNCHANGED <<secret, status, managed, recent>>
    BY DEF TypeInv, PassType, ReadSecret, BuildClient, Tokens!ReadSecret, Tokens!BuildClient
  <1>2. secret # None => secret \in Tokens!Secret
    BY SecretsAssumption DEF TypeInv, TypeOK
  <1>3. {"SecretNotFound", "TokenMissing", "ClientError"} \subseteq Tokens!Reason
    BY DEF Tokens!Reason
  <1>4. mem' \in Tokens!Status /\ mem'.asked = mem.asked /\ check' \in {"client", "ask", "failed"}
    BY <1>1, <1>3, ConditionsType
    DEF ReadSecret, BuildClient, Tokens!ReadSecret, Tokens!BuildClient, Tokens!CheckEnds
  <1>5. /\ read' \in Tokens!Secret \cup {None} /\ client' \in Tokens!Content \cup {None}
        /\ check' \in {"client", "ask"} => read' \in Tokens!Secret
    BY <1>2 DEF ReadSecret, BuildClient, Tokens!ReadSecret, Tokens!BuildClient, Tokens!CheckEnds,
                Tokens!CannotBuild, Tokens!Secret, Tokens!Token, TypeInv, TypeOK, PassType
  <1>6. TypeOK'
    BY <1>1, <1>4, <1>5 DEF TypeInv, TypeOK, own, istioVars
  <1>7. PassType'
    BY <1>1, <1>4, <1>5 DEF TypeInv, PassType, own, istioVars
  <1>8. QED
    BY <1>1, <1>4, <1>6, <1>7 DEF TypeInv

LEMMA AskType ==
    ASSUME TypeInv, AskDynatrace
    PROVE  /\ TypeInv' /\ pc = "tokens"
           /\ mem'.asked = mem.asked \cup Tokens!Asked /\ recent' = recent \cup Tokens!Asked
           /\ UNCHANGED <<own, istioVars, faults, settled, secret, status>>
  <1>1. pc = "tokens" /\ mem \in Tokens!Status /\ UNCHANGED <<own, istioVars, faults, settled>>
        /\ UNCHANGED <<secret, status, managed, client>> /\ check' = "passed" /\ read' = None
        /\ recent' = recent \cup Tokens!Asked
    BY DEF TypeInv, PassType, AskDynatrace, Tokens!AskDynatrace, Tokens!CheckEnds
  <1>2. PICK failing \in SUBSET Tokens!Asked :
          mem' = [mem EXCEPT !.cond = [t \in Tokens!Token |->
                                          IF t \in failing THEN "QueryError"
                                          ELSE IF t \in Tokens!Asked THEN Tokens!Answer(t)
                                          ELSE IF t \in Tokens!Spaced THEN "Spaces" ELSE mem.cond[t]],
                             !.asked = @ \cup Tokens!Asked]
    BY DEF AskDynatrace, Tokens!AskDynatrace, Tokens!CheckEnds
  <1>3. \A t : Tokens!Answer(t) \in Tokens!Reason
    BY DEF Tokens!Answer, Tokens!Reason
  <1>4. Tokens!Asked \subseteq Tokens!Token
    BY DEF Tokens!Asked, TypeInv, TypeOK
  <1> DEFINE reason == [t \in Tokens!Token |->
                          IF t \in failing THEN "QueryError"
                          ELSE IF t \in Tokens!Asked THEN Tokens!Answer(t)
                          ELSE IF t \in Tokens!Spaced THEN "Spaces" ELSE mem.cond[t]]
  <1>5. reason \in [Tokens!Token -> Tokens!Reason]
    BY <1>1, <1>3 DEF Tokens!Status, Tokens!Reason
  <1>6. mem' \in Tokens!Status /\ mem'.asked = mem.asked \cup Tokens!Asked
    <2> HIDE DEF reason
    <2>1. mem' = [mem EXCEPT !.cond = reason, !.asked = @ \cup Tokens!Asked]
      BY <1>2 DEF reason
    <2>2. QED
      BY <1>1, <1>4, <1>5, <2>1 DEF Tokens!Status
  <1>7. TypeOK'
    BY <1>1, <1>4, <1>6 DEF TypeInv, TypeOK, own, istioVars
  <1>8. PassType'
    BY <1>1, <1>6 DEF TypeInv, PassType, own, istioVars
  <1>9. QED
    BY <1>1, <1>6, <1>7, <1>8 DEF TypeInv

(* BeginPass starts with the status as it is saved.                              *)
LEMMA BeginType ==
    ASSUME TypeInv, BeginPass
    PROVE  /\ TypeInv' /\ pc = "idle"
           /\ \/ pc' = "tokens" /\ mem' = status /\ UNCHANGED <<istio, role, hosts, host, todo, wrote>>
              \/ PassEnds
           /\ UNCHANGED <<status, recent, entries, services>>
  <1>1. pc = "idle" /\ stale' = FALSE /\ again' = FALSE /\ failed' = FALSE
        /\ UNCHANGED <<spec, secret, status, recent, entries, services, installed, endpoints, faults>>
    BY DEF BeginPass
  <1>2. CASE spec.apiUrl # None
    <2>1. /\ pc' = "tokens" /\ input' = spec /\ Tokens!StartCheck(Managed(spec))
          /\ UNCHANGED <<settled, read, client, istio, role, hosts, host, todo, wrote>>
      BY <1>2 DEF BeginPass
    <2>2. /\ check' = "secret" /\ mem' = status
          /\ managed' \subseteq Tokens!Token
      BY <2>1 DEF Tokens!StartCheck, Managed, Tokens!Token
    <2>3. InPass(input')
      BY <2>1, <1>2, SpecsAssumption DEF InPass, SpecType, TypeInv, TypeOK
    <2>4. TypeOK'
      BY <1>1, <2>1, <2>2 DEF TypeInv, TypeOK
    <2>5. PassType'
      BY <1>1, <2>1, <2>2, <2>3 DEF TypeInv, TypeOK, PassType
    <2>6. QED
      BY <1>1, <2>1, <2>2, <2>4, <2>5 DEF TypeInv
  <1>3. CASE spec.apiUrl = None
    <2>1. PassEnds
      BY <1>3 DEF BeginPass
    <2>2. TypeInv'
      BY <1>1, <2>1, EndedType DEF TypeInv, TypeOK
    <2>3. QED
      BY <1>1, <2>1, <2>2
  <1>4. QED
    BY <1>2, <1>3

(* A pass that is given up loses the timestamps that were not saved.             *)
LEMMA GivenUpType ==
    ASSUME TypeInv, SaveFails \/ Crash
    PROVE  TypeInv' /\ PassEnds /\ Forgotten /\ UNCHANGED <<status, entries, services>>
  <1>1. /\ PassEnds /\ Forgotten /\ again' \in BOOLEAN
        /\ UNCHANGED <<spec, secret, status, entries, services, installed, endpoints, failed, faults>>
    BY DEF SaveFails, Crash, TypeInv, TypeOK
  <1>2. recent' \subseteq Tokens!Token
    BY <1>1 DEF Forgotten, TypeInv, TypeOK, Tokens!Status
  <1>3. status' \in Tokens!Status /\ failed' \in BOOLEAN
    BY <1>1 DEF TypeInv, TypeOK
  <1>4. QED
    BY <1>1, <1>2, <1>3, EndedType

LEMMA SaveType ==
    ASSUME TypeInv, SaveStatus
    PROVE  /\ TypeInv' /\ pc = "tokens" /\ mem \in Tokens!Status
           /\ status'.asked = mem.asked /\ UNCHANGED <<recent, entries, services>>
           /\ PassEnds \/ (pc' = "istio" /\ istio' = "start" /\ UNCHANGED <<role, hosts, host, todo, wrote>>)
  <1>1. pc = "tokens" /\ mem \in Tokens!Status /\ status \in Tokens!Status /\ InPass(input)
        /\ UNCHANGED <<spec, secret, recent, entries, services, installed, endpoints, failed, faults>>
    BY DEF SaveStatus, TypeInv, TypeOK, PassType
  <1>2. ToSave \in Tokens!Status /\ ToSave.asked = mem.asked
    BY <1>1 DEF ToSave, Tokens!Status, InPass, SpecType
  <1>3. ~Writes => mem = status
    BY DEF Writes, Tokens!Updated
  <1>4. /\ status' \in Tokens!Status /\ status'.asked = mem.asked /\ again' \in BOOLEAN
    BY <1>1, <1>2, <1>3 DEF SaveStatus, StatusEvent, TypeInv, TypeOK
  <1>5. CASE PassEnds
    <2>1. TypeInv'
      BY <1>1, <1>4, <1>5, EndedType DEF TypeInv, TypeOK
    <2>2. QED
      BY <1>1, <1>4, <1>5, <2>1
  <1>6. CASE /\ pc' = "istio" /\ istio' = "start"
             /\ UNCHANGED <<input, stale, mem, check, managed, read, client, role, hosts, host, todo,
                            wrote, settled>>
    <2>1. TypeOK'
      BY <1>1, <1>4, <1>6 DEF TypeInv, TypeOK
    <2>2. PassType'
      BY <1>1, <1>4, <1>6 DEF TypeInv, PassType, Writing
    <2>3. QED
      BY <1>1, <1>4, <1>6, <2>1, <2>2 DEF TypeInv
  <1>7. QED
    BY <1>5, <1>6 DEF SaveStatus

(* The steps of the Istio part.                                                  *)
IstioStep == StartIstio \/ CreateEntry \/ CreateService \/ Remove \/ RoleEnds
IstioTypes ==
    /\ entries \in Net!Labels /\ services \in Net!Labels
    /\ istio \in {"off", "start", "entry", "service", "remove", "removed", "updated", "same", "failed"}
    /\ role \in Net!Role \cup {None} /\ hosts \subseteq Hosts /\ todo \subseteq hosts
    /\ host \in hosts \cup {None} /\ wrote \in BOOLEAN /\ failed \in BOOLEAN
    /\ istio \in Writing => role \in Net!Role
    /\ istio = "service" => host \in hosts

LEMMA StartType ==
    ASSUME TypeInv, StartIstio
    PROVE  IstioTypes'
  <1>1. IstioTypes /\ istio = "start" /\ input.apiUrl \in Hosts
    BY DEF TypeInv, TypeOK, PassType, InPass, SpecType, IstioTypes, StartIstio, Net!StartIstio
  <1>2. UNCHANGED <<entries, services>>
    BY DEF StartIstio, Net!StartIstio
  <1>3. /\ istio' \in {"entry", "same", "failed"} /\ role' \in {"api-url", None}
        /\ istio' = "entry" => role' = "api-url"
        /\ hosts' \in {{}, {input.apiUrl}} /\ todo' = hosts' /\ host' = None
        /\ wrote' = FALSE /\ failed' \in BOOLEAN
    BY <1>1 DEF StartIstio, Net!StartIstio, Net!StartRole, Net!At, Net!IstioEnds, Net!Fails,
                Net!Reset, IstioTypes
  <1>4. QED
    BY <1>1, <1>2, <1>3 DEF IstioTypes, Net!Role, Writing

LEMMA ResetTypes ==
    ASSUME IstioTypes, Net!Reset, istio' \in {"updated", "same", "failed"}, failed' \in BOOLEAN,
           entries' \in Net!Labels, services' \in Net!Labels
    PROVE  IstioTypes'
  BY DEF IstioTypes, Net!Reset, Writing

LEMMA EntryType ==
    ASSUME TypeInv, CreateEntry
    PROVE  IstioTypes'
  <1>1. IstioTypes /\ istio = "entry" /\ UNCHANGED services
    BY DEF TypeInv, TypeOK, PassType, IstioTypes, CreateEntry, Net!CreateEntry
  <1>2. PICK h \in todo :
          \/ /\ entries' = [entries EXCEPT ![h] = IF @ = None THEN role ELSE @]
             /\ wrote' = (wrote \/ entries[h] = None)
             /\ host' = h /\ todo' = todo \ {h} /\ istio' = "service"
             /\ UNCHANGED <<role, hosts, failed>>
          \/ Net!Fails /\ UNCHANGED entries
    BY DEF CreateEntry, Net!CreateEntry, Net!At
  <1>3. CASE Net!Fails /\ UNCHANGED entries
    BY <1>1, <1>3, ResetTypes DEF Net!Fails, Net!IstioEnds, Net!At, IstioTypes
  <1>4. CASE /\ entries' = [entries EXCEPT ![h] = IF @ = None THEN role ELSE @]
             /\ wrote' = (wrote \/ entries[h] = None)
             /\ host' = h /\ todo' = todo \ {h} /\ istio' = "service"
             /\ UNCHANGED <<role, hosts, failed>>
    <2>1. entries' \in Net!Labels
      BY <1>1, <1>4 DEF IstioTypes, Net!Labels, Writing
    <2>2. wrote' \in BOOLEAN
      BY <1>4
    <2>3. QED
      BY <1>1, <1>4, <2>1, <2>2 DEF IstioTypes, Writing
  <1>5. QED
    BY <1>2, <1>3, <1>4

LEMMA ServiceType ==
    ASSUME TypeInv, CreateService
    PROVE  IstioTypes'
  <1>1. IstioTypes /\ istio = "service" /\ UNCHANGED entries
    BY DEF TypeInv, TypeOK, PassType, IstioTypes, CreateService, Net!CreateService
  <1>2. CASE Net!Fails /\ UNCHANGED services
    BY <1>1, <1>2, ResetTypes DEF Net!Fails, Net!IstioEnds, Net!At, IstioTypes
  <1>3. CASE /\ services' = [services EXCEPT ![host] = IF @ = None /\ host \notin IPs THEN role ELSE @]
             /\ wrote' = (wrote \/ services'[host] # services[host])
             /\ host' = None /\ istio' = Net!AfterHost
             /\ UNCHANGED <<role, hosts, todo, failed>>
    <2>1. services' \in Net!Labels
      BY <1>1, <1>3 DEF IstioTypes, Net!Labels, Writing
    <2>2. wrote' \in BOOLEAN /\ istio' \in {"entry", "remove"}
      BY <1>3 DEF Net!AfterHost
    <2>3. QED
      BY <1>1, <1>3, <2>1, <2>2 DEF IstioTypes, Writing
  <1>4. QED
    BY <1>2, <1>3 DEF CreateService, Net!CreateService, Net!At

LEMMA WithoutType ==
    ASSUME NEW objects \in Net!Labels, NEW gone
    PROVE  /\ Net!Without(objects, gone) \in Net!Labels
           /\ \A h \in Hosts : Net!Without(objects, gone)[h] = IF h \in gone THEN None ELSE objects[h]
  BY DEF Net!Without, Net!Labels

LEMMA RemoveType ==
    ASSUME TypeInv, Remove
    PROVE  IstioTypes'
  <1>1. IstioTypes /\ istio = "remove"
    BY DEF TypeInv, TypeOK, PassType, IstioTypes, Remove, Net!Remove
  <1>2. entries' \in Net!Labels /\ services' \in Net!Labels
    BY <1>1, WithoutType DEF Remove, Net!Remove, Net!Removed, IstioTypes
  <1>3. CASE Net!Removed /\ istio' = "removed" /\ UNCHANGED <<role, hosts, host, todo>>
    <2>1. wrote' \in BOOLEAN /\ failed' \in BOOLEAN
      BY <1>3 DEF Net!Removed
    <2>2. QED
      BY <1>1, <1>2, <1>3, <2>1 DEF IstioTypes, Writing
  <1>4. CASE Net!Fails
    BY <1>1, <1>2, <1>4, ResetTypes DEF Net!Fails, Net!IstioEnds, Net!At
  <1>5. QED
    BY <1>3, <1>4 DEF Remove, Net!Remove, Net!At

LEMMA RoleEndsType ==
    ASSUME TypeInv, RoleEnds
    PROVE  IstioTypes'
  <1>1. IstioTypes /\ UNCHANGED <<entries, services>> /\ endpoints \subseteq Hosts
    BY DEF TypeInv, TypeOK, PassType, IstioTypes, RoleEnds, Net!RoleEnds
  <1>2. CASE Net!Reset /\ istio' \in {"updated", "same", "failed"} /\ failed' \in {failed, TRUE}
    BY <1>1, <1>2, ResetTypes DEF IstioTypes
  <1>3. CASE Net!StartRole("communication-endpoint", endpoints) /\ UNCHANGED failed
    BY <1>1, <1>3 DEF Net!StartRole, Net!At, IstioTypes, Net!Role, Writing
  <1>4. QED
    BY <1>2, <1>3 DEF RoleEnds, Net!RoleEnds, Net!IstioEnds, Net!Fails, Net!At

LEMMA IstioType ==
    ASSUME TypeInv, IstioStep
    PROVE  TypeInv' /\ pc = "istio" /\ UNCHANGED <<own, tokenVars, faults, settled>>
  <1>1. pc = "istio" /\ UNCHANGED <<own, tokenVars, faults, settled>>
    BY DEF IstioStep, StartIstio, CreateEntry, CreateService, Remove, RoleEnds
  <1>2. IstioTypes'
    BY StartType, EntryType, ServiceType, RemoveType, RoleEndsType DEF IstioStep
  <1>3. UNCHANGED <<installed, endpoints>>
    BY DEF IstioStep, StartIstio, CreateEntry, CreateService, Remove, RoleEnds,
           Net!StartIstio, Net!CreateEntry, Net!CreateService, Net!Remove, Net!RoleEnds
  <1>4. TypeOK'
    BY <1>1, <1>2, <1>3 DEF TypeInv, TypeOK, IstioTypes, own, tokenVars
  <1>5. PassType'
    BY <1>1, <1>2 DEF TypeInv, PassType, IstioTypes, own, tokenVars
  <1>6. QED
    BY <1>1, <1>4, <1>5 DEF TypeInv

LEMMA EndPassType ==
    ASSUME TypeInv, EndPass
    PROVE  TypeInv' /\ PassEnds /\ pc = "istio" /\ UNCHANGED <<status, recent, entries, services>>
  BY EndedType DEF EndPass, TypeInv, TypeOK

(* What happens around the operator.                                             *)
Surroundings == EditSpec \/ SecretChanges \/ EndpointsChange \/ FaultsEnd
LEMMA SurroundingsType ==
    ASSUME TypeInv, Surroundings
    PROVE  /\ TypeInv'
           /\ UNCHANGED <<pc, input, status, mem, check, recent>>
           /\ UNCHANGED <<entries, services, istio, role, hosts, host, todo, wrote, failed>>
  <1>1. CASE EditSpec
    <2>1. /\ spec' \in Specs /\ stale' \in BOOLEAN /\ again' = TRUE /\ settled' = 0
          /\ UNCHANGED <<pc, input, tokenVars, istioVars, faults>>
      BY <1>1, ScenariosAssumption DEF EditSpec
    <2>2. TypeOK'
      BY <2>1 DEF TypeInv, TypeOK, tokenVars, istioVars, MaxSettled
    <2>3. PassType'
      BY <2>1 DEF TypeInv, PassType, tokenVars, istioVars
    <2>4. QED
      BY <2>1, <2>2, <2>3 DEF TypeInv, tokenVars, istioVars
  <1>2. CASE SecretChanges
    <2>1. /\ secret' \in Secrets /\ settled' = 0
          /\ UNCHANGED <<own, istioVars, faults, status, mem, check, managed, read, client, recent>>
      BY <1>2 DEF SecretChanges, Tokens!SecretChanges
    <2>2. TypeOK'
      BY <2>1 DEF TypeInv, TypeOK, own, istioVars, MaxSettled
    <2>3. PassType'
      BY <2>1 DEF TypeInv, PassType, own, istioVars
    <2>4. QED
      BY <2>1, <2>2, <2>3 DEF TypeInv, own, istioVars
  <1>3. CASE EndpointsChange
    <2>1. /\ endpoints' \in (SUBSET Hosts) \ {{}} /\ settled' = 0
          /\ UNCHANGED <<own, tokenVars, faults, installed>>
          /\ UNCHANGED <<entries, services, istio, role, hosts, host, todo, wrote, failed>>
      BY <1>3 DEF EndpointsChange, Net!EndpointsChange
    <2>2. TypeOK'
      BY <2>1 DEF TypeInv, TypeOK, own, tokenVars, MaxSettled
    <2>3. PassType'
      BY <2>1 DEF TypeInv, PassType, own, tokenVars
    <2>4. QED
      BY <2>1, <2>2, <2>3 DEF TypeInv, own, tokenVars
  <1>4. CASE FaultsEnd
    <2>1. faults' = {} /\ settled' = 0 /\ UNCHANGED <<own, tokenVars, istioVars>>
      BY <1>4 DEF FaultsEnd
    <2>2. TypeOK'
      BY <2>1 DEF TypeInv, TypeOK, own, tokenVars, istioVars, MaxSettled
    <2>3. PassType'
      BY <2>1 DEF TypeInv, PassType, own, tokenVars, istioVars
    <2>4. QED
      BY <2>1, <2>2, <2>3 DEF TypeInv, own, tokenVars, istioVars
  <1>5. QED
    BY <1>1, <1>2, <1>3, <1>4 DEF Surroundings

LEMMA MinutesType ==
    ASSUME TypeInv, NEW t \in Tokens!Token, FiveMinutesPass(t)
    PROVE  /\ TypeInv' /\ pc = "idle"
           /\ recent' = recent \ {t} /\ status'.asked = status.asked \ {t}
           /\ UNCHANGED <<own, istioVars>>
  <1>1. /\ pc = "idle" /\ recent' = recent \ {t} /\ status' = [status EXCEPT !.asked = @ \ {t}]
        /\ settled' = 0 /\ UNCHANGED <<own, istioVars, faults, secret, mem, check, managed, read, client>>
    BY DEF FiveMinutesPass, Tokens!FiveMinutesPass
  <1>2. status' \in Tokens!Status /\ status'.asked = status.asked \ {t}
    BY <1>1 DEF TypeInv, TypeOK, Tokens!Status
  <1>3. TypeOK'
    BY <1>1, <1>2 DEF TypeInv, TypeOK, own, istioVars, MaxSettled
  <1>4. PassType'
    BY <1>1 DEF TypeInv, PassType, own, istioVars
  <1>5. QED
    BY <1>1, <1>2, <1>3, <1>4 DEF TypeInv

LEMMA StutterType ==
    ASSUME TypeInv, UNCHANGED vars
    PROVE  TypeInv'
  <1>1. TypeOK'
    BY DEF TypeInv, TypeOK, vars, own, tokenVars, istioVars
  <1>2. PassType'
    BY DEF TypeInv, PassType, vars, own, tokenVars, istioVars
  <1>3. QED
    BY <1>1, <1>2 DEF TypeInv

(* The actions of Next, as the lemmas above take them together.                  *)
LEMMA Kinds ==
    ASSUME [Next]_vars
    PROVE  \/ BeginPass \/ ReadSecret \/ BuildClient \/ AskDynatrace \/ SaveFails \/ SaveStatus
           \/ IstioStep \/ EndPass \/ Crash \/ Surroundings
           \/ \E t \in Tokens!Token : FiveMinutesPass(t)
           \/ UNCHANGED vars
  BY DEF Next, Step, IstioStep, Surroundings

LEMMA TypeStep == TypeInv /\ [Next]_vars => TypeInv'
  <1> SUFFICES ASSUME TypeInv, [Next]_vars PROVE TypeInv'
    OBVIOUS
  <1>1. CASE \E t \in Tokens!Token : FiveMinutesPass(t)
    BY <1>1, MinutesType
  <1>2. QED
    BY <1>1, Kinds, BeginType, CheckType, AskType, GivenUpType, SaveType, IstioType, EndPassType,
       SurroundingsType, StutterType

--------------------------------------------------------------------------------
(* A step of the whole is a step of the OneAgentAPM controller, or none.         *)

LEMMA WholeInit == MonitoringInit => Init
  BY DEF MonitoringInit, Init
LEMMA WholeStep == [MonitoringNext]_allVars => [Next]_vars
  BY DEF MonitoringNext, ApmStep, OneAgentStep, NamespaceStep, Request, PodStarts, PodDeleted,
         NodesChange, HostForgotten, NamespaceChanges, allVars

(* The variables of the OneAgentAPM controller, the tokens and Istio have their   *)
(* types in the composition with the other controllers and the webhook.          *)
THEOREM ControllerTypes == MonitoringSpec => []TypeOK
  <1>1. MonitoringInit => TypeInv
    BY WholeInit, InitType
  <1>2. TypeInv /\ [MonitoringNext]_allVars => TypeInv'
    BY WholeStep, TypeStep
  <1>3. TypeInv => TypeOK
    BY DEF TypeInv
  <1>4. QED
    BY <1>1, <1>2, <1>3, PTL DEF MonitoringSpec

--------------------------------------------------------------------------------
(* Five minutes between two questions *)

(* A question of the last five minutes has its timestamp where the next check    *)
(* will look: in the saved status, or in the copy of a pass that is under way.   *)
SpacedInv ==
    /\ pc # "tokens" => recent \subseteq status.asked
    /\ pc = "tokens" => recent \subseteq mem.asked

LEMMA SpacedInit == MonitoringInit => SpacedInv
  BY DEF MonitoringInit, InitFor, SpacedInv

LEMMA SpacedStep == TypeInv /\ SpacedInv /\ [Next]_vars => SpacedInv'
  <1> SUFFICES ASSUME TypeInv, SpacedInv, [Next]_vars PROVE SpacedInv'
    OBVIOUS
  <1>1. CASE BeginPass
    BY <1>1, BeginType DEF SpacedInv, PassEnds
  <1>2. CASE ReadSecret \/ BuildClient
    BY <1>2, CheckType DEF SpacedInv, own
  <1>3. CASE AskDynatrace
    BY <1>3, AskType DEF SpacedInv, own
  <1>4. CASE SaveFails \/ Crash
    BY <1>4, GivenUpType DEF SpacedInv, PassEnds, Forgotten
  <1>5. CASE SaveStatus
    BY <1>5, SaveType DEF SpacedInv, PassEnds
  <1>6. CASE IstioStep
    BY <1>6, IstioType DEF SpacedInv, own, tokenVars
  <1>7. CASE EndPass
    BY <1>7, EndPassType DEF SpacedInv, PassEnds
  <1>8. CASE Surroundings
    BY <1>8, SurroundingsType DEF SpacedInv
  <1>9. CASE \E t \in Tokens!Token : FiveMinutesPass(t)
    BY <1>9, MinutesType DEF SpacedInv, own
  <1>10. CASE UNCHANGED vars
    BY <1>10 DEF SpacedInv, vars, own, tokenVars
  <1>11. QED
    BY <1>1, <1>2, <1>3, <1>4, <1>5, <1>6, <1>7, <1>8, <1>9, <1>10, Kinds

(* No token is asked about twice within five minutes, across passes and changes  *)
(* of the spec and the secret, except when the status with the timestamp could   *)
(* not be saved: from the question on, the timestamp is in the copy that         *)
(* AskDynatrace looks at next, through every early return of Reconcile.          *)
THEOREM QuestionsSpaced == MonitoringSpec => QuestionsAreSpaced
  <1>1. MonitoringInit => TypeInv /\ SpacedInv
    BY WholeInit, InitType, SpacedInit
  <1>2. TypeInv /\ SpacedInv /\ [MonitoringNext]_allVars => TypeInv' /\ SpacedInv'
    BY WholeStep, TypeStep, SpacedStep
  <1>3. TypeInv /\ SpacedInv /\ [MonitoringNext]_allVars
        => [AskDynatrace => recent \cap Tokens!Asked = {}]_vars
    <2> SUFFICES ASSUME TypeInv, SpacedInv, AskDynatrace PROVE recent \cap Tokens!Asked = {}
      OBVIOUS
    <2>1. recent \subseteq mem.asked
      BY AskType DEF SpacedInv
    <2>2. QED
      BY <2>1 DEF Tokens!Asked
  <1>4. QED
    BY <1>1, <1>2, <1>3, PTL DEF MonitoringSpec, QuestionsAreSpaced

--------------------------------------------------------------------------------
(* Istio objects *)

Complete(h) == entries[h] # None /\ (h \in IPs \/ services[h] # None)

(* The hosts of a role that have been dealt with have their objects.              *)
HostsDone ==
    /\ \A h \in hosts \ todo : entries[h] # None /\ (h = host \/ h \in IPs \/ services[h] # None)
    /\ istio = "service" \/ host = None
    /\ istio \in {"remove", "removed"} => todo = {}

(* The first role is done when the second begins: the API URL has its objects, as *)
(* long as nothing was written since, and no other host has one of that role,    *)
(* as long as nothing failed.                                                    *)
FirstRoleDone ==
    /\ ~failed => \A h \in Hosts \ {input.apiUrl} : entries[h] # "api-url" /\ services[h] # "api-url"
    /\ ~wrote => Complete(input.apiUrl)

NetInv ==
    /\ \A h \in IPs : services[h] = None
    /\ istio \in Writing => HostsDone
    /\ istio \in Writing /\ role = "api-url" => hosts = {input.apiUrl}
    /\ istio = "removed" /\ ~failed =>
         \A h \in Hosts \ hosts : entries[h] # role /\ services[h] # role
    /\ istio \in Writing /\ role = "communication-endpoint" => FirstRoleDone

LEMMA NetInit == MonitoringInit => NetInv
  BY HostsAssumption DEF MonitoringInit, InitFor, NetInv, Writing

LEMMA EndedNet ==
    ASSUME NetInv, istio' \notin Writing, UNCHANGED <<entries, services>>
    PROVE  NetInv'
  BY DEF NetInv, Writing

LEMMA SameNet ==
    ASSUME NetInv, UNCHANGED <<entries, services, istio, role, hosts, host, todo, wrote, failed, input>>
    PROVE  NetInv'
  BY DEF NetInv, HostsDone, FirstRoleDone, Complete, Writing

LEMMA StartNet == ASSUME TypeInv, NetInv, StartIstio PROVE NetInv'
  <1>1. UNCHANGED <<entries, services, input>>
    BY DEF StartIstio, Net!StartIstio, own
  <1>2. CASE Net!StartRole("api-url", {input.apiUrl})
    BY <1>1, <1>2 DEF NetInv, HostsDone, Net!StartRole, Net!At, Writing
  <1>3. CASE istio' \in {"same", "failed"}
    BY <1>1, <1>3, EndedNet DEF Writing
  <1>4. QED
    BY <1>2, <1>3 DEF StartIstio, Net!StartIstio, Net!IstioEnds, Net!Fails, Net!At

LEMMA EntryNet == ASSUME TypeInv, NetInv, CreateEntry PROVE NetInv'
  <1>1. /\ istio = "entry" /\ UNCHANGED <<services, input>> /\ role \in Net!Role /\ HostsDone
        /\ entries \in Net!Labels /\ todo \subseteq hosts /\ hosts \subseteq Hosts
    BY DEF CreateEntry, Net!CreateEntry, own, TypeInv, TypeOK, PassType, NetInv, Writing
  <1>2. PICK h \in todo :
          \/ /\ entries' = [entries EXCEPT ![h] = IF @ = None THEN role ELSE @]
             /\ wrote' = (wrote \/ entries[h] = None)
             /\ host' = h /\ todo' = todo \ {h} /\ istio' = "service"
             /\ UNCHANGED <<role, hosts, failed>>
          \/ Net!Fails /\ UNCHANGED entries
    BY DEF CreateEntry, Net!CreateEntry, Net!At
  <1>3. CASE Net!Fails /\ UNCHANGED entries
    BY <1>1, <1>3, EndedNet DEF Net!Fails, Net!IstioEnds, Net!At, Writing
  <1>4. CASE /\ entries' = [entries EXCEPT ![h] = IF @ = None THEN role ELSE @]
             /\ wrote' = (wrote \/ entries[h] = None)
             /\ host' = h /\ todo' = todo \ {h} /\ istio' = "service"
             /\ UNCHANGED <<role, hosts, failed>>
    <2>1. \A g \in Hosts : entries'[g] = IF g = h /\ entries[g] = None THEN role ELSE entries[g]
      BY <1>1, <1>4 DEF Net!Labels
    <2>2. h \in Hosts /\ host = None
      BY <1>1 DEF HostsDone
    <2>3. entries'[h] # None /\ \A g \in Hosts : entries[g] # None => entries'[g] # None
      BY <1>1, <2>1, <2>2, RolesAssumption
    <2>4. HostsDone'
      BY <1>1, <1>4, <2>1, <2>2, <2>3, HostsAssumption DEF HostsDone
    <2>5. role = "communication-endpoint" => FirstRoleDone'
      <3> SUFFICES ASSUME role = "communication-endpoint" PROVE FirstRoleDone'
        OBVIOUS
      <3>1. FirstRoleDone /\ input.apiUrl \in Hosts
        BY <1>1 DEF NetInv, Writing, TypeInv, PassType, InPass, SpecType, CreateEntry
      <3>2. ~failed' => \A g \in Hosts \ {input.apiUrl} : entries'[g] # "api-url" /\ services'[g] # "api-url"
        BY <1>1, <1>4, <2>1, <3>1 DEF FirstRoleDone
      <3>3. ~wrote' => Complete(input.apiUrl)'
        BY <1>1, <1>4, <2>3, <3>1 DEF FirstRoleDone, Complete
      <3>4. QED
        BY <1>1, <3>2, <3>3 DEF FirstRoleDone, Complete
    <2>6. QED
      BY <1>1, <1>4, <2>4, <2>5 DEF NetInv, Writing
  <1>5. QED
    BY <1>2, <1>3, <1>4

LEMMA ServiceNet == ASSUME TypeInv, NetInv, CreateService PROVE NetInv'
  <1>1. /\ istio = "service" /\ UNCHANGED <<entries, input>> /\ role \in Net!Role /\ HostsDone
        /\ services \in Net!Labels /\ host \in hosts /\ hosts \subseteq Hosts
    BY DEF CreateService, Net!CreateService, own, TypeInv, TypeOK, PassType, NetInv, Writing
  <1>2. CASE Net!Fails /\ UNCHANGED services
    BY <1>1, <1>2, EndedNet DEF Net!Fails, Net!IstioEnds, Net!At, Writing
  <1>3. CASE /\ services' = [services EXCEPT ![host] = IF @ = None /\ host \notin IPs THEN role ELSE @]
             /\ wrote' = (wrote \/ services'[host] # services[host])
             /\ host' = None /\ istio' = Net!AfterHost
             /\ UNCHANGED <<role, hosts, todo, failed>>
    <2>1. \A g \in Hosts : services'[g] = IF g = host /\ services[g] = None /\ g \notin IPs THEN role
                                          ELSE services[g]
      BY <1>1, <1>3 DEF Net!Labels
    <2>2. /\ host \in IPs \/ services'[host] # None
          /\ \A g \in Hosts : services[g] # None => services'[g] # None
      BY <1>1, <2>1, RolesAssumption
    <2>3. HostsDone' /\ istio' \in {"entry", "remove"}
      BY <1>1, <1>3, <2>1, <2>2 DEF HostsDone, Net!AfterHost
    <2>4. \A g \in IPs : services'[g] = None
      BY <2>1, HostsAssumption DEF NetInv
    <2>5. role = "communication-endpoint" => FirstRoleDone'
      <3> SUFFICES ASSUME role = "communication-endpoint" PROVE FirstRoleDone'
        OBVIOUS
      <3>1. FirstRoleDone /\ input.apiUrl \in Hosts
        BY <1>1 DEF NetInv, Writing, TypeInv, PassType, InPass, SpecType, CreateService
      <3>2. ~failed' => \A g \in Hosts \ {input.apiUrl} : entries'[g] # "api-url" /\ services'[g] # "api-url"
        BY <1>1, <1>3, <2>1, <3>1 DEF FirstRoleDone
      <3>3. ~wrote' => Complete(input.apiUrl)'
        BY <1>1, <1>3, <2>2, <3>1 DEF FirstRoleDone, Complete
      <3>4. QED
        BY <1>1, <3>2, <3>3 DEF FirstRoleDone, Complete
    <2>6. QED
      BY <1>1, <1>3, <2>3, <2>4, <2>5 DEF NetInv, Writing
  <1>4. QED
    BY <1>2, <1>3 DEF CreateService, Net!CreateService, Net!At

LEMMA RemoveNet == ASSUME TypeInv, NetInv, Remove PROVE NetInv'
  <1>1. /\ istio = "remove" /\ UNCHANGED input /\ role \in Net!Role /\ HostsDone /\ todo = {} /\ host = None
        /\ entries \in Net!Labels /\ services \in Net!Labels /\ hosts \subseteq Hosts
    BY DEF Remove, Net!Remove, own, TypeInv, TypeOK, PassType, NetInv, Writing, HostsDone
  <1>2. CASE Net!Removed /\ istio' = "removed" /\ UNCHANGED <<role, hosts, host, todo>>
    <2>1. PICK vs \in SUBSET Net!Obsolete(services), se \in SUBSET Net!Obsolete(entries) :
            /\ services' = Net!Without(services, vs) /\ entries' = Net!Without(entries, se)
            /\ failed' = (failed \/ ~(vs = Net!Obsolete(services) /\ se = Net!Obsolete(entries)))
            /\ wrote' = (wrote \/ vs # {} \/ se # {})
      BY <1>2 DEF Net!Removed
    <2>2. \A h \in Hosts : /\ services'[h] = IF h \in vs THEN None ELSE services[h]
                          /\ entries'[h] = IF h \in se THEN None ELSE entries[h]
      BY <1>1, <2>1, WithoutType
    <2>3. \A h \in vs \cup se : h \in Hosts \ hosts
      BY <2>1 DEF Net!Obsolete
    <2>4. HostsDone'
      BY <1>1, <1>2, <2>2, <2>3 DEF HostsDone
    <2>5. \A h \in IPs : services'[h] = None
      BY <2>2, HostsAssumption DEF NetInv
    <2>6. ~failed' => \A h \in Hosts \ hosts : entries'[h] # role /\ services'[h] # role
      BY <1>1, <2>1, <2>2, RolesAssumption DEF Net!Obsolete
    <2>7. role = "communication-endpoint" => FirstRoleDone'
      <3> SUFFICES ASSUME role = "communication-endpoint" PROVE FirstRoleDone'
        OBVIOUS
      <3>1. FirstRoleDone /\ input.apiUrl \in Hosts
        BY <1>1 DEF NetInv, Writing, TypeInv, PassType, InPass, SpecType, Remove
      <3>2. ~failed' => \A g \in Hosts \ {input.apiUrl} : entries'[g] # "api-url" /\ services'[g] # "api-url"
        BY <1>1, <2>1, <2>2, <3>1, RolesAssumption DEF FirstRoleDone, Net!Role
      <3>3. ~wrote' => Complete(input.apiUrl)'
        BY <1>1, <2>1, <2>2, <3>1 DEF FirstRoleDone, Complete
      <3>4. QED
        BY <1>1, <3>2, <3>3 DEF FirstRoleDone, Complete
    <2>8. QED
      BY <1>1, <1>2, <2>4, <2>5, <2>6, <2>7 DEF NetInv, Writing
  <1>3. CASE istio' = "failed"
    <2>1. PICK vs : services' = Net!Without(services, vs)
      BY <1>1, <1>3 DEF Remove, Net!Remove, Net!At, Net!Removed
    <2>2. \A h \in IPs : services'[h] = None
      BY <1>1, <2>1, WithoutType, HostsAssumption DEF NetInv
    <2>3. QED
      BY <1>3, <2>2 DEF NetInv, Writing
  <1>4. QED
    BY <1>2, <1>3 DEF Remove, Net!Remove, Net!Fails, Net!IstioEnds, Net!At

LEMMA RoleEndsNet == ASSUME TypeInv, NetInv, RoleEnds PROVE NetInv'
  <1>1. /\ istio = "removed" /\ UNCHANGED <<entries, services, input>> /\ role \in Net!Role
        /\ HostsDone /\ todo = {} /\ host = None /\ input.apiUrl \in Hosts
        /\ entries \in Net!Labels /\ services \in Net!Labels /\ hosts \subseteq Hosts
    BY DEF RoleEnds, Net!RoleEnds, own, TypeInv, TypeOK, PassType, NetInv, Writing, HostsDone,
           InPass, SpecType
  <1>2. CASE istio' \in {"updated", "same", "failed"}
    BY <1>1, <1>2, EndedNet DEF Writing
  <1>3. CASE /\ role = "api-url" /\ UNCHANGED failed
             /\ Net!StartRole("communication-endpoint", endpoints)
    <2>1. hosts = {input.apiUrl}
      BY <1>1, <1>3 DEF NetInv, Writing
    <2>2. Complete(input.apiUrl)
      BY <1>1, <2>1, HostsAssumption DEF HostsDone, Complete
    <2>3. ~failed => \A h \in Hosts \ {input.apiUrl} : entries[h] # "api-url" /\ services[h] # "api-url"
      BY <1>1, <1>3, <2>1 DEF NetInv
    <2>4. FirstRoleDone'
      BY <1>1, <1>3, <2>2, <2>3 DEF FirstRoleDone, Complete
    <2>5. QED
      BY <1>1, <1>3, <2>4 DEF NetInv, HostsDone, Net!StartRole, Net!At, Writing
  <1>4. QED
    BY <1>2, <1>3 DEF RoleEnds, Net!RoleEnds, Net!IstioEnds, Net!Fails, Net!At

LEMMA NetStep == TypeInv /\ NetInv /\ [Next]_vars => NetInv'
  <1> SUFFICES ASSUME TypeInv, NetInv, [Next]_vars PROVE NetInv'
    OBVIOUS
  <1>1. CASE BeginPass
    <2>1. UNCHANGED <<entries, services>>
      BY <1>1, BeginType
    <2>2. istio' \notin Writing
      BY <1>1, BeginType DEF PassEnds, Writing, TypeInv, PassType
    <2>3. QED
      BY <2>1, <2>2, EndedNet
  <1>2. CASE ReadSecret \/ BuildClient
    BY <1>2, CheckType, SameNet DEF own, istioVars
  <1>3. CASE AskDynatrace
    BY <1>3, AskType, SameNet DEF own, istioVars
  <1>4. CASE SaveFails \/ Crash
    BY <1>4, GivenUpType, EndedNet DEF PassEnds, Writing
  <1>5. CASE SaveStatus
    BY <1>5, SaveType, EndedNet DEF PassEnds, Writing
  <1>6. CASE IstioStep
    BY <1>6, StartNet, EntryNet, ServiceNet, RemoveNet, RoleEndsNet DEF IstioStep
  <1>7. CASE EndPass
    BY <1>7, EndPassType, EndedNet DEF PassEnds, Writing
  <1>8. CASE Surroundings
    BY <1>8, SurroundingsType, SameNet
  <1>9. CASE \E t \in Tokens!Token : FiveMinutesPass(t)
    BY <1>9, MinutesType, SameNet DEF own, istioVars
  <1>10. CASE UNCHANGED vars
    BY <1>10, SameNet DEF vars, own, istioVars
  <1>11. QED
    BY <1>1, <1>2, <1>3, <1>4, <1>5, <1>6, <1>7, <1>8, <1>9, <1>10, Kinds

(* What the end of a pass shows about the Istio objects.                         *)
LEMMA SameMeansExact ==
    ASSUME TypeInv, NetInv, RoleEnds, istio' = "same", ~failed
    PROVE  Net!Exact({input.apiUrl} \cup hosts)
  <1>1. /\ istio = "removed" /\ role = "communication-endpoint" /\ ~wrote
    BY DEF RoleEnds, Net!RoleEnds, Net!StartRole, Net!IstioEnds, Net!Fails, Net!At
  <1>2. /\ HostsDone /\ FirstRoleDone /\ hosts \subseteq Hosts /\ input.apiUrl \in Hosts
        /\ entries \in Net!Labels /\ services \in Net!Labels
        /\ \A h \in Hosts \ hosts : entries[h] # role /\ services[h] # role
    BY <1>1 DEF NetInv, Writing, TypeInv, TypeOK, PassType, InPass, SpecType, RoleEnds
  <1>3. \A h \in {input.apiUrl} \cup hosts : Complete(h)
    BY <1>1, <1>2, HostsAssumption DEF HostsDone, FirstRoleDone, Complete
  <1>4. \A h \in Hosts : h \notin {input.apiUrl} \cup hosts => entries[h] = None /\ services[h] = None
    BY <1>1, <1>2 DEF FirstRoleDone, Net!Labels, Net!Role
  <1>5. \A h \in IPs : services[h] = None
    BY DEF NetInv
  <1>6. QED
    BY <1>3, <1>4, <1>5 DEF Net!Exact, Complete

(* A pass that finds nothing to write, with no call failed, leaves exactly the   *)
(* service entries and virtual services that its API URL and the endpoints need: *)
(* what earlier passes did by halves, or for the other role, has been completed  *)
(* or removed (reconcileIstioConfigurations).                                    *)
THEOREM HalfHourIsDone == MonitoringSpec => HalfHourMeansDone
  <1>1. MonitoringInit => TypeInv /\ NetInv
    BY WholeInit, InitType, NetInit
  <1>2. TypeInv /\ NetInv /\ [MonitoringNext]_allVars => TypeInv' /\ NetInv'
    BY WholeStep, TypeStep, NetStep
  <1>3. TypeInv /\ NetInv /\ [MonitoringNext]_allVars
        => [RoleEnds /\ istio' = "same" /\ ~failed => Net!Exact({input.apiUrl} \cup hosts)]_vars
    BY SameMeansExact
  <1>4. QED
    BY <1>1, <1>2, <1>3, PTL DEF MonitoringSpec, HalfHourMeansDone

--------------------------------------------------------------------------------
(* The image of an injected container *)

ImageInv == pod \in Webhook!Pod \cup {None} /\ ImageFits
LEMMA ImageStep == TypeInv /\ ImageInv /\ [MonitoringNext]_allVars => ImageInv'
  <1> SUFFICES ASSUME TypeInv, ImageInv, [MonitoringNext]_allVars PROVE ImageInv'
    OBVIOUS
  <1>1. CASE Webhook!CreatePod
    <2>1. spec.image \in BOOLEAN /\ status.immutable \in BOOLEAN
      BY SpecsAssumption DEF TypeInv, TypeOK, SpecType, Tokens!Status
    <2>2. PICK installerUrl \in BOOLEAN, ownImage \in BOOLEAN :
            pod' = [image |-> Webhook!Image(installerUrl, ownImage),
                    pull |-> Webhook!PullSecrets(ownImage),
                    copies |-> Webhook!Copies(installerUrl), runs |-> FALSE]
      BY <1>1 DEF Webhook!CreatePod
    <2>3. Webhook!PullSecrets(ownImage) \in BOOLEAN /\ Webhook!Copies(installerUrl) \in BOOLEAN
      BY DEF Webhook!PullSecrets, Webhook!Copies
    <2>4. Webhook!Image(installerUrl, ownImage) \in {"operator", "annotation", "spec", "built"}
      BY DEF Webhook!Image
    <2>5. Webhook!Copies(installerUrl) <=> Webhook!Image(installerUrl, ownImage) # "operator"
      BY DEF Webhook!Image, Webhook!Copies
    <2>6. Webhook!Image(installerUrl, ownImage) = "built" => Webhook!PullSecrets(ownImage)
      BY DEF Webhook!Image, Webhook!PullSecrets
    <2>7. QED
      BY <2>2, <2>3, <2>4, <2>5, <2>6 DEF ImageInv, ImageFits, Webhook!Pod
  <1>2. CASE pod # None /\ \E r \in BOOLEAN : pod' = [pod EXCEPT !.runs = r]
    BY <1>2 DEF ImageInv, ImageFits, Webhook!Pod
  <1>3. CASE pod' = None
    BY <1>3 DEF ImageInv, ImageFits
  <1>4. CASE UNCHANGED pod
    BY <1>4 DEF ImageInv, ImageFits
  <1>5. QED
    BY <1>1, <1>2, <1>3, <1>4
    DEF MonitoringNext, ApmStep, OneAgentStep, NamespaceStep, Request, PodStarts, PodDeleted,
        NodesChange, HostForgotten, NamespaceChanges, allVars,
        Webhook!CopyPod, Webhook!PodStarts, Webhook!PodDeleted

(* The image of an injected container, the pull secret and the script agree,      *)
(* whatever the spec and the status of the OneAgentAPM say at the time.          *)
THEOREM ImagesFit == MonitoringSpec => []ImageFits
  <1>1. MonitoringInit => TypeInv /\ ImageInv
    BY WholeInit, InitType DEF MonitoringInit, ImageInv, ImageFits
  <1>2. TypeInv /\ ImageInv /\ [MonitoringNext]_allVars => TypeInv' /\ ImageInv'
    BY WholeStep, TypeStep, ImageStep
  <1>3. ImageInv => ImageFits
    BY DEF ImageInv
  <1>4. QED
    BY <1>1, <1>2, <1>3, PTL DEF MonitoringSpec

--------------------------------------------------------------------------------
(* Types of the other parts *)

(* The OneAgents.                                                                *)
AgentTypes ==
    /\ agentPods \subseteq Node /\ answer \in Seq(Agents!Host)
    /\ instances \in [Node -> Nat \cup {None}]
    /\ probe \in {"off", "idle", "ask"} /\ found \subseteq Node

(* The namespace: a pass that writes a secret has read the token it writes.      *)
NamespaceTypes ==
    /\ label \in BOOLEAN /\ queued \in BOOLEAN /\ at \in {"idle", "tokens", "config", "pull"}
    /\ nodes \subseteq Node /\ apmImage \in BOOLEAN \cup {None}
    /\ token \in Tokens!Content \cup {None} /\ pull \in Tokens!Content \cup {None}
    /\ config \in [token : Tokens!Content, nodes : SUBSET Node] \cup {None}
    /\ at \in {"config", "pull"} => token \in Tokens!Content

LEMMA OtherTypesInit == MonitoringInit => AgentTypes /\ NamespaceTypes
  <1> SUFFICES ASSUME MonitoringInit PROVE AgentTypes /\ NamespaceTypes
    OBVIOUS
  <1>1. PICK s \in Scenarios : label \in s.labels /\ agentPods \in s.agents /\ answer \in s.answers
                               /\ probe = s.probe
    BY DEF MonitoringInit
  <1>2. label \in BOOLEAN /\ agentPods \subseteq Node /\ answer \in Seq(Agents!Host)
        /\ probe \in {"off", "idle"}
    BY <1>1, MonitoringAssumption, AnswersAssumption
  <1>3. /\ instances = [n \in Node |-> None] /\ found = {}
        /\ queued = label /\ at = "idle" /\ nodes = {} /\ apmImage = None /\ token = None
        /\ config = None /\ pull = None
    BY DEF MonitoringInit
  <1>4. AgentTypes
    BY <1>2, <1>3 DEF AgentTypes
  <1>5. NamespaceTypes
    BY <1>2, <1>3 DEF NamespaceTypes
  <1>6. QED
    BY <1>4, <1>5

(* A nonempty set of numbers with a bound has a largest one.                     *)
LEMMA Largest ==
    ASSUME NEW L \in Nat, NEW S, S \subseteq 1 .. L, S # {}
    PROVE  \E m \in S : \A i \in S : m >= i
  <1> DEFINE Below == {L - i : i \in S}
             Less == OpToRel(<, Nat)
  <1>1. \A x, y \in Nat : y < x => <<y, x>> \in Less
    BY DEF OpToRel
  <1>2. IsWellFoundedOn(Less, Nat)
    BY NatLessThanWellFounded
  <1>3. Below \subseteq Nat /\ Below # {}
    <2>1. \A i \in S : L - i \in Nat
      OBVIOUS
    <2>2. QED
      BY <2>1
  <1> HIDE DEF Less
  <1>4. PICK x \in Below : \A y \in Below : ~(<<y, x>> \in Less)
    <2> HIDE DEF Below
    <2>1. QED
      BY <1>2, <1>3, WFMin
  <1>5. \A y \in Below : ~(y < x)
    BY <1>1, <1>3, <1>4
  <1>6. PICK m \in S : x = L - m
    BY <1>4
  <1>7. \A i \in S : ~(L - i < L - m)
    BY <1>5, <1>6
  <1>8. \A i \in S : m >= i
    BY <1>7
  <1>9. QED
    BY <1>8

(* The last of the counted hosts of a node is one of them.                       *)
LEMMA LastCounted ==
    ASSUME AgentTypes, NEW n \in Node, Agents!Counted(n) # {}
    PROVE  Agents!Max(Agents!Counted(n)) \in Agents!Counted(n)
  <1>1. Len(answer) \in Nat /\ Agents!Counted(n) \subseteq 1 .. Len(answer)
    BY DEF AgentTypes, Agents!Counted
  <1>2. \E m \in Agents!Counted(n) : \A i \in Agents!Counted(n) : m >= i
    BY <1>1, Largest
  <1>3. QED
    BY <1>2 DEF Agents!Max

LEMMA VersionType ==
    ASSUME AgentTypes, NEW n \in Node
    PROVE  Agents!Version(n) \in Nat /\ Agents!LastKnown(n) \in Nat
  <1>1. Agents!LastKnown(n) \in Nat
    BY DEF AgentTypes, Agents!LastKnown
  <1>2. CASE Agents!Counted(n) = {}
    BY <1>1, <1>2 DEF Agents!Version
  <1>3. CASE Agents!Counted(n) # {}
    <2>1. Agents!Max(Agents!Counted(n)) \in DOMAIN answer
      BY <1>3, LastCounted DEF Agents!Counted
    <2>2. answer[Agents!Max(Agents!Counted(n))] \in Agents!Host
      BY <2>1 DEF AgentTypes
    <2> HIDE DEF Agents!Max, Agents!Counted
    <2>3. answer[Agents!Max(Agents!Counted(n))].ver \in Nat
      BY <2>2 DEF Agents!Host
    <2>4. QED
      BY <1>1, <1>3, <2>3 DEF Agents!Version
  <1>4. QED
    BY <1>2, <1>3

LEMMA StatusesType ==
    ASSUME AgentTypes, NEW pods, NEW failing
    PROVE  Agents!Statuses(pods, failing) \in [Node -> Nat \cup {None}]
  BY VersionType DEF Agents!Statuses, Agents!Learned

LEMMA AgentTypesStep == AgentTypes /\ [MonitoringNext]_allVars => AgentTypes'
  <1> SUFFICES ASSUME AgentTypes, [MonitoringNext]_allVars PROVE AgentTypes'
    OBVIOUS
  <1>1. CASE Agents!ListPods
    BY <1>1 DEF Agents!ListPods, AgentTypes
  <1>2. CASE Agents!AskHosts
    <2>1. instances' \in [Node -> Nat \cup {None}]
      BY <1>2, StatusesType DEF Agents!AskHosts, AgentTypes
    <2>2. QED
      BY <1>2, <2>1 DEF Agents!AskHosts, AgentTypes
  <1>3. CASE Agents!AgentPodsChange
    BY <1>3 DEF Agents!AgentPodsChange, AgentTypes
  <1>4. CASE Agents!HostsChange
    BY <1>4, AnswersAssumption DEF Agents!HostsChange, AgentTypes
  <1>5. CASE \E i \in DOMAIN answer : Agents!HostForgotten(i)
    <2>1. PICK i \in DOMAIN answer : /\ answer' = [answer EXCEPT ![i].counted = FALSE]
                                     /\ UNCHANGED <<agentPods, instances, probe, found>>
      BY <1>5 DEF Agents!HostForgotten
    <2>2. answer[i] \in Agents!Host
      BY DEF AgentTypes
    <2>3. [answer[i] EXCEPT !.counted = FALSE] \in Agents!Host
      BY <2>2 DEF Agents!Host
    <2>4. answer' \in Seq(Agents!Host)
      BY <2>1, <2>3 DEF AgentTypes
    <2>5. QED
      BY <2>1, <2>4 DEF AgentTypes
  <1>6. CASE UNCHANGED agentVars
    BY <1>6 DEF AgentTypes, agentVars
  <1>7. QED
    BY <1>1, <1>2, <1>3, <1>4, <1>5, <1>6
    DEF MonitoringNext, ApmStep, OneAgentStep, NamespaceStep, Request, PodStarts, PodDeleted,
        NodesChange, HostForgotten, NamespaceChanges, allVars

LEMMA NamespaceTypesStep ==
    TypeInv /\ NamespaceTypes /\ [MonitoringNext]_allVars => NamespaceTypes'
  <1> SUFFICES ASSUME TypeInv, NamespaceTypes, [MonitoringNext]_allVars PROVE NamespaceTypes'
    OBVIOUS
  <1>1. CASE Namespace!Begin
    BY <1>1 DEF Namespace!Begin, Namespace!At, NamespaceTypes
  <1>2. CASE Namespace!ReadTokens
    <2>1. secret # None => secret["paas"] \in Tokens!Content
      BY SecretsAssumption DEF TypeInv, TypeOK, Tokens!Secret, Tokens!Token
    <2>2. spec.image \in BOOLEAN
      BY SpecsAssumption DEF TypeInv, TypeOK, SpecType
    <2>3. QED
      BY <1>2, <2>1, <2>2
      DEF Namespace!ReadTokens, Namespace!Fails, Namespace!Forgets, Namespace!At, NamespaceTypes
  <1>3. CASE Namespace!WriteConfig
    <2>1. /\ at = "config" /\ token \in Tokens!Content /\ nodes \subseteq Node
          /\ label' \in BOOLEAN /\ pull' \in Tokens!Content \cup {None}
      BY <1>3 DEF Namespace!WriteConfig, NamespaceTypes
    <2>2. config' \in [token : Tokens!Content, nodes : SUBSET Node] \cup {None}
      BY <1>3, <2>1 DEF Namespace!WriteConfig, NamespaceTypes
    <2>3. /\ queued' \in BOOLEAN /\ at' \in {"idle", "pull"}
          /\ nodes' \subseteq Node /\ apmImage' \in BOOLEAN \cup {None}
          /\ token' \in Tokens!Content \cup {None}
          /\ at' = "pull" => token' \in Tokens!Content
      BY <1>3, <2>1 DEF Namespace!WriteConfig, Namespace!Fails, Namespace!Done, Namespace!Forgets,
                        Namespace!At, NamespaceTypes
    <2>4. QED
      BY <2>1, <2>2, <2>3 DEF NamespaceTypes
  <1>4. CASE Namespace!WritePull
    BY <1>4 DEF Namespace!WritePull, Namespace!PullSecret, Namespace!Fails, Namespace!Done,
                Namespace!Forgets, Namespace!At, NamespaceTypes
  <1>5. CASE Namespace!LabelChanges \/ Namespace!SecretsRemoved
    BY <1>5 DEF Namespace!LabelChanges, Namespace!SecretsRemoved, NamespaceTypes
  <1>6. CASE UNCHANGED namespaceVars
    BY <1>6 DEF NamespaceTypes, namespaceVars
  <1>7. QED
    BY <1>1, <1>2, <1>3, <1>4, <1>5, <1>6
    DEF MonitoringNext, ApmStep, OneAgentStep, NamespaceStep, Request, PodStarts, PodDeleted,
        NodesChange, HostForgotten, NamespaceChanges, allVars

(* All the variables of the composition have their types: a version learned from *)
(* Dynatrace's answer is one of a host in it, and a secret is only written with  *)
(* a token that the pass has read.                                               *)
THEOREM WholeTypes == MonitoringSpec => []TypesOK
  <1> DEFINE WholeInv == TypeInv /\ ImageInv /\ AgentTypes /\ NamespaceTypes
  <1>1. MonitoringInit => WholeInv
    BY WholeInit, InitType, OtherTypesInit DEF MonitoringInit, ImageInv, ImageFits
  <1>2. WholeInv /\ [MonitoringNext]_allVars => WholeInv'
    BY WholeStep, TypeStep, ImageStep, AgentTypesStep, NamespaceTypesStep
  <1>3. WholeInv => TypesOK
    BY DEF TypeInv, ImageInv, AgentTypes, NamespaceTypes, TypesOK
  <1>4. QED
    BY <1>1, <1>2, <1>3, PTL DEF MonitoringSpec

--------------------------------------------------------------------------------
(* The writes of the status come to an end *)

(* A status that a check of the tokens leaves as it is: what is wrong with the   *)
(* secret is written down, and every token that Dynatrace can be asked about has *)
(* a timestamp.                                                                  *)
Fixed(st) ==
    /\ secret = None => \A t \in Managed(spec) : st.cond[t] = "SecretNotFound"
    /\ secret # None =>
         /\ \A t \in Tokens!Lacking(Managed(spec), secret) : st.cond[t] = "TokenMissing"
         /\ Tokens!Lacking(Managed(spec), secret) = {} =>
              \A t \in Managed(spec) : IF secret[t] = "spaced" THEN st.cond[t] = "Spaces"
                                       ELSE t \in st.asked

(* The check of a pass that began after the last change.                         *)
LateCheck ==
    /\ input = spec /\ ~stale /\ managed = Managed(spec)
    /\ check \in {"secret", "client", "ask"} => mem = status
    /\ check \in {"client", "ask"} =>
         secret # None /\ Tokens!Lacking(Managed(spec), secret) = {} /\ read = secret
    /\ check \in {"passed", "failed"} => Fixed(mem) /\ (Fixed(status) => mem = status)

(* The first pass that began after the last change fixes the tokens' part of the *)
(* status, the second one the switch to immutable images.                        *)
Saved(passes) == settled > passes \/ (settled = passes /\ pc = "istio")
SettledInv ==
    settled >= 1 =>
      /\ faults = {}
      /\ pc = "tokens" => LateCheck
      /\ Saved(1) /\ spec.apiUrl # None => Fixed(status)
      /\ Saved(2) /\ spec.apiUrl # None => status.immutable = spec.immutable

LEMMA SettledInit == MonitoringInit => SettledInv
  BY DEF MonitoringInit, InitFor, SettledInv

(* Two statuses with the same parts are the same.                                *)
LEMMA SameStatus ==
    ASSUME NEW a \in Tokens!Status, NEW b \in Tokens!Status, a.asked = b.asked,
           a.immutable = b.immutable, \A t \in Tokens!Token : a.cond[t] = b.cond[t]
    PROVE  a = b
  <1>1. a.cond = b.cond
    BY DEF Tokens!Status
  <1>2. QED
    BY <1>1 DEF Tokens!Status

(* What Conditions changes, and that it changes nothing the second time.         *)
LEMMA ConditionsSet ==
    ASSUME NEW st \in Tokens!Status, NEW tokens \in SUBSET Tokens!Token,
           NEW reason \in Tokens!Reason
    PROVE  /\ \A t \in tokens : Tokens!Conditions(st, tokens, reason).cond[t] = reason
           /\ (\A t \in tokens : st.cond[t] = reason) => Tokens!Conditions(st, tokens, reason) = st
  <1> DEFINE new == Tokens!Conditions(st, tokens, reason)
  <1>1. new \in Tokens!Status /\ new.asked = st.asked
    BY ConditionsType
  <1>2. /\ new.immutable = st.immutable
        /\ \A t \in Tokens!Token : new.cond[t] = IF t \in tokens THEN reason ELSE st.cond[t]
    BY DEF Tokens!Conditions, Tokens!Status
  <1> HIDE DEF new
  <1>3. (\A t \in tokens : st.cond[t] = reason) => new = st
    BY <1>1, <1>2, SameStatus
  <1>4. \A t \in tokens : new.cond[t] = reason
    BY <1>2
  <1>5. QED
    BY <1>3, <1>4 DEF new

(* The first read of the secret: what it finds to be wrong is written down once. *)
LEMMA ReadSettles ==
    ASSUME TypeInv, ReadSecret, LateCheck, faults = {}
    PROVE  LateCheck'
  <1>1. /\ pc = "tokens" /\ check = "secret" /\ mem = status /\ mem \in Tokens!Status
        /\ managed = Managed(spec) /\ Managed(spec) \subseteq Tokens!Token
        /\ UNCHANGED <<own, secret, status, managed>>
    BY DEF ReadSecret, Tokens!ReadSecret, LateCheck, TypeInv, PassType, Managed, Tokens!Token
  <1>2. /\ input' = spec' /\ ~stale' /\ managed' = Managed(spec)'
    BY <1>1 DEF LateCheck, own, Managed
  <1>3. {"SecretNotFound", "TokenMissing"} \subseteq Tokens!Reason
    BY DEF Tokens!Reason
  <1> DEFINE lacking == Tokens!Lacking(Managed(spec), secret)
  <1>4. lacking \subseteq Tokens!Token /\ lacking' = lacking
    BY <1>1 DEF Tokens!Lacking, own, Managed
  <1>5. CASE secret = None /\ check' = "failed" /\ mem' = Tokens!Conditions(mem, managed, "SecretNotFound")
    <2>1. /\ \A t \in managed : mem'.cond[t] = "SecretNotFound"
          /\ (\A t \in managed : mem.cond[t] = "SecretNotFound") => mem' = mem
      BY <1>1, <1>3, <1>5, ConditionsSet
    <2>2. Fixed(mem)'
      BY <1>1, <1>5, <2>1 DEF Fixed, own, Managed
    <2>3. Fixed(status)' => mem' = status'
      BY <1>1, <1>5, <2>1 DEF Fixed, own, Managed
    <2>4. QED
      BY <1>2, <1>5, <2>2, <2>3 DEF LateCheck
  <1>6. CASE /\ secret # None /\ lacking # {} /\ check' = "failed"
             /\ mem' = Tokens!Conditions(mem, lacking, "TokenMissing")
    <2> HIDE DEF lacking
    <2>1. /\ \A t \in lacking : mem'.cond[t] = "TokenMissing"
          /\ (\A t \in lacking : mem.cond[t] = "TokenMissing") => mem' = mem
      BY <1>1, <1>3, <1>4, <1>6, ConditionsSet
    <2>2. secret' # None /\ lacking' # {}
      BY <1>1, <1>4, <1>6
    <2>3. Fixed(mem)'
      BY <1>4, <2>1, <2>2 DEF Fixed, lacking
    <2>4. Fixed(status)' => mem' = status'
      BY <1>1, <1>4, <2>1, <2>2 DEF Fixed, lacking
    <2>5. QED
      BY <1>2, <1>6, <2>3, <2>4 DEF LateCheck
  <1>7. CASE secret # None /\ lacking = {} /\ read' = secret /\ check' = "client" /\ mem' = mem
    BY <1>1, <1>2, <1>4, <1>7 DEF LateCheck
  <1>8. QED
    BY <1>1, <1>5, <1>6, <1>7 DEF ReadSecret, Tokens!ReadSecret, Tokens!CheckEnds

(* The second read finds the same secret.                                        *)
LEMMA BuildSettles ==
    ASSUME TypeInv, BuildClient, LateCheck, faults = {}
    PROVE  LateCheck'
  <1>1. /\ check = "client" /\ managed = Managed(spec)
        /\ secret # None /\ Tokens!Lacking(Managed(spec), secret) = {}
        /\ UNCHANGED <<own, secret, status, managed, read>>
    BY DEF BuildClient, Tokens!BuildClient, LateCheck
  <1>2. check' = "ask" /\ mem' = mem
    BY <1>1 DEF BuildClient, Tokens!BuildClient, Tokens!CannotBuild
  <1>3. QED
    BY <1>1, <1>2 DEF LateCheck, own, Managed, Tokens!Lacking

(* Dynatrace is asked about all the tokens whose timestamp is missing.           *)
LEMMA AskSettles ==
    ASSUME TypeInv, AskDynatrace, LateCheck, faults = {}
    PROVE  LateCheck'
  <1>1. /\ check = "ask" /\ mem = status /\ mem \in Tokens!Status /\ managed = Managed(spec)
        /\ secret # None /\ Tokens!Lacking(Managed(spec), secret) = {} /\ read = secret
        /\ UNCHANGED <<own, secret, status, managed>> /\ check' = "passed"
        /\ Managed(spec) \subseteq Tokens!Token
    BY DEF AskDynatrace, Tokens!AskDynatrace, Tokens!CheckEnds, LateCheck, TypeInv, PassType, Managed,
           Tokens!Token
  <1>2. input' = spec' /\ ~stale' /\ managed' = Managed(spec)'
    BY <1>1 DEF LateCheck, own, Managed
  <1>3. mem' \in Tokens!Status /\ mem'.asked = mem.asked \cup Tokens!Asked
    BY AskType DEF TypeInv, PassType, own
  <1>4. /\ mem'.immutable = mem.immutable
        /\ \A t \in Tokens!Token \ Tokens!Asked :
             mem'.cond[t] = IF t \in Tokens!Spaced THEN "Spaces" ELSE mem.cond[t]
    <2>1. PICK failing \in SUBSET Tokens!Asked :
            mem' = [mem EXCEPT !.cond = [t \in Tokens!Token |->
                                            IF t \in failing THEN "QueryError"
                                            ELSE IF t \in Tokens!Asked THEN Tokens!Answer(t)
                                            ELSE IF t \in Tokens!Spaced THEN "Spaces" ELSE mem.cond[t]],
                               !.asked = @ \cup Tokens!Asked]
      BY DEF AskDynatrace, Tokens!AskDynatrace, Tokens!CheckEnds
    <2> HIDE DEF Tokens!Asked, Tokens!Spaced, Tokens!Answer, Tokens!Token
    <2>2. QED
      BY <1>1, <2>1 DEF Tokens!Status
  <1>5. \A t \in managed : t \in Tokens!Spaced <=> secret[t] = "spaced"
    BY <1>1 DEF Tokens!Spaced
  <1>6. \A t \in managed : t \in Tokens!Asked <=> secret[t] # "spaced" /\ t \notin mem.asked
    BY <1>5 DEF Tokens!Asked
  <1>7. Fixed(mem)'
    <2>1. \A t \in managed : IF secret[t] = "spaced" THEN mem'.cond[t] = "Spaces" ELSE t \in mem'.asked
      BY <1>1, <1>3, <1>4, <1>5, <1>6
    <2>2. spec' = spec /\ secret' = secret
      BY <1>1 DEF own
    <2>3. QED
      BY <1>1, <2>1, <2>2 DEF Fixed, Managed, Tokens!Lacking
  <1>8. Fixed(status)' => mem' = status'
    <2> SUFFICES ASSUME Fixed(status)' PROVE mem' = status'
      OBVIOUS
    <2>1. Fixed(status)
      BY <1>1 DEF Fixed, own, Managed, Tokens!Lacking
    <2>2. \A t \in managed : IF secret[t] = "spaced" THEN mem.cond[t] = "Spaces" ELSE t \in mem.asked
      BY <1>1, <2>1 DEF Fixed
    <2>3. Tokens!Asked = {}
      BY <1>6, <2>2 DEF Tokens!Asked
    <2>4. \A t \in Tokens!Token : mem'.cond[t] = mem.cond[t]
      BY <1>1, <1>4, <1>5, <2>2, <2>3 DEF Tokens!Spaced
    <2>5. mem' = mem
      BY <1>1, <1>3, <1>4, <2>3, <2>4, SameStatus
    <2>6. QED
      BY <1>1, <2>5
  <1>9. QED
    BY <1>1, <1>2, <1>7, <1>8 DEF LateCheck

(* The end of a pass counts when what it has saved is in the status.             *)
LEMMA EndSettles ==
    ASSUME TypeInv, SettledInv, PassEnds, UNCHANGED <<spec, secret, faults>>,
           settled >= 1 /\ spec.apiUrl # None => Fixed(status)',
           settled >= 2 /\ spec.apiUrl # None => status'.immutable = spec.immutable
    PROVE  SettledInv'
  <1>1. settled \in 0 .. 3 /\ settled' = IF faults = {} THEN Later ELSE settled
    BY DEF PassEnds, TypeInv, TypeOK, MaxSettled
  <1>2. settled' >= 1 => faults' = {}
    BY <1>1 DEF SettledInv
  <1>3. /\ settled' > 1 => settled >= 1
        /\ settled' > 2 => settled >= 2
    BY <1>1 DEF Later, MaxSettled
  <1>4. pc' = "idle"
    BY DEF PassEnds
  <1> HIDE DEF Fixed
  <1>5. QED
    BY <1>2, <1>3, <1>4 DEF SettledInv, Saved

(* What the end of the check saves.                                              *)
LEMMA SaveSettles ==
    ASSUME TypeInv, SettledInv, SaveStatus, settled >= 1
    PROVE  /\ Fixed(status)' /\ spec' = spec /\ secret' = secret /\ faults' = faults
           /\ settled >= 2 => status'.immutable = spec.immutable
           /\ settled = 3 => ~Writes
  <1>1. /\ pc = "tokens" /\ check \in {"passed", "failed"} /\ LateCheck
        /\ status \in Tokens!Status /\ mem \in Tokens!Status
        /\ UNCHANGED <<spec, secret, faults>> /\ InPass(spec)
    BY DEF SaveStatus, SettledInv, TypeInv, TypeOK, PassType, LateCheck
  <1>2. spec.apiUrl # None
    BY <1>1, HostsAssumption DEF InPass
  <1>3. Fixed(mem) /\ (Fixed(status) => mem = status) /\ input = spec
    BY <1>1 DEF LateCheck
  <1>4. settled \in 0 .. 3
    BY DEF TypeInv, TypeOK, MaxSettled
  <1>5. /\ settled >= 2 => Fixed(status)
        /\ settled = 3 => status.immutable = spec.immutable
    BY <1>1, <1>2, <1>4 DEF SettledInv, Saved
  <1>6. /\ ToSave.cond = mem.cond /\ ToSave.asked = mem.asked
        /\ ~Tokens!Updated => mem = status /\ ToSave.immutable = spec.immutable
    BY <1>1, <1>3 DEF ToSave, Tokens!Updated, Tokens!Status
  <1>7. /\ status'.cond = mem.cond /\ status'.asked = mem.asked
        /\ ~Tokens!Updated => status'.immutable = spec.immutable
    BY <1>1, <1>6 DEF SaveStatus, Writes, Tokens!Updated
  <1>8. Fixed(status)'
    BY <1>1, <1>3, <1>7 DEF Fixed, Managed, Tokens!Lacking
  <1>9. settled >= 2 => ~Tokens!Updated
    BY <1>3, <1>5 DEF Tokens!Updated
  <1>10. settled = 3 => ~Writes
    BY <1>5, <1>6, <1>9 DEF Writes
  <1>11. QED
    BY <1>1, <1>7, <1>8, <1>9, <1>10

LEMMA SettledStep == TypeInv /\ SettledInv /\ [Next]_vars => SettledInv'
  <1> SUFFICES ASSUME TypeInv, SettledInv, [Next]_vars PROVE SettledInv'
    OBVIOUS
  <1>1. CASE BeginPass
    <2>1. pc = "idle" /\ UNCHANGED <<spec, secret, status, faults>>
      BY <1>1 DEF BeginPass
    <2>2. CASE spec.apiUrl # None
      <3>1. /\ pc' = "tokens" /\ input' = spec /\ ~stale' /\ settled' = settled
            /\ check' = "secret" /\ mem' = status /\ managed' = Managed(spec)
        BY <1>1, <2>2 DEF BeginPass, Tokens!StartCheck
      <3>2. LateCheck'
        BY <2>1, <3>1 DEF LateCheck, Managed
      <3>3. \A k \in {1, 2} : Saved(k)' => Saved(k)
        BY <3>1 DEF Saved
      <3>4. Fixed(status) => Fixed(status)'
        BY <2>1 DEF Fixed, Managed, Tokens!Lacking
      <3> HIDE DEF Fixed, LateCheck, Saved
      <3>5. QED
        BY <2>1, <3>1, <3>2, <3>3, <3>4 DEF SettledInv
    <2>3. CASE spec.apiUrl = None
      BY <1>1, <2>1, <2>3, EndSettles DEF BeginPass
    <2>4. QED
      BY <2>2, <2>3
  <1>2. CASE ReadSecret \/ BuildClient \/ AskDynatrace
    <2>1. pc = "tokens" /\ UNCHANGED <<own, istioVars, faults, settled, secret, status>>
      BY <1>2, CheckType, AskType
    <2>2. settled >= 1 => LateCheck'
      BY <1>2, <2>1, ReadSettles, BuildSettles, AskSettles DEF SettledInv
    <2>3. \A k \in {1, 2} : Saved(k)' => Saved(k)
      BY <2>1 DEF Saved, own
    <2>4. Fixed(status) => Fixed(status)'
      BY <2>1 DEF Fixed, Managed, Tokens!Lacking, own
    <2> HIDE DEF Fixed, LateCheck, Saved
    <2>5. QED
      BY <2>1, <2>2, <2>3, <2>4 DEF SettledInv, own
  <1>3. CASE SaveFails \/ Crash
    <2>1. PassEnds /\ UNCHANGED <<spec, secret, faults>>
      BY <1>3 DEF SaveFails, Crash
    <2>2. ~(settled >= 1)
      BY <1>3 DEF SaveFails, Crash, SettledInv, LateCheck
    <2>3. settled \in 0 .. 3
      BY DEF TypeInv, TypeOK, MaxSettled
    <2>4. QED
      BY <2>1, <2>2, <2>3, EndSettles
  <1>4. CASE SaveStatus
    <2>1. UNCHANGED <<spec, secret, faults>> /\ settled \in 0 .. 3 /\ pc = "tokens"
      BY <1>4 DEF SaveStatus, TypeInv, TypeOK, MaxSettled
    <2>2. CASE PassEnds
      BY <1>4, <2>1, <2>2, SaveSettles, EndSettles
    <2>3. CASE pc' = "istio" /\ settled' = settled
      <3>1. \A k \in {1, 2} : Saved(k)' => settled >= k
        BY <2>1, <2>3 DEF Saved
      <3> HIDE DEF Fixed, Saved
      <3>2. QED
        BY <1>4, <2>1, <2>3, <3>1, SaveSettles DEF SettledInv
    <2>4. QED
      BY <1>4, <2>2, <2>3 DEF SaveStatus
  <1>5. CASE IstioStep
    <2>1. pc = "istio" /\ UNCHANGED <<own, tokenVars, faults, settled>>
      BY <1>5, IstioType
    <2>2. Fixed(status) => Fixed(status)'
      BY <2>1 DEF Fixed, Managed, Tokens!Lacking, own, tokenVars
    <2> HIDE DEF Fixed
    <2>3. QED
      BY <2>1, <2>2 DEF SettledInv, Saved, own, tokenVars
  <1>6. CASE EndPass
    <2>1. pc = "istio" /\ PassEnds /\ UNCHANGED <<spec, secret, status, faults>>
          /\ settled \in 0 .. 3
      BY <1>6 DEF EndPass, TypeInv, TypeOK, MaxSettled
    <2>2. /\ settled >= 1 => Saved(1)
          /\ settled >= 2 => Saved(2)
      BY <2>1 DEF Saved
    <2>3. Fixed(status) => Fixed(status)'
      BY <2>1 DEF Fixed, Managed, Tokens!Lacking
    <2> HIDE DEF Fixed, Saved
    <2>4. QED
      BY <2>1, <2>2, <2>3, EndSettles DEF SettledInv
  <1>7. CASE Surroundings \/ \E t \in Tokens!Token : FiveMinutesPass(t)
    <2>1. settled' = 0
      BY <1>7 DEF Surroundings, EditSpec, SecretChanges, EndpointsChange, FaultsEnd, FiveMinutesPass
    <2>2. QED
      BY <2>1 DEF SettledInv
  <1>8. CASE UNCHANGED vars
    BY <1>8 DEF SettledInv, LateCheck, Fixed, Saved, Managed, Tokens!Lacking, vars, own, tokenVars
  <1>9. QED
    BY <1>1, <1>2, <1>3, <1>4, <1>5, <1>6, <1>7, <1>8, Kinds

(* The watch on the OneAgentAPM brings another pass for each status update of    *)
(* the pass before.  The passes do not go on for ever: of those that begin after *)
(* the last change, the first may write what it has found about the tokens, the  *)
(* second the switch to immutable images, and no later one writes anything,      *)
(* although conditions of tokens that are not looked at may be out of date.      *)
THEOREM StatusWritesSettle == MonitoringSpec => WritesSettle
  <1>1. MonitoringInit => TypeInv /\ SettledInv
    BY WholeInit, InitType, SettledInit
  <1>2. TypeInv /\ SettledInv /\ [MonitoringNext]_allVars => TypeInv' /\ SettledInv'
    BY WholeStep, TypeStep, SettledStep
  <1>3. TypeInv /\ SettledInv /\ [MonitoringNext]_allVars
        => [SaveStatus /\ Writes => settled < MaxSettled]_vars
    <2> SUFFICES ASSUME TypeInv, SettledInv, SaveStatus, Writes PROVE settled < MaxSettled
      OBVIOUS
    <2>1. settled \in 0 .. 3
      BY DEF TypeInv, TypeOK, MaxSettled
    <2>2. settled # 3
      BY SaveSettles
    <2>3. QED
      BY <2>1, <2>2 DEF MaxSettled
  <1>4. QED
    BY <1>1, <1>2, <1>3, PTL DEF MonitoringSpec, WritesSettle

================================================================================
