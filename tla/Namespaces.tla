------------------------------- MODULE Namespaces -------------------------------
(***************************************************************************)
(* The namespace controller (controllers/namespace/namespace_controller.go) *)
(* for one namespace: from the OneAgents' instances, the OneAgentAPM named  *)
(* by the namespace's label and the secret with the tokens, read one after  *)
(* the other, it writes two secrets into the namespace, one with the script *)
(* the injected containers run and one to pull their image.  The secrets    *)
(* are not watched.                                                         *)
(*                                                                         *)
(* A call that fails in the first step leaves everything as it is, and is   *)
(* made again.                                                              *)
(***************************************************************************)

CONSTANTS
    Secrets,  \* what the secret with the tokens may contain, None: there is none
    None      \* model value: no secret, nothing read

VARIABLES
    label,       \* the namespace names the OneAgentAPM in its label
    queued,      \* the namespace is in the work queue, or will be after five minutes
    at,          \* where the pass is
    nodes,       \* imNodes: the nodes it has seen in the OneAgents' status
    apmImage,    \* whether the OneAgentAPM it has seen names an image
    token,       \* the PaaS token it has seen
    config,      \* the secret with the script: the token and the nodes in it, or None
    pull,        \* the pull secret: the token in it, or None
    agentNodes,  \* the nodes in the status of the OneAgents
    image,       \* spec.image of the OneAgentAPM is set
    secret,      \* the secret with the tokens
    faults       \* what may still go wrong

namespaceVars == <<label, queued, at, nodes, apmImage, token, config, pull>>

At(place) == at' = place
Forgets == nodes' = {} /\ apmImage' = None /\ token' = None

(* An error brings the namespace back, and so do the five minutes after a pass.  *)
Fails == At("idle") /\ Forgets /\ queued' = TRUE
BugDone == At("idle") /\ Forgets /\ UNCHANGED queued
Done == At("idle") /\ Forgets /\ queued' = TRUE

(* Without the label there is nothing to do until the namespace changes.         *)
Begin ==
    /\ at = "idle" /\ queued /\ queued' = FALSE
    /\ \/ ~label /\ UNCHANGED <<at, nodes>>
       \/ label /\ nodes' = agentNodes /\ At("tokens")
    /\ UNCHANGED <<label, apmImage, token, config, pull>>

(* The OneAgentAPM, and the secret it names.                                     *)
ReadTokens ==
    /\ at = "tokens"
    /\ \/ /\ secret # None
          /\ apmImage' = image /\ token' = secret["paas"] /\ At("config")
          /\ UNCHANGED <<queued, nodes>>
       \/ (secret = None \/ "api" \in faults) /\ Fails
    /\ UNCHANGED <<label, config, pull>>

(* newScript, generate and CreateOrUpdateSecretIfNotExists.                      *)
WriteConfig ==
    /\ at = "config"
    /\ \/ /\ config' = [token |-> token, nodes |-> nodes]
          /\ \/ apmImage /\ Done
             \/ ~apmImage /\ At("pull") /\ UNCHANGED <<queued, nodes, apmImage, token>>
       \/ "api" \in faults /\ Fails /\ UNCHANGED config
    /\ UNCHANGED <<label, pull>>

(* GeneratePullSecretData asks Dynatrace for the tenant with the token of a      *)
(* second read; the password is the token of the first.                          *)
Accepted(s) == s # None /\ s["paas"] \in {"good", "spaced"}
BugPullSecret == IF pull = None THEN token ELSE pull
PullSecret == token
WritePull ==
    /\ at = "pull"
    /\ \/ Accepted(secret) /\ pull' = PullSecret /\ Done
       \/ (~Accepted(secret) \/ "api" \in faults) /\ Fails /\ UNCHANGED pull
    /\ UNCHANGED <<label, config>>

LabelChanges ==
    /\ "label" \in faults
    /\ label' = ~label /\ queued' = TRUE
    /\ UNCHANGED <<at, nodes, apmImage, token, config, pull>>

(* Somebody removes a secret from the namespace.                                 *)
SecretsRemoved ==
    /\ "removed" \in faults
    /\ config' = None /\ pull' = None /\ config # None
    /\ UNCHANGED <<label, queued, at, nodes, apmImage, token>>

================================================================================
