-------------------------- MODULE WebhookCertsOnTime --------------------------
(***************************************************************************)
(* WebhookCerts with a history of when the certificates were last seen to: *)
(* how long ago the pass that runs, and the last one that was completed,   *)
(* read the secret.                                                        *)
(***************************************************************************)
EXTENDS WebhookCerts

VARIABLES
    running,     \* clock steps since the pass that runs read the secret
    since        \* clock steps since the last completed pass did

history == <<running, since>>
Later(a) == IF a = Threshold THEN a ELSE a + 1

InitOnTime == Init /\ running = 0 /\ since = Threshold

(* A pass counts as completed when the bundle is published, even when the answer *)
(* to that call was lost.                                                        *)
NextOnTime ==
    \/ Tick /\ running' = Later(running) /\ since' = Later(since)
    \/ ReadSecret /\ running' = 0 /\ UNCHANGED since
    \/ /\ ReconcileWebhookConfig
       /\ since' = IF bundle' = data.ca THEN running ELSE since
       /\ UNCHANGED running
    \/ /\ \/ SaveSecret \/ WriteCrt \/ WriteKey \/ ReconcileService
          \/ BootstrapperCrash \/ PodReplaced
          \/ SecretDeleted \/ SecretSeen \/ BundleSeen \/ FaultsEnd
          \/ StartWebhookServer \/ ManagerStarts \/ Reload
       /\ UNCHANGED history

SpecOnTime == InitOnTime /\ [][NextOnTime]_<<vars, history>>

(* A server keeps a valid certificate, and the API server a valid CA, through    *)
(* outages shorter than renewalThreshold: only when all passes that began since  *)
(* then have failed can one of them expire.                                      *)
ServedCertificateIsValid ==
    [][Tick /\ since < Threshold =>
          /\ loaded # None => loaded.left > 0
          /\ bundle # None => bundle.left > 0]_vars

================================================================================
