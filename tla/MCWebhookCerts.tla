---------------------------- MODULE MCWebhookCerts ----------------------------
(* Values for the bounds of WebhookCerts and the failures of its run.            *)
EXTENDS WebhookCerts

Keys == 0 .. 9
Lagging == FaultKinds \ {"late"}

================================================================================
