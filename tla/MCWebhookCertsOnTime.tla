------------------------- MODULE MCWebhookCertsOnTime -------------------------
(* Values for the bounds of WebhookCerts and the failures of the run.            *)
EXTENDS WebhookCertsOnTime

Keys == 0 .. 9
Late == {"late", "api", "pod"}

================================================================================
