----------------------------- MODULE WebhookCerts -----------------------------
(***************************************************************************)
(* The certificates of the admission webhook.  The bootstrapper            *)
(* (webhook/bootstrapper) reconciles, every five minutes, the secret       *)
(* dynatrace-oneagent-webhook-certs, the files tls.crt and tls.key in a    *)
(* volume it shares with the webhook server, the service and the CA bundle *)
(* of the MutatingWebhookConfiguration.  The webhook server                *)
(* (cmd/operator/webhook_server.go) waits for the files and serves with    *)
(* the pair it loads from them.                                            *)
(*                                                                         *)
(* A certificate is the number of its key, the number of its signer's key  *)
(* and the time it has left; a step of the clock is one period of the      *)
(* ticker.  Numbers that nothing holds any more are used again.            *)
(*                                                                         *)
(* Operators named Bug... are defects the code could have had; no action   *)
(* uses them, they show which property would notice.                       *)
(***************************************************************************)
EXTENDS Integers

CONSTANTS
    Key,        \* numbers for keys; a bound, large enough for all that are held
    CALife,     \* lifetime of a CA certificate, 365 days
    TLSLife,    \* lifetime of a server certificate, 7 days
    Threshold,  \* renewalThreshold, four hours
    None,       \* model value: no secret, no file, no bundle
    Torn,       \* model value: a file that was only partly written
    Faults      \* the failures that may happen, a subset of FaultKinds

(* "api": a call to the API server fails, before or after it took effect.        *)
(* "write": a file is not written, or only in part.  "crash": the bootstrapper   *)
(* is restarted.  "pod": the pod is replaced, its volume with it.  "lag": the    *)
(* informers show what was there before the last writes.  "deleted": the secret  *)
(* is deleted, once (a bound).  "late": the clock waits neither for the pass,    *)
(* nor for the informers, nor for the server, which may wait its five minutes in *)
(* vain.                                                                         *)
FaultKinds == {"api", "write", "crash", "pod", "lag", "deleted", "late"}

ASSUME KeyAssumption == Key \subseteq Nat
ASSUME LifeAssumption == /\ Threshold \in Nat \ {0}
                         /\ TLSLife \in Nat /\ CALife \in Nat
                         /\ Threshold < TLSLife /\ Threshold < CALife
ASSUME FaultsAssumption == Faults \subseteq FaultKinds

VARIABLES
    secret,      \* the secret: its CA and its server certificate
    view,        \* the secret as the informer shows it
    bundle,      \* the CABundle of the webhook configuration
    bundleView,  \* the same, as the informer shows it
    service,     \* whether the service exists
    crtFile,     \* the file tls.crt
    keyFile,     \* the file tls.key
    pc,          \* where the pass of the bootstrapper is
    due,         \* whether a request is in its queue
    read,        \* the copy of the secret the pass has read
    data,        \* cs.Data: the certificates the pass is to publish
    server,      \* the state of the webhook server
    loaded,      \* the certificate it serves with
    faults       \* the failures that may still happen

cluster == <<secret, view, bundle, bundleView, service>>
files == <<crtFile, keyFile>>
pass == <<pc, due, read, data>>
webhook == <<server, loaded>>
vars == <<cluster, files, pass, webhook, faults>>

--------------------------------------------------------------------------------
(* Certificates *)

CA == [key : Key, left : 0 .. CALife]
Certificate == [key : Key, signer : Key, left : 0 .. TLSLife]
Certificates == [ca : CA, tls : Certificate]
ASSUME NoneAssumption == /\ None \notin Certificates \cup Certificate \cup CA \cup Key
                         /\ Torn \notin Certificate \cup Key
                         /\ None # Torn

BugExpiring(c) == c.left < 1
Expiring(c) == c.left < Threshold
BugElapsed(c) == [c EXCEPT !.left = @ - 1]
Elapsed(c) == [c EXCEPT !.left = IF @ = 0 THEN 0 ELSE @ - 1]
OneStep(c) == IF c = None THEN None
              ELSE [ca |-> Elapsed(c.ca), tls |-> Elapsed(c.tls)]
NewCA(k) == [key |-> k, left |-> CALife]
NewTLS(k, ca) == [key |-> k, signer |-> ca.key, left |-> TLSLife]

BugValidateCerts(c, i, j) ==
    LET renewRoot == c = None \/ Expiring(c.ca)
        ca == IF renewRoot THEN NewCA(i) ELSE c.ca
    IN [ca |-> ca, tls |-> IF c = None \/ Expiring(c.tls) THEN NewTLS(j, ca) ELSE c.tls]
(* ValidateCerts: c with what is missing or about to expire made anew, with the   *)
(* keys i for the CA and j for the server.                                       *)
ValidateCerts(c, i, j) ==
    LET renewRoot == c = None \/ Expiring(c.ca)
        ca == IF renewRoot THEN NewCA(i) ELSE c.ca
    IN [ca |-> ca, tls |-> IF renewRoot \/ Expiring(c.tls) THEN NewTLS(j, ca) ELSE c.tls]

(* Keys that something still holds: new ones are different from all of them.     *)
KeysOf(c) == IF c = None THEN {} ELSE {c.ca.key, c.tls.key, c.tls.signer}
KeysOfFile == IF crtFile \in {None, Torn} THEN {} ELSE {crtFile.key, crtFile.signer}
InUse == UNION {KeysOf(secret), KeysOf(view), KeysOf(read), KeysOf(data), KeysOfFile, {keyFile},
                IF loaded = None THEN {} ELSE {loaded.key, loaded.signer},
                IF bundle = None THEN {} ELSE {bundle.key},
                IF bundleView = None THEN {} ELSE {bundleView.key}}
Lowest(S) == {k \in S : \A j \in S : k <= j}

(* What tls.LoadX509KeyPair accepts: both files, and the key the certificate's.  *)
PairAvailable == crtFile \notin {None, Torn} /\ keyFile = crtFile.key
ReloadPending == server = "running" /\ PairAvailable /\ loaded # crtFile
Synced == view = secret /\ bundleView = bundle
Starting == server = "starting" \/ (server = "waiting" /\ crtFile # None)

--------------------------------------------------------------------------------
(* The clock and the rest of the world *)

(* A period of the ticker, and the artificial request at its end.  The watcher   *)
(* and the second file do not take that long.                                    *)
Tick ==
    /\ "late" \in faults \/ (pc = "idle" /\ ~due /\ ~Starting /\ Synced)
    /\ ~ReloadPending /\ pc # "key"
    /\ secret' = OneStep(secret) /\ view' = OneStep(view)
    /\ read' = OneStep(read) /\ data' = OneStep(data)
    /\ bundle' = IF bundle = None THEN None ELSE Elapsed(bundle)
    /\ bundleView' = IF bundleView = None THEN None ELSE Elapsed(bundleView)
    /\ crtFile' = IF crtFile \in {None, Torn} THEN crtFile ELSE Elapsed(crtFile)
    /\ loaded' = IF loaded = None THEN None ELSE Elapsed(loaded)
    /\ due' = TRUE
    /\ UNCHANGED <<service, keyFile, pc, server, faults>>

SecretDeleted ==
    /\ "deleted" \in faults /\ secret # None
    /\ secret' = None
    /\ view' = IF "lag" \in faults THEN view ELSE None
    /\ faults' = faults \ {"deleted"}
    /\ UNCHANGED <<bundle, bundleView, service, files, pass, webhook>>

SecretSeen ==
    /\ view # secret /\ view' = secret
    /\ UNCHANGED <<secret, bundle, bundleView, service, files, pass, webhook, faults>>

BundleSeen ==
    /\ bundleView # bundle /\ bundleView' = bundle
    /\ UNCHANGED <<secret, view, bundle, service, files, pass, webhook, faults>>

(* From here on nothing fails any more.                                          *)
FaultsEnd ==
    /\ faults # {} /\ faults' = {}
    /\ UNCHANGED <<cluster, files, pass, webhook>>

--------------------------------------------------------------------------------
(* The bootstrapper: Reconcile *)

Forget == read' = None /\ data' = None

BugFailed == pc' = "idle" /\ due' = FALSE /\ Forget
(* An error ends the pass and puts the request back into the queue.              *)
Failed == pc' = "idle" /\ due' = TRUE /\ Forget
Continue(label) == pc' = label /\ UNCHANGED <<due, read, data>>

(* reconcileCerts, up to the call that writes the secret: the informer's copy is *)
(* read and what is to be renewed is generated in memory.                        *)
ReadSecret ==
    /\ pc = "idle" /\ due
    /\ \E i \in Lowest(Key \ InUse) : \E j \in Lowest(Key \ (InUse \cup {i})) :
          /\ read' = view
          /\ data' = ValidateCerts(view, i, j)
          /\ pc' = IF ValidateCerts(view, i, j) = view THEN "crt" ELSE "save"
    /\ due' = FALSE
    /\ UNCHANGED <<cluster, files, webhook, faults>>

(* Create is refused when the secret exists, Update when it is gone or was       *)
(* written since.                                                                *)
BugAccepted == TRUE
Accepted == read = secret
SaveSecret ==
    /\ pc = "save"
    /\ \/ /\ Accepted
          /\ secret' = data
          /\ view' = IF "lag" \in faults THEN view ELSE data
          /\ \/ Continue("crt")
             \/ "api" \in faults /\ Failed
       \/ /\ ~Accepted \/ "api" \in faults
          /\ Failed
          /\ UNCHANGED <<secret, view>>
    /\ UNCHANGED <<bundle, bundleView, service, files, webhook, faults>>

(* The two files, in this order; each is written when it differs.                *)
WriteCrt ==
    /\ pc = "crt"
    /\ \/ crtFile' = data.tls /\ Continue("key")
       \/ /\ "write" \in faults /\ crtFile # data.tls
          /\ crtFile' \in {crtFile, Torn}
          /\ Failed
    /\ UNCHANGED <<cluster, keyFile, webhook, faults>>

BugWriteKey ==
    /\ pc = "key"
    /\ \/ keyFile' = data.tls.key
       \/ "write" \in faults /\ keyFile # data.tls.key /\ keyFile' \in {keyFile, Torn}
    /\ Continue("service")
    /\ UNCHANGED <<cluster, crtFile, webhook, faults>>
WriteKey ==
    /\ pc = "key"
    /\ \/ keyFile' = data.tls.key /\ Continue("service")
       \/ /\ "write" \in faults /\ keyFile # data.tls.key
          /\ keyFile' \in {keyFile, Torn}
          /\ Failed
    /\ UNCHANGED <<cluster, crtFile, webhook, faults>>

(* reconcileService only creates the service.                                    *)
ReconcileService ==
    /\ pc = "service"
    /\ \/ service' = TRUE /\ Continue("config")
       \/ "api" \in faults /\ service' \in {service, TRUE} /\ Failed
    /\ UNCHANGED <<secret, view, bundle, bundleView, files, webhook, faults>>

(* reconcileWebhookConfig: nothing is written when the copy it reads has the     *)
(* bundle; a write from an outdated copy is refused.                             *)
BugUpToDate == bundleView # None
UpToDate == bundleView = data.ca
Completed == pc' = "idle" /\ Forget /\ UNCHANGED due
ReconcileWebhookConfig ==
    /\ pc = "config"
    /\ \/ /\ UpToDate
          /\ Completed
          /\ UNCHANGED <<bundle, bundleView>>
       \/ /\ ~UpToDate /\ bundleView = bundle
          /\ bundle' = data.ca
          /\ bundleView' = IF "lag" \in faults THEN bundleView ELSE data.ca
          /\ \/ Completed
             \/ "api" \in faults /\ Failed
       \/ /\ "api" \in faults \/ (~UpToDate /\ bundleView # bundle)
          /\ Failed
          /\ UNCHANGED <<bundle, bundleView>>
    /\ UNCHANGED <<secret, view, service, files, webhook, faults>>

BootstrapperCrash ==
    /\ "crash" \in faults
    /\ Failed
    /\ UNCHANGED <<cluster, files, webhook, faults>>

PodReplaced ==
    /\ "pod" \in faults
    /\ Failed
    /\ crtFile' = None /\ keyFile' = None
    /\ server' = "waiting" /\ loaded' = None
    /\ UNCHANGED <<cluster, faults>>

--------------------------------------------------------------------------------
(* The webhook server *)

(* The loop before the manager is started looks for tls.crt, for five minutes.   *)
StartWebhookServer ==
    /\ server = "waiting"
    /\ crtFile # None \/ "late" \in faults
    /\ server' = "starting"
    /\ UNCHANGED <<cluster, files, pass, loaded, faults>>

(* The manager loads the pair; when it cannot, the process ends and is started   *)
(* again.                                                                        *)
ManagerStarts ==
    /\ server = "starting"
    /\ IF PairAvailable THEN server' = "running" /\ loaded' = crtFile
                        ELSE server' = "waiting" /\ loaded' = None
    /\ UNCHANGED <<cluster, files, pass, faults>>

(* The watcher of the files; a pair that does not match is not loaded.           *)
Reload ==
    /\ ReloadPending
    /\ loaded' = crtFile
    /\ UNCHANGED <<cluster, files, pass, server, faults>>

--------------------------------------------------------------------------------

Init ==
    /\ secret = None /\ view = None
    /\ bundle = None /\ bundleView = None /\ service = FALSE
    /\ crtFile = None /\ keyFile = None
    /\ pc = "idle" /\ due = TRUE /\ read = None /\ data = None
    /\ server = "waiting" /\ loaded = None
    /\ faults = Faults

Reconcile == \/ ReadSecret \/ SaveSecret \/ WriteCrt \/ WriteKey
             \/ ReconcileService \/ ReconcileWebhookConfig

Next == \/ Tick \/ SecretDeleted \/ SecretSeen \/ BundleSeen \/ FaultsEnd
        \/ Reconcile \/ BootstrapperCrash \/ PodReplaced
        \/ StartWebhookServer \/ ManagerStarts \/ Reload

Spec == Init /\ [][Next]_vars

(* The controller's worker runs, informers catch up, the ticker ticks, the       *)
(* server and its watcher run.                                                   *)
LiveSpec == /\ Spec
            /\ WF_vars(Reconcile) /\ WF_vars(SecretSeen) /\ WF_vars(BundleSeen)
            /\ WF_vars(Tick) /\ WF_vars(StartWebhookServer \/ ManagerStarts \/ Reload)

--------------------------------------------------------------------------------
(* Properties *)

TypeOK ==
    /\ secret \in Certificates \cup {None} /\ view \in Certificates \cup {None}
    /\ bundle \in CA \cup {None} /\ bundleView \in CA \cup {None}
    /\ service \in BOOLEAN
    /\ crtFile \in Certificate \cup {None, Torn} /\ keyFile \in Key \cup {None, Torn}
    /\ pc \in {"idle", "save", "crt", "key", "service", "config"}
    /\ due \in BOOLEAN
    /\ read \in Certificates \cup {None}
    /\ data \in Certificates \cup {None}
    /\ pc # "idle" => data \in Certificates
    /\ server \in {"waiting", "starting", "running"}
    /\ loaded \in Certificate \cup {None}
    /\ server = "running" => loaded \in Certificate
    /\ faults \in SUBSET FaultKinds

(* Whatever fails and in whatever order, the server certificate kept in the      *)
(* secret was signed by the CA kept beside it: ValidateCerts makes a new one     *)
(* whenever it makes a new CA.                                                   *)
SecretConsistent == secret # None => secret.tls.signer = secret.ca.key

(* When no request is left to handle, the files, the service and the CA bundle   *)
(* are those of the secret, whichever step of earlier passes failed: an error of *)
(* Reconcile is returned, so the request comes back.                             *)
PassesConverge ==
    (pc = "idle" /\ ~due /\ secret # None) =>
        /\ crtFile = secret.tls /\ keyFile = secret.tls.key
        /\ service /\ bundle = secret.ca

(* The CA bundle only changes to a CA whose certificate the webhook server can   *)
(* already load: Reconcile writes the files before the webhook configuration,    *)
(* and stops when it cannot.                                                     *)
BundleFollowsFiles ==
    [][bundle' # bundle /\ (bundle = None \/ bundle'.key # bundle.key) =>
          PairAvailable /\ crtFile.signer = bundle'.key]_vars

(* "renewed automatically" (CHANGELOG.md:121), and only then: the CA and the     *)
(* server certificate of the secret are replaced only when they, or the CA, are  *)
(* about to expire.  No outdated copy and no answer that was lost makes the      *)
(* bootstrapper replace certificates that are still good.                        *)
Replaced(old, new) == old # None /\ new # None /\ old.key # new.key
RenewedOnlyWhenDue ==
    [][secret # None /\ secret' # None =>
         /\ Replaced(secret.ca, secret'.ca) => secret.ca.left < Threshold
         /\ Replaced(secret.tls, secret'.tls) =>
               secret.ca.left < Threshold \/ secret.tls.left < Threshold]_vars

(* Once nothing fails any more, the API server trusts the certificate the        *)
(* webhook server serves, until the next renewal and again after it.             *)
Trusted == /\ loaded # None /\ bundle # None /\ loaded.signer = bundle.key
           /\ loaded.left > 0 /\ bundle.left > 0
EventuallyTrusted == (faults = {}) ~> Trusted

(* As long as nobody deletes the secret, the bootstrapper hands its certificates  *)
(* over in order (CertificateHandover): it offers the server the pair that is in  *)
(* the secret when it writes the files, never another one, and it changes the CA  *)
(* bundle only to the CA of that pair and while the server can load the pair.     *)
(* An outdated copy of the secret gets nowhere: it is due for renewal, and        *)
(* saving the renewal fails.                                                      *)
Named(root, key) == [root |-> root, key |-> key]
Kept == IF secret = None THEN None ELSE Named(secret.ca.key, secret.tls.key)
Offered == IF PairAvailable THEN Named(crtFile.signer, crtFile.key) ELSE None
Served == IF loaded = None THEN None ELSE Named(loaded.signer, loaded.key)
TrustedCA == IF bundle = None THEN None ELSE bundle.key
Handover == INSTANCE CertificateHandover
              WITH kept <- Kept, offered <- Offered, served <- Served, trusted <- TrustedCA
ASSUME PairAssumption == None \notin Handover!Pair
HandedOverInOrder == Handover!Spec

================================================================================
