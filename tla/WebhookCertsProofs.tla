-------------------------- MODULE WebhookCertsProofs --------------------------
(***************************************************************************)
(* Proofs about WebhookCerts, for every lifetime, threshold, set of keys   *)
(* and set of failures: its type invariant, that the secret's certificates *)
(* belong together, that the CA bundle follows the files, and, when the    *)
(* informers do not lag, that a pass leaves everything in agreement.       *)
(***************************************************************************)
EXTENDS WebhookCerts, TLAPS

Cert2 == Certificates \cup {None}

Consistent(c) == c # None => c.tls.signer = c.ca.key

(* What the certificates in the secret, its copies and the running pass have in  *)
(* common.                                                                       *)
CertsInv == /\ Consistent(secret) /\ Consistent(view)
            /\ pc # "idle" => Consistent(data)

(* How far the running pass has written the files.                               *)
FilesInv == /\ pc \in {"key", "service", "config"} => crtFile = data.tls
            /\ pc \in {"service", "config"} => keyFile = data.tls.key

Inv == TypeOK /\ CertsInv /\ FilesInv

--------------------------------------------------------------------------------
(* The operators on certificates *)

(* Time leaves a CA a CA, with its key.                                          *)
LEMMA ElapsedCA ==
    ASSUME NEW c \in CA
    PROVE  Elapsed(c) \in CA /\ Elapsed(c).key = c.key
<1>1. CALife \in Nat
  BY LifeAssumption
<1> QED
  BY <1>1 DEF CA, Elapsed

(* Time leaves a server certificate one, with its key and its signer.            *)
LEMMA ElapsedCertificate ==
    ASSUME NEW c \in Certificate
    PROVE  /\ Elapsed(c) \in Certificate
           /\ Elapsed(c).key = c.key /\ Elapsed(c).signer = c.signer
<1>1. TLSLife \in Nat
  BY LifeAssumption
<1> QED
  BY <1>1 DEF Certificate, Elapsed

(* Time keeps the type of a pair and the relation of its two certificates.       *)
LEMMA OneStepPair ==
    ASSUME NEW c \in Certificates
    PROVE  /\ OneStep(c) \in Certificates
           /\ OneStep(c).tls = Elapsed(c.tls) /\ OneStep(c).ca = Elapsed(c.ca)
           /\ Consistent(c) => Consistent(OneStep(c))
<1>1. c # None /\ c.ca \in CA /\ c.tls \in Certificate
  BY NoneAssumption DEF Certificates
<1>2. OneStep(c) = [ca |-> Elapsed(c.ca), tls |-> Elapsed(c.tls)]
  BY <1>1 DEF OneStep
<1>3. /\ Elapsed(c.ca) \in CA /\ Elapsed(c.ca).key = c.ca.key
      /\ Elapsed(c.tls) \in Certificate /\ Elapsed(c.tls).signer = c.tls.signer
  BY <1>1, ElapsedCA, ElapsedCertificate
<1> QED
  BY <1>1, <1>2, <1>3 DEF Certificates, Consistent

LEMMA OneStepOptional ==
    ASSUME NEW c \in Cert2
    PROVE  /\ OneStep(c) \in Cert2
           /\ OneStep(c) = None <=> c = None
           /\ Consistent(c) => Consistent(OneStep(c))
<1>1. CASE c = None
  BY <1>1 DEF OneStep, Cert2, Consistent
<1>2. CASE c \in Certificates
  BY <1>2, OneStepPair, NoneAssumption DEF Cert2
<1> QED
  BY <1>1, <1>2 DEF Cert2

(* ValidateCerts returns a pair whose certificates belong together.              *)
LEMMA ValidateCertsPair ==
    ASSUME NEW c \in Cert2, NEW i \in Key, NEW j \in Key
    PROVE  /\ ValidateCerts(c, i, j) \in Certificates
           /\ Consistent(c) => Consistent(ValidateCerts(c, i, j))
<1> DEFINE renewRoot == c = None \/ Expiring(c.ca)
           ca == IF renewRoot THEN NewCA(i) ELSE c.ca
           tls == IF renewRoot \/ Expiring(c.tls) THEN NewTLS(j, ca) ELSE c.tls
<1>1. ValidateCerts(c, i, j) = [ca |-> ca, tls |-> tls]
  BY DEF ValidateCerts
<1>2. c # None => c.ca \in CA /\ c.tls \in Certificate
  BY DEF Cert2, Certificates
<1>3. CALife \in 0 .. CALife /\ TLSLife \in 0 .. TLSLife
  BY LifeAssumption
<1>4. NewCA(i) \in CA
  BY <1>3 DEF NewCA, CA
<1>5. ca \in CA
  BY <1>2, <1>4
<1>6. ca.key \in Key
  BY <1>5 DEF CA
<1>7. NewTLS(j, ca) \in Certificate /\ NewTLS(j, ca).signer = ca.key
  <2> HIDE DEF ca
  <2> QED BY <1>3, <1>6 DEF NewTLS, Certificate
<1>8. tls \in Certificate
  BY <1>2, <1>7
<1>9. Consistent(c) => tls.signer = ca.key
  BY <1>2, <1>7 DEF Consistent
<1> QED
  <2> HIDE DEF ca, tls
  <2> QED BY <1>1, <1>5, <1>8, <1>9 DEF Certificates, Consistent

--------------------------------------------------------------------------------
(* The invariant *)

LEMMA InitInv == Init => Inv
BY LifeAssumption, FaultsAssumption
   DEF Init, Inv, TypeOK, CertsInv, FilesInv, Consistent

LEMMA TickInv == Inv /\ Tick => Inv'
<1> SUFFICES ASSUME Inv, Tick PROVE Inv'
  OBVIOUS
<1> USE DEF Inv
<1>1. /\ secret \in Cert2 /\ view \in Cert2 /\ read \in Cert2 /\ data \in Cert2
  BY DEF TypeOK, Cert2
<1>2. /\ secret' = OneStep(secret) /\ view' = OneStep(view)
      /\ read' = OneStep(read) /\ data' = OneStep(data)
      /\ bundle' = IF bundle = None THEN None ELSE Elapsed(bundle)
      /\ bundleView' = IF bundleView = None THEN None ELSE Elapsed(bundleView)
      /\ crtFile' = IF crtFile \in {None, Torn} THEN crtFile ELSE Elapsed(crtFile)
      /\ loaded' = IF loaded = None THEN None ELSE Elapsed(loaded)
      /\ due' = TRUE
      /\ UNCHANGED <<service, keyFile, pc, server, faults>>
  BY DEF Tick
<1>3. /\ secret' \in Cert2 /\ view' \in Cert2 /\ read' \in Cert2 /\ data' \in Cert2
      /\ Consistent(secret)' /\ Consistent(view)'
  <2>1. /\ secret' \in Cert2 /\ view' \in Cert2 /\ read' \in Cert2 /\ data' \in Cert2
    BY <1>1, <1>2, OneStepOptional
  <2>2. Consistent(OneStep(secret)) /\ Consistent(OneStep(view))
    BY <1>1, OneStepOptional DEF CertsInv
  <2> QED BY <1>2, <2>1, <2>2 DEF Consistent
<1>4. /\ bundle' \in CA \cup {None} /\ bundleView' \in CA \cup {None}
  <2>1. bundle \in CA \cup {None} /\ bundleView \in CA \cup {None}
    BY DEF TypeOK
  <2> QED BY <2>1, <1>2, ElapsedCA
<1>5. /\ crtFile' \in Certificate \cup {None, Torn}
      /\ loaded' \in Certificate \cup {None}
      /\ server' = "running" => loaded' \in Certificate
  <2>1. /\ crtFile \in Certificate \cup {None, Torn}
        /\ loaded \in Certificate \cup {None}
        /\ server = "running" => loaded \in Certificate
    BY DEF TypeOK
  <2> QED BY <2>1, <1>2, ElapsedCertificate, NoneAssumption
<1>6. ASSUME pc # "idle" PROVE /\ data' \in Certificates /\ Consistent(data)'
                               /\ data'.tls = Elapsed(data.tls)
                               /\ data.tls \in Certificate
  <2>1. data \in Certificates /\ Consistent(data)
    BY <1>6 DEF TypeOK, CertsInv
  <2>2. OneStep(data) \in Certificates /\ OneStep(data).tls = Elapsed(data.tls)
        /\ Consistent(OneStep(data))
    BY <2>1, OneStepPair
  <2> QED BY <1>2, <2>1, <2>2 DEF Certificates, Consistent
<1>7. TypeOK'
  BY <1>2, <1>3, <1>4, <1>5, <1>6 DEF TypeOK, Cert2
<1>8. CertsInv'
  BY <1>2, <1>3, <1>6 DEF CertsInv
<1>9. FilesInv'
  <2>1. pc \in {"key", "service", "config"} => crtFile' = Elapsed(data.tls)
    BY <1>2, <1>6, NoneAssumption DEF FilesInv
  <2>2. pc \in {"service", "config"} => keyFile' = Elapsed(data.tls).key
    BY <1>2, <1>6, ElapsedCertificate DEF FilesInv
  <2> QED BY <1>2, <1>6, <2>1, <2>2 DEF FilesInv
<1> QED
  BY <1>7, <1>8, <1>9

LEMMA ReadSecretInv == Inv /\ ReadSecret => Inv'
<1> SUFFICES ASSUME Inv, ReadSecret PROVE Inv'
  OBVIOUS
<1> USE DEF Inv
<1>1. PICK i \in Key, j \in Key :
          /\ read' = view
          /\ data' = ValidateCerts(view, i, j)
          /\ pc' = IF ValidateCerts(view, i, j) = view THEN "crt" ELSE "save"
  BY DEF ReadSecret, Lowest
<1>2. due' = FALSE /\ UNCHANGED <<cluster, files, webhook, faults>>
  BY DEF ReadSecret
<1>3. view \in Cert2 /\ Consistent(view)
  BY DEF TypeOK, CertsInv, Cert2
<1>4. ValidateCerts(view, i, j) \in Certificates /\ Consistent(ValidateCerts(view, i, j))
  BY <1>3, ValidateCertsPair
<1>5. TypeOK'
  BY <1>1, <1>2, <1>3, <1>4 DEF TypeOK, Cert2, cluster, files, webhook
<1>6. CertsInv'
  BY <1>1, <1>2, <1>4 DEF CertsInv, Consistent, cluster
<1>7. FilesInv'
  BY <1>1 DEF FilesInv
<1> QED
  BY <1>5, <1>6, <1>7

(* The end of a pass forgets what the pass relied on.                            *)
LEMMA EndOfPass ==
    ASSUME pc' = "idle", read' = None, data' = None,
           CertsInv, UNCHANGED <<secret, view>>
    PROVE  CertsInv' /\ FilesInv'
BY DEF CertsInv, FilesInv, Consistent

LEMMA SaveSecretInv == Inv /\ SaveSecret => Inv'
<1> SUFFICES ASSUME Inv, SaveSecret PROVE Inv'
  OBVIOUS
<1> USE DEF Inv
<1>1. data \in Certificates /\ Consistent(data) /\ pc = "save"
  BY DEF TypeOK, CertsInv, SaveSecret
<1>2. UNCHANGED <<bundle, bundleView, service, crtFile, keyFile, server, loaded, faults>>
  BY DEF SaveSecret, files, webhook
<1>3. /\ secret' \in Cert2 /\ view' \in Cert2
      /\ Consistent(secret)' /\ Consistent(view)'
  BY <1>1 DEF SaveSecret, TypeOK, CertsInv, Consistent, Cert2
<1>4. \/ pc' = "crt" /\ UNCHANGED <<due, read, data>>
      \/ pc' = "idle" /\ due' = TRUE /\ read' = None /\ data' = None
  BY DEF SaveSecret, Failed, Continue, Forget
<1>5. TypeOK'
  BY <1>2, <1>3, <1>4, <1>1 DEF TypeOK, Cert2
<1>6. CertsInv' /\ FilesInv'
  BY <1>1, <1>3, <1>4 DEF CertsInv, FilesInv, Consistent
<1> QED
  BY <1>5, <1>6

(* The steps of a pass after the secret is written: what they leave alone.       *)
Publish == WriteCrt \/ WriteKey \/ ReconcileService \/ ReconcileWebhookConfig

LEMMA PublishInv == Inv /\ Publish => Inv'
<1> SUFFICES ASSUME Inv, Publish PROVE Inv'
  OBVIOUS
<1> USE DEF Inv
<1>1. pc # "idle"
  BY DEF Publish, WriteCrt, WriteKey, ReconcileService, ReconcileWebhookConfig
<1>2. /\ data \in Certificates /\ data.tls \in Certificate /\ data.ca \in CA
      /\ data.tls.key \in Key /\ Consistent(data)
  BY <1>1 DEF TypeOK, CertsInv, Certificates, Certificate
<1>3. UNCHANGED <<secret, view, server, loaded, faults>>
  BY DEF Publish, WriteCrt, WriteKey, ReconcileService, ReconcileWebhookConfig,
         cluster, webhook
<1>4. \/ /\ pc' \in {"key", "service", "config"} /\ UNCHANGED <<due, read, data>>
      \/ /\ pc' = "idle" /\ due' \in {due, TRUE} /\ read' = None /\ data' = None
  BY DEF Publish, WriteCrt, WriteKey, ReconcileService, ReconcileWebhookConfig,
         Failed, Continue, Completed, Forget
<1>5. /\ crtFile' \in {crtFile, data.tls, Torn}
      /\ keyFile' \in {keyFile, data.tls.key, Torn}
      /\ bundle' \in {bundle, data.ca} /\ bundleView' \in {bundleView, data.ca}
      /\ service' \in {service, TRUE}
  BY DEF Publish, WriteCrt, WriteKey, ReconcileService, ReconcileWebhookConfig,
         cluster, files
<1>6. TypeOK'
  <2>1. service' \in BOOLEAN /\ due' \in BOOLEAN
    <3>1. service \in BOOLEAN /\ due \in BOOLEAN
      BY DEF TypeOK
    <3>2. service' \in BOOLEAN
      BY <3>1, <1>5
    <3>3. due' \in BOOLEAN
      BY <3>1, <1>4
    <3> QED BY <3>2, <3>3
  <2>2. /\ bundle' \in CA \cup {None} /\ bundleView' \in CA \cup {None}
        /\ crtFile' \in Certificate \cup {None, Torn}
        /\ keyFile' \in Key \cup {None, Torn}
    BY <1>2, <1>5 DEF TypeOK
  <2>3. /\ pc' \in {"idle", "save", "crt", "key", "service", "config"}
        /\ read' \in Certificates \cup {None} /\ data' \in Certificates \cup {None}
        /\ pc' # "idle" => data' \in Certificates
    BY <1>2, <1>4 DEF TypeOK
  <2> QED BY <1>3, <2>1, <2>2, <2>3 DEF TypeOK
<1>7. CertsInv'
  BY <1>1, <1>3, <1>4 DEF CertsInv, Consistent
<1>8. FilesInv'
  <2>1. CASE pc' = "idle"
    BY <2>1 DEF FilesInv
  <2>2. CASE pc' # "idle" /\ WriteCrt
    BY <2>2 DEF WriteCrt, Failed, Continue, FilesInv
  <2>3. CASE pc' # "idle" /\ WriteKey
    BY <2>3 DEF WriteKey, Failed, Continue, FilesInv
  <2>4. CASE pc' # "idle" /\ ReconcileService
    BY <2>4 DEF ReconcileService, Failed, Continue, FilesInv, files
  <2>5. CASE pc' # "idle" /\ ReconcileWebhookConfig
    BY <2>5 DEF ReconcileWebhookConfig, Failed, Completed
  <2> QED BY <2>1, <2>2, <2>3, <2>4, <2>5 DEF Publish
<1> QED
  BY <1>6, <1>7, <1>8

(* Everything that is not a step of a pass or of the clock.                      *)
Outside == \/ SecretDeleted \/ SecretSeen \/ BundleSeen \/ FaultsEnd
           \/ BootstrapperCrash \/ PodReplaced
           \/ StartWebhookServer \/ ManagerStarts \/ Reload

LEMMA OutsideInv == Inv /\ Outside => Inv'
<1> SUFFICES ASSUME Inv, Outside PROVE Inv'
  OBVIOUS
<1> USE DEF Inv
<1>1. CASE SecretDeleted
  <2>1. /\ secret' = None /\ view' \in {view, None} /\ faults' \subseteq faults
        /\ UNCHANGED <<bundle, bundleView, service, crtFile, keyFile, pc, due, read, data,
                       server, loaded>>
    BY <1>1 DEF SecretDeleted, files, pass, webhook
  <2> QED BY <2>1 DEF TypeOK, CertsInv, FilesInv, Consistent
<1>2. CASE SecretSeen
  <2>1. /\ view' = secret
        /\ UNCHANGED <<secret, bundle, bundleView, service, crtFile, keyFile, pc, due, read,
                       data, server, loaded, faults>>
    BY <1>2 DEF SecretSeen, files, pass, webhook
  <2> QED BY <2>1 DEF TypeOK, CertsInv, FilesInv, Consistent
<1>3. CASE BundleSeen
  <2>1. /\ bundleView' = bundle
        /\ UNCHANGED <<secret, view, bundle, service, crtFile, keyFile, pc, due, read,
                       data, server, loaded, faults>>
    BY <1>3 DEF BundleSeen, files, pass, webhook
  <2> QED BY <2>1 DEF TypeOK, CertsInv, FilesInv, Consistent
<1>4. CASE FaultsEnd
  <2>1. /\ faults' = {}
        /\ UNCHANGED <<secret, view, bundle, bundleView, service, crtFile, keyFile, pc, due,
                       read, data, server, loaded>>
    BY <1>4 DEF FaultsEnd, cluster, files, pass, webhook
  <2> QED BY <2>1 DEF TypeOK, CertsInv, FilesInv, Consistent
<1>5. CASE BootstrapperCrash \/ PodReplaced
  <2>1. /\ pc' = "idle" /\ due' = TRUE /\ read' = None /\ data' = None
        /\ UNCHANGED <<secret, view, bundle, bundleView, service, faults>>
        /\ crtFile' \in {crtFile, None} /\ keyFile' \in {keyFile, None}
        /\ \/ UNCHANGED <<server, loaded>>
           \/ server' = "waiting" /\ loaded' = None
    BY <1>5 DEF BootstrapperCrash, PodReplaced, Failed, Forget, cluster, files, webhook
  <2>2. CertsInv' /\ FilesInv'
    BY <2>1, EndOfPass
  <2> QED BY <2>1, <2>2 DEF TypeOK
<1>6. CASE StartWebhookServer \/ ManagerStarts \/ Reload
  <2>1. UNCHANGED <<secret, view, bundle, bundleView, service, crtFile, keyFile, pc, due,
                    read, data, faults>>
    BY <1>6 DEF StartWebhookServer, ManagerStarts, Reload, cluster, files, pass
  <2>2. PairAvailable => crtFile \in Certificate
    BY DEF PairAvailable, TypeOK
  <2>3. /\ server' \in {"waiting", "starting", "running"}
        /\ loaded' \in Certificate \cup {None}
        /\ server' = "running" => loaded' \in Certificate
    BY <1>6, <2>2 DEF StartWebhookServer, ManagerStarts, Reload, ReloadPending, TypeOK
  <2> QED BY <2>1, <2>3 DEF TypeOK, CertsInv, FilesInv, Consistent
<1> QED
  BY <1>1, <1>2, <1>3, <1>4, <1>5, <1>6 DEF Outside

LEMMA StutterInv == Inv /\ UNCHANGED vars => Inv'
BY DEF Inv, TypeOK, CertsInv, FilesInv, Consistent, vars, cluster, files, pass, webhook

LEMMA NextInv == Inv /\ [Next]_vars => Inv'
BY TickInv, ReadSecretInv, SaveSecretInv, PublishInv, OutsideInv, StutterInv
   DEF Next, Reconcile, Publish, Outside

LEMMA AlwaysInv == Spec => []Inv
BY InitInv, NextInv, PTL DEF Spec

--------------------------------------------------------------------------------
(* What a pass has reached, when the informers show what there is *)

Current == /\ view = secret /\ bundleView = bundle /\ "lag" \notin faults
           /\ pc \in {"crt", "key", "service", "config"} => secret \in {data, None}
           /\ pc = "config" => service

Reached == Current /\ PassesConverge

LEMMA InitReached == "lag" \notin Faults /\ Init => Reached
BY DEF Init, Reached, Current, PassesConverge

LEMMA NextReached == Inv /\ Reached /\ [Next]_vars => Reached'
<1> SUFFICES ASSUME Inv, Reached, [Next]_vars PROVE Reached'
  OBVIOUS
<1> USE DEF Reached
<1>1. CASE Tick
  <2>1. /\ secret' = OneStep(secret) /\ view' = OneStep(view) /\ data' = OneStep(data)
        /\ bundle' = IF bundle = None THEN None ELSE Elapsed(bundle)
        /\ bundleView' = IF bundleView = None THEN None ELSE Elapsed(bundleView)
        /\ due' = TRUE /\ UNCHANGED <<service, pc, faults>>
    BY <1>1 DEF Tick
  <2>2. secret \in {data, None} => secret' \in {data', None}
    BY <2>1 DEF OneStep
  <2> QED BY <2>1, <2>2 DEF Current, PassesConverge
<1>2. CASE ReadSecret
  <2>1. pc' \in {"crt", "save"} /\ (pc' = "crt" => data' = view)
    BY <1>2 DEF ReadSecret
  <2>2. UNCHANGED <<secret, view, bundle, bundleView, service, faults>>
    BY <1>2 DEF ReadSecret, cluster
  <2> QED BY <2>1, <2>2 DEF Current, PassesConverge
<1>3. CASE SaveSecret
  <2>1. UNCHANGED <<bundle, bundleView, service, faults>> /\ pc' \in {"crt", "idle"}
    BY <1>3 DEF SaveSecret, Failed, Continue
  <2>2. /\ view' = secret'
        /\ pc' = "crt" => secret' = data' 
        /\ pc' = "idle" => due' = TRUE
    BY <1>3 DEF SaveSecret, Failed, Continue, Current
  <2> QED BY <2>1, <2>2 DEF Current, PassesConverge
<1>4. CASE Publish
  <2>1. /\ UNCHANGED <<secret, view, faults>>
        /\ pc \in {"crt", "key", "service", "config"}
    BY <1>4 DEF Publish, WriteCrt, WriteKey, ReconcileService, ReconcileWebhookConfig, cluster
  <2>2. bundleView' = bundle'
    BY <1>4 DEF Publish, WriteCrt, WriteKey, ReconcileService, ReconcileWebhookConfig,
           cluster, Current
  <2>3. ASSUME pc' # "idle"
        PROVE  /\ data' = data /\ pc' \in {"key", "service", "config"}
               /\ pc' = "config" => service'
    BY <1>4, <2>3 DEF Publish, WriteCrt, WriteKey, ReconcileService, ReconcileWebhookConfig,
           Failed, Continue, Completed
  <2>4. Current'
    BY <2>1, <2>2, <2>3 DEF Current
  <2>5. CASE pc' = "idle" /\ ~due'
    <3>1. ReconcileWebhookConfig
      BY <1>4, <2>5 DEF Publish, WriteCrt, WriteKey, ReconcileService, Failed, Continue
    <3>2. /\ pc = "config" /\ bundle' = data.ca
          /\ UNCHANGED <<service, crtFile, keyFile>>
      BY <3>1, <2>5 DEF ReconcileWebhookConfig, Failed, UpToDate, Current, files
    <3>3. secret \in {data, None} /\ service /\ crtFile = data.tls /\ keyFile = data.tls.key
      BY <3>2 DEF Current, Inv, FilesInv
    <3> QED BY <2>1, <2>4, <3>2, <3>3 DEF PassesConverge
  <2> QED BY <2>4, <2>5 DEF PassesConverge
<1>5. CASE SecretDeleted
  <2>1. /\ secret' = None /\ view' = None /\ faults' \subseteq faults
        /\ UNCHANGED <<bundle, bundleView, service, pc, due, data>>
    BY <1>5 DEF SecretDeleted, pass, Current
  <2> QED BY <2>1 DEF Current, PassesConverge
<1>6. CASE SecretSeen \/ BundleSeen
  BY <1>6 DEF SecretSeen, BundleSeen, Current
<1>7. CASE FaultsEnd
  BY <1>7 DEF FaultsEnd, Current, PassesConverge, cluster, files, pass
<1>8. CASE BootstrapperCrash \/ PodReplaced
  BY <1>8 DEF BootstrapperCrash, PodReplaced, Failed, Current, PassesConverge, cluster
<1>9. CASE StartWebhookServer \/ ManagerStarts \/ Reload \/ UNCHANGED vars
  BY <1>9 DEF StartWebhookServer, ManagerStarts, Reload, Current, PassesConverge, vars,
         cluster, files, pass
<1> QED
  BY <1>1, <1>2, <1>3, <1>4, <1>5, <1>6, <1>7, <1>8, <1>9 DEF Next, Reconcile, Publish

--------------------------------------------------------------------------------
(* The theorems *)

(* Every variable keeps its type; in particular a server that runs has a         *)
(* certificate, and a pass that runs has certificates to publish.                *)
THEOREM TypeCorrect == Spec => []TypeOK
<1>1. Inv => TypeOK
  BY DEF Inv
<1> QED
  BY <1>1, AlwaysInv, PTL

(* ValidateCerts and the refusal of outdated writes keep the secret's server     *)
(* certificate signed by the secret's CA, whatever fails.                        *)
THEOREM SecretIsConsistent == Spec => []SecretConsistent
<1>1. Inv => SecretConsistent
  BY DEF Inv, CertsInv, Consistent, SecretConsistent
<1> QED
  BY <1>1, AlwaysInv, PTL

(* The order of Reconcile, files before webhook configuration, and its early     *)
(* returns keep the CA bundle from getting ahead of the files.                   *)
THEOREM BundleFollows == Spec => BundleFollowsFiles
<1> DEFINE Renewed == bundle' # bundle /\ (bundle = None \/ bundle'.key # bundle.key)
<1>1. Inv /\ [Next]_vars /\ Renewed => ReconcileWebhookConfig
  <2> SUFFICES ASSUME Inv, [Next]_vars, Renewed, ~ReconcileWebhookConfig PROVE FALSE
    OBVIOUS
  <2>1. CASE Tick
    <3>1. bundle \in CA \cup {None}
      BY DEF Inv, TypeOK
    <3>2. bundle' = IF bundle = None THEN None ELSE Elapsed(bundle)
      BY <2>1 DEF Tick
    <3> QED BY <3>1, <3>2, ElapsedCA
  <2>2. CASE ~Tick
    BY <2>2 DEF Next, Reconcile, vars, ReadSecret, SaveSecret, WriteCrt, WriteKey,
        ReconcileService, SecretDeleted, SecretSeen, BundleSeen, FaultsEnd, BootstrapperCrash,
        PodReplaced, StartWebhookServer, ManagerStarts, Reload, cluster
  <2> QED BY <2>1, <2>2
<1>2. Inv /\ ReconcileWebhookConfig /\ Renewed =>
          PairAvailable /\ crtFile.signer = bundle'.key
  <2> SUFFICES ASSUME Inv, ReconcileWebhookConfig, Renewed
               PROVE  PairAvailable /\ crtFile.signer = bundle'.key
    OBVIOUS
  <2>1. pc = "config" /\ bundle' = data.ca
    BY DEF ReconcileWebhookConfig
  <2>2. /\ crtFile = data.tls /\ keyFile = data.tls.key
        /\ data \in Certificates /\ Consistent(data)
    BY <2>1 DEF Inv, FilesInv, CertsInv, TypeOK
  <2>3. data.tls \in Certificate /\ data # None
    BY <2>2, NoneAssumption DEF Certificates
  <2> QED BY <2>1, <2>2, <2>3, NoneAssumption DEF PairAvailable, Consistent
<1>3. Inv /\ [Next]_vars => [Renewed => PairAvailable /\ crtFile.signer = bundle'.key]_vars
  BY <1>1, <1>2
<1> QED
  BY <1>3, AlwaysInv, PTL DEF Spec, BundleFollowsFiles

--------------------------------------------------------------------------------
(* Renewals *)

(* What differs between old and new was due for renewal in old.                  *)
Due(old, new) ==
    old # None =>
        /\ new.ca.key # old.ca.key => old.ca.left < Threshold
        /\ new.tls.key # old.tls.key => old.ca.left < Threshold \/ old.tls.left < Threshold

(* The pass is about to write a renewal of the copy it has read.                 *)
RenewalInv == pc = "save" => Due(read, data)

LEMMA ElapsedIsDue ==
    ASSUME NEW c \in CA \cup Certificate, c.left < Threshold
    PROVE  Elapsed(c).left < Threshold
BY LifeAssumption DEF CA, Certificate, Elapsed

LEMMA DueLater ==
    ASSUME NEW old \in Cert2, NEW new \in Certificates, Due(old, new)
    PROVE  Due(OneStep(old), OneStep(new))
<1>1. CASE old = None
  BY <1>1 DEF Due, OneStep
<1>2. CASE old \in Certificates
  <2>1. old # None /\ old.ca \in CA /\ old.tls \in Certificate /\ new.ca \in CA /\ new.tls \in Certificate
    BY <1>2, NoneAssumption DEF Certificates
  <2>2. /\ OneStep(old).ca = Elapsed(old.ca) /\ OneStep(old).tls = Elapsed(old.tls)
        /\ OneStep(new).ca = Elapsed(new.ca) /\ OneStep(new).tls = Elapsed(new.tls)
    BY <1>2, OneStepPair
  <2>3. /\ Elapsed(old.ca).key = old.ca.key /\ Elapsed(old.tls).key = old.tls.key
        /\ Elapsed(new.ca).key = new.ca.key /\ Elapsed(new.tls).key = new.tls.key
    BY <2>1, ElapsedCA, ElapsedCertificate
  <2>4. /\ old.ca.left < Threshold => Elapsed(old.ca).left < Threshold
        /\ old.tls.left < Threshold => Elapsed(old.tls).left < Threshold
    BY <2>1, ElapsedIsDue
  <2> QED BY <2>1, <2>2, <2>3, <2>4 DEF Due
<1> QED
  BY <1>1, <1>2 DEF Cert2

LEMMA ValidateCertsIsDue ==
    ASSUME NEW c \in Cert2, NEW i \in Key, NEW j \in Key
    PROVE  Due(c, ValidateCerts(c, i, j))
<1> SUFFICES ASSUME c # None PROVE Due(c, ValidateCerts(c, i, j))
  BY DEF Due
<1>1. ~Expiring(c.ca) => ValidateCerts(c, i, j).ca = c.ca
  BY DEF ValidateCerts
<1>2. ~Expiring(c.ca) /\ ~Expiring(c.tls) => ValidateCerts(c, i, j).tls = c.tls
  BY DEF ValidateCerts
<1> QED
  BY <1>1, <1>2 DEF Due, Expiring

LEMMA RenewalStep == Inv /\ RenewalInv /\ [Next]_vars => RenewalInv'
<1> SUFFICES ASSUME Inv, RenewalInv, [Next]_vars, pc' = "save" PROVE Due(read, data)'
  BY DEF RenewalInv
<1>1. CASE Tick
  <2>1. pc = "save" /\ read' = OneStep(read) /\ data' = OneStep(data)
    BY <1>1 DEF Tick
  <2>2. read \in Cert2 /\ data \in Certificates /\ Due(read, data)
    BY <2>1 DEF Inv, TypeOK, Cert2, RenewalInv
  <2>3. Due(OneStep(read), OneStep(data))
    BY <2>2, DueLater
  <2> QED BY <2>1, <2>3 DEF Due
<1>2. CASE ReadSecret
  <2>1. PICK i \in Key, j \in Key : read' = view /\ data' = ValidateCerts(view, i, j)
    BY <1>2 DEF ReadSecret, Lowest
  <2>2. Due(view, ValidateCerts(view, i, j))
    BY ValidateCertsIsDue DEF Inv, TypeOK, Cert2
  <2> QED BY <2>1, <2>2 DEF Due
<1>3. CASE ~Tick /\ ~ReadSecret
  <2>1. pc = "save" /\ UNCHANGED <<read, data>>
    BY <1>3 DEF Next, Reconcile, vars, pass, SaveSecret, WriteCrt, WriteKey, ReconcileService,
        ReconcileWebhookConfig, Continue, Completed, Failed, SecretDeleted, SecretSeen, BundleSeen,
        FaultsEnd, BootstrapperCrash, PodReplaced, StartWebhookServer, ManagerStarts, Reload
  <2> QED BY <2>1 DEF RenewalInv, Due
<1> QED
  BY <1>1, <1>2, <1>3

(* An outdated copy is never saved, and one that is up to date is only changed   *)
(* where it is due: whatever fails, and however far the informers lag behind,    *)
(* good certificates are not replaced.                                           *)
THEOREM RenewsOnlyWhatIsDue == Spec => RenewedOnlyWhenDue
<1> DEFINE Renewal == secret # None /\ secret' # None =>
         /\ Replaced(secret.ca, secret'.ca) => secret.ca.left < Threshold
         /\ Replaced(secret.tls, secret'.tls) =>
               secret.ca.left < Threshold \/ secret.tls.left < Threshold
<1>1. Inv /\ RenewalInv /\ SaveSecret => Renewal
  BY DEF SaveSecret, Accepted, RenewalInv, Due, Replaced
<1>2. Inv /\ Tick => Renewal
  <2> SUFFICES ASSUME Inv, Tick, secret # None PROVE Renewal
    OBVIOUS
  <2>1. secret \in Certificates /\ secret' = OneStep(secret)
    BY DEF Inv, TypeOK, Tick
  <2>2. secret.ca \in CA /\ secret.tls \in Certificate
    BY <2>1 DEF Certificates
  <2>3. secret'.ca.key = secret.ca.key /\ secret'.tls.key = secret.tls.key
    BY <2>1, <2>2, OneStepPair, ElapsedCA, ElapsedCertificate
  <2> QED BY <2>3 DEF Replaced
<1>3. [Next]_vars /\ ~SaveSecret /\ ~Tick => secret' \in {secret, None}
  BY DEF Next, Reconcile, vars, cluster, ReadSecret, WriteCrt, WriteKey, ReconcileService,
      ReconcileWebhookConfig, SecretDeleted, SecretSeen, BundleSeen, FaultsEnd,
      BootstrapperCrash, PodReplaced, StartWebhookServer, ManagerStarts, Reload
<1>4. secret' \in {secret, None} => Renewal
  BY DEF Replaced
<1>5. Inv /\ RenewalInv /\ [Next]_vars => [Renewal]_vars
  BY <1>1, <1>2, <1>3, <1>4
<1>6. Init => RenewalInv
  BY DEF Init, RenewalInv
<1> QED
  BY <1>5, <1>6, RenewalStep, AlwaysInv, PTL DEF Spec, RenewedOnlyWhenDue

--------------------------------------------------------------------------------
(* The certificates are handed over in order *)

(* What ValidateCerts renews.                                                    *)
IsDue(c) == c = None \/ Expiring(c.ca) \/ Expiring(c.tls)
NewKey(old, new) == old # None => new.tls.key # old.tls.key
Publishing == pc \in {"crt", "key", "service", "config"}

(* An informer that lags shows a copy that is due, since the secret was replaced *)
(* only for that; so a pass that starts from it has something to save, and that  *)
(* is refused.  A pass that publishes does so with the pair of the secret.       *)
HandInv ==
    /\ "deleted" \notin faults
    /\ view # secret => IsDue(view)
    /\ pc = "save" => IsDue(read) /\ NewKey(read, data)
    /\ Publishing => data = secret

LEMMA DueLasts ==
    ASSUME NEW c \in Cert2, IsDue(c)
    PROVE  IsDue(OneStep(c))
<1>1. CASE c = None
  BY <1>1 DEF IsDue, OneStep
<1>2. CASE c # None
  <2>1. c \in Certificates /\ c.ca \in CA /\ c.tls \in Certificate
    BY <1>2 DEF Cert2, Certificates
  <2>2. OneStep(c).tls = Elapsed(c.tls) /\ OneStep(c).ca = Elapsed(c.ca)
    BY <2>1, OneStepPair
  <2>3. /\ Expiring(c.ca) => Expiring(Elapsed(c.ca))
        /\ Expiring(c.tls) => Expiring(Elapsed(c.tls))
    BY <2>1, ElapsedIsDue DEF Expiring
  <2> QED BY <1>2, <2>2, <2>3 DEF IsDue
<1> QED
  BY <1>1, <1>2

LEMMA NewKeyLasts ==
    ASSUME NEW old \in Cert2, NEW new \in Certificates, NewKey(old, new)
    PROVE  NewKey(OneStep(old), OneStep(new))
<1>1. CASE old = None
  BY <1>1 DEF NewKey, OneStep
<1>2. CASE old # None
  <2>1. old \in Certificates /\ old.tls \in Certificate /\ new.tls \in Certificate
    BY <1>2 DEF Cert2, Certificates
  <2>2. OneStep(old).tls.key = old.tls.key /\ OneStep(new).tls.key = new.tls.key
    BY <2>1, OneStepPair, ElapsedCertificate
  <2> QED BY <1>2, <2>2 DEF NewKey
<1> QED
  BY <1>1, <1>2

(* ValidateCerts leaves a pair alone exactly if nothing is due; what it renews   *)
(* comes with a new key for the server.                                          *)
LEMMA ValidateCertsRenews ==
    ASSUME NEW c \in Cert2, NEW i \in Key, NEW j \in Key, j \notin KeysOf(c)
    PROVE  /\ ValidateCerts(c, i, j) = c => ~IsDue(c)
           /\ ValidateCerts(c, i, j) # c => IsDue(c) /\ NewKey(c, ValidateCerts(c, i, j))
<1>1. CASE c = None
  <2>1. ValidateCerts(c, i, j) \in Certificates
    BY ValidateCertsPair
  <2>2. ValidateCerts(c, i, j) # c
    BY <1>1, <2>1, NoneAssumption
  <2> QED BY <1>1, <2>2 DEF IsDue, NewKey
<1>2. CASE c # None
  <2>1. c \in Certificates /\ j # c.tls.key
    BY <1>2 DEF Cert2, KeysOf
  <2>2. CASE IsDue(c)
    <3>1. ValidateCerts(c, i, j).tls.key = j
      BY <1>2, <2>2 DEF ValidateCerts, IsDue, NewTLS
    <3> QED BY <2>1, <2>2, <3>1 DEF NewKey
  <2>3. CASE ~IsDue(c)
    <3>1. ValidateCerts(c, i, j) = [ca |-> c.ca, tls |-> c.tls]
      BY <1>2, <2>3 DEF ValidateCerts, IsDue
    <3>2. ValidateCerts(c, i, j) = c
      BY <2>1, <3>1 DEF Certificates
    <3> QED BY <2>3, <3>2
  <2> QED BY <2>2, <2>3
<1> QED
  BY <1>1, <1>2

LEMMA HandInit == "deleted" \notin Faults /\ Init => HandInv
BY DEF Init, HandInv, Publishing

LEMMA HandStep == Inv /\ HandInv /\ [Next]_vars => HandInv'
<1> SUFFICES ASSUME Inv, HandInv, [Next]_vars PROVE HandInv'
  OBVIOUS
<1>1. CASE Tick
  <2>1. /\ secret' = OneStep(secret) /\ view' = OneStep(view)
        /\ read' = OneStep(read) /\ data' = OneStep(data)
        /\ UNCHANGED <<pc, faults>>
    BY <1>1 DEF Tick
  <2>2. view \in Cert2 /\ read \in Cert2 /\ (pc # "idle" => data \in Certificates)
    BY DEF Inv, TypeOK, Cert2
  <2>3. view' # secret' => IsDue(view)'
    <3>1. view' # secret' => IsDue(view)
      BY <2>1 DEF HandInv
    <3> QED BY <2>1, <2>2, <3>1, DueLasts DEF IsDue, Expiring
  <2>4. pc' = "save" => IsDue(read)' /\ NewKey(read, data)'
    <3> SUFFICES ASSUME pc = "save" PROVE IsDue(OneStep(read)) /\ NewKey(OneStep(read), OneStep(data))
      BY <2>1 DEF IsDue, Expiring, NewKey
    <3> QED BY <2>2, DueLasts, NewKeyLasts DEF HandInv
  <2>5. Publishing' => data' = secret'
    BY <2>1 DEF HandInv, Publishing
  <2> QED BY <2>1, <2>3, <2>4, <2>5 DEF HandInv
<1>2. CASE ReadSecret
  <2>1. PICK i \in Key, j \in Key \ InUse :
          /\ read' = view /\ data' = ValidateCerts(view, i, j)
          /\ pc' = IF ValidateCerts(view, i, j) = view THEN "crt" ELSE "save"
    BY <1>2 DEF ReadSecret, Lowest
  <2>2. view \in Cert2 /\ j \notin KeysOf(view) /\ UNCHANGED <<secret, view, faults>>
    BY <1>2, <2>1 DEF Inv, TypeOK, Cert2, InUse, ReadSecret, cluster
  <2>3. /\ ValidateCerts(view, i, j) = view => ~IsDue(view)
        /\ ValidateCerts(view, i, j) # view => IsDue(view) /\ NewKey(view, ValidateCerts(view, i, j))
    BY <2>1, <2>2, ValidateCertsRenews
  <2>4. CASE ValidateCerts(view, i, j) = view
    <3>1. view = secret /\ pc' = "crt" /\ data' = secret'
      BY <2>1, <2>2, <2>3, <2>4 DEF HandInv
    <3> QED BY <2>2, <3>1 DEF HandInv, Publishing
  <2>5. CASE ValidateCerts(view, i, j) # view
    <3>1. pc' = "save" /\ IsDue(read)' /\ NewKey(read, data)'
      BY <2>1, <2>3, <2>5 DEF IsDue, Expiring, NewKey
    <3> QED BY <2>2, <3>1 DEF HandInv, Publishing, IsDue, Expiring
  <2> QED BY <2>4, <2>5
<1>3. CASE SaveSecret
  <2>1. pc = "save" /\ UNCHANGED faults /\ IsDue(read)
    BY <1>3 DEF SaveSecret, HandInv
  <2>2. pc' \in {"crt", "idle"} /\ (pc' = "crt" => data' = secret')
    BY <1>3 DEF SaveSecret, Failed, Continue
  <2>3. CASE view' = view
    <3>1. view' # secret' => IsDue(view)
      BY <1>3, <2>1, <2>3 DEF SaveSecret, Accepted, HandInv
    <3> QED BY <2>1, <2>2, <2>3, <3>1 DEF HandInv, Publishing, IsDue, Expiring
  <2>4. CASE view' = secret'
    BY <2>1, <2>2, <2>4 DEF HandInv, Publishing
  <2> QED BY <1>3, <2>3, <2>4 DEF SaveSecret
<1>4. CASE Publish \/ BootstrapperCrash \/ PodReplaced
  <2>1. /\ UNCHANGED <<secret, view, faults>>
        /\ pc' = "idle" \/ (Publishing /\ Publishing' /\ data' = data)
    BY <1>4 DEF Publish, WriteCrt, WriteKey, ReconcileService, ReconcileWebhookConfig, cluster,
           BootstrapperCrash, PodReplaced, Failed, Continue, Completed, Publishing
  <2>2. view' # secret' => IsDue(view)'
    BY <2>1 DEF HandInv, IsDue, Expiring
  <2>3. Publishing' => data' = secret'
    BY <2>1 DEF HandInv, Publishing
  <2>4. pc' # "save"
    BY <2>1 DEF Publishing
  <2> QED BY <2>1, <2>2, <2>3, <2>4 DEF HandInv
<1>5. CASE SecretSeen
  BY <1>5 DEF SecretSeen, HandInv, Publishing, NewKey, IsDue, Expiring, pass
<1>6. CASE BundleSeen \/ FaultsEnd \/ StartWebhookServer \/ ManagerStarts \/ Reload \/ UNCHANGED vars
  <2>1. UNCHANGED <<secret, view, pass>> /\ faults' \subseteq faults
    BY <1>6 DEF BundleSeen, FaultsEnd, StartWebhookServer, ManagerStarts, Reload, vars, cluster
  <2> QED BY <2>1 DEF HandInv, Publishing, NewKey, IsDue, Expiring, pass
<1>7. CASE SecretDeleted
  BY <1>7 DEF SecretDeleted, HandInv
<1> QED
  BY <1>1, <1>2, <1>3, <1>4, <1>5, <1>6, <1>7 DEF Next, Reconcile, Publish

(* The pairs of CertificateHandover are told from what stands for none.          *)
LEMMA NamedPair ==
    ASSUME NEW root \in Key, NEW key \in Key
    PROVE  Named(root, key) \in Handover!Pair /\ Named(root, key) # None
BY PairAssumption DEF Named, Handover!Pair

LEMMA HandTypes ==
    ASSUME Inv
    PROVE  /\ secret # None => secret.ca.key \in Key /\ secret.tls.key \in Key /\ Kept \in Handover!Pair
           /\ Kept = None <=> secret = None
           /\ Offered = None <=> ~PairAvailable
<1>1. secret # None => secret.ca \in CA /\ secret.tls \in Certificate
  BY DEF Inv, TypeOK, Certificates
<1>2. secret # None => secret.ca.key \in Key /\ secret.tls.key \in Key
  BY <1>1 DEF CA, Certificate
<1>3. PairAvailable => crtFile \in Certificate
  BY DEF PairAvailable, Inv, TypeOK
<1>4. PairAvailable => crtFile.key \in Key /\ crtFile.signer \in Key
  BY <1>3 DEF Certificate
<1> QED
  BY <1>2, <1>4, NamedPair DEF Kept, Offered

(* The files with the pair of the secret are an offer of what is kept.           *)
LEMMA OfferIsKept ==
    ASSUME Inv, secret # None, crtFile = secret.tls, keyFile = secret.tls.key
    PROVE  Offered = Kept
<1>1. secret.tls \in Certificate /\ secret.tls.signer = secret.ca.key
  BY DEF Inv, TypeOK, Certificates, CertsInv, Consistent
<1>2. PairAvailable
  BY <1>1, NoneAssumption DEF PairAvailable
<1> QED
  BY <1>1, <1>2 DEF Offered, Kept, Named

(* Time changes no key.                                                          *)
LEMMA TickHand == Inv /\ Tick => UNCHANGED Handover!vars
<1> SUFFICES ASSUME Inv, Tick PROVE UNCHANGED <<Kept, Offered, Served, TrustedCA>>
  BY DEF Handover!vars
<1>1. /\ secret \in Cert2 /\ secret' = OneStep(secret)
      /\ bundle \in CA \cup {None} /\ bundle' = IF bundle = None THEN None ELSE Elapsed(bundle)
      /\ loaded \in Certificate \cup {None} /\ loaded' = IF loaded = None THEN None ELSE Elapsed(loaded)
      /\ crtFile \in Certificate \cup {None, Torn} /\ UNCHANGED keyFile
      /\ crtFile' = IF crtFile \in {None, Torn} THEN crtFile ELSE Elapsed(crtFile)
  BY DEF Inv, TypeOK, Cert2, Tick
<1>2. \A c \in Certificate : /\ Elapsed(c) \in Certificate /\ c \notin {None, Torn}
                             /\ Elapsed(c).key = c.key /\ Elapsed(c).signer = c.signer
  BY ElapsedCertificate, NoneAssumption
<1>3. Kept' = Kept
  <2>1. CASE secret = None
    BY <1>1, <2>1 DEF Kept, OneStep
  <2>2. CASE secret # None
    <3>1. secret \in Certificates /\ secret.ca \in CA /\ secret.tls \in Certificate
      BY <1>1, <2>2 DEF Cert2, Certificates
    <3>2. secret'.ca.key = secret.ca.key /\ secret'.tls.key = secret.tls.key
      BY <1>1, <3>1, OneStepPair, ElapsedCA, ElapsedCertificate
    <3>3. secret' # None
      BY <1>1, <2>2, OneStepOptional
    <3> QED BY <2>2, <3>2, <3>3 DEF Kept
  <2> QED BY <2>1, <2>2
<1>4. Offered' = Offered
  <2>1. CASE crtFile \in {None, Torn}
    BY <1>1, <2>1 DEF Offered, PairAvailable
  <2>2. CASE crtFile \in Certificate
    <3>1. crtFile' = Elapsed(crtFile)
      BY <1>1, <1>2, <2>2
    <3>2. PairAvailable' = PairAvailable
      BY <1>1, <1>2, <2>2, <3>1 DEF PairAvailable
    <3> QED BY <1>2, <2>2, <3>1, <3>2 DEF Offered
  <2> QED BY <1>1, <2>1, <2>2
<1>5. Served' = Served
  BY <1>1, <1>2 DEF Served
<1>6. TrustedCA' = TrustedCA
  <2>1. bundle # None => Elapsed(bundle) # None /\ Elapsed(bundle).key = bundle.key
    BY <1>1, ElapsedCA, NoneAssumption
  <2> QED BY <1>1, <2>1 DEF TrustedCA
<1> QED
  BY <1>3, <1>4, <1>5, <1>6

(* What is saved is a renewal of what was there.                                 *)
LEMMA SaveHand == Inv /\ HandInv /\ SaveSecret => [Handover!Renew]_(Handover!vars)
<1> SUFFICES ASSUME Inv, HandInv, SaveSecret PROVE Handover!Renew \/ UNCHANGED Handover!vars
  OBVIOUS
<1>1. UNCHANGED <<bundle, crtFile, keyFile, loaded>>
  BY DEF SaveSecret, files, webhook
<1>2. UNCHANGED <<Offered, Served, TrustedCA>>
  BY <1>1 DEF Offered, PairAvailable, Served, TrustedCA
<1>3. CASE secret' = secret
  BY <1>2, <1>3 DEF Kept, Handover!vars
<1>4. CASE Accepted /\ secret' = data
  <2>1. pc = "save" /\ data \in Certificates /\ NewKey(secret, data)
    BY <1>4 DEF SaveSecret, Accepted, HandInv, Inv, TypeOK
  <2>2. data # None /\ data.ca \in CA /\ data.tls \in Certificate
    BY <2>1, NoneAssumption DEF Certificates
  <2>3. data.ca.key \in Key /\ data.tls.key \in Key
    BY <2>2 DEF CA, Certificate
  <2>4. Kept' = Named(data.ca.key, data.tls.key)
    BY <1>4, <2>2 DEF Kept
  <2>5. Kept' \in Handover!Pair
    BY <2>3, <2>4, NamedPair
  <2>6. Kept # None => Kept'.key # Kept.key
    BY <2>1, <2>4, HandTypes DEF Kept, Named, NewKey
  <2> QED BY <1>2, <2>5, <2>6 DEF Handover!Renew
<1> QED
  BY <1>3, <1>4 DEF SaveSecret

(* Writing a file withdraws the offer or makes it, never another one.            *)
LEMMA FilesHand ==
    Inv /\ HandInv /\ (WriteCrt \/ WriteKey)
      => Handover!Withdraw \/ Handover!Offer \/ UNCHANGED Handover!vars
<1> SUFFICES ASSUME Inv, HandInv, WriteCrt \/ WriteKey
             PROVE  Handover!Withdraw \/ Handover!Offer \/ UNCHANGED Handover!vars
  OBVIOUS
<1>1. /\ UNCHANGED <<secret, bundle, loaded>> /\ pc \in {"crt", "key"}
      /\ data = secret /\ secret \in Certificates
  BY DEF WriteCrt, WriteKey, cluster, webhook, HandInv, Publishing, Inv, TypeOK
<1>2. UNCHANGED <<Kept, Served, TrustedCA>> /\ secret # None /\ secret.tls \in Certificate
  BY <1>1, NoneAssumption DEF Kept, Served, TrustedCA, Certificates
<1>3. secret.tls.signer = secret.ca.key
  BY <1>2 DEF Inv, CertsInv, Consistent
<1>4. Kept # None /\ Kept = Named(secret.tls.signer, secret.tls.key)
  BY <1>2, <1>3, HandTypes DEF Kept
<1>5. CASE crtFile' = secret.tls /\ PairAvailable'
  <2>1. Offered' = Kept
    BY <1>4, <1>5 DEF Offered
  <2> QED BY <1>2, <1>4, <2>1 DEF Handover!Offer
<1>6. CASE ~PairAvailable'
  <2>1. Offered' = None
    BY <1>6 DEF Offered
  <2> QED BY <1>2, <2>1 DEF Handover!Withdraw
<1>7. CASE UNCHANGED <<crtFile, keyFile>>
  BY <1>2, <1>7 DEF Offered, PairAvailable, Handover!vars
<1>8. \/ crtFile' = secret.tls \/ crtFile' = Torn \/ UNCHANGED <<crtFile, keyFile>>
  BY <1>1 DEF WriteCrt, WriteKey, Inv, FilesInv
<1>9. crtFile' = Torn => ~PairAvailable'
  BY DEF PairAvailable
<1> QED
  BY <1>5, <1>6, <1>7, <1>8, <1>9

(* The bundle changes when the pair of the secret is in the files.               *)
LEMMA ConfigHand ==
    Inv /\ HandInv /\ ReconcileWebhookConfig => Handover!Trust \/ UNCHANGED Handover!vars
<1> SUFFICES ASSUME Inv, HandInv, ReconcileWebhookConfig
             PROVE  Handover!Trust \/ UNCHANGED Handover!vars
  OBVIOUS
<1>1. /\ UNCHANGED <<secret, crtFile, keyFile, loaded>> /\ pc = "config"
      /\ data = secret /\ secret \in Certificates
  BY DEF ReconcileWebhookConfig, files, webhook, HandInv, Publishing, Inv, TypeOK
<1>2. UNCHANGED <<Kept, Offered, Served>>
  BY <1>1 DEF Kept, Offered, PairAvailable, Served
<1>3. crtFile = secret.tls /\ keyFile = secret.tls.key /\ secret # None
  BY <1>1, NoneAssumption DEF Inv, FilesInv
<1>4. Offered = Kept /\ Kept # None
  BY <1>3, OfferIsKept, HandTypes
<1>5. CASE bundle' = bundle
  BY <1>2, <1>5 DEF TrustedCA, Handover!vars
<1>6. CASE bundle' = data.ca
  <2>1. secret.ca \in CA /\ secret.ca # None
    BY <1>1, NoneAssumption DEF Certificates
  <2>2. TrustedCA' = Kept.root
    BY <1>1, <1>3, <1>6, <2>1 DEF TrustedCA, Kept, Named
  <2> QED BY <1>2, <1>4, <2>2 DEF Handover!Trust
<1> QED
  BY <1>5, <1>6 DEF ReconcileWebhookConfig

(* The server takes what is offered, or goes.                                    *)
LEMMA ServerHand ==
    Inv /\ (ManagerStarts \/ Reload \/ PodReplaced)
      => Handover!Serve \/ Handover!Stop
<1> SUFFICES ASSUME Inv, ManagerStarts \/ Reload \/ PodReplaced
             PROVE  Handover!Serve \/ Handover!Stop
  OBVIOUS
<1>1. UNCHANGED <<secret, bundle>>
  BY DEF ManagerStarts, Reload, PodReplaced, cluster
<1>2. UNCHANGED <<Kept, TrustedCA>>
  BY <1>1 DEF Kept, TrustedCA
<1>3. CASE PairAvailable /\ loaded' = crtFile /\ UNCHANGED <<crtFile, keyFile>>
  <2>1. Offered' = Offered /\ Offered # None
    BY <1>3, HandTypes DEF Offered, PairAvailable
  <2>2. Served' = Offered
    BY <1>3 DEF Served, Offered, PairAvailable
  <2> QED BY <1>2, <2>1, <2>2 DEF Handover!Serve
<1>4. CASE loaded' = None /\ (UNCHANGED <<crtFile, keyFile>> \/ crtFile' = None)
  <2>1. Served' = None /\ Offered' \in {Offered, None}
    BY <1>4 DEF Served, Offered, PairAvailable
  <2> QED BY <1>2, <2>1 DEF Handover!Stop
<1> QED
  BY <1>3, <1>4 DEF ManagerStarts, Reload, ReloadPending, PodReplaced, files

LEMMA HandoverStep == Inv /\ HandInv /\ [Next]_vars => [Handover!Next]_(Handover!vars)
<1> SUFFICES ASSUME Inv, HandInv, [Next]_vars PROVE Handover!Next \/ UNCHANGED Handover!vars
  OBVIOUS
<1>1. CASE Tick
  BY <1>1, TickHand
<1>2. CASE SaveSecret
  BY <1>2, SaveHand DEF Handover!Next
<1>3. CASE WriteCrt \/ WriteKey
  BY <1>3, FilesHand DEF Handover!Next
<1>4. CASE ReconcileWebhookConfig
  BY <1>4, ConfigHand DEF Handover!Next
<1>5. CASE ManagerStarts \/ Reload \/ PodReplaced
  BY <1>5, ServerHand DEF Handover!Next
<1>6. CASE \/ ReadSecret \/ ReconcileService \/ SecretSeen \/ BundleSeen \/ FaultsEnd
           \/ BootstrapperCrash \/ StartWebhookServer \/ UNCHANGED vars
  <2>1. UNCHANGED <<secret, bundle, crtFile, keyFile, loaded>>
    BY <1>6 DEF ReadSecret, ReconcileService, SecretSeen, BundleSeen, FaultsEnd, BootstrapperCrash,
           StartWebhookServer, vars, cluster, files, webhook
  <2> QED BY <2>1 DEF Handover!vars, Kept, Offered, PairAvailable, Served, TrustedCA
<1>7. CASE SecretDeleted
  BY <1>7 DEF SecretDeleted, HandInv
<1> QED
  BY <1>1, <1>2, <1>3, <1>4, <1>5, <1>6, <1>7 DEF Next, Reconcile

(* As long as nobody deletes the secret, the bootstrapper implements             *)
(* CertificateHandover, whatever else fails: calls, file writes, restarts, lost  *)
(* answers, informers that lag.  Files that form a pair are, from the moment     *)
(* they are written, the pair of the secret, and the API server's trust changes  *)
(* only to the CA of that pair while the server can load it.                     *)
THEOREM CertificatesAreHandedOver ==
    ASSUME "deleted" \notin Faults
    PROVE  Spec => HandedOverInOrder
<1>1. Init => Handover!Init
  BY DEF Init, Handover!Init, Kept, Offered, PairAvailable, Served, TrustedCA
<1>2. Init => HandInv
  BY HandInit
<1> QED
  BY <1>1, <1>2, HandStep, HandoverStep, AlwaysInv, PTL DEF Spec, HandedOverInOrder, Handover!Spec

--------------------------------------------------------------------------------
(* What a pass has reached, when the informers lag but the secret stays          *)

(* A CA has the key of another CA only if it is the same: the CA the API server  *)
(* trusts, and an outdated copy of it, against that of the secret.               *)
OtherCA(b) == b # None /\ secret # None => b.key # secret.ca.key
BundleInv ==
    /\ bundle = bundleView \/ OtherCA(bundleView)
    /\ (secret # None /\ bundle = secret.ca) \/ OtherCA(bundle)

(* The CA the pass is about to save is the one it has read, or a new one.        *)
Unknown(b) == b # None => data.ca.key # b.key
NewCAInv ==
    pc = "save" => \/ read # None /\ data.ca = read.ca
                   \/ Unknown(bundle) /\ Unknown(bundleView)

LaggingInv ==
    /\ BundleInv /\ NewCAInv
    /\ pc = "config" => service
    /\ PassesConverge

LEMMA LaggingInit == Init => LaggingInv
BY DEF Init, LaggingInv, BundleInv, NewCAInv, OtherCA, PassesConverge

LEMMA SameBundle ==
    ASSUME LaggingInv, UNCHANGED <<secret, bundle, bundleView>>
    PROVE  BundleInv'
BY DEF LaggingInv, BundleInv, OtherCA

LEMMA TickLags == Inv /\ LaggingInv /\ Tick => LaggingInv'
<1> SUFFICES ASSUME Inv, LaggingInv, Tick PROVE LaggingInv'
  OBVIOUS
<1>1. /\ secret' = OneStep(secret) /\ read' = OneStep(read) /\ data' = OneStep(data)
      /\ bundle' = IF bundle = None THEN None ELSE Elapsed(bundle)
      /\ bundleView' = IF bundleView = None THEN None ELSE Elapsed(bundleView)
      /\ due' = TRUE /\ UNCHANGED <<service, pc>>
  BY DEF Tick
<1>2. /\ secret \in Cert2 /\ read \in Cert2 /\ (pc # "idle" => data \in Certificates)
      /\ bundle \in CA \cup {None} /\ bundleView \in CA \cup {None}
  BY DEF Inv, TypeOK, Cert2
<1>3. /\ bundle' = None <=> bundle = None
      /\ bundleView' = None <=> bundleView = None
      /\ bundle # None => bundle'.key = bundle.key
      /\ bundleView # None => bundleView'.key = bundleView.key
  BY <1>1, <1>2, ElapsedCA, NoneAssumption
<1>4. \A c \in Cert2 : /\ OneStep(c) = None <=> c = None
                       /\ c # None => OneStep(c).ca = Elapsed(c.ca) /\ OneStep(c).ca.key = c.ca.key
  <2> SUFFICES ASSUME NEW c \in Cert2, c # None
               PROVE  OneStep(c) # None /\ OneStep(c).ca = Elapsed(c.ca) /\ OneStep(c).ca.key = c.ca.key
    BY DEF OneStep
  <2>1. c \in Certificates /\ c.ca \in CA
    BY DEF Cert2, Certificates
  <2> QED BY <2>1, OneStepPair, OneStepOptional, ElapsedCA
<1>5. BundleInv'
  <2>1. OtherCA(bundleView) => OtherCA(bundleView)'
    BY <1>1, <1>2, <1>3, <1>4 DEF OtherCA
  <2>2. OtherCA(bundle) => OtherCA(bundle)'
    BY <1>1, <1>2, <1>3, <1>4 DEF OtherCA
  <2>3. bundle = bundleView => bundle' = bundleView'
    BY <1>1
  <2>4. secret # None /\ bundle = secret.ca => secret' # None /\ bundle' = secret'.ca
    <3> SUFFICES ASSUME secret # None, bundle = secret.ca PROVE secret' # None /\ bundle' = secret'.ca
      OBVIOUS
    <3>1. bundle # None
      BY <1>2, NoneAssumption DEF Cert2, Certificates
    <3> QED BY <1>1, <1>2, <1>4, <3>1
  <2> QED BY <2>1, <2>2, <2>3, <2>4 DEF LaggingInv, BundleInv
<1>6. NewCAInv'
  <2> SUFFICES ASSUME pc = "save"
               PROVE  ((read # None /\ data.ca = read.ca) \/ (Unknown(bundle) /\ Unknown(bundleView)))'
    BY <1>1 DEF NewCAInv
  <2>1. data \in Cert2 /\ data # None
    BY <1>2, NoneAssumption DEF Cert2
  <2>2. read # None /\ data.ca = read.ca => read' # None /\ data'.ca = read'.ca
    BY <1>1, <1>2, <1>4, <2>1
  <2>3. /\ Unknown(bundle) => Unknown(bundle)'
        /\ Unknown(bundleView) => Unknown(bundleView)'
    BY <1>1, <1>3, <1>4, <2>1 DEF Unknown
  <2> QED BY <2>2, <2>3 DEF LaggingInv, NewCAInv
<1> QED
  BY <1>1, <1>5, <1>6 DEF LaggingInv, PassesConverge

LEMMA ReadSecretLags == Inv /\ LaggingInv /\ ReadSecret => LaggingInv'
<1> SUFFICES ASSUME Inv, LaggingInv, ReadSecret PROVE LaggingInv'
  OBVIOUS
<1>1. PICK i \in Key \ InUse, j \in Key :
        read' = view /\ data' = ValidateCerts(view, i, j)
  BY DEF ReadSecret, Lowest
<1>2. pc' \in {"crt", "save"} /\ UNCHANGED <<secret, bundle, bundleView, service>>
  BY DEF ReadSecret, cluster
<1>3. \/ view # None /\ data'.ca = view.ca
      \/ data'.ca.key = i
  BY <1>1 DEF ValidateCerts, NewCA
<1>4. /\ bundle # None => i # bundle.key
      /\ bundleView # None => i # bundleView.key
  BY DEF InUse
<1>5. NewCAInv'
  BY <1>1, <1>2, <1>3, <1>4 DEF NewCAInv, Unknown
<1> QED
  BY <1>2, <1>5, SameBundle DEF LaggingInv, PassesConverge

LEMMA SaveSecretLags == Inv /\ LaggingInv /\ SaveSecret => LaggingInv'
<1> SUFFICES ASSUME Inv, LaggingInv, SaveSecret PROVE LaggingInv'
  OBVIOUS
<1>1. /\ pc = "save" /\ pc' \in {"crt", "idle"} /\ (pc' = "idle" => due' = TRUE)
      /\ UNCHANGED <<bundle, bundleView, service>> /\ NewCAInv /\ BundleInv
  BY DEF SaveSecret, Failed, Continue, LaggingInv
<1>2. CASE secret' = secret
  BY <1>1, <1>2, SameBundle DEF LaggingInv, NewCAInv, PassesConverge
<1>3. CASE read = secret /\ secret' = data
  <2>1. data # None
    BY <1>1, NoneAssumption DEF Inv, TypeOK
  <2>2. CASE read # None /\ data.ca = read.ca
    <3>1. secret # None /\ secret'.ca = secret.ca /\ secret' # None
      BY <1>3, <2>1, <2>2
    <3>2. BundleInv'
      BY <1>1, <3>1 DEF BundleInv, OtherCA
    <3> QED BY <1>1, <3>2 DEF LaggingInv, NewCAInv, PassesConverge
  <2>3. CASE Unknown(bundle) /\ Unknown(bundleView)
    <3>1. OtherCA(bundle)' /\ OtherCA(bundleView)'
      BY <1>1, <1>3, <2>3 DEF Unknown, OtherCA
    <3>2. BundleInv'
      BY <3>1 DEF BundleInv
    <3> QED BY <1>1, <3>2 DEF LaggingInv, NewCAInv, PassesConverge
  <2> QED BY <1>1, <2>2, <2>3 DEF NewCAInv
<1> QED
  BY <1>2, <1>3 DEF SaveSecret, Accepted

LEMMA ConfigLags == Inv /\ HandInv /\ LaggingInv /\ ReconcileWebhookConfig => LaggingInv'
<1> SUFFICES ASSUME Inv, HandInv, LaggingInv, ReconcileWebhookConfig PROVE LaggingInv'
  OBVIOUS
<1>1. /\ pc = "config" /\ pc' = "idle" /\ UNCHANGED <<secret, service, crtFile, keyFile>> /\ service
      /\ data = secret /\ secret # None
      /\ crtFile = secret.tls /\ keyFile = secret.tls.key
  BY NoneAssumption DEF ReconcileWebhookConfig, Failed, Completed, files, HandInv, Publishing, Inv,
                        FilesInv, TypeOK, LaggingInv
<1>2. BundleInv
  BY DEF LaggingInv
<1>3. CASE UpToDate /\ UNCHANGED <<bundle, bundleView>>
  <2>1. bundleView = secret.ca
    BY <1>1, <1>3 DEF UpToDate
  <2>2. bundleView # None
    BY <1>1, <2>1, NoneAssumption DEF Inv, TypeOK, Certificates
  <2>3. ~OtherCA(bundleView)
    BY <1>1, <2>1, <2>2 DEF OtherCA
  <2>4. bundle' = secret'.ca
    BY <1>1, <1>2, <1>3, <2>1, <2>3 DEF BundleInv
  <2> QED BY <1>1, <1>3, <2>4, SameBundle DEF LaggingInv, NewCAInv, PassesConverge
<1>4. CASE ~UpToDate /\ bundleView = bundle /\ bundle' = data.ca /\ bundleView' \in {bundleView, data.ca}
  <2>1. bundle' = secret'.ca
    BY <1>1, <1>4
  <2>2. OtherCA(bundle)
    BY <1>1, <1>2, <1>4 DEF BundleInv, UpToDate
  <2>3. bundle' = bundleView' \/ OtherCA(bundleView)'
    BY <1>1, <1>4, <2>2 DEF OtherCA
  <2>4. BundleInv'
    BY <1>1, <2>1, <2>3 DEF BundleInv
  <2> QED BY <1>1, <2>1, <2>4 DEF LaggingInv, NewCAInv, PassesConverge
<1>5. CASE Failed /\ UNCHANGED <<bundle, bundleView>>
  BY <1>1, <1>5, SameBundle DEF LaggingInv, NewCAInv, PassesConverge, Failed
<1> QED
  BY <1>3, <1>4, <1>5 DEF ReconcileWebhookConfig

LEMMA NextLags == Inv /\ HandInv /\ LaggingInv /\ [Next]_vars => LaggingInv'
<1> SUFFICES ASSUME Inv, HandInv, LaggingInv, [Next]_vars PROVE LaggingInv'
  OBVIOUS
<1>1. CASE Tick
  BY <1>1, TickLags
<1>2. CASE ReadSecret
  BY <1>2, ReadSecretLags
<1>3. CASE SaveSecret
  BY <1>3, SaveSecretLags
<1>4. CASE WriteCrt \/ WriteKey \/ ReconcileService
  <2>1. /\ UNCHANGED <<secret, bundle, bundleView>>
        /\ pc' \in {"idle", "key", "service", "config"} /\ (pc' = "idle" => due' = TRUE)
        /\ pc' = "config" => service'
    BY <1>4 DEF WriteCrt, WriteKey, ReconcileService, Failed, Continue, cluster
  <2> QED BY <2>1, SameBundle DEF LaggingInv, NewCAInv, PassesConverge
<1>5. CASE ReconcileWebhookConfig
  BY <1>5, ConfigLags
<1>6. CASE BootstrapperCrash \/ PodReplaced
  <2>1. UNCHANGED <<secret, bundle, bundleView>> /\ pc' = "idle" /\ due' = TRUE
    BY <1>6 DEF BootstrapperCrash, PodReplaced, Failed, cluster
  <2> QED BY <2>1, SameBundle DEF LaggingInv, NewCAInv, PassesConverge
<1>7. CASE BundleSeen
  <2>1. bundleView' = bundle /\ UNCHANGED <<secret, bundle, service, files, pass>>
    BY <1>7 DEF BundleSeen
  <2>2. BundleInv'
    BY <2>1 DEF LaggingInv, BundleInv, OtherCA
  <2>3. NewCAInv'
    BY <2>1 DEF LaggingInv, NewCAInv, Unknown, pass
  <2> QED BY <2>1, <2>2, <2>3 DEF LaggingInv, PassesConverge, files, pass
<1>8. CASE SecretSeen \/ FaultsEnd \/ StartWebhookServer \/ ManagerStarts \/ Reload \/ UNCHANGED vars
  <2>1. UNCHANGED <<secret, bundle, bundleView, service, files, pass>>
    BY <1>8 DEF SecretSeen, FaultsEnd, StartWebhookServer, ManagerStarts, Reload, vars, cluster
  <2>2. NewCAInv'
    BY <2>1 DEF LaggingInv, NewCAInv, Unknown, pass
  <2> QED BY <2>1, <2>2, SameBundle DEF LaggingInv, PassesConverge, files, pass
<1>9. CASE SecretDeleted
  BY <1>9 DEF SecretDeleted, HandInv
<1> QED
  BY <1>1, <1>2, <1>3, <1>4, <1>5, <1>6, <1>7, <1>8, <1>9 DEF Next, Reconcile

(* A pass that ends without an error leaves the files, the service and the       *)
(* bundle as the secret has them, and a pass that ends with one comes back:      *)
(* whatever else fails, and whenever, if the informers show what there is or if  *)
(* nobody deletes the secret.  Copies that are only outdated do no harm.         *)
THEOREM PassesLeaveAgreement ==
    ASSUME "lag" \notin Faults \/ "deleted" \notin Faults
    PROVE  Spec => []PassesConverge
<1>1. CASE "lag" \notin Faults
  <2>1. Init => Reached
    BY <1>1, InitReached
  <2>2. Reached => PassesConverge
    BY DEF Reached
  <2> QED BY <2>1, <2>2, NextReached, AlwaysInv, PTL DEF Spec
<1>2. CASE "deleted" \notin Faults
  <2>1. Init => HandInv /\ LaggingInv
    BY <1>2, HandInit, LaggingInit
  <2>2. LaggingInv => PassesConverge
    BY DEF LaggingInv
  <2> QED BY <2>1, <2>2, HandStep, NextLags, AlwaysInv, PTL DEF Spec
<1> QED
  BY <1>1, <1>2

================================================================================
