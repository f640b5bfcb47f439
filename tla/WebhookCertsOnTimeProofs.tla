----------------------- MODULE WebhookCertsOnTimeProofs -----------------------
(***************************************************************************)
(* The proof that the webhook keeps valid certificates through outages,    *)
(* for every lifetime, threshold and set of keys.  The failures it allows  *)
(* are those of the API server, of the informers, of the pod and of the    *)
(* clock.  Left out are a file that is only partly written and a           *)
(* bootstrapper that stops between the two files: the server is then left  *)
(* with the pair it had.                                                   *)
(***************************************************************************)
EXTENDS WebhookCertsOnTime, WebhookCertsProofs

(* Made or checked against the threshold d clock steps ago, or later.            *)
Lasts(c, d) == c.left >= Threshold - d

(* The server serves with a certificate that lasts, or is about to load the one  *)
(* in the files, or waits for the second file.                                   *)
ServerLasts ==
    /\ server # "running" => loaded = None
    /\ loaded # None => Lasts(loaded, since) \/ pc = "key" \/ ReloadPending

PassLasts ==
    pc # "idle" => running <= since /\ Lasts(data.ca, running) /\ Lasts(data.tls, running)

PublishedLasts ==
    /\ bundle # None => Lasts(bundle, since)
    /\ crtFile \notin {None, Torn} => Lasts(crtFile, since)

Times == running \in 0 .. Threshold /\ since \in 0 .. Threshold

WholeFiles == faults \cap {"write", "crash"} = {}

LastsInv == Times /\ WholeFiles /\ PassLasts /\ PublishedLasts /\ ServerLasts

--------------------------------------------------------------------------------
(* Time *)

LEMMA LaterType ==
    ASSUME NEW d \in 0 .. Threshold
    PROVE  /\ Later(d) \in 0 .. Threshold
           /\ \A e \in 0 .. Threshold : d <= e => Later(d) <= Later(e)
BY LifeAssumption DEF Later

LEMMA LeftType ==
    ASSUME NEW c \in CA \cup Certificate
    PROVE  c.left \in Nat /\ Elapsed(c).left = IF c.left = 0 THEN 0 ELSE c.left - 1
<1>1. TLSLife \in Nat /\ CALife \in Nat
  BY LifeAssumption
<1> QED
  BY <1>1 DEF CA, Certificate, Elapsed

(* What lasts goes on to do so.                                                  *)
LEMMA LastsLater ==
    ASSUME NEW c \in CA \cup Certificate, NEW d \in 0 .. Threshold, Lasts(c, d)
    PROVE  Lasts(Elapsed(c), Later(d))
<1>1. Threshold \in Nat /\ d \in Nat /\ d <= Threshold
  BY LifeAssumption
<1> QED
  BY <1>1, LeftType DEF Lasts, Later

LEMMA LastsSince ==
    ASSUME NEW c \in CA \cup Certificate, NEW d \in 0 .. Threshold,
           NEW e \in 0 .. Threshold, d <= e, Lasts(c, d)
    PROVE  Lasts(c, e)
<1>1. Threshold \in Nat /\ d \in Nat /\ e \in Nat /\ c.left \in Nat
  BY LifeAssumption, LeftType
<1> QED
  BY <1>1 DEF Lasts

(* ValidateCerts renews whatever would not last.                                 *)
LEMMA ValidateCertsLasts ==
    ASSUME NEW c \in Cert2, NEW i \in Key, NEW j \in Key
    PROVE  /\ Lasts(ValidateCerts(c, i, j).ca, 0)
           /\ Lasts(ValidateCerts(c, i, j).tls, 0)
<1> DEFINE ca == IF c = None \/ Expiring(c.ca) THEN NewCA(i) ELSE c.ca
           tls == IF (c = None \/ Expiring(c.ca)) \/ Expiring(c.tls)
                  THEN NewTLS(j, ca) ELSE c.tls
<1>1. ValidateCerts(c, i, j).ca = ca /\ ValidateCerts(c, i, j).tls = tls
  BY DEF ValidateCerts
<1>2. c # None => c.ca.left \in Nat /\ c.tls.left \in Nat
  <2>1. c # None => c.ca \in CA /\ c.tls \in Certificate
    BY DEF Cert2, Certificates
  <2> QED BY <2>1, LeftType
<1>3. NewCA(i).left = CALife /\ NewTLS(j, ca).left = TLSLife
  BY DEF NewCA, NewTLS
<1>4. ca.left >= Threshold
  BY <1>2, <1>3, LifeAssumption DEF Expiring
<1>5. tls.left >= Threshold
  <2> HIDE DEF ca
  <2> QED BY <1>2, <1>3, LifeAssumption DEF Expiring
<1> QED
  <2> HIDE DEF ca, tls
  <2> QED BY <1>1, <1>4, <1>5, LifeAssumption DEF Lasts

(* What a pass publishes, and the pair of files once it has written both.        *)
LEMMA PassPublishes ==
    ASSUME Inv, pc # "idle"
    PROVE  /\ data.ca \in CA /\ data.tls \in Certificate
           /\ data.tls \notin {None, Torn}
BY NoneAssumption DEF Inv, TypeOK, Certificates

LEMMA FilesOfPass ==
    ASSUME Inv, pc \in {"service", "config"}
    PROVE  crtFile = data.tls /\ PairAvailable
BY PassPublishes DEF Inv, FilesInv, PairAvailable

--------------------------------------------------------------------------------
(* The steps *)

LEMMA LastsTick ==
    ASSUME Inv, LastsInv, Tick, running' = Later(running), since' = Later(since)
    PROVE  LastsInv'
<1> USE DEF LastsInv
<1>1. UNCHANGED <<pc, server, keyFile, faults>> /\ ~ReloadPending /\ pc # "key"
  BY DEF Tick
<1>2. Times'
  BY LaterType DEF Times
<1>3. PassLasts'
  <2> SUFFICES ASSUME pc # "idle" PROVE PassLasts'
    BY <1>1 DEF PassLasts
  <2>1. data \in Certificates /\ data' = OneStep(data)
    BY DEF Inv, TypeOK, Tick
  <2>2. data'.ca = Elapsed(data.ca) /\ data'.tls = Elapsed(data.tls)
    BY <2>1, OneStepPair
  <2>3. Lasts(Elapsed(data.ca), running') /\ Lasts(Elapsed(data.tls), running')
    BY PassPublishes, LastsLater DEF PassLasts, Times
  <2>4. running' <= since'
    BY LaterType DEF PassLasts, Times
  <2> QED BY <2>2, <2>3, <2>4 DEF PassLasts, Lasts
<1>4. PublishedLasts'
  <2>1. bundle \in CA \cup {None} /\ crtFile \in Certificate \cup {None, Torn}
    BY DEF Inv, TypeOK
  <2>2. /\ bundle' = IF bundle = None THEN None ELSE Elapsed(bundle)
        /\ crtFile' = IF crtFile \in {None, Torn} THEN crtFile ELSE Elapsed(crtFile)
    BY DEF Tick
  <2>3. bundle # None => Lasts(Elapsed(bundle), since')
    BY <2>1, LastsLater DEF PublishedLasts, Times
  <2>4. crtFile \notin {None, Torn} => Lasts(Elapsed(crtFile), since')
    BY <2>1, LastsLater DEF PublishedLasts, Times
  <2> QED BY <2>2, <2>3, <2>4 DEF PublishedLasts, Lasts
<1>5. ServerLasts'
  <2>1. loaded \in Certificate \cup {None}
    BY DEF Inv, TypeOK
  <2>2. loaded' = IF loaded = None THEN None ELSE Elapsed(loaded)
    BY DEF Tick
  <2>3. loaded # None => Lasts(Elapsed(loaded), since')
    BY <1>1, <2>1, LastsLater DEF ServerLasts, Times
  <2> QED BY <1>1, <2>2, <2>3 DEF ServerLasts, Lasts
<1> QED
  BY <1>1, <1>2, <1>3, <1>4, <1>5 DEF WholeFiles

LEMMA LastsRead ==
    ASSUME Inv, LastsInv, ReadSecret, running' = 0, UNCHANGED since
    PROVE  LastsInv'
<1> USE DEF LastsInv
<1>1. PICK i \in Key, j \in Key : data' = ValidateCerts(view, i, j)
  BY DEF ReadSecret, Lowest
<1>2. Lasts(data'.ca, 0) /\ Lasts(data'.tls, 0)
  BY <1>1, ValidateCertsLasts DEF Inv, TypeOK, Cert2, Lasts
<1>3. /\ pc = "idle" /\ UNCHANGED <<bundle, crtFile, keyFile, server, loaded, faults>>
  BY DEF ReadSecret, cluster, files, webhook
<1>4. Times' /\ running' <= since'
  BY LifeAssumption DEF Times
<1>5. PassLasts'
  BY <1>2, <1>4 DEF PassLasts, Lasts
<1>6. PublishedLasts' /\ ServerLasts'
  BY <1>3 DEF PublishedLasts, ServerLasts, Lasts, ReloadPending, PairAvailable
<1> QED
  BY <1>3, <1>4, <1>5, <1>6 DEF WholeFiles

(* Steps that leave alone what is published and what is served.                  *)
LEMMA LastsQuiet ==
    ASSUME LastsInv, UNCHANGED history, faults' \subseteq faults,
           UNCHANGED <<bundle, crtFile, keyFile, server, loaded>>,
           pc' = "idle" \/ (pc # "idle" /\ data' = data), pc = "key" => pc' = "key"
    PROVE  LastsInv'
<1> USE DEF LastsInv, history
<1>1. Times' /\ WholeFiles'
  BY DEF Times, WholeFiles
<1>2. PassLasts'
  BY DEF PassLasts, Lasts
<1>3. PublishedLasts'
  BY DEF PublishedLasts, Lasts
<1>4. ServerLasts'
  BY DEF ServerLasts, Lasts, ReloadPending, PairAvailable
<1> QED
  BY <1>1, <1>2, <1>3, <1>4

LEMMA LastsWriteCrt ==
    ASSUME Inv, LastsInv, WriteCrt, UNCHANGED history
    PROVE  LastsInv'
<1> USE DEF LastsInv, history
<1>1. /\ pc = "crt" /\ pc' = "key" /\ crtFile' = data.tls /\ data' = data
      /\ UNCHANGED <<bundle, keyFile, server, loaded, faults>>
  BY DEF WriteCrt, WholeFiles, Continue, cluster, webhook
<1>2. Lasts(data.tls, since)
  BY <1>1, PassPublishes, LastsSince DEF PassLasts, Times
<1>3. PassLasts' /\ PublishedLasts'
  BY <1>1, <1>2 DEF PassLasts, PublishedLasts, Lasts
<1>4. ServerLasts'
  BY <1>1 DEF ServerLasts
<1> QED
  BY <1>1, <1>3, <1>4 DEF Times, WholeFiles

LEMMA LastsWriteKey ==
    ASSUME Inv, LastsInv, WriteKey, UNCHANGED history
    PROVE  LastsInv'
<1> USE DEF LastsInv, history
<1>1. /\ pc = "key" /\ pc' = "service" /\ keyFile' = data.tls.key /\ data' = data
      /\ UNCHANGED <<bundle, crtFile, server, loaded, faults>>
  BY DEF WriteKey, WholeFiles, Continue, cluster, webhook
<1>2. crtFile = data.tls /\ data.tls \notin {None, Torn} /\ data.tls \in Certificate
  BY <1>1, PassPublishes DEF Inv, FilesInv
<1>3. Lasts(crtFile, since)
  BY <1>2 DEF PublishedLasts
<1>4. PairAvailable'
  BY <1>1, <1>2 DEF PairAvailable
<1>5. PassLasts' /\ PublishedLasts'
  BY <1>1 DEF PassLasts, PublishedLasts, Lasts
<1>6. ServerLasts'
  BY <1>1, <1>3, <1>4 DEF ServerLasts, ReloadPending, Lasts
<1> QED
  BY <1>1, <1>5, <1>6 DEF Times, WholeFiles

(* The end of a pass: what it published is as good as when it read the secret.   *)
LEMMA LastsPublished ==
    ASSUME Inv, LastsInv, ReconcileWebhookConfig, UNCHANGED running,
           since' = IF bundle' = data.ca THEN running ELSE since
    PROVE  LastsInv'
<1> USE DEF LastsInv
<1>1. /\ pc = "config" /\ pc' = "idle" /\ bundle' \in {bundle, data.ca}
      /\ UNCHANGED <<crtFile, keyFile, server, loaded, faults>>
  BY DEF ReconcileWebhookConfig, Completed, Failed, files, webhook
<1>2. /\ crtFile = data.tls /\ PairAvailable /\ PairAvailable'
      /\ data.ca \in CA /\ data.tls \in Certificate
  BY <1>1, FilesOfPass, PassPublishes DEF PairAvailable
<1>3. Lasts(data.ca, running) /\ Lasts(data.tls, running)
  BY <1>1 DEF PassLasts
<1>4. Times'
  BY DEF Times
<1>5. PublishedLasts'
  BY <1>1, <1>2, <1>3 DEF PublishedLasts, Lasts
<1>6. ServerLasts'
  <2>1. CASE since' = since
    BY <1>1, <2>1 DEF ServerLasts, Lasts, ReloadPending, PairAvailable
  <2>2. CASE since' = running
    <3>1. loaded = crtFile => Lasts(loaded, since')
      BY <1>2, <1>3, <2>2
    <3>2. loaded # None /\ loaded # crtFile => ReloadPending'
      BY <1>1, <1>2 DEF ServerLasts, ReloadPending
    <3> QED BY <1>1, <3>1, <3>2 DEF ServerLasts, Lasts
  <2> QED BY <2>1, <2>2
<1> QED
  BY <1>1, <1>4, <1>5, <1>6 DEF PassLasts, WholeFiles

LEMMA LastsPodReplaced ==
    ASSUME LastsInv, PodReplaced, UNCHANGED history
    PROVE  LastsInv'
<1>1. /\ pc' = "idle" /\ crtFile' = None /\ server' = "waiting" /\ loaded' = None
      /\ UNCHANGED <<bundle, faults, running, since>>
  BY DEF PodReplaced, Failed, cluster, history
<1> QED
  BY <1>1 DEF LastsInv, Times, WholeFiles, PassLasts, PublishedLasts, ServerLasts, Lasts

(* The server only ever loads what the files hold.                               *)
LEMMA LastsLoads ==
    ASSUME LastsInv, StartWebhookServer \/ ManagerStarts \/ Reload, UNCHANGED history
    PROVE  LastsInv'
<1> USE DEF LastsInv, history
<1>1. UNCHANGED <<bundle, crtFile, keyFile, pc, data, faults, running, since>>
  BY DEF StartWebhookServer, ManagerStarts, Reload, cluster, files, pass
<1>2. PairAvailable => Lasts(crtFile, since)
  BY DEF PairAvailable, PublishedLasts
<1>3. /\ server' # "running" => loaded' = None
      /\ loaded' # None => loaded' = crtFile /\ PairAvailable
  BY DEF StartWebhookServer, ManagerStarts, Reload, ReloadPending, ServerLasts
<1>4. ServerLasts'
  BY <1>1, <1>2, <1>3 DEF ServerLasts, Lasts
<1> QED
  BY <1>1, <1>4 DEF Times, WholeFiles, PassLasts, PublishedLasts, Lasts

LEMMA LastsInit ==
    ASSUME Faults \cap {"write", "crash"} = {}, InitOnTime
    PROVE  LastsInv
BY LifeAssumption
   DEF InitOnTime, Init, LastsInv, Times, WholeFiles, PassLasts, PublishedLasts, ServerLasts

LEMMA LastsStep == Inv /\ LastsInv /\ [NextOnTime]_<<vars, history>> => LastsInv'
<1> SUFFICES ASSUME Inv, LastsInv, [NextOnTime]_<<vars, history>> PROVE LastsInv'
  OBVIOUS
<1>1. CASE Tick /\ running' = Later(running) /\ since' = Later(since)
  BY <1>1, LastsTick
<1>2. CASE ReadSecret /\ running' = 0 /\ UNCHANGED since
  BY <1>2, LastsRead
<1>3. CASE /\ ReconcileWebhookConfig
           /\ since' = IF bundle' = data.ca THEN running ELSE since
           /\ UNCHANGED running
  BY <1>3, LastsPublished
<1>4. CASE WriteCrt /\ UNCHANGED history
  BY <1>4, LastsWriteCrt
<1>5. CASE WriteKey /\ UNCHANGED history
  BY <1>5, LastsWriteKey
<1>6. CASE PodReplaced /\ UNCHANGED history
  BY <1>6, LastsPodReplaced
<1>7. CASE (StartWebhookServer \/ ManagerStarts \/ Reload) /\ UNCHANGED history
  BY <1>7, LastsLoads
<1>8. CASE (SaveSecret \/ ReconcileService) /\ UNCHANGED history
  <2>1. /\ UNCHANGED <<bundle, crtFile, keyFile, server, loaded, faults>>
        /\ pc \notin {"idle", "key"} /\ (pc' = "idle" \/ data' = data)
    BY <1>8 DEF SaveSecret, ReconcileService, Continue, Failed, files, webhook
  <2> QED BY <1>8, <2>1, LastsQuiet
<1>9. CASE (SecretDeleted \/ SecretSeen \/ BundleSeen \/ FaultsEnd) /\ UNCHANGED history
  <2>1. /\ UNCHANGED <<bundle, crtFile, keyFile, server, loaded, pc, data>>
        /\ faults' \subseteq faults
    BY <1>9 DEF SecretDeleted, SecretSeen, BundleSeen, FaultsEnd, cluster, files, webhook, pass
  <2> QED BY <1>9, <2>1, LastsQuiet
<1>10. CASE UNCHANGED <<vars, history>>
  <2>1. UNCHANGED <<bundle, crtFile, keyFile, server, loaded, pc, data, faults>>
    BY <1>10 DEF vars, cluster, files, webhook, pass
  <2> QED BY <1>10, <2>1, LastsQuiet
<1>11. ~BootstrapperCrash
  BY DEF BootstrapperCrash, LastsInv, WholeFiles
<1> QED
  BY <1>1, <1>2, <1>3, <1>4, <1>5, <1>6, <1>7, <1>8, <1>9, <1>10, <1>11 DEF NextOnTime

--------------------------------------------------------------------------------

(* The histories only watch.                                                     *)
LEMMA HistoryOnlyWatches ==
    /\ InitOnTime => Init
    /\ [NextOnTime]_<<vars, history>> => [Next]_vars
BY DEF InitOnTime, NextOnTime, Next, Reconcile

(* ValidateCerts renews what has less than renewalThreshold left, and the server *)
(* loads what a pass has written: a server keeps a valid certificate, and the    *)
(* webhook configuration a valid CA, through every outage that is shorter than   *)
(* renewalThreshold, however many calls fail, however long the informers lag,    *)
(* and whenever the secret is deleted or the pod replaced.                       *)
THEOREM ServesValidCertificates ==
    ASSUME Faults \cap {"write", "crash"} = {}
    PROVE  SpecOnTime => ServedCertificateIsValid
<1>1. InitOnTime => LastsInv
  BY LastsInit
<1>2. Inv /\ LastsInv /\ Tick /\ since < Threshold =>
          /\ loaded # None => loaded.left > 0
          /\ bundle # None => bundle.left > 0
  <2> SUFFICES ASSUME Inv, LastsInv, Tick, since < Threshold
               PROVE  /\ loaded # None => loaded.left > 0
                      /\ bundle # None => bundle.left > 0
    OBVIOUS
  <2>1. /\ loaded # None => Lasts(loaded, since) /\ loaded \in Certificate
        /\ bundle # None => Lasts(bundle, since) /\ bundle \in CA
    BY DEF Tick, LastsInv, ServerLasts, PublishedLasts, Inv, TypeOK
  <2>2. since \in Nat /\ Threshold \in Nat
    BY LifeAssumption DEF LastsInv, Times
  <2> QED BY <2>1, <2>2, LeftType DEF Lasts
<1>3. Inv /\ LastsInv =>
        [Tick /\ since < Threshold =>
          /\ loaded # None => loaded.left > 0
          /\ bundle # None => bundle.left > 0]_vars
  BY <1>2
<1>4. Inv /\ [NextOnTime]_<<vars, history>> => Inv'
  BY HistoryOnlyWatches, NextInv
<1>5. InitOnTime => Inv
  BY HistoryOnlyWatches, InitInv
<1> QED
  BY <1>1, <1>3, <1>4, <1>5, LastsStep, PTL DEF SpecOnTime, ServedCertificateIsValid

================================================================================
