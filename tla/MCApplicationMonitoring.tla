------------------------- MODULE MCApplicationMonitoring -------------------------
(* The scenarios of ApplicationMonitoring.  Each has the parts that its faults   *)
(* are about at work: tokens and Istio the OneAgentAPM controller, namespaces    *)
(* and pods those of a OneAgentAPM that is set up, hosts the OneAgents.          *)
EXTENDS ApplicationMonitoring

CONSTANTS h, ip, n1, n2

Good == [t \in {"paas", "api"} |-> "good"]
NoApi == [Good EXCEPT !["api"] = "missing"]
Revoked == [Good EXCEPT !["paas"] = "unauthorized", !["api"] = "unscoped"]
Spaced == [Good EXCEPT !["paas"] = "spaced"]
SomeSecrets == {None, NoApi, Revoked, Spaced}

Url == {h, ip, None}
ApmSpec(immutable, istioEnabled, url, named) ==
    [immutable |-> immutable, istio |-> istioEnabled, apiUrl |-> url, image |-> named]
ForTokens == {ApmSpec(i, FALSE, ip, FALSE) : i \in BOOLEAN}
ForIstio == {ApmSpec(FALSE, TRUE, u, FALSE) : u \in Url}
ForPods == {ApmSpec(TRUE, FALSE, h, g) : g \in BOOLEAN} \cup {ApmSpec(FALSE, FALSE, h, FALSE)}
NoUrl == {ApmSpec(FALSE, FALSE, None, FALSE)}
SomeSpecs == ForTokens \cup ForIstio \cup ForPods \cup NoUrl

HostOf(n, v, isOld) == [node |-> n, ver |-> v, counted |-> TRUE, old |-> isOld]
Listed == <<HostOf(n1, 1, FALSE)>>
Successor == <<HostOf(n1, 2, FALSE), HostOf(n1, 1, TRUE)>>
TwoHosts == <<HostOf(n1, 2, FALSE), HostOf(n2, 1, FALSE)>>
SomeAnswers == {<<>>, Listed, Successor, TwoHosts}

Nothing == [specs |-> NoUrl, secrets |-> {Spaced}, pc |-> "off", faults |-> {},
            labels |-> {FALSE}, agents |-> {{}}, answers |-> {<<>>}, probe |-> "off"]

TokensOnly == [Nothing EXCEPT !.specs = ForTokens, !.secrets = SomeSecrets, !.pc = "idle",
                              !.faults = {"tokens", "dynatrace", "save", "crash"}]
WithIstio == [Nothing EXCEPT !.specs = ForIstio, !.secrets = {Spaced, Revoked}, !.pc = "idle",
                             !.faults = {"hosts", "api", "edit", "crash"}]
NewTokens == [Nothing EXCEPT !.specs = {ApmSpec(FALSE, FALSE, h, FALSE)}, !.labels = {TRUE},
                             !.probe = "idle",
                             !.faults = {"api", "tokens", "label", "removed"}]
NewNodes == [NewTokens EXCEPT !.agents = SUBSET {n1, n2}, !.answers = {Listed},
                              !.faults = {"api", "nodes"}]
OnePod == [Nothing EXCEPT !.specs = ForPods, !.pc = "idle", !.labels = {TRUE}, !.faults = {"edit"}]
OneAgents == [Nothing EXCEPT !.agents = SUBSET {n1, n2}, !.probe = "idle",
                             !.faults = {"api", "dynatrace", "save", "limit", "nodes", "agents"}]
All == {TokensOnly, WithIstio, NewTokens, NewNodes, OnePod, OneAgents}

================================================================================
