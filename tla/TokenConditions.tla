----------------------------- MODULE TokenConditions -----------------------------
(***************************************************************************)
(* The check of the tokens (controllers/utils/dynatrace_client_reconciler  *)
(* .go): the secret is read, then read again for the client, then Dynatrace *)
(* is asked about each token, at most every five minutes, and a condition   *)
(* in the status says what is wrong with it.  The secret may change between *)
(* the steps.  The module is instantiated by the controller whose pass      *)
(* contains the check.                                                      *)
(*                                                                         *)
(* Reasons that the code tells apart by their message have a name of their  *)
(* own here.  A proxy secret or a config map of CAs that is not there is a  *)
(* failing call.                                                            *)
(***************************************************************************)
EXTENDS Naturals

CONSTANTS
    Secrets,  \* what the secret with the tokens may contain, None: there is none
    None      \* model value: no secret, nothing read

VARIABLES
    secret,     \* the content of the secret with the tokens, as the client's cache has it
    status,     \* the status of the resource, as saved
    mem,        \* the status in memory during a pass, None outside
    check,      \* where the check is
    managed,    \* the tokens it is about
    read,       \* their values (t.Value), from the first read
    client,     \* the PaaS token of the Dynatrace client, from the second read
    faults,     \* what may still go wrong
    recent      \* history: the tokens asked about in the last five minutes

tokenVars == <<secret, status, mem, check, managed, read, client, recent>>

Token == {"paas", "api"}
Content == {"missing", "good", "unauthorized", "unscoped", "spaced"}
Secret == [Token -> Content]
Reason == {"", "SecretNotFound", "TokenMissing", "ClientError", "QueryError", "Spaces",
           "Unauthorized", "ScopeMissing", "Ready"}

(* The part of the status that is modelled: the reason of each condition, the    *)
(* tokens whose timestamp is less than five minutes old, and useImmutableImage.  *)
Status == [cond : [Token -> Reason], asked : SUBSET Token, immutable : BOOLEAN]
NewStatus == [cond |-> [t \in Token |-> ""], asked |-> {}, immutable |-> FALSE]

Conditions(st, tokens, reason) ==
    [st EXCEPT !.cond = [t \in Token |-> IF t \in tokens THEN reason ELSE @[t]]]

(* What the conditions have to be changed to is written if it is a change:       *)
(* setCondition, and updateCR for the timestamps.                                *)
BugTimestamps == mem.cond # status.cond
BugUpdated == mem # status \/ check = "failed"
Updated == mem # status

CheckEnds(result, st) == check' = result /\ mem' = st

StartCheck(tokens) ==
    /\ check' = "secret" /\ managed' = tokens /\ mem' = status

(* A secret that is not there concerns all tokens, one that lacks a token only   *)
(* this one: the condition of the other stays as it was.                         *)
Lacking(tokens, s) == {t \in tokens : s[t] = "missing"}
ReadSecret ==
    /\ check = "secret"
    /\ \/ "api" \in faults /\ CheckEnds("failed", mem) /\ UNCHANGED read
       \/ /\ secret = None
          /\ CheckEnds("failed", Conditions(mem, managed, "SecretNotFound")) /\ UNCHANGED read
       \/ /\ secret # None /\ Lacking(managed, secret) # {}
          /\ CheckEnds("failed", Conditions(mem, Lacking(managed, secret), "TokenMissing"))
          /\ UNCHANGED read
       \/ /\ secret # None /\ Lacking(managed, secret) = {}
          /\ read' = secret /\ check' = "client" /\ UNCHANGED mem
    /\ UNCHANGED <<secret, status, managed, client, recent>>

(* BuildDynatraceClient reads the secret once more.                              *)
CannotBuild == secret = None \/ (secret # None /\ Lacking(managed, secret) # {})
BuildClient ==
    /\ check = "client"
    /\ \/ /\ CannotBuild \/ "api" \in faults
          /\ CheckEnds("failed", Conditions(mem, managed, "ClientError")) /\ UNCHANGED client
       \/ /\ ~CannotBuild
          /\ client' = secret["paas"] /\ check' = "ask" /\ UNCHANGED mem
    /\ UNCHANGED <<secret, status, managed, read, recent>>

(* The answer about a token: GetTokenScopes and, for the PaaS token,             *)
(* GetConnectionInfo, which the client asks with the PaaS token it has.          *)
Accepted(content) == content \notin {"unauthorized", "unscoped"}
Answer(t) ==
    CASE read[t] = "unauthorized" -> "Unauthorized"
      [] read[t] = "unscoped" -> "ScopeMissing"
      [] OTHER -> IF t = "paas" /\ ~Accepted(client) THEN "QueryError" ELSE "Ready"
Spaced == {t \in managed : read[t] = "spaced"}
Asked == managed \ (Spaced \cup mem.asked)

AskDynatrace ==
    /\ check = "ask"
    /\ \E failing \in SUBSET Asked :
         /\ "dynatrace" \in faults \/ failing = {}
         /\ LET reason == [t \in Token |-> IF t \in failing THEN "QueryError"
                                           ELSE IF t \in Asked THEN Answer(t)
                                           ELSE IF t \in Spaced THEN "Spaces" ELSE mem.cond[t]]
            IN  CheckEnds("passed", [mem EXCEPT !.cond = reason, !.asked = @ \cup Asked])
    /\ recent' = recent \cup Asked /\ read' = None
    /\ UNCHANGED <<secret, status, managed, client>>

(* A user writes the secret or removes it; the client's cache follows.           *)
SecretChanges ==
    /\ "tokens" \in faults
    /\ secret' \in Secrets \ {secret}
    /\ UNCHANGED <<status, mem, check, managed, read, client, recent>>

FiveMinutesPass(t) ==
    /\ check = "off" /\ t \in recent
    /\ recent' = recent \ {t} /\ status' = [status EXCEPT !.asked = @ \ {t}]
    /\ UNCHANGED <<secret, mem, check, managed, read, client>>

(* What the condition of a token has to say.  While another token is missing     *)
(* nothing is said of this one.                                                  *)
Truth(t, tokens) ==
    IF secret = None THEN {"SecretNotFound"}
    ELSE IF secret[t] = "missing" THEN {"TokenMissing"}
    ELSE IF Lacking(tokens, secret) # {} THEN Reason
    ELSE CASE secret[t] = "good" -> {"Ready"}
           [] secret[t] = "spaced" -> {"Spaces"}
           [] secret[t] = "unauthorized" -> {"Unauthorized"}
           [] secret[t] = "unscoped" -> {"ScopeMissing"}

================================================================================
