----------------------------- MODULE RollingRestart -----------------------------
(***************************************************************************)
(* What the rollout of a new agent promises to the owner of a cluster: the  *)
(* agents of a list of nodes are restarted in turn.  A node's agent is      *)
(* taken down once, and only while those of all nodes before it run; the    *)
(* pass is given up when calls fail or while a node's agent does not come   *)
(* back, never otherwise before the list is done.                           *)
(***************************************************************************)
CONSTANT Node

VARIABLES
    busy,     \* a pass is under way
    left,     \* the nodes of its list that are still to come
    away,     \* the nodes whose agent it has taken down and that do not run one yet
    trouble   \* calls may fail

vars == <<busy, left, away, trouble>>

Init == busy = FALSE /\ left = {} /\ away = {} /\ trouble \in BOOLEAN

Begin ==
    /\ ~busy /\ busy' = TRUE
    /\ left' \in (SUBSET Node) \ {{}}
    /\ UNCHANGED <<away, trouble>>

TakeDown(n) ==
    /\ busy /\ n \in left /\ away = {}
    /\ left' = left \ {n} /\ away' = {n}
    /\ UNCHANGED <<busy, trouble>>

ComesBack ==
    /\ away # {} /\ away' = {}
    /\ UNCHANGED <<busy, left, trouble>>

Stop == busy' = FALSE /\ left' = {} /\ away' = {} /\ UNCHANGED trouble
Finish == busy /\ left = {} /\ away = {} /\ Stop
GiveUp == busy /\ (away # {} \/ trouble) /\ Stop

TroubleEnds ==
    /\ trouble /\ trouble' = FALSE
    /\ UNCHANGED <<busy, left, away>>

Next == Begin \/ (\E n \in Node : TakeDown(n)) \/ ComesBack \/ Finish \/ GiveUp \/ TroubleEnds

Spec == Init /\ [][Next]_vars

================================================================================
