----------------------------- MODULE NodesOnTime -----------------------------
(***************************************************************************)
(* NodesController with one more history variable, for what depends on     *)
(* the periodic pass being run on time: the age of the last pass that      *)
(* found a node in the cluster and on a OneAgent's status.                 *)
(***************************************************************************)
EXTENDS NodesController

VARIABLE observed

timedVars == <<vars, observed>>

Observe ==
    observed' = [n \in Node |->
        IF pc = "list" /\ n \in nodes' /\ Listers(oas, n) # {} THEN 0
        ELSE IF Tick THEN Older(observed[n])
        ELSE observed[n]]

TimedInit == Init /\ observed = [n \in Node |-> Ancient]
TimedNext == Next /\ Observe
TimedSpec == TimedInit /\ [][TimedNext]_timedVars
FairTimedSpec == TimedSpec /\ Fairness

--------------------------------------------------------------------------------
(* A node Dynatrace knows and a periodic pass saw within the last hour is        *)
(* dropped from the cache only with an event taken within the last hour: passes  *)
(* that run on time keep LastSeen from expiring under a living node, and no      *)
(* event is lost.                                                                *)
DeletedNodeIsAnnounced ==
    [][\A n \in Node :
        /\ Dropped(n) /\ n \notin Unreachable /\ observed[n] <= Hour
        /\ cache[n].ip /\ cache[n].oa \in Listed.live
        => told'[n] <= Hour]_timedVars
================================================================================
