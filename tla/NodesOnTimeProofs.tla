--------------------------- MODULE NodesOnTimeProofs ---------------------------
(***************************************************************************)
(* Proofs about the nodes controller when its passes run to their end: the *)
(* API server and Dynatrace answer and the process is not stopped.  Nodes, *)
(* OneAgents and their instances change at any moment, deletions may go    *)
(* unnoticed ("missed") and passes may take as long as they want ("slow"). *)
(* For any number of nodes and OneAgents and any length of the hour.       *)
(***************************************************************************)
EXTENDS NodesOnTime, NodesControllerProofs

(* A handler always works on an up-to-date copy of the cache and gets to save    *)
(* it.                                                                           *)
Calm ==
    /\ stale = FALSE /\ view = saved
    /\ pc # "idle" => fresh = TRUE
    /\ pc \in {"idle", "list"} => nodes = {}
    /\ \A o \in OneAgent, n \in Node : inst[o][n] # "noip"

LEMMA IdleCalm ==
    ASSUME Calm, Idle, UNCHANGED <<saved, view, stale, inst>>
    PROVE  Calm'
  BY DEF Calm, Idle

LEMMA CalmStep ==
    ASSUME Faults \subseteq {"missed", "slow"}, TypeOK, Calm, [Next]_vars
    PROVE  Calm'
  <1> USE DEF store
  <1>1. ASSUME UNCHANGED <<saved, view, stale, inst, pc, fresh, nodes>> PROVE Calm'
    BY <1>1 DEF Calm
  <1>2. ASSUME NEW o \in OneAgent, NEW n \in Node, NEW s \in InstanceStates,
               InstanceChanged(o, n, s)
        PROVE  Calm'
    <2>1. /\ inst \in [OneAgent -> [Node -> InstanceStates]]
          /\ inst' = [inst EXCEPT ![o][n] = s] /\ s # "noip"
      BY <1>2 DEF InstanceChanged, TypeOK
    <2>2. \A p \in OneAgent, m \in Node : inst'[p][m] # "noip"
      BY <2>1 DEF Calm
    <2>3. QED
      BY <1>2, <2>2 DEF InstanceChanged, local, Calm
  <1>3. ASSUME NEW o \in OneAgent, OneAgentDeleted(o) PROVE Calm'
    <2>1. /\ inst \in [OneAgent -> [Node -> InstanceStates]]
          /\ inst' = [inst EXCEPT ![o] = NoInstances]
      BY <1>3 DEF OneAgentDeleted, TypeOK
    <2>2. \A p \in OneAgent, m \in Node : inst'[p][m] # "noip"
      BY <2>1 DEF Calm, NoInstances
    <2>3. QED
      BY <1>3, <2>2 DEF OneAgentDeleted, local, Calm
  <1>4. CASE Environment
    BY <1>1, <1>2, <1>3, <1>4
       DEF Environment, NodeDeleted, NodeAdded, NodeUpdated, OneAgentCreated, local
  <1>5. CASE Tick
    BY <1>5 DEF Tick, Calm, env
  <1>6. CASE Sync \/ UNCHANGED vars
    BY <1>6 DEF Sync, Calm, vars, env, local
  <1>7. CASE Crash
    BY <1>7 DEF Crash
  <1>8. CASE TakeUpdate \/ TakeDeletion
    BY <1>8, IdleCalm DEF TakeUpdate, TakeDeletion, Handle, GetCache, Calm, env
  <1>9. CASE TakeTick
    BY <1>9, IdleCalm DEF TakeTick, GetCache, Calm, env
  <1>10. ASSUME NEW n, NEW next \in {"save", "mark"}, NEW rest, pc # "idle",
                ReconcileUnschedulableNode(n, next, rest), UNCHANGED <<env, store>>
         PROVE  Calm'
    BY <1>10, IdleCalm DEF ReconcileUnschedulableNode, Calm, env
  <1>11. CASE UpdateNode
    BY <1>10, <1>11, IdleCalm DEF UpdateNode, Calm, env, local
  <1>12. CASE \E n \in Node : MarkNode(n)
    BY <1>10, <1>12 DEF MarkNode
  <1>13. CASE RemoveDeleted \/ ListNodes \/ EndUnsaved
    BY <1>13, IdleCalm DEF RemoveDeleted, ListNodes, EndUnsaved, Calm, env
  <1>14. CASE Refresh \/ Removed \/ \E n \in Node : RemoveMissing(n)
    BY <1>14 DEF Refresh, Removed, RemoveMissing, Calm, env, local
  <1>15. CASE SaveCache
    BY <1>15 DEF SaveCache, Idle, Calm, env
  <1>16. QED
    BY <1>4, <1>5, <1>6, <1>7, <1>8, <1>9, <1>11, <1>12, <1>13, <1>14, <1>15
       DEF Next, Pass

(* Nothing makes an event fail.                                                  *)
LEMMA RemovalsSucceed ==
    ASSUME Faults \subseteq {"missed", "slow"}, Unreachable = {}, NEW n, NEW listed
    PROVE  ~RemoveFails(n, listed)
  BY DEF RemoveFails, SendFails, Resolvable

(* The ways through reconcileUnschedulableNode that are left: the node is known, *)
(* is remembered, or is marked after Dynatrace took the event.                   *)
LEMMA Reconciled ==
    ASSUME Faults \subseteq {"missed", "slow"}, Unreachable = {}, TypeOK, Calm,
           NEW n \in Node, NEW next, NEW rest, ReconcileUnschedulableNode(n, next, rest)
    PROVE  /\ pc' = next /\ UNCHANGED <<oas, nodes>>
           /\ \/ UNCHANGED <<cache, dirty, warned>>
              \/ \E o \in Listers(Now, n) :
                    /\ cache' = Remembered(n, o) /\ dirty' = (dirty \/ cache[n] = None)
                    /\ UNCHANGED warned
              \/ \E o \in Listers(Now, n) :
                    /\ IsMarkable(Remembered(n, o)[n])
                    /\ cache' = WithMark(Remembered(n, o), n) /\ dirty' = TRUE
                    /\ warned' = [warned EXCEPT ![n] = 0]
  <1>1. \A o \in Listers(Now, n), took \in BOOLEAN : ~SendFails(n, inst[o][n] = "ip", took)
    <2>1. \A o \in Listers(Now, n) : inst[o][n] = "ip"
      BY DEF Listers, Now, TypeOK, Calm, InstanceStates
    <2>2. QED
      BY <2>1 DEF SendFails, Resolvable
  <1>2. QED
    BY <1>1 DEF ReconcileUnschedulableNode, history

--------------------------------------------------------------------------------
(* Events for cordoned nodes *)

(* Copy c holds the mark of every event for a cordoned node that w dates within  *)
(* the last hour.                                                                *)
Marks(c, w) == \A n \in Node : w[n] <= Hour => c[n] # None /\ c[n].marked <= w[n]

(* So does the copy a handler works on, and the ConfigMap, unless the handler    *)
(* is going to write it.                                                         *)
WarnInv ==
    /\ pc # "idle" => Marks(cache, warned)
    /\ pc \in {"idle", "update"} \/ ~dirty => Marks(saved, warned)

Apart == \A n \in Node : warned'[n] = 0 /\ warned[n] # 0 => warned[n] > Hour

LEMMA MarksAged ==
    ASSUME NEW c \in Entries, NEW w \in [Node -> Ages], Marks(c, w)
    PROVE  Marks(Aged(c), [n \in Node |-> Older(w[n])])
  <1> SUFFICES ASSUME NEW n \in Node, Older(w[n]) <= Hour
               PROVE  Aged(c)[n] # None /\ Aged(c)[n].marked <= Older(w[n])
    BY DEF Marks
  <1>1. w[n] \in Ages /\ w[n] <= Hour
    BY HourAssumption DEF Older, Ages, Ancient
  <1>2. c[n] # None /\ c[n].marked <= w[n]
    BY <1>1 DEF Marks
  <1>3. c[n].marked \in Ages /\ Aged(c)[n] # None /\ Aged(c)[n].marked = Older(c[n].marked)
    BY <1>2, AgedEntry
  <1>4. QED
    BY <1>1, <1>2, <1>3, HourAssumption DEF Older, Ages, Ancient

(* Other nodes keep their entries, and a node that is remembered has one.        *)
LEMMA RememberedEntries ==
    ASSUME TypeOK, NEW n \in Node, NEW o \in Listers(Now, n)
    PROVE  /\ \A m \in Node : m # n \/ cache[m] # None => Remembered(n, o)[m] = cache[m]
           /\ Remembered(n, o)[n] # None
           /\ cache[n] = None => Remembered(n, o)[n].seen = 0
           /\ \A m \in Node : m # n => WithMark(Remembered(n, o), n)[m] = cache[m]
           /\ WithMark(Remembered(n, o), n)[n] # None
           /\ WithMark(Remembered(n, o), n)[n].marked = 0
           /\ WithMark(Remembered(n, o), n)[n].seen = Remembered(n, o)[n].seen
  <1>1. Remembered(n, o) \in Entries /\ Remembered(n, o)[n] # None
    BY RememberedType
  <1>2. \A m \in Node : m # n \/ cache[m] # None => Remembered(n, o)[m] = cache[m]
    BY DEF Remembered, TypeOK, Entries
  <1>3. cache[n] = None => Remembered(n, o)[n].seen = 0
    BY DEF Remembered, NewEntry, TypeOK, Entries
  <1>4. Remembered(n, o)[n] \in Entry
    BY <1>1 DEF Entries
  <1>5. \A m \in Node : m # n => WithMark(Remembered(n, o), n)[m] = cache[m]
    BY <1>1, <1>2 DEF WithMark, Entries
  <1>6. WithMark(Remembered(n, o), n)[n] = [Remembered(n, o)[n] EXCEPT !.marked = 0]
    BY <1>1 DEF WithMark, Entries
  <1>7. [Remembered(n, o)[n] EXCEPT !.marked = 0] \in Entry
    BY <1>4, AgesType DEF Entry
  <1>8. QED
    BY <1>1, <1>2, <1>3, <1>4, <1>5, <1>6, <1>7, NoneIsNoEntry DEF Entry

LEMMA MarksReconciled ==
    ASSUME Faults \subseteq {"missed", "slow"}, Unreachable = {}, TypeOK, Calm,
           Marks(cache, warned), NEW n \in Node, NEW next, NEW rest,
           ReconcileUnschedulableNode(n, next, rest)
    PROVE  /\ pc' = next /\ Marks(cache', warned') /\ Apart
           /\ dirty' \/ UNCHANGED <<dirty, warned>>
  <1>1. warned \in [Node -> Ages]
    BY DEF TypeOK
  <1>2. CASE UNCHANGED <<cache, dirty, warned>>
    BY <1>2, Reconciled DEF Apart, Marks
  <1>3. ASSUME NEW o \in Listers(Now, n), cache' = Remembered(n, o),
               dirty' = (dirty \/ cache[n] = None), UNCHANGED warned
        PROVE  Marks(cache', warned') /\ Apart /\ (dirty' \/ UNCHANGED <<dirty, warned>>)
    <2>1. \A m \in Node : warned[m] <= Hour => cache[m] # None /\ cache[m].marked <= warned[m]
      BY DEF Marks
    <2>2. Marks(cache', warned')
      BY <1>3, <2>1, RememberedEntries DEF Marks
    <2>3. QED
      BY <1>3, <2>2 DEF Apart, TypeOK
  <1>4. ASSUME NEW o \in Listers(Now, n), IsMarkable(Remembered(n, o)[n]),
               cache' = WithMark(Remembered(n, o), n), dirty' = TRUE,
               warned' = [warned EXCEPT ![n] = 0]
        PROVE  Marks(cache', warned') /\ Apart /\ dirty'
    <2>1. warned[n] > Hour
      <3>1. SUFFICES ASSUME warned[n] <= Hour PROVE FALSE
        BY <1>1, AgesType DEF Ages
      <3>2. cache[n] # None /\ cache[n].marked <= warned[n] /\ cache[n].marked > Hour
        BY <1>4, <3>1, RememberedEntries DEF Marks, IsMarkable, OverAnHour
      <3>3. cache[n].marked \in Int /\ warned[n] \in Int
        BY <1>1, <3>2, AgesType DEF TypeOK, Entries, Entry
      <3>4. QED
        BY <3>1, <3>2, <3>3, HourAssumption
    <2>2. Apart
      BY <1>1, <1>4, <2>1 DEF Apart
    <2>3. Marks(cache', warned')
      <3> SUFFICES ASSUME NEW m \in Node, warned'[m] <= Hour
                   PROVE  cache'[m] # None /\ cache'[m].marked <= warned'[m]
        BY DEF Marks
      <3>1. CASE m = n
        BY <1>1, <1>4, <3>1, RememberedEntries
      <3>2. CASE m # n
        BY <1>1, <1>4, <3>2, RememberedEntries DEF Marks
      <3>3. QED
        BY <3>1, <3>2
    <2>4. QED
      BY <1>4, <2>2, <2>3
  <1>5. QED
    BY <1>2, <1>3, <1>4, Reconciled

LEMMA MarksRemoved ==
    ASSUME TypeOK, Marks(cache, warned), NEW n \in Node, NEW listed, Removes(n, listed)
    PROVE  /\ Marks(cache', warned') /\ Apart
           /\ dirty' \/ UNCHANGED <<dirty, warned>>
  <1>1. CASE UNCHANGED <<cache, dirty, warned>>
    BY <1>1 DEF Apart, Marks
  <1>2. CASE Forget(n)
    <2>1. /\ cache' = [cache EXCEPT ![n] = None] /\ dirty' = TRUE
          /\ warned' = [warned EXCEPT ![n] = Ancient]
          /\ cache \in Entries /\ warned \in [Node -> Ages]
      BY <1>2 DEF Forget, TypeOK
    <2>2. Ancient > Hour /\ Ancient # 0
      BY HourAssumption DEF Ancient
    <2>3. Apart
      BY <2>1, <2>2 DEF Apart
    <2>4. Marks(cache', warned')
      <3>1. \A m \in Node : m # n => cache'[m] = cache[m] /\ warned'[m] = warned[m]
        BY <2>1 DEF Entries
      <3>2. ~(warned'[n] <= Hour)
        BY <2>1, <2>2, HourAssumption DEF Ancient
      <3>3. QED
        BY <3>1, <3>2 DEF Marks
    <2>5. QED
      BY <2>1, <2>3, <2>4
  <1>3. QED
    BY <1>1, <1>2 DEF Removes, history

LEMMA MarksRefreshed ==
    ASSUME TypeOK, Marks(cache, warned), NEW by \in [Node -> OneAgent]
    PROVE  Marks(Refreshed(by), warned)
  <1> SUFFICES ASSUME NEW n \in Node, warned[n] <= Hour
               PROVE  Refreshed(by)[n] # None /\ Refreshed(by)[n].marked <= warned[n]
    BY DEF Marks
  <1>1. cache[n] # None /\ cache[n].marked <= warned[n] /\ cache[n] \in Entry
    BY DEF Marks, TypeOK, Entries
  <1>2. CASE n \in nodes /\ Listers(oas, n) # {}
    <2> DEFINE e == [NewEntry(by[n], oas.inst[by[n]][n]) EXCEPT !.marked = cache[n].marked]
    <2>1. Refreshed(by)[n] = e
      BY <1>1, <1>2 DEF Refreshed
    <2>2. NewEntry(by[n], oas.inst[by[n]][n]) \in Entry
      <3>1. oas.inst[by[n]][n] \in InstanceStates
        BY DEF Listing, TypeOK
      <3>2. QED
        BY <3>1, NewEntryType
    <2>3. e \in Entry /\ e.marked = cache[n].marked
      BY <1>1, <2>2 DEF Entry
    <2>4. QED
      BY <1>1, <2>1, <2>3, NoneIsNoEntry
  <1>3. CASE ~(n \in nodes /\ Listers(oas, n) # {})
    BY <1>1, <1>3 DEF Refreshed
  <1>4. QED
    BY <1>2, <1>3

LEMMA WarnStep ==
    ASSUME Faults \subseteq {"missed", "slow"}, Unreachable = {},
           TypeOK, Calm, WarnInv, [Next]_vars
    PROVE  WarnInv' /\ Apart
  <1> USE DEF store, history
  <1>1. ASSUME UNCHANGED <<saved, cache, dirty, pc, warned>> PROVE WarnInv' /\ Apart
    BY <1>1 DEF WarnInv, Apart, Marks
  <1>2. ASSUME Idle, UNCHANGED <<saved, warned>>, pc \in {"idle", "update"} \/ ~dirty
        PROVE  WarnInv' /\ Apart
    BY <1>2 DEF Idle, WarnInv, Apart, Marks
  <1>3. ASSUME GetCache, pc = "idle", UNCHANGED <<saved, view, warned>>
        PROVE  WarnInv' /\ Apart
    BY <1>3 DEF GetCache, Calm, WarnInv, Apart, Marks
  <1>4. ASSUME Marks(cache', warned'), dirty' \/ UNCHANGED <<dirty, warned>>, UNCHANGED saved,
               pc # "idle", pc' \notin {"idle", "update"}
        PROVE  WarnInv'
    BY <1>4 DEF WarnInv, Marks
  <1>5. CASE Environment \/ Sync \/ UNCHANGED vars
    BY <1>1, <1>5
       DEF Environment, NodeDeleted, NodeAdded, NodeUpdated, InstanceChanged,
           OneAgentCreated, OneAgentDeleted, Sync, vars, local
  <1>6. CASE Tick
    <2>1. /\ saved' = Aged(saved) /\ cache' = Aged(cache)
          /\ warned' = [n \in Node |-> Older(warned[n])] /\ UNCHANGED <<pc, dirty>>
      BY <1>6 DEF Tick
    <2>2. saved \in Entries /\ cache \in Entries /\ warned \in [Node -> Ages]
      BY DEF TypeOK
    <2>3. WarnInv'
      BY <2>1, <2>2, MarksAged DEF WarnInv, Marks
    <2>4. \A n \in Node : warned[n] \in Ages /\ warned'[n] # 0
      BY <2>1, <2>2, HourAssumption DEF Older, Ages, Ancient
    <2>5. QED
      BY <2>3, <2>4 DEF Apart
  <1>7. CASE Crash
    BY <1>7 DEF Crash
  <1>8. CASE TakeUpdate \/ TakeDeletion
    BY <1>3, <1>8 DEF TakeUpdate, TakeDeletion, Handle
  <1>9. CASE TakeTick
    BY <1>3, <1>9 DEF TakeTick
  <1>10. CASE UpdateNode
    <2>1. pc = "update" /\ job \in Node /\ UNCHANGED saved
      BY <1>10 DEF UpdateNode, TypeOK
    <2>2. CASE Idle /\ UNCHANGED history
      BY <1>2, <2>1, <2>2
    <2>3. CASE pc' = "save" /\ UNCHANGED <<local, history>>
      BY <2>1, <2>3 DEF WarnInv, Apart, Marks, local
    <2>4. CASE ReconcileUnschedulableNode(job, "save", {})
      <3>1. Marks(cache, warned)
        BY <2>1 DEF WarnInv
      <3>2. QED
        BY <1>4, <2>1, <2>4, <3>1, MarksReconciled
    <2>5. QED
      BY <1>10, <2>2, <2>3, <2>4 DEF UpdateNode
  <1>11. CASE RemoveDeleted
    <2>1. /\ pc = "delete" /\ job \in Node /\ UNCHANGED saved
          /\ Removes(job, Now) /\ pc' = "save"
      BY <1>11, RemovalsSucceed DEF RemoveDeleted, TypeOK
    <2>2. Marks(cache, warned)
      BY <2>1 DEF WarnInv
    <2>3. QED
      BY <1>4, <2>1, <2>2, MarksRemoved
  <1>12. CASE ListNodes
    BY <1>12 DEF ListNodes, WarnInv, Apart, Marks
  <1>13. CASE \E n \in Node : MarkNode(n)
    <2>1. PICK n \in Node : MarkNode(n)
      BY <1>13
    <2>2. pc = "mark" /\ UNCHANGED saved /\ Marks(cache, warned)
      BY <2>1 DEF MarkNode, WarnInv
    <2>3. QED
      BY <1>4, <2>1, <2>2, MarksReconciled DEF MarkNode
  <1>14. CASE Refresh
    <2>1. PICK by \in [Node -> OneAgent] : cache' = Refreshed(by)
      BY <1>14 DEF Refresh
    <2>2. /\ pc = "mark" /\ pc' = "remove" /\ UNCHANGED <<saved, warned>>
          /\ dirty' \/ dirty' = dirty
      BY <1>14 DEF Refresh, TypeOK
    <2>3. Marks(cache', warned')
      BY <2>1, <2>2, MarksRefreshed DEF WarnInv
    <2>4. QED
      BY <1>4, <2>2, <2>3 DEF Apart
  <1>15. CASE \E n \in Node : RemoveMissing(n)
    <2>1. PICK n \in Node : RemoveMissing(n)
      BY <1>15
    <2>2. pc = "remove" /\ pc' = pc /\ UNCHANGED saved /\ Removes(n, oas)
      BY <2>1, RemovalsSucceed DEF RemoveMissing
    <2>3. Marks(cache, warned)
      BY <2>2 DEF WarnInv
    <2>4. QED
      BY <1>4, <2>2, <2>3, MarksRemoved
  <1>16. CASE Removed
    BY <1>16 DEF Removed, local, WarnInv, Apart, Marks
  <1>17. CASE SaveCache
    BY <1>17 DEF SaveCache, Idle, WarnInv, Apart, Marks
  <1>18. CASE EndUnsaved
    <2>1. pc = "save" /\ ~dirty /\ Idle /\ UNCHANGED <<saved, warned>>
      BY <1>18 DEF EndUnsaved, Calm
    <2>2. QED
      BY <1>2, <2>1
  <1>19. QED
    BY <1>5, <1>6, <1>7, <1>8, <1>9, <1>10, <1>11, <1>12, <1>13, <1>14, <1>15, <1>16,
       <1>17, <1>18 DEF Next, Pass

LEMMA CalmInit == Init => Calm
  <1>1. NoInstances \in [Node -> {"none"}]
    BY DEF NoInstances
  <1>2. QED
    BY <1>1 DEF Init, Calm

(* isMarkable and LastMarkedForTermination: when passes run to their end, the    *)
(* mark of an event reaches the ConfigMap and stays there, through updates,      *)
(* refreshes and the passes of other handlers, so that a node that stays         *)
(* cordoned is not reported again within the hour.                               *)
THEOREM EventsAreAnHourApart ==
    ASSUME Faults \subseteq {"missed", "slow"}, Unreachable = {}
    PROVE  Spec => EventsAnHourApart
  <1>1. Init => WarnInv
    <2> SUFFICES ASSUME Init PROVE WarnInv
      OBVIOUS
    <2>1. \A n \in Node : ~(warned[n] <= Hour)
      BY HourAssumption DEF Init, Ancient
    <2>2. QED
      BY <2>1 DEF WarnInv, Marks
  <1>2. TypeOK /\ Calm /\ WarnInv /\ [Next]_vars => WarnInv'
    BY WarnStep
  <1>3. TypeOK /\ Calm /\ [Next]_vars => Calm'
    BY CalmStep
  <1>4. TypeOK /\ Calm /\ WarnInv /\ [Next]_vars
        => [\A n \in Node : warned'[n] = 0 /\ warned[n] # 0 => warned[n] > Hour]_vars
    BY WarnStep DEF Apart
  <1>5. QED
    BY <1>1, <1>2, <1>3, <1>4, CalmInit, TypeCorrect, PTL DEF Spec, EventsAnHourApart

--------------------------------------------------------------------------------
(* Deleted nodes *)

(* An entry was last seen no earlier than the node was observed.                 *)
SeenOK(c, n) == c[n] # None => c[n].seen <= observed[n]

(* The nodes a periodic pass has found and is yet to enter.                      *)
Awaited == IF pc = "mark" THEN {n \in nodes : Listers(oas, n) # {}} ELSE {}

(* The copies of the cache are as recent as the last pass that found the node.   *)
SeenInv ==
    /\ observed \in [Node -> Ages]
    /\ \A n \in Node \ Awaited :
          /\ SeenOK(cache, n)
          /\ pc \notin {"remove", "save"} \/ ~dirty => SeenOK(saved, n)

LEMMA AgedSeen ==
    ASSUME NEW c \in Entries, NEW n \in Node, NEW a \in Ages,
           c[n] # None => c[n].seen <= a
    PROVE  Aged(c)[n] # None => Aged(c)[n].seen <= Older(a)
  <1> SUFFICES ASSUME c[n] # None PROVE Aged(c)[n].seen <= Older(a)
    BY DEF Aged
  <1>1. c[n] \in Entry
    BY DEF Entries
  <1>2. Aged(c)[n].seen = Older(c[n].seen) /\ c[n].seen \in Ages
    BY <1>1 DEF Aged, Entry
  <1>3. QED
    BY <1>2, HourAssumption DEF Older, Ages, Ancient

LEMMA SeenReconciled ==
    ASSUME Faults \subseteq {"missed", "slow"}, Unreachable = {}, TypeOK, Calm,
           observed \in [Node -> Ages], NEW n \in Node, NEW next, NEW rest,
           ReconcileUnschedulableNode(n, next, rest), NEW m \in Node, SeenOK(cache, m)
    PROVE  cache'[m] # None => cache'[m].seen <= observed[m]
  <1>1. observed[m] \in Ages /\ 0 <= observed[m]
    BY AgesType DEF Ages
  <1>2. ASSUME NEW o \in Listers(Now, n),
               cache' \in {Remembered(n, o), WithMark(Remembered(n, o), n)}
        PROVE  cache'[m] # None => cache'[m].seen <= observed[m]
    <2>1. CASE m # n \/ cache[m] # None
      <3>1. Remembered(n, o)[m] = cache[m]
        BY <2>1, RememberedEntries
      <3>2. CASE m # n
        BY <1>2, <3>2, RememberedEntries DEF SeenOK
      <3>3. CASE m = n
        BY <1>2, <2>1, <3>1, <3>3, RememberedEntries DEF SeenOK
      <3>4. QED
        BY <3>2, <3>3
    <2>2. CASE m = n /\ cache[n] = None
      BY <1>1, <1>2, <2>2, RememberedEntries
    <2>3. QED
      BY <2>1, <2>2
  <1>3. \/ cache' = cache
        \/ \E o \in Listers(Now, n) :
              cache' \in {Remembered(n, o), WithMark(Remembered(n, o), n)}
    BY Reconciled
  <1>4. QED
    BY <1>2, <1>3 DEF SeenOK

LEMMA SeenRefreshed ==
    ASSUME TypeOK, pc = "mark", observed \in [Node -> Ages],
           NEW by \in [Node -> OneAgent], NEW n \in Node,
           n \notin Awaited => SeenOK(cache, n)
    PROVE  Refreshed(by)[n] # None => Refreshed(by)[n].seen <= observed[n]
  <1>1. CASE n \in nodes /\ Listers(oas, n) # {}
    <2>1. Refreshed(by)[n].seen = 0
      BY <1>1 DEF Refreshed, NewEntry
    <2>2. QED
      BY <2>1, AgesType DEF Ages
  <1>2. CASE ~(n \in nodes /\ Listers(oas, n) # {})
    BY <1>2 DEF Refreshed, Awaited, SeenOK
  <1>3. QED
    BY <1>1, <1>2

LEMMA SeenStep ==
    ASSUME Faults \subseteq {"missed", "slow"}, Unreachable = {},
           TypeOK, Calm, SeenInv, [TimedNext]_timedVars
    PROVE  SeenInv'
  <1> USE DEF store, history
  <1>1. [Next]_vars
    BY DEF TimedNext, timedVars
  <1>2. observed' \in [Node -> Ages]
    BY AgesType DEF TimedNext, timedVars, Observe, SeenInv
  <1>3. CASE Tick
    <2>1. pc' = pc /\ nodes' = nodes /\ oas' = oas /\ dirty' = dirty
      BY <1>3 DEF Tick
    <2>2. saved' = Aged(saved) /\ cache' = Aged(cache)
      BY <1>3 DEF Tick
    <2>3. saved \in Entries /\ cache \in Entries /\ observed \in [Node -> Ages]
      BY DEF TypeOK, SeenInv
    <2>4. \/ \A n \in Node : observed'[n] = Older(observed[n])
          \/ UNCHANGED timedVars
      BY <1>3, <2>1 DEF TimedNext, Observe, Calm
    <2>5. CASE UNCHANGED timedVars
      BY <2>5 DEF timedVars, vars, local, SeenInv, SeenOK, Awaited
    <2>6. CASE \A n \in Node : observed'[n] = Older(observed[n])
      <3>1. Awaited' = Awaited
        BY <2>1 DEF Awaited, Listers
      <3>2. \A n \in Node : SeenOK(cache, n) => SeenOK(cache, n)'
        BY <2>2, <2>3, <2>6, AgedSeen DEF SeenOK
      <3>3. \A n \in Node : SeenOK(saved, n) => SeenOK(saved, n)'
        BY <2>2, <2>3, <2>6, AgedSeen DEF SeenOK
      <3>4. QED
        BY <1>2, <2>1, <3>1, <3>2, <3>3 DEF SeenInv
    <2>7. QED
      BY <2>4, <2>5, <2>6
  <1>4. CASE ListNodes /\ ~Tick
    <2>1. /\ pc = "list" /\ pc' = "mark" /\ UNCHANGED <<saved, cache, oas>>
      BY <1>4 DEF ListNodes
    <2>2. \A n \in Node : observed'[n] = IF n \in Awaited' THEN 0 ELSE observed[n]
      <3>1. Awaited' = {n \in nodes' : Listers(oas, n) # {}}
        BY <2>1 DEF Awaited, Listers
      <3>2. Observe
        BY <1>4, <2>1 DEF TimedNext, timedVars, vars
      <3>3. QED
        BY <1>4, <2>1, <3>1, <3>2 DEF Observe
    <2>3. Awaited = {}
      BY <2>1 DEF Awaited
    <2>4. QED
      BY <1>2, <2>1, <2>2, <2>3 DEF SeenInv, SeenOK
  <1>5. CASE ~ListNodes /\ ~Tick
    <2>1. observed' = observed
      <3>1. CASE UNCHANGED timedVars
        BY <3>1 DEF timedVars
      <3>2. CASE TimedNext
        <4>1. pc = "list" => nodes' = {} \/ UNCHANGED <<pc, nodes>>
          BY <1>5, <3>2
             DEF TimedNext, Next, Environment, NodeDeleted, NodeAdded, NodeUpdated,
                 InstanceChanged, OneAgentCreated, OneAgentDeleted, Sync, Crash, TakeUpdate,
                 TakeDeletion, TakeTick, Pass, UpdateNode, RemoveDeleted, Refresh, Removed,
                 MarkNode, RemoveMissing, SaveCache, EndUnsaved, Idle, local
        <4>2. \A n \in Node : observed'[n] = observed[n]
          BY <1>5, <3>2, <4>1 DEF TimedNext, Observe, Calm
        <4>3. observed \in [Node -> Ages]
          BY DEF SeenInv
        <4>4. QED
          BY <1>2, <4>2, <4>3
      <3>3. QED
        BY <3>1, <3>2
    <2> DEFINE Seen(c, n) == c[n] # None => c[n].seen <= observed[n]
    <2>2. ASSUME UNCHANGED <<saved, cache, dirty, pc, oas, nodes>> PROVE SeenInv'
      <3>1. Awaited' = Awaited
        BY <2>2 DEF Awaited, Listers
      <3>2. QED
        BY <2>1, <2>2, <3>1 DEF SeenInv, SeenOK
    <2>3. ASSUME Idle, \A n \in Node : Seen(saved', n) PROVE SeenInv'
      BY <2>1, <2>3 DEF Idle, NoEntries, SeenInv, SeenOK
    <2>4. ASSUME pc = "idle", pc' # "mark", GetCache, UNCHANGED saved PROVE SeenInv'
      <3>1. cache' = saved /\ Awaited = {} /\ Awaited' = {}
        BY <2>4 DEF GetCache, Calm, Awaited
      <3>2. QED
        BY <1>2, <2>1, <2>4, <3>1 DEF SeenInv, SeenOK
    <2>5. ASSUME \A n \in Node : Seen(cache', n), pc' # "mark", UNCHANGED saved,
                 ~dirty' => \A n \in Node : Seen(saved, n),
                 pc' \in {"remove", "save"}
          PROVE  SeenInv'
      <3>1. Awaited' = {}
        BY <2>5 DEF Awaited
      <3>2. QED
        BY <1>2, <2>1, <2>5, <3>1 DEF SeenInv, SeenOK
    <2>6. pc # "mark" =>
            /\ \A n \in Node : Seen(cache, n)
            /\ pc \notin {"remove", "save"} \/ ~dirty => \A n \in Node : Seen(saved, n)
      BY DEF SeenInv, SeenOK, Awaited
    <2> HIDE DEF Seen
    <2>7. CASE Environment \/ Sync \/ UNCHANGED vars
      BY <2>2, <2>7
         DEF Environment, NodeDeleted, NodeAdded, NodeUpdated, InstanceChanged,
             OneAgentCreated, OneAgentDeleted, Sync, vars, local
    <2>8. CASE TakeUpdate \/ TakeDeletion \/ TakeTick
      BY <2>4, <2>8 DEF TakeUpdate, TakeDeletion, TakeTick, Handle
    <2>9. CASE UpdateNode
      <3>1. pc = "update" /\ job \in Node /\ UNCHANGED saved
        BY <2>9 DEF UpdateNode, TypeOK
      <3>2. CASE Idle
        BY <2>3, <2>6, <3>1, <3>2
      <3>3. CASE pc' = "save" /\ UNCHANGED <<local, history>>
        BY <2>5, <2>6, <3>1, <3>3 DEF local
      <3>4. CASE ReconcileUnschedulableNode(job, "save", {})
        <4>1. \A n \in Node : Seen(cache', n)
          BY <2>6, <3>1, <3>4, SeenReconciled DEF Seen, SeenOK, SeenInv
        <4>2. pc' = "save" /\ (dirty' \/ dirty' = dirty)
          BY <3>1, <3>4, Reconciled DEF TypeOK
        <4>3. \A n \in Node : Seen(saved, n)
          BY <2>6, <3>1
        <4>4. QED
          BY <2>5, <3>1, <4>1, <4>2, <4>3
      <3>5. QED
        BY <2>9, <3>2, <3>3, <3>4 DEF UpdateNode
    <2>10. ASSUME NEW n \in Node, NEW listed, Removes(n, listed), UNCHANGED saved,
                  pc \in {"delete", "remove"}, pc' \in {"remove", "save"}
           PROVE  SeenInv'
      <3>1. \A m \in Node : cache'[m] \in {cache[m], None}
        BY <2>10 DEF Removes, Forget, TypeOK, Entries
      <3>2. \A m \in Node : Seen(cache', m)
        BY <2>6, <2>10, <3>1 DEF Seen
      <3>3. dirty' \/ dirty' = dirty
        BY <2>10 DEF Removes, Forget
      <3>4. pc = "delete" \/ ~dirty => \A m \in Node : Seen(saved, m)
        BY <2>6, <2>10
      <3>5. QED
        BY <2>5, <2>10, <3>2, <3>3, <3>4
    <2>11. CASE RemoveDeleted
      <3>1. /\ pc = "delete" /\ job \in Node /\ UNCHANGED saved
            /\ Removes(job, Now) /\ pc' = "save"
        BY <2>11, RemovalsSucceed DEF RemoveDeleted, TypeOK
      <3>2. QED
        BY <2>10, <3>1
    <2>12. CASE \E n \in Node : MarkNode(n)
      <3>1. PICK n \in Node : MarkNode(n)
        BY <2>12
      <3>2. /\ pc = "mark" /\ pc' = "mark" /\ UNCHANGED <<saved, oas, nodes>>
        BY <3>1, Reconciled DEF MarkNode
      <3>3. Awaited' = Awaited
        BY <3>2 DEF Awaited, Listers
      <3>4. \A m \in Node \ Awaited : SeenOK(cache, m) /\ SeenOK(saved, m)
        BY <3>2 DEF SeenInv
      <3>5. \A m \in Node \ Awaited : cache'[m] # None => cache'[m].seen <= observed[m]
        BY <3>1, <3>4, SeenReconciled DEF MarkNode, SeenInv
      <3>6. QED
        BY <1>2, <2>1, <3>2, <3>3, <3>4, <3>5 DEF SeenInv, SeenOK
    <2>13. CASE Refresh
      <3>1. PICK by \in [Node -> OneAgent] : cache' = Refreshed(by)
        BY <2>13 DEF Refresh
      <3>2. /\ pc = "mark" /\ pc' = "remove" /\ UNCHANGED saved
            /\ dirty' = (dirty \/ \E n \in nodes : Listers(oas, n) # {})
        BY <2>13 DEF Refresh
      <3>3. \A n \in Node : Seen(cache', n)
        BY <3>1, <3>2, SeenRefreshed DEF SeenInv, Seen
      <3>4. ~dirty' => Awaited = {}
        BY <3>2 DEF Awaited
      <3>5. ~dirty' => \A n \in Node : Seen(saved, n)
        BY <3>2, <3>4 DEF SeenInv, SeenOK, Seen
      <3>6. QED
        BY <2>5, <3>2, <3>3, <3>5
    <2>14. CASE \E n \in Node : RemoveMissing(n)
      <3>1. PICK n \in Node : RemoveMissing(n)
        BY <2>14
      <3>2. pc = "remove" /\ pc' = pc /\ UNCHANGED saved /\ Removes(n, oas)
        BY <3>1, RemovalsSucceed DEF RemoveMissing
      <3>3. QED
        BY <2>10, <3>2
    <2>15. CASE Removed
      BY <2>5, <2>6, <2>15 DEF Removed, local
    <2>16. CASE SaveCache
      <3>1. pc = "save" /\ saved' = cache /\ Idle
        BY <2>16 DEF SaveCache
      <3>2. QED
        BY <2>3, <2>6, <3>1
    <2>17. CASE EndUnsaved
      <3>1. pc = "save" /\ ~dirty /\ Idle /\ UNCHANGED saved
        BY <2>17 DEF EndUnsaved, Calm
      <3>2. QED
        BY <2>3, <2>6, <3>1
    <2>18. ~Crash
      BY DEF Crash
    <2>19. QED
      BY <1>1, <1>5, <2>7, <2>8, <2>9, <2>11, <2>12, <2>13, <2>14, <2>15, <2>16, <2>17,
         <2>18 DEF Next, Pass
  <1>6. QED
    BY <1>3, <1>4, <1>5

(* Observing changes nothing.                                                    *)
LEMMA ObserverOnlyWatches ==
    (TimedInit => Init) /\ ([TimedNext]_timedVars => [Next]_vars)
  BY DEF TimedInit, TimedNext, timedVars

(* removeNode and LastSeen: as long as passes run to their end, a node that one  *)
(* of them found in the cluster within the last hour does not leave the cache    *)
(* without an event that Dynatrace took within the last hour, although its       *)
(* deletion may have gone unnoticed and passes may take their time.              *)
THEOREM DeletedNodesAreAnnounced ==
    ASSUME Faults \subseteq {"missed", "slow"}, Unreachable = {}
    PROVE  TimedSpec => DeletedNodeIsAnnounced
  <1> DEFINE
        Announced == \A n \in Node :
            /\ Dropped(n) /\ n \notin Unreachable /\ observed[n] <= Hour
            /\ cache[n].ip /\ cache[n].oa \in Listed.live
            => told'[n] <= Hour
        TimedInv == TypeOK /\ Calm /\ MarkMeansTold /\ IdleIsEmpty /\ SeenInv
  <1>1. TimedInit => TimedInv
    <2> SUFFICES ASSUME TimedInit PROVE TimedInv
      OBVIOUS
    <2>1. Init /\ observed = [n \in Node |-> Ancient] /\ TypeOK /\ Calm
      BY TypeInit, CalmInit DEF TimedInit
    <2>2. MarkMeansTold /\ IdleIsEmpty
      BY <2>1, BackedNone DEF Init, MarkMeansTold, Backed, IdleIsEmpty
    <2>3. SeenInv
      BY <2>1, AgesType DEF Init, SeenInv, SeenOK, NoEntries
    <2>4. QED
      BY <2>1, <2>2, <2>3
  <1>2. TimedInv /\ [TimedNext]_timedVars => TimedInv'
    BY ObserverOnlyWatches, TypeStep, CalmStep, MarkStep, IdleStep, SeenStep
  <1>3. TimedInv /\ [TimedNext]_timedVars => [Announced]_timedVars
    <2> SUFFICES ASSUME TimedInv, [Next]_vars, NEW n \in Node, Dropped(n),
                        observed[n] <= Hour, cache[n].ip, cache[n].oa \in Listed.live
                 PROVE  told'[n] <= Hour
      BY ObserverOnlyWatches
    <2>1. /\ pc \in {"delete", "remove"}
          /\ Expendable(cache[n], Listed) \/ told'[n] <= Hour
      BY DropStep
    <2>2. cache[n] # None /\ cache[n] \in Entry /\ observed[n] \in Ages
      BY DEF Dropped, TypeOK, Entries, SeenInv
    <2>3. cache[n].seen <= observed[n]
      BY <2>1, <2>2 DEF SeenInv, SeenOK, Awaited
    <2>4. ~OverAnHour(cache[n].seen)
      BY <2>2, <2>3, AgesType DEF OverAnHour, Entry
    <2>5. QED
      BY <2>1, <2>4 DEF Expendable
  <1>4. QED
    BY <1>1, <1>2, <1>3, PTL DEF TimedSpec, DeletedNodeIsAnnounced
================================================================================
