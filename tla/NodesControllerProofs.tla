------------------------- MODULE NodesControllerProofs -------------------------
(***************************************************************************)
(* Proofs about NodesController, for any number of nodes and OneAgents,    *)
(* any length of the hour in ticks and any combination of failures that    *)
(* the theorem's hypotheses allow.                                         *)
(***************************************************************************)
EXTENDS NodesController, TLAPS

--------------------------------------------------------------------------------
(* Typing *)

LEMMA AgesType ==
    /\ 0 \in Ages /\ Ancient \in Ages /\ Hour \in Nat \ {0}
    /\ \A x \in Ages : Older(x) \in Ages /\ x \in Int
  BY HourAssumption DEF Ages, Ancient, Older

LEMMA AgedType == \A c \in Entries : Aged(c) \in Entries
  BY AgesType DEF Aged, Entries, Entry

LEMMA AgesOlder ==
    ASSUME NEW f \in [Node -> Ages]
    PROVE  [n \in Node |-> Older(f[n])] \in [Node -> Ages]
  BY AgesType

LEMMA AgeReset ==
    ASSUME NEW f \in [Node -> Ages], NEW n \in Node
    PROVE  [f EXCEPT ![n] = 0] \in [Node -> Ages] /\ [f EXCEPT ![n] = Ancient] \in [Node -> Ages]
  BY AgesType

LEMMA NoEntriesType == NoEntries \in Entries
  BY DEF NoEntries, Entries

LEMMA NoListingType == NoListing \in Listing
  BY DEF NoListing, Listing, NoInstances, InstanceStates

LEMMA NewEntryType ==
    ASSUME NEW o \in OneAgent, NEW s \in InstanceStates
    PROVE  NewEntry(o, s) \in Entry
  BY AgesType DEF NewEntry, Entry

LEMMA PutType ==
    ASSUME NEW c \in Entries, NEW n \in Node, NEW e \in Entry \cup {None}
    PROVE  [c EXCEPT ![n] = e] \in Entries
  BY DEF Entries

LEMMA WithMarkType ==
    ASSUME NEW c \in Entries, NEW n \in Node, c[n] # None
    PROVE  WithMark(c, n) \in Entries
  <1>1. c[n] \in Entry
    BY DEF Entries
  <1>2. [c[n] EXCEPT !.marked = 0] \in Entry
    BY <1>1, AgesType DEF Entry
  <1>3. WithMark(c, n) = [c EXCEPT ![n] = [c[n] EXCEPT !.marked = 0]]
    BY DEF WithMark
  <1>4. QED
    BY <1>2, <1>3, PutType

LEMMA IdleType ==
    ASSUME Idle
    PROVE  /\ cache' \in Entries /\ dirty' \in BOOLEAN /\ fresh' \in BOOLEAN
           /\ pc' = "idle" /\ job' = None /\ oas' \in Listing
           /\ nodes' \subseteq Node /\ todo' \subseteq Node
  BY NoEntriesType, NoListingType DEF Idle

LEMMA RememberedType ==
    ASSUME TypeOK, NEW n \in Node, NEW o \in Listers(Now, n)
    PROVE  Remembered(n, o) \in Entries /\ Remembered(n, o)[n] # None
  <1>1. o \in OneAgent /\ inst[o][n] \in InstanceStates
    BY DEF TypeOK, Listers, Now
  <1>2. NewEntry(o, inst[o][n]) \in Entry
    BY <1>1, NewEntryType
  <1>3. CASE cache[n] = None
    <2>1. Remembered(n, o) = [cache EXCEPT ![n] = NewEntry(o, inst[o][n])]
      BY <1>3 DEF Remembered
    <2>2. Remembered(n, o) \in Entries
      <3>1. cache \in Entries
        BY DEF TypeOK
      <3>2. QED
        BY <1>2, <2>1, <3>1, PutType
    <2>3. Remembered(n, o)[n] = NewEntry(o, inst[o][n])
      BY <2>1 DEF TypeOK, Entries
    <2>4. QED
      BY <1>2, <2>2, <2>3, NoneIsNoEntry
  <1>4. CASE cache[n] # None
    BY <1>4 DEF Remembered, TypeOK
  <1>5. QED
    BY <1>3, <1>4

(* The three ways through reconcileUnschedulableNode, for any label and any rest *)
(* of the loop.                                                                  *)
LEMMA ReconcileType ==
    ASSUME TypeOK, NEW n \in Node, NEW rest \in SUBSET Node, NEW next,
           ReconcileUnschedulableNode(n, next, rest)
    PROVE  /\ cache' \in Entries /\ dirty' \in BOOLEAN /\ fresh' \in BOOLEAN
           /\ \/ pc' = next /\ job' = job
              \/ pc' = "idle" /\ job' = None
           /\ oas' \in Listing /\ nodes' \subseteq Node /\ todo' \subseteq Node
           /\ told' \in [Node -> Ages] /\ warned' \in [Node -> Ages]
  <1>1. CASE Listers(Now, n) = {} /\ pc' = next /\ todo' = rest
             /\ UNCHANGED <<cache, dirty, job, fresh, oas, nodes, history>>
    BY <1>1 DEF TypeOK, history
  <1>2. CASE "read" \in Faults /\ Idle /\ UNCHANGED history
    BY <1>2, IdleType DEF TypeOK, history
  <1>3. ASSUME NEW o \in Listers(Now, n),
               ~IsMarkable(Remembered(n, o)[n]),
               cache' = Remembered(n, o), dirty' = (dirty \/ cache[n] = None),
               pc' = next, todo' = rest,
               UNCHANGED <<job, fresh, oas, nodes, history>>
        PROVE  /\ cache' \in Entries /\ dirty' \in BOOLEAN /\ fresh' \in BOOLEAN
               /\ pc' = next /\ job' = job
               /\ oas' \in Listing /\ nodes' \subseteq Node /\ todo' \subseteq Node
               /\ told' \in [Node -> Ages] /\ warned' \in [Node -> Ages]
    BY <1>3, RememberedType DEF TypeOK, history
  <1>4. ASSUME NEW o \in Listers(Now, n),
               SendOk(n, inst[o][n] = "ip"),
               cache' = WithMark(Remembered(n, o), n), dirty' = TRUE,
               warned' = [warned EXCEPT ![n] = 0],
               pc' = next, todo' = rest,
               UNCHANGED <<job, fresh, oas, nodes>>
        PROVE  /\ cache' \in Entries /\ dirty' \in BOOLEAN /\ fresh' \in BOOLEAN
               /\ pc' = next /\ job' = job
               /\ oas' \in Listing /\ nodes' \subseteq Node /\ todo' \subseteq Node
               /\ told' \in [Node -> Ages] /\ warned' \in [Node -> Ages]
    <2>1. cache' \in Entries
      BY <1>4, RememberedType, WithMarkType
    <2>2. told' \in [Node -> Ages] /\ warned' \in [Node -> Ages]
      BY <1>4, AgesType DEF TypeOK, SendOk
    <2>3. QED
      BY <1>4, <2>1, <2>2 DEF TypeOK
  <1>5. ASSUME NEW o \in Listers(Now, n), NEW took \in BOOLEAN,
               SendFails(n, inst[o][n] = "ip", took),
               warned' = IF took THEN [warned EXCEPT ![n] = 0] ELSE warned,
               Idle
        PROVE  told' \in [Node -> Ages] /\ warned' \in [Node -> Ages]
    BY <1>5, AgeReset DEF TypeOK, SendFails
  <1>6. QED
    BY <1>1, <1>2, <1>3, <1>4, <1>5, IdleType DEF ReconcileUnschedulableNode

LEMMA RemovesType ==
    ASSUME TypeOK, NEW n \in Node, NEW listed, Removes(n, listed)
    PROVE  /\ cache' \in Entries /\ dirty' \in BOOLEAN
           /\ told' \in [Node -> Ages] /\ warned' \in [Node -> Ages]
  <1>1. Forget(n) => cache' \in Entries /\ dirty' \in BOOLEAN /\ warned' \in [Node -> Ages]
    <2>1. cache \in Entries /\ warned \in [Node -> Ages]
      BY DEF TypeOK
    <2>2. [cache EXCEPT ![n] = None] \in Entries
      BY <2>1, PutType
    <2>3. QED
      BY <2>1, <2>2, AgeReset DEF Forget
  <1>2. SendOk(n, TRUE) => told' \in [Node -> Ages]
    BY AgeReset DEF SendOk, TypeOK
  <1>3. QED
    BY <1>1, <1>2 DEF Removes, TypeOK, history

LEMMA RemoveFailsType ==
    ASSUME TypeOK, NEW n \in Node, NEW listed, RemoveFails(n, listed)
    PROVE  cache[n] # None /\ told' \in [Node -> Ages]
  <1>1. told \in [Node -> Ages]
    BY DEF TypeOK
  <1>2. QED
    BY <1>1, AgeReset DEF RemoveFails, SendFails

(* TypeOK is inductive by itself.                                                *)
LEMMA TypeInit == Init => TypeOK
  <1> SUFFICES ASSUME Init PROVE TypeOK
    OBVIOUS
  <1>1. cluster \in [Node -> NodeStates]
    BY DEF Init, NodeStates
  <1>2. inst \in [OneAgent -> [Node -> InstanceStates]]
    BY DEF Init, NoInstances, InstanceStates
  <1>3. told \in [Node -> Ages] /\ warned \in [Node -> Ages]
    BY AgesType DEF Init
  <1>4. dels \in Seq(Node) /\ upds \in Seq(Node)
    BY DEF Init
  <1>5. QED
    BY <1>1, <1>2, <1>3, <1>4, NoEntriesType, NoListingType DEF Init, TypeOK

LEMMA TypeStep == TypeOK /\ [Next]_vars => TypeOK'
  <1> SUFFICES ASSUME TypeOK, [Next]_vars PROVE TypeOK'
    OBVIOUS
  <1> USE DEF TypeOK
  <1>1. ASSUME NEW n \in Node, NodeDeleted(n) PROVE TypeOK'
    <2>1. cluster' \in [Node -> NodeStates]
      BY <1>1 DEF NodeDeleted, NodeStates
    <2>2. dels' \in Seq(Node)
      BY <1>1 DEF NodeDeleted
    <2>3. QED
      BY <1>1, <2>1, <2>2 DEF NodeDeleted, store, local, history
  <1>2. ASSUME NEW n \in Node, NEW s \in NodeStates, NodeAdded(n, s) PROVE TypeOK'
    BY <1>2 DEF NodeAdded, store, channels, local, history
  <1>3. ASSUME NEW n \in Node, NEW s \in NodeStates, NodeUpdated(n, s) PROVE TypeOK'
    BY <1>3 DEF NodeUpdated, Notified, store, channels, local, history
  <1>4. ASSUME NEW o \in OneAgent, NEW n \in Node, NEW s \in InstanceStates,
               InstanceChanged(o, n, s)
        PROVE  TypeOK'
    BY <1>4 DEF InstanceChanged, store, channels, local, history
  <1>5. ASSUME NEW o \in OneAgent, OneAgentCreated(o) PROVE TypeOK'
    BY <1>5 DEF OneAgentCreated, store, channels, local, history
  <1>6. ASSUME NEW o \in OneAgent, OneAgentDeleted(o) PROVE TypeOK'
    <2>1. NoInstances \in [Node -> InstanceStates]
      BY DEF NoInstances, InstanceStates
    <2>2. inst' \in [OneAgent -> [Node -> InstanceStates]]
      BY <1>6, <2>1 DEF OneAgentDeleted
    <2>3. QED
      BY <1>6, <2>2 DEF OneAgentDeleted, store, channels, local, history
  <1>7. ASSUME Tick PROVE TypeOK'
    <2>1. saved \in Entries /\ view \in Entries /\ cache \in Entries
      OBVIOUS
    <2>2. told \in [Node -> Ages] /\ warned \in [Node -> Ages]
      OBVIOUS
    <2>3. saved' \in Entries /\ view' \in Entries /\ cache' \in Entries
      BY <1>7, <2>1, AgedType DEF Tick
    <2>4. told' \in [Node -> Ages]
      <3>1. told' = [n \in Node |-> Older(told[n])]
        BY <1>7 DEF Tick
      <3>2. QED
        BY <2>2, <3>1, AgesOlder
    <2>5. warned' \in [Node -> Ages]
      <3>1. warned' = [n \in Node |-> Older(warned[n])]
        BY <1>7 DEF Tick
      <3>2. QED
        BY <2>2, <3>1, AgesOlder
    <2>6. QED
      BY <1>7, <2>3, <2>4, <2>5 DEF Tick, env
  <1>8. ASSUME Sync PROVE TypeOK'
    BY <1>8 DEF Sync, env, channels, local, history
  <1>9. ASSUME Crash PROVE TypeOK'
    <2>1. dels' \in Seq(Node) /\ upds' \in Seq(Node)
      BY <1>9 DEF Crash
    <2>2. QED
      BY <1>9, <2>1, IdleType DEF Crash, env, history
  <1>10. ASSUME NEW n \in Node, NEW at \in {"update", "delete"}, Handle(n, at)
         PROVE  /\ cache' \in Entries /\ dirty' \in BOOLEAN /\ fresh' \in BOOLEAN
                /\ pc' \in {"idle", "update", "delete", "list", "mark", "remove", "save"}
                /\ job' \in Node \cup {None}
                /\ pc' \in {"update", "delete"} => job' \in Node
                /\ oas' \in Listing /\ nodes' \subseteq Node /\ todo' \subseteq Node
    BY <1>10, IdleType DEF Handle, GetCache
  <1>11. ASSUME TakeUpdate PROVE TypeOK'
    <2>1. Head(upds) \in Node /\ Tail(upds) \in Seq(Node)
      BY <1>11 DEF TakeUpdate
    <2>2. QED
      BY <1>10, <1>11, <2>1 DEF TakeUpdate, env, store, history
  <1>12. ASSUME TakeDeletion PROVE TypeOK'
    <2>1. Head(dels) \in Node /\ Tail(dels) \in Seq(Node)
      BY <1>12 DEF TakeDeletion
    <2>2. QED
      BY <1>10, <1>12, <2>1 DEF TakeDeletion, env, store, history
  <1>13. ASSUME TakeTick PROVE TypeOK'
    <2>1. Now \in Listing
      BY DEF Now, Listing
    <2>2. QED
      BY <1>13, <2>1, IdleType DEF TakeTick, GetCache, env, store, history
  <1>14. ASSUME UpdateNode PROVE TypeOK'
    <2>1. CASE Idle /\ UNCHANGED history
      BY <1>14, <2>1, IdleType DEF UpdateNode, env, store, channels, history
    <2>2. CASE pc' = "save" /\ UNCHANGED <<local, history>>
      BY <1>14, <2>2 DEF UpdateNode, env, store, channels, local, history
    <2>3. CASE ReconcileUnschedulableNode(job, "save", {})
      BY <1>14, <2>3, ReconcileType DEF UpdateNode, env, store, channels
    <2>4. QED
      BY <1>14, <2>1, <2>2, <2>3 DEF UpdateNode
  <1>15. ASSUME RemoveDeleted PROVE TypeOK'
    <2>1. job \in Node
      BY <1>15 DEF RemoveDeleted
    <2>2. CASE Removes(job, Now) /\ pc' = "save" /\ UNCHANGED <<job, fresh, oas, nodes, todo>>
      BY <1>15, <2>1, <2>2, RemovesType DEF RemoveDeleted, env, store, channels
    <2>3. CASE RemoveFails(job, Now) /\ Idle /\ UNCHANGED warned
      BY <1>15, <2>1, <2>3, RemoveFailsType, IdleType DEF RemoveDeleted, env, store, channels
    <2>4. CASE Idle /\ UNCHANGED history
      BY <1>15, <2>4, IdleType DEF RemoveDeleted, env, store, channels, history
    <2>5. QED
      BY <1>15, <2>2, <2>3, <2>4 DEF RemoveDeleted
  <1>16. ASSUME ListNodes PROVE TypeOK'
    BY <1>16, IdleType DEF ListNodes, env, store, channels, history
  <1>17. ASSUME Refresh PROVE TypeOK'
    <2>1. PICK by \in [Node -> OneAgent] :
            /\ \A n \in nodes : Listers(oas, n) # {} => by[n] \in Listers(oas, n)
            /\ cache' = Refreshed(by)
      BY <1>17 DEF Refresh
    <2>2. \A n \in Node : Refreshed(by)[n] \in Entry \cup {None}
      <3> TAKE n \in Node
      <3>1. oas.inst[by[n]][n] \in InstanceStates
        BY DEF Listing
      <3>2. NewEntry(by[n], oas.inst[by[n]][n]) \in Entry
        BY <3>1, NewEntryType
      <3>3. (IF cache[n] = None THEN Ancient ELSE cache[n].marked) \in Ages
        BY AgesType DEF Entries, Entry
      <3>4. QED
        BY <3>2, <3>3 DEF Refreshed, Entries, Entry
    <2>3. cache' \in Entries
      BY <2>1, <2>2 DEF Refreshed, Entries
    <2>4. QED
      BY <1>17, <2>3 DEF Refresh, Missing, Cached, env, store, channels, history
  <1>18. ASSUME Removed PROVE TypeOK'
    BY <1>18 DEF Removed, env, store, channels, local, history
  <1>19. ASSUME NEW n \in Node, MarkNode(n) PROVE TypeOK'
    BY <1>19, ReconcileType DEF MarkNode, env, store, channels
  <1>20. ASSUME NEW n \in Node, RemoveMissing(n) PROVE TypeOK'
    <2>1. CASE Removes(n, oas)
      BY <1>20, <2>1, RemovesType DEF RemoveMissing, env, store, channels
    <2>2. CASE RemoveFails(n, oas) /\ cache' = WithMark(cache, n) /\ dirty' = TRUE
               /\ UNCHANGED warned
      BY <1>20, <2>2, RemoveFailsType, WithMarkType DEF RemoveMissing, env, store, channels
    <2>3. QED
      BY <1>20, <2>1, <2>2 DEF RemoveMissing
  <1>21. ASSUME SaveCache PROVE TypeOK'
    BY <1>21, IdleType DEF SaveCache, env, channels, history
  <1>22. ASSUME EndUnsaved PROVE TypeOK'
    BY <1>22, IdleType DEF EndUnsaved, env, store, channels, history
  <1>23. ASSUME UNCHANGED vars PROVE TypeOK'
    BY <1>23 DEF vars, env, store, channels, local, history
  <1>24. QED
    BY <1>1, <1>2, <1>3, <1>4, <1>5, <1>6, <1>7, <1>8, <1>9, <1>11, <1>12, <1>13,
       <1>14, <1>15, <1>16, <1>17, <1>18, <1>19, <1>20, <1>21, <1>22, <1>23
       DEF Next, Environment, Pass

(* Every reachable state is well typed: in particular a handler of a deletion or *)
(* an update always has a node to work on, and no copy of the cache holds an     *)
(* age that the comparisons with an hour cannot tell.                            *)
THEOREM TypeCorrect == Spec => []TypeOK
  BY TypeInit, TypeStep, PTL DEF Spec

--------------------------------------------------------------------------------
(* What a mark stands for *)

(* Every mark in copy c is at least as old as the event that t dates.            *)
Backed(c, t) == \A n \in Node : c[n] # None => t[n] <= c[n].marked

LEMMA BackedMono ==
    ASSUME NEW c \in Entries, NEW t \in [Node -> Ages], NEW u \in [Node -> Ages],
           Backed(c, t), \A n \in Node : u[n] <= t[n]
    PROVE  Backed(c, u)
  <1> SUFFICES ASSUME NEW n \in Node, c[n] # None PROVE u[n] <= c[n].marked
    BY DEF Backed
  <1>1. t[n] <= c[n].marked /\ u[n] <= t[n]
    BY DEF Backed
  <1>2. c[n].marked \in Int /\ t[n] \in Int /\ u[n] \in Int
    BY AgesType DEF Entries, Entry
  <1>3. QED
    BY <1>1, <1>2

LEMMA BackedReset ==
    ASSUME NEW c \in Entries, NEW t \in [Node -> Ages], Backed(c, t), NEW m \in Node
    PROVE  Backed(c, [t EXCEPT ![m] = 0])
  <1>1. [t EXCEPT ![m] = 0] \in [Node -> Ages]
    BY AgeReset
  <1>2. \A n \in Node : [t EXCEPT ![m] = 0][n] <= t[n]
    BY AgesType DEF Ages
  <1>3. QED
    BY <1>1, <1>2, BackedMono

LEMMA BackedAged ==
    ASSUME NEW c \in Entries, NEW t \in [Node -> Ages], Backed(c, t)
    PROVE  Backed(Aged(c), [n \in Node |-> Older(t[n])])
  <1> SUFFICES ASSUME NEW n \in Node, Aged(c)[n] # None
               PROVE  Older(t[n]) <= Aged(c)[n].marked
    BY DEF Backed
  <1>1. c[n] # None /\ c[n] \in Entry
    BY DEF Aged, Entries
  <1>2. t[n] <= c[n].marked
    BY <1>1 DEF Backed
  <1>3. Aged(c)[n].marked = Older(c[n].marked)
    BY <1>1 DEF Aged, Entry
  <1>4. t[n] \in Ages /\ c[n].marked \in Ages
    BY <1>1 DEF Entry
  <1>5. QED
    BY <1>2, <1>3, <1>4, AgesType DEF Older, Ages, Ancient

LEMMA BackedNone == ASSUME NEW t PROVE Backed(NoEntries, t)
  BY DEF Backed, NoEntries

LEMMA BackedForgotten ==
    ASSUME NEW c \in Entries, NEW t, Backed(c, t), NEW m \in Node
    PROVE  Backed([c EXCEPT ![m] = None], t)
  BY DEF Backed, Entries

LEMMA BackedRemembered ==
    ASSUME TypeOK, Backed(cache, told), NEW n \in Node, NEW o \in Listers(Now, n)
    PROVE  Backed(Remembered(n, o), told)
  <1>1. CASE cache[n] # None
    BY <1>1 DEF Remembered
  <1>2. CASE cache[n] = None
    <2> SUFFICES ASSUME NEW m \in Node, Remembered(n, o)[m] # None
                 PROVE  told[m] <= Remembered(n, o)[m].marked
      BY DEF Backed
    <2>1. CASE m = n
      <3>1. Remembered(n, o)[m].marked = Ancient
        BY <1>2, <2>1 DEF Remembered, NewEntry, TypeOK, Entries
      <3>2. told[m] \in Ages
        BY DEF TypeOK
      <3>3. QED
        BY <3>1, <3>2, AgesType DEF Ages, Ancient
    <2>2. CASE m # n
      BY <1>2, <2>2 DEF Remembered, TypeOK, Entries, Backed
    <2>3. QED
      BY <2>1, <2>2
  <1>3. QED
    BY <1>1, <1>2

LEMMA BackedMarked ==
    ASSUME NEW c \in Entries, NEW t \in [Node -> Ages], Backed(c, t),
           NEW n \in Node, c[n] # None
    PROVE  Backed(WithMark(c, n), [t EXCEPT ![n] = 0])
  <1> SUFFICES ASSUME NEW m \in Node, WithMark(c, n)[m] # None
               PROVE  [t EXCEPT ![n] = 0][m] <= WithMark(c, n)[m].marked
    BY DEF Backed
  <1>1. CASE m = n
    <2>1. c[n] \in Entry
      BY DEF Entries
    <2>2. WithMark(c, n)[n].marked = 0
      BY <2>1 DEF WithMark, Entries, Entry
    <2>3. QED
      BY <1>1, <2>2
  <1>2. CASE m # n
    BY <1>2 DEF WithMark, Backed, Entries
  <1>3. QED
    BY <1>1, <1>2

LEMMA BackedReconciled ==
    ASSUME TypeOK, MarkMeansTold, NEW n \in Node, NEW rest, NEW next,
           ReconcileUnschedulableNode(n, next, rest), UNCHANGED store
    PROVE  MarkMeansTold'
  <1> USE DEF store
  <1>1. /\ saved \in Entries /\ view \in Entries /\ cache \in Entries
        /\ told \in [Node -> Ages]
        /\ Backed(saved, told) /\ Backed(view, told) /\ Backed(cache, told)
    BY DEF TypeOK, MarkMeansTold, Backed
  <1>2. ASSUME NEW took \in BOOLEAN, told' = IF took THEN [told EXCEPT ![n] = 0] ELSE told
        PROVE  Backed(saved', told') /\ Backed(view', told')
    BY <1>1, <1>2, BackedReset
  <1>3. Idle => Backed(cache', told')
    BY BackedNone DEF Idle
  <1>4. CASE UNCHANGED <<cache, history>>
    BY <1>1, <1>4 DEF history, MarkMeansTold, Backed
  <1>5. CASE Idle /\ UNCHANGED history
    BY <1>1, <1>3, <1>5 DEF history, MarkMeansTold, Backed
  <1>6. ASSUME NEW o \in Listers(Now, n), cache' = Remembered(n, o), UNCHANGED history
        PROVE  MarkMeansTold'
    BY <1>1, <1>6, BackedRemembered DEF history, MarkMeansTold, Backed
  <1>7. ASSUME NEW o \in Listers(Now, n), SendOk(n, inst[o][n] = "ip"),
               cache' = WithMark(Remembered(n, o), n)
        PROVE  MarkMeansTold'
    <2>1. told' = [told EXCEPT ![n] = 0]
      BY <1>7 DEF SendOk
    <2>2. Backed(Remembered(n, o), told)
      BY <1>1, BackedRemembered
    <2>3. Backed(cache', told')
      BY <1>1, <1>7, <2>1, <2>2, BackedMarked, RememberedType
    <2>4. Backed(saved', told') /\ Backed(view', told')
      BY <1>1, <2>1, BackedReset
    <2>5. QED
      BY <2>3, <2>4 DEF MarkMeansTold, Backed
  <1>8. ASSUME NEW o \in Listers(Now, n), NEW took \in BOOLEAN,
               SendFails(n, inst[o][n] = "ip", took), Idle
        PROVE  MarkMeansTold'
    <2>1. Backed(saved', told') /\ Backed(view', told')
      BY <1>2, <1>8 DEF SendFails
    <2>2. QED
      BY <1>3, <1>8, <2>1 DEF MarkMeansTold, Backed
  <1>9. QED
    BY <1>4, <1>5, <1>6, <1>7, <1>8 DEF ReconcileUnschedulableNode

LEMMA BackedRemoved ==
    ASSUME TypeOK, MarkMeansTold, NEW n \in Node, NEW listed,
           Removes(n, listed), UNCHANGED store
    PROVE  MarkMeansTold'
  <1> USE DEF store
  <1>1. /\ saved \in Entries /\ view \in Entries /\ cache \in Entries
        /\ told \in [Node -> Ages]
        /\ Backed(saved, told) /\ Backed(view, told) /\ Backed(cache, told)
    BY DEF TypeOK, MarkMeansTold, Backed
  <1>2. CASE UNCHANGED <<cache, dirty, history>>
    BY <1>1, <1>2 DEF history, MarkMeansTold, Backed
  <1>3. CASE Forget(n) /\ UNCHANGED told
    BY <1>1, <1>3, BackedForgotten DEF Forget, MarkMeansTold, Backed
  <1>4. CASE SendOk(n, TRUE) /\ Forget(n)
    <2>1. told' = [told EXCEPT ![n] = 0] /\ cache' = [cache EXCEPT ![n] = None]
      BY <1>4 DEF SendOk, Forget
    <2>2. cache' \in Entries /\ Backed(cache', told)
      BY <1>1, <2>1, BackedForgotten, PutType
    <2>3. Backed(cache', told') /\ Backed(saved', told') /\ Backed(view', told')
      BY <1>1, <2>1, <2>2, BackedReset
    <2>4. QED
      BY <2>3 DEF MarkMeansTold, Backed
  <1>5. QED
    BY <1>2, <1>3, <1>4 DEF Removes

(* Steps that leave the stored copies and the history alone, and a cache that is *)
(* unchanged, read from the informer, or given up.                               *)
LEMMA BackedKept ==
    ASSUME MarkMeansTold, UNCHANGED <<saved, view, told>>,
           cache' \in {cache, view, NoEntries}
    PROVE  MarkMeansTold'
  BY BackedNone DEF MarkMeansTold, Backed

LEMMA BackedRefreshed ==
    ASSUME TypeOK, MarkMeansTold, NEW by \in [Node -> OneAgent]
    PROVE  Backed(Refreshed(by), told)
  <1> SUFFICES ASSUME NEW n \in Node, Refreshed(by)[n] # None
               PROVE  told[n] <= Refreshed(by)[n].marked
    BY DEF Backed
  <1>1. CASE n \in nodes /\ Listers(oas, n) # {}
    <2>1. Refreshed(by)[n].marked = IF cache[n] = None THEN Ancient ELSE cache[n].marked
      BY <1>1 DEF Refreshed, NewEntry
    <2>2. told[n] <= Ancient
      BY AgesType DEF TypeOK, Ages, Ancient
    <2>3. cache[n] # None => told[n] <= cache[n].marked
      BY DEF MarkMeansTold
    <2>4. QED
      BY <2>1, <2>2, <2>3
  <1>2. CASE ~(n \in nodes /\ Listers(oas, n) # {})
    <2>1. Refreshed(by)[n] = cache[n]
      BY <1>2 DEF Refreshed
    <2>2. QED
      BY <2>1 DEF MarkMeansTold
  <1>3. QED
    BY <1>1, <1>2

LEMMA MarkStep ==
    ASSUME "send" \notin Faults, Unreachable = {},
           TypeOK, MarkMeansTold, [Next]_vars
    PROVE  MarkMeansTold'
  <1> USE DEF store
  <1>1. CASE Environment
    BY <1>1, BackedKept
       DEF Environment, NodeDeleted, NodeAdded, NodeUpdated, InstanceChanged,
           OneAgentCreated, OneAgentDeleted, local, history
  <1>2. CASE Tick
    <2>1. /\ saved \in Entries /\ view \in Entries /\ cache \in Entries
          /\ told \in [Node -> Ages]
          /\ Backed(saved, told) /\ Backed(view, told) /\ Backed(cache, told)
      BY DEF TypeOK, MarkMeansTold, Backed
    <2>2. told' = [n \in Node |-> Older(told[n])]
      BY <1>2 DEF Tick
    <2>3. Backed(saved', told') /\ Backed(view', told') /\ Backed(cache', told')
      BY <1>2, <2>1, <2>2, BackedAged DEF Tick
    <2>4. QED
      BY <2>3 DEF MarkMeansTold, Backed
  <1>3. CASE Sync
    BY <1>3 DEF Sync, local, history, MarkMeansTold
  <1>4. CASE Crash
    BY <1>4, BackedNone DEF Crash, Idle, history, MarkMeansTold, Backed
  <1>5. CASE TakeUpdate
    BY <1>5, BackedKept DEF TakeUpdate, Handle, GetCache, Idle, history
  <1>6. CASE TakeDeletion
    BY <1>6, BackedKept DEF TakeDeletion, Handle, GetCache, Idle, history
  <1>7. CASE TakeTick
    BY <1>7, BackedKept DEF TakeTick, GetCache, Idle, history
  <1>8. CASE UpdateNode
    <2>1. job \in Node
      BY <1>8 DEF UpdateNode, TypeOK
    <2>2. CASE Idle /\ UNCHANGED history
      BY <1>8, <2>2, BackedKept DEF UpdateNode, Idle, history
    <2>3. CASE UNCHANGED <<local, history>>
      BY <1>8, <2>3, BackedKept DEF UpdateNode, local, history
    <2>4. CASE ReconcileUnschedulableNode(job, "save", {})
      BY <1>8, <2>1, <2>4, BackedReconciled DEF UpdateNode
    <2>5. QED
      BY <1>8, <2>2, <2>3, <2>4 DEF UpdateNode
  <1>9. CASE RemoveDeleted
    <2>1. job \in Node
      BY <1>9 DEF RemoveDeleted, TypeOK
    <2>2. CASE Removes(job, Now)
      BY <1>9, <2>1, <2>2, BackedRemoved DEF RemoveDeleted
    <2>3. ~RemoveFails(job, Now)
      BY DEF RemoveFails, SendFails, Resolvable
    <2>4. CASE Idle /\ UNCHANGED history
      BY <1>9, <2>4, BackedKept DEF RemoveDeleted, Idle, history
    <2>5. QED
      BY <1>9, <2>2, <2>3, <2>4 DEF RemoveDeleted
  <1>10. CASE ListNodes
    BY <1>10, BackedKept DEF ListNodes, Idle, history
  <1>11. CASE \E n \in Node : MarkNode(n)
    BY <1>11, BackedReconciled DEF MarkNode
  <1>12. CASE Refresh
    <2>1. PICK by \in [Node -> OneAgent] : cache' = Refreshed(by)
      BY <1>12 DEF Refresh
    <2>2. UNCHANGED <<saved, view, told>>
      BY <1>12 DEF Refresh, history
    <2>3. Backed(cache', told')
      BY <2>1, <2>2, BackedRefreshed
    <2>4. QED
      BY <2>2, <2>3 DEF MarkMeansTold, Backed
  <1>13. CASE \E n \in Node : RemoveMissing(n)
    <2>1. PICK n \in Node : RemoveMissing(n)
      BY <1>13
    <2>2. ~RemoveFails(n, oas)
      BY DEF RemoveFails, SendFails, Resolvable
    <2>3. QED
      BY <2>1, <2>2, BackedRemoved DEF RemoveMissing
  <1>14. CASE Removed
    BY <1>14, BackedKept DEF Removed, local, history
  <1>15. CASE SaveCache
    <2>1. /\ saved' = cache /\ view' \in {view, cache} /\ cache' = NoEntries
          /\ told' = told
      BY <1>15 DEF SaveCache, Idle, history
    <2>2. QED
      BY <2>1, BackedNone DEF MarkMeansTold, Backed
  <1>16. CASE EndUnsaved
    BY <1>16, BackedKept DEF EndUnsaved, Idle, history
  <1>17. CASE UNCHANGED vars
    BY <1>17, BackedKept DEF vars, local, history
  <1>18. QED
    BY <1>1, <1>2, <1>3, <1>4, <1>5, <1>6, <1>7, <1>8, <1>9, <1>10, <1>11, <1>12,
       <1>13, <1>14, <1>15, <1>16, <1>17 DEF Next, Pass

(* As long as the Dynatrace API answers, a mark in the cache, wherever it is     *)
(* kept, is never younger than the last event that Dynatrace took for the node:  *)
(* crashes, refused writes, outdated reads and aborted passes cannot leave a     *)
(* mark behind that no event stands for.                                         *)
THEOREM MarksAreBacked ==
    ASSUME "send" \notin Faults, Unreachable = {}
    PROVE  Spec => []MarkMeansTold
  <1>1. Init => MarkMeansTold
    BY BackedNone DEF Init, MarkMeansTold, Backed
  <1>2. TypeOK /\ MarkMeansTold /\ [Next]_vars => MarkMeansTold'
    BY MarkStep
  <1>3. QED
    BY <1>1, <1>2, TypeCorrect, PTL DEF Spec

--------------------------------------------------------------------------------
(* What may leave the cache *)

(* Between handlers there is no working copy.                                    *)
IdleIsEmpty == pc = "idle" => cache = NoEntries

LEMMA IdleStep == IdleIsEmpty /\ [Next]_vars => IdleIsEmpty'
  <1> SUFFICES ASSUME IdleIsEmpty, [Next]_vars PROVE IdleIsEmpty'
    OBVIOUS
  <1>1. Aged(NoEntries) = NoEntries
    BY DEF Aged, NoEntries
  <1>2. Idle => IdleIsEmpty'
    BY DEF Idle, IdleIsEmpty
  <1>3. CASE Environment \/ Sync \/ UNCHANGED vars
    BY <1>3 DEF Environment, NodeDeleted, NodeAdded, NodeUpdated, InstanceChanged,
                OneAgentCreated, OneAgentDeleted, Sync, vars, local, IdleIsEmpty
  <1>4. CASE Tick
    BY <1>1, <1>4 DEF Tick, IdleIsEmpty
  <1>5. CASE Crash \/ TakeUpdate \/ TakeDeletion \/ TakeTick
    BY <1>2, <1>5 DEF Crash, TakeUpdate, TakeDeletion, TakeTick, Handle, IdleIsEmpty
  <1>6. ASSUME NEW n, NEW next \in {"save", "mark"}, NEW rest,
               ReconcileUnschedulableNode(n, next, rest)
        PROVE  IdleIsEmpty'
    BY <1>2, <1>6 DEF ReconcileUnschedulableNode, IdleIsEmpty
  <1>7. CASE UpdateNode
    BY <1>2, <1>6, <1>7 DEF UpdateNode, IdleIsEmpty
  <1>8. CASE RemoveDeleted \/ ListNodes \/ Refresh \/ Removed \/ SaveCache \/ EndUnsaved
    BY <1>2, <1>8 DEF RemoveDeleted, ListNodes, Refresh, Removed, SaveCache, EndUnsaved,
                      IdleIsEmpty
  <1>9. CASE \E n \in Node : MarkNode(n)
    BY <1>6, <1>9 DEF MarkNode
  <1>10. CASE \E n \in Node : RemoveMissing(n)
    BY <1>10 DEF RemoveMissing, IdleIsEmpty
  <1>11. QED
    BY <1>3, <1>4, <1>5, <1>7, <1>8, <1>9, <1>10 DEF Next, Pass

LEMMA ReconcileKeeps ==
    ASSUME TypeOK, NEW m \in Node, NEW next, NEW rest,
           ReconcileUnschedulableNode(m, next, rest), NEW n \in Node, Dropped(n)
    PROVE  FALSE
  <1>1. cache[n] # None /\ cache'[n] = None /\ ~Idle
    BY DEF Dropped, Idle
  <1>2. PICK o \in Listers(Now, m) : cache' \in {Remembered(m, o), WithMark(Remembered(m, o), m)}
    BY <1>1 DEF ReconcileUnschedulableNode
  <1>3. Remembered(m, o) \in Entries /\ Remembered(m, o)[m] # None
    BY RememberedType
  <1>4. Remembered(m, o)[n] # None
    BY <1>1, <1>3 DEF Remembered, TypeOK, Entries
  <1>5. WithMark(Remembered(m, o), m) \in Entries
    BY <1>3, WithMarkType
  <1>6. n # m => WithMark(Remembered(m, o), m)[n] = Remembered(m, o)[n]
    BY <1>3 DEF WithMark, Entries
  <1>7. WithMark(Remembered(m, o), m)[m] # None
    <2>1. Remembered(m, o)[m] \in Entry
      BY <1>3 DEF Entries
    <2>2. [Remembered(m, o)[m] EXCEPT !.marked = 0] \in Entry
      BY <2>1, AgesType DEF Entry
    <2>3. WithMark(Remembered(m, o), m)[m] = [Remembered(m, o)[m] EXCEPT !.marked = 0]
      BY <1>3 DEF WithMark, Entries
    <2>4. QED
      BY <2>2, <2>3, NoneIsNoEntry
  <1>8. QED
    BY <1>1, <1>2, <1>4, <1>6, <1>7

LEMMA RemovesJustified ==
    ASSUME TypeOK, MarkMeansTold, NEW m \in Node, NEW listed, Removes(m, listed),
           NEW n \in Node, Dropped(n)
    PROVE  Expendable(cache[n], listed) \/ told'[n] <= Hour
  <1>1. cache[n] # None /\ cache'[n] = None /\ cache[n] \in Entry
    BY DEF Dropped, TypeOK, Entries
  <1>2. CASE n # m
    BY <1>1, <1>2 DEF Removes, Forget, TypeOK, Entries, history
  <1>3. CASE n = m /\ SendOk(m, TRUE)
    BY <1>3, AgesType DEF SendOk, TypeOK
  <1>4. CASE n = m /\ UNCHANGED told /\ ~IsMarkable(cache[m])
    <2>1. told[n] <= cache[n].marked
      BY <1>1 DEF MarkMeansTold
    <2>2. cache[n].marked <= Hour
      BY <1>1, <1>4, AgesType DEF IsMarkable, OverAnHour, Entry
    <2>3. told[n] \in Int /\ cache[n].marked \in Int /\ Hour \in Int
      BY <1>1, AgesType DEF TypeOK, Entry
    <2>4. told[n] <= Hour
      BY <2>1, <2>2, <2>3
    <2>5. QED
      BY <1>4, <2>4
  <1>5. QED
    BY <1>1, <1>2, <1>3, <1>4 DEF Removes

LEMMA DropStep ==
    ASSUME "send" \notin Faults, Unreachable = {},
           TypeOK, MarkMeansTold, IdleIsEmpty, [Next]_vars, NEW n \in Node, Dropped(n)
    PROVE  /\ pc \in {"delete", "remove"}
           /\ Expendable(cache[n], Listed) \/ told'[n] <= Hour
  <1>1. cache[n] # None /\ cache'[n] = None /\ pc' # "idle" /\ cache' # cache /\ ~Idle
    BY DEF Dropped, Idle
  <1>2. pc # "idle"
    BY <1>1 DEF IdleIsEmpty, NoEntries
  <1>3. ~Tick
    <2>1. Tick => cache'[n] # None
      <3>1. Tick => cache'[n] = [cache[n] EXCEPT !.seen = Older(@), !.marked = Older(@)]
        BY <1>1 DEF Tick, Aged
      <3>2. [cache[n] EXCEPT !.seen = Older(@), !.marked = Older(@)] \in Entry
        <4>1. cache[n] \in Entry
          BY <1>1 DEF TypeOK, Entries
        <4>2. QED
          BY <4>1, AgesType DEF Entry
      <3>3. QED
        BY <3>1, <3>2, NoneIsNoEntry
    <2>2. QED
      BY <1>1, <2>1
  <1>4. ~Refresh
    <2>1. ASSUME NEW by \in [Node -> OneAgent], cache' = Refreshed(by)
          PROVE  cache'[n] # None
      <3>1. oas.inst[by[n]][n] \in InstanceStates
        BY DEF Listing, TypeOK
      <3>2. NewEntry(by[n], oas.inst[by[n]][n]) \in Entry
        BY <3>1, NewEntryType
      <3>3. cache[n].marked \in Ages
        BY <1>1 DEF TypeOK, Entries, Entry
      <3>4. [NewEntry(by[n], oas.inst[by[n]][n]) EXCEPT !.marked = cache[n].marked] \in Entry
        BY <3>2, <3>3 DEF Entry
      <3>5. QED
        BY <1>1, <2>1, <3>4, NoneIsNoEntry DEF Refreshed
    <2>2. QED
      BY <1>1, <2>1 DEF Refresh
  <1>5. CASE RemoveDeleted
    <2>1. job \in Node /\ Listed = Now
      BY <1>5 DEF RemoveDeleted, TypeOK, Listed
    <2>2. Removes(job, Now)
      BY <1>1, <1>5 DEF RemoveDeleted, RemoveFails, SendFails, Resolvable
    <2>3. QED
      BY <1>5, <2>1, <2>2, RemovesJustified DEF RemoveDeleted
  <1>6. ASSUME NEW m \in Node, RemoveMissing(m)
        PROVE  /\ pc \in {"delete", "remove"}
               /\ Expendable(cache[n], Listed) \/ told'[n] <= Hour
    <2>1. Listed = oas
      BY <1>6 DEF RemoveMissing, Listed
    <2>2. Removes(m, oas)
      BY <1>6 DEF RemoveMissing, RemoveFails, SendFails, Resolvable
    <2>3. QED
      BY <1>6, <2>1, <2>2, RemovesJustified DEF RemoveMissing
  <1>7. ASSUME NEW m \in Node, MarkNode(m) PROVE FALSE
    BY <1>7, ReconcileKeeps DEF MarkNode
  <1>8. ASSUME UpdateNode PROVE FALSE
    <2>1. job \in Node
      BY <1>8 DEF UpdateNode, TypeOK
    <2>2. QED
      BY <1>1, <1>8, <2>1, ReconcileKeeps DEF UpdateNode, local
  <1>9. ~(Environment \/ Sync \/ Crash \/ UNCHANGED vars)
    BY <1>1 DEF Environment, NodeDeleted, NodeAdded, NodeUpdated, InstanceChanged,
                OneAgentCreated, OneAgentDeleted, Sync, Crash, vars, local
  <1>10. ~(TakeUpdate \/ TakeDeletion \/ TakeTick)
    BY <1>2 DEF TakeUpdate, TakeDeletion, TakeTick
  <1>11. ~(ListNodes \/ Removed \/ SaveCache \/ EndUnsaved)
    BY <1>1 DEF ListNodes, Removed, SaveCache, EndUnsaved, local
  <1>12. QED
    BY <1>3, <1>4, <1>5, <1>6, <1>7, <1>8, <1>9, <1>10, <1>11 DEF Next, Pass

(* As long as the Dynatrace API answers, no entry leaves the cache in silence    *)
(* other than for the three reasons removeNode states, whatever else fails.      *)
THEOREM DropsAreJustified ==
    ASSUME "send" \notin Faults, Unreachable = {}
    PROVE  Spec => DropIsJustified
  <1>1. Init => IdleIsEmpty
    BY DEF Init, IdleIsEmpty
  <1>2. TypeOK /\ MarkMeansTold /\ IdleIsEmpty /\ [Next]_vars
        => [\A n \in Node :
              Dropped(n) => Expendable(cache[n], Listed) \/ told'[n] <= Hour]_vars
    BY DropStep
  <1>3. QED
    BY <1>1, <1>2, IdleStep, TypeCorrect, MarksAreBacked, PTL DEF Spec, DropIsJustified

--------------------------------------------------------------------------------
(* Writes of the ConfigMap *)

(* Copy c has a mark at least as recent as s wherever both have the node; and c  *)
(* has every node that s has.                                                    *)
AsRecent(c, s) ==
    \A n \in Node : c[n] # None /\ s[n] # None => c[n].marked <= s[n].marked
AsFull(c, s) == \A n \in Node : c[n] = None => s[n] = None

(* An informer in sync shows the ConfigMap.  A working copy that was read from   *)
(* it loses no mark, and loses no entry before the handler's removals.           *)
CopyOK ==
    /\ ~stale => view = saved
    /\ fresh => AsRecent(cache, saved)
    /\ fresh /\ pc \in {"update", "list", "mark"} => AsFull(cache, saved)

LEMMA SameCopy == ASSUME NEW c \in Entries PROVE AsRecent(c, c) /\ AsFull(c, c)
  BY AgesType DEF AsRecent, AsFull, Entries, Entry

LEMMA AgedEntry ==
    ASSUME NEW c \in Entries, NEW n \in Node
    PROVE  /\ c[n] = None <=> Aged(c)[n] = None
           /\ c[n] # None => c[n].marked \in Ages /\ Aged(c)[n].marked = Older(c[n].marked)
  <1>1. CASE c[n] = None
    BY <1>1 DEF Aged
  <1>2. CASE c[n] # None
    <2>1. c[n] \in Entry
      BY <1>2 DEF Entries
    <2>2. Aged(c)[n] = [c[n] EXCEPT !.seen = Older(@), !.marked = Older(@)]
      BY <1>2 DEF Aged
    <2>3. Aged(c)[n] \in Entry
      BY <2>1, <2>2, AgesType DEF Entry
    <2>4. QED
      BY <1>2, <2>1, <2>2, <2>3, NoneIsNoEntry DEF Entry
  <1>3. QED
    BY <1>1, <1>2

LEMMA CopyAged ==
    ASSUME NEW c \in Entries, NEW s \in Entries
    PROVE  /\ AsRecent(c, s) => AsRecent(Aged(c), Aged(s))
           /\ AsFull(c, s) => AsFull(Aged(c), Aged(s))
  <1>1. ASSUME AsRecent(c, s), NEW n \in Node, Aged(c)[n] # None, Aged(s)[n] # None
        PROVE  Aged(c)[n].marked <= Aged(s)[n].marked
    <2>1. c[n].marked \in Ages /\ s[n].marked \in Ages /\ c[n].marked <= s[n].marked
      BY <1>1, AgedEntry DEF AsRecent
    <2>2. QED
      BY <1>1, <2>1, AgedEntry, AgesType DEF Older, Ages, Ancient
  <1>2. QED
    BY <1>1, AgedEntry DEF AsRecent, AsFull

LEMMA CopyReconciled ==
    ASSUME TypeOK, CopyOK, NEW n \in Node, NEW next, NEW rest,
           ReconcileUnschedulableNode(n, next, rest), pc \in {"update", "mark"},
           UNCHANGED store
    PROVE  CopyOK'
  <1>1. Idle => CopyOK'
    BY DEF Idle, CopyOK, store
  <1>2. ASSUME ~Idle PROVE CopyOK'
    <2>1. fresh' = fresh /\ stale' = stale /\ view' = view /\ saved' = saved
      BY <1>2 DEF ReconcileUnschedulableNode, store
    <2>2. CASE cache' = cache
      BY <2>1, <2>2 DEF CopyOK
    <2>3. ASSUME NEW o \in Listers(Now, n),
                 \/ cache' = Remembered(n, o) /\ ~IsMarkable(Remembered(n, o)[n])
                 \/ cache' = WithMark(Remembered(n, o), n),
                 fresh
          PROVE  AsRecent(cache', saved) /\ AsFull(cache', saved)
      <3>1. AsRecent(cache, saved) /\ AsFull(cache, saved)
        BY <2>3 DEF CopyOK
      <3>2. Remembered(n, o) \in Entries /\ Remembered(n, o)[n] # None
        BY <2>3, RememberedType
      <3>3. \A m \in Node : m # n => cache'[m] = cache[m]
        BY <2>3, <3>2 DEF Remembered, WithMark, TypeOK, Entries
      <3>4. cache'[n] # None => (saved[n] # None => cache'[n].marked <= saved[n].marked)
        <4>1. CASE cache' = WithMark(Remembered(n, o), n)
          <5>1. cache'[n].marked = 0
            BY <3>2, <4>1 DEF WithMark, Entries, Entry
          <5>2. saved[n] # None => saved[n].marked >= 0
            BY AgesType DEF TypeOK, Entries, Entry, Ages
          <5>3. QED
            BY <5>1, <5>2
        <4>2. CASE cache[n] # None /\ cache' = Remembered(n, o)
          BY <3>1, <4>2 DEF Remembered, AsRecent
        <4>3. CASE cache[n] = None
          BY <3>1, <4>3 DEF AsFull
        <4>4. QED
          BY <2>3, <4>1, <4>2, <4>3
      <3>5. AsRecent(cache', saved)
        BY <3>1, <3>3, <3>4 DEF AsRecent
      <3>6. cache'[n] = None => saved[n] = None
        <4>1. CASE cache' = Remembered(n, o)
          BY <3>2, <4>1
        <4>2. CASE cache' = WithMark(Remembered(n, o), n)
          <5>1. WithMark(Remembered(n, o), n)[n] \in Entry
            <6>1. Remembered(n, o)[n] \in Entry
              BY <3>2 DEF Entries
            <6>2. QED
              BY <3>2, <6>1, AgesType DEF WithMark, Entries, Entry
          <5>2. QED
            BY <4>2, <5>1, NoneIsNoEntry
        <4>3. QED
          BY <2>3, <4>1, <4>2
      <3>7. QED
        BY <3>1, <3>3, <3>5, <3>6 DEF AsFull
    <2>4. QED
      BY <1>2, <2>1, <2>2, <2>3 DEF ReconcileUnschedulableNode, CopyOK
  <1>3. QED
    BY <1>1, <1>2

LEMMA CopyRemoved ==
    ASSUME TypeOK, CopyOK, NEW n \in Node, NEW listed,
           \/ Removes(n, listed)
           \/ cache[n] # None /\ cache' = WithMark(cache, n),
           UNCHANGED <<store, fresh>>, pc' \notin {"update", "list", "mark"}
    PROVE  CopyOK'
  <1>1. /\ cache \in Entries /\ saved \in Entries
        /\ fresh' = fresh /\ stale' = stale /\ view' = view /\ saved' = saved
    BY DEF TypeOK, store
  <1>2. ASSUME fresh PROVE AsRecent(cache', saved)
    <2>1. AsRecent(cache, saved)
      BY <1>2 DEF CopyOK
    <2>2. CASE Removes(n, listed)
      BY <1>1, <2>1, <2>2 DEF Removes, Forget, AsRecent, Entries
    <2>3. CASE cache[n] # None /\ cache' = WithMark(cache, n)
      <3>1. cache'[n].marked = 0
        BY <1>1, <2>3 DEF WithMark, Entries, Entry
      <3>2. saved[n] # None => saved[n].marked >= 0
        BY <1>1, AgesType DEF Entries, Entry, Ages
      <3>3. \A m \in Node : m # n => cache'[m] = cache[m]
        BY <1>1, <2>3 DEF WithMark, Entries
      <3>4. QED
        BY <2>1, <3>1, <3>2, <3>3 DEF AsRecent
    <2>4. QED
      BY <2>2, <2>3
  <1>3. QED
    BY <1>1, <1>2 DEF CopyOK

LEMMA CopyStep ==
    ASSUME TypeOK, CopyOK, [Next]_vars
    PROVE  CopyOK'
  <1> USE DEF store
  <1>1. Idle /\ UNCHANGED store => CopyOK'
    BY DEF Idle, CopyOK
  <1>2. UNCHANGED <<store, pc, cache, fresh>> => CopyOK'
    BY DEF CopyOK
  <1>3. GetCache /\ UNCHANGED store => CopyOK'
    <2> SUFFICES ASSUME GetCache, UNCHANGED store PROVE CopyOK'
      OBVIOUS
    <2>1. stale' = stale /\ view' = view /\ saved' = saved /\ cache' = view
      BY DEF GetCache
    <2>2. fresh' = ~stale
      BY DEF GetCache
    <2>3. CASE stale
      BY <2>1, <2>2, <2>3 DEF CopyOK
    <2>4. CASE ~stale
      <3>1. view = saved /\ cache' = saved' /\ saved' \in Entries
        BY <2>1, <2>4 DEF CopyOK, TypeOK
      <3>2. AsRecent(cache', saved') /\ AsFull(cache', saved')
        BY <3>1, SameCopy
      <3>3. QED
        BY <2>1, <3>1, <3>2 DEF CopyOK
    <2>5. QED
      BY <2>3, <2>4
  <1>4. CASE Environment \/ UNCHANGED vars
    BY <1>2, <1>4
       DEF Environment, NodeDeleted, NodeAdded, NodeUpdated, InstanceChanged,
           OneAgentCreated, OneAgentDeleted, vars, local
  <1>5. CASE Tick
    <2>1. cache \in Entries /\ saved \in Entries /\ view \in Entries
      BY DEF TypeOK
    <2>2. QED
      BY <1>5, <2>1, CopyAged DEF Tick, CopyOK
  <1>6. CASE Sync
    BY <1>6 DEF Sync, CopyOK, local
  <1>7. CASE Crash
    BY <1>7 DEF Crash, Idle, CopyOK
  <1>8. CASE TakeUpdate \/ TakeDeletion
    BY <1>1, <1>3, <1>8 DEF TakeUpdate, TakeDeletion, Handle
  <1>9. CASE TakeTick
    BY <1>1, <1>3, <1>9 DEF TakeTick
  <1>10. CASE UpdateNode
    <2>1. job \in Node
      BY <1>10 DEF UpdateNode, TypeOK
    <2>2. CASE pc' = "save" /\ UNCHANGED <<local, history>>
      BY <1>10, <2>2 DEF UpdateNode, CopyOK, local
    <2>3. CASE ReconcileUnschedulableNode(job, "save", {})
      BY <1>10, <2>1, <2>3, CopyReconciled DEF UpdateNode
    <2>4. QED
      BY <1>1, <1>10, <2>2, <2>3 DEF UpdateNode
  <1>11. CASE RemoveDeleted
    <2>1. job \in Node
      BY <1>11 DEF RemoveDeleted, TypeOK
    <2>2. CASE Removes(job, Now) /\ pc' = "save" /\ UNCHANGED <<job, fresh, oas, nodes, todo>>
      BY <1>11, <2>1, <2>2, CopyRemoved DEF RemoveDeleted
    <2>3. QED
      BY <1>1, <1>11, <2>2 DEF RemoveDeleted
  <1>12. CASE ListNodes
    BY <1>1, <1>12 DEF ListNodes, CopyOK
  <1>13. CASE \E n \in Node : MarkNode(n)
    BY <1>13, CopyReconciled DEF MarkNode
  <1>14. CASE Refresh
    <2>1. PICK by \in [Node -> OneAgent] : cache' = Refreshed(by)
      BY <1>14 DEF Refresh
    <2>2. /\ stale' = stale /\ view' = view /\ saved' = saved /\ fresh' = fresh
          /\ pc = "mark" /\ pc' = "remove"
      BY <1>14 DEF Refresh
    <2>3. ASSUME fresh, NEW n \in Node, cache'[n] # None, saved[n] # None
          PROVE  cache'[n].marked <= saved[n].marked
      <3>1. cache[n] # None /\ cache[n].marked <= saved[n].marked
        BY <2>2, <2>3 DEF CopyOK, AsRecent, AsFull
      <3>2. cache'[n].marked = cache[n].marked
        BY <2>1, <3>1 DEF Refreshed, NewEntry
      <3>3. QED
        BY <3>1, <3>2
    <2>4. QED
      BY <2>2, <2>3 DEF CopyOK, AsRecent
  <1>15. CASE \E n \in Node : RemoveMissing(n)
    <2>1. PICK n \in Node : RemoveMissing(n)
      BY <1>15
    <2>2. cache[n] # None \/ Removes(n, oas)
      BY <2>1 DEF RemoveMissing, RemoveFails
    <2>3. QED
      BY <2>1, <2>2, CopyRemoved DEF RemoveMissing
  <1>16. CASE Removed
    BY <1>16 DEF Removed, CopyOK, local
  <1>17. CASE SaveCache
    BY <1>17 DEF SaveCache, Idle, CopyOK
  <1>18. CASE EndUnsaved
    BY <1>1, <1>18 DEF EndUnsaved
  <1>19. QED
    BY <1>4, <1>5, <1>6, <1>7, <1>8, <1>9, <1>10, <1>11, <1>12, <1>13, <1>14, <1>15,
       <1>16, <1>17, <1>18 DEF Next, Pass

(* Under every failure, a mark that reached the ConfigMap is overwritten only by *)
(* one at least as recent: the API server's refusal of writes from outdated      *)
(* copies is all the controller needs.                                           *)
THEOREM NoMarkIsLost == Spec => SavedMarksAreKept
  <1>1. Init => CopyOK
    BY DEF Init, CopyOK
  <1>2. TypeOK /\ CopyOK /\ [Next]_vars
        => [\A n \in Node :
              pc = "save" /\ pc' = "idle" /\ saved[n] # None /\ saved'[n] # None
              => saved'[n].marked <= saved[n].marked]_vars
    <2> SUFFICES ASSUME TypeOK, CopyOK, [Next]_vars, NEW n \in Node,
                        pc = "save", pc' = "idle", saved[n] # None, saved'[n] # None
                 PROVE  saved'[n].marked <= saved[n].marked
      OBVIOUS
    <2>1. CASE SaveCache
      BY <2>1 DEF SaveCache, CopyOK, AsRecent
    <2>2. CASE saved' = saved
      <3>1. AsRecent(saved, saved)
        BY SameCopy DEF TypeOK
      <3>2. QED
        BY <2>2, <3>1 DEF AsRecent
    <2>3. Environment \/ Sync \/ Crash \/ UNCHANGED vars => saved' = saved
      BY DEF Environment, NodeDeleted, NodeAdded, NodeUpdated, InstanceChanged,
             OneAgentCreated, OneAgentDeleted, Sync, Crash, vars, store
    <2>4. ~Tick
      BY DEF Tick
    <2>5. ~(TakeUpdate \/ TakeDeletion \/ TakeTick)
      BY DEF TakeUpdate, TakeDeletion, TakeTick
    <2>6. Pass => SaveCache \/ saved' = saved
      BY DEF Pass, UpdateNode, RemoveDeleted, ListNodes, Refresh, Removed, MarkNode,
             RemoveMissing, EndUnsaved, store
    <2>7. QED
      BY <2>1, <2>2, <2>3, <2>4, <2>5, <2>6 DEF Next
  <1>3. TypeOK /\ CopyOK /\ [Next]_vars => CopyOK'
    BY CopyStep
  <1>4. QED
    BY <1>1, <1>2, <1>3, TypeCorrect, PTL DEF Spec, SavedMarksAreKept
================================================================================
