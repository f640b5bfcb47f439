---------------------------- MODULE NodesController ----------------------------
(***************************************************************************)
(* The nodes controller of the operator (controllers/nodes): one goroutine *)
(* that takes node deletions, node updates and periodic ticks from three   *)
(* channels, reads a cache kept in the ConfigMap dynatrace-node-cache,     *)
(* sends "marked for termination" events to Dynatrace for cordoned and     *)
(* deleted nodes, and writes the cache back.                               *)
(*                                                                         *)
(* Time is kept as ages that saturate just above one hour: both tests the  *)
(* code makes on its timestamps are "more than an hour ago", and the zero  *)
(* time of an entry that was never marked is such an age.                  *)
(*                                                                         *)
(* Operators named Bug... are defects the code could have had; no action   *)
(* uses them, they show which property would notice.                       *)
(***************************************************************************)
EXTENDS Integers, Sequences, FiniteSets

CONSTANTS
    Node,         \* names of the cluster's nodes
    OneAgent,     \* names of the OneAgent custom resources
    None,         \* model value: no cache entry, no node
    Hour,         \* length of an hour, in steps of the clock
    QueueCap,     \* bound: notifications pending in each channel
    Unreachable,  \* nodes whose IP Dynatrace never resolves to a host
    Faults        \* the failures that may happen, a subset of FaultKinds

(* "read": a read from the API server fails.  "send": the Dynatrace API fails,   *)
(* before or after it took the event.  "save": the write of the ConfigMap fails. *)
(* "crash": the process stops and is restarted.  "lag": the informer still shows *)
(* the ConfigMap as it was before the last write.  "missed": the informer hands  *)
(* over a tombstone for a deleted node, which the handler drops.  "slow": time   *)
(* passes although the periodic pass is still due or running.  "noip": a OneAgent    *)
(* lists an instance whose IP is not known yet.                                  *)
FaultKinds == {"read", "send", "save", "crash", "lag", "missed", "slow", "noip"}

ASSUME HourAssumption == Hour \in Nat \ {0}
ASSUME NoneAssumption == None \notin Node
ASSUME FaultsAssumption == Faults \subseteq FaultKinds

VARIABLES
    cluster,   \* what the API server knows of each node
    live,      \* the OneAgent resources that exist
    inst,      \* Status.Instances: per OneAgent and node "none", "noip" or "ip"
    saved,     \* the ConfigMap's entries
    created,   \* whether the ConfigMap exists
    view,      \* the ConfigMap's entries as the client's informer shows them
    stale,     \* whether a write of the ConfigMap has not reached the informer
    dels, upds, tick,       \* the three channels: chDels, chUpdates, chAll
    pc,        \* where the goroutine is
    job,       \* the node it handles, or None in a periodic pass
    cache,     \* the Cache object it works on
    dirty,     \* Cache.Changed()
    fresh,     \* whether the Cache object was read from an informer in sync
    oas,       \* the OneAgents listed at the start of the pass
    nodes,     \* the nodes listed in the pass
    todo,      \* what is left of the loop the pass is in
    told,      \* history: age of the last event Dynatrace took, per node
    warned     \* history: the same, of events sent because the node was
               \* cordoned, and only since a handler last dropped the node

env == <<cluster, live, inst>>
store == <<saved, created, view, stale>>
channels == <<dels, upds, tick>>
local == <<job, cache, dirty, fresh, oas, nodes, todo>>
history == <<told, warned>>
vars == <<env, store, channels, pc, local, history>>

--------------------------------------------------------------------------------
(* Data *)

Ages == 0 .. Hour + 1
Ancient == Hour + 1                    \* more than an hour ago, or never
Older(a) == IF a = Ancient THEN a ELSE a + 1
OverAnHour(a) == a > Hour

NodeStates == {"absent", "schedulable", "unschedulable"}
InstanceStates == {"none", "noip", "ip"}

(* CacheEntry: the OneAgent, whether the IP is known, LastSeen and               *)
(* LastMarkedForTermination.                                                     *)
Entry == [oa : OneAgent, ip : BOOLEAN, seen : Ages, marked : Ages]
ASSUME NoneIsNoEntry == None \notin Entry
Entries == [Node -> Entry \cup {None}]
NoEntries == [n \in Node |-> None]
NoInstances == [n \in Node |-> "none"]
Listing == [live : SUBSET OneAgent, inst : [OneAgent -> [Node -> InstanceStates]]]
NoListing == [live |-> {}, inst |-> [o \in OneAgent |-> NoInstances]]

Cached(c) == {n \in Node : c[n] # None}                              \* Cache.Keys
BugNewEntryMarked(o, s) == [oa |-> o, ip |-> s = "ip", seen |-> 0, marked |-> 0]
NewEntry(o, s) == [oa |-> o, ip |-> s = "ip", seen |-> 0, marked |-> Ancient]
IsMarkable(e) == OverAnHour(e.marked)
Aged(c) == [n \in Node |-> IF c[n] = None THEN None
                           ELSE [c[n] EXCEPT !.seen = Older(@), !.marked = Older(@)]]

(* The OneAgents that list an instance on node n in what was listed.            *)
Listers(listed, n) == {o \in listed.live : listed.inst[o][n] # "none"}
Now == [live |-> live, inst |-> inst]
Unschedulable(n) == cluster[n] = "unschedulable"

--------------------------------------------------------------------------------
(* The cluster and the OneAgent resources, which other programs change.  The     *)
(* informer has handlers for updates and deletions of nodes, none for additions. *)

Notified(n) == Len(upds) < QueueCap /\ upds' = Append(upds, n)

NodeAdded(n, s) ==
    /\ cluster[n] = "absent" /\ s # "absent"
    /\ cluster' = [cluster EXCEPT ![n] = s]
    /\ UNCHANGED <<live, inst, store, channels, pc, local, history>>

(* Any update: a cordon, an uncordon, or a heartbeat that leaves the node alone. *)
NodeUpdated(n, s) ==
    /\ cluster[n] # "absent" /\ s # "absent"
    /\ Notified(n)
    /\ cluster' = [cluster EXCEPT ![n] = s]
    /\ UNCHANGED <<live, inst, store, dels, tick, pc, local, history>>

NodeDeleted(n) ==
    /\ cluster[n] # "absent"
    /\ \/ Len(dels) < QueueCap /\ dels' = Append(dels, n)
       \/ "missed" \in Faults /\ dels' = dels
    /\ cluster' = [cluster EXCEPT ![n] = "absent"]
    /\ UNCHANGED <<live, inst, store, upds, tick, pc, local, history>>

InstanceChanged(o, n, s) ==
    /\ o \in live /\ inst[o][n] # s
    /\ s = "noip" => "noip" \in Faults
    /\ inst' = [inst EXCEPT ![o][n] = s]
    /\ UNCHANGED <<cluster, live, store, channels, pc, local, history>>

OneAgentCreated(o) ==
    /\ o \notin live
    /\ live' = live \cup {o}
    /\ UNCHANGED <<cluster, inst, store, channels, pc, local, history>>

OneAgentDeleted(o) ==
    /\ o \in live
    /\ live' = live \ {o}
    /\ inst' = [inst EXCEPT ![o] = NoInstances]
    /\ UNCHANGED <<cluster, store, channels, pc, local, history>>

(* One step of the clock is one period of watchTicks.  The channel holds one     *)
(* tick; a further one is dropped.                                               *)
Tick ==
    /\ "slow" \in Faults \/ (pc = "idle" /\ ~tick)
    /\ tick' = TRUE
    /\ saved' = Aged(saved) /\ view' = Aged(view) /\ cache' = Aged(cache)
    /\ warned' = [n \in Node |-> Older(warned[n])]
    /\ told' = [n \in Node |-> Older(told[n])]
    /\ UNCHANGED <<env, created, stale, dels, upds, pc, job, dirty, fresh, oas, nodes, todo>>

Sync ==
    /\ stale
    /\ view' = saved /\ stale' = FALSE
    /\ UNCHANGED <<env, saved, created, channels, pc, local, history>>

--------------------------------------------------------------------------------
(* The goroutine *)

Idle ==
    /\ pc' = "idle" /\ job' = None
    /\ cache' = NoEntries /\ dirty' = FALSE /\ fresh' = FALSE
    /\ oas' = NoListing /\ nodes' = {} /\ todo' = {}

GetCache == cache' = view /\ dirty' = ~created /\ fresh' = ~stale

BugHandleWithoutNode(n, at) ==
    \/ /\ pc' = at /\ GetCache
       /\ UNCHANGED <<job, oas, nodes, todo>>
    \/ "read" \in Faults /\ Idle

(* A handler that is handed node n reads the cache, or fails to.                 *)
Handle(n, at) ==
    \/ /\ pc' = at /\ job' = n /\ GetCache
       /\ UNCHANGED <<oas, nodes, todo>>
    \/ "read" \in Faults /\ Idle

TakeUpdate ==
    /\ pc = "idle" /\ upds # <<>>
    /\ upds' = Tail(upds)
    /\ Handle(Head(upds), "update")
    /\ UNCHANGED <<env, store, dels, tick, history>>

TakeDeletion ==
    /\ pc = "idle" /\ dels # <<>>
    /\ dels' = Tail(dels)
    /\ Handle(Head(dels), "delete")
    /\ UNCHANGED <<env, store, upds, tick, history>>

(* reconcileAll up to the list of nodes: it lists the OneAgents, reads the cache.*)
TakeTick ==
    /\ pc = "idle" /\ tick
    /\ tick' = FALSE
    /\ \/ /\ pc' = "list" /\ oas' = Now /\ GetCache
          /\ UNCHANGED <<job, nodes, todo>>
       \/ "read" \in Faults /\ Idle
    /\ UNCHANGED <<env, store, dels, upds, history>>

Resolvable(n, ip) == ip /\ n \notin Unreachable

(* Outcomes of sendMarkedForTermination: Dynatrace may have taken the event      *)
(* although the request failed.                                                  *)
SendOk(n, ip) ==
    /\ Resolvable(n, ip)
    /\ told' = [told EXCEPT ![n] = 0]

SendFails(n, ip, took) ==
    /\ ~Resolvable(n, ip) \/ "send" \in Faults
    /\ took => Resolvable(n, ip)
    /\ told' = IF took THEN [told EXCEPT ![n] = 0] ELSE told

WithMark(c, n) == [c EXCEPT ![n].marked = 0]
Remembered(n, o) ==
    IF cache[n] = None THEN [cache EXCEPT ![n] = NewEntry(o, inst[o][n])] ELSE cache

(* For a node found unschedulable: the pass goes on at the label next, or ends   *)
(* with its cache unsaved when an event cannot be sent.                          *)
ReconcileUnschedulableNode(n, next, rest) ==
    \/ /\ Listers(Now, n) = {}
       /\ pc' = next /\ todo' = rest
       /\ UNCHANGED <<cache, dirty, job, fresh, oas, nodes, history>>
    \/ \E o \in Listers(Now, n) :
          LET c == Remembered(n, o) IN
          \/ /\ ~IsMarkable(c[n])
             /\ cache' = c /\ dirty' = (dirty \/ cache[n] = None)
             /\ pc' = next /\ todo' = rest
             /\ UNCHANGED <<job, fresh, oas, nodes, history>>
          \/ /\ IsMarkable(c[n]) /\ SendOk(n, inst[o][n] = "ip")
             /\ cache' = WithMark(c, n) /\ dirty' = TRUE
             /\ warned' = [warned EXCEPT ![n] = 0]
             /\ pc' = next /\ todo' = rest
             /\ UNCHANGED <<job, fresh, oas, nodes>>
          \/ \E took \in BOOLEAN :
             /\ IsMarkable(c[n]) /\ SendFails(n, inst[o][n] = "ip", took)
             /\ warned' = IF took THEN [warned EXCEPT ![n] = 0] ELSE warned
             /\ Idle
    \/ "read" \in Faults /\ Idle /\ UNCHANGED history

(* updateNode: the node is read again, a node that is gone is an error.          *)
UpdateNode ==
    /\ pc = "update"
    /\ \/ /\ cluster[job] = "absent" \/ "read" \in Faults
          /\ Idle /\ UNCHANGED history
       \/ /\ cluster[job] = "schedulable"
          /\ pc' = "save"
          /\ UNCHANGED <<local, history>>
       \/ Unschedulable(job) /\ ReconcileUnschedulableNode(job, "save", {})
    /\ UNCHANGED <<env, store, channels>>

(* removeNode, with the OneAgents that oaFunc finds in listed.  An event that    *)
(* fails leaves the entry in place, marked.                                      *)
Expendable(e, listed) == OverAnHour(e.seen) \/ ~e.ip \/ e.oa \notin listed.live
Forget(n) ==
    /\ cache' = [cache EXCEPT ![n] = None] /\ dirty' = TRUE
    /\ warned' = [warned EXCEPT ![n] = Ancient]

BugRemovesUnannounced(n, listed) ==
    \/ cache[n] = None /\ UNCHANGED <<cache, dirty, history>>
    \/ cache[n] # None /\ Forget(n) /\ UNCHANGED told

Removes(n, listed) ==
    \/ cache[n] = None /\ UNCHANGED <<cache, dirty, history>>
    \/ /\ cache[n] # None
       /\ Expendable(cache[n], listed) \/ ~IsMarkable(cache[n])
       /\ Forget(n) /\ UNCHANGED told
    \/ /\ cache[n] # None /\ ~Expendable(cache[n], listed) /\ IsMarkable(cache[n])
       /\ SendOk(n, TRUE) /\ Forget(n)

RemoveFails(n, listed) ==
    /\ cache[n] # None /\ ~Expendable(cache[n], listed) /\ IsMarkable(cache[n])
    /\ \E took \in BOOLEAN : SendFails(n, TRUE, took)

RemoveDeleted ==
    /\ pc = "delete"
    /\ \/ /\ Removes(job, Now) /\ pc' = "save"
          /\ UNCHANGED <<job, fresh, oas, nodes, todo>>
       \/ RemoveFails(job, Now) /\ Idle /\ UNCHANGED warned
       \/ "read" \in Faults /\ Idle /\ UNCHANGED history
    /\ UNCHANGED <<env, store, channels>>

ListNodes ==
    /\ pc = "list"
    /\ \/ /\ nodes' = {n \in Node : cluster[n] # "absent"}
          /\ todo' = {n \in Node : Unschedulable(n)}
          /\ pc' = "mark"
          /\ UNCHANGED <<job, cache, dirty, fresh, oas>>
       \/ "read" \in Faults /\ Idle
    /\ UNCHANGED <<env, store, channels, history>>

MarkNode(n) ==
    /\ pc = "mark" /\ n \in todo
    /\ ReconcileUnschedulableNode(n, "mark", todo \ {n})
    /\ UNCHANGED <<env, store, channels>>

(* Every node with an instance is entered or refreshed; of several OneAgents     *)
(* that list it the last one in map order wins.                                  *)
BugRefreshedKeepsLastSeen(by) == [n \in Node |->
    IF n \in nodes /\ Listers(oas, n) # {} /\ cache[n] = None
    THEN NewEntry(by[n], oas.inst[by[n]][n])
    ELSE cache[n]]

BugRefreshedDropsMark(by) == [n \in Node |->
    IF n \in nodes /\ Listers(oas, n) # {}
    THEN NewEntry(by[n], oas.inst[by[n]][n])
    ELSE cache[n]]

Refreshed(by) == [n \in Node |->
    IF n \in nodes /\ Listers(oas, n) # {}
    THEN [NewEntry(by[n], oas.inst[by[n]][n]) EXCEPT
            !.marked = IF cache[n] = None THEN Ancient ELSE cache[n].marked]
    ELSE cache[n]]

BugMissingNone(c) == {}
Missing(c) == Cached(c) \ nodes

Refresh ==
    /\ pc = "mark" /\ todo = {}
    /\ \E by \in [Node -> OneAgent] :
          /\ \A n \in nodes : Listers(oas, n) # {} => by[n] \in Listers(oas, n)
          /\ cache' = Refreshed(by)
    /\ dirty' = (dirty \/ \E n \in nodes : Listers(oas, n) # {})
    /\ todo' = Missing(cache')
    /\ pc' = "remove"
    /\ UNCHANGED <<env, store, channels, job, fresh, oas, nodes, history>>

RemoveMissing(n) ==
    /\ pc = "remove" /\ n \in todo
    /\ todo' = todo \ {n}
    /\ \/ Removes(n, oas)
       \/ /\ RemoveFails(n, oas)
          /\ cache' = WithMark(cache, n) /\ dirty' = TRUE
          /\ UNCHANGED warned
    /\ UNCHANGED <<env, store, channels, pc, job, fresh, oas, nodes>>

Removed ==
    /\ pc = "remove" /\ todo = {}
    /\ pc' = "save"
    /\ UNCHANGED <<env, store, channels, local, history>>

(* updateCache: nothing to do for an unchanged cache; a write from a copy that   *)
(* was out of date is refused by the API server.                                 *)
BugSaveCacheBlindly ==
    /\ pc = "save" /\ dirty
    /\ saved' = cache /\ created' = TRUE
    /\ IF "lag" \in Faults THEN stale' = TRUE /\ view' = view
                           ELSE stale' = FALSE /\ view' = cache
    /\ Idle
    /\ UNCHANGED <<env, channels, history>>

SaveCache ==
    /\ pc = "save" /\ dirty /\ fresh
    /\ saved' = cache /\ created' = TRUE
    /\ IF "lag" \in Faults THEN stale' = TRUE /\ view' = view
                           ELSE stale' = FALSE /\ view' = cache
    /\ Idle
    /\ UNCHANGED <<env, channels, history>>

EndUnsaved ==
    /\ pc = "save"
    /\ ~dirty \/ ~fresh \/ "save" \in Faults
    /\ Idle
    /\ UNCHANGED <<env, store, channels, history>>

(* The process stops; the next one starts with empty channels, an informer in    *)
(* sync and the initial tick.                                                    *)
Crash ==
    /\ "crash" \in Faults
    /\ Idle
    /\ dels' = <<>> /\ upds' = <<>> /\ tick' = TRUE
    /\ view' = saved /\ stale' = FALSE
    /\ UNCHANGED <<env, saved, created, history>>

--------------------------------------------------------------------------------
Init ==
    /\ cluster \in [Node -> {"absent", "schedulable"}]
    /\ live = {} /\ inst = [o \in OneAgent |-> NoInstances]
    /\ saved = NoEntries /\ created = FALSE /\ view = NoEntries /\ stale = FALSE
    /\ dels = <<>> /\ upds = <<>> /\ tick = TRUE
    /\ pc = "idle" /\ job = None
    /\ cache = NoEntries /\ dirty = FALSE /\ fresh = FALSE
    /\ oas = NoListing /\ nodes = {} /\ todo = {}
    /\ warned = [n \in Node |-> Ancient]
    /\ told = [n \in Node |-> Ancient]

Environment ==
    \/ \E n \in Node : NodeDeleted(n)
    \/ \E n \in Node, s \in NodeStates : NodeAdded(n, s) \/ NodeUpdated(n, s)
    \/ \E o \in OneAgent, n \in Node, s \in InstanceStates : InstanceChanged(o, n, s)
    \/ \E o \in OneAgent : OneAgentCreated(o) \/ OneAgentDeleted(o)

Pass ==
    \/ UpdateNode \/ RemoveDeleted \/ ListNodes \/ Refresh \/ Removed
    \/ \E n \in Node : MarkNode(n) \/ RemoveMissing(n)
    \/ SaveCache \/ EndUnsaved

Next ==
    \/ Environment \/ Tick \/ Sync \/ Crash
    \/ TakeUpdate \/ TakeDeletion \/ TakeTick
    \/ Pass

Spec == Init /\ [][Next]_vars

--------------------------------------------------------------------------------
(* Properties *)

(* Every variable has the values the code can give it, and the cache of a        *)
(* ConfigMap that was never written is empty.                                    *)
TypeOK ==
    /\ cluster \in [Node -> NodeStates]
    /\ live \subseteq OneAgent
    /\ inst \in [OneAgent -> [Node -> InstanceStates]]
    /\ saved \in Entries /\ view \in Entries /\ cache \in Entries
    /\ created \in BOOLEAN /\ stale \in BOOLEAN /\ dirty \in BOOLEAN /\ fresh \in BOOLEAN
    /\ dels \in Seq(Node) /\ upds \in Seq(Node) /\ tick \in BOOLEAN
    /\ pc \in {"idle", "update", "delete", "list", "mark", "remove", "save"}
    /\ job \in Node \cup {None}
    /\ pc \in {"update", "delete"} => job \in Node
    /\ oas \in Listing
    /\ nodes \subseteq Node /\ todo \subseteq Node
    /\ told \in [Node -> Ages] /\ warned \in [Node -> Ages]

(* A mark in any copy of the cache, saved or being worked on, stands for an      *)
(* event Dynatrace took no earlier: the mark is set before the event is sent, so *)
(* this needs every failing path to throw the mark away.  It does not hold where *)
(* the periodic pass keeps the mark of a removal that failed.                    *)
MarkMeansTold ==
    \A c \in {saved, view, cache}, n \in Node : c[n] # None => told[n] <= c[n].marked

(* Entry n leaves the cache a handler works on, other than by the handler's end. *)
Dropped(n) == cache[n] # None /\ cache'[n] = None /\ pc' # "idle"
Listed == IF pc = "delete" THEN Now ELSE oas

(* removeNode drops an entry only for one of its stated reasons (last seen over  *)
(* an hour ago, no IP, the OneAgent gone), or when Dynatrace took an event for   *)
(* the node within the last hour.                                                *)
DropIsJustified ==
    [][\A n \in Node :
        Dropped(n) => Expendable(cache[n], Listed) \/ told'[n] <= Hour]_vars

(* A mark the ConfigMap has is never overwritten with an older one: a handler    *)
(* that worked on an outdated copy of the cache does not get to save it.         *)
SavedMarksAreKept ==
    [][\A n \in Node :
        pc = "save" /\ pc' = "idle" /\ saved[n] # None /\ saved'[n] # None
        => saved'[n].marked <= saved[n].marked]_vars

(* Events for a cordoned node are sent an hour apart: the mark that an earlier   *)
(* event left in the cache is not lost between the passes.                       *)
EventsAnHourApart ==
    [][\A n \in Node : warned'[n] = 0 /\ warned[n] # 0 => warned[n] > Hour]_vars

--------------------------------------------------------------------------------
(* Go's select picks among the ready channels at random, so each is served in    *)
(* the end; a clock and an informer that run; requests that do not fail forever. *)
Fairness ==
    /\ WF_vars(Pass) /\ WF_vars(Sync)
    /\ SF_vars(TakeTick) /\ SF_vars(TakeDeletion) /\ SF_vars(TakeUpdate)
    /\ SF_vars(Tick)
    /\ SF_vars(SaveCache)

FairSpec == Spec /\ Fairness

(* A cached node that is deleted for good leaves the ConfigMap, whether or not   *)
(* its deletion is notified, and whatever becomes of the event.                  *)
DeletedNodesAreForgotten ==
    \A n \in Node :
        (saved[n] # None /\ cluster[n] = "absent")
            ~> (saved[n] = None \/ cluster[n] # "absent")
================================================================================
