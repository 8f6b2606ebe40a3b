------------------------------ MODULE GpuShare ------------------------------
(***************************************************************************)
(* One pod event after another through the simulator: the driver           *)
(* (SchedulePods and the create and delete it calls), the Kubernetes       *)
(* scheduler with the Open-Gpu-Share plugin, and the plugin's handler of   *)
(* pod deletions.  They share the fake API server, whose node annotations  *)
(* publish the GPUs in use, and the plugin's cache of the same facts.  The *)
(* driver never calls the other two: it polls the API server until what it *)
(* asked for shows.                                                        *)
(***************************************************************************)
EXTENDS GpuCluster, Sequences

CONSTANTS
  NoPod, NoNode,  \* no pod, no node: the nil and "" of the code
  GpuSelMethod,   \* how Reserve picks a GPU for a GPU-share pod
  MaxEvents       \* bound: pod deletions the informer may have undelivered

ASSUME NoPodAssumption == NoPod \notin Pods /\ NoNode \notin Nodes
ASSUME SelAssumption == GpuSelMethod \in {"best", "worst", "random"}
ASSUME BoundAssumption == MaxEvents \in Nat \ {0}

VARIABLES
  api,        \* api[p]: pod p at the API server: phase, host, gpu-index ids
  queue,      \* queue[p]: where p is in the scheduling queue
  devs,       \* devs[d]: plugin cache, the podMap of device d
  anno,       \* anno[d]: PodList of device d in its node's annotation
  published,  \* the nodes that carry the annotation at all
  sched,      \* the scheduling cycle
  events,     \* pod deletions the informer has not delivered yet
  handler,    \* the DeleteFunc
  driver      \* the goroutine that runs SchedulePods

vars == <<api, queue, devs, anno, published, sched, events, handler, driver>>

NoBrief   == [d \in Devices |-> {}]
Absent    == [phase |-> "absent", host |-> NoNode, ids |-> {}]
NoCycle   == [pc |-> "idle", pod |-> NoPod, node |-> NoNode, ids |-> {},
              brief |-> NoBrief]
NoRemoval == [pc |-> "idle", pod |-> NoPod, node |-> NoNode, brief |-> NoBrief]
NoEvent   == [pc |-> "idle", pod |-> NoPod, node |-> NoNode]

ApiPod == [phase : {"absent", "pending", "failed", "bound"},
           host : Nodes \cup {NoNode}, ids : SUBSET Nat]
Deletion == [pod : Pods, node : Nodes, ids : SUBSET Nat]

TypeOK ==
  /\ api \in [Pods -> ApiPod]
  /\ queue \in [Pods -> {"none", "active", "parked"}]
  /\ devs \in [Devices -> SUBSET Pods]
  /\ anno \in [Devices -> SUBSET Pods]
  /\ published \in SUBSET Nodes
  /\ sched \in [pc : {"idle", "filter", "reserve", "cache", "export", "update",
                      "patch", "bind", "undo", "undoExport", "undoUpdate",
                      "fail", "panic"},
                pod : Pods \cup {NoPod}, node : Nodes \cup {NoNode},
                ids : SUBSET Nat, brief : [Devices -> SUBSET Pods]]
  /\ sched.pc # "idle" => sched.pod \in Pods
  /\ sched.pc \notin {"idle", "filter", "fail"} => sched.node \in Nodes
  /\ events \in Seq(Deletion)
  /\ handler \in [pc : {"idle", "export", "update"}, pod : Pods \cup {NoPod},
                  node : Nodes \cup {NoNode}, brief : [Devices -> SUBSET Pods]]
  /\ handler.pc # "idle" => handler.pod \in Pods /\ handler.node \in Nodes
  /\ driver \in [pc : {"idle", "created", "listed", "check", "get", "delete",
                       "unlisted", "panic"},
                 pod : Pods \cup {NoPod}, node : Nodes \cup {NoNode}]
  /\ driver.pc # "idle" => driver.pod \in Pods
  /\ driver.pc \in {"listed", "unlisted"} => driver.node \in Nodes

Init ==
  /\ api = [p \in Pods |-> Absent]
  /\ queue = [p \in Pods |-> "none"]
  /\ devs = NoBrief
  /\ anno = NoBrief
  /\ published = {}
  /\ sched = NoCycle
  /\ events = <<>>
  /\ handler = NoRemoval
  /\ driver = NoEvent

-----------------------------------------------------------------------------
(* The plugin's arithmetic and the two things it does to a cache.          *)

Left(view, d) == MILLI - GetUsedGpuMilli(view[d])

\* Mutant: any room at all is taken for enough.
FitsAnyRoom(view, p, n) == { i \in Idx(n) : Left(view, <<n, i>>) > 0 }

\* The GPUs of node n that have room for one more share of pod p.
Fits(view, p, n) == { i \in Idx(n) : Left(view, <<n, i>>) >= GpuMilli[p] }

\* Mutant: preset indexes are accepted without a look at what is left there.
AllocateGpuIdTrustsPreset(p, n) ==
  GpuNum[p] > 0 /\ (Preset[p] # {} \/ Cardinality(Fits(devs, p, n)) >= GpuNum[p])

\* AllocateGpuId finds GPUs for p on n, counting what the cache holds.
AllocateGpuId(p, n) ==
  /\ GpuNum[p] > 0
  /\ Idx(n) # {}
  /\ IF Preset[p] # {} THEN Preset[p] \subseteq Fits(devs, p, n)
     ELSE Cardinality(Fits(devs, p, n)) >= GpuNum[p]

Filter(p, n) ==
  IsGpuPod(p) => GpuCount[n] > 0 /\ n \in Accessible[p] /\ AllocateGpuId(p, n)

\* allocateGpuIdFunc for a GPU-share pod: the GPUs each method may return.
Selected(fits, n) ==
  IF GpuSelMethod = "random" THEN fits
  ELSE { i \in fits : \A j \in fits :
           LET a == Left(anno, <<n, i>>)
               b == Left(anno, <<n, j>>)
           IN (IF GpuSelMethod = "best" THEN a < b ELSE a > b) \/ (a = b /\ i <= j) }

\* Mutant: the loop over the GPUs ends one too early.
LowestOneShort(fits, k) ==
  { ids \in SUBSET fits : Cardinality(ids) = k - 1 /\ \A i \in ids, j \in fits \ ids : i < j }

\* AllocateExclusiveGpuId: the first k fully free GPUs.
Lowest(fits, k) ==
  { ids \in SUBSET fits : Cardinality(ids) = k /\ \A i \in ids, j \in fits \ ids : i < j }

\* allocateGpuId for p on n, which reads the annotation: how Reserve goes on,
\* with which GPUs.
Allocated(p, n) ==
  LET fits == Fits(anno, p, n)
      With(pc, choices) == { [pc |-> pc, ids |-> ids] : ids \in choices }
  IN IF Preset[p] # {}
     THEN With(IF Preset[p] \subseteq fits THEN "cache" ELSE "panic", {Preset[p]})
     ELSE IF IsShare(p)
     THEN IF fits = {} THEN With("undo", {{}})
          ELSE With("cache", { {i} : i \in Selected(fits, n) })
     ELSE IF Cardinality(fits) < GpuNum[p] THEN With("panic", {{}})
     ELSE With(IF GpuNum[p] = 0 THEN "undo" ELSE "cache", Lowest(fits, GpuNum[p]))

On(n, ids) == {n} \X ids

\* Mutant: the loop over the indexes stops at the first device it finds.
addOrUpdatePodFirstOnly(p, n, ids) ==
  devs' = [d \in Devices |-> IF d \in On(n, ids) /\ \A i \in ids : d[2] <= i
                             THEN devs[d] \cup {p} ELSE devs[d]]

addOrUpdatePod(p, n, ids) ==
  devs' = [d \in Devices |-> IF d \in On(n, ids) THEN devs[d] \cup {p} ELSE devs[d]]

removePod(p, n, ids) ==
  devs' = [d \in Devices |-> IF d \in On(n, ids) THEN devs[d] \ {p} ELSE devs[d]]

\* ExportGpuNodeInfoAsStr: what the cache holds of node n.
Export(n) == [d \in Devices |-> IF d[1] = n THEN devs[d] ELSE {}]

\* updateNode, with the annotation exported before.
Publish(n, brief) ==
  /\ anno' = [d \in Devices |-> IF d[1] = n THEN brief[d] ELSE anno[d]]
  /\ published' = published \cup {n}

-----------------------------------------------------------------------------
(* The driver.                                                             *)

\* Nothing is left of an earlier life of p: a pod is re-created under its
\* name but with a UID of its own, and the model keeps only the name.
Fresh(p) ==
  /\ queue[p] = "none"
  /\ p \notin {sched.pod, handler.pod}
  /\ \A d \in Devices : p \notin devs[d]
  /\ \A i \in DOMAIN events : events[i].pod # p

\* createPod on a name that is free; SchedulePods waits for the outcome.
CreatePod(p) ==
  /\ driver.pc = "idle" /\ api[p].phase = "absent" /\ Fresh(p)
  /\ api' = [api EXCEPT ![p] = [Absent EXCEPT !.phase = "pending", !.ids = Preset[p]]]
  /\ queue' = [queue EXCEPT ![p] = "active"]
  /\ driver' = [NoEvent EXCEPT !.pc = "created", !.pod = p]
  /\ UNCHANGED <<devs, anno, published, sched, events, handler>>

\* createPod fails on a name that exists, and assumePod deletes that name.
CreateDuplicate(p) ==
  /\ driver.pc = "idle" /\ api[p].phase # "absent"
  /\ driver' = [NoEvent EXCEPT !.pc = "get", !.pod = p]
  /\ UNCHANGED <<api, queue, devs, anno, published, sched, events, handler>>

\* The end of a pod: a deletion in the trace, or its trace has expired.
DeleteEvent(p) ==
  /\ driver.pc = "idle"
  /\ driver' = [NoEvent EXCEPT !.pc = "get", !.pod = p]
  /\ UNCHANGED <<api, queue, devs, anno, published, sched, events, handler>>

\* Mutant: no test for an empty node name.
CreatedUntested ==
  /\ driver.pc = "created"
  /\ api[driver.pod].phase \in {"bound", "failed"}
  /\ driver' = [driver EXCEPT !.pc = "listed", !.node = api[driver.pod].host]
  /\ UNCHANGED <<api, queue, devs, anno, published, sched, events, handler>>

\* isPodCreated holds, and the pod is read once more.
Created ==
  /\ driver.pc = "created"
  /\ api[driver.pod].phase \in {"bound", "failed"}
  /\ LET host == api[driver.pod].host IN
     driver' = [driver EXCEPT !.pc = IF host = NoNode THEN "check" ELSE "listed",
                              !.node = host]
  /\ UNCHANGED <<api, queue, devs, anno, published, sched, events, handler>>

Listed(p, n) == \E d \in Devices : d[1] = n /\ p \in anno[d]

\* syncNodeUpdateOnPodCreate: poll until the node's annotation names the pod.
SeenOnNode ==
  /\ driver.pc = "listed"
  /\ ~IsGpuPod(driver.pod) \/ driver.node \notin published
       \/ Listed(driver.pod, driver.node)
  /\ driver' = IF IsGpuPod(driver.pod) /\ driver.node \notin published
               THEN [driver EXCEPT !.pc = "panic"]
               ELSE [driver EXCEPT !.pc = "check", !.node = NoNode]
  /\ UNCHANGED <<api, queue, devs, anno, published, sched, events, handler>>

\* assumePod: a pod the scheduler gave up on is deleted.
CheckFailed ==
  /\ driver.pc = "check"
  /\ driver' = IF api[driver.pod].phase = "failed"
               THEN [driver EXCEPT !.pc = "get"] ELSE NoEvent
  /\ UNCHANGED <<api, queue, devs, anno, published, sched, events, handler>>

\* deletePod first reads the pod for its node...
GetPod ==
  /\ driver.pc = "get"
  /\ driver' = IF api[driver.pod].phase = "absent" THEN NoEvent
               ELSE [driver EXCEPT !.pc = "delete", !.node = api[driver.pod].host]
  /\ UNCHANGED <<api, queue, devs, anno, published, sched, events, handler>>

\* ... and then deletes it, whatever its node is by now.  The informer tells
\* the plugin, which acts on a GPU pod that has a node.
Delete ==
  LET p == driver.pod IN
  /\ driver.pc = "delete" /\ Len(events) < MaxEvents
  /\ api' = [api EXCEPT ![p] = Absent]
  /\ events' = IF IsGpuPod(p) /\ api[p].host # NoNode
               THEN Append(events, [pod |-> p, node |-> api[p].host, ids |-> api[p].ids])
               ELSE events
  /\ driver' = IF driver.node = NoNode THEN NoEvent ELSE [driver EXCEPT !.pc = "unlisted"]
  /\ UNCHANGED <<queue, devs, anno, published, sched, handler>>

\* Mutant: deletePod does not wait for the node.
GoneFromNodeUnchecked ==
  /\ driver.pc = "unlisted"
  /\ driver' = NoEvent
  /\ UNCHANGED <<api, queue, devs, anno, published, sched, events, handler>>

\* syncNodeUpdateOnPodDelete: poll until the annotation has lost the pod.
GoneFromNode ==
  /\ driver.pc = "unlisted"
  /\ IsGpuPod(driver.pod) => ~Listed(driver.pod, driver.node)
  /\ driver' = IF IsGpuPod(driver.pod) /\ driver.node \notin published
               THEN [driver EXCEPT !.pc = "panic"] ELSE NoEvent
  /\ UNCHANGED <<api, queue, devs, anno, published, sched, events, handler>>

-----------------------------------------------------------------------------
(* The scheduling cycle, binding included.                                 *)

Pop(p) ==
  /\ sched.pc = "idle" /\ queue[p] = "active"
  /\ queue' = [queue EXCEPT ![p] = "none"]
  /\ sched' = [NoCycle EXCEPT !.pc = "filter", !.pod = p]
  /\ UNCHANGED <<api, devs, anno, published, events, handler, driver>>

\* Some node passes every Filter, and scores best.
FilterAccept(n) ==
  /\ sched.pc = "filter" /\ Filter(sched.pod, n)
  /\ sched' = [sched EXCEPT !.pc = "reserve", !.node = n]
  /\ UNCHANGED <<api, queue, devs, anno, published, events, handler, driver>>

\* No node does: every plugin of the profile may turn a node down.
FilterReject ==
  /\ sched.pc = "filter"
  /\ sched' = [sched EXCEPT !.pc = "fail"]
  /\ UNCHANGED <<api, queue, devs, anno, published, events, handler, driver>>

\* Reserve, the allocation; a pod without GPUs is through.
Reserve ==
  /\ sched.pc = "reserve"
  /\ \E r \in IF IsGpuPod(sched.pod) THEN Allocated(sched.pod, sched.node)
              ELSE {[pc |-> "bind", ids |-> {}]} :
       sched' = [sched EXCEPT !.pc = r.pc, !.ids = r.ids]
  /\ UNCHANGED <<api, queue, devs, anno, published, events, handler, driver>>

\* Reserve goes on: the copy of the pod that names its GPUs enters the cache.
ReserveInCache ==
  /\ sched.pc = "cache"
  /\ addOrUpdatePod(sched.pod, sched.node, sched.ids)
  /\ sched' = [sched EXCEPT !.pc = "export"]
  /\ UNCHANGED <<api, queue, anno, published, events, handler, driver>>

SchedExport ==
  /\ sched.pc \in {"export", "undoExport"}
  /\ sched' = [sched EXCEPT !.pc = IF sched.pc = "export" THEN "update" ELSE "undoUpdate",
                            !.brief = Export(sched.node)]
  /\ UNCHANGED <<api, queue, devs, anno, published, events, handler, driver>>

SchedUpdateNode ==
  /\ sched.pc \in {"update", "undoUpdate"}
  /\ Publish(sched.node, sched.brief)
  /\ sched' = [sched EXCEPT !.pc = IF sched.pc = "update" THEN "patch" ELSE "fail",
                            !.brief = NoBrief]
  /\ UNCHANGED <<api, queue, devs, events, handler, driver>>

\* Mutant: the patch is computed from the pod that does not name its GPUs.
PatchPodUnchanged ==
  /\ sched.pc = "patch"
  /\ sched' = [sched EXCEPT !.pc = IF api[sched.pod].phase # "absent" THEN "bind" ELSE "undo"]
  /\ UNCHANGED <<api, queue, devs, anno, published, events, handler, driver>>

\* PatchPod writes the GPU indexes into the pod, if there still is one.
PatchPod ==
  /\ sched.pc = "patch"
  /\ LET here == api[sched.pod].phase # "absent" IN
     /\ api' = IF here THEN [api EXCEPT ![sched.pod].ids = sched.ids] ELSE api
     /\ sched' = [sched EXCEPT !.pc = IF here THEN "bind" ELSE "undo"]
  /\ UNCHANGED <<queue, devs, anno, published, events, handler, driver>>

Bind ==
  /\ sched.pc = "bind"
  /\ LET here == api[sched.pod].phase # "absent" IN
     /\ api' = IF here
               THEN [api EXCEPT ![sched.pod].phase = "bound", ![sched.pod].host = sched.node]
               ELSE api
     /\ sched' = IF here THEN NoCycle ELSE [sched EXCEPT !.pc = "undo"]
  /\ UNCHANGED <<queue, devs, anno, published, events, handler, driver>>

\* Unreserve gets the pod of the cycle, and not the copy that names its GPUs:
\* removePod finds the indexes the workload preset, and mostly none.
Unreserve ==
  /\ sched.pc = "undo"
  /\ removePod(sched.pod, sched.node, Preset[sched.pod])
  /\ sched' = [sched EXCEPT !.pc = "undoExport"]
  /\ UNCHANGED <<api, queue, anno, published, events, handler, driver>>

\* recordSchedulingFailure: back to the queue, if the pod still exists.
Fail ==
  /\ sched.pc = "fail"
  /\ IF api[sched.pod].phase # "absent"
     THEN /\ api' = [api EXCEPT ![sched.pod].phase = "failed"]
          /\ queue' = [queue EXCEPT ![sched.pod] = "parked"]
     ELSE UNCHANGED <<api, queue>>
  /\ sched' = NoCycle
  /\ UNCHANGED <<devs, anno, published, events, handler, driver>>

\* The queue hears that a pod is gone.
QueueForget(p) ==
  /\ queue[p] # "none" /\ api[p].phase = "absent"
  /\ queue' = [queue EXCEPT ![p] = "none"]
  /\ UNCHANGED <<api, devs, anno, published, sched, events, handler, driver>>

\* A pod that failed is tried again, after a backoff of at least a second.
FlushBackoff(p) ==
  /\ queue[p] = "parked"
  /\ queue' = [queue EXCEPT ![p] = "active"]
  /\ UNCHANGED <<api, devs, anno, published, sched, events, handler, driver>>

-----------------------------------------------------------------------------
(* The DeleteFunc, which calls removePod without the plugin's lock.        *)

\* Mutant: the handler looks at the pod of the workload, not at the deleted one.
HandlerRemovePreset ==
  /\ handler.pc = "idle" /\ events # <<>>
  /\ LET e == Head(events) IN
     /\ removePod(e.pod, e.node, Preset[e.pod])
     /\ handler' = [NoRemoval EXCEPT !.pc = "export", !.pod = e.pod, !.node = e.node]
  /\ events' = Tail(events)
  /\ UNCHANGED <<api, queue, anno, published, sched, driver>>

HandlerRemove ==
  /\ handler.pc = "idle" /\ events # <<>>
  /\ LET e == Head(events) IN
     /\ removePod(e.pod, e.node, e.ids)
     /\ handler' = [NoRemoval EXCEPT !.pc = "export", !.pod = e.pod, !.node = e.node]
  /\ events' = Tail(events)
  /\ UNCHANGED <<api, queue, anno, published, sched, driver>>

HandlerExport ==
  /\ handler.pc = "export"
  /\ handler' = [handler EXCEPT !.pc = "update", !.brief = Export(handler.node)]
  /\ UNCHANGED <<api, queue, devs, anno, published, sched, events, driver>>

HandlerUpdateNode ==
  /\ handler.pc = "update"
  /\ Publish(handler.node, handler.brief)
  /\ handler' = NoRemoval
  /\ UNCHANGED <<api, queue, devs, sched, events, driver>>

-----------------------------------------------------------------------------
DriverChoice == \E p \in Pods : CreatePod(p) \/ CreateDuplicate(p) \/ DeleteEvent(p)

DriverStep ==
  \/ Created \/ SeenOnNode \/ CheckFailed \/ GetPod \/ Delete \/ GoneFromNode

Scheduler ==
  \/ \E p \in Pods : Pop(p)
  \/ \E n \in Nodes : FilterAccept(n)
  \/ FilterReject \/ Reserve \/ ReserveInCache \/ SchedExport \/ SchedUpdateNode
  \/ PatchPod \/ Bind \/ Unreserve \/ Fail

Handler == HandlerRemove \/ HandlerExport \/ HandlerUpdateNode

\* A panic in any goroutine ends the program.
Alive == sched.pc # "panic" /\ driver.pc # "panic"

(***************************************************************************)
(* The driver deletes a failed pod within milliseconds and the scheduler   *)
(* tries it again after a second: Next is what happens when the driver is  *)
(* first, which every configuration of the repository relies on, RetryNext *)
(* what the code allows.                                                   *)
(***************************************************************************)
Next ==
  /\ Alive
  /\ \/ DriverChoice \/ DriverStep \/ Scheduler \/ Handler
     \/ \E p \in Pods : QueueForget(p)

RetryNext == Next \/ (Alive /\ \E p \in Pods : FlushBackoff(p))

\* Each goroutine runs while it can; what the driver does next is the trace's.
Fairness ==
  WF_vars(Alive /\ DriverStep) /\ WF_vars(Alive /\ Scheduler) /\ WF_vars(Alive /\ Handler)

Spec      == Init /\ [][Next]_vars /\ Fairness
RetrySpec == Init /\ [][RetryNext]_vars

-----------------------------------------------------------------------------
\* The pods that run on device d, by what the API server says of them.
Running(d) ==
  { p \in Pods : /\ IsGpuPod(p) /\ api[p].phase = "bound"
                 /\ api[p].host = d[1] /\ d[2] \in api[p].ids }

(***************************************************************************)
(* No GPU is ever promised to more than it has, neither in the cache that  *)
(* Filter counts nor in the annotation that Reserve, the scores and the    *)
(* reports count (AllocateGpuId, allocateGpuId, removePod).                *)
(***************************************************************************)
NoOversubscription ==
  \A d \in Devices : Left(devs, d) >= 0 /\ Left(anno, d) >= 0

(***************************************************************************)
(* What Filter accepted counting the cache, Reserve can allocate counting  *)
(* the annotation: it neither gives up nor panics, and the driver finds    *)
(* every annotation it insists on (the panics of allocateGpuId,            *)
(* AllocateExclusiveGpuId and isPodFoundInNodeGpuAnno).                    *)
(***************************************************************************)
FilterHonoured == Alive /\ sched.pc # "undo"

(***************************************************************************)
(* When the driver is between two pods, as it is when it reports on the    *)
(* cluster, cache and annotation both show exactly the pods that run       *)
(* (ClusterGpuFragReport, GetClusterNodeStatus).                           *)
(***************************************************************************)
ReportsSeeTruth ==
  driver.pc = "idle" => \A d \in Devices : devs[d] = Running(d) /\ anno[d] = Running(d)

(***************************************************************************)
(* The handler takes no lock and rewrites the whole annotation of a node,  *)
(* as Reserve does.  What keeps them apart is the polling of the driver:   *)
(* while a deletion is under way there is no other, the driver is waiting  *)
(* for it, and the scheduler has nothing to schedule (syncPodCreate,       *)
(* syncNodeUpdateOnPodDelete).                                             *)
(***************************************************************************)
Handshake ==
  handler.pc # "idle" \/ events # <<>> =>
    /\ handler.pc = "idle" \/ events = <<>>
    /\ Len(events) <= 1
    /\ driver.pc = "unlisted"
    /\ sched.pc = "idle"
    /\ \A p \in Pods : queue[p] # "active"

(***************************************************************************)
(* A pod that runs got what it asked for: its preset GPUs or as many as it *)
(* asked for, on a node of a model it accepts, and none that is not there. *)
(***************************************************************************)
GotWhatItAsked ==
  \A p \in Pods : IsGpuPod(p) /\ api[p].phase = "bound" =>
    /\ api[p].host \in Accessible[p]
    /\ api[p].ids \subseteq Idx(api[p].host)
    /\ IF Preset[p] # {} THEN api[p].ids = Preset[p]
       ELSE Cardinality(api[p].ids) = GpuNum[p]

(***************************************************************************)
(* No update of an annotation is lost: a pod once listed on a GPU stays    *)
(* listed until it has been deleted (two writers of the annotation, each   *)
(* publishing what it exported earlier: updateNode).                       *)
(***************************************************************************)
NeverUnlisted ==
  [][\A d \in Devices : \A p \in anno[d] \ anno'[d] : api[p].phase = "absent"]_vars

\* The devices whose annotation lists each pod.
Entries == [p \in Pods |-> { d \in Devices : p \in anno[d] }]

(***************************************************************************)
(* The annotations are a ledger of whole pods: Reserve enters a pod on all *)
(* its GPUs at once, a deletion strikes it out of all at once, and no step *)
(* of anyone does both, or either to two pods.                             *)
(***************************************************************************)
Ledger == INSTANCE GpuLedger WITH alloc <- Entries
LedgerSpec == Ledger!Spec

(***************************************************************************)
(* The polling loops have no timeout; they end all the same, and the       *)
(* driver gets to the next pod (syncPodCreate, syncNodeUpdateOnPodCreate,  *)
(* syncNodeUpdateOnPodDelete).                                             *)
(***************************************************************************)
DriverReturns == driver.pc # "idle" ~> driver.pc = "idle"

-----------------------------------------------------------------------------
(* With a retry that overtakes the driver (RetrySpec).                     *)

(***************************************************************************)
(* The cache of Filter never forgets a pod that runs: whatever the order   *)
(* in which retries, deletions and their handlers run, a GPU in use counts *)
(* as used there (AddOrUpdatePod, RemovePod).                              *)
(***************************************************************************)
CacheCoversRunning == \A d \in Devices : Running(d) \subseteq devs[d]

(***************************************************************************)
(* "Unreserve undoes the GPU resource updated in Reserve function": after  *)
(* it, the pod holds no GPU of the node in the cache.                      *)
(***************************************************************************)
UnreserveUndoes ==
  sched.pc = "undoExport" => \A i \in Idx(sched.node) : sched.pod \notin devs[<<sched.node, i>>]
=============================================================================
