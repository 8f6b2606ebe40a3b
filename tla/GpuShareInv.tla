---------------------------- MODULE GpuShareInv -----------------------------
(***************************************************************************)
(* The inductive invariant behind the safety properties of GpuShare: who   *)
(* may move, what the one who moves knows, and where cache and annotation  *)
(* may differ.  GpuShareProofs proves that every step keeps it.            *)
(***************************************************************************)
EXTENDS GpuShare

\* Pod p is on GPUs ids of node n, as the cache has it.
Held(p, n, ids) ==
  /\ ids # {}
  /\ ids \subseteq Idx(n)
  /\ \A i \in ids : p \in devs[<<n, i>>]

\* At most one of scheduler, handler and driver has something to do.
Turn ==
  /\ sched.pc # "idle" =>
       /\ driver.pc = "created" /\ driver.pod = sched.pod
       /\ api[sched.pod].phase = "pending"
       /\ \A p \in Pods : queue[p] # "active"
  /\ \A p \in Pods : queue[p] = "active" =>
       driver.pc = "created" /\ driver.pod = p /\ api[p].phase = "pending"
  /\ handler.pc # "idle" => driver.pc = "unlisted" /\ events = <<>>
  /\ events # <<>> => driver.pc = "unlisted" /\ Len(events) = 1

\* What the driver waits for after a deletion is what the handler has to do.
Waits ==
  /\ driver.pc = "unlisted" => api[driver.pod].phase = "absent"
  /\ driver.pc = "unlisted" /\ IsGpuPod(driver.pod) => driver.node \in published
  /\ events # <<>> =>
       /\ Head(events).pod = driver.pod /\ Head(events).node = driver.node
       /\ IsGpuPod(driver.pod)
       /\ Held(driver.pod, driver.node, Head(events).ids)
  /\ handler.pc # "idle" =>
       /\ handler.pod = driver.pod /\ handler.node = driver.node
       /\ IsGpuPod(driver.pod) /\ Listed(driver.pod, driver.node)

\* A pod has a node when it is bound, and then it is in cache and annotation.
Hosts ==
  /\ \A p \in Pods : api[p].phase = "bound" <=> api[p].host # NoNode
  /\ \A p \in Pods : api[p].phase = "bound" /\ IsGpuPod(p) =>
       Held(p, api[p].host, api[p].ids) /\ api[p].host \in published
  /\ driver.pc \in {"delete", "listed"} => driver.node = api[driver.pod].host

\* How far the pod of the cycle has got.
Cycle ==
  /\ \A p \in Pods :
       queue[p] = "active" \/ (sched.pc \in {"filter", "reserve", "cache"} /\ sched.pod = p)
         => \A d \in Devices : p \notin devs[d]
  /\ sched.pc = "reserve" => Filter(sched.pod, sched.node)
  /\ sched.pc \in {"cache", "export", "update", "patch"} => IsGpuPod(sched.pod)
  /\ sched.pc = "cache" =>
       sched.ids # {} /\ sched.ids \subseteq Fits(devs, sched.pod, sched.node)
  /\ sched.pc \in {"export", "update", "patch", "bind"} /\ IsGpuPod(sched.pod) =>
       Held(sched.pod, sched.node, sched.ids)
  /\ sched.pc \in {"patch", "bind"} /\ IsGpuPod(sched.pod) => sched.node \in published
  /\ sched.pc = "bind" /\ IsGpuPod(sched.pod) => api[sched.pod].ids = sched.ids
  /\ sched.pc \notin {"undo", "undoExport", "undoUpdate", "panic"}
  /\ driver.pc # "panic"

\* Cache and annotation differ only on the node that is being updated, and
\* what is about to be published there is what the cache holds.
Agree ==
  /\ \A d \in Devices :
       \/ devs[d] = anno[d]
       \/ handler.pc # "idle" /\ d[1] = handler.node
       \/ sched.pc \in {"export", "update"} /\ d[1] = sched.node
  /\ handler.pc = "update" =>
       \A d \in Devices : d[1] = handler.node => handler.brief[d] = devs[d]
  /\ sched.pc = "update" =>
       \A d \in Devices : d[1] = sched.node => sched.brief[d] = devs[d]

(***************************************************************************)
(* The whole of it: while a pod goes from the queue to its node, or from   *)
(* its node out of the cache, nobody else touches the GPUs it is counted   *)
(* on (SchedulePods, scheduleOne, DeleteFunc).                             *)
(***************************************************************************)
IInv == TypeOK /\ Turn /\ Waits /\ Hosts /\ Cycle /\ Agree /\ NoOversubscription

-----------------------------------------------------------------------------
(* What the two views of the GPUs are, exactly: the books of the plugin.   *)

\* The GPUs ids of node n are what pod p asked for.
Granted(p, n, ids) ==
  /\ n \in Accessible[p]
  /\ ids \subseteq Idx(n)
  /\ IF Preset[p] # {} THEN ids = Preset[p] ELSE Cardinality(ids) = GpuNum[p]

\* Device d is due to pod p: it runs there, or Reserve has entered it there
\* on its way to the node, or its deletion has not reached the handler yet.
Due(p, d) ==
  \/ api[p].phase = "bound" /\ d \in On(api[p].host, api[p].ids)
  \/ /\ sched.pc \in {"export", "update", "patch", "bind"} /\ p = sched.pod
     /\ d \in On(sched.node, sched.ids)
  \/ /\ events # <<>> /\ p = Head(events).pod
     /\ d \in On(Head(events).node, Head(events).ids)

\* The cache has each pod on the devices due to it and on no other.
Occupied ==
  \A p \in Pods : \A d \in Devices : p \in devs[d] <=> IsGpuPod(p) /\ Due(p, d)

\* The annotations lack nothing but the pod being entered, and have nothing
\* too much but the pod being removed.
Published ==
  /\ \A p \in Pods : \A d \in Devices :
       \/ p \in devs[d] <=> p \in anno[d]
       \/ handler.pc # "idle" /\ p = handler.pod
       \/ sched.pc \in {"export", "update"} /\ p = sched.pod
  /\ sched.pc \in {"export", "update"} => \A d \in Devices : sched.pod \notin anno[d]

\* What a pod is given is what it asked for, from Reserve to its deletion.
Grants ==
  /\ GotWhatItAsked
  /\ sched.pc \in {"cache", "export", "update", "patch", "bind"} /\ IsGpuPod(sched.pod) =>
       Granted(sched.pod, sched.node, sched.ids)

Books == Occupied /\ Published /\ Grants

(***************************************************************************)
(* Cache and annotations are the books of the cluster at every step, and   *)
(* not only when the driver looks: each differs from the pods that run by  *)
(* at most the one pod that is on its way in or out (Reserve, updateNode,  *)
(* DeleteFunc).                                                            *)
(***************************************************************************)
BooksInv == IInv /\ Books

-----------------------------------------------------------------------------
(* When a retry may overtake the driver (RetrySpec), little of this is     *)
(* left: what a pod does at the API server, and when it may do it again.   *)

\* A pod that runs is out of the queue and of the scheduling cycle.
Settled ==
  /\ \A p \in Pods : api[p].phase = "bound" => queue[p] = "none"
  /\ sched.pc # "idle" => queue[sched.pod] = "none" /\ api[sched.pod].phase # "bound"

\* Nobody takes the name of a pod whose deletion is still to be delivered.
Gone == \A i \in DOMAIN events : api[events[i].pod].phase = "absent"

\* The pod that is about to run is in the cache with the GPUs it will run on.
Entered ==
  sched.pc # "idle" /\ IsGpuPod(sched.pod) /\ api[sched.pod].phase # "absent" =>
    /\ sched.pc \in {"export", "update", "patch", "bind"} =>
         \A d \in Devices : d \in On(sched.node, sched.ids) => sched.pod \in devs[d]
    /\ sched.pc = "bind" => api[sched.pod].ids = sched.ids

(***************************************************************************)
(* Whatever overtakes what, a pod is taken out of the cache only when it   *)
(* is gone or was never bound (Unreserve, DeleteFunc).                     *)
(***************************************************************************)
RetryInv == TypeOK /\ Settled /\ Gone /\ Entered /\ CacheCoversRunning
=============================================================================
