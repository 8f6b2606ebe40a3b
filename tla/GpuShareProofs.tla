--------------------------- MODULE GpuShareProofs ---------------------------
(***************************************************************************)
(* Proofs about GpuShare, for every cluster and every workload.            *)
(***************************************************************************)
EXTENDS GpuShareInv, SumProofs, SequenceTheorems

-----------------------------------------------------------------------------
(* Facts about the devices of a cluster and what pods take of them.        *)

(***************************************************************************)
(* A device is a node with an index below the number of the node's GPUs.   *)
(***************************************************************************)
LEMMA DeviceShape ==
  /\ \A n \in Nodes : \A i \in Idx(n) : <<n, i>> \in Devices
  /\ \A d \in Devices : /\ d = <<d[1], d[2]>>
                        /\ d[1] \in Nodes
                        /\ d[2] \in Idx(d[1])
BY DEF Devices

(***************************************************************************)
(* An index of a node is a natural number.                                 *)
(***************************************************************************)
LEMMA IdxNat == \A n \in Nodes : Idx(n) \subseteq Nat
BY ClusterAssumption DEF Idx

(***************************************************************************)
(* What the pods of a device take is the sum of their shares: none when    *)
(* there are none, a share more with each pod that is added (dev.addPod),  *)
(* and no more when one is taken off (dev.removePod).                      *)
(***************************************************************************)
LEMMA UsedIsSum ==
  /\ GetUsedGpuMilli({}) = 0
  /\ \A S \in SUBSET Pods : GetUsedGpuMilli(S) \in Nat
<1>1. \A S : GetUsedGpuMilli(S) = SumOver(GpuMilli, S)
  BY DEF GetUsedGpuMilli, SumOver
<1>2. IsFiniteSet(Pods) /\ \A p \in Pods : GpuMilli[p] \in Nat
  BY ClusterAssumption, DemandAssumption, MilliAssumption
<1> QED
  BY <1>1, <1>2, SumByElement

LEMMA UsedAfterAdd ==
  ASSUME NEW S \in SUBSET Pods, NEW p \in Pods \ S
  PROVE  GetUsedGpuMilli(S \cup {p}) = GetUsedGpuMilli(S) + GpuMilli[p]
<1>1. \A T : GetUsedGpuMilli(T) = SumOver(GpuMilli, T)
  BY DEF GetUsedGpuMilli, SumOver
<1>2. IsFiniteSet(Pods) /\ \A q \in Pods : GpuMilli[q] \in Nat
  BY ClusterAssumption, DemandAssumption, MilliAssumption
<1> QED
  BY <1>1, <1>2, SumByElement

LEMMA UsedAfterRemoval ==
  ASSUME NEW S \in SUBSET Pods, NEW p \in Pods
  PROVE  /\ GetUsedGpuMilli(S) \in Nat /\ GetUsedGpuMilli(S \ {p}) \in Nat
         /\ GetUsedGpuMilli(S \ {p}) <= GetUsedGpuMilli(S)
<1>1. /\ GetUsedGpuMilli(S) = SumOver(GpuMilli, S)
      /\ GetUsedGpuMilli(S \ {p}) = SumOver(GpuMilli, S \ {p})
  BY DEF GetUsedGpuMilli, SumOver
<1>2. IsFiniteSet(Pods) /\ \A q \in Pods : GpuMilli[q] \in Nat
  BY ClusterAssumption, DemandAssumption, MilliAssumption
<1>3. /\ SumOver(GpuMilli, S) \in Nat /\ SumOver(GpuMilli, S \ {p}) \in Nat
      /\ SumOver(GpuMilli, S \ {p}) <= SumOver(GpuMilli, S)
  BY <1>2, SumOneLess
<1> QED
  BY <1>1, <1>3

-----------------------------------------------------------------------------
(* Facts about the operations of the plugin.                               *)

(***************************************************************************)
(* Reserve goes on with GPUs that are on the node, and with one at least.  *)
(***************************************************************************)
LEMMA AllocatedType ==
  ASSUME NEW p \in Pods, NEW n \in Nodes, NEW r \in Allocated(p, n)
  PROVE  /\ r.pc \in {"cache", "undo", "panic"}
         /\ r.ids \in SUBSET Nat
<1> DEFINE fits == Fits(anno, p, n)
<1>1. fits \subseteq Nat
  BY IdxNat DEF Fits
<1>2. Preset[p] \in SUBSET Nat
  BY DemandAssumption
<1>3. Selected(fits, n) \subseteq fits
  BY DEF Selected
<1>4. Lowest(fits, GpuNum[p]) \subseteq SUBSET fits
  BY DEF Lowest
<1> QED
  BY <1>1, <1>2, <1>3, <1>4 DEF Allocated

(***************************************************************************)
(* The informer's queue: taking its head leaves one element less.          *)
(***************************************************************************)
LEMMA HeadTail ==
  ASSUME NEW T, NEW q \in Seq(T), q # <<>>
  PROVE  /\ Head(q) \in T
         /\ Tail(q) \in Seq(T)
         /\ Len(q) = 1 => Tail(q) = <<>>
<1>1. Head(q) \in T /\ Tail(q) \in Seq(T) /\ Len(Tail(q)) = Len(q) - 1
  BY HeadTailProperties
<1>2. Tail(q) # <<>> => Len(Tail(q)) \in Nat \ {0}
  BY <1>1, EmptySeq
<1> QED
  BY <1>1, <1>2

-----------------------------------------------------------------------------
(* Type correctness.                                                       *)

(***************************************************************************)
(* Every variable keeps its type: each step of driver, scheduler and       *)
(* handler leaves records of the form the others expect.                   *)
(***************************************************************************)
LEMMA TypeOKInit == Init => TypeOK
<1> SUFFICES ASSUME Init PROVE TypeOK
  OBVIOUS
<1> USE DEF Init, Absent, NoBrief, NoCycle, NoRemoval, NoEvent
<1> QED
  BY NoPodAssumption DEF TypeOK, ApiPod

\* Each step of driver, scheduler and handler leaves every variable its type.
LEMMA TypeOKStep == TypeOK /\ [Next]_vars => TypeOK'
<1> SUFFICES ASSUME TypeOK, [Next]_vars PROVE TypeOK'
  OBVIOUS
<1> USE DEF Absent, NoBrief, NoCycle, NoRemoval, NoEvent
<1>1. ASSUME NEW p \in Pods, CreatePod(p) PROVE TypeOK'
  BY <1>1, DemandAssumption, ZenonT(60) DEF TypeOK, CreatePod, ApiPod
<1>2. ASSUME NEW p \in Pods, CreateDuplicate(p) \/ DeleteEvent(p) PROVE TypeOK'
  BY <1>2, ZenonT(60) DEF TypeOK, CreateDuplicate, DeleteEvent
<1>3. CASE Created
  BY <1>3, ZenonT(60) DEF TypeOK, Created, ApiPod
<1>4. CASE SeenOnNode
  BY <1>4, ZenonT(60) DEF TypeOK, SeenOnNode
<1>5. CASE CheckFailed
  <2>1. CASE api[driver.pod].phase = "failed"
    BY <1>5, <2>1, ZenonT(60) DEF TypeOK, CheckFailed
  <2>2. CASE api[driver.pod].phase # "failed"
    BY <1>5, <2>2 DEF TypeOK, CheckFailed
  <2> QED
    BY <2>1, <2>2
<1>6. CASE GetPod
  <2>1. CASE api[driver.pod].phase = "absent"
    BY <1>6, <2>1 DEF TypeOK, GetPod
  <2>2. CASE api[driver.pod].phase # "absent"
    BY <1>6, <2>2, ZenonT(60) DEF TypeOK, GetPod, ApiPod
  <2> QED
    BY <2>1, <2>2
<1>7. CASE Delete
  <2> DEFINE p == driver.pod
             e == [pod |-> p, node |-> api[p].host, ids |-> api[p].ids]
  <2>1. p \in Pods /\ api[p] \in ApiPod
    BY <1>7 DEF TypeOK, Delete
  <2>2. events' \in Seq(Deletion)
    <3>1. CASE IsGpuPod(p) /\ api[p].host # NoNode
      <4>1. e \in Deletion
        BY <2>1, <3>1 DEF ApiPod, Deletion
      <4>2. events' = Append(events, e)
        BY <1>7, <3>1 DEF Delete
      <4> QED
        BY <4>1, <4>2 DEF TypeOK
    <3>2. CASE ~(IsGpuPod(p) /\ api[p].host # NoNode)
      BY <1>7, <3>2 DEF TypeOK, Delete
    <3> QED
      BY <3>1, <3>2
  <2>3. api' \in [Pods -> ApiPod]
    BY <1>7, <2>1 DEF TypeOK, Delete, ApiPod
  <2>4. CASE driver.node = NoNode
    BY <1>7, <2>2, <2>3, <2>4 DEF TypeOK, Delete
  <2>5. CASE driver.node # NoNode
    BY <1>7, <2>2, <2>3, <2>5 DEF TypeOK, Delete
  <2> QED
    BY <2>4, <2>5
<1>8. CASE GoneFromNode
  BY <1>8 DEF TypeOK, GoneFromNode
<1>9. ASSUME NEW p \in Pods, Pop(p) PROVE TypeOK'
  BY <1>9 DEF TypeOK, Pop
<1>10. ASSUME NEW n \in Nodes, FilterAccept(n) PROVE TypeOK'
  BY <1>10 DEF TypeOK, FilterAccept
<1>11. CASE FilterReject
  BY <1>11 DEF TypeOK, FilterReject
<1>12. CASE Reserve
  <2>1. PICK r \in IF IsGpuPod(sched.pod) THEN Allocated(sched.pod, sched.node)
                    ELSE {[pc |-> "bind", ids |-> {}]} :
          sched' = [sched EXCEPT !.pc = r.pc, !.ids = r.ids]
    BY <1>12 DEF Reserve
  <2>2. sched.pod \in Pods /\ sched.node \in Nodes
    BY <1>12 DEF TypeOK, Reserve
  <2>3. r.pc \in {"cache", "undo", "panic", "bind"} /\ r.ids \in SUBSET Nat
    <3>1. CASE IsGpuPod(sched.pod)
      BY <2>1, <2>2, <3>1, AllocatedType
    <3>2. CASE ~IsGpuPod(sched.pod)
      BY <2>1, <3>2
    <3> QED
      BY <3>1, <3>2
  <2> QED
    BY <1>12, <2>1, <2>2, <2>3, ZenonT(60) DEF TypeOK, Reserve
<1>13. CASE ReserveInCache
  BY <1>13 DEF TypeOK, ReserveInCache, addOrUpdatePod
<1>14. CASE SchedExport
  BY <1>14, ZenonT(60) DEF TypeOK, SchedExport, Export
<1>15. CASE SchedUpdateNode
  BY <1>15, ZenonT(60) DEF TypeOK, SchedUpdateNode, Publish
<1>16. CASE PatchPod
  <2>1. CASE api[sched.pod].phase # "absent"
    <3>1. sched.pod \in Pods /\ api[sched.pod] \in ApiPod
      BY <1>16 DEF TypeOK, PatchPod
    <3>2. [api[sched.pod] EXCEPT !.ids = sched.ids] \in ApiPod
      BY <1>16, <3>1 DEF TypeOK, ApiPod, PatchPod
    <3>3. api' \in [Pods -> ApiPod]
      BY <1>16, <2>1, <3>1, <3>2 DEF TypeOK, PatchPod
    <3> QED
      BY <1>16, <2>1, <3>3 DEF TypeOK, PatchPod
  <2>2. CASE api[sched.pod].phase = "absent"
    BY <1>16, <2>2 DEF TypeOK, PatchPod
  <2> QED
    BY <2>1, <2>2
<1>17. CASE Bind
  <2>1. CASE api[sched.pod].phase # "absent"
    <3>1. sched.pod \in Pods /\ api[sched.pod] \in ApiPod
      BY <1>17 DEF TypeOK, Bind
    <3>2. [api[sched.pod] EXCEPT !.phase = "bound", !.host = sched.node] \in ApiPod
      BY <1>17, <3>1 DEF TypeOK, ApiPod, Bind
    <3>3. api' \in [Pods -> ApiPod]
      BY <1>17, <2>1, <3>1, <3>2 DEF TypeOK, Bind
    <3> QED
      BY <1>17, <2>1, <3>3 DEF TypeOK, Bind
  <2>2. CASE api[sched.pod].phase = "absent"
    BY <1>17, <2>2 DEF TypeOK, Bind
  <2> QED
    BY <2>1, <2>2
<1>18. CASE Unreserve
  BY <1>18 DEF TypeOK, Unreserve, removePod
<1>19. CASE Fail
  <2>1. CASE api[sched.pod].phase # "absent"
    <3>1. sched.pod \in Pods /\ api[sched.pod] \in ApiPod
      BY <1>19 DEF TypeOK, Fail
    <3>2. [api[sched.pod] EXCEPT !.phase = "failed"] \in ApiPod
      BY <1>19, <3>1 DEF TypeOK, ApiPod, Fail
    <3>3. api' \in [Pods -> ApiPod]
      BY <1>19, <2>1, <3>1, <3>2 DEF TypeOK, Fail
    <3> QED
      BY <1>19, <2>1, <3>3 DEF TypeOK, Fail
  <2>2. CASE api[sched.pod].phase = "absent"
    BY <1>19, <2>2 DEF TypeOK, Fail
  <2> QED
    BY <2>1, <2>2
<1>20. CASE HandlerRemove
  <2>1. Head(events) \in Deletion /\ Tail(events) \in Seq(Deletion)
    BY <1>20, HeadTail DEF TypeOK, HandlerRemove
  <2>2. devs' \in [Devices -> SUBSET Pods]
    BY <1>20 DEF TypeOK, HandlerRemove, removePod
  <2> QED
    BY <1>20, <2>1, <2>2, ZenonT(60) DEF TypeOK, HandlerRemove, Deletion
<1>21. CASE HandlerExport
  BY <1>21, ZenonT(60) DEF TypeOK, HandlerExport, Export
<1>22. CASE HandlerUpdateNode
  BY <1>22 DEF TypeOK, HandlerUpdateNode, Publish
<1>23. ASSUME NEW p \in Pods, QueueForget(p) PROVE TypeOK'
  BY <1>23 DEF TypeOK, QueueForget
<1>24. CASE UNCHANGED vars
  BY <1>24 DEF TypeOK, vars
<1> QED
  BY <1>1, <1>2, <1>3, <1>4, <1>5, <1>6, <1>7, <1>8, <1>9, <1>10, <1>11, <1>12,
     <1>13, <1>14, <1>15, <1>16, <1>17, <1>18, <1>19, <1>20, <1>21, <1>22, <1>23, <1>24
  DEF Next, DriverChoice, DriverStep, Scheduler, Handler

-----------------------------------------------------------------------------
(* What a step leaves alone.                                               *)

\* Who may move depends on the program counters and the queue only.
LEMMA SameTurn ==
  ASSUME Turn, UNCHANGED <<api, queue, sched, events, handler, driver>>
  PROVE  Turn'
BY DEF Turn

\* What the API server and the cache say of a bound pod stays as it was.
LEMMA SameHosts ==
  ASSUME Hosts, UNCHANGED <<api, devs, published>>,
         driver'.pc \in {"delete", "listed"} => driver'.node = api[driver'.pod].host
  PROVE  Hosts'
BY DEF Hosts, Held

\* The pod of the cycle stays where it was.
LEMMA SameCycle ==
  ASSUME Cycle, UNCHANGED <<api, queue, devs, published, sched>>, driver'.pc # "panic"
  PROVE  Cycle'
BY DEF Cycle, Held, Filter, AllocateGpuId, Fits, Left

\* Cache and annotation stay as far apart as they were.
LEMMA SameAgree ==
  ASSUME Agree, UNCHANGED <<devs, anno, handler, sched>>
  PROVE  Agree'
BY DEF Agree

\* What is left of each GPU stays as it was.
LEMMA SameLeft ==
  ASSUME NoOversubscription, UNCHANGED <<devs, anno>>
  PROVE  NoOversubscription'
BY DEF NoOversubscription, Left

-----------------------------------------------------------------------------
(* The driver keeps the invariant.                                         *)

(***************************************************************************)
(* A pod that is created has the field to itself (createPod).              *)
(***************************************************************************)
LEMMA CreatePodKeeps ==
  ASSUME IInv, TypeOK', NEW p \in Pods, CreatePod(p)
  PROVE  IInv'
<1> USE DEF IInv
<1>1. api'[p] = [Absent EXCEPT !.phase = "pending", !.ids = Preset[p]]
      /\ \A q \in Pods : q # p => api'[q] = api[q]
  BY DEF CreatePod, TypeOK
<1>2. api'[p].phase = "pending" /\ api'[p].host = NoNode
  BY <1>1 DEF Absent
<1>3. /\ sched.pc = "idle" /\ handler.pc = "idle" /\ events = <<>>
      /\ \A q \in Pods : queue[q] # "active"
  BY DEF CreatePod, Turn
<1>4. /\ driver'.pc = "created" /\ driver'.pod = p
      /\ \A q \in Pods : queue'[q] = "active" => q = p
  BY <1>3 DEF CreatePod, NoEvent, TypeOK
<1>5. Turn'
  BY <1>2, <1>3, <1>4 DEF CreatePod, Turn
<1>6. Waits'
  BY <1>3, <1>4 DEF CreatePod, Waits
<1>7. Hosts'
  <2>1. \A q \in Pods : api'[q].phase = "bound" <=> api'[q].host # NoNode
    <3> SUFFICES ASSUME NEW q \in Pods
                 PROVE  api'[q].phase = "bound" <=> api'[q].host # NoNode
      OBVIOUS
    <3>1. CASE q = p
      BY <1>2, <3>1
    <3>2. CASE q # p
      BY <1>1, <3>2 DEF Hosts
    <3> QED
      BY <3>1, <3>2
  <2>2. \A q \in Pods : api'[q].phase = "bound" => api'[q] = api[q]
    BY <1>1, <1>2
  <2> QED
    BY <1>4, <2>1, <2>2 DEF CreatePod, Hosts, Held
<1>8. Cycle'
  <2>1. \A d \in Devices : p \notin devs[d]
    BY DEF CreatePod, Fresh
  <2> QED
    BY <1>3, <1>4, <2>1 DEF CreatePod, Cycle
<1>9. Agree' /\ NoOversubscription'
  BY SameAgree, SameLeft DEF CreatePod
<1> QED
  BY <1>5, <1>6, <1>7, <1>8, <1>9

(***************************************************************************)
(* The steps of the driver that only read what the others have written.    *)
(***************************************************************************)
LEMMA DriverReadsKeep ==
  ASSUME IInv, TypeOK',
         \/ \E p \in Pods : CreateDuplicate(p) \/ DeleteEvent(p)
         \/ Created \/ SeenOnNode \/ CheckFailed \/ GetPod \/ GoneFromNode
  PROVE  IInv'
<1> USE DEF IInv
<1>1. UNCHANGED <<api, queue, devs, anno, published, sched, events, handler>>
  BY DEF CreateDuplicate, DeleteEvent, Created, SeenOnNode, CheckFailed, GetPod, GoneFromNode
<1>2. Agree' /\ NoOversubscription'
  BY <1>1, SameAgree, SameLeft
<1> SUFFICES Turn' /\ Waits' /\ Hosts' /\ Cycle'
  BY <1>2
<1>3. ASSUME NEW p \in Pods, CreateDuplicate(p) \/ DeleteEvent(p)
      PROVE  Turn' /\ Waits' /\ Hosts' /\ Cycle'
  <2>1. driver.pc = "idle" /\ driver'.pc = "get"
    BY <1>3 DEF CreateDuplicate, DeleteEvent, NoEvent
  <2>2. sched.pc = "idle" /\ handler.pc = "idle" /\ events = <<>>
        /\ \A q \in Pods : queue[q] # "active"
    BY <2>1 DEF Turn
  <2>3. Turn' /\ Waits'
    BY <1>1, <2>1, <2>2 DEF Turn, Waits
  <2> QED
    BY <1>1, <2>1, <2>3, SameHosts, SameCycle
<1>4. ASSUME Created
      PROVE  Turn' /\ Waits' /\ Hosts' /\ Cycle'
  <2>1. driver.pc = "created" /\ driver'.pc \in {"check", "listed"}
        /\ driver'.pod = driver.pod /\ driver'.node = api[driver.pod].host
    BY <1>4 DEF Created, TypeOK
  <2>2. sched.pc = "idle" /\ \A q \in Pods : queue[q] # "active"
    BY <1>4 DEF Created, Turn
  <2>3. handler.pc = "idle" /\ events = <<>>
    BY <2>1 DEF Turn
  <2>4. Turn' /\ Waits'
    BY <1>1, <2>1, <2>2, <2>3 DEF Turn, Waits
  <2> QED
    BY <1>1, <2>1, <2>4, SameHosts, SameCycle
<1>5. ASSUME SeenOnNode
      PROVE  Turn' /\ Waits' /\ Hosts' /\ Cycle'
  <2>1. driver.pc = "listed" /\ driver.pod \in Pods /\ driver.node \in Nodes
        /\ driver.node = api[driver.pod].host
    BY <1>5 DEF SeenOnNode, TypeOK, Hosts
  <2>2. IsGpuPod(driver.pod) => driver.node \in published
    BY <2>1, NoPodAssumption DEF Hosts
  <2>3. driver'.pc = "check"
    BY <1>5, <2>2 DEF SeenOnNode, TypeOK
  <2>4. sched.pc = "idle" /\ handler.pc = "idle" /\ events = <<>>
        /\ \A q \in Pods : queue[q] # "active"
    BY <2>1 DEF Turn
  <2>5. Turn' /\ Waits'
    BY <1>1, <2>3, <2>4 DEF Turn, Waits
  <2> QED
    BY <1>1, <2>3, <2>5, SameHosts, SameCycle
<1>6. ASSUME CheckFailed
      PROVE  Turn' /\ Waits' /\ Hosts' /\ Cycle'
  <2>1. driver.pc = "check" /\ driver'.pc \in {"get", "idle"}
    BY <1>6 DEF CheckFailed, TypeOK, NoEvent
  <2>2. sched.pc = "idle" /\ handler.pc = "idle" /\ events = <<>>
        /\ \A q \in Pods : queue[q] # "active"
    BY <2>1 DEF Turn
  <2>3. Turn' /\ Waits'
    BY <1>1, <2>1, <2>2 DEF Turn, Waits
  <2> QED
    BY <1>1, <2>1, <2>3, SameHosts, SameCycle
<1>7. ASSUME GetPod
      PROVE  Turn' /\ Waits' /\ Hosts' /\ Cycle'
  <2>1. driver.pc = "get" /\ driver'.pc \in {"delete", "idle"}
        /\ (driver'.pc = "delete" => driver'.node = api[driver'.pod].host)
    BY <1>7 DEF GetPod, TypeOK, NoEvent
  <2>2. sched.pc = "idle" /\ handler.pc = "idle" /\ events = <<>>
        /\ \A q \in Pods : queue[q] # "active"
    BY <2>1 DEF Turn
  <2>3. Turn' /\ Waits'
    BY <1>1, <2>1, <2>2 DEF Turn, Waits
  <2> QED
    BY <1>1, <2>1, <2>3, SameHosts, SameCycle
<1>8. ASSUME GoneFromNode
      PROVE  Turn' /\ Waits' /\ Hosts' /\ Cycle'
  <2>1. driver.pc = "unlisted" /\ driver'.pc = "idle"
    BY <1>8 DEF GoneFromNode, Waits, TypeOK, NoEvent
  <2>2. sched.pc = "idle" /\ \A q \in Pods : queue[q] # "active"
    BY <2>1 DEF Turn
  <2>3. handler.pc = "idle"
    BY <1>8 DEF GoneFromNode, Waits
  <2>4. events = <<>>
    <3> SUFFICES ASSUME events # <<>> PROVE FALSE
      OBVIOUS
    <3>1. IsGpuPod(driver.pod) /\ Held(driver.pod, driver.node, Head(events).ids)
          /\ driver.node \in Nodes
      BY <2>1 DEF Waits, TypeOK
    <3>2. PICK i \in Idx(driver.node) : driver.pod \in devs[<<driver.node, i>>]
      BY <3>1 DEF Held
    <3>3. driver.pod \in anno[<<driver.node, i>>] /\ <<driver.node, i>> \in Devices
      BY <2>2, <2>3, <3>1, <3>2, DeviceShape DEF Agree
    <3> QED
      BY <1>8, <3>1, <3>3 DEF GoneFromNode, Listed
  <2>5. Turn' /\ Waits'
    BY <1>1, <2>1, <2>2, <2>3, <2>4 DEF Turn, Waits
  <2> QED
    BY <1>1, <2>1, <2>5, SameHosts, SameCycle
<1> QED
  BY <1>3, <1>4, <1>5, <1>6, <1>7, <1>8

(***************************************************************************)
(* A deletion finds the handler idle, leaves it one pod to remove, and     *)
(* makes the driver wait for that (deletePod).                             *)
(***************************************************************************)
LEMMA DeleteKeeps ==
  ASSUME IInv, TypeOK', Delete
  PROVE  IInv'
<1> USE DEF IInv
<1> DEFINE p == driver.pod
           e == [pod |-> p, node |-> api[p].host, ids |-> api[p].ids]
<1>1. /\ driver.pc = "delete" /\ p \in Pods /\ driver.node = api[p].host
      /\ sched.pc = "idle" /\ handler.pc = "idle" /\ events = <<>>
      /\ \A q \in Pods : queue[q] # "active"
  BY DEF Delete, TypeOK, Hosts, Turn
<1>2. /\ api'[p] = Absent /\ \A q \in Pods : q # p => api'[q] = api[q]
      /\ UNCHANGED <<queue, devs, anno, published, sched, handler>>
  BY <1>1 DEF Delete, TypeOK
<1>3. api'[p].phase = "absent" /\ api'[p].host = NoNode
  BY <1>2 DEF Absent
<1>4. IF driver.node = NoNode THEN driver'.pc = "idle"
      ELSE driver'.pc = "unlisted" /\ driver'.pod = p /\ driver'.node = driver.node
  BY DEF Delete, TypeOK, NoEvent
<1>5. ASSUME IsGpuPod(p), driver.node # NoNode
      PROVE  Turn' /\ Waits'
  <2>1. /\ driver.node \in Nodes /\ driver.node \in published
        /\ Held(p, driver.node, api[p].ids)
    BY <1>1, <1>5 DEF Hosts, TypeOK, ApiPod
  <2>2. events' = <<e>> /\ driver'.pc = "unlisted" /\ driver'.pod = p
        /\ driver'.node = driver.node
    BY <1>1, <1>4, <1>5 DEF Delete
  <2>3. Head(events') = e /\ Len(events') = 1
    BY <2>2
  <2>4. Turn'
    BY <1>1, <1>2, <2>2, <2>3 DEF Turn
  <2>5. Waits'
    BY <1>1, <1>2, <1>3, <1>5, <2>1, <2>2, <2>3 DEF Waits, Held
  <2> QED
    BY <2>2, <2>4, <2>5
<1>6. ASSUME ~(IsGpuPod(p) /\ driver.node # NoNode)
      PROVE  Turn' /\ Waits'
  <2>1. events' = <<>>
    BY <1>1, <1>6 DEF Delete
  <2>2. Turn'
    BY <1>1, <1>2, <1>4, <2>1 DEF Turn
  <2>3. Waits'
    BY <1>1, <1>2, <1>3, <1>4, <1>6, <2>1 DEF Waits
  <2> QED
    BY <2>2, <2>3
<1>7. Hosts'
  <2>1. \A q \in Pods : api'[q].phase = "bound" <=> api'[q].host # NoNode
    <3> SUFFICES ASSUME NEW q \in Pods
                 PROVE  api'[q].phase = "bound" <=> api'[q].host # NoNode
      OBVIOUS
    <3>1. CASE q = p
      BY <1>3, <3>1
    <3>2. CASE q # p
      BY <1>2, <3>2 DEF Hosts
    <3> QED
      BY <3>1, <3>2
  <2>2. \A q \in Pods : api'[q].phase = "bound" => api'[q] = api[q]
    BY <1>2, <1>3
  <2>3. driver'.pc \notin {"delete", "listed"}
    BY <1>4
  <2> QED
    BY <1>2, <2>1, <2>2, <2>3 DEF Hosts, Held
<1>8. Cycle'
  BY <1>1, <1>2, <1>4 DEF Cycle
<1>9. Agree' /\ NoOversubscription'
  BY <1>2, SameAgree, SameLeft
<1> QED
  BY <1>5, <1>6, <1>7, <1>8, <1>9

-----------------------------------------------------------------------------
(* The scheduler keeps the invariant.                                      *)

(***************************************************************************)
(* While the scheduler has a pod, nobody else is under way.                *)
(***************************************************************************)
LEMMA SchedAlone ==
  ASSUME IInv, sched.pc # "idle"
  PROVE  /\ sched.pod \in Pods /\ driver.pc = "created" /\ driver.pod = sched.pod
         /\ api[sched.pod].phase = "pending" /\ api[sched.pod].host = NoNode
         /\ handler.pc = "idle" /\ events = <<>>
         /\ \A q \in Pods : queue[q] # "active"
<1>1. sched.pod \in Pods /\ driver.pc = "created" /\ driver.pod = sched.pod
      /\ api[sched.pod].phase = "pending" /\ \A q \in Pods : queue[q] # "active"
  BY DEF IInv, TypeOK, Turn
<1>2. handler.pc = "idle" /\ events = <<>>
  BY <1>1 DEF IInv, Turn
<1>3. api[sched.pod].host = NoNode
  BY <1>1 DEF IInv, Hosts
<1> QED
  BY <1>1, <1>2, <1>3

(***************************************************************************)
(* A step of the scheduler that only advances its cycle leaves all but its *)
(* own part of the invariant as it was.                                    *)
(***************************************************************************)
LEMMA CycleMoves ==
  ASSUME IInv, sched.pc # "idle", sched'.pc # "idle", sched'.pod = sched.pod,
         UNCHANGED <<api, queue, events, handler, driver>>
  PROVE  Turn'
BY SchedAlone DEF IInv, Turn

\* The pod the scheduler takes is the one the driver waits for (scheduleOne).
LEMMA PopKeeps ==
  ASSUME IInv, TypeOK', NEW p \in Pods, Pop(p)
  PROVE  IInv'
<1> USE DEF IInv
<1>1. /\ driver.pc = "created" /\ driver.pod = p /\ api[p].phase = "pending"
      /\ handler.pc = "idle" /\ events = <<>>
      /\ \A q \in Pods : queue[q] = "active" => q = p
  BY DEF Pop, Turn
<1>2. sched'.pc = "filter" /\ sched'.pod = p /\ sched.pc = "idle"
  BY DEF Pop, NoCycle
<1>3. \A q \in Pods : queue'[q] # "active"
  BY <1>1 DEF Pop, TypeOK
<1>4. UNCHANGED <<api, devs, anno, published, events, handler, driver>>
  BY DEF Pop
<1>5. Turn'
  BY <1>1, <1>2, <1>3, <1>4 DEF Turn
<1>6. Waits' /\ Hosts'
  BY <1>1, <1>4, SameHosts DEF Waits, Hosts
<1>7. Cycle'
  <2>1. \A d \in Devices : p \notin devs[d]
    BY DEF Pop, Cycle
  <2> QED
    BY <1>2, <1>3, <1>4, <2>1 DEF Cycle
<1>8. Agree' /\ NoOversubscription'
  BY <1>1, <1>2, <1>4, SameLeft DEF Agree
<1> QED
  BY <1>5, <1>6, <1>7, <1>8

\* Filter writes nothing; a node it accepts has room for the pod.
LEMMA FilterKeeps ==
  ASSUME IInv, TypeOK', FilterReject \/ \E n \in Nodes : FilterAccept(n)
  PROVE  IInv'
<1> USE DEF IInv
<1>1. /\ sched.pc = "filter" /\ sched'.pc \in {"reserve", "fail"}
      /\ sched'.pod = sched.pod
      /\ UNCHANGED <<api, queue, devs, anno, published, events, handler, driver>>
  <2>1. CASE FilterReject
    BY <2>1 DEF FilterReject, TypeOK
  <2>2. CASE \E n \in Nodes : FilterAccept(n)
    <3>1. PICK n \in Nodes : FilterAccept(n)
      BY <2>2
    <3>2. /\ sched.pc = "filter"
          /\ sched' = [sched EXCEPT !.pc = "reserve", !.node = n]
          /\ UNCHANGED <<api, queue, devs, anno, published, events, handler, driver>>
      BY <3>1 DEF FilterAccept
    <3> QED
      BY <3>2 DEF TypeOK
  <2> QED
    BY <2>1, <2>2
<1>2. Turn'
  BY <1>1, CycleMoves
<1>3. Waits' /\ Hosts'
  BY <1>1, SchedAlone, SameHosts DEF Waits, Hosts
<1>4. Cycle'
  <2>1. ASSUME NEW n \in Nodes, FilterAccept(n)
        PROVE  Filter(sched.pod, sched.node)'
    <3>1. Filter(sched.pod, n) /\ sched'.node = n /\ sched'.pod = sched.pod
      BY <2>1 DEF FilterAccept, TypeOK
    <3> QED
      BY <1>1, <3>1 DEF Filter, AllocateGpuId, Fits, Left
  <2>2. CASE FilterReject
    BY <1>1, <2>2, SchedAlone DEF FilterReject, TypeOK, Cycle
  <2>3. ASSUME NEW n \in Nodes, FilterAccept(n)
        PROVE  Cycle'
    <3>1. sched'.pc = "reserve"
      BY <2>3 DEF FilterAccept, TypeOK
    <3> QED
      BY <1>1, <2>1, <2>3, <3>1, SchedAlone DEF Cycle
  <2> QED
    BY <2>2, <2>3
<1>5. Agree' /\ NoOversubscription'
  BY <1>1, SchedAlone, SameLeft DEF Agree
<1> QED
  BY <1>2, <1>3, <1>4, <1>5

(***************************************************************************)
(* Where cache and annotation agree, Reserve allocates what Filter found:  *)
(* GPUs of the node with room for the pod (allocateGpuId, AllocateGpuId).  *)
(***************************************************************************)
LEMMA ReserveFinds ==
  ASSUME NEW p \in Pods, NEW n \in Nodes, IsGpuPod(p), Filter(p, n),
         \A d \in Devices : devs[d] = anno[d],
         NEW r \in Allocated(p, n)
  PROVE  r.pc = "cache" /\ r.ids # {} /\ r.ids \subseteq Fits(devs, p, n)
<1> DEFINE fits == Fits(anno, p, n)
<1>1. fits = Fits(devs, p, n)
  BY DeviceShape DEF Fits, Left
<1>2. /\ GpuNum[p] \in Nat /\ GpuNum[p] > 0
      /\ IF Preset[p] # {} THEN Preset[p] \subseteq fits ELSE Cardinality(fits) >= GpuNum[p]
  BY <1>1, DemandAssumption DEF Filter, AllocateGpuId
<1>3. Cardinality(fits) \in Nat
  <2>1. IsFiniteSet(Idx(n))
    BY ClusterAssumption, FS_Interval DEF Idx
  <2>2. fits \subseteq Idx(n)
    BY DEF Fits
  <2> QED
    BY <2>1, <2>2, FS_Subset, FS_CardinalityType
<1>4. CASE Preset[p] # {}
  BY <1>1, <1>2, <1>4 DEF Allocated
<1>5. CASE Preset[p] = {} /\ IsShare(p)
  <2>1. fits # {}
    BY <1>2, <1>5, FS_EmptySet
  <2>2. PICK i \in Selected(fits, n) : r = [pc |-> "cache", ids |-> {i}]
    BY <1>5, <2>1 DEF Allocated
  <2>3. i \in fits
    BY <2>2 DEF Selected
  <2> QED
    BY <1>1, <2>2, <2>3
<1>6. CASE Preset[p] = {} /\ ~IsShare(p)
  <2>1. PICK ids \in Lowest(fits, GpuNum[p]) : r = [pc |-> "cache", ids |-> ids]
    BY <1>2, <1>3, <1>6 DEF Allocated
  <2>2. ids \subseteq fits /\ Cardinality(ids) = GpuNum[p]
    BY <2>1 DEF Lowest
  <2>3. ids # {}
    BY <1>2, <2>2, FS_EmptySet
  <2> QED
    BY <1>1, <2>1, <2>2, <2>3
<1> QED
  BY <1>4, <1>5, <1>6

\* The allocation neither gives up nor panics (allocateGpuId).
LEMMA ReserveKeeps ==
  ASSUME IInv, TypeOK', Reserve
  PROVE  IInv'
<1> USE DEF IInv
<1> DEFINE p == sched.pod
           n == sched.node
<1>1. /\ sched.pc = "reserve" /\ p \in Pods /\ n \in Nodes /\ Filter(p, n)
      /\ UNCHANGED <<api, queue, devs, anno, published, events, handler, driver>>
  BY DEF Reserve, TypeOK, Cycle
<1>2. PICK r \in IF IsGpuPod(p) THEN Allocated(p, n) ELSE {[pc |-> "bind", ids |-> {}]} :
        sched' = [sched EXCEPT !.pc = r.pc, !.ids = r.ids]
  BY DEF Reserve
<1>3. sched'.pc = r.pc /\ sched'.ids = r.ids /\ sched'.pod = p /\ sched'.node = n
  BY <1>2 DEF TypeOK
<1>4. \A d \in Devices : devs[d] = anno[d]
  BY <1>1, SchedAlone DEF Agree
<1>5. IF IsGpuPod(p)
      THEN sched'.pc = "cache" /\ sched'.ids # {} /\ sched'.ids \subseteq Fits(devs, p, n)
      ELSE sched'.pc = "bind"
  <2>1. CASE IsGpuPod(p)
    BY <1>1, <1>2, <1>3, <1>4, <2>1, ReserveFinds
  <2>2. CASE ~IsGpuPod(p)
    BY <1>2, <1>3, <2>2
  <2> QED
    BY <2>1, <2>2
<1>6. Turn'
  BY <1>1, <1>3, <1>5, CycleMoves
<1>7. Waits' /\ Hosts'
  BY <1>1, SchedAlone, SameHosts DEF Waits, Hosts
<1>8. Cycle'
  <2>1. Fits(devs, p, n)' = Fits(devs, p, n)
    BY <1>1, <1>3 DEF Fits, Left
  <2> QED
    BY <1>1, <1>3, <1>5, <2>1, SchedAlone DEF Cycle
<1>9. Agree' /\ NoOversubscription'
  BY <1>1, <1>3, <1>5, SchedAlone, SameLeft DEF Agree
<1> QED
  BY <1>6, <1>7, <1>8, <1>9

(***************************************************************************)
(* The pod enters the cache on GPUs with room for it, and was on none.     *)
(***************************************************************************)
LEMMA ReserveInCacheKeeps ==
  ASSUME IInv, TypeOK', ReserveInCache
  PROVE  IInv'
<1> USE DEF IInv
<1> DEFINE p == sched.pod
           n == sched.node
<1>1. /\ sched.pc = "cache" /\ p \in Pods /\ n \in Nodes /\ IsGpuPod(p)
      /\ sched.ids # {} /\ sched.ids \subseteq Fits(devs, p, n)
      /\ \A d \in Devices : p \notin devs[d]
      /\ UNCHANGED <<api, queue, anno, published, events, handler, driver>>
  BY DEF ReserveInCache, TypeOK, Cycle
<1>2. /\ sched'.pc = "export" /\ sched'.pod = p /\ sched'.node = n
      /\ sched'.ids = sched.ids
  BY DEF ReserveInCache, TypeOK
<1>3. \A d \in Devices :
        devs'[d] = IF d \in On(n, sched.ids) THEN devs[d] \cup {p} ELSE devs[d]
  BY DEF ReserveInCache, addOrUpdatePod
<1>4. \A d \in Devices : devs[d] \subseteq devs'[d]
  BY <1>3
<1>5. sched.ids \subseteq Idx(n) /\ \A i \in sched.ids : p \in devs'[<<n, i>>]
  <2>1. sched.ids \subseteq Idx(n)
    BY <1>1 DEF Fits
  <2> QED
    BY <1>1, <1>3, <2>1, DeviceShape DEF On
<1>6. Turn'
  BY <1>1, <1>2, CycleMoves
<1>7. Waits'
  BY <1>1, SchedAlone DEF Waits
<1>8. Hosts'
  <2>1. \A q \in Pods : api[q].phase = "bound" /\ IsGpuPod(q) =>
          Held(q, api[q].host, api[q].ids)'
    <3> SUFFICES ASSUME NEW q \in Pods, api[q].phase = "bound", IsGpuPod(q)
                 PROVE  Held(q, api[q].host, api[q].ids)'
      OBVIOUS
    <3>1. Held(q, api[q].host, api[q].ids) /\ api[q].host \in Nodes
      BY DEF Hosts, TypeOK, ApiPod
    <3> QED
      BY <1>1, <1>4, <3>1, DeviceShape DEF Held
  <2> QED
    BY <1>1, <2>1 DEF Hosts
<1>9. Cycle'
  <2>1. Held(p, n, sched.ids)'
    BY <1>1, <1>2, <1>5 DEF Held
  <2> QED
    BY <1>1, <1>2, <2>1, SchedAlone DEF Cycle
<1>10. Agree'
  <2>1. \A d \in Devices : d[1] # n => devs'[d] = anno[d]
    BY <1>1, <1>3, SchedAlone DEF Agree, On
  <2> QED
    BY <1>1, <1>2, <2>1, SchedAlone DEF Agree
<1>11. NoOversubscription'
  <2> SUFFICES ASSUME NEW d \in Devices
               PROVE  Left(devs', d) >= 0 /\ Left(anno', d) >= 0
    BY DEF NoOversubscription, Left
  <2>1. Left(anno', d) >= 0
    BY <1>1 DEF NoOversubscription, Left
  <2>2. CASE d \notin On(n, sched.ids)
    BY <1>3, <2>1, <2>2 DEF NoOversubscription, Left
  <2>3. CASE d \in On(n, sched.ids)
    <3>1. devs[d] \in SUBSET Pods /\ p \notin devs[d] /\ devs'[d] = devs[d] \cup {p}
      BY <1>1, <1>3, <2>3 DEF TypeOK
    <3>2. GetUsedGpuMilli(devs'[d]) = GetUsedGpuMilli(devs[d]) + GpuMilli[p]
      BY <1>1, <3>1, UsedAfterAdd
    <3>3. Left(devs, d) >= GpuMilli[p]
      BY <1>1, <2>3 DEF On, Fits
    <3>4. GetUsedGpuMilli(devs[d]) \in Nat /\ GpuMilli[p] \in Nat /\ MILLI \in Nat
      BY <1>1, <3>1, UsedIsSum, DemandAssumption, MilliAssumption
    <3>5. Left(devs', d) >= 0
      BY <3>2, <3>3, <3>4 DEF Left
    <3> QED
      BY <2>1, <3>5
  <2> QED
    BY <2>2, <2>3
<1> QED
  BY <1>6, <1>7, <1>8, <1>9, <1>10, <1>11

\* Reserve exports what the cache holds while nobody changes it.
LEMMA SchedExportKeeps ==
  ASSUME IInv, TypeOK', SchedExport
  PROVE  IInv'
<1> USE DEF IInv
<1>1. /\ sched.pc = "export" /\ sched'.pc = "update" /\ sched'.pod = sched.pod
      /\ sched'.node = sched.node /\ sched'.ids = sched.ids
      /\ sched'.brief = Export(sched.node)
      /\ UNCHANGED <<api, queue, devs, anno, published, events, handler, driver>>
  BY DEF SchedExport, TypeOK, Cycle
<1>2. Turn'
  BY <1>1, CycleMoves
<1>3. Waits' /\ Hosts'
  BY <1>1, SchedAlone, SameHosts DEF Waits, Hosts
<1>4. Cycle'
  <2>1. IsGpuPod(sched.pod) /\ Held(sched.pod, sched.node, sched.ids)'
    BY <1>1 DEF Cycle, Held
  <2> QED
    BY <1>1, <2>1, SchedAlone DEF Cycle
<1>5. Agree' /\ NoOversubscription'
  <2>1. \A d \in Devices : d[1] = sched.node => sched'.brief[d] = devs[d]
    BY <1>1 DEF Export
  <2> QED
    BY <1>1, <2>1, SchedAlone, SameLeft DEF Agree
<1> QED
  BY <1>2, <1>3, <1>4, <1>5

(***************************************************************************)
(* What is published of a node is what its cache holds (updateNode).       *)
(***************************************************************************)
LEMMA PublishAgrees ==
  ASSUME IInv, NEW n \in Nodes, NEW brief, Publish(n, brief), devs' = devs,
         \A d \in Devices : d[1] = n => brief[d] = devs[d],
         \A d \in Devices : d[1] # n => devs[d] = anno[d]
  PROVE  /\ \A d \in Devices : devs'[d] = anno'[d]
         /\ NoOversubscription'
<1>1. \A d \in Devices : anno'[d] = devs[d]
  BY DEF Publish
<1> QED
  BY <1>1 DEF IInv, NoOversubscription, Left

\* The update of the node publishes the pod that has just been reserved.
LEMMA SchedUpdateNodeKeeps ==
  ASSUME IInv, TypeOK', SchedUpdateNode
  PROVE  IInv'
<1> USE DEF IInv
<1>1. /\ sched.pc = "update" /\ sched'.pc = "patch" /\ sched'.pod = sched.pod
      /\ sched'.node = sched.node /\ sched'.ids = sched.ids /\ sched.node \in Nodes
      /\ Publish(sched.node, sched.brief)
      /\ UNCHANGED <<api, queue, devs, events, handler, driver>>
  BY DEF SchedUpdateNode, TypeOK, Cycle
<1>2. published' = published \cup {sched.node}
  BY <1>1 DEF Publish
<1>3. /\ \A d \in Devices : devs'[d] = anno'[d]
      /\ NoOversubscription'
  BY <1>1, SchedAlone, PublishAgrees DEF Agree
<1>4. Turn'
  BY <1>1, CycleMoves
<1>5. Waits' /\ Hosts'
  BY <1>1, <1>2, SchedAlone DEF Waits, Hosts, Held
<1>6. Cycle'
  <2>1. IsGpuPod(sched.pod) /\ Held(sched.pod, sched.node, sched.ids)'
    BY <1>1 DEF Cycle, Held
  <2> QED
    BY <1>1, <1>2, <2>1, SchedAlone DEF Cycle
<1>7. Agree'
  BY <1>1, <1>3, SchedAlone DEF Agree
<1> QED
  BY <1>3, <1>4, <1>5, <1>6, <1>7

\* The pod gets the GPU indexes it was entered in the cache with.
LEMMA PatchPodKeeps ==
  ASSUME IInv, TypeOK', PatchPod
  PROVE  IInv'
<1> USE DEF IInv
<1> DEFINE p == sched.pod
<1>1. /\ sched.pc = "patch" /\ p \in Pods /\ api[p].phase = "pending"
      /\ UNCHANGED <<queue, devs, anno, published, events, handler, driver>>
  BY SchedAlone DEF PatchPod
<1>2. /\ sched'.pc = "bind" /\ sched'.pod = p /\ sched'.node = sched.node
      /\ sched'.ids = sched.ids
  BY <1>1 DEF PatchPod, TypeOK
<1>3. api' = [api EXCEPT ![p] = [api[p] EXCEPT !.ids = sched.ids]]
  BY <1>1 DEF PatchPod
<1>4. api[p] \in ApiPod
  BY <1>1 DEF TypeOK
<1>5. /\ api'[p].phase = api[p].phase /\ api'[p].host = api[p].host
      /\ api'[p].ids = sched.ids
      /\ \A q \in Pods : q # p => api'[q] = api[q]
  BY <1>1, <1>3, <1>4 DEF TypeOK, ApiPod
<1>6. Turn'
  BY <1>1, <1>2, <1>5, SchedAlone DEF Turn
<1>7. Waits'
  BY <1>1, SchedAlone DEF Waits
<1>8. Hosts'
  <2>1. \A q \in Pods : api'[q].phase = api[q].phase /\ api'[q].host = api[q].host
    BY <1>5
  <2>2. \A q \in Pods : api'[q].phase = "bound" => api'[q] = api[q]
    BY <1>1, <1>5
  <2>3. driver'.pc \notin {"delete", "listed"}
    BY <1>1, SchedAlone
  <2> QED
    BY <1>1, <2>1, <2>2, <2>3 DEF Hosts, Held
<1>9. Cycle'
  BY <1>1, <1>2, <1>5, SchedAlone DEF Cycle, Held
<1>10. Agree' /\ NoOversubscription'
  BY <1>1, <1>2, SchedAlone, SameLeft DEF Agree
<1> QED
  BY <1>6, <1>7, <1>8, <1>9, <1>10

(***************************************************************************)
(* A pod that gets its node has its GPUs in the cache and in the           *)
(* annotation already (BindPodToNode after Reserve).                       *)
(***************************************************************************)
LEMMA BindKeeps ==
  ASSUME IInv, TypeOK', Bind
  PROVE  IInv'
<1> USE DEF IInv
<1> DEFINE p == sched.pod
           n == sched.node
<1>1. /\ sched.pc = "bind" /\ p \in Pods /\ n \in Nodes /\ api[p].phase = "pending"
      /\ UNCHANGED <<queue, devs, anno, published, events, handler, driver>>
  BY SchedAlone DEF Bind, TypeOK
<1>2. sched'.pc = "idle" /\ sched'.pod = NoPod
  BY <1>1 DEF Bind, NoCycle
<1>3. api' = [api EXCEPT ![p] = [api[p] EXCEPT !.phase = "bound", !.host = n]]
  BY <1>1 DEF Bind
<1>4. api[p] \in ApiPod
  BY <1>1 DEF TypeOK
<1>5. /\ api'[p].phase = "bound" /\ api'[p].host = n /\ api'[p].ids = api[p].ids
      /\ \A q \in Pods : q # p => api'[q] = api[q]
  BY <1>1, <1>3, <1>4 DEF TypeOK, ApiPod
<1>6. Turn'
  BY <1>1, <1>2, SchedAlone DEF Turn
<1>7. Waits'
  BY <1>1, SchedAlone DEF Waits
<1>8. Hosts'
  <2>1. n # NoNode
    BY <1>1, NoPodAssumption
  <2>2. IsGpuPod(p) => Held(p, n, api[p].ids) /\ n \in published
    BY <1>1 DEF Cycle
  <2>3. \A q \in Pods : q # p =>
          /\ api'[q].phase = "bound" <=> api'[q].host # NoNode
          /\ api'[q].phase = "bound" /\ IsGpuPod(q) =>
               Held(q, api'[q].host, api'[q].ids) /\ api'[q].host \in published
    BY <1>5 DEF Hosts
  <2>4. \A q \in Pods :
          /\ api'[q].phase = "bound" <=> api'[q].host # NoNode
          /\ api'[q].phase = "bound" /\ IsGpuPod(q) =>
               Held(q, api'[q].host, api'[q].ids) /\ api'[q].host \in published
    BY <1>5, <2>1, <2>2, <2>3
  <2>5. driver'.pc \notin {"delete", "listed"}
    BY <1>1, SchedAlone
  <2> QED
    BY <1>1, <2>4, <2>5 DEF Hosts, Held
<1>9. Cycle'
  BY <1>1, <1>2, SchedAlone DEF Cycle
<1>10. Agree' /\ NoOversubscription'
  BY <1>1, <1>2, SchedAlone, SameLeft DEF Agree
<1> QED
  BY <1>6, <1>7, <1>8, <1>9, <1>10

\* A pod the scheduler gives up on has no GPU (recordSchedulingFailure).
LEMMA FailKeeps ==
  ASSUME IInv, TypeOK', Fail
  PROVE  IInv'
<1> USE DEF IInv
<1> DEFINE p == sched.pod
<1>1. /\ sched.pc = "fail" /\ p \in Pods /\ api[p].phase = "pending"
      /\ api[p].host = NoNode
      /\ UNCHANGED <<devs, anno, published, events, handler, driver>>
  BY SchedAlone DEF Fail
<1>2. sched'.pc = "idle" /\ sched'.pod = NoPod
  BY <1>1 DEF Fail, NoCycle
<1>3. /\ api' = [api EXCEPT ![p] = [api[p] EXCEPT !.phase = "failed"]]
      /\ queue' = [queue EXCEPT ![p] = "parked"]
  BY <1>1 DEF Fail
<1>4. api[p] \in ApiPod
  BY <1>1 DEF TypeOK
<1>5. /\ api'[p].phase = "failed" /\ api'[p].host = NoNode
      /\ \A q \in Pods : q # p => api'[q] = api[q]
      /\ \A q \in Pods : queue'[q] # "active"
  <2>1. \A q \in Pods : queue[q] # "active"
    BY <1>1, SchedAlone
  <2> QED
    BY <1>1, <1>3, <1>4, <2>1 DEF TypeOK, ApiPod
<1>6. Turn'
  BY <1>1, <1>2, <1>5, SchedAlone DEF Turn
<1>7. Waits'
  BY <1>1, SchedAlone DEF Waits
<1>8. Hosts'
  <2>1. \A q \in Pods : q # p => (api'[q].phase = "bound" <=> api'[q].host # NoNode)
    BY <1>5 DEF Hosts
  <2>2. \A q \in Pods : api'[q].phase = "bound" <=> api'[q].host # NoNode
    BY <1>5, <2>1
  <2>3. \A q \in Pods : api'[q].phase = "bound" => api'[q] = api[q]
    BY <1>5
  <2>4. driver'.pc \notin {"delete", "listed"}
    BY <1>1, SchedAlone
  <2> QED
    BY <1>1, <2>2, <2>3, <2>4 DEF Hosts, Held
<1>9. Cycle'
  BY <1>1, <1>2, <1>5, SchedAlone DEF Cycle
<1>10. Agree' /\ NoOversubscription'
  BY <1>1, <1>2, SchedAlone, SameLeft DEF Agree
<1> QED
  BY <1>6, <1>7, <1>8, <1>9, <1>10

\* The queue only forgets pods that are gone.
LEMMA QueueForgetKeeps ==
  ASSUME IInv, TypeOK', NEW p \in Pods, QueueForget(p)
  PROVE  IInv'
<1> USE DEF IInv
<1>1. /\ UNCHANGED <<api, devs, anno, published, sched, events, handler, driver>>
      /\ \A q \in Pods : queue'[q] = "active" => queue[q] = "active"
  BY DEF QueueForget, TypeOK
<1>2. Turn' /\ Waits'
  BY <1>1 DEF Turn, Waits, Held, Listed
<1>3. Hosts'
  BY <1>1, SameHosts DEF Hosts
<1>4. Cycle'
  BY <1>1 DEF Cycle, Held, Filter, AllocateGpuId, Fits, Left
<1> QED
  BY <1>1, <1>2, <1>3, <1>4, SameAgree, SameLeft

-----------------------------------------------------------------------------
(* The handler keeps the invariant.                                        *)

(***************************************************************************)
(* While the handler has a pod to remove, the scheduler has none.          *)
(***************************************************************************)
LEMMA HandlerAlone ==
  ASSUME IInv, handler.pc # "idle" \/ events # <<>>
  PROVE  /\ driver.pc = "unlisted" /\ driver.pod \in Pods /\ driver.node \in Nodes
         /\ api[driver.pod].phase = "absent" /\ sched.pc = "idle"
         /\ \A q \in Pods : queue[q] # "active"
<1>1. driver.pc = "unlisted"
  BY DEF IInv, Turn
<1> QED
  BY <1>1 DEF IInv, TypeOK, Turn, Waits

(***************************************************************************)
(* The handler takes a deleted pod, and no other, out of the cache.        *)
(***************************************************************************)
LEMMA HandlerRemoveKeeps ==
  ASSUME IInv, TypeOK', HandlerRemove
  PROVE  IInv'
<1> USE DEF IInv
<1> DEFINE p == driver.pod
           n == driver.node
           ids == Head(events).ids
<1>1. /\ events # <<>> /\ handler.pc = "idle"
      /\ driver.pc = "unlisted" /\ p \in Pods /\ n \in Nodes
      /\ api[p].phase = "absent" /\ sched.pc = "idle"
      /\ \A q \in Pods : queue[q] # "active"
      /\ UNCHANGED <<api, queue, anno, published, sched, driver>>
  BY HandlerAlone DEF HandlerRemove
<1>2. /\ Head(events).pod = p /\ Head(events).node = n
      /\ IsGpuPod(p) /\ Held(p, n, ids)
  BY <1>1 DEF Waits
<1>3. /\ handler'.pc = "export" /\ handler'.pod = p /\ handler'.node = n
      /\ events' = Tail(events)
  BY <1>2 DEF HandlerRemove, NoRemoval
<1>4. events' = <<>>
  BY <1>1, <1>3, HeadTail DEF Turn, TypeOK
<1>5. \A d \in Devices :
        devs'[d] = IF d \in On(n, ids) THEN devs[d] \ {p} ELSE devs[d]
  BY <1>2 DEF HandlerRemove, removePod
<1>6. Listed(p, n)
  <2>1. PICK i \in ids : i \in Idx(n) /\ p \in devs[<<n, i>>]
    BY <1>2 DEF Held
  <2>2. <<n, i>> \in Devices /\ anno[<<n, i>>] = devs[<<n, i>>]
    BY <1>1, <2>1, DeviceShape DEF Agree
  <2> QED
    BY <2>1, <2>2 DEF Listed
<1>7. Turn'
  BY <1>1, <1>3, <1>4 DEF Turn
<1>8. Waits'
  BY <1>1, <1>2, <1>3, <1>4, <1>6 DEF Waits, Listed
<1>9. Hosts'
  <2>1. ASSUME NEW q \in Pods, api[q].phase = "bound", IsGpuPod(q)
        PROVE  Held(q, api[q].host, api[q].ids)'
    <3>1. Held(q, api[q].host, api[q].ids) /\ api[q].host \in Nodes /\ q # p
      BY <1>1, <2>1 DEF Hosts, TypeOK, ApiPod
    <3>2. \A i \in api[q].ids : q \in devs'[<<api[q].host, i>>]
      BY <1>5, <3>1, DeviceShape DEF Held
    <3> QED
      BY <1>1, <3>1, <3>2 DEF Held
  <2> QED
    BY <1>1, <2>1 DEF Hosts
<1>10. Cycle'
  BY <1>1, <1>5 DEF Cycle
<1>11. Agree'
  <2>1. \A d \in Devices : d[1] # n => devs'[d] = anno[d]
    BY <1>1, <1>5 DEF Agree, On
  <2> QED
    BY <1>1, <1>3, <2>1 DEF Agree
<1>12. NoOversubscription'
  <2> SUFFICES ASSUME NEW d \in Devices
               PROVE  Left(devs', d) >= 0 /\ Left(anno', d) >= 0
    BY DEF NoOversubscription, Left
  <2>1. Left(anno', d) >= 0 /\ Left(devs, d) >= 0
    BY <1>1 DEF NoOversubscription, Left
  <2>2. devs[d] \in SUBSET Pods
    BY DEF TypeOK
  <2>3. /\ GetUsedGpuMilli(devs[d]) \in Nat /\ GetUsedGpuMilli(devs[d] \ {p}) \in Nat
        /\ GetUsedGpuMilli(devs[d] \ {p}) <= GetUsedGpuMilli(devs[d])
    BY <1>1, <2>2, UsedAfterRemoval
  <2>4. devs'[d] = devs[d] \/ devs'[d] = devs[d] \ {p}
    BY <1>5
  <2> QED
    <3>1. GetUsedGpuMilli(devs'[d]) \in Nat
          /\ GetUsedGpuMilli(devs'[d]) <= GetUsedGpuMilli(devs[d])
      BY <2>3, <2>4
    <3>2. Left(devs', d) >= 0
      BY <2>1, <2>3, <3>1, MilliAssumption DEF Left
    <3> QED
      BY <2>1, <3>2
<1> QED
  BY <1>7, <1>8, <1>9, <1>10, <1>11, <1>12

\* The handler exports what the cache holds while nobody changes it.
LEMMA HandlerExportKeeps ==
  ASSUME IInv, TypeOK', HandlerExport
  PROVE  IInv'
<1> USE DEF IInv
<1>1. /\ handler.pc = "export" /\ handler'.pc = "update" /\ handler'.pod = handler.pod
      /\ handler'.node = handler.node /\ handler'.brief = Export(handler.node)
      /\ sched.pc = "idle"
      /\ UNCHANGED <<api, queue, devs, anno, published, sched, events, driver>>
  BY HandlerAlone DEF HandlerExport, TypeOK
<1>2. Turn' /\ Waits'
  BY <1>1 DEF Turn, Waits, Held, Listed
<1>3. Hosts' /\ Cycle'
  BY <1>1, SameHosts, SameCycle DEF Hosts, Cycle
<1>4. Agree' /\ NoOversubscription'
  <2>1. \A d \in Devices : d[1] = handler.node => handler'.brief[d] = devs[d]
    BY <1>1 DEF Export
  <2> QED
    BY <1>1, <2>1, SameLeft DEF Agree
<1> QED
  BY <1>2, <1>3, <1>4

\* The handler publishes a node without the deleted pod.
LEMMA HandlerUpdateNodeKeeps ==
  ASSUME IInv, TypeOK', HandlerUpdateNode
  PROVE  IInv'
<1> USE DEF IInv
<1>1. /\ handler.pc = "update" /\ handler'.pc = "idle" /\ handler.node \in Nodes
      /\ events = <<>> /\ sched.pc = "idle" /\ driver.pc = "unlisted"
      /\ \A q \in Pods : queue[q] # "active"
      /\ Publish(handler.node, handler.brief)
      /\ UNCHANGED <<api, queue, devs, sched, events, driver>>
  BY HandlerAlone DEF HandlerUpdateNode, TypeOK, NoRemoval, Turn
<1>2. published' = published \cup {handler.node}
  BY <1>1 DEF Publish
<1>3. /\ \A d \in Devices : devs'[d] = anno'[d]
      /\ NoOversubscription'
  BY <1>1, PublishAgrees DEF Agree
<1>4. Turn' /\ Waits'
  BY <1>1, <1>2 DEF Turn, Waits
<1>5. Hosts' /\ Cycle'
  BY <1>1, <1>2 DEF Hosts, Cycle, Held
<1>6. Agree'
  BY <1>1, <1>3 DEF Agree
<1> QED
  BY <1>3, <1>4, <1>5, <1>6

-----------------------------------------------------------------------------
(* The theorems.                                                           *)

\* At the start there is no pod anywhere.
LEMMA IInvInit == Init => IInv
<1> SUFFICES ASSUME Init PROVE IInv
  OBVIOUS
<1> USE DEF Init, NoBrief, Absent, NoCycle, NoRemoval, NoEvent
<1>1. TypeOK
  BY TypeOKInit
<1>2. Turn /\ Waits /\ Hosts /\ Cycle /\ Agree
  BY DEF Turn, Waits, Hosts, Cycle, Agree
<1>3. NoOversubscription
  BY UsedIsSum, MilliAssumption DEF NoOversubscription, Left
<1> QED
  BY <1>1, <1>2, <1>3 DEF IInv

\* Every step of Next keeps the invariant.
LEMMA IInvStep == IInv /\ [Next]_vars => IInv'
<1> SUFFICES ASSUME IInv, [Next]_vars PROVE IInv'
  OBVIOUS
<1>1. TypeOK'
  BY TypeOKStep DEF IInv
<1>2. CASE UNCHANGED vars
  <2>1. UNCHANGED <<api, queue, devs, anno, published, sched, events, handler, driver>>
    BY <1>2 DEF vars
  <2>2. Turn' /\ Waits'
    BY <2>1 DEF IInv, Turn, Waits, Held, Listed
  <2>3. Hosts' /\ Cycle'
    BY <2>1, SameHosts, SameCycle DEF IInv, Hosts, Cycle
  <2> QED
    BY <1>1, <2>1, <2>2, <2>3, SameAgree, SameLeft DEF IInv
<1>3. CASE Unreserve
  BY <1>3 DEF IInv, Cycle, Unreserve
<1> QED
  BY <1>1, <1>2, <1>3, CreatePodKeeps, DriverReadsKeep, DeleteKeeps, PopKeeps, FilterKeeps,
     ReserveKeeps, ReserveInCacheKeeps, SchedExportKeeps, SchedUpdateNodeKeeps,
     PatchPodKeeps, BindKeeps, FailKeeps, QueueForgetKeeps,
     HandlerRemoveKeeps, HandlerExportKeeps, HandlerUpdateNodeKeeps
  DEF Next, DriverChoice, DriverStep, Scheduler, Handler

(***************************************************************************)
(* Every variable keeps its type in every behaviour of the program.        *)
(***************************************************************************)
THEOREM TypeCorrect == Spec => []TypeOK
BY TypeOKInit, TypeOKStep, PTL DEF Spec

(***************************************************************************)
(* The invariant holds in every behaviour: one pod event at a time.        *)
(***************************************************************************)
THEOREM Invariant == Spec => []IInv
BY IInvInit, IInvStep, PTL DEF Spec

(***************************************************************************)
(* No GPU is ever promised to more than it has, whatever the cluster, the  *)
(* workload and the way Reserve picks GPUs (AllocateGpuId, allocateGpuId,  *)
(* removePod).                                                             *)
(***************************************************************************)
THEOREM GpusSuffice == Spec => []NoOversubscription
<1>1. IInv => NoOversubscription
  BY DEF IInv
<1> QED
  BY <1>1, Invariant, PTL

(***************************************************************************)
(* Reserve allocates whatever Filter accepted, and nothing panics          *)
(* (allocateGpuId, AllocateExclusiveGpuId, isPodFoundInNodeGpuAnno).       *)
(***************************************************************************)
THEOREM ReserveKeepsFiltersWord == Spec => []FilterHonoured
<1>1. IInv => FilterHonoured
  BY DEF IInv, Cycle, FilterHonoured, Alive
<1> QED
  BY <1>1, Invariant, PTL

(***************************************************************************)
(* The handler, which takes no lock, is never under way together with the  *)
(* scheduler or with another deletion (DeleteFunc, syncPodCreate,          *)
(* syncNodeUpdateOnPodDelete).                                             *)
(***************************************************************************)
THEOREM OneAtATime == Spec => []Handshake
<1>1. IInv => Handshake
  <2> SUFFICES ASSUME IInv, handler.pc # "idle" \/ events # <<>>
               PROVE  Handshake
    BY DEF Handshake
  <2>1. handler.pc = "idle" \/ events = <<>>
    BY DEF IInv, Turn
  <2>2. Len(events) <= 1
    <3>1. CASE events = <<>>
      BY <3>1
    <3>2. CASE events # <<>>
      <4>1. Len(events) = 1
        BY <3>2 DEF IInv, Turn
      <4> QED
        BY <4>1
    <3> QED
      BY <3>1, <3>2
  <2> QED
    BY <2>1, <2>2, HandlerAlone DEF Handshake
<1> QED
  BY <1>1, Invariant, PTL

-----------------------------------------------------------------------------
(* Whom a device is due to, and what a step leaves alone.                  *)

\* The devices of some GPUs of a node.
LEMMA OnDevice ==
  ASSUME NEW n, NEW ids, NEW d \in Devices
  PROVE  d \in On(n, ids) <=> d[1] = n /\ d[2] \in ids
BY DeviceShape DEF On

\* What is due depends on the API server, the cycle and the deletions.
LEMMA SameBooks ==
  ASSUME Books, UNCHANGED <<api, devs, anno, sched, events, handler>>
  PROVE  Books'
<1>1. \A p \in Pods : \A d \in Devices : Due(p, d)' <=> Due(p, d)
  BY DEF Due
<1>2. Occupied'
  BY <1>1 DEF Books, Occupied
<1>3. Published'
  BY DEF Books, Published
<1>4. Grants'
  BY DEF Books, Grants, GotWhatItAsked, Granted
<1> QED
  BY <1>2, <1>3, <1>4 DEF Books

-----------------------------------------------------------------------------
(* The driver keeps the books.                                             *)

\* A pod that is created is due no GPU yet (createPod).
LEMMA CreatePodBooks ==
  ASSUME IInv, Books, NEW p \in Pods, CreatePod(p)
  PROVE  Books'
<1>1. /\ api'[p] = [Absent EXCEPT !.phase = "pending", !.ids = Preset[p]]
      /\ \A q \in Pods : q # p => api'[q] = api[q]
      /\ UNCHANGED <<devs, anno, published, sched, events, handler>>
  BY DEF IInv, CreatePod, TypeOK
<1>2. api'[p].phase = "pending"
  BY <1>1 DEF Absent
<1>3. sched.pc = "idle" /\ events = <<>> /\ \A d \in Devices : p \notin devs[d]
  BY DEF IInv, CreatePod, Turn, Fresh
<1>4. Occupied'
  <2> SUFFICES ASSUME NEW q \in Pods, NEW d \in Devices
               PROVE  q \in devs'[d] <=> IsGpuPod(q) /\ Due(q, d)'
    BY DEF Occupied
  <2>1. CASE q = p
    BY <1>1, <1>2, <1>3, <2>1 DEF Due
  <2>2. CASE q # p
    BY <1>1, <1>3, <2>2 DEF Books, Occupied, Due
  <2> QED
    BY <2>1, <2>2
<1>5. Published'
  BY <1>1 DEF Books, Published
<1>6. Grants'
  BY <1>1, <1>2, <1>3, ZenonT(60) DEF Books, Grants, GotWhatItAsked
<1> QED
  BY <1>4, <1>5, <1>6 DEF Books

\* A pod that is deleted is due its GPUs until the handler hears of it.
LEMMA DeleteBooks ==
  ASSUME IInv, Books, Delete
  PROVE  Books'
<1> DEFINE p == driver.pod
           e == [pod |-> p, node |-> api[p].host, ids |-> api[p].ids]
<1>1. /\ p \in Pods /\ sched.pc = "idle" /\ handler.pc = "idle" /\ events = <<>>
      /\ api[p].phase = "bound" <=> api[p].host # NoNode
  BY DEF IInv, Delete, TypeOK, Hosts, Turn
<1>2. /\ api'[p] = Absent /\ \A q \in Pods : q # p => api'[q] = api[q]
      /\ UNCHANGED <<devs, anno, sched, handler>>
  BY <1>1 DEF IInv, Delete, TypeOK
<1>3. api'[p].phase = "absent"
  BY <1>2 DEF Absent
<1>4. IF IsGpuPod(p) /\ api[p].phase = "bound" THEN events' = <<e>> ELSE events' = <<>>
  BY <1>1 DEF Delete
<1>5. \A q \in Pods : \A d \in Devices : IsGpuPod(q) => (Due(q, d)' <=> Due(q, d))
  <2> SUFFICES ASSUME NEW q \in Pods, NEW d \in Devices, IsGpuPod(q)
               PROVE  Due(q, d)' <=> Due(q, d)
    OBVIOUS
  <2>1. CASE q = p /\ api[p].phase = "bound"
    <3>1. events' = <<e>>
      BY <1>4, <2>1
    <3>2. events' # <<>> /\ Head(events') = e
      BY <3>1
    <3> QED
      BY <1>1, <1>2, <1>3, <2>1, <3>1, <3>2 DEF Due
  <2>2. CASE q = p /\ api[p].phase # "bound"
    BY <1>1, <1>2, <1>3, <1>4, <2>2 DEF Due
  <2>3. CASE q # p
    <3>1. events' = <<>> \/ Head(events').pod = p
      BY <1>4
    <3> QED
      BY <1>1, <1>2, <2>3, <3>1 DEF Due
  <2> QED
    BY <2>1, <2>2, <2>3
<1>6. Occupied'
  BY <1>2, <1>5 DEF Books, Occupied
<1>7. Published'
  BY <1>2 DEF Books, Published
<1>8. Grants'
  BY <1>1, <1>2, <1>3 DEF Books, Grants, GotWhatItAsked
<1> QED
  BY <1>6, <1>7, <1>8 DEF Books

-----------------------------------------------------------------------------
(* The scheduler keeps the books.                                          *)

(***************************************************************************)
(* A step of the cycle that neither enters the pod nor publishes it.       *)
(***************************************************************************)
LEMMA CycleBooks ==
  ASSUME IInv, Books, UNCHANGED <<api, devs, anno, events, handler>>,
         sched.pc \notin {"export", "update", "patch", "bind"} \/ ~IsGpuPod(sched.pod),
         sched'.pc \notin {"cache", "export", "update", "patch", "bind"} \/ ~IsGpuPod(sched'.pod),
         sched.pc \notin {"export", "update"}, sched'.pc \notin {"export", "update"}
  PROVE  Books'
<1>1. \A q \in Pods : \A d \in Devices : IsGpuPod(q) => (Due(q, d)' <=> Due(q, d))
  BY DEF Due
<1>2. Occupied'
  BY <1>1 DEF Books, Occupied
<1>3. Published'
  BY DEF Books, Published
<1>4. Grants'
  BY DEF Books, Grants, GotWhatItAsked
<1> QED
  BY <1>2, <1>3, <1>4 DEF Books

\* Until Reserve and after a failure, the pod of the cycle is due no GPU.
LEMMA CycleEndsBooks ==
  ASSUME IInv, Books,
         FilterReject \/ (\E p \in Pods : Pop(p)) \/ (\E n \in Nodes : FilterAccept(n))
  PROVE  Books'
<1>1. /\ UNCHANGED <<api, devs, anno, events, handler>>
      /\ sched.pc \in {"idle", "filter"}
  BY DEF FilterReject, Pop, FilterAccept
<1>2. sched'.pc \in {"filter", "reserve", "fail"}
  BY DEF IInv, TypeOK, FilterReject, Pop, FilterAccept, NoCycle
<1> QED
  BY <1>1, <1>2, CycleBooks

(***************************************************************************)
(* What Reserve allocates is what the pod asked for: its preset GPUs, one  *)
(* GPU for a share, or as many whole ones as it wants (allocateGpuId,      *)
(* AllocateExclusiveGpuId).                                                *)
(***************************************************************************)
LEMMA ReserveGrants ==
  ASSUME NEW p \in Pods, NEW n \in Nodes, IsGpuPod(p), Filter(p, n),
         \A d \in Devices : devs[d] = anno[d],
         NEW r \in Allocated(p, n)
  PROVE  Granted(p, n, r.ids)
<1> DEFINE fits == Fits(anno, p, n)
<1>1. /\ r.pc = "cache" /\ r.ids \subseteq Idx(n)
      /\ n \in Accessible[p] /\ GpuNum[p] \in Nat /\ GpuNum[p] > 0
  BY ReserveFinds, DemandAssumption DEF Fits, Filter, AllocateGpuId
<1>2. CASE Preset[p] # {}
  <2>1. r.ids = Preset[p]
    BY <1>2 DEF Allocated
  <2> QED
    BY <1>1, <1>2, <2>1 DEF Granted
<1>3. CASE Preset[p] = {} /\ IsShare(p)
  <2>1. fits # {}
    BY <1>1, <1>3 DEF Allocated
  <2>2. PICK i \in Selected(fits, n) : r = [pc |-> "cache", ids |-> {i}]
    BY <1>3, <2>1 DEF Allocated
  <2>3. Cardinality(r.ids) = 1
    BY <2>2, FS_Singleton
  <2>4. GpuNum[p] = 1
    <3>1. GpuMilli[p] # MILLI
      BY <1>3, DemandAssumption, MilliAssumption DEF IsShare
    <3> QED
      BY <1>1, <3>1, DemandAssumption
  <2> QED
    BY <1>1, <1>3, <2>3, <2>4 DEF Granted
<1>4. CASE Preset[p] = {} /\ ~IsShare(p)
  <2>1. PICK ids \in Lowest(fits, GpuNum[p]) : r.ids = ids
    BY <1>1, <1>4 DEF Allocated
  <2>2. Cardinality(ids) = GpuNum[p]
    BY <2>1 DEF Lowest
  <2> QED
    BY <1>1, <1>4, <2>1, <2>2 DEF Granted
<1> QED
  BY <1>2, <1>3, <1>4

\* Reserve chooses the GPUs and has entered none of them yet.
LEMMA ReserveBooks ==
  ASSUME IInv, IInv', Books, Reserve
  PROVE  Books'
<1> DEFINE p == sched.pod
           n == sched.node
<1>1. /\ sched.pc = "reserve" /\ p \in Pods /\ n \in Nodes /\ Filter(p, n)
      /\ UNCHANGED <<api, devs, anno, events, handler>>
      /\ \A d \in Devices : devs[d] = anno[d]
  BY SchedAlone DEF IInv, Reserve, TypeOK, Cycle, Agree
<1>2. PICK r \in IF IsGpuPod(p) THEN Allocated(p, n) ELSE {[pc |-> "bind", ids |-> {}]} :
        sched' = [sched EXCEPT !.pc = r.pc, !.ids = r.ids]
  BY DEF Reserve
<1>3. sched'.pc = r.pc /\ sched'.ids = r.ids /\ sched'.pod = p /\ sched'.node = n
  BY <1>2 DEF IInv, TypeOK
<1>4. CASE ~IsGpuPod(p)
  <2>1. sched'.pc = "bind"
    BY <1>2, <1>3, <1>4
  <2> QED
    BY <1>1, <1>3, <1>4, <2>1, CycleBooks
<1>5. CASE IsGpuPod(p)
  <2>1. r.pc = "cache" /\ Granted(p, n, r.ids)
    BY <1>1, <1>2, <1>5, ReserveFinds, ReserveGrants
  <2>2. \A q \in Pods : \A d \in Devices : Due(q, d)' <=> Due(q, d)
    BY <1>1, <1>3, <2>1 DEF Due
  <2>3. Occupied'
    BY <1>1, <2>2 DEF Books, Occupied
  <2>4. Published'
    BY <1>1, <1>3, <2>1 DEF Published
  <2>5. Grants'
    BY <1>1, <1>3, <2>1 DEF Books, Grants, GotWhatItAsked, Granted
  <2> QED
    BY <2>3, <2>4, <2>5 DEF Books
<1> QED
  BY <1>4, <1>5

\* From here on the GPUs are due to the pod, and the cache has it there.
LEMMA ReserveInCacheBooks ==
  ASSUME IInv, Books, ReserveInCache
  PROVE  Books'
<1> DEFINE p == sched.pod
           n == sched.node
<1>1. /\ sched.pc = "cache" /\ p \in Pods /\ IsGpuPod(p) /\ handler.pc = "idle" /\ events = <<>>
      /\ api[p].phase = "pending"
      /\ \A d \in Devices : p \notin devs[d] /\ devs[d] = anno[d]
      /\ UNCHANGED <<api, anno, events, handler>>
  BY SchedAlone DEF IInv, ReserveInCache, TypeOK, Cycle, Agree
<1>2. /\ sched'.pc = "export" /\ sched'.pod = p /\ sched'.node = n
      /\ sched'.ids = sched.ids
  BY DEF IInv, ReserveInCache, TypeOK
<1>3. \A d \in Devices :
        devs'[d] = IF d \in On(n, sched.ids) THEN devs[d] \cup {p} ELSE devs[d]
  BY DEF ReserveInCache, addOrUpdatePod
<1>4. Occupied'
  <2> SUFFICES ASSUME NEW q \in Pods, NEW d \in Devices
               PROVE  q \in devs'[d] <=> IsGpuPod(q) /\ Due(q, d)'
    BY DEF Occupied
  <2>1. CASE q = p
    <3>1. q \in devs'[d] <=> d \in On(n, sched.ids)
      BY <1>1, <1>3, <2>1
    <3> QED
      BY <1>1, <1>2, <2>1, <3>1 DEF Due
  <2>2. CASE q # p
    <3>1. q \in devs'[d] <=> q \in devs[d]
      BY <1>3, <2>2
    <3>2. Due(q, d)' <=> Due(q, d)
      BY <1>1, <1>2, <2>2 DEF Due
    <3> QED
      BY <3>1, <3>2 DEF Books, Occupied
  <2> QED
    BY <2>1, <2>2
<1>5. Published'
  <2>1. \A q \in Pods : \A d \in Devices : q # p => (q \in devs'[d] <=> q \in anno'[d])
    BY <1>1, <1>3
  <2>2. \A d \in Devices : p \notin anno'[d]
    BY <1>1
  <2> QED
    BY <1>2, <2>1, <2>2 DEF Published
<1>6. Grants'
  BY <1>1, <1>2 DEF Books, Grants, GotWhatItAsked, Granted
<1> QED
  BY <1>4, <1>5, <1>6 DEF Books

\* Export and update of the node change nothing that is due; then the
\* annotation is the cache (updateNode).
LEMMA SchedPublishBooks ==
  ASSUME IInv, IInv', Books, SchedExport \/ SchedUpdateNode
  PROVE  Books'
<1>1. /\ sched.pc \in {"export", "update"}
      /\ sched'.pc = (IF sched.pc = "export" THEN "update" ELSE "patch")
      /\ sched'.pod = sched.pod /\ sched'.node = sched.node /\ sched'.ids = sched.ids
      /\ UNCHANGED <<api, devs, events, handler>>
      /\ sched.pc = "export" => anno' = anno
  <2>1. sched.pc \notin {"undoExport", "undoUpdate"}
    BY DEF IInv, Cycle
  <2>2. CASE SchedExport
    BY <2>1, <2>2, SMTT(30) DEF IInv, TypeOK, SchedExport
  <2>3. CASE SchedUpdateNode
    BY <2>1, <2>3, SMTT(30) DEF IInv, TypeOK, SchedUpdateNode
  <2> QED
    BY <2>2, <2>3
<1>2. \A q \in Pods : \A d \in Devices : Due(q, d)' <=> Due(q, d)
  BY <1>1 DEF Due
<1>3. Occupied'
  BY <1>1, <1>2 DEF Books, Occupied
<1>4. Published'
  <2>1. CASE sched.pc = "export"
    BY <1>1, <2>1 DEF Books, Published
  <2>2. CASE sched.pc = "update"
    <3>1. handler'.pc = "idle"
      BY <1>1, SchedAlone
    <3>2. \A d \in Devices : devs'[d] = anno'[d]
      BY <1>1, <2>2, <3>1 DEF IInv, Agree
    <3> QED
      BY <1>1, <2>2, <3>2 DEF Published
  <2> QED
    BY <1>1, <2>1, <2>2
<1>5. Grants'
  BY <1>1 DEF Books, Grants, GotWhatItAsked, Granted
<1> QED
  BY <1>3, <1>4, <1>5 DEF Books

\* The indexes written into the pod are the ones it is due.
LEMMA PatchPodBooks ==
  ASSUME IInv, Books, PatchPod
  PROVE  Books'
<1> DEFINE p == sched.pod
<1>1. /\ sched.pc = "patch" /\ p \in Pods /\ api[p].phase = "pending" /\ api[p] \in ApiPod
      /\ UNCHANGED <<devs, anno, events, handler>>
  BY SchedAlone DEF IInv, PatchPod, TypeOK
<1>2. /\ sched'.pc = "bind" /\ sched'.pod = p /\ sched'.node = sched.node
      /\ sched'.ids = sched.ids
  BY <1>1 DEF IInv, PatchPod, TypeOK
<1>3. api' = [api EXCEPT ![p] = [api[p] EXCEPT !.ids = sched.ids]]
  BY <1>1 DEF PatchPod
<1>4. api'[p].phase = "pending" /\ \A q \in Pods : q # p => api'[q] = api[q]
  BY <1>1, <1>3 DEF IInv, TypeOK, ApiPod
<1>5. \A q \in Pods : \A d \in Devices : Due(q, d)' <=> Due(q, d)
  BY <1>1, <1>2, <1>4 DEF Due
<1>6. Occupied'
  BY <1>1, <1>5 DEF Books, Occupied
<1>7. Published'
  BY <1>1, <1>2 DEF Books, Published
<1>8. Grants'
  <2>1. \A q \in Pods : api'[q].phase = "bound" => api'[q] = api[q]
    BY <1>4
  <2> QED
    BY <1>1, <1>2, <2>1 DEF Books, Grants, GotWhatItAsked, Granted
<1> QED
  BY <1>6, <1>7, <1>8 DEF Books

\* What was due to the pod as a reservation is due to it as a running pod.
LEMMA BindBooks ==
  ASSUME IInv, Books, Bind
  PROVE  Books'
<1> DEFINE p == sched.pod
           n == sched.node
<1>1. /\ sched.pc = "bind" /\ p \in Pods /\ api[p].phase = "pending" /\ api[p] \in ApiPod
      /\ IsGpuPod(p) => api[p].ids = sched.ids
      /\ UNCHANGED <<devs, anno, events, handler>>
  BY SchedAlone DEF IInv, Bind, TypeOK, Cycle
<1>2. sched'.pc = "idle"
  BY <1>1 DEF Bind, NoCycle
<1>3. api' = [api EXCEPT ![p] = [api[p] EXCEPT !.phase = "bound", !.host = n]]
  BY <1>1 DEF Bind
<1>4. /\ api'[p].phase = "bound" /\ api'[p].host = n /\ api'[p].ids = api[p].ids
      /\ \A q \in Pods : q # p => api'[q] = api[q]
  BY <1>1, <1>3 DEF IInv, TypeOK, ApiPod
<1>5. \A q \in Pods : \A d \in Devices : IsGpuPod(q) => (Due(q, d)' <=> Due(q, d))
  <2> SUFFICES ASSUME NEW q \in Pods, NEW d \in Devices, IsGpuPod(q)
               PROVE  Due(q, d)' <=> Due(q, d)
    OBVIOUS
  <2>1. CASE q = p
    BY <1>1, <1>2, <1>4, <2>1 DEF Due
  <2>2. CASE q # p
    BY <1>1, <1>2, <1>4, <2>2 DEF Due
  <2> QED
    BY <2>1, <2>2
<1>6. Occupied'
  BY <1>1, <1>5 DEF Books, Occupied
<1>7. Published'
  BY <1>1, <1>2 DEF Books, Published
<1>8. Grants'
  <2>1. IsGpuPod(p) => Granted(p, n, api[p].ids)
    BY <1>1 DEF Books, Grants
  <2>2. ASSUME NEW q \in Pods, IsGpuPod(q), api'[q].phase = "bound"
        PROVE  Granted(q, api'[q].host, api'[q].ids)
    <3>1. CASE q = p
      BY <1>4, <2>1, <2>2, <3>1
    <3>2. CASE q # p
      BY <1>4, <2>2, <3>2 DEF Books, Grants, GotWhatItAsked, Granted
    <3> QED
      BY <3>1, <3>2
  <2> QED
    BY <1>2, <2>2 DEF Grants, GotWhatItAsked, Granted
<1> QED
  BY <1>6, <1>7, <1>8 DEF Books

\* A pod the scheduler gives up on was due no GPU.
LEMMA FailBooks ==
  ASSUME IInv, Books, Fail
  PROVE  Books'
<1> DEFINE p == sched.pod
<1>1. /\ sched.pc = "fail" /\ p \in Pods /\ api[p].phase = "pending" /\ api[p] \in ApiPod
      /\ UNCHANGED <<devs, anno, events, handler>>
  BY SchedAlone DEF IInv, Fail, TypeOK
<1>2. sched'.pc = "idle"
  BY <1>1 DEF Fail, NoCycle
<1>3. api' = [api EXCEPT ![p] = [api[p] EXCEPT !.phase = "failed"]]
  BY <1>1 DEF Fail
<1>4. api'[p].phase = "failed" /\ \A q \in Pods : q # p => api'[q] = api[q]
  BY <1>1, <1>3 DEF IInv, TypeOK, ApiPod
<1>5. \A q \in Pods : \A d \in Devices : Due(q, d)' <=> Due(q, d)
  BY <1>1, <1>2, <1>4 DEF Due
<1>6. Occupied'
  BY <1>1, <1>5 DEF Books, Occupied
<1>7. Published'
  BY <1>1, <1>2 DEF Books, Published
<1>8. Grants'
  <2>1. \A q \in Pods : api'[q].phase = "bound" => api'[q] = api[q]
    BY <1>4
  <2> QED
    BY <1>1, <1>2, <2>1 DEF Books, Grants, GotWhatItAsked, Granted
<1> QED
  BY <1>6, <1>7, <1>8 DEF Books

-----------------------------------------------------------------------------
(* The handler keeps the books.                                            *)

\* The pod of a deletion is struck out of every device that was due to it.
LEMMA HandlerRemoveBooks ==
  ASSUME IInv, IInv', Books, HandlerRemove
  PROVE  Books'
<1> DEFINE p == driver.pod
           n == driver.node
           ids == Head(events).ids
<1>1. /\ events # <<>> /\ handler.pc = "idle" /\ p \in Pods
      /\ api[p].phase = "absent" /\ sched.pc = "idle"
      /\ UNCHANGED <<api, anno, sched>>
  BY HandlerAlone DEF HandlerRemove
<1>2. Head(events).pod = p /\ Head(events).node = n
  BY <1>1 DEF IInv, Waits
<1>3. handler'.pc = "export" /\ handler'.pod = p
  BY <1>2 DEF HandlerRemove, NoRemoval
<1>4. events' = <<>>
  BY <1>3 DEF IInv, Turn
<1>5. \A d \in Devices :
        devs'[d] = IF d \in On(n, ids) THEN devs[d] \ {p} ELSE devs[d]
  BY <1>2 DEF HandlerRemove, removePod
<1>6. Occupied'
  <2> SUFFICES ASSUME NEW q \in Pods, NEW d \in Devices
               PROVE  q \in devs'[d] <=> IsGpuPod(q) /\ Due(q, d)'
    BY DEF Occupied
  <2>1. CASE q = p
    <3>1. p \in devs[d] => d \in On(n, ids)
      BY <1>1, <1>2 DEF Books, Occupied, Due
    <3>2. p \notin devs'[d]
      BY <1>5, <3>1
    <3> QED
      BY <1>1, <1>4, <2>1, <3>2 DEF Due
  <2>2. CASE q # p
    <3>1. q \in devs'[d] <=> q \in devs[d]
      BY <1>5, <2>2
    <3>2. Due(q, d)' <=> Due(q, d)
      BY <1>1, <1>2, <1>4, <2>2 DEF Due
    <3> QED
      BY <3>1, <3>2 DEF Books, Occupied
  <2> QED
    BY <2>1, <2>2
<1>7. Published'
  <2>1. \A d \in Devices : devs[d] = anno[d]
    BY <1>1 DEF IInv, Agree
  <2>2. \A q \in Pods : \A d \in Devices : q # p => (q \in devs'[d] <=> q \in anno'[d])
    BY <1>1, <1>5, <2>1
  <2> QED
    BY <1>1, <1>3, <2>2 DEF Published
<1>8. Grants'
  BY <1>1 DEF Books, Grants, GotWhatItAsked, Granted
<1> QED
  BY <1>6, <1>7, <1>8 DEF Books

\* Export and update of the node change nothing that is due (updateNode).
LEMMA HandlerPublishBooks ==
  ASSUME IInv, IInv', Books, HandlerExport \/ HandlerUpdateNode
  PROVE  Books'
<1>1. /\ handler.pc # "idle" /\ UNCHANGED <<api, devs, sched, events>>
  BY DEF HandlerExport, HandlerUpdateNode
<1>2. sched'.pc = "idle"
  BY <1>1, HandlerAlone
<1>3. \A q \in Pods : \A d \in Devices : Due(q, d)' <=> Due(q, d)
  BY <1>1 DEF Due
<1>4. Occupied'
  BY <1>1, <1>3 DEF Books, Occupied
<1>5. Published'
  <2>1. CASE HandlerExport
    <3>1. handler'.pc = "update" /\ handler'.pod = handler.pod /\ anno' = anno
      BY <2>1 DEF IInv, TypeOK, HandlerExport
    <3> QED
      BY <1>1, <1>2, <3>1 DEF Books, Published
  <2>2. CASE HandlerUpdateNode
    <3>1. handler'.pc = "idle"
      BY <2>2 DEF HandlerUpdateNode, NoRemoval
    <3>2. \A d \in Devices : devs'[d] = anno'[d]
      BY <1>2, <3>1 DEF IInv, Agree
    <3> QED
      BY <1>2, <3>2 DEF Published
  <2> QED
    BY <2>1, <2>2
<1>6. Grants'
  BY <1>1 DEF Books, Grants, GotWhatItAsked, Granted
<1> QED
  BY <1>4, <1>5, <1>6 DEF Books

-----------------------------------------------------------------------------
(* The theorems.                                                           *)

\* At the start no device is due to anyone, and none is in use.
LEMMA BooksInit == Init => Books
BY DEF Init, NoBrief, Absent, NoCycle, NoRemoval, NoEvent,
       Books, Occupied, Due, Published, Grants, GotWhatItAsked

\* Every step of Next keeps the books.
LEMMA BooksStep == BooksInv /\ [Next]_vars => BooksInv'
<1> SUFFICES ASSUME IInv, Books, [Next]_vars PROVE IInv' /\ Books'
  BY DEF BooksInv
<1>1. IInv'
  BY IInvStep
<1>2. CASE UNCHANGED vars
  BY <1>1, <1>2, SameBooks DEF vars
<1>3. ASSUME \/ \E p \in Pods : CreateDuplicate(p) \/ DeleteEvent(p) \/ QueueForget(p)
             \/ Created \/ SeenOnNode \/ CheckFailed \/ GetPod \/ GoneFromNode
      PROVE  Books'
  <2>1. UNCHANGED <<api, devs, anno, sched, events, handler>>
    BY <1>3 DEF CreateDuplicate, DeleteEvent, QueueForget, Created, SeenOnNode, CheckFailed,
                GetPod, GoneFromNode
  <2> QED
    BY <2>1, SameBooks
<1>4. CASE Unreserve
  BY <1>4 DEF IInv, Cycle, Unreserve
<1> QED
  BY <1>1, <1>2, <1>3, <1>4, CreatePodBooks, DeleteBooks, CycleEndsBooks, ReserveBooks,
     ReserveInCacheBooks, SchedPublishBooks, PatchPodBooks, BindBooks, FailBooks,
     HandlerRemoveBooks, HandlerPublishBooks
  DEF Next, DriverChoice, DriverStep, Scheduler, Handler

(***************************************************************************)
(* At every step of every behaviour, cache and annotations differ from the *)
(* pods that run by at most the pod on its way in or out, and every pod    *)
(* has what it asked for (Reserve, updateNode, DeleteFunc).                *)
(***************************************************************************)
THEOREM BooksKept == Spec => []BooksInv
<1>1. Init => BooksInv
  BY IInvInit, BooksInit DEF BooksInv
<1> QED
  BY <1>1, BooksStep, PTL DEF Spec

(***************************************************************************)
(* Whenever the driver is between two pods, the reports it makes count     *)
(* exactly the pods that run (ClusterGpuFragReport, GetClusterNodeStatus). *)
(***************************************************************************)
THEOREM ReportsTrue == Spec => []ReportsSeeTruth
<1>1. BooksInv => ReportsSeeTruth
  <2> SUFFICES ASSUME IInv, Books, driver.pc = "idle", NEW d \in Devices
               PROVE  devs[d] = Running(d) /\ anno[d] = Running(d)
    BY DEF BooksInv, ReportsSeeTruth
  <2>1. sched.pc = "idle" /\ handler.pc = "idle" /\ events = <<>>
    BY DEF IInv, Turn
  <2>2. devs[d] \in SUBSET Pods /\ anno[d] = devs[d]
    BY <2>1 DEF IInv, TypeOK, Agree
  <2>3. \A p \in Pods : p \in devs[d] <=> p \in Running(d)
    BY <2>1, OnDevice DEF Books, Occupied, Due, Running
  <2> QED
    BY <2>2, <2>3 DEF Running
<1> QED
  BY <1>1, BooksKept, PTL

(***************************************************************************)
(* Every pod that runs got the GPUs it asked for, on a node of a model it  *)
(* accepts (allocateGpuId, AllocateExclusiveGpuId, PatchPod).              *)
(***************************************************************************)
THEOREM DemandMet == Spec => []GotWhatItAsked
<1>1. BooksInv => GotWhatItAsked
  BY DEF BooksInv, Books, Grants
<1> QED
  BY <1>1, BooksKept, PTL

-----------------------------------------------------------------------------
(* What a step may do to the annotations.                                  *)

(***************************************************************************)
(* Reserve's update of a node adds the pod of the cycle on all its GPUs,   *)
(* on which it was listed nowhere before, and changes nothing else.        *)
(***************************************************************************)
LEMMA UpdateEnters ==
  ASSUME BooksInv, BooksInv', SchedUpdateNode
  PROVE  /\ sched.pod \in Pods /\ IsGpuPod(sched.pod)
         /\ Granted(sched.pod, sched.node, sched.ids)
         /\ sched.node \in Nodes /\ sched.ids # {}
         /\ \A d \in Devices :
              /\ sched.pod \notin anno[d]
              /\ anno'[d] = IF d \in On(sched.node, sched.ids)
                            THEN anno[d] \cup {sched.pod} ELSE anno[d]
<1> USE DEF BooksInv
<1> DEFINE p == sched.pod
<1>1. /\ sched.pc = "update" /\ p \in Pods /\ IsGpuPod(p) /\ sched.node \in Nodes
      /\ Granted(p, sched.node, sched.ids) /\ sched.ids # {}
      /\ handler.pc = "idle" /\ events = <<>> /\ api[p].phase = "pending"
      /\ devs' = devs /\ handler' = handler
  BY SchedAlone DEF IInv, SchedUpdateNode, TypeOK, Cycle, Held, Books, Grants
<1>2. sched'.pc = "patch"
  BY <1>1 DEF IInv, TypeOK, SchedUpdateNode
<1>3. \A d \in Devices : anno'[d] = devs[d] /\ anno[d] \subseteq Pods /\ devs[d] \subseteq Pods
  BY <1>1, <1>2 DEF IInv, Agree, TypeOK
<1>4. \A d \in Devices : p \notin anno[d] /\ (p \in devs[d] <=> d \in On(sched.node, sched.ids))
  BY <1>1 DEF Books, Published, Occupied, Due
<1>5. \A d \in Devices : \A q \in Pods : q # p => (q \in devs[d] <=> q \in anno[d])
  BY <1>1 DEF Books, Published
<1>6. \A d \in Devices : devs[d] = IF d \in On(sched.node, sched.ids)
                                    THEN anno[d] \cup {p} ELSE anno[d]
  <2> SUFFICES ASSUME NEW d \in Devices
               PROVE  devs[d] = IF d \in On(sched.node, sched.ids)
                                THEN anno[d] \cup {p} ELSE anno[d]
    OBVIOUS
  <2>1. CASE d \in On(sched.node, sched.ids)
    BY <1>1, <1>3, <1>4, <1>5, <2>1
  <2>2. CASE d \notin On(sched.node, sched.ids)
    BY <1>3, <1>4, <1>5, <2>2
  <2> QED
    BY <2>1, <2>2
<1> QED
  BY <1>1, <1>3, <1>4, <1>6

(***************************************************************************)
(* The handler's update of a node strikes the deleted pod out of all GPUs  *)
(* it was listed on, and changes nothing else.                             *)
(***************************************************************************)
LEMMA UpdateStrikes ==
  ASSUME BooksInv, BooksInv', HandlerUpdateNode
  PROVE  /\ handler.pod \in Pods /\ api[handler.pod].phase = "absent"
         /\ \E d \in Devices : handler.pod \in anno[d]
         /\ \A d \in Devices : anno'[d] = anno[d] \ {handler.pod}
<1> USE DEF BooksInv
<1> DEFINE p == handler.pod
<1>1. /\ handler.pc = "update" /\ p = driver.pod /\ p \in Pods /\ api[p].phase = "absent"
      /\ sched.pc = "idle" /\ events = <<>> /\ Listed(p, driver.node)
      /\ devs' = devs /\ sched' = sched
  BY HandlerAlone DEF IInv, HandlerUpdateNode, Turn, Waits
<1>2. handler'.pc = "idle"
  BY DEF HandlerUpdateNode, NoRemoval
<1>3. \A d \in Devices : anno'[d] = devs[d] /\ anno[d] \subseteq Pods /\ devs[d] \subseteq Pods
  BY <1>1, <1>2 DEF IInv, Agree, TypeOK
<1>4. \A d \in Devices : p \notin devs[d]
  BY <1>1 DEF Books, Occupied, Due
<1>5. \A d \in Devices : \A q \in Pods : q # p => (q \in devs[d] <=> q \in anno[d])
  BY <1>1 DEF Books, Published
<1>6. \A d \in Devices : devs[d] = anno[d] \ {p}
  BY <1>3, <1>4, <1>5
<1> QED
  BY <1>1, <1>3, <1>6 DEF Listed

\* Nobody else writes an annotation.
LEMMA OnlyUpdatesWrite ==
  ASSUME BooksInv, [Next]_vars
  PROVE  anno' = anno \/ SchedUpdateNode \/ HandlerUpdateNode
BY DEF Next, DriverChoice, DriverStep, Scheduler, Handler, vars,
       CreatePod, CreateDuplicate, DeleteEvent, Created, SeenOnNode, CheckFailed, GetPod, Delete,
       GoneFromNode, Pop, FilterAccept, FilterReject, Reserve, ReserveInCache, SchedExport,
       PatchPod, Bind, Unreserve, Fail, QueueForget, HandlerRemove, HandlerExport

(***************************************************************************)
(* No update of an annotation is lost: whoever writes one writes it from   *)
(* an export that is still true, so that a listed pod is only unlisted     *)
(* after its deletion (updateNode).                                        *)
(***************************************************************************)
THEOREM NoLostUpdate == Spec => NeverUnlisted
<1>1. BooksInv /\ BooksInv' /\ [Next]_vars =>
        [\A d \in Devices : \A p \in anno[d] \ anno'[d] : api[p].phase = "absent"]_vars
  <2> SUFFICES ASSUME BooksInv, BooksInv', [Next]_vars,
                      NEW d \in Devices, NEW p \in anno[d] \ anno'[d]
               PROVE  api[p].phase = "absent"
    OBVIOUS
  <2>1. CASE SchedUpdateNode
    BY <2>1, UpdateEnters
  <2>2. CASE HandlerUpdateNode
    BY <2>2, UpdateStrikes
  <2> QED
    BY <2>1, <2>2, OnlyUpdatesWrite
<1> QED
  BY <1>1, BooksKept, PTL DEF Spec, NeverUnlisted

-----------------------------------------------------------------------------
(* The ledger.                                                             *)

\* The ledger has the cluster of the plugin, and counts its devices alike.
LEMMA SameCluster ==
  /\ Ledger!Devices = Devices
  /\ \A n \in Nodes : Ledger!Idx(n) = Idx(n)
  /\ \A p \in Pods : Ledger!IsGpuPod(p) <=> IsGpuPod(p)
  /\ \A S \in SUBSET Pods : Ledger!GetUsedGpuMilli(S) = GetUsedGpuMilli(S)
  /\ \A S : Ledger!Cardinality(S) = Cardinality(S)
<1>1. ASSUME NEW S \in SUBSET Pods
      PROVE  Ledger!GetUsedGpuMilli(S) = GetUsedGpuMilli(S)
  BY DEF Ledger!GetUsedGpuMilli, GetUsedGpuMilli, Ledger!MapThenSumSet, MapThenSumSet,
         Ledger!MapThenFoldSet, MapThenFoldSet
<1>2. \A S : Ledger!Cardinality(S) = Cardinality(S)
  BY DEF Ledger!Cardinality, Cardinality
<1> QED
  BY <1>1, <1>2 DEF Ledger!Devices, Devices, Ledger!Idx, Idx, Ledger!IsGpuPod, IsGpuPod

\* In the ledger a device holds the pods its annotation lists.
LEMMA LedgerHolding ==
  ASSUME TypeOK, NEW d \in Devices
  PROVE  Ledger!Holding(d) = anno[d]
<1>1. anno[d] \subseteq Pods
  BY DEF TypeOK
<1> QED
  BY <1>1 DEF Ledger!Holding, Entries

(***************************************************************************)
(* Reserve's update of a node is the entry of the pod into the ledger: all *)
(* its GPUs at once, each with room for it.                                *)
(***************************************************************************)
LEMMA UpdateIsPlace ==
  ASSUME BooksInv, BooksInv', SchedUpdateNode
  PROVE  Ledger!Next
<1> DEFINE p == sched.pod
           n == sched.node
           ids == sched.ids
<1>1. /\ p \in Pods /\ IsGpuPod(p) /\ Granted(p, n, ids) /\ n \in Nodes
      /\ \A d \in Devices :
           /\ p \notin anno[d]
           /\ anno'[d] = IF d \in On(n, ids) THEN anno[d] \cup {p} ELSE anno[d]
  BY UpdateEnters
<1>2. n \in Accessible[p] /\ ids \in SUBSET Ledger!Idx(n)
  BY <1>1, SameCluster DEF Granted
<1>3. Ledger!IsGpuPod(p) /\ Entries[p] = {}
  BY <1>1, SameCluster DEF Entries
<1>4. IF Preset[p] # {} THEN ids = Preset[p] ELSE Ledger!Cardinality(ids) = GpuNum[p]
  BY <1>1, SameCluster DEF Granted
<1>5. ASSUME NEW i \in ids
      PROVE  Ledger!GetUsedGpuMilli(Ledger!Holding(<<n, i>>)) + GpuMilli[p] <= MILLI
  <2> DEFINE d == <<n, i>>
  <2>1. d \in Devices /\ d \in On(n, ids)
    BY <1>1, DeviceShape DEF Granted, On
  <2>2. anno[d] \in SUBSET Pods /\ p \in Pods \ anno[d] /\ anno'[d] = anno[d] \cup {p}
    BY <1>1, <2>1 DEF BooksInv, IInv, TypeOK
  <2>3. Ledger!GetUsedGpuMilli(Ledger!Holding(d)) = GetUsedGpuMilli(anno[d])
    BY <2>1, <2>2, LedgerHolding, SameCluster DEF BooksInv, IInv
  <2>4. GetUsedGpuMilli(anno'[d]) = GetUsedGpuMilli(anno[d]) + GpuMilli[p]
    BY <2>2, UsedAfterAdd
  <2>5. MILLI - GetUsedGpuMilli(anno'[d]) >= 0
    BY <2>1 DEF BooksInv, IInv, NoOversubscription, Left
  <2>6. GetUsedGpuMilli(anno[d]) \in Nat /\ GpuMilli[p] \in Nat /\ MILLI \in Nat
    BY <1>1, <2>2, UsedIsSum, DemandAssumption, MilliAssumption
  <2> QED
    BY <2>3, <2>4, <2>5, <2>6
<1>6. Entries' = [Entries EXCEPT ![p] = {n} \X ids]
  <2>1. ASSUME NEW q \in Pods
        PROVE  { d \in Devices : q \in anno'[d] } =
                 IF q = p THEN {n} \X ids ELSE { d \in Devices : q \in anno[d] }
    <3>1. CASE q = p
      <4>1. {n} \X ids \subseteq Devices
        BY <1>1 DEF Granted, Devices
      <4>2. { d \in Devices : q \in anno'[d] } = { d \in Devices : d \in On(n, ids) }
        BY <1>1, <3>1
      <4> QED
        BY <3>1, <4>1, <4>2 DEF On
    <3>2. CASE q # p
      BY <1>1, <3>2
    <3> QED
      BY <3>1, <3>2
  <2> QED
    BY <1>1, <2>1 DEF Entries
<1>7. Ledger!Place(p, n, ids)
  BY <1>3, <1>4, <1>5, <1>6 DEF Ledger!Place
<1> QED
  BY <1>1, <1>2, <1>7 DEF Ledger!Next

(***************************************************************************)
(* The handler's update of a node is the removal of the pod from the       *)
(* ledger, from all its GPUs at once.                                      *)
(***************************************************************************)
LEMMA UpdateIsFree ==
  ASSUME BooksInv, BooksInv', HandlerUpdateNode
  PROVE  Ledger!Next
<1> DEFINE p == handler.pod
<1>1. /\ p \in Pods /\ \E d \in Devices : p \in anno[d]
      /\ \A d \in Devices : anno'[d] = anno[d] \ {p}
  BY UpdateStrikes
<1>2. Entries[p] # {}
  BY <1>1 DEF Entries
<1>3. Entries' = [Entries EXCEPT ![p] = {}]
  <2>1. ASSUME NEW q \in Pods
        PROVE  { d \in Devices : q \in anno'[d] } =
                 IF q = p THEN {} ELSE { d \in Devices : q \in anno[d] }
    BY <1>1
  <2> QED
    BY <1>1, <2>1 DEF Entries
<1> QED
  BY <1>1, <1>2, <1>3 DEF Ledger!Free, Ledger!Next

(***************************************************************************)
(* The program implements the ledger: to whoever reads the annotations,    *)
(* pods are entered whole, on GPUs with room, and struck out whole.        *)
(***************************************************************************)
THEOREM ImplementsLedger == Spec => LedgerSpec
<1>1. Init => Ledger!Init
  BY DEF Init, NoBrief, Ledger!Init, Entries
<1>2. BooksInv /\ BooksInv' /\ [Next]_vars => [Ledger!Next]_Entries
  <2> SUFFICES ASSUME BooksInv, BooksInv', [Next]_vars
               PROVE  Ledger!Next \/ Entries' = Entries
    OBVIOUS
  <2>1. CASE anno' = anno
    BY <2>1 DEF Entries
  <2> QED
    BY <2>1, OnlyUpdatesWrite, UpdateIsPlace, UpdateIsFree
<1> QED
  BY <1>1, <1>2, BooksKept, PTL DEF Spec, LedgerSpec, Ledger!Spec
-----------------------------------------------------------------------------
(***************************************************************************)
(* With retries that may overtake the driver (RetrySpec): scheduler,       *)
(* handler and driver may all be under way, and the cache that Filter      *)
(* counts still has every pod that runs.                                   *)
(***************************************************************************)
(* What a step leaves alone.                                               *)

\* A retry only wakes a pod up.
LEMMA RetryTypes == TypeOK /\ [RetryNext]_vars => TypeOK'
<1>1. ASSUME TypeOK, NEW p \in Pods, FlushBackoff(p) PROVE TypeOK'
  BY <1>1 DEF TypeOK, FlushBackoff
<1> QED
  BY <1>1, TypeOKStep DEF RetryNext

\* Pods that run are covered as before if none is new and none leaves a GPU.
LEMMA StillCovered ==
  ASSUME CacheCoversRunning,
         \A p \in Pods : api'[p].phase = "bound" => api'[p] = api[p],
         \A p \in Pods : \A d \in Devices :
           api'[p].phase = "bound" /\ p \in devs[d] => p \in devs'[d]
  PROVE  CacheCoversRunning'
BY DEF CacheCoversRunning, Running

\* The deletions under way are of pods of the workload.
LEMMA EventPods ==
  ASSUME TypeOK
  PROVE  \A i \in DOMAIN events : events[i].pod \in Pods
<1>1. events \in Seq(Deletion)
  BY DEF TypeOK
<1>2. \A i \in DOMAIN events : events[i] \in Deletion
  BY <1>1
<1> QED
  BY <1>2 DEF Deletion

\* The deletions under way are of pods that are still gone.
LEMMA StillGone ==
  ASSUME TypeOK, Gone, events' = events,
         \A p \in Pods : api[p].phase = "absent" /\ (\E i \in DOMAIN events : events[i].pod = p)
           => api'[p].phase = "absent"
  PROVE  Gone'
<1>1. ASSUME NEW i \in DOMAIN events
      PROVE  api'[events[i].pod].phase = "absent"
  <2> DEFINE p == events[i].pod
  <2>1. p \in Pods /\ api[p].phase = "absent"
    BY <1>1, EventPods DEF Gone
  <2> QED
    BY <1>1, <2>1
<1> QED
  BY <1>1 DEF Gone

-----------------------------------------------------------------------------
(* The driver, which may be behind.                                        *)

\* A name is only used again when nothing of the pod before is left.
LEMMA CreatePodRetry ==
  ASSUME RetryInv, TypeOK', NEW p \in Pods, CreatePod(p)
  PROVE  RetryInv'
<1> USE DEF RetryInv
<1>1. /\ api'[p] = [Absent EXCEPT !.phase = "pending", !.ids = Preset[p]]
      /\ \A q \in Pods : q # p => api'[q] = api[q]
      /\ p # sched.pod
      /\ UNCHANGED <<devs, sched, events>>
  BY DEF CreatePod, TypeOK, Fresh
<1>2. api'[p].phase = "pending"
  BY <1>1 DEF Absent
<1>3. \A q \in Pods : q # p => queue'[q] = queue[q]
  BY DEF CreatePod, TypeOK
<1>4. Settled'
  <2>1. sched.pc # "idle" => sched.pod \in Pods
    BY DEF TypeOK
  <2> QED
    BY <1>1, <1>2, <1>3, <2>1 DEF Settled
<1>5. Gone'
  BY <1>1, StillGone DEF CreatePod, Fresh
<1>6. Entered'
  BY <1>1 DEF Entered, TypeOK
<1>7. CacheCoversRunning'
  <2>1. \A q \in Pods : api'[q].phase = "bound" => api'[q] = api[q]
    BY <1>1, <1>2
  <2> QED
    BY <1>1, <2>1, StillCovered
<1> QED
  BY <1>4, <1>5, <1>6, <1>7

\* A deletion leaves the pod to the handler and covers the others as before.
LEMMA DeleteRetry ==
  ASSUME RetryInv, TypeOK', Delete
  PROVE  RetryInv'
<1> USE DEF RetryInv
<1> DEFINE p == driver.pod
           e == [pod |-> p, node |-> api[p].host, ids |-> api[p].ids]
<1>1. /\ p \in Pods /\ api'[p] = Absent /\ \A q \in Pods : q # p => api'[q] = api[q]
      /\ UNCHANGED <<queue, devs, sched>>
  BY DEF Delete, TypeOK
<1>2. api'[p].phase = "absent"
  BY <1>1 DEF Absent
<1>3. Settled'
  BY <1>1, <1>2, SMTT(30) DEF Settled, TypeOK
<1>4. Gone'
  <2>1. \A i \in DOMAIN events : api'[events[i].pod].phase = "absent"
    BY <1>1, <1>2, EventPods DEF Gone
  <2>2. CASE events' = events
    BY <2>1, <2>2 DEF Gone
  <2>3. CASE events' = Append(events, e)
    <3>1. e \in Deletion
      BY <1>1, <2>3 DEF Delete, TypeOK, ApiPod, Deletion
    <3>2. /\ DOMAIN events' = 1 .. Len(events) + 1 /\ DOMAIN events = 1 .. Len(events)
          /\ \A i \in 1 .. Len(events) : events'[i] = events[i]
          /\ events'[Len(events) + 1] = e /\ Len(events) \in Nat
      BY <2>3, <3>1, AppendProperties DEF TypeOK
    <3> QED
      BY <1>2, <2>1, <3>2 DEF Gone
  <2> QED
    BY <2>2, <2>3 DEF Delete
<1>5. Entered'
  BY <1>1, <1>2 DEF Entered, TypeOK
<1>6. CacheCoversRunning'
  <2>1. \A q \in Pods : api'[q].phase = "bound" => api'[q] = api[q]
    BY <1>1, <1>2
  <2> QED
    BY <1>1, <2>1, StillCovered
<1> QED
  BY <1>3, <1>4, <1>5, <1>6

\* Steps that leave API server, cache, cycle and deletions alone, and wake up
\* a pod that waits in the queue or forget it.
LEMMA QueueRetry ==
  ASSUME RetryInv, TypeOK', UNCHANGED <<api, devs, sched, events>>,
         \A p \in Pods : queue[p] = "none" => queue'[p] = "none"
  PROVE  RetryInv'
<1> USE DEF RetryInv
<1>1. Settled'
  BY DEF Settled, TypeOK
<1>2. Gone' /\ Entered'
  BY DEF Gone, Entered
<1>3. CacheCoversRunning'
  BY StillCovered
<1> QED
  BY <1>1, <1>2, <1>3

-----------------------------------------------------------------------------
(* The scheduler.                                                          *)

\* A pod in the queue is not bound; it leaves the queue for the cycle.
LEMMA PopRetry ==
  ASSUME RetryInv, TypeOK', NEW p \in Pods, Pop(p)
  PROVE  RetryInv'
<1> USE DEF RetryInv
<1>1. /\ queue[p] = "active" /\ queue'[p] = "none" /\ \A q \in Pods : q # p => queue'[q] = queue[q]
      /\ UNCHANGED <<api, devs, events>>
  BY DEF Pop, TypeOK
<1>2. sched'.pc = "filter" /\ sched'.pod = p
  BY DEF Pop, NoCycle
<1>3. Settled'
  BY <1>1, <1>2 DEF Settled
<1>4. Gone' /\ Entered'
  BY <1>1, <1>2 DEF Gone, Entered
<1>5. CacheCoversRunning'
  BY <1>1, StillCovered
<1> QED
  BY <1>3, <1>4, <1>5

\* Steps of the cycle that write neither API server nor cache.
LEMMA CycleRetry ==
  ASSUME RetryInv, TypeOK', UNCHANGED <<api, queue, devs, events>>,
         sched.pc # "idle", sched'.pod = sched.pod,
         \/ ~IsGpuPod(sched.pod)
         \/ sched'.pc \notin {"export", "update", "patch", "bind"}
         \/ /\ sched.pc \in {"export", "update"} /\ sched'.pc \in {"update", "patch"}
            /\ sched'.node = sched.node /\ sched'.ids = sched.ids
  PROVE  RetryInv'
<1> USE DEF RetryInv
<1>1. Settled'
  BY DEF Settled
<1>2. Gone' /\ Entered'
  BY DEF Gone, Entered
<1>3. CacheCoversRunning'
  BY StillCovered
<1> QED
  BY <1>1, <1>2, <1>3

\* Filter, the allocation, and the two updates of the node.
LEMMA CycleStepsRetry ==
  ASSUME RetryInv, TypeOK',
         FilterReject \/ Reserve \/ SchedExport \/ SchedUpdateNode \/ \E n \in Nodes : FilterAccept(n)
  PROVE  RetryInv'
<1>1. CASE FilterReject \/ \E n \in Nodes : FilterAccept(n)
  <2>1. sched.pc = "filter" /\ UNCHANGED <<api, queue, devs, events>>
    BY <1>1 DEF FilterReject, FilterAccept
  <2>2. sched'.pc \in {"reserve", "fail"} /\ sched'.pod = sched.pod
    <3>1. sched' = [sched EXCEPT !.pc = "fail"]
          \/ \E n \in Nodes : sched' = [sched EXCEPT !.pc = "reserve", !.node = n]
      BY <1>1 DEF FilterReject, FilterAccept
    <3> QED
      BY <3>1, ZenonT(60) DEF RetryInv, TypeOK
  <2> QED
    BY <2>1, <2>2, CycleRetry
<1>2. CASE Reserve
  <2>1. PICK r \in IF IsGpuPod(sched.pod) THEN Allocated(sched.pod, sched.node)
                    ELSE {[pc |-> "bind", ids |-> {}]} :
          sched' = [sched EXCEPT !.pc = r.pc, !.ids = r.ids]
    BY <1>2 DEF Reserve
  <2>2. /\ sched.pc = "reserve" /\ sched.pod \in Pods /\ sched.node \in Nodes
        /\ UNCHANGED <<api, queue, devs, events>>
    BY <1>2 DEF Reserve, RetryInv, TypeOK
  <2>3. sched'.pod = sched.pod /\ sched'.pc = r.pc
    BY <2>1 DEF RetryInv, TypeOK
  <2>4. IsGpuPod(sched.pod) => r.pc \in {"cache", "undo", "panic"}
    BY <2>1, <2>2, AllocatedType
  <2> QED
    BY <2>2, <2>3, <2>4, CycleRetry
<1>3. CASE SchedExport \/ SchedUpdateNode
  <2>1. /\ sched.pc \in {"export", "undoExport", "update", "undoUpdate"}
        /\ UNCHANGED <<api, queue, devs, events>>
        /\ sched'.pod = sched.pod /\ sched'.node = sched.node /\ sched'.ids = sched.ids
        /\ sched.pc = "export" => sched'.pc = "update"
        /\ sched.pc = "update" => sched'.pc = "patch"
        /\ sched.pc \in {"undoExport", "undoUpdate"} => sched'.pc \in {"undoUpdate", "fail"}
    <3>1. CASE SchedExport
      BY <3>1, SMTT(30) DEF SchedExport, RetryInv, TypeOK
    <3>2. CASE SchedUpdateNode
      BY <3>2, SMTT(30) DEF SchedUpdateNode, RetryInv, TypeOK
    <3> QED
      BY <1>3, <3>1, <3>2
  <2> QED
    BY <2>1, CycleRetry
<1> QED
  BY <1>1, <1>2, <1>3

\* The pod enters the cache on the GPUs of the cycle, beside those it holds.
LEMMA ReserveInCacheRetry ==
  ASSUME RetryInv, TypeOK', ReserveInCache
  PROVE  RetryInv'
<1> USE DEF RetryInv
<1>1. /\ sched.pc = "cache" /\ sched'.pc = "export" /\ sched'.pod = sched.pod
      /\ sched'.node = sched.node /\ sched'.ids = sched.ids
      /\ UNCHANGED <<api, queue, events>>
  BY DEF ReserveInCache, TypeOK
<1>2. \A d \in Devices :
        devs'[d] = IF d \in On(sched.node, sched.ids) THEN devs[d] \cup {sched.pod} ELSE devs[d]
  BY DEF ReserveInCache, addOrUpdatePod
<1>3. Settled' /\ Gone'
  BY <1>1 DEF Settled, Gone
<1>4. Entered'
  BY <1>1, <1>2 DEF Entered
<1>5. CacheCoversRunning'
  BY <1>1, <1>2, StillCovered
<1> QED
  BY <1>3, <1>4, <1>5

\* The pod, if it is still there, gets the indexes of the cycle.
LEMMA PatchPodRetry ==
  ASSUME RetryInv, TypeOK', PatchPod
  PROVE  RetryInv'
<1> USE DEF RetryInv
<1> DEFINE p == sched.pod
<1>1. /\ sched.pc = "patch" /\ p \in Pods /\ api[p] \in ApiPod /\ api[p].phase # "bound"
      /\ UNCHANGED <<queue, devs, events>>
  BY DEF PatchPod, TypeOK, Settled
<1>2. CASE api[p].phase = "absent"
  <2>1. sched'.pc = "undo" /\ sched'.pod = p /\ api' = api
    BY <1>2 DEF PatchPod, TypeOK
  <2> QED
    BY <1>1, <2>1, CycleRetry
<1>3. CASE api[p].phase # "absent"
  <2>1. /\ sched'.pc = "bind" /\ sched'.pod = p /\ sched'.node = sched.node
        /\ sched'.ids = sched.ids
        /\ api' = [api EXCEPT ![p] = [api[p] EXCEPT !.ids = sched.ids]]
    BY <1>3 DEF PatchPod, TypeOK
  <2>2. /\ api'[p].phase = api[p].phase /\ api'[p].ids = sched.ids
        /\ \A q \in Pods : q # p => api'[q] = api[q]
    BY <1>1, <2>1 DEF TypeOK, ApiPod
  <2>3. Settled'
    BY <1>1, <2>1, <2>2 DEF Settled
  <2>4. Gone'
    BY <1>1, <2>2, StillGone
  <2>5. Entered'
    BY <1>1, <1>3, <2>1, <2>2 DEF Entered
  <2>6. CacheCoversRunning'
    <3>1. \A q \in Pods : api'[q].phase = "bound" => api'[q] = api[q]
      BY <1>1, <2>2
    <3> QED
      BY <1>1, <3>1, StillCovered
  <2> QED
    BY <2>3, <2>4, <2>5, <2>6
<1> QED
  BY <1>2, <1>3

\* A pod that starts to run is in the cache with its GPUs already.
LEMMA BindRetry ==
  ASSUME RetryInv, TypeOK', Bind
  PROVE  RetryInv'
<1> USE DEF RetryInv
<1> DEFINE p == sched.pod
           n == sched.node
<1>1. /\ sched.pc = "bind" /\ p \in Pods /\ n \in Nodes /\ api[p] \in ApiPod
      /\ queue[p] = "none" /\ UNCHANGED <<queue, devs, events>>
  BY DEF Bind, TypeOK, Settled
<1>2. CASE api[p].phase = "absent"
  <2>1. sched'.pc = "undo" /\ sched'.pod = p /\ api' = api
    BY <1>2 DEF Bind, TypeOK
  <2> QED
    BY <1>1, <2>1, CycleRetry
<1>3. CASE api[p].phase # "absent"
  <2>1. /\ sched'.pc = "idle"
        /\ api' = [api EXCEPT ![p] = [api[p] EXCEPT !.phase = "bound", !.host = n]]
    BY <1>3 DEF Bind, NoCycle
  <2>2. /\ api'[p].phase = "bound" /\ api'[p].host = n /\ api'[p].ids = api[p].ids
        /\ \A q \in Pods : q # p => api'[q] = api[q]
    BY <1>1, <2>1 DEF TypeOK, ApiPod
  <2>3. Settled'
    BY <1>1, <2>1, <2>2 DEF Settled
  <2>4. Gone'
    BY <1>1, <1>3, <2>2, StillGone
  <2>5. Entered'
    BY <2>1 DEF Entered
  <2>6. CacheCoversRunning'
    <3> SUFFICES ASSUME NEW d \in Devices, NEW q \in Pods, IsGpuPod(q),
                        api'[q].phase = "bound", api'[q].host = d[1], d[2] \in api'[q].ids
                 PROVE  q \in devs[d]
      BY <1>1 DEF CacheCoversRunning, Running
    <3>1. CASE q = p
      <4>1. d \in On(n, sched.ids)
        BY <1>1, <1>3, <2>2, <3>1, DeviceShape DEF Entered, On
      <4> QED
        BY <1>1, <1>3, <3>1, <4>1 DEF Entered
    <3>2. CASE q # p
      BY <2>2, <3>2 DEF CacheCoversRunning, Running
    <3> QED
      BY <3>1, <3>2
  <2> QED
    BY <2>3, <2>4, <2>5, <2>6
<1> QED
  BY <1>2, <1>3

\* Unreserve takes a pod out of the cache that was not bound.
LEMMA UnreserveRetry ==
  ASSUME RetryInv, TypeOK', Unreserve
  PROVE  RetryInv'
<1> USE DEF RetryInv
<1>1. /\ sched.pc = "undo" /\ sched'.pc = "undoExport" /\ sched'.pod = sched.pod
      /\ api[sched.pod].phase # "bound" /\ UNCHANGED <<api, queue, events>>
  BY DEF Unreserve, TypeOK, Settled
<1>2. \A p \in Pods : \A d \in Devices : p # sched.pod /\ p \in devs[d] => p \in devs'[d]
  BY DEF Unreserve, removePod
<1>3. Settled' /\ Gone' /\ Entered'
  BY <1>1 DEF Settled, Gone, Entered
<1>4. CacheCoversRunning'
  BY <1>1, <1>2, StillCovered
<1> QED
  BY <1>3, <1>4

\* A pod the scheduler gives up on was not bound.
LEMMA FailRetry ==
  ASSUME RetryInv, TypeOK', Fail
  PROVE  RetryInv'
<1> USE DEF RetryInv
<1> DEFINE p == sched.pod
<1>1. /\ sched.pc = "fail" /\ sched'.pc = "idle" /\ p \in Pods /\ api[p] \in ApiPod
      /\ api[p].phase # "bound" /\ UNCHANGED <<devs, events>>
  BY DEF Fail, TypeOK, Settled, NoCycle
<1>2. /\ api'[p].phase # "bound" /\ (api[p].phase = "absent" => api' = api)
      /\ \A q \in Pods : q # p => api'[q] = api[q] /\ queue'[q] = queue[q]
  <2>1. CASE api[p].phase = "absent"
    BY <1>1, <2>1 DEF Fail
  <2>2. CASE api[p].phase # "absent"
    <3>1. api' = [api EXCEPT ![p] = [api[p] EXCEPT !.phase = "failed"]]
          /\ queue' = [queue EXCEPT ![p] = "parked"]
      BY <2>2 DEF Fail
    <3> QED
      BY <1>1, <2>2, <3>1 DEF TypeOK, ApiPod
  <2> QED
    BY <2>1, <2>2
<1>3. Settled'
  BY <1>1, <1>2 DEF Settled
<1>4. Gone'
  BY <1>1, <1>2, StillGone
<1>5. Entered'
  BY <1>1 DEF Entered
<1>6. CacheCoversRunning'
  <2>1. \A q \in Pods : api'[q].phase = "bound" => api'[q] = api[q]
    BY <1>2
  <2> QED
    BY <1>1, <2>1, StillCovered
<1> QED
  BY <1>3, <1>4, <1>5, <1>6

-----------------------------------------------------------------------------
(* The handler, which may be behind as well.                               *)

\* The handler takes a pod out of the cache that is gone.
LEMMA HandlerRemoveRetry ==
  ASSUME RetryInv, TypeOK', HandlerRemove
  PROVE  RetryInv'
<1> USE DEF RetryInv
<1> DEFINE e == Head(events)
<1>1. /\ events # <<>> /\ events' = Tail(events) /\ UNCHANGED <<api, queue, sched>>
  BY DEF HandlerRemove
<1>2. /\ e = events[1] /\ 1 \in DOMAIN events /\ e.pod \in Pods
      /\ DOMAIN events' = 1 .. Len(events') /\ DOMAIN events = 1 .. Len(events)
      /\ Len(events') = Len(events) - 1 /\ Len(events) \in Nat
      /\ \A i \in 1 .. Len(events') : events'[i] = events[i + 1]
  <2>1. /\ e = events[1] /\ Len(events) \in Nat \ {0} /\ e \in Deletion
        /\ Tail(events) \in Seq(Deletion) /\ Len(Tail(events)) = Len(events) - 1
        /\ \A i \in 1 .. Len(Tail(events)) : Tail(events)[i] = events[i + 1]
    BY <1>1, HeadTailProperties, EmptySeq DEF TypeOK
  <2> QED
    BY <1>1, <2>1 DEF TypeOK, Deletion
<1>3. api[e.pod].phase = "absent"
  BY <1>2 DEF Gone
<1>4. \A p \in Pods : \A d \in Devices : p # e.pod /\ p \in devs[d] => p \in devs'[d]
  BY DEF HandlerRemove, removePod
<1>5. Settled'
  BY <1>1 DEF Settled
<1>6. Gone'
  BY <1>1, <1>2 DEF Gone
<1>7. Entered'
  <2> SUFFICES ASSUME sched.pc # "idle", IsGpuPod(sched.pod), api[sched.pod].phase # "absent",
                      sched.pc \in {"export", "update", "patch", "bind"},
                      NEW d \in Devices, d \in On(sched.node, sched.ids)
               PROVE  sched.pod \in devs'[d]
    BY <1>1 DEF Entered
  <2>1. sched.pod \in devs[d] /\ sched.pod \in Pods /\ sched.pod # e.pod
    BY <1>3 DEF Entered, TypeOK
  <2> QED
    BY <1>4, <2>1
<1>8. CacheCoversRunning'
  BY <1>1, <1>3, <1>4, StillCovered
<1> QED
  BY <1>5, <1>6, <1>7, <1>8

-----------------------------------------------------------------------------
(* The theorem.                                                            *)

\* Every step keeps the invariant, retries included.
LEMMA RetryStep == RetryInv /\ [RetryNext]_vars => RetryInv'
<1> SUFFICES ASSUME RetryInv, [RetryNext]_vars PROVE RetryInv'
  OBVIOUS
<1>1. TypeOK'
  BY RetryTypes DEF RetryInv
<1>2. ASSUME \/ \E p \in Pods : CreateDuplicate(p) \/ DeleteEvent(p)
             \/ Created \/ SeenOnNode \/ CheckFailed \/ GetPod \/ GoneFromNode
             \/ HandlerExport \/ HandlerUpdateNode \/ UNCHANGED vars
      PROVE  RetryInv'
  <2>1. UNCHANGED <<api, queue, devs, sched, events>>
    BY <1>2 DEF CreateDuplicate, DeleteEvent, Created, SeenOnNode, CheckFailed, GetPod,
                GoneFromNode, HandlerExport, HandlerUpdateNode, vars
  <2> QED
    BY <1>1, <2>1, QueueRetry
<1>3. ASSUME NEW p \in Pods, QueueForget(p) \/ FlushBackoff(p)
      PROVE  RetryInv'
  <2>1. /\ UNCHANGED <<api, devs, sched, events>>
        /\ \A q \in Pods : queue[q] = "none" => queue'[q] = "none"
    BY <1>3 DEF QueueForget, FlushBackoff, RetryInv, TypeOK
  <2> QED
    BY <1>1, <2>1, QueueRetry
<1> QED
  BY <1>1, <1>2, <1>3, CreatePodRetry, DeleteRetry, PopRetry, CycleStepsRetry,
     ReserveInCacheRetry, PatchPodRetry, BindRetry, UnreserveRetry, FailRetry, HandlerRemoveRetry
  DEF RetryNext, Next, DriverChoice, DriverStep, Scheduler, Handler

(***************************************************************************)
(* The cache of Filter never forgets a pod that runs, whatever the order   *)
(* of retries, deletions and their handlers (AddOrUpdatePod, RemovePod).   *)
(***************************************************************************)
THEOREM CacheCovers == RetrySpec => []CacheCoversRunning
<1>1. Init => RetryInv
  BY TypeOKInit DEF Init, NoBrief, Absent, NoCycle, NoRemoval, NoEvent,
     RetryInv, Settled, Gone, Entered, CacheCoversRunning, Running
<1>2. RetryInv => CacheCoversRunning
  BY DEF RetryInv
<1> QED
  BY <1>1, <1>2, RetryStep, PTL DEF RetrySpec
=============================================================================
