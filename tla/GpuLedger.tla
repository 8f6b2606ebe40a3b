----------------------------- MODULE GpuLedger ------------------------------
(***************************************************************************)
(* What the Open-Gpu-Share plugin promises whoever reads the cluster: a    *)
(* ledger of the GPUs each pod holds, in which a pod is entered once, on   *)
(* one node, with all its GPUs at once and only while each of them has     *)
(* room, and from which it is struck out with all its GPUs at once.        *)
(***************************************************************************)
EXTENDS GpuCluster

VARIABLE alloc   \* alloc[p]: the devices pod p holds

Holding(d) == { p \in Pods : d \in alloc[p] }

Init == alloc = [p \in Pods |-> {}]

\* A pod gets its GPUs: those it was preset to, or as many as it asked for.
Place(p, n, ids) ==
  /\ IsGpuPod(p)
  /\ alloc[p] = {}
  /\ IF Preset[p] # {} THEN ids = Preset[p] ELSE Cardinality(ids) = GpuNum[p]
  /\ \A i \in ids : GetUsedGpuMilli(Holding(<<n, i>>)) + GpuMilli[p] <= MILLI
  /\ alloc' = [alloc EXCEPT ![p] = {n} \X ids]

Free(p) ==
  /\ alloc[p] # {}
  /\ alloc' = [alloc EXCEPT ![p] = {}]

Next ==
  \E p \in Pods :
    \/ \E n \in Accessible[p] : \E ids \in SUBSET Idx(n) : Place(p, n, ids)
    \/ Free(p)

Spec == Init /\ [][Next]_alloc
=============================================================================
