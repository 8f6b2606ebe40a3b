----------------------------- MODULE GpuCluster -----------------------------
(***************************************************************************)
(* What the GPU-sharing simulation is given and never changes: the nodes   *)
(* with their GPUs, the pods of the workload with the GPU share they ask   *)
(* for, and the arithmetic both sides of the plugin do on them.            *)
(***************************************************************************)
EXTENDS Integers, FiniteSets, FiniteSetsExt

CONSTANTS
  Pods,        \* the pods of the workload
  Nodes,       \* the nodes of the simulated cluster
  GpuCount,    \* GpuCount[n]: GPUs of node n, node.Status.Capacity[gpu-count]
  GpuMilli,    \* GpuMilli[p]: milli-GPU pod p asks of each of its GPUs
  GpuNum,      \* GpuNum[p]: GPUs pod p asks for
  Preset,      \* Preset[p]: GPU indexes the workload file already gives p, or {}
  Accessible,  \* Accessible[p]: the nodes whose GPU model suits p
  MILLI        \* the capacity of one GPU, 1000 in the code

ASSUME MilliAssumption == MILLI \in Nat \ {0}

ASSUME ClusterAssumption ==
  /\ IsFiniteSet(Pods) /\ IsFiniteSet(Nodes)
  /\ GpuCount \in [Nodes -> Nat]
  /\ Accessible \in [Pods -> SUBSET Nodes]

(***************************************************************************)
(* No pod of a workload asks for more than the whole of a GPU, nor for     *)
(* several GPUs and less than the whole of each: reading what is left of a *)
(* node asks GetGpuAffinityFromPodAnnotation of its pods, and that panics. *)
(***************************************************************************)
ASSUME DemandAssumption ==
  /\ GpuMilli \in [Pods -> 0 .. MILLI]
  /\ GpuNum \in [Pods -> Nat]
  /\ Preset \in [Pods -> SUBSET Nat]
  /\ \A p \in Pods : GpuNum[p] > 1 => GpuMilli[p] = MILLI

IsGpuPod(p) == GpuMilli[p] > 0
IsShare(p)  == GpuMilli[p] < MILLI

\* The GPU indexes of a node, and every GPU of the cluster as <<node, index>>.
Idx(n)  == 0 .. (GpuCount[n] - 1)
Devices == UNION { {n} \X Idx(n) : n \in Nodes }

(***************************************************************************)
(* The milli-GPU the pods of S take from one GPU all of them are on.       *)
(***************************************************************************)
GetUsedGpuMilli(S) == MapThenSumSet(LAMBDA p : GpuMilli[p], S)
=============================================================================
