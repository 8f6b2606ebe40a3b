----------------------------- MODULE MCGpuShare -----------------------------
(***************************************************************************)
(* Instances of GpuShare for TLC: two nodes, one with two GPUs and one     *)
(* with one, and pods that compete for them.                               *)
(***************************************************************************)
EXTENDS GpuShareInv, TLC

CONSTANTS n1, n2,
  s, t,    \* GPU-share pods, of which no two fit one GPU with each other and u
  u,       \* a small GPU-share pod
  x,       \* an exclusive pod of two GPUs
  g,       \* a GPU-share pod the workload file puts on GPU 1
  c        \* a pod without GPUs

MCMILLI    == 1000
MCGpuCount == [n \in Nodes |-> IF n = n1 THEN 2 ELSE 1]
Demand     == (s :> <<600, 1>>) @@ (t :> <<700, 1>>) @@ (u :> <<300, 1>>)
              @@ (x :> <<1000, 2>>) @@ (g :> <<500, 1>>) @@ (c :> <<0, 0>>)
MCGpuMilli == [p \in Pods |-> Demand[p][1]]
MCGpuNum   == [p \in Pods |-> Demand[p][2]]
MCPreset   == [p \in Pods |-> IF p = g THEN {1} ELSE {}]
\* t insists on the GPU model of n1.
MCAccessible == [p \in Pods |-> IF p = t THEN {n1} ELSE Nodes]
=============================================================================
