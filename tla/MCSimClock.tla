----------------------------- MODULE MCSimClock -----------------------------
(***************************************************************************)
(* Instances of SimClock for TLC: a node with two GPUs and one without,    *)
(* and pods that end while others wait for what they hold.                 *)
(***************************************************************************)
EXTENDS SimClock, TLC

CONSTANTS n1, n2,
  s, t,    \* GPU-share pods that do not fit one GPU together
  x,       \* an exclusive pod of two GPUs
  c, b     \* pods without GPUs; b asks for most of a node's CPU

MCMILLI       == 1000
MCGpuCount    == [n \in Nodes |-> IF n = n1 THEN 2 ELSE 0]
MCCpuCapacity == [n \in Nodes |-> IF n = n1 THEN 4 ELSE 3]
\* GPU share, GPUs, CPU, start, end
Demand == (s :> <<600, 1, 1, 0, 2>>) @@ (t :> <<700, 1, 2, 0, 3>>)
          @@ (x :> <<1000, 2, 2, 2, 4>>) @@ (c :> <<0, 0, 1, 1, 3>>)
          @@ (b :> <<0, 0, 3, 1, 1>>)
MCGpuMilli   == [p \in Pods |-> Demand[p][1]]
MCGpuNum     == [p \in Pods |-> Demand[p][2]]
MCCpu        == [p \in Pods |-> Demand[p][3]]
MCStart      == [p \in Pods |-> Demand[p][4]]
MCEnd        == [p \in Pods |-> Demand[p][5]]
MCPreset     == [p \in Pods |-> {}]
MCAccessible == [p \in Pods |-> Nodes]
=============================================================================
