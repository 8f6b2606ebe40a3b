----------------------------- MODULE DotProduct -----------------------------
(***************************************************************************)
(* The dot-product score: a node and a pod are split into virtual nodes    *)
(* and virtual pods, whose vectors are normalised and multiplied; the      *)
(* smaller the product the better the match, and the best match also says  *)
(* which GPUs to take.  Numbers are exact fractions <<numerator,           *)
(* denominator>>; a zero denominator is the NaN the code gets from 0/0.    *)
(***************************************************************************)
EXTENDS NodeResource

CONSTANT
  MaxSpecCpu, MaxSpecGpu,  \* the largest machine, 128000 and 8000 in the code
  TanhScore(_)             \* int64(100 * (1 - tanh(x / 10))) of a fraction x

ASSUME SpecAssumption == MaxSpecCpu \in Nat \ {0} /\ MaxSpecGpu \in Nat \ {0}


(***************************************************************************)
(* The GPUs of a node as "extend" sees them: each one that is partly used, *)
(* then all the idle ones as a single one.                                 *)
(***************************************************************************)
ToFormalizedGpuResourceList(node) ==
  LET partly == SortBy({ i \in DOMAIN node.gpu : node.gpu[i] \in 1 .. (MILLI - 1) }, <)
      idle   == FullyFree(node)
  IN [k \in DOMAIN partly |-> [left |-> node.gpu[partly[k]], ids |-> {partly[k]}]]
     \o (IF idle = {} THEN <<>> ELSE << [left |-> Cardinality(idle) * MILLI, ids |-> idle] >>)

\* Mutant: "choose shared gpu" does not look at the room the GPU has.
SharedGpusAny(node, pod) ==
  SortBy({ i \in DOMAIN node.gpu : TotalMilliGpu(pod) < MILLI /\ node.gpu[i] < MILLI }, <)

\* The partly used GPUs a small pod would fit on, in their order.
SharedGpus(node, pod) ==
  SortBy({ i \in DOMAIN node.gpu :
             TotalMilliGpu(pod) < MILLI /\ node.gpu[i] < MILLI /\ TotalMilliGpu(pod) <= node.gpu[i] }, <)

\* A virtual node: what is left of it in each dimension, and its GPUs.
ToVirtualNodeResourceList(node, pod, method) ==
  LET total == GetTotalMilliGpuLeft(node)
      Cpu(left) == IF method = "divide" THEN <<node.cpu * left, total>> ELSE <<node.cpu, 1>>
      shared == SharedGpus(node, pod)
      free   == GetFullyFreeGpuNum(node) * MILLI
      gpus   == ToFormalizedGpuResourceList(node)
  IN CASE node.cpu < pod.cpu -> <<>>
       [] node.cpu >= pod.cpu /\ method = "merge" ->
            << [cpu |-> Cpu(0), gpu |-> <<total>>, ids |-> NoGpus] >>
       [] node.cpu >= pod.cpu /\ method \in {"share", "divide"} ->
            [k \in DOMAIN shared |-> [cpu |-> Cpu(node.gpu[shared[k]]), gpu |-> <<node.gpu[shared[k]]>>,
                                      ids |-> {shared[k]}]]
            \o (IF TotalMilliGpu(pod) > free THEN <<>>
                ELSE << [cpu |-> Cpu(free), gpu |-> <<free>>, ids |-> AllocateExclusiveGpuId(node, pod)] >>)
       [] OTHER ->
            << [cpu |-> Cpu(0), gpu |-> [k \in DOMAIN gpus |-> gpus[k].left], ids |-> NoGpus] >>

\* A virtual pod: what it asks for in each GPU dimension.
ToVirtualPodResourceList(pod, node, method) ==
  LET req  == TotalMilliGpu(pod)
      gpus == ToFormalizedGpuResourceList(node)
      hosts == SortBy({ k \in DOMAIN gpus : gpus[k].left >= req }, <)
  IN IF method # "extend" THEN << [gpu |-> <<req>>, ids |-> NoGpus] >>
     ELSE [h \in DOMAIN hosts |->
             [gpu |-> [k \in DOMAIN gpus |-> IF k = hosts[h] THEN req ELSE 0],
              ids |-> IF gpus[hosts[h]].left < MILLI THEN gpus[hosts[h]].ids
                      ELSE AllocateExclusiveGpuId(node, pod)]]

\* What the vectors are divided by: a CPU and a GPU measure.
Norm(node, pod, norm) ==
  CASE norm = "node" -> <<node.cap, Len(node.gpu) * MILLI>>
    [] norm = "pod"  -> <<pod.cpu, TotalMilliGpu(pod)>>
    [] norm = "max"  -> <<MaxSpecCpu, MaxSpecGpu>>

\* The product of two normalised vectors over their length.  A dimension whose
\* norm is zero counts for nothing (NormalizeVector).
CalculateVectorDotProduct(vnode, vpod, cpu, norm) ==
  LET Part(v, c)  == IF c = 0 THEN 0 ELSE v
      Square(c)   == IF c = 0 THEN 1 ELSE c * c
      gpu == FoldSeq(+, 0, [k \in DOMAIN vnode.gpu |-> vnode.gpu[k] * vpod.gpu[k]])
  IN << Part(vnode.cpu[1] * cpu, norm[1]) * Square(norm[2])
          + Part(gpu, norm[2]) * vnode.cpu[2] * Square(norm[1]),
        vnode.cpu[2] * Square(norm[1]) * Square(norm[2]) * (1 + Len(vnode.gpu)) >>

(***************************************************************************)
(* GenerateSchedulingMatchGroups: every virtual node with every virtual    *)
(* pod, with the GPUs of the one or of the other.  "merge" names no GPU.   *)
(***************************************************************************)
MatchGroup(vnode, vpod, pod, method, norms) ==
  [product |-> CalculateVectorDotProduct(vnode, vpod, pod.cpu, norms),
   ids |-> IF method = "extend" THEN vpod.ids ELSE vnode.ids]

MatchGroups(vnodes, vpods, pod, method, norms) ==
  [k \in 1 .. (Len(vnodes) * Len(vpods)) |->
     MatchGroup(vnodes[((k - 1) \div Len(vpods)) + 1], vpods[((k - 1) % Len(vpods)) + 1], pod, method, norms)]

GenerateSchedulingMatchGroups(node, pod, method, norm) ==
  MatchGroups(ToVirtualNodeResourceList(node, pod, method), ToVirtualPodResourceList(pod, node, method),
              pod, method, Norm(node, pod, norm))

(***************************************************************************)
(* calculateDotProductScore: the first group with the smallest product;    *)
(* a NaN is never the best, whatever it is compared with.                  *)
(***************************************************************************)
Undefined     == <<0, 0>>
Smaller(x, y) == x[2] # 0 /\ (y[2] = 0 \/ x[1] * y[2] < y[1] * x[2])

BestGroup(groups) ==
  FoldLeft(LAMBDA best, g : IF Smaller(g.product, best.product) THEN g ELSE best,
           [product |-> Undefined, ids |-> NoGpus], groups)

Rated(group, norm) ==
  LET x == group.product
  IN [score |-> CASE x = Undefined -> 0
                  [] x # Undefined /\ norm = "pod" -> TanhScore(x)
                  [] OTHER -> (100 * (x[2] - x[1])) \div x[2],
      ids |-> group.ids]

CalculateDotProductScore(node, pod, method, norm) ==
  Rated(BestGroup(GenerateSchedulingMatchGroups(node, pod, method, norm)), norm)
=============================================================================
