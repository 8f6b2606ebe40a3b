---------------------------- MODULE NodeResource ----------------------------
(***************************************************************************)
(* The arithmetic on what is left of a node and on what a pod asks for     *)
(* (NodeResource and PodResource), which the scores, the GPU selection,    *)
(* the reports and descheduling share.                                     *)
(*                                                                         *)
(* A pod resource is [cpu, milli, num, type], type being the set of GPU    *)
(* models the pod accepts, {} for any.  A node resource is [cpu, cap, gpu, *)
(* type], gpu being the sequence of what is left of each GPU; the GPU      *)
(* index i of the code is position i + 1.                                  *)
(***************************************************************************)
EXTENDS Integers, Sequences, FiniteSets, SequencesExt

CONSTANT
  MILLI,             \* the capacity of one GPU, 1000 in the code
  MaxNumGpuPerNode   \* how many GPUs Flatten writes down, 8 in the code

ASSUME ResourceAssumption == MILLI \in Nat \ {0} /\ MaxNumGpuPerNode \in Nat

PodResources  == [cpu : Nat, milli : 0 .. MILLI, num : Nat, type : SUBSET STRING]
NodeResources == [cpu : Int, cap : Nat, gpu : Seq(Int), type : STRING]

NoModel == "no model"   \* the GPU model of a node without GPUs
Panic   == {0}          \* the GPU positions of a selection that panicked
NoGpus  == {}           \* the empty GPU id

(***************************************************************************)
(* Pods.                                                                   *)
(***************************************************************************)
TotalMilliGpu(pod) == pod.milli * pod.num
IsGpuShare(pod)    == pod.num = 1 /\ pod.milli < MILLI

\* PodResource.Less, which orders typical pods of equal frequency.  The GPU
\* models are left out: no two pods of an instance differ in them alone.
Less(p, q) ==
  \/ p.cpu < q.cpu
  \/ p.cpu = q.cpu /\ p.milli < q.milli
  \/ p.cpu = q.cpu /\ p.milli = q.milli /\ p.num < q.num

IsNodeAccessibleToPod(node, pod) == pod.type = {} \/ node.type \in pod.type

(***************************************************************************)
(* Nodes.                                                                  *)
(***************************************************************************)
GetTotalMilliGpuLeft(node) == FoldSeq(+, 0, node.gpu)

FullyFree(node) == { i \in DOMAIN node.gpu : node.gpu[i] = MILLI }
GetFullyFreeGpuNum(node) == Cardinality(FullyFree(node))

\* A finite set in an order in which of any two elements one is before the other.
SortBy(S, Before(_, _)) ==
  [k \in 1 .. Cardinality(S) |-> CHOOSE x \in S : Cardinality({ y \in S : Before(y, x) }) = k - 1]

\* The GPUs by what is left of them, those with as much in their order.
SortedMilliGpuLeftIndexList(node, ascending) ==
  LET Before(i, j) == IF node.gpu[i] = node.gpu[j] THEN i < j
                      ELSE (node.gpu[i] < node.gpu[j]) = ascending
  IN SortBy(DOMAIN node.gpu, Before)

\* The GPUs with room for the pod's share, and the pod.num of them that have the
\* least room: the loop over the ascending list.
Fits(node, pod) == { i \in DOMAIN node.gpu : node.gpu[i] >= pod.milli }

TightestFits(node, pod) ==
  LET Before(i, j) == node.gpu[i] < node.gpu[j] \/ (node.gpu[i] = node.gpu[j] /\ i < j)
      fits == Fits(node, pod)
  IN { i \in fits : Cardinality({ j \in fits : Before(j, i) }) < pod.num }

\* The key under which fragmentation is remembered: GPUs in descending order,
\* a missing GPU written as one that is used up.
Flatten(node) ==
  [cpu |-> node.cpu,
   gpu |-> LET s == SortedMilliGpuLeftIndexList(node, FALSE)
           IN [i \in 1 .. MaxNumGpuPerNode |-> IF i \in DOMAIN s THEN node.gpu[s[i]] ELSE 0],
   type |-> node.type]

\* The lowest n positions of a set of GPUs.
LowestOf(S, n) == { i \in S : Cardinality({ j \in S : j < i }) < n }

\* Whole GPUs for all the pod asks; a panic if there are too few.
AllocateExclusiveGpuId(node, pod) ==
  LET need == (TotalMilliGpu(pod) + MILLI - 1) \div MILLI
  IN IF need > GetFullyFreeGpuNum(node) THEN Panic ELSE LowestOf(FullyFree(node), need)

\* A node with the pod's share taken from, or given back to, the GPUs of ids.
Take(node, pod, ids) ==
  [node EXCEPT !.cpu = @ - pod.cpu,
               !.gpu = [i \in DOMAIN @ |-> IF i \in ids THEN @[i] - pod.milli ELSE @[i]]]

(***************************************************************************)
(* NodeResource.Sub places the pod on the GPUs with the least room that    *)
(* suffices.  When the GPUs run out it reports the error and still returns *)
(* the node with what it took.                                             *)
(***************************************************************************)
Sub(node, pod) ==
  LET taken == TightestFits(node, pod)
  IN IF node.cpu < pod.cpu \/ Len(node.gpu) < pod.num
     THEN [ok |-> FALSE, node |-> node, ids |-> {}]
     ELSE [ok |-> Cardinality(taken) = pod.num, node |-> Take(node, pod, taken), ids |-> taken]

\* Mutant: a GPU that would be idle again is refused.
AddStrict(node, pod, idl) ==
  LET GiveBack(out, i) ==
        IF out.ok /\ i \in DOMAIN out.gpu /\ out.gpu[i] + pod.milli < MILLI
        THEN [ok |-> TRUE, gpu |-> [out.gpu EXCEPT ![i] = @ + pod.milli]]
        ELSE [out EXCEPT !.ok = FALSE]
      cpu == node.cpu + pod.cpu
      out == FoldLeft(GiveBack, [ok |-> TRUE, gpu |-> node.gpu], IF pod.num = 0 THEN <<>> ELSE idl)
  IN IF cpu > node.cap THEN [ok |-> FALSE, node |-> node]
     ELSE [ok |-> out.ok, node |-> [node EXCEPT !.cpu = cpu, !.gpu = out.gpu]]

(***************************************************************************)
(* NodeResource.Add gives back what a pod held on the GPUs of idl, its     *)
(* annotation's index list.  It stops at the first index it cannot serve,  *)
(* the earlier ones given back; and it does not compare the length of idl  *)
(* with the number of GPUs the pod asks for.                               *)
(***************************************************************************)
Add(node, pod, idl) ==
  LET GiveBack(out, i) ==
        IF out.ok /\ i \in DOMAIN out.gpu /\ out.gpu[i] + pod.milli <= MILLI
        THEN [ok |-> TRUE, gpu |-> [out.gpu EXCEPT ![i] = @ + pod.milli]]
        ELSE [out EXCEPT !.ok = FALSE]
      cpu == node.cpu + pod.cpu
      out == FoldLeft(GiveBack, [ok |-> TRUE, gpu |-> node.gpu], IF pod.num = 0 THEN <<>> ELSE idl)
  IN IF cpu > node.cap THEN [ok |-> FALSE, node |-> node]
     ELSE [ok |-> out.ok, node |-> [node EXCEPT !.cpu = cpu, !.gpu = out.gpu]]
=============================================================================
