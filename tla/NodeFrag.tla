------------------------------ MODULE NodeFrag ------------------------------
(***************************************************************************)
(* Fragmentation: how much of the GPU a node has left is of no use to the  *)
(* pods the workload typically brings (utils/frag.go, and the live         *)
(* measures of utils/predict.go).                                          *)
(*                                                                         *)
(* A distribution of pods is a function from pod resources to weights, the *)
(* code's frequency times a common total; an amount is in milli-GPU times  *)
(* that total.                                                             *)
(***************************************************************************)
EXTENDS NodeResource

Q1LackBoth  == "q1_lack_both"
Q2LackGpu   == "q2_lack_gpu"
Q3Satisfied == "q3_satisfied"
Q4LackCpu   == "q4_lack_cpu"
XLSatisfied == "xl_satisfied"
XRLackCPU   == "xr_lack_cpu"
NoAccess    == "no_access"

FragTypes == { Q1LackBoth, Q2LackGpu, Q3Satisfied, Q4LackCpu, XLSatisfied, XRLackCPU, NoAccess }

\* As many GPUs with room for the pod's share as it asks for, and at least one.
CanNodeHostPodOnGpuMemory(node, pod) ==
  Fits(node, pod) # {} /\ Cardinality(Fits(node, pod)) >= pod.num

\* Which of the seven cases a node and a pod are.
GetNodePodFrag(node, pod) ==
  LET cpuSuffices == node.cpu >= pod.cpu
  IN CASE pod.milli = 0 -> IF cpuSuffices THEN XLSatisfied ELSE XRLackCPU
       [] pod.milli # 0 /\ ~IsNodeAccessibleToPod(node, pod) -> NoAccess
       [] OTHER -> IF CanNodeHostPodOnGpuMemory(node, pod)
                   THEN IF cpuSuffices THEN Q3Satisfied ELSE Q4LackCpu
                   ELSE IF cpuSuffices THEN Q2LackGpu ELSE Q1LackBoth

\* What is left on the GPUs that have no room for the pod's share.
GetGpuFragMilliByNodeResAndPodRes(node, pod) ==
  SumFunction([i \in { j \in DOMAIN node.gpu : node.gpu[j] < pod.milli } |-> node.gpu[i]])

\* What of a node is a fragment to one pod: the GPUs too small for it when the
\* node can host it, everything when it cannot.
FragOf(node, pod) ==
  IF GetNodePodFrag(node, pod) = Q3Satisfied
  THEN GetGpuFragMilliByNodeResAndPodRes(node, pod)
  ELSE GetTotalMilliGpuLeft(node)

\* Mutant: the unusable part of a node that satisfies a pod is lost.
FragTypeUnsplit(node, pod) == GetNodePodFrag(node, pod)

\* The case that fragment is entered under.
FragType(node, pod) ==
  IF GetNodePodFrag(node, pod) = Q3Satisfied THEN Q2LackGpu ELSE GetNodePodFrag(node, pod)

NodeGpuShareFragAmount(node, D) ==
  [t \in FragTypes |->
     IF t = Q3Satisfied
     THEN SumFunction([pod \in DOMAIN D |->
                         D[pod] * (GetTotalMilliGpuLeft(node) - FragOf(node, pod))])
     ELSE SumFunction([pod \in { p \in DOMAIN D : FragType(node, p) = t } |->
                         D[pod] * FragOf(node, pod)])]

FragAmountSumExceptQ3(amount) ==
  SumFunction([t \in FragTypes \ {Q3Satisfied} |-> amount[t]])

NodeGpuShareFragAmountScore(node, D) == FragAmountSumExceptQ3(NodeGpuShareFragAmount(node, D))

\* AddGamma with factor one, over a set of nodes.
AddFragAmounts(amounts, S) ==
  [t \in FragTypes |-> SumFunction([n \in S |-> amounts[n][t]])]

\* The measure of the predicted distribution (Predict5) and, before the
\* prediction window is full, of the given one (Predict6): the same sum taken
\* pod by pod, in which the part that satisfies a pod does not count.
NodeGpuShareFragAmountScoreBasedOnPredict(node, D) ==
  SumFunction([pod \in DOMAIN D |-> D[pod] * FragOf(node, pod)])
=============================================================================
