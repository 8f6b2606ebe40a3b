----------------------- MODULE SchedulingCycleProofs -----------------------
(***************************************************************************)
(* Proofs about SchedulingCycle and the measures and policies it is made   *)
(* of, for every cluster, every workload and every policy.                 *)
(***************************************************************************)
EXTENDS SchedulingCycle, NodeFragProofs

-----------------------------------------------------------------------------
(* GPU selection.                                                          *)

\* A pod that asks for GPUs, as the code admits it.
GpuPod(pod) ==
  /\ pod \in PodResources /\ pod.milli > 0 /\ pod.num > 0
  /\ pod.num > 1 => pod.milli = MILLI

\* What a selection method may answer for such a pod.
Selection(node, pod, ids) ==
  \/ ids = Panic
  \/ ids = NoGpus
  \/ ids \subseteq Fits(node, pod) /\ IsFiniteSet(ids) /\ Cardinality(ids) = pod.num

\* A pod asks for as many whole GPUs as its number says.
LEMMA NeedIsNum ==
  ASSUME NEW pod, GpuPod(pod)
  PROVE  (TotalMilliGpu(pod) + MILLI - 1) \div MILLI = pod.num
<1> DEFINE x == TotalMilliGpu(pod) + MILLI - 1
<1>1. MILLI \in Nat \ {0} /\ pod.milli \in 1 .. MILLI /\ pod.num \in Nat \ {0}
  BY ResourceAssumption DEF GpuPod, PodResources
<1>2. CASE pod.num = 1
  <2>1. x = pod.milli + MILLI - 1
    BY <1>1, <1>2 DEF TotalMilliGpu
  <2>2. x \in Int /\ 1 * MILLI <= x /\ x < (1 + 1) * MILLI
    BY <1>1, <2>1
  <2> HIDE DEF x
  <2>3. x \div MILLI = 1
    BY <1>1, <2>2, Quotient
  <2> QED
    BY <1>2, <2>3 DEF x
<1>3. CASE pod.num > 1
  <2>1. x = pod.num * MILLI + MILLI - 1
    BY <1>1, <1>3 DEF TotalMilliGpu, GpuPod
  <2>2. x \in Int /\ pod.num * MILLI <= x /\ x < (pod.num + 1) * MILLI
    BY <1>1, <2>1
  <2> HIDE DEF x
  <2>3. x \div MILLI = pod.num
    BY <1>1, <2>2, Quotient
  <2> QED
    BY <2>3 DEF x
<1> QED
  BY <1>1, <1>2, <1>3

LEMMA FullyFreeFinite ==
  ASSUME NEW node \in NodeResources
  PROVE  FullyFree(node) \in SUBSET Int /\ IsFiniteSet(FullyFree(node))
<1>1. node.gpu \in Seq(Int)
  BY DEF NodeResources
<1>2. FullyFree(node) \in SUBSET DOMAIN node.gpu /\ DOMAIN node.gpu \subseteq Int
  BY <1>1 DEF FullyFree
<1>3. IsFiniteSet(FullyFree(node))
  BY <1>1, <1>2, LeftIsInt, FS_Subset
<1> QED
  BY <1>2, <1>3

\* The lowest whole GPUs of a node are as many as asked for.
LEMMA LowestCounted ==
  ASSUME NEW node \in NodeResources, NEW pod, GpuPod(pod), pod.num <= Cardinality(FullyFree(node))
  PROVE  /\ IsFiniteSet(LowestOf(FullyFree(node), pod.num))
         /\ Cardinality(LowestOf(FullyFree(node), pod.num)) = pod.num
<1> DEFINE S == FullyFree(node)
           n == pod.num
           R == { u \in S \X S : u[1] < u[2] }
           T == LowestOf(S, n)
<1>1. S \in SUBSET Int /\ IsFiniteSet(S) /\ n \in Nat
  BY FullyFreeFinite DEF GpuPod, PodResources
<1>2. IsOrder(R, S) /\ \A x \in S : Below(R, S, x) = { y \in S : y < x }
  <2> HIDE DEF S
  <2> QED
    BY <1>1 DEF IsOrder, Below
<1>3. T = { x \in S : Cardinality(Below(R, S, x)) < n }
  BY <1>2 DEF LowestOf
<1> HIDE DEF S, R, T, n
<1>4. n <= Cardinality(S)
  BY DEF S, n
<1>5. IsFiniteSet(T) /\ Cardinality(T) = n
  BY <1>1, <1>2, <1>3, <1>4, FirstOfOrder
<1> QED
  BY <1>5 DEF S, T, n

\* Whole GPUs are given out in the number asked for, and have room for the pod.
LEMMA ExclusiveSelects ==
  ASSUME NEW node \in NodeResources, NEW pod, GpuPod(pod)
  PROVE  Selection(node, pod, AllocateExclusiveGpuId(node, pod))
<1> DEFINE S == FullyFree(node)
           n == pod.num
           T == LowestOf(S, n)
<1>1. ASSUME n <= Cardinality(S)
      PROVE  IsFiniteSet(T) /\ Cardinality(T) = n
  BY <1>1, LowestCounted
<1>2. T \subseteq Fits(node, pod)
  <2>1. \A i \in S : node.gpu[i] = MILLI /\ i \in DOMAIN node.gpu
    BY DEF FullyFree
  <2>2. MILLI >= pod.milli
    BY ResourceAssumption DEF GpuPod, PodResources
  <2> QED
    BY <2>1, <2>2 DEF LowestOf, Fits
<1>3. AllocateExclusiveGpuId(node, pod) = IF n > Cardinality(S) THEN Panic ELSE T
  BY NeedIsNum DEF AllocateExclusiveGpuId, GetFullyFreeGpuNum
<1>4. Cardinality(S) \in Nat /\ n \in Nat
  BY FullyFreeFinite, FS_CardinalityType DEF GpuPod, PodResources
<1> HIDE DEF S, T
<1> QED
  BY <1>1, <1>2, <1>3, <1>4 DEF Selection

\* One GPU with room is a selection for a share.
LEMMA OneSelects ==
  ASSUME NEW node, NEW pod, GpuPod(pod), pod.milli < MILLI, NEW i \in Fits(node, pod)
  PROVE  Selection(node, pod, {i})
<1>1. pod.num = 1
  BY ResourceAssumption DEF GpuPod, PodResources
<1> QED
  BY <1>1, FS_Singleton DEF Selection

(***************************************************************************)
(* When as many GPUs as the pod asks for have room, and none has more than *)
(* all of itself, the methods other than the dot product do find GPUs.     *)
(***************************************************************************)
HasRoom(node, pod) ==
  /\ pod.num <= Cardinality(Fits(node, pod))
  /\ \A i \in DOMAIN node.gpu : node.gpu[i] <= MILLI

Answers(node, pod, ids) ==
  /\ Selection(node, pod, ids)
  /\ HasRoom(node, pod) => ids # NoGpus /\ ids # Panic

\* A pod of GPUs fits nowhere on a node that has no GPU with room.
LEMMA NoRoom ==
  ASSUME NEW node, NEW pod, GpuPod(pod), Fits(node, pod) = {}
  PROVE  ~HasRoom(node, pod)
BY FS_EmptySet DEF HasRoom, GpuPod, PodResources

LEMMA ExclusiveAnswers ==
  ASSUME NEW node \in NodeResources, NEW pod, GpuPod(pod), ~(pod.milli < MILLI)
  PROVE  Answers(node, pod, AllocateExclusiveGpuId(node, pod))
<1> DEFINE ids == AllocateExclusiveGpuId(node, pod)
           S   == FullyFree(node)
<1>1. pod.milli = MILLI
  BY ResourceAssumption DEF GpuPod, PodResources
<1>2. ASSUME HasRoom(node, pod) PROVE S = Fits(node, pod)
  BY <1>1, <1>2, ResourceAssumption DEF HasRoom, FullyFree, Fits, NodeResources
<1>3. ASSUME HasRoom(node, pod) PROVE ids # Panic /\ ids # NoGpus
  <2>1. pod.num <= Cardinality(S) /\ ~(pod.num > Cardinality(S)) /\ pod.num \in Nat \ {0}
    <3>1. IsFiniteSet(Fits(node, pod))
      BY FitsFinite
    <3>2. Cardinality(Fits(node, pod)) \in Nat
      BY <3>1, FS_CardinalityType
    <3> QED
      BY <1>2, <1>3, <3>2 DEF HasRoom, GpuPod, PodResources
  <2>2. ids = LowestOf(S, pod.num)
    BY <2>1, NeedIsNum DEF AllocateExclusiveGpuId, GetFullyFreeGpuNum
  <2>3. 0 \notin ids
    BY <2>2 DEF LowestOf, FullyFree, NodeResources
  <2>4. ids # {}
    <3>1. Cardinality(ids) = pod.num
      BY <2>1, <2>2, LowestCounted
    <3> QED
      BY <2>1, <3>1, FS_EmptySet
  <2> QED
    BY <2>3, <2>4 DEF Panic, NoGpus
<1>4. Selection(node, pod, ids)
  BY ExclusiveSelects
<1> QED
  BY <1>3, <1>4 DEF Answers

\* What is not a share is of whole GPUs.
LEMMA WholeGpus ==
  ASSUME NEW pod, GpuPod(pod), ~IsGpuShare(pod)
  PROVE  ~(pod.milli < MILLI)
BY ResourceAssumption DEF GpuPod, PodResources, IsGpuShare

LEMMA OneAnswers ==
  ASSUME NEW node \in NodeResources, NEW pod, GpuPod(pod), pod.milli < MILLI, NEW i \in Fits(node, pod)
  PROVE  Answers(node, pod, {i})
<1>1. i # 0
  BY DEF Fits, NodeResources
<1>2. Selection(node, pod, {i})
  BY OneSelects
<1> QED
  BY <1>1, <1>2 DEF Answers, Panic, NoGpus

LEMMA RoomSelects ==
  ASSUME NEW node \in NodeResources, NEW pod, GpuPod(pod),
         NEW method \in {"best", "worst", "random"}
  PROVE  /\ AllocateByRoom(method, node, pod) # {}
         /\ \A ids \in AllocateByRoom(method, node, pod) : Answers(node, pod, ids)
<1> DEFINE fits == Fits(node, pod)
           up   == [i \in fits |-> node.gpu[i]]
           down == [i \in fits |-> -node.gpu[i]]
<1>0. pod.milli \in Int /\ MILLI \in Int
  BY ResourceAssumption DEF GpuPod, PodResources
<1>1. CASE pod.milli >= MILLI
  <2>1. AllocateByRoom(method, node, pod) = { AllocateExclusiveGpuId(node, pod) }
    BY <1>0, <1>1 DEF AllocateByRoom, FirstBest
  <2>2. ~(pod.milli < MILLI)
    BY <1>0, <1>1
  <2> QED
    BY <2>1, <2>2, ExclusiveAnswers
<1>2. CASE pod.milli < MILLI /\ fits = {}
  <2>1. AllocateByRoom(method, node, pod) = { NoGpus }
    <3>1. ~(pod.milli >= MILLI)
      BY <1>2, ResourceAssumption DEF GpuPod, PodResources
    <3> QED
      BY <1>2, <3>1 DEF AllocateByRoom, FirstBest
  <2> QED
    BY <1>2, <2>1, NoRoom DEF Answers, Selection
<1>3. CASE pod.milli < MILLI /\ fits # {}
  <2>0. ~(pod.milli >= MILLI)
    BY <1>3, ResourceAssumption DEF GpuPod, PodResources
  <2>1. /\ fits \in SUBSET Int /\ IsFiniteSet(fits)
        /\ \A i \in fits : up[i] \in Int /\ down[i] \in Int
    BY FitsFinite
  <2>2. CASE method = "best"
    <3> DEFINE b == CHOOSE i \in fits : \A j \in fits :
                      -node.gpu[j] < -node.gpu[i] \/ (-node.gpu[j] = -node.gpu[i] /\ i <= j)
    <3>1. AllocateByRoom(method, node, pod) = { {b} }
      BY <1>3, <2>0, <2>2 DEF AllocateByRoom, FirstBest
    <3>2. \E i \in fits : \A j \in fits : down[j] < down[i] \/ (down[j] = down[i] /\ i <= j)
      <4> HIDE DEF down, fits
      <4> QED
        BY <1>3, <2>1, FirstBestFound
    <3>3. b \in fits
      BY <3>2
    <3> HIDE DEF b
    <3> QED
      BY <1>3, <3>1, <3>3, OneAnswers
  <2>3. CASE method = "worst"
    <3> DEFINE b == CHOOSE i \in fits : \A j \in fits :
                      node.gpu[j] < node.gpu[i] \/ (node.gpu[j] = node.gpu[i] /\ i <= j)
    <3>1. AllocateByRoom(method, node, pod) = { {b} }
      BY <1>3, <2>0, <2>3 DEF AllocateByRoom, FirstBest
    <3>2. \E i \in fits : \A j \in fits : up[j] < up[i] \/ (up[j] = up[i] /\ i <= j)
      <4> HIDE DEF up, fits
      <4> QED
        BY <1>3, <2>1, FirstBestFound
    <3>3. b \in fits
      BY <3>2
    <3> HIDE DEF b
    <3> QED
      BY <1>3, <3>1, <3>3, OneAnswers
  <2>4. CASE method = "random"
    <3>1. AllocateByRoom(method, node, pod) = { {i} : i \in fits }
      BY <1>3, <2>0, <2>4 DEF AllocateByRoom, FirstBest
    <3>2. \A i \in fits : Answers(node, pod, {i})
      BY <1>3, OneAnswers
    <3>3. \E i \in fits : TRUE
      BY <1>3
    <3> HIDE DEF fits
    <3> QED
      BY <3>1, <3>2, <3>3
  <2> QED
    BY <2>2, <2>3, <2>4
<1> QED
  BY <1>0, <1>1, <1>2, <1>3

LEMMA BestFitSelects ==
  ASSUME NEW node \in NodeResources, NEW pod, GpuPod(pod)
  PROVE  Answers(node, pod, BestFitGpus(node, pod))
BY RoomSelects DEF BestFitGpus

(***************************************************************************)
(* The gains of the fragmentation policies are numbers, if the sigmoid of  *)
(* a number is one.                                                        *)
(***************************************************************************)
SigmoidIsInt == \A d \in Int : Sigmoid(d) \in Int

\* A sigmoid lies between nought and one, here in millionths.
Millionths   == { x \in Int : 0 <= x /\ x <= 1000000 }
SigmoidRange == \A d \in Int : Sigmoid(d) \in Millionths

LEMMA MillionthsInt == Millionths \subseteq Int
BY SMT DEF Millionths

LEMMA SigmoidInt == SigmoidRange => SigmoidIsInt
BY MillionthsInt DEF SigmoidRange, SigmoidIsInt

LEMMA MeasuresInt ==
  ASSUME NEW node \in NodeResources
  PROVE  /\ NodeGpuShareFragAmountScore(node, Frequency) \in Int
         /\ NodeGpuShareFragAmountScoreBasedOnPredict(node, Frequency) \in Int
<1> DEFINE g == [q \in DOMAIN Frequency |-> Frequency[q] * FragOf(node, q)]
<1>1. node.gpu \in Seq(Int)
  BY DEF NodeResources
<1>2. IsFiniteSet(DOMAIN Frequency) /\ \A q \in DOMAIN Frequency : Frequency[q] \in Int
  BY FrequencyAssumption
<1>3. \A q \in DOMAIN Frequency : g[q] \in Int
  BY <1>1, <1>2, FragIsInt
<1>4. SumFunction(g) = SumOver(g, DOMAIN Frequency)
  BY SumOfFunction
<1>5. SumOver(g, DOMAIN Frequency) \in Int
  <2> HIDE DEF g
  <2> QED
    BY <1>2, <1>3, SumInt
<1>6. NodeGpuShareFragAmountScoreBasedOnPredict(node, Frequency) = SumFunction(g)
  BY DEF NodeGpuShareFragAmountScoreBasedOnPredict
<1> HIDE DEF g
<1>7. NodeGpuShareFragAmountScore(node, Frequency) = SumFunction(g)
  BY <1>1, <1>2, <1>6, AmountsAddUp DEF NodeGpuShareFragAmountScore
<1> QED
  BY <1>4, <1>5, <1>6, <1>7

LEMMA SeqOfInts ==
  ASSUME NEW n \in Nat, NEW s \in [1 .. n -> Int]
  PROVE  s \in Seq(Int)
BY SeqDef

LEMMA TakeIn ==
  ASSUME NEW node \in NodeResources, NEW pod \in PodResources, NEW ids
  PROVE  Take(node, pod, ids) \in NodeResources
<1> DEFINE gpu == [i \in DOMAIN node.gpu |-> IF i \in ids THEN node.gpu[i] - pod.milli ELSE node.gpu[i]]
<1>1. node.gpu \in Seq(Int) /\ pod.milli \in Int /\ pod.cpu \in Int
  BY ResourceAssumption DEF NodeResources, PodResources
<1>2. gpu \in Seq(Int)
  <2>1. DOMAIN gpu = 1 .. Len(node.gpu) /\ Len(node.gpu) \in Nat
    BY <1>1
  <2>2. \A i \in DOMAIN gpu : gpu[i] \in Int
    BY <1>1
  <2>3. gpu \in [1 .. Len(node.gpu) -> Int]
    BY <2>1, <2>2
  <2> HIDE DEF gpu
  <2> QED
    BY <2>1, <2>3, SeqOfInts
<1>3. Take(node, pod, ids) = [node EXCEPT !.cpu = node.cpu - pod.cpu, !.gpu = gpu]
  BY DEF Take, NodeResources
<1>4. node.cpu - pod.cpu \in Int
  BY <1>1 DEF NodeResources
<1> HIDE DEF gpu
<1> QED
  BY <1>2, <1>3, <1>4 DEF NodeResources

LEMMA SubIn ==
  ASSUME NEW node \in NodeResources, NEW pod \in PodResources
  PROVE  Sub(node, pod).node \in NodeResources
BY TakeIn DEF Sub

LEMMA GainsInt ==
  ASSUME SigmoidIsInt, NEW node \in NodeResources, NEW after \in NodeResources
  PROVE  /\ ByType(node, after) \in Int /\ ByPod(node, after) \in Int
         /\ SigmoidRange => ByType(node, after) \in Millionths
BY MeasuresInt DEF ByType, ByPod, SigmoidIsInt, SigmoidRange

\* A gain as a percentage.
LEMMA Percentage ==
  ASSUME NEW x \in Int
  PROVE  x \div 10000 \in Int /\ (x \in Millionths => x \div 10000 \in 0 .. 100)
BY SMT DEF Millionths

\* FGD: the GPU of the greatest gain for a share, whole GPUs for the others.
LEMMA FGDSelects ==
  ASSUME SigmoidIsInt, NEW node \in NodeResources, NEW pod \in PodResources
  PROVE  /\ CalculateGpuShareFragExtendScore(node, pod).score \in Int
         /\ SigmoidRange => CalculateGpuShareFragExtendScore(node, pod).score \in 0 .. 100
         /\ GpuPod(pod) => Answers(node, pod, CalculateGpuShareFragExtendScore(node, pod).ids)
<1> DEFINE fits == Fits(node, pod)
           Gain(i) == ByType(node, Take(node, pod, {i})) \div 10000
           gain == [i \in fits |-> Gain(i)]
           best == CHOOSE i \in fits : \A j \in fits :
                     Gain(j) < Gain(i) \/ (Gain(j) = Gain(i) /\ i <= j)
           out  == CalculateGpuShareFragExtendScore(node, pod)
<1>1. CASE IsGpuShare(pod) /\ fits = {}
  <2>1. out = [score |-> 0, ids |-> NoGpus]
    BY <1>1 DEF CalculateGpuShareFragExtendScore, FirstBest
  <2> QED
    BY <1>1, <2>1, NoRoom DEF Answers, Selection
<1>2. CASE IsGpuShare(pod) /\ fits # {}
  <2>1. out = [score |-> Gain(best), ids |-> {best}]
    BY <1>2 DEF CalculateGpuShareFragExtendScore, FirstBest
  <2>2. \A i \in fits : Gain(i) \in Int /\ (SigmoidRange => Gain(i) \in 0 .. 100)
    <3>1. ASSUME NEW i \in fits
          PROVE  /\ ByType(node, Take(node, pod, {i})) \in Int
                 /\ SigmoidRange => ByType(node, Take(node, pod, {i})) \in Millionths
      BY TakeIn, GainsInt
    <3> QED
      BY <3>1, Percentage
  <2>3. \A i \in fits : i \in Int /\ gain[i] \in Int
    BY <2>2, FitsFinite
  <2>4. \E i \in fits : \A j \in fits : gain[j] < gain[i] \/ (gain[j] = gain[i] /\ i <= j)
    <3>1. IsFiniteSet(fits)
      BY FitsFinite
    <3> HIDE DEF gain, fits
    <3> QED
      BY <1>2, <2>3, <3>1, FirstBestFound
  <2>5. best \in fits
    <3> HIDE DEF Gain, fits
    <3> QED
      BY <2>4
  <2>6. pod.milli < MILLI
    BY <1>2 DEF IsGpuShare
  <2> HIDE DEF Gain, best, fits
  <2>7. Gain(best) \in Int /\ (SigmoidRange => Gain(best) \in 0 .. 100)
    BY <2>2, <2>5
  <2>8. GpuPod(pod) => Answers(node, pod, {best})
    BY <2>5, <2>6, OneAnswers DEF fits
  <2> HIDE DEF out
  <2> QED
    BY <2>1, <2>7, <2>8 DEF out
<1>3. CASE ~IsGpuShare(pod)
  <2>1. out = [score |-> ByType(node, Sub(node, pod).node) \div 10000,
               ids |-> AllocateExclusiveGpuId(node, pod)]
    BY <1>3 DEF CalculateGpuShareFragExtendScore, FirstBest
  <2>2. /\ ByType(node, Sub(node, pod).node) \in Int
        /\ SigmoidRange => ByType(node, Sub(node, pod).node) \in Millionths
    BY SubIn, GainsInt
  <2>3. /\ ByType(node, Sub(node, pod).node) \div 10000 \in Int
        /\ SigmoidRange => ByType(node, Sub(node, pod).node) \div 10000 \in 0 .. 100
    BY <2>2, Percentage
  <2>4. GpuPod(pod) => Answers(node, pod, AllocateExclusiveGpuId(node, pod))
    BY <1>3, WholeGpus, ExclusiveAnswers
  <2> QED
    BY <2>1, <2>3, <2>4
<1> QED
  BY <1>1, <1>2, <1>3

\* CAFGD on a share: the same by the measure that sums pod by pod.
LEMMA ShareSelects ==
  ASSUME SigmoidIsInt, NEW node \in NodeResources, NEW pod \in PodResources, IsGpuShare(pod)
  PROVE  /\ SharePlacement(node, pod).gain \in Int
         /\ GpuPod(pod) => Answers(node, pod, SharePlacement(node, pod).ids)
<1> DEFINE fits == Fits(node, pod)
           Gain(i) == ByPod(node, Take(node, pod, {i}))
           gain == [i \in fits |-> Gain(i)]
           best == CHOOSE i \in fits : \A j \in fits :
                     Gain(j) < Gain(i) \/ (Gain(j) = Gain(i) /\ i <= j)
           out  == SharePlacement(node, pod)
<1>1. CASE fits = {}
  <2>1. out = [gain |-> 0, ids |-> NoGpus]
    BY <1>1 DEF SharePlacement
  <2> QED
    BY <1>1, <2>1, NoRoom DEF Answers, Selection
<1>2. CASE fits # {}
  <2>1. out = [gain |-> Gain(best), ids |-> {best}]
    BY <1>2 DEF SharePlacement, FirstBest
  <2>2. \A i \in fits : Gain(i) \in Int
    BY TakeIn, GainsInt
  <2>3. \A i \in fits : i \in Int /\ gain[i] \in Int
    BY <2>2, FitsFinite
  <2>4. \E i \in fits : \A j \in fits : gain[j] < gain[i] \/ (gain[j] = gain[i] /\ i <= j)
    <3>1. IsFiniteSet(fits)
      BY FitsFinite
    <3> HIDE DEF gain, fits
    <3> QED
      BY <1>2, <2>3, <3>1, FirstBestFound
  <2>5. best \in fits
    <3> HIDE DEF Gain, fits
    <3> QED
      BY <2>4
  <2>6. pod.milli < MILLI
    BY DEF IsGpuShare
  <2> HIDE DEF Gain, best, fits
  <2>7. Gain(best) \in Int
    BY <2>2, <2>5
  <2>8. GpuPod(pod) => Answers(node, pod, {best})
    BY <2>5, <2>6, OneAnswers DEF fits
  <2> HIDE DEF out
  <2> QED
    BY <2>1, <2>7, <2>8 DEF out
<1> QED
  BY <1>1, <1>2

LEMMA BestFitScoreInt ==
  ASSUME NEW node \in NodeResources, NEW pod \in PodResources, NEW scale \in Int
  PROVE  GetBestFitScore(node, pod, scale) \in Int
<1> DEFINE cpu == node.cpu - pod.cpu
           gpu == GetTotalMilliGpuLeft(node) - TotalMilliGpu(pod)
           x   == MaxNodeScore * scale * (2 * MaxSpecCpu * MaxSpecGpu - cpu * MaxSpecGpu - gpu * MaxSpecCpu)
           y   == 2 * MaxSpecCpu * MaxSpecGpu
<1>1. node.cpu \in Int /\ node.gpu \in Seq(Int) /\ pod.cpu \in Int /\ pod.milli \in Int /\ pod.num \in Int
  BY ResourceAssumption DEF NodeResources, PodResources
<1>2. cpu \in Int /\ gpu \in Int
  BY <1>1, LeftIsInt DEF TotalMilliGpu
<1>3. MaxSpecCpu \in Nat \ {0} /\ MaxSpecGpu \in Nat \ {0}
  BY SpecAssumption
<1>4. x \in Int /\ y \in Nat \ {0}
  <2> HIDE DEF cpu, gpu
  <2> QED
    BY <1>2, <1>3 DEF MaxNodeScore
<1>5. x \div y \in Int
  <2> HIDE DEF x, y
  <2> QED
    BY <1>4
<1>6. GetBestFitScore(node, pod, scale) = IF cpu < 0 \/ gpu < 0 THEN Failed ELSE x \div y
  BY DEF GetBestFitScore
<1> HIDE DEF x, y, cpu, gpu
<1> QED
  BY <1>5, <1>6 DEF Failed

\* FGDPP: best fit, and FGD when its window is full.
LEMMA FGDPPSelects ==
  ASSUME SigmoidIsInt, NEW node \in NodeResources, NEW pod \in PodResources, NEW full \in BOOLEAN
  PROVE  /\ CalculateGpuShareFragExtendScorePP(node, pod, full).score \in Int
         /\ GpuPod(pod) => Answers(node, pod, CalculateGpuShareFragExtendScorePP(node, pod, full).ids)
BY FGDSelects, BestFitSelects, BestFitScoreInt DEF CalculateGpuShareFragExtendScorePP

\* CAFGD, what Score calls, gives numbers.
LEMMA CAFGDScores ==
  ASSUME SigmoidIsInt, NEW node \in NodeResources, NEW pod \in PodResources, NEW full \in BOOLEAN
  PROVE  GetGpuShareFragExtendScore(node, pod, full).score \in Int
<1>1. CASE ~full
  BY <1>1, BestFitScoreInt DEF GetGpuShareFragExtendScore
<1>2. CASE full /\ IsGpuShare(pod)
  <2>1. GetGpuShareFragExtendScore(node, pod, full).score = SharePlacement(node, pod).gain \div 10000
    BY <1>2 DEF GetGpuShareFragExtendScore
  <2>2. SharePlacement(node, pod).gain \in Int
    BY <1>2, ShareSelects
  <2> QED
    BY <2>1, <2>2, SMT
<1>3. CASE full /\ ~IsGpuShare(pod)
  <2>1. GetGpuShareFragExtendScore(node, pod, full).score = ByPod(node, Sub(node, pod).node) \div 10000
    BY <1>3 DEF GetGpuShareFragExtendScore
  <2>2. ByPod(node, Sub(node, pod).node) \in Int
    BY SubIn, GainsInt
  <2> QED
    BY <2>1, <2>2, SMT
<1> QED
  BY <1>1, <1>2, <1>3

\* What Reserve calls selects.
LEMMA CAFGDSelects ==
  ASSUME SigmoidIsInt, NEW node \in NodeResources, NEW pod, GpuPod(pod), NEW full \in BOOLEAN
  PROVE  Answers(node, pod, PredictGpuShareFragExtendScore(node, pod, full).ids)
<1>0. pod \in PodResources /\ pod.num # 0
  BY DEF GpuPod
<1>1. CASE ~full
  <2>1. PredictGpuShareFragExtendScore(node, pod, full).ids = BestFitGpus(node, pod)
    BY <1>1 DEF PredictGpuShareFragExtendScore
  <2> QED
    BY <2>1, BestFitSelects
<1>2. CASE full /\ IsGpuShare(pod)
  <2>1. PredictGpuShareFragExtendScore(node, pod, full).ids = SharePlacement(node, pod).ids
    BY <1>0, <1>2 DEF PredictGpuShareFragExtendScore
  <2> QED
    BY <1>0, <1>2, <2>1, ShareSelects
<1>3. CASE full /\ ~IsGpuShare(pod)
  <2>1. PredictGpuShareFragExtendScore(node, pod, full).ids = AllocateExclusiveGpuId(node, pod)
    BY <1>0, <1>3 DEF PredictGpuShareFragExtendScore
  <2>2. ~(pod.milli < MILLI)
    BY <1>3, WholeGpus
  <2> QED
    BY <2>1, <2>2, ExclusiveAnswers
<1> QED
  BY <1>1, <1>2, <1>3

-----------------------------------------------------------------------------
(* The dot product.                                                        *)

\* The best group is one of the groups, or the one with no GPUs it starts from.
LEMMA BestGroupIn ==
  ASSUME NEW n \in Nat, NEW groups, DOMAIN groups = 1 .. n
  PROVE  BestGroup(groups) \in { [product |-> Undefined, ids |-> NoGpus] } \cup { groups[k] : k \in 1 .. n }
<1> DEFINE D     == 1 .. n
           base  == [product |-> Undefined, ids |-> NoGpus]
           V     == { base } \cup { groups[k] : k \in D }
           Op(x, v) == IF Smaller(groups[x].product, v.product) THEN groups[x] ELSE v
           op    == [u \in D \X V |-> Op(u[1], u[2])]
           pick  == [s \in SUBSET D |-> Max(s)]
           Eqn(g) == g = [s \in SUBSET D |-> IF s = {} THEN base ELSE Op(Max(s), g[s \ {Max(s)}])]
<1>1. IsFiniteSet(D)
  BY FS_Interval
<1>2. ASSUME NEW s \in SUBSET D, s # {} PROVE Max(s) \in s /\ pick[s] = Max(s)
  <2>1. IsFiniteSet(s)
    <3> HIDE DEF D
    <3> QED
      BY <1>1, FS_Subset
  <2>2. \A i \in s : i \in Int
    OBVIOUS
  <2> QED
    BY <1>2, <2>1, <2>2, MaxIn
<1>3. PICK g : FoldsUp(base, op, pick, D, g)
  <2> HIDE DEF base, op, pick, D
  <2> QED
    BY <1>1, <1>2, FoldsUpAlways
<1>4. \A x \in D, v \in V : Op(x, v) \in V /\ op[<<x, v>>] = Op(x, v)
  OBVIOUS
<1>5. \A s \in SUBSET D : g[s] = IF s = {} THEN base ELSE op[<< pick[s], g[s \ {pick[s]}] >>]
  BY <1>3 DEF FoldsUp
<1>6. base \in V
  OBVIOUS
<1>7. \A s \in SUBSET D : g[s] \in V
  <2> DEFINE Bad == { s \in SUBSET D : g[s] \notin V }
  <2> SUFFICES ASSUME Bad # {} PROVE FALSE
    OBVIOUS
  <2>0. Bad \in SUBSET SUBSET D
    OBVIOUS
  <2>1. PICK m \in Bad : \A t \in Bad : t \subseteq m => t = m
    <3> HIDE DEF Bad, D
    <3> QED
      BY <1>1, <2>0, Smallest
  <2>2. m \in SUBSET D /\ g[m] \notin V
    BY <2>1
  <2> HIDE DEF base, V, op, D, pick, Op
  <2>3. m # {}
    BY <1>5, <1>6, <2>2
  <2>4. Max(m) \in m /\ Max(m) \in D /\ pick[m] = Max(m)
    BY <1>2, <2>2, <2>3
  <2>5. g[m \ {Max(m)}] \in V
    BY <2>1, <2>2, <2>4
  <2>6. g[m] = op[<< Max(m), g[m \ {Max(m)}] >>]
    BY <1>5, <2>2, <2>3, <2>4
  <2> QED
    BY <1>4, <2>2, <2>4, <2>5, <2>6
<1>8. Eqn(g)
  <2>1. ASSUME NEW s \in SUBSET D
        PROVE  g[s] = IF s = {} THEN base ELSE Op(Max(s), g[s \ {Max(s)}])
    <3>1. CASE s = {}
      BY <1>5, <3>1
    <3>2. CASE s # {}
      <4>1. Max(s) \in D /\ pick[s] = Max(s) /\ g[s \ {Max(s)}] \in V
        BY <1>2, <1>7, <3>2
      <4> HIDE DEF base, V, op, D, pick, Op
      <4> QED
        BY <1>4, <1>5, <3>2, <4>1
    <3> QED
      BY <3>1, <3>2
  <2>2. g = [s \in SUBSET D |-> g[s]]
    BY <1>3 DEF FoldsUp
  <2> HIDE DEF base, D, Op
  <2> QED
    BY <2>1, <2>2
<1> DEFINE it == CHOOSE h : Eqn(h)
<1>9. Eqn(it)
  BY <1>8
<1>10. \A s \in SUBSET D : it[s] = IF s = {} THEN base ELSE Op(Max(s), it[s \ {Max(s)}])
  <2> HIDE DEF base, D, Op, it
  <2> QED
    BY <1>9
<1>11. \A s \in SUBSET D : it[s] \in V
  <2> HIDE DEF it
  <2> DEFINE Bad == { s \in SUBSET D : it[s] \notin V }
  <2> SUFFICES ASSUME Bad # {} PROVE FALSE
    OBVIOUS
  <2>0. Bad \in SUBSET SUBSET D
    OBVIOUS
  <2>1. PICK m \in Bad : \A t \in Bad : t \subseteq m => t = m
    <3> HIDE DEF Bad, D
    <3> QED
      BY <1>1, <2>0, Smallest
  <2>2. m \in SUBSET D /\ it[m] \notin V
    BY <2>1
  <2> HIDE DEF base, V, op, D, pick, Op
  <2>3. m # {}
    BY <1>6, <1>10, <2>2
  <2>4. Max(m) \in m /\ Max(m) \in D
    BY <1>2, <2>2, <2>3
  <2>5. it[m \ {Max(m)}] \in V
    BY <2>1, <2>2, <2>4
  <2>6. it[m] = Op(Max(m), it[m \ {Max(m)}])
    BY <1>10, <2>2, <2>3
  <2> QED
    BY <1>4, <2>2, <2>4, <2>5, <2>6
<1>12. BestGroup(groups) = it[D]
  BY DEF BestGroup, FoldLeft, MapThenFoldSet
<1>13. D \in SUBSET D
  OBVIOUS
<1> HIDE DEF it
<1> QED
  BY <1>11, <1>12, <1>13

\* A sequence with perhaps one more element: nothing else is in it.
LEMMA ConcatOne ==
  ASSUME NEW n \in Nat, NEW s, s = [k \in 1 .. n |-> s[k]], NEW e, NEW t \in { <<>>, << e >> }
  PROVE  /\ Len(s \o t) \in Nat /\ DOMAIN (s \o t) = 1 .. Len(s \o t)
         /\ \A k \in 1 .. Len(s \o t) : (\E j \in 1 .. n : (s \o t)[k] = s[j]) \/ (t # <<>> /\ (s \o t)[k] = e)
<1> DEFINE R == { s[j] : j \in 1 .. n } \cup { e }
<1>1. s \in Seq(R) /\ Len(s) = n
  <2>1. s \in [1 .. n -> R]
    OBVIOUS
  <2> HIDE DEF R
  <2>2. s \in Seq(R)
    BY <2>1, SeqDef
  <2> QED
    BY <2>1, <2>2
<1>2. t \in Seq(R) /\ Len(t) \in {0, 1} /\ (Len(t) = 1 => t[1] = e /\ t # <<>>)
  <2>1. CASE t = <<>>
    BY <2>1
  <2>2. CASE t = << e >>
    <3>1. e \in R
      OBVIOUS
    <3> HIDE DEF R
    <3> QED
      BY <2>2, <3>1
  <2> QED
    BY <2>1, <2>2
<1> HIDE DEF R
<1>3. /\ s \o t \in Seq(R) /\ Len(s \o t) = n + Len(t)
      /\ \A k \in 1 .. Len(s) + Len(t) : (s \o t)[k] = IF k <= Len(s) THEN s[k] ELSE t[k - Len(s)]
  BY <1>1, <1>2, ConcatProperties
<1> QED
  BY <1>1, <1>2, <1>3

\* What a pod that asks for less than a GPU asks for.
LEMMA TotalOfShare ==
  ASSUME NEW pod, GpuPod(pod)
  PROVE  /\ TotalMilliGpu(pod) \in Nat /\ pod.milli <= TotalMilliGpu(pod)
         /\ TotalMilliGpu(pod) < MILLI => pod.milli < MILLI
<1>1. pod.milli \in Nat \ {0} /\ pod.num \in Nat \ {0} /\ MILLI \in Nat
  BY ResourceAssumption DEF GpuPod, PodResources
<1>2. \A m, n \in Nat \ {0} : m * n \in Nat /\ m <= m * n
  OBVIOUS
<1> QED
  BY <1>1, <1>2 DEF TotalMilliGpu

\* Virtual nodes carry selections.
LEMMA VirtualNodesSelect ==
  ASSUME NEW node \in NodeResources, NEW pod, GpuPod(pod), NEW method \in Dims
  PROVE  LET v == ToVirtualNodeResourceList(node, pod, method)
         IN /\ Len(v) \in Nat /\ DOMAIN v = 1 .. Len(v)
            /\ \A k \in 1 .. Len(v) : Selection(node, pod, v[k].ids)
<1> DEFINE v      == ToVirtualNodeResourceList(node, pod, method)
           total  == GetTotalMilliGpuLeft(node)
           Cpu(left) == IF method = "divide" THEN <<node.cpu * left, total>> ELSE <<node.cpu, 1>>
           shared == SharedGpus(node, pod)
           free   == GetFullyFreeGpuNum(node) * MILLI
           gpus   == ToFormalizedGpuResourceList(node)
           e1     == [cpu |-> Cpu(0), gpu |-> <<total>>, ids |-> NoGpus]
           e2     == [cpu |-> Cpu(free), gpu |-> <<free>>, ids |-> AllocateExclusiveGpuId(node, pod)]
           e3     == [cpu |-> Cpu(0), gpu |-> [k \in DOMAIN gpus |-> gpus[k].left], ids |-> NoGpus]
           E(i)   == [cpu |-> Cpu(node.gpu[i]), gpu |-> <<node.gpu[i]>>, ids |-> {i}]
           s      == [k \in DOMAIN shared |-> E(shared[k])]
           t      == IF TotalMilliGpu(pod) > free THEN <<>> ELSE << e2 >>
<1>0. node.cpu \in Int /\ pod.cpu \in Int
  BY DEF NodeResources, GpuPod, PodResources
<1>1. CASE node.cpu < pod.cpu
  <2>1. v = <<>>
    BY <1>0, <1>1 DEF ToVirtualNodeResourceList
  <2> HIDE DEF v
  <2> QED
    BY <2>1 DEF v
<1>2. CASE node.cpu >= pod.cpu /\ method = "merge"
  <2>1. v = << e1 >>
    BY <1>2 DEF ToVirtualNodeResourceList
  <2>2. Selection(node, pod, e1.ids)
    BY DEF Selection
  <2> HIDE DEF v, e1
  <2> QED
    BY <2>1, <2>2 DEF v
<1>3. CASE node.cpu >= pod.cpu /\ method \in {"share", "divide"}
  <2> DEFINE S == { i \in DOMAIN node.gpu : TotalMilliGpu(pod) < MILLI /\ node.gpu[i] < MILLI
                                               /\ TotalMilliGpu(pod) <= node.gpu[i] }
             n == Cardinality(S)
  <2>0. ~(node.cpu < pod.cpu) /\ method # "merge"
    BY <1>0, <1>3
  <2>1. v = s \o t
    BY <1>3, <2>0 DEF ToVirtualNodeResourceList
  <2>2. IsFiniteSet(S) /\ \A i \in S : i \in Int
    <3>1. node.gpu \in Seq(Int)
      BY DEF NodeResources
    <3>2. IsFiniteSet(DOMAIN node.gpu) /\ \A i \in DOMAIN node.gpu : i \in Int
      BY <3>1, LeftIsInt
    <3>3. S \in SUBSET DOMAIN node.gpu
      OBVIOUS
    <3> HIDE DEF S
    <3> QED
      BY <3>2, <3>3, FS_Subset
  <2>3. n \in Nat /\ DOMAIN shared = 1 .. n /\ \A k \in 1 .. n : shared[k] \in S
    <3>1. shared = SortBy(S, <)
      BY DEF SharedGpus
    <3> HIDE DEF S, shared
    <3> QED
      BY <2>2, <3>1, SortByNumber
  <2>4. ASSUME NEW i \in S PROVE Selection(node, pod, {i})
    <3>1. pod.milli < MILLI /\ i \in DOMAIN node.gpu /\ TotalMilliGpu(pod) <= node.gpu[i]
      BY TotalOfShare
    <3>2. pod.milli \in Int /\ TotalMilliGpu(pod) \in Int /\ node.gpu[i] \in Int
      <4>1. node.gpu \in Seq(Int) /\ pod.milli \in Int
        BY DEF GpuPod, PodResources, NodeResources
      <4> QED
        BY <3>1, <4>1, LeftIsInt, TotalOfShare
    <3>3. pod.milli <= TotalMilliGpu(pod)
      BY TotalOfShare
    <3>4. i \in Fits(node, pod)
      BY <3>1, <3>2, <3>3 DEF Fits
    <3> QED
      BY <3>1, <3>4, OneSelects
  <2>5. s = [k \in 1 .. n |-> s[k]] /\ \A k \in 1 .. n : Selection(node, pod, s[k].ids)
    <3>1. \A k \in 1 .. n : s[k].ids = {shared[k]}
      BY <2>3
    <3>2. s = [k \in 1 .. n |-> s[k]]
      BY <2>3
    <3> HIDE DEF S, shared, s, n
    <3> QED
      BY <2>3, <2>4, <3>1, <3>2
  <2>6. t \in { <<>>, << e2 >> } /\ Selection(node, pod, e2.ids)
    BY ExclusiveSelects
  <2> HIDE DEF v, s, t, e2, S, n
  <2>7. /\ Len(v) \in Nat /\ DOMAIN v = 1 .. Len(v)
        /\ \A k \in 1 .. Len(v) : (\E j \in 1 .. n : v[k] = s[j]) \/ v[k] = e2
    BY <2>1, <2>3, <2>5, <2>6, ConcatOne
  <2> QED
    BY <2>5, <2>6, <2>7 DEF v
<1>4. CASE ~(node.cpu < pod.cpu) /\ ~(node.cpu >= pod.cpu /\ method \in {"merge", "share", "divide"})
  <2>1. v = << e3 >>
    BY <1>4 DEF ToVirtualNodeResourceList
  <2>2. Selection(node, pod, e3.ids)
    BY DEF Selection
  <2> HIDE DEF v, e3
  <2> QED
    BY <2>1, <2>2 DEF v
<1> QED
  BY <1>1, <1>2, <1>3, <1>4

\* The GPUs "extend" sees: a partly used one by itself, or all the idle ones.
LEMMA FormalizedGpus ==
  ASSUME NEW node \in NodeResources
  PROVE  LET g == ToFormalizedGpuResourceList(node)
         IN /\ Len(g) \in Nat /\ DOMAIN g = 1 .. Len(g)
            /\ \A k \in 1 .. Len(g) :
                 /\ g[k].left \in Int
                 /\ \/ g[k].left >= MILLI
                    \/ \E i \in DOMAIN node.gpu : g[k].left = node.gpu[i] /\ g[k].ids = {i}
<1> DEFINE g      == ToFormalizedGpuResourceList(node)
           S      == { i \in DOMAIN node.gpu : node.gpu[i] \in 1 .. (MILLI - 1) }
           n      == Cardinality(S)
           partly == SortBy(S, <)
           idle   == FullyFree(node)
           E(i)   == [left |-> node.gpu[i], ids |-> {i}]
           s      == [k \in DOMAIN partly |-> E(partly[k])]
           e      == [left |-> Cardinality(idle) * MILLI, ids |-> idle]
           t      == IF idle = {} THEN <<>> ELSE << e >>
<1>0. node.gpu \in Seq(Int)
  BY DEF NodeResources
<1>1. g = s \o t
  BY DEF ToFormalizedGpuResourceList
<1>2. IsFiniteSet(S) /\ \A i \in S : i \in Int
  BY <1>0, LeftIsInt, FS_Subset
<1>3. n \in Nat /\ DOMAIN partly = 1 .. n /\ \A k \in 1 .. n : partly[k] \in S
  <2> HIDE DEF S
  <2> QED
    BY <1>2, SortByNumber
<1>4. \A k \in 1 .. n : s[k] = E(partly[k])
  <2> HIDE DEF S, partly, n
  <2> QED
    BY <1>3
<1>5. \A i \in S : i \in DOMAIN node.gpu /\ node.gpu[i] \in Int
  BY <1>0
<1>6. s = [k \in 1 .. n |-> s[k]]
  <2> HIDE DEF S, partly, n
  <2> QED
    BY <1>3
<1>7. ASSUME t # <<>> PROVE e.left \in Int /\ e.left >= MILLI
  <2>1. idle # {}
    BY <1>7
  <2>2. IsFiniteSet(idle)
    BY <1>0, LeftIsInt, FS_Subset DEF FullyFree
  <2>3. Cardinality(idle) \in Nat \ {0}
    BY <2>1, <2>2, FS_CardinalityType, FS_EmptySet
  <2>4. \A m \in Nat \ {0} : m * MILLI \in Int /\ m * MILLI >= MILLI
    BY ResourceAssumption
  <2> HIDE DEF idle
  <2> QED
    BY <2>3, <2>4
<1>8. t \in { <<>>, << e >> }
  OBVIOUS
<1>9. /\ Len(g) \in Nat /\ DOMAIN g = 1 .. Len(g)
      /\ \A k \in 1 .. Len(g) : (\E j \in 1 .. n : g[k] = s[j]) \/ (t # <<>> /\ g[k] = e)
  <2> HIDE DEF s, t, e, S, n, g, partly
  <2> QED
    BY <1>1, <1>3, <1>6, <1>8, ConcatOne
<1>10. ASSUME NEW k \in 1 .. Len(g)
       PROVE  /\ g[k].left \in Int
              /\ \/ g[k].left >= MILLI
                 \/ \E i \in DOMAIN node.gpu : g[k].left = node.gpu[i] /\ g[k].ids = {i}
  <2>1. CASE \E j \in 1 .. n : g[k] = s[j]
    <3>1. PICK j \in 1 .. n : g[k] = s[j]
      BY <2>1
    <3>2. g[k] = E(partly[j]) /\ partly[j] \in S
      BY <1>3, <1>4, <3>1
    <3> HIDE DEF g, s, partly, S, n
    <3> QED
      BY <1>5, <3>2
  <2>2. CASE t # <<>> /\ g[k] = e
    <3> HIDE DEF g, t, e
    <3> QED
      BY <1>7, <2>2
  <2> HIDE DEF g, t, e, s, n
  <2> QED
    BY <1>9, <2>1, <2>2
<1> HIDE DEF g
<1> QED
  BY <1>9, <1>10 DEF g

\* Virtual pods carry selections.
LEMMA VirtualPodsSelect ==
  ASSUME NEW node \in NodeResources, NEW pod, GpuPod(pod), NEW method \in Dims
  PROVE  LET v == ToVirtualPodResourceList(pod, node, method)
         IN /\ Len(v) \in Nat /\ DOMAIN v = 1 .. Len(v)
            /\ \A k \in 1 .. Len(v) : Selection(node, pod, v[k].ids)
<1> DEFINE v     == ToVirtualPodResourceList(pod, node, method)
           req   == TotalMilliGpu(pod)
           gpus  == ToFormalizedGpuResourceList(node)
           S     == { k \in DOMAIN gpus : gpus[k].left >= req }
           n     == Cardinality(S)
           hosts == SortBy(S, <)
           Ids(k) == IF gpus[k].left < MILLI THEN gpus[k].ids ELSE AllocateExclusiveGpuId(node, pod)
           G(h)  == [k \in DOMAIN gpus |-> IF k = hosts[h] THEN req ELSE 0]
           E(h)  == [gpu |-> G(h), ids |-> Ids(hosts[h])]
           s     == [h \in DOMAIN hosts |-> E(h)]
           e     == [gpu |-> <<req>>, ids |-> NoGpus]
<1>1. CASE method # "extend"
  <2>1. v = << e >>
    BY <1>1 DEF ToVirtualPodResourceList
  <2>2. Selection(node, pod, e.ids)
    BY DEF Selection
  <2> HIDE DEF v, e
  <2> QED
    BY <2>1, <2>2 DEF v
<1>2. CASE method = "extend"
  <2>1. v = s
    BY <1>2 DEF ToVirtualPodResourceList
  <2>2. IsFiniteSet(S) /\ \A k \in S : k \in Int /\ k \in 1 .. Len(gpus)
    <3>1. Len(gpus) \in Nat /\ DOMAIN gpus = 1 .. Len(gpus)
      BY FormalizedGpus
    <3>2. IsFiniteSet(1 .. Len(gpus))
      BY <3>1, FS_Interval
    <3>3. S \in SUBSET (1 .. Len(gpus))
      BY <3>1
    <3> HIDE DEF S, gpus
    <3>4. IsFiniteSet(S)
      BY <3>2, <3>3, FS_Subset
    <3> QED
      BY <3>1, <3>3, <3>4
  <2>3. n \in Nat /\ DOMAIN hosts = 1 .. n /\ \A h \in 1 .. n : hosts[h] \in S
    <3> HIDE DEF S
    <3> QED
      BY <2>2, SortByNumber
  <2>4. ASSUME NEW k \in S PROVE Selection(node, pod, Ids(k))
    <3>1. CASE gpus[k].left >= MILLI
      <4>1. gpus[k].left \in Int /\ MILLI \in Int
        BY <2>2, FormalizedGpus, ResourceAssumption
      <4>2. Ids(k) = AllocateExclusiveGpuId(node, pod)
        <5> HIDE DEF gpus
        <5> QED
          BY <3>1, <4>1
      <4> HIDE DEF Ids
      <4> QED
        BY <4>2, ExclusiveSelects
    <3>2. CASE gpus[k].left < MILLI
      <4>1. /\ gpus[k].left \in Int /\ MILLI \in Int
            /\ \/ gpus[k].left >= MILLI
               \/ \E i \in DOMAIN node.gpu : gpus[k].left = node.gpu[i] /\ gpus[k].ids = {i}
        <5>1. k \in 1 .. Len(gpus)
          BY <2>2
        <5> HIDE DEF S
        <5>2. \A j \in 1 .. Len(gpus) : /\ gpus[j].left \in Int
                                       /\ \/ gpus[j].left >= MILLI
                                          \/ \E i \in DOMAIN node.gpu : gpus[j].left = node.gpu[i] /\ gpus[j].ids = {i}
          BY FormalizedGpus
        <5> HIDE DEF gpus
        <5> QED
          BY <5>1, <5>2, ResourceAssumption
      <4>2. PICK i \in DOMAIN node.gpu : gpus[k].left = node.gpu[i] /\ gpus[k].ids = {i}
        <5> HIDE DEF gpus, S
        <5> QED
          BY <3>2, <4>1
      <4>3. gpus[k].left >= req
        OBVIOUS
      <4>4. req \in Int /\ pod.milli \in Int /\ pod.milli <= req
        BY TotalOfShare DEF GpuPod, PodResources
      <4>5. req < MILLI => pod.milli < MILLI
        BY TotalOfShare
      <4> HIDE DEF gpus, req, S
      <4>6. req < MILLI /\ node.gpu[i] >= pod.milli
        BY <3>2, <4>1, <4>2, <4>3, <4>4
      <4>7. Selection(node, pod, {i})
        <5>1. i \in Fits(node, pod)
          BY <4>6 DEF Fits
        <5> QED
          BY <4>5, <4>6, <5>1, OneSelects
      <4> QED
        BY <3>2, <4>2, <4>7
    <3>3. gpus[k].left \in Int /\ MILLI \in Int
      BY <2>2, FormalizedGpus, ResourceAssumption
    <3> HIDE DEF gpus, S, Ids
    <3> QED
      BY <3>1, <3>2, <3>3
  <2>5. \A h \in 1 .. n : s[h].ids = Ids(hosts[h])
    <3> HIDE DEF gpus, S, Ids, hosts, n, G
    <3> QED
      BY <2>3
  <2>6. s = [h \in 1 .. n |-> s[h]]
    <3> HIDE DEF E, hosts, n
    <3> QED
      BY <2>3
  <2>7. Len(s) = n /\ DOMAIN s = 1 .. n
    <3> HIDE DEF s, n
    <3> QED
      BY <2>3, <2>6, LenIs
  <2> HIDE DEF v, s, Ids, hosts, S, n
  <2> QED
    BY <2>1, <2>3, <2>4, <2>5, <2>7 DEF v
<1> QED
  BY <1>1, <1>2

\* A numbered pair of an element of one sequence and one of another.
LEMMA PairIndex ==
  ASSUME NEW a \in Nat, NEW b \in Nat, NEW k \in 1 .. (a * b)
  PROVE  ((k - 1) \div b) + 1 \in 1 .. a /\ ((k - 1) % b) + 1 \in 1 .. b
<1>1. a * b \in Nat /\ k \in Int /\ 0 <= k - 1 /\ k - 1 < a * b
  OBVIOUS
<1>2. b > 0
  BY <1>1
<1> DEFINE x == k - 1
           q == x \div b
<1>3. x \in Int /\ b \in Nat \ {0}
  BY <1>1, <1>2
<1>4. q \in Int /\ q * b <= x /\ x < (q + 1) * b /\ x % b \in 0 .. b - 1
  <2> HIDE DEF x
  <2> QED
    BY <1>3
<1>5. \A c, d \in Int : c * b < d * b => c < d
  BY <1>3
<1>6. q * b < a * b /\ 0 * b < (q + 1) * b
  <2> HIDE DEF q
  <2> QED
    BY <1>1, <1>3, <1>4
<1>7. q < a /\ 0 < q + 1
  <2> HIDE DEF q
  <2> QED
    BY <1>4, <1>5, <1>6
<1> HIDE DEF q
<1>8. q + 1 \in 1 .. a
  BY <1>4, <1>7
<1> QED
  BY <1>3, <1>4, <1>8 DEF q

\* The GPUs of the best match.
LEMMA DotProductSelects ==
  ASSUME NEW node \in NodeResources, NEW pod, GpuPod(pod), NEW method \in Dims, NEW norm
  PROVE  Selection(node, pod, CalculateDotProductScore(node, pod, method, norm).ids)
<1> DEFINE vn == ToVirtualNodeResourceList(node, pod, method)
           vp == ToVirtualPodResourceList(pod, node, method)
           a  == Len(vn)
           b  == Len(vp)
           g  == GenerateSchedulingMatchGroups(node, pod, method, norm)
           I(k) == ((k - 1) \div b) + 1
           J(k) == ((k - 1) % b) + 1
<1>1. /\ a \in Nat /\ \A k \in 1 .. a : Selection(node, pod, vn[k].ids)
      /\ b \in Nat /\ \A k \in 1 .. b : Selection(node, pod, vp[k].ids)
  BY VirtualNodesSelect, VirtualPodsSelect
<1>2. g = [k \in 1 .. (a * b) |-> MatchGroup(vn[I(k)], vp[J(k)], pod, method, Norm(node, pod, norm))]
  BY DEF GenerateSchedulingMatchGroups, MatchGroups
<1>3. a * b \in Nat
  BY <1>1
<1>4. ASSUME NEW k \in 1 .. (a * b) PROVE Selection(node, pod, g[k].ids)
  <2>1. I(k) \in 1 .. a /\ J(k) \in 1 .. b
    BY <1>1, PairIndex
  <2>2. g[k].ids = IF method = "extend" THEN vp[J(k)].ids ELSE vn[I(k)].ids
    BY <1>2 DEF MatchGroup
  <2> HIDE DEF I, J, g, vn, vp
  <2> QED
    BY <1>1, <2>1, <2>2
<1>5. BestGroup(g) \in { [product |-> Undefined, ids |-> NoGpus] } \cup { g[k] : k \in 1 .. (a * b) }
  <2>1. DOMAIN g = 1 .. (a * b)
    BY <1>2
  <2> HIDE DEF g, a, b
  <2> QED
    BY <1>3, <2>1, BestGroupIn
<1>6. Selection(node, pod, NoGpus)
  BY DEF Selection
<1>7. Selection(node, pod, BestGroup(g).ids)
  <2> HIDE DEF g, a, b
  <2> QED
    BY <1>4, <1>5, <1>6
<1>8. CalculateDotProductScore(node, pod, method, norm).ids = BestGroup(g).ids
  BY DEF CalculateDotProductScore, Rated
<1> HIDE DEF g
<1> QED
  BY <1>7, <1>8

(***************************************************************************)
(* Every selection method answers with the number of GPUs asked for, all   *)
(* of them with room, with none, or with a panic.                          *)
(***************************************************************************)
LEMMA Selects ==
  ASSUME SigmoidIsInt, NEW p \in Policies, NEW node \in NodeResources, NEW pod, GpuPod(pod),
         NEW full \in BOOLEAN, NEW ids \in AllocateGpuIdFunc(p, node, pod, full)
  PROVE  Selection(node, pod, ids)
<1>0. p.select \in Selections /\ p.dim \in Dims /\ pod \in PodResources
  BY CycleAssumption DEF GpuPod
<1>1. CASE p.select = "DotProduct"
  BY <1>0, <1>1, DotProductSelects DEF AllocateGpuIdFunc
<1>2. CASE p.select = "FGD"
  BY <1>0, <1>2, FGDSelects DEF AllocateGpuIdFunc, Answers
<1>3. CASE p.select = "FGDPP"
  BY <1>0, <1>3, FGDPPSelects DEF AllocateGpuIdFunc, Answers
<1>4. CASE p.select = "CAFGD"
  BY <1>4, CAFGDSelects DEF AllocateGpuIdFunc, Answers
<1>5. CASE p.select \in {"best", "worst", "random"}
  <2>1. ids \in AllocateByRoom(p.select, node, pod)
    BY <1>5 DEF AllocateGpuIdFunc
  <2> QED
    BY <1>5, <2>1, RoomSelects DEF Answers
<1> QED
  BY <1>0, <1>1, <1>2, <1>3, <1>4, <1>5 DEF Selections

-----------------------------------------------------------------------------
(***************************************************************************)
(* The inductive invariant.  Its parts are operators of where the pods     *)
(* are, at, of the snapshot and of the cycle, so that they can be stated   *)
(* of the state after a step as well.                                      *)
(***************************************************************************)
CpuOf   == [p \in Pods |-> PodRes[p].cpu]
MilliOf == [p \in Pods |-> PodRes[p].milli]

OnOf(at, n)         == { p \in Pods : at[p].node = n }
HoldersOf(at, n, i) == { p \in OnOf(at, n) : i \in at[p].ids }

\* The GPUs of a node with room for a pod.
Roomy(at, n, pod) ==
  { i \in DOMAIN NodeRes[n].gpu : SumOver(MilliOf, HoldersOf(at, n, i)) + pod.milli <= MILLI }

\* Every placed pod has what it asked for.
PlacedWell(at) ==
  /\ at = [p \in Pods |-> at[p]]
  /\ \A p \in Pods : at[p] # Nowhere =>
       /\ at[p].node \in Nodes
       /\ Cardinality(at[p].ids) = IF PodRes[p].milli = 0 THEN 0 ELSE PodRes[p].num
       /\ at[p].ids \subseteq DOMAIN NodeRes[at[p].node].gpu
       /\ PodRes[p].milli > 0 => IsNodeAccessibleToPod(NodeRes[at[p].node], PodRes[p])

\* No node and no GPU holds more than it has.
WithinNodes(at) ==
  \A n \in Nodes :
    /\ SumOver(CpuOf, OnOf(at, n)) <= NodeRes[n].cpu
    /\ \A i \in DOMAIN NodeRes[n].gpu : SumOver(MilliOf, HoldersOf(at, n, i)) <= MILLI

\* A node that was found feasible stays so until the cycle ends: the snapshot
\* shows every pod that is there, and GPUs are only given back.
StillFeasible(at, sn, p, n) ==
  /\ OnOf(at, n) \subseteq sn[n] /\ sn[n] \subseteq Pods
  /\ SumOver(CpuOf, sn[n]) + PodRes[p].cpu <= NodeRes[n].cpu
  /\ PodRes[p].milli > 0 =>
       /\ IsNodeAccessibleToPod(NodeRes[n], PodRes[p])
       /\ PodRes[p].num <= Cardinality(Roomy(at, n, PodRes[p]))

IsCycle(c) ==
  c = [x \in { "pc", "pod", "feasible", "drawn", "scores", "seen", "host" } |-> c[x]]

InCycle(at, sn, c) ==
  /\ IsCycle(c)
  /\ c.pc # "idle" =>
       /\ c.pod \in Pods /\ at[c.pod] = Nowhere
       /\ c.feasible \subseteq Nodes
       /\ \A n \in c.feasible : StillFeasible(at, sn, c.pod, n)
       /\ c.pc = "reserve" => c.host \in c.feasible

CycleInv ==
  /\ policy \in Policies /\ ready \in BOOLEAN
  /\ PlacedWell(placed) /\ WithinNodes(placed) /\ InCycle(placed, snap, cycle)

LEMMA ResourcesTyped ==
  /\ MILLI \in Nat \ {0}
  /\ \A p \in Pods : /\ PodRes[p] \in PodResources /\ CpuOf[p] = PodRes[p].cpu /\ CpuOf[p] \in Nat
                     /\ MilliOf[p] = PodRes[p].milli /\ MilliOf[p] \in Nat /\ PodRes[p].num \in Nat
  /\ \A S \in SUBSET Pods : IsFiniteSet(S)
  /\ \A n \in Nodes : NodeRes[n].cpu \in Nat /\ NodeRes[n].gpu \in Seq({MILLI})
BY ResourceAssumption, CycleAssumption, FS_Subset DEF CpuOf, MilliOf, PodResources

\* Sums over pods are naturals, and smaller for fewer pods.
LEMMA SumsOfPods ==
  ASSUME NEW S \in SUBSET Pods, NEW T \in SUBSET S
  PROVE  /\ SumOver(CpuOf, S) \in Nat /\ SumOver(MilliOf, S) \in Nat
         /\ SumOver(CpuOf, T) <= SumOver(CpuOf, S) /\ SumOver(MilliOf, T) <= SumOver(MilliOf, S)
<1>1. IsFiniteSet(S) /\ (\A p \in S : CpuOf[p] \in Nat) /\ (\A p \in S : MilliOf[p] \in Nat)
  BY ResourcesTyped
<1> QED
  BY <1>1, SumNat

LEMMA AtSubsets ==
  ASSUME NEW at, NEW n
  PROVE  /\ OnOf(at, n) \in SUBSET Pods
         /\ \A i : HoldersOf(at, n, i) \in SUBSET Pods /\ HoldersOf(at, n, i) \subseteq OnOf(at, n)
BY DEF OnOf, HoldersOf

LEMMA HeldTyped ==
  ASSUME NEW at, NEW n, NEW i
  PROVE  /\ SumOver(CpuOf, OnOf(at, n)) \in Nat /\ SumOver(MilliOf, HoldersOf(at, n, i)) \in Nat
         /\ IsFiniteSet(OnOf(at, n)) /\ IsFiniteSet(HoldersOf(at, n, i))
         /\ HoldersOf(at, n, i) \in SUBSET Pods
<1>1. OnOf(at, n) \in SUBSET Pods /\ HoldersOf(at, n, i) \in SUBSET Pods
  BY AtSubsets
<1> QED
  BY <1>1, SumsOfPods, ResourcesTyped

\* The node resource a plugin sees.
LEMMA NodeSeen ==
  ASSUME NEW n \in Nodes, NEW S, S[n] \subseteq Pods
  PROVE  LET r == GetNodeResource(S, n)
         IN /\ r \in NodeResources /\ r.cap = NodeRes[n].cap /\ r.type = NodeRes[n].type
            /\ r.cpu = NodeRes[n].cpu - SumOver(CpuOf, S[n])
            /\ DOMAIN r.gpu = DOMAIN NodeRes[n].gpu /\ Len(r.gpu) = Len(NodeRes[n].gpu)
            /\ \A i \in DOMAIN r.gpu : r.gpu[i] = MILLI - SumOver(MilliOf, HoldersOf(placed, n, i))
<1> DEFINE cpus == [p \in S[n] |-> PodRes[p].cpu]
           shares(i) == [p \in Holders(n, i) |-> PodRes[p].milli]
           node == NodeRes[n]
           cpu  == node.cpu - SumFunction(cpus)
           gpu  == [i \in DOMAIN node.gpu |-> node.gpu[i] - SumFunction(shares(i))]
           r    == GetNodeResource(S, n)
<1>1. node \in [cpu : Nat, cap : Nat, gpu : Seq({MILLI}), type : STRING]
  BY CycleAssumption
<1>2. r = [node EXCEPT !.cpu = cpu, !.gpu = gpu]
  BY <1>1 DEF GetNodeResource
<1>3. SumFunction(cpus) = SumOver(CpuOf, S[n])
  <2>1. IsFiniteSet(S[n]) /\ \A p \in S[n] : cpus[p] = CpuOf[p] /\ cpus[p] \in Int
    BY ResourcesTyped
  <2>2. SumFunction(cpus) = SumOver(cpus, S[n])
    BY SumOfFunction
  <2> HIDE DEF cpus
  <2> QED
    BY <2>1, <2>2, SumSame
<1>4. ASSUME NEW i
      PROVE  SumFunction(shares(i)) = SumOver(MilliOf, HoldersOf(placed, n, i))
  <2> DEFINE H == Holders(n, i)
             f == shares(i)
  <2>0. H \subseteq Pods /\ H = HoldersOf(placed, n, i)
    BY DEF Holders, On, HoldersOf, OnOf
  <2>1. IsFiniteSet(H) /\ \A p \in H : f[p] = MilliOf[p] /\ f[p] \in Int
    BY <2>0, ResourcesTyped
  <2>2. SumFunction(f) = SumOver(f, H)
    BY SumOfFunction
  <2>3. SumOver(f, H) = SumOver(MilliOf, H)
    <3> HIDE DEF f, H
    <3> QED
      BY <2>1, SumSame
  <2> HIDE DEF f, H
  <2> QED
    BY <2>0, <2>2, <2>3 DEF f
<1>5. /\ SumOver(CpuOf, S[n]) \in Nat
      /\ \A i : SumOver(MilliOf, HoldersOf(placed, n, i)) \in Nat
  BY SumsOfPods, AtSubsets
<1>6. MILLI \in Int /\ node.gpu \in Seq({MILLI}) /\ node.cpu \in Int
  BY <1>1, ResourceAssumption
<1>7. cpu = NodeRes[n].cpu - SumOver(CpuOf, S[n]) /\ cpu \in Int
  <2> HIDE DEF cpus
  <2> QED
    BY <1>3, <1>5, <1>6
<1>8. \A i \in DOMAIN node.gpu :
        gpu[i] = MILLI - SumOver(MilliOf, HoldersOf(placed, n, i)) /\ gpu[i] \in Int
  <2>1. \A i \in DOMAIN node.gpu : node.gpu[i] = MILLI
    BY <1>6
  <2> HIDE DEF shares
  <2> QED
    BY <1>4, <1>5, <1>6, <2>1
<1>9. gpu \in Seq(Int) /\ Len(gpu) = Len(node.gpu) /\ DOMAIN gpu = DOMAIN node.gpu
  <2>1. DOMAIN node.gpu = 1 .. Len(node.gpu) /\ Len(node.gpu) \in Nat /\ DOMAIN gpu = DOMAIN node.gpu
    BY <1>6
  <2>2. gpu \in [1 .. Len(node.gpu) -> Int]
    <3> HIDE DEF shares
    <3> QED
      BY <1>8, <2>1
  <2>3. gpu \in Seq(Int)
    <3> HIDE DEF gpu
    <3> QED
      BY <2>1, <2>2, SeqOfInts
  <2>4. Len(gpu) = Len(node.gpu)
    <3> HIDE DEF gpu
    <3> QED
      BY <2>1, <2>3
  <2> QED
    BY <2>1, <2>3, <2>4
<1> HIDE DEF cpu, gpu
<1>10. r.cpu = cpu /\ r.gpu = gpu /\ r.cap = node.cap /\ r.type = node.type
  BY <1>1, <1>2
<1>11. r \in NodeResources
  BY <1>1, <1>2, <1>7, <1>9 DEF NodeResources
<1> HIDE DEF r
<1> QED
  BY <1>7, <1>8, <1>9, <1>10, <1>11 DEF r

\* Its GPUs with room for a pod.
LEMMA FitsSeen ==
  ASSUME NEW n \in Nodes, NEW S, S[n] \subseteq Pods, NEW pod \in PodResources
  PROVE  Fits(GetNodeResource(S, n), pod) = Roomy(placed, n, pod)
<1> DEFINE r == GetNodeResource(S, n)
<1>1. /\ DOMAIN r.gpu = DOMAIN NodeRes[n].gpu
      /\ \A i \in DOMAIN r.gpu : r.gpu[i] = MILLI - SumOver(MilliOf, HoldersOf(placed, n, i))
  BY NodeSeen
<1>2. MILLI \in Int /\ pod.milli \in Int
  BY ResourceAssumption DEF PodResources
<1>3. \A i : SumOver(MilliOf, HoldersOf(placed, n, i)) \in Nat
  BY SumsOfPods, AtSubsets
<1> HIDE DEF r
<1>4. Fits(r, pod) = Roomy(placed, n, pod)
  BY <1>1, <1>2, <1>3 DEF Fits, Roomy
<1> QED
  BY <1>4 DEF r

\* Finitely many GPUs have room.
LEMMA RoomyFinite ==
  ASSUME NEW at, NEW n \in Nodes, NEW pod
  PROVE  IsFiniteSet(Roomy(at, n, pod))
<1> DEFINE l == Len(NodeRes[n].gpu)
<1>1. l \in Nat /\ DOMAIN NodeRes[n].gpu = 1 .. l
  BY ResourcesTyped
<1> HIDE DEF l
<1>2. IsFiniteSet(1 .. l)
  BY <1>1, FS_Interval
<1>3. Roomy(at, n, pod) \in SUBSET (1 .. l)
  BY <1>1 DEF Roomy
<1> QED
  BY <1>2, <1>3, FS_Subset

\* A cycle with some of its parts replaced.
LEMMA CycleError ==
  ASSUME NEW c, IsCycle(c), NEW d, d = [c EXCEPT !.pc = "error"]
  PROVE  /\ IsCycle(d) /\ d.pc = "error" /\ d.pod = c.pod /\ d.feasible = c.feasible
         /\ d.scores = c.scores /\ d.seen = c.seen
BY DEF IsCycle

LEMMA CycleMade ==
  ASSUME NEW pc, NEW pod, NEW feasible, NEW drawn, NEW scores, NEW seen, NEW host, NEW d,
         d = [pc |-> pc, pod |-> pod, feasible |-> feasible, drawn |-> drawn,
              scores |-> scores, seen |-> seen, host |-> host]
  PROVE  IsCycle(d) /\ d.pc = pc /\ d.scores = scores /\ d.seen = seen
BY DEF IsCycle

LEMMA IdleCycle == IsCycle(Idle) /\ Idle.pc = "idle" /\ Idle.scores = <<>> /\ Idle.seen = <<>>
<1>1. PICK p : p = CHOOSE q \in Pods : TRUE
  OBVIOUS
<1>2. Idle = [pc |-> "idle", pod |-> p, feasible |-> {}, drawn |-> 0,
              scores |-> <<>>, seen |-> <<>>, host |-> 0]
  BY <1>1 DEF Idle
<1> QED
  BY <1>2, CycleMade

\* A pod ends.
LEMMA EndKeepsInv ==
  ASSUME NEW at, NEW sn, NEW c, NEW p \in Pods,
         PlacedWell(at), WithinNodes(at), InCycle(at, sn, c)
  PROVE  LET to == [at EXCEPT ![p] = Nowhere]
         IN PlacedWell(to) /\ WithinNodes(to) /\ InCycle(to, sn, c)
<1> DEFINE to == [at EXCEPT ![p] = Nowhere]
<1>1. /\ to = [q \in Pods |-> to[q]] /\ to[p] = Nowhere
      /\ \A q \in Pods : q # p => to[q] = at[q]
  BY DEF PlacedWell
<1> HIDE DEF to
<1>2. PlacedWell(to)
  BY <1>1 DEF PlacedWell
<1>3. ASSUME NEW n \in Nodes
      PROVE  OnOf(to, n) \subseteq OnOf(at, n) /\ \A i : HoldersOf(to, n, i) \subseteq HoldersOf(at, n, i)
  <2>1. n # 0
    BY CycleAssumption
  <2> QED
    BY <1>1, <2>1 DEF OnOf, HoldersOf, Nowhere
<1>4. ASSUME NEW n \in Nodes
      PROVE  /\ SumOver(CpuOf, OnOf(to, n)) <= SumOver(CpuOf, OnOf(at, n))
             /\ \A i : SumOver(MilliOf, HoldersOf(to, n, i)) <= SumOver(MilliOf, HoldersOf(at, n, i))
  BY <1>3, AtSubsets, SumsOfPods
<1>5. ASSUME NEW a, NEW n, NEW i
      PROVE  SumOver(CpuOf, OnOf(a, n)) \in Int /\ SumOver(MilliOf, HoldersOf(a, n, i)) \in Int
  BY HeldTyped
<1>6. WithinNodes(to)
  BY <1>4, <1>5, ResourcesTyped DEF WithinNodes
<1>7. ASSUME NEW n \in Nodes, NEW q \in Pods, StillFeasible(at, sn, q, n)
      PROVE  StillFeasible(to, sn, q, n)
  <2>1. Roomy(at, n, PodRes[q]) \subseteq Roomy(to, n, PodRes[q])
    BY <1>4, <1>5, ResourcesTyped DEF Roomy
  <2>2. /\ Cardinality(Roomy(at, n, PodRes[q])) <= Cardinality(Roomy(to, n, PodRes[q]))
        /\ Cardinality(Roomy(at, n, PodRes[q])) \in Int /\ Cardinality(Roomy(to, n, PodRes[q])) \in Int
    BY <2>1, RoomyFinite, FS_Subset, FS_CardinalityType
  <2>3. PodRes[q].num \in Int
    BY ResourcesTyped
  <2>4. OnOf(to, n) \subseteq OnOf(at, n)
    BY <1>3
  <2> QED
    BY <1>7, <2>2, <2>3, <2>4 DEF StillFeasible
<1>8. InCycle(to, sn, c)
  BY <1>1, <1>7 DEF InCycle
<1> QED
  BY <1>2, <1>6, <1>8 DEF to

\* A pod is placed where it was found feasible, on GPUs with room.
LEMMA PlaceKeepsInv ==
  ASSUME NEW at, NEW sn, NEW p \in Pods, NEW h \in Nodes, NEW ids,
         PlacedWell(at), WithinNodes(at), at[p] = Nowhere, StillFeasible(at, sn, p, h),
         ids \subseteq Roomy(at, h, PodRes[p]),
         Cardinality(ids) = IF PodRes[p].milli = 0 THEN 0 ELSE PodRes[p].num
  PROVE  LET to == [at EXCEPT ![p] = [node |-> h, ids |-> ids]]
         IN PlacedWell(to) /\ WithinNodes(to)
<1> DEFINE to == [at EXCEPT ![p] = [node |-> h, ids |-> ids]]
<1>1. /\ to = [q \in Pods |-> to[q]] /\ to[p] = [node |-> h, ids |-> ids]
      /\ \A q \in Pods : q # p => to[q] = at[q]
  BY DEF PlacedWell
<1> HIDE DEF to
<1>2. PlacedWell(to)
  <2>1. ids \subseteq DOMAIN NodeRes[h].gpu
    BY DEF Roomy
  <2>2. PodRes[p].milli > 0 => IsNodeAccessibleToPod(NodeRes[h], PodRes[p])
    BY DEF StillFeasible
  <2> QED
    BY <1>1, <2>1, <2>2 DEF PlacedWell
<1>3. /\ p \notin OnOf(at, h) /\ OnOf(to, h) = OnOf(at, h) \cup {p}
      /\ \A i \in ids : HoldersOf(to, h, i) = HoldersOf(at, h, i) \cup {p} /\ p \notin HoldersOf(at, h, i)
      /\ \A i : i \notin ids => HoldersOf(to, h, i) = HoldersOf(at, h, i)
  <2>1. h # 0
    BY CycleAssumption
  <2> QED
    BY <1>1, <2>1 DEF OnOf, HoldersOf, Nowhere
<1>4. ASSUME NEW n \in Nodes, n # h
      PROVE  OnOf(to, n) = OnOf(at, n) /\ \A i : HoldersOf(to, n, i) = HoldersOf(at, n, i)
  <2>1. n # 0
    BY CycleAssumption
  <2> QED
    BY <1>1, <1>4, <2>1 DEF OnOf, HoldersOf, Nowhere
<1>5. SumOver(CpuOf, OnOf(to, h)) <= NodeRes[h].cpu
  <2>1. OnOf(at, h) \in SUBSET sn[h] /\ sn[h] \in SUBSET Pods
    BY DEF StillFeasible
  <2>2. SumOver(CpuOf, OnOf(at, h)) \in Nat /\ SumOver(CpuOf, sn[h]) \in Nat
        /\ SumOver(CpuOf, OnOf(at, h)) <= SumOver(CpuOf, sn[h])
    BY <2>1, SumsOfPods
  <2>3. SumOver(CpuOf, OnOf(at, h) \cup {p}) = SumOver(CpuOf, OnOf(at, h)) + CpuOf[p]
    <3>1. IsFiniteSet(OnOf(at, h)) /\ \A q \in OnOf(at, h) \cup {p} : CpuOf[q] \in Int
      BY <2>1, ResourcesTyped
    <3> QED
      BY <1>3, <3>1, SumAdd
  <2>4. SumOver(CpuOf, sn[h]) + CpuOf[p] <= NodeRes[h].cpu /\ CpuOf[p] \in Int /\ NodeRes[h].cpu \in Int
    BY ResourcesTyped DEF StillFeasible
  <2> QED
    BY <1>3, <2>2, <2>3, <2>4
<1>6. ASSUME NEW i \in DOMAIN NodeRes[h].gpu
      PROVE  SumOver(MilliOf, HoldersOf(to, h, i)) <= MILLI
  <2>1. CASE i \in ids
    <3>1. SumOver(MilliOf, HoldersOf(at, h, i)) + PodRes[p].milli <= MILLI
      BY <2>1 DEF Roomy
    <3>2. IsFiniteSet(HoldersOf(at, h, i)) /\ \A q \in HoldersOf(at, h, i) \cup {p} : MilliOf[q] \in Int
      BY HeldTyped, ResourcesTyped
    <3>3. SumOver(MilliOf, HoldersOf(at, h, i) \cup {p}) = SumOver(MilliOf, HoldersOf(at, h, i)) + MilliOf[p]
      BY <1>3, <2>1, <3>2, SumAdd
    <3> QED
      BY <1>3, <2>1, <3>1, <3>3, ResourcesTyped
  <2>2. CASE i \notin ids
    BY <1>3, <2>2 DEF WithinNodes
  <2> QED
    BY <2>1, <2>2
<1>7. WithinNodes(to)
  BY <1>4, <1>5, <1>6 DEF WithinNodes
<1> QED
  BY <1>2, <1>7 DEF to

LEMMA InitHasInv == Init => CycleInv
<1> SUFFICES ASSUME Init PROVE CycleInv
  OBVIOUS
<1>1. \A p \in Pods : placed[p] = Nowhere /\ placed[p].node = 0
  BY DEF Init, Nowhere
<1>2. PlacedWell(placed)
  BY <1>1 DEF Init, PlacedWell
<1>3. ASSUME NEW n \in Nodes, NEW i PROVE OnOf(placed, n) = {} /\ HoldersOf(placed, n, i) = {}
  <2>1. n # 0
    BY CycleAssumption
  <2> QED
    BY <1>1, <2>1 DEF OnOf, HoldersOf
<1>4. WithinNodes(placed)
  <2>1. SumOver(CpuOf, {}) = 0 /\ SumOver(MilliOf, {}) = 0
    BY SumNothing
  <2>2. ASSUME NEW n \in Nodes, NEW i
        PROVE  SumOver(CpuOf, OnOf(placed, n)) = 0 /\ SumOver(MilliOf, HoldersOf(placed, n, i)) = 0
    <3>1. OnOf(placed, n) = {} /\ HoldersOf(placed, n, i) = {}
      BY <1>3
    <3> QED
      BY <2>1, <3>1
  <2>3. MILLI \in Nat /\ \A n \in Nodes : NodeRes[n].cpu \in Nat
    BY ResourcesTyped
  <2> QED
    BY <2>2, <2>3 DEF WithinNodes
<1>5. InCycle(placed, snap, cycle)
  BY IdleCycle DEF Init, InCycle
<1> QED
  BY <1>2, <1>4, <1>5 DEF Init, CycleInv

\* What a feasible node is found to be when a cycle begins.
LEMMA FeasibleIsFeasible ==
  ASSUME NEW p \in Pods, NEW n \in Nodes, Feasible(p, n)
  PROVE  StillFeasible(placed, Snapshot, p, n)
<1> DEFINE r == GetNodeResource(Snapshot, n)
<1>1. Snapshot[n] = OnOf(placed, n) /\ Snapshot[n] \subseteq Pods
  BY DEF Snapshot, On, OnOf
<1>2. /\ r.cpu = NodeRes[n].cpu - SumOver(CpuOf, Snapshot[n]) /\ r.type = NodeRes[n].type
      /\ Fits(r, PodRes[p]) = Roomy(placed, n, PodRes[p])
  BY <1>1, NodeSeen, FitsSeen, ResourcesTyped
<1>3. /\ r.cpu >= PodRes[p].cpu
      /\ PodRes[p].milli > 0 => /\ IsNodeAccessibleToPod(r, PodRes[p])
                                /\ Cardinality(Fits(r, PodRes[p])) >= PodRes[p].num
  BY DEF Feasible, CanNodeHostPodOnGpuMemory
<1> HIDE DEF r
<1>4. SumOver(CpuOf, Snapshot[n]) + PodRes[p].cpu <= NodeRes[n].cpu
  <2>1. /\ SumOver(CpuOf, Snapshot[n]) \in Int /\ NodeRes[n].cpu \in Int /\ PodRes[p].cpu \in Int
    BY <1>1, SumsOfPods, ResourcesTyped DEF PodResources
  <2> QED
    BY <1>2, <1>3, <2>1
<1>5. PodRes[p].milli > 0 => /\ IsNodeAccessibleToPod(NodeRes[n], PodRes[p])
                            /\ PodRes[p].num <= Cardinality(Roomy(placed, n, PodRes[p]))
  <2>1. Cardinality(Roomy(placed, n, PodRes[p])) \in Int /\ PodRes[p].num \in Int
    BY RoomyFinite, FS_CardinalityType, ResourcesTyped
  <2> QED
    BY <1>2, <1>3, <2>1 DEF IsNodeAccessibleToPod
<1> QED
  BY <1>1, <1>4, <1>5 DEF StillFeasible

\* The GPUs Reserve may place a pod on.
LEMMA ReserveSelects ==
  ASSUME SigmoidIsInt, CycleInv, cycle.pc = "reserve", PodRes[cycle.pod].milli > 0,
         NEW ids \in AllocateGpuIdFunc(policy, GetNodeResource(snap, cycle.host), PodRes[cycle.pod], ready),
         ids # Panic, ids # NoGpus
  PROVE  /\ ids \subseteq Roomy(placed, cycle.host, PodRes[cycle.pod])
         /\ Cardinality(ids) = PodRes[cycle.pod].num
<1> DEFINE pod == PodRes[cycle.pod]
           r   == GetNodeResource(snap, cycle.host)
<1>1. cycle.pod \in Pods /\ cycle.host \in Nodes /\ snap[cycle.host] \subseteq Pods
  BY DEF CycleInv, InCycle, StillFeasible
<1>2. r \in NodeResources /\ Fits(r, pod) = Roomy(placed, cycle.host, pod)
  BY <1>1, NodeSeen, FitsSeen, ResourcesTyped
<1>3. GpuPod(pod)
  BY <1>1, CycleAssumption, ResourcesTyped DEF GpuPod
<1>4. policy \in Policies /\ ready \in BOOLEAN
  BY DEF CycleInv
<1>5. Selection(r, pod, ids)
  <2> HIDE DEF r, pod
  <2>1. ids \in AllocateGpuIdFunc(policy, r, pod, ready)
    BY DEF r, pod
  <2> QED
    BY <1>2, <1>3, <1>4, <2>1, Selects
<1> QED
  BY <1>2, <1>5 DEF Selection

(***************************************************************************)
(* Every step keeps the invariant.                                         *)
(***************************************************************************)
LEMMA StepKeepsInv ==
  ASSUME SigmoidIsInt, CycleInv, [Next]_vars
  PROVE  CycleInv'
<1>0. /\ policy \in Policies /\ ready \in BOOLEAN /\ PlacedWell(placed) /\ WithinNodes(placed)
      /\ InCycle(placed, snap, cycle)
  BY DEF CycleInv
<1>1. ASSUME NEW p \in Pods, Start(p) PROVE CycleInv'
  <2> DEFINE feasible == { n \in Nodes : Feasible(p, n) }
             C(n) == [Idle EXCEPT !.pc = IF Cardinality(feasible) = 1 THEN "reserve" ELSE "score",
                                  !.pod = p, !.feasible = feasible,
                                  !.drawn = IF policy.score = "Random" THEN n ELSE 0,
                                  !.host = IF Cardinality(feasible) = 1 THEN n ELSE 0]
  <2>1. /\ placed[p] = Nowhere /\ snap' = Snapshot
        /\ policy' = policy /\ ready' = ready /\ placed' = placed
    BY <1>1 DEF Start
  <2>2. PICK n \in feasible : cycle' = C(n)
    BY <1>1 DEF Start
  <2>3. /\ C(n).pc = IF Cardinality(feasible) = 1 THEN "reserve" ELSE "score"
        /\ C(n).pod = p /\ C(n).feasible = feasible
        /\ C(n).host = IF Cardinality(feasible) = 1 THEN n ELSE 0
        /\ IsCycle(C(n))
    <3>1. PICK drawn : drawn = IF policy.score = "Random" THEN n ELSE 0
      OBVIOUS
    <3>2. PICK pc, host : /\ pc = IF Cardinality(feasible) = 1 THEN "reserve" ELSE "score"
                          /\ host = IF Cardinality(feasible) = 1 THEN n ELSE 0
      OBVIOUS
    <3> HIDE DEF feasible
    <3>3. PICK d : d = [Idle EXCEPT !.pc = pc, !.pod = p, !.feasible = feasible,
                                    !.drawn = drawn, !.host = host]
      OBVIOUS
    <3>4. C(n) = d
      BY <3>1, <3>2, <3>3
    <3>5. IsCycle(d) /\ d.pc = pc /\ d.pod = p /\ d.feasible = feasible /\ d.host = host
      BY <3>3, IdleCycle DEF IsCycle
    <3> HIDE DEF C
    <3> QED
      BY <3>2, <3>4, <3>5
  <2>4. feasible \subseteq Nodes /\ \A m \in feasible : StillFeasible(placed, Snapshot, p, m)
    BY FeasibleIsFeasible
  <2>5. n \in feasible
    OBVIOUS
  <2> HIDE DEF C, feasible
  <2>6. InCycle(placed, Snapshot, C(n))
    BY <2>1, <2>3, <2>4, <2>5 DEF InCycle
  <2> QED
    BY <1>0, <2>1, <2>2, <2>6 DEF CycleInv
<1>2. ASSUME NEW p \in Pods, PodEnds(p) PROVE CycleInv'
  <2>1. placed' = [placed EXCEPT ![p] = Nowhere] /\ UNCHANGED << policy, ready, snap, cycle >>
    BY <1>2 DEF PodEnds
  <2>2. /\ PlacedWell([placed EXCEPT ![p] = Nowhere]) /\ WithinNodes([placed EXCEPT ![p] = Nowhere])
        /\ InCycle([placed EXCEPT ![p] = Nowhere], snap, cycle)
    BY <1>0, EndKeepsInv
  <2> QED
    BY <1>0, <2>1, <2>2 DEF CycleInv
<1>3. ASSUME NEW n \in Nodes, ScoreNode(n) PROVE CycleInv'
  <2>1. UNCHANGED << policy, ready, placed, snap >> /\ cycle.pc = "score"
    BY <1>3 DEF ScoreNode
  <2>2. PICK pc \in {"error", "score"} :
          \E scores, seen : cycle' = [cycle EXCEPT !.pc = pc, !.scores = scores, !.seen = seen]
    BY <1>3 DEF ScoreNode
  <2>b. PICK d, scores, seen : d = cycle' /\ d = [cycle EXCEPT !.pc = pc, !.scores = scores, !.seen = seen]
    BY <2>2
  <2>a. IsCycle(cycle)
    BY <1>0 DEF InCycle
  <2>3. IsCycle(d) /\ d.pc = pc /\ d.pod = cycle.pod /\ d.feasible = cycle.feasible
    BY <2>a, <2>b DEF IsCycle
  <2>4. InCycle(placed, snap, d)
    BY <1>0, <2>1, <2>3 DEF InCycle
  <2> QED
    BY <1>0, <2>1, <2>2, <2>b, <2>4 DEF CycleInv
<1>4. ASSUME SelectHost PROVE CycleInv'
  <2>1. UNCHANGED << policy, ready, placed, snap >> /\ cycle.pc = "score"
    BY <1>4 DEF SelectHost
  <2>2. PICK n \in cycle.feasible, pc \in {"reserve", "error"} :
          cycle' = [cycle EXCEPT !.pc = pc, !.host = n]
    BY <1>4 DEF SelectHost
  <2>b. PICK d : d = [cycle EXCEPT !.pc = pc, !.host = n]
    OBVIOUS
  <2>a. IsCycle(cycle)
    BY <1>0 DEF InCycle
  <2>3. IsCycle(d) /\ d.pc = pc /\ d.pod = cycle.pod /\ d.feasible = cycle.feasible /\ d.host = n
    BY <2>a, <2>b DEF IsCycle
  <2>4. InCycle(placed, snap, d)
    BY <1>0, <2>1, <2>3 DEF InCycle
  <2> QED
    BY <1>0, <2>1, <2>2, <2>b, <2>4 DEF CycleInv
<1>5. ASSUME Reserve PROVE CycleInv'
  <2> DEFINE pod == PodRes[cycle.pod]
             Choice == IF pod.milli = 0 THEN { NoGpus }
                       ELSE AllocateGpuIdFunc(policy, GetNodeResource(snap, cycle.host), pod, ready)
  <2>1. /\ cycle.pc = "reserve" /\ policy' = policy /\ ready' = ready
        /\ snap' = IF cycle'.pc = "idle" THEN [n \in Nodes |-> {}] ELSE snap
    BY <1>5 DEF Reserve
  <2>2. PICK ids \in Choice :
          IF ids = Panic \/ (pod.milli > 0 /\ ids = NoGpus)
          THEN cycle' = [cycle EXCEPT !.pc = "error"] /\ UNCHANGED placed
          ELSE /\ cycle' = Idle
               /\ placed' = [placed EXCEPT ![cycle.pod] = [node |-> cycle.host, ids |-> ids]]
    BY <1>5 DEF Reserve
  <2>3. /\ cycle.pod \in Pods /\ cycle.host \in Nodes /\ placed[cycle.pod] = Nowhere
        /\ StillFeasible(placed, snap, cycle.pod, cycle.host)
    BY <1>0, <2>1 DEF InCycle
  <2>4. CASE ids = Panic \/ (pod.milli > 0 /\ ids = NoGpus)
    <3>1. cycle' = [cycle EXCEPT !.pc = "error"] /\ placed' = placed
      BY <2>2, <2>4
    <3> DEFINE d == [cycle EXCEPT !.pc = "error"]
    <3>2. IsCycle(d) /\ d.pc = "error" /\ d.pod = cycle.pod /\ d.feasible = cycle.feasible
      BY <1>0, CycleError DEF InCycle
    <3> HIDE DEF d
    <3>3. snap' = snap
      BY <2>1, <3>1, <3>2 DEF d
    <3>4. InCycle(placed, snap, d)
      BY <1>0, <2>1, <3>2 DEF InCycle
    <3> QED
      BY <1>0, <2>1, <3>1, <3>3, <3>4 DEF CycleInv, d
  <2>5. CASE ~(ids = Panic \/ (pod.milli > 0 /\ ids = NoGpus))
    <3>1. cycle' = Idle /\ placed' = [placed EXCEPT ![cycle.pod] = [node |-> cycle.host, ids |-> ids]]
      BY <2>2, <2>5
    <3>2. ids \subseteq Roomy(placed, cycle.host, pod) /\ Cardinality(ids) = IF pod.milli = 0 THEN 0 ELSE pod.num
      <4>1. CASE pod.milli = 0
        <5>1. ids = NoGpus
          BY <4>1
        <5> QED
          BY <4>1, <5>1, FS_EmptySet DEF NoGpus
      <4>2. CASE pod.milli # 0
        <5>1. pod.milli > 0 /\ ids \in AllocateGpuIdFunc(policy, GetNodeResource(snap, cycle.host), pod, ready)
          BY <2>3, <4>2, ResourcesTyped DEF PodResources
        <5>2. ids # Panic /\ ids # NoGpus
          BY <2>5, <5>1
        <5> QED
          BY <2>1, <4>2, <5>1, <5>2, ReserveSelects
      <4> QED
        BY <4>1, <4>2
    <3> HIDE DEF Choice
    <3>3. PlacedWell(placed') /\ WithinNodes(placed')
      BY <1>0, <2>3, <3>1, <3>2, PlaceKeepsInv
    <3>4. \A a, b : InCycle(a, b, Idle)
      BY IdleCycle DEF InCycle
    <3> QED
      BY <1>0, <2>1, <3>1, <3>3, <3>4 DEF CycleInv
  <2> QED
    BY <2>4, <2>5
<1>6. ASSUME BecomeReady PROVE CycleInv'
  BY <1>0, <1>6 DEF BecomeReady, CycleInv
<1>7. ASSUME UNCHANGED vars PROVE CycleInv'
  BY <1>0, <1>7 DEF vars, CycleInv
<1> QED
  BY <1>1, <1>2, <1>3, <1>4, <1>5, <1>6, <1>7 DEF Next

(***************************************************************************)
(* The invariant holds, for every cluster, workload and set of policies,   *)
(* if the sigmoid of a number is a number: every pod is where it fits, no  *)
(* node or GPU is overcommitted, and the nodes the cycle found feasible    *)
(* stay so (NodeResourcesFit and Filter against Reserve).                  *)
(***************************************************************************)
THEOREM CycleInvariant == ASSUME SigmoidIsInt PROVE Spec => []CycleInv
<1>1. Init => CycleInv
  BY InitHasInv
<1>2. CycleInv /\ [Next]_vars => CycleInv'
  BY StepKeepsInv
<1> QED
  BY <1>1, <1>2, PTL DEF Spec

\* What the snapshot shows is on the node.
LEMMA SnapshotIs ==
  ASSUME NEW n \in Nodes
  PROVE  Snapshot[n] = OnOf(placed, n) /\ Snapshot[n] \subseteq Pods
BY DEF Snapshot, On, OnOf

LEMMA InvFits == CycleInv => SelectionFits
<1> SUFFICES ASSUME CycleInv PROVE SelectionFits
  OBVIOUS
<1>1. ASSUME NEW n \in Nodes
      PROVE  LET node == GetNodeResource(Snapshot, n)
             IN node.cpu >= 0 /\ \A i \in DOMAIN node.gpu : node.gpu[i] >= 0
  <2> DEFINE node == GetNodeResource(Snapshot, n)
  <2>1. /\ node.cpu = NodeRes[n].cpu - SumOver(CpuOf, OnOf(placed, n))
        /\ DOMAIN node.gpu = DOMAIN NodeRes[n].gpu
        /\ \A i \in DOMAIN node.gpu : node.gpu[i] = MILLI - SumOver(MilliOf, HoldersOf(placed, n, i))
    BY SnapshotIs, NodeSeen
  <2> HIDE DEF node
  <2>2. /\ SumOver(CpuOf, OnOf(placed, n)) <= NodeRes[n].cpu
        /\ \A i \in DOMAIN NodeRes[n].gpu : SumOver(MilliOf, HoldersOf(placed, n, i)) <= MILLI
    BY DEF CycleInv, WithinNodes
  <2>3. MILLI \in Int /\ NodeRes[n].cpu \in Int /\ SumOver(CpuOf, OnOf(placed, n)) \in Int
    <3>1. SumOver(CpuOf, OnOf(placed, n)) \in Nat
      BY AtSubsets, SumsOfPods
    <3> QED
      BY <3>1, ResourcesTyped
  <2>4. node.cpu >= 0
    BY <2>1, <2>2, <2>3
  <2>5. ASSUME NEW i \in DOMAIN node.gpu PROVE node.gpu[i] >= 0
    <3>1. SumOver(MilliOf, HoldersOf(placed, n, i)) \in Int
      BY HeldTyped
    <3> QED
      BY <2>1, <2>2, <2>3, <3>1
  <2> QED
    BY <2>4, <2>5 DEF node
<1>2. ASSUME NEW p \in Pods, placed[p] # Nowhere
      PROVE  /\ Cardinality(placed[p].ids) = IF PodRes[p].milli = 0 THEN 0 ELSE PodRes[p].num
             /\ placed[p].ids \subseteq DOMAIN NodeRes[placed[p].node].gpu
             /\ PodRes[p].milli > 0 => IsNodeAccessibleToPod(NodeRes[placed[p].node], PodRes[p])
  BY <1>2 DEF CycleInv, PlacedWell
<1> QED
  BY <1>1, <1>2, Zenon DEF SelectionFits

(***************************************************************************)
(* Every GPU pod has as many distinct GPUs as it asked for, on a node of a *)
(* model it accepts, and no GPU has more on it than it holds: whichever of *)
(* the selection methods of Reserve ran (SelectionFits).                   *)
(***************************************************************************)
THEOREM SelectionsFit == ASSUME SigmoidIsInt PROVE Spec => []SelectionFits
BY CycleInvariant, InvFits, PTL

LEMMA AllAccountedFor == FragAccountsForAll
<1>1. ASSUME NEW n \in Nodes
      PROVE  LET node   == GetNodeResource(Snapshot, n)
                 amount == NodeGpuShareFragAmount(node, Frequency)
                 weight == SumFunction([q \in DOMAIN Frequency |-> Frequency[q]])
             IN /\ SumFunction([t \in FragTypes |-> amount[t]]) = weight * GetTotalMilliGpuLeft(node)
                /\ FragAmountSumExceptQ3(amount) = NodeGpuShareFragAmountScoreBasedOnPredict(node, Frequency)
  <2> DEFINE node == GetNodeResource(Snapshot, n)
  <2>1. node.gpu \in Seq(Int)
    BY SnapshotIs, NodeSeen DEF NodeResources
  <2>2. IsFiniteSet(DOMAIN Frequency) /\ \A q \in DOMAIN Frequency : Frequency[q] \in Int
    BY FrequencyAssumption
  <2> HIDE DEF node
  <2>3. LET amount == NodeGpuShareFragAmount(node, Frequency)
            weight == SumFunction([q \in DOMAIN Frequency |-> Frequency[q]])
        IN /\ SumFunction([t \in FragTypes |-> amount[t]]) = weight * GetTotalMilliGpuLeft(node)
           /\ FragAmountSumExceptQ3(amount) = NodeGpuShareFragAmountScoreBasedOnPredict(node, Frequency)
    BY <2>1, <2>2, AmountsAddUp
  <2> QED
    BY <2>3 DEF node
<1> QED
  BY <1>1, Zenon DEF FragAccountsForAll

(***************************************************************************)
(* Every idle milli-GPU is in one of the seven kinds, and the two measures *)
(* of fragmentation are one: NodeGpuShareFragAmount against Predict5 and   *)
(* Predict6 (FragAccountsForAll).                                          *)
(***************************************************************************)
THEOREM FragmentsAccountForAll == Spec => []FragAccountsForAll
BY AllAccountedFor, PTL

\* Score and Reserve of CAFGD, two functions, name the same GPUs.
LEMMA CAFGDAgrees ==
  ASSUME NEW node, NEW pod, pod.num > 0, pod.num \in Nat, NEW full \in BOOLEAN
  PROVE  GetGpuShareFragExtendScore(node, pod, full).ids = PredictGpuShareFragExtendScore(node, pod, full).ids
<1>0. pod.num # 0
  OBVIOUS
<1>1. CASE ~full
  BY <1>1 DEF GetGpuShareFragExtendScore, PredictGpuShareFragExtendScore
<1>2. CASE full /\ IsGpuShare(pod)
  BY <1>0, <1>2 DEF GetGpuShareFragExtendScore, PredictGpuShareFragExtendScore
<1>3. CASE full /\ ~IsGpuShare(pod)
  BY <1>0, <1>3 DEF GetGpuShareFragExtendScore, PredictGpuShareFragExtendScore
<1> QED
  BY <1>1, <1>2, <1>3

LEMMA InvScoredIsSelected == CycleInv => SelectsWhatWasScored
<1> DEFINE node == GetNodeResource(snap, cycle.host)
           pod  == PodRes[cycle.pod]
<1> SUFFICES ASSUME CycleInv, cycle.pc = "reserve", policy.score = policy.select, pod.num > 0,
                    [node |-> node, ready |-> ready] = cycle.seen[cycle.host]
             PROVE  AllocateGpuIdFunc(policy, node, pod, ready)
                      = { ScoredGpus(policy, cycle.seen[cycle.host].node, pod, ready) }
  BY DEF SelectsWhatWasScored
<1>1. cycle.seen[cycle.host].node = node
  <2> HIDE DEF node
  <2>1. [node |-> node, ready |-> ready].node = node
    OBVIOUS
  <2> QED
    BY <2>1
<1>2. policy.score \in Scores /\ policy.select \in Selections
  BY CycleAssumption DEF CycleInv
<1>3. policy.score \in {"DotProduct", "FGD", "FGDPP", "CAFGD"}
  BY <1>2 DEF Scores, Selections
<1>4. pod.num \in Nat /\ ready \in BOOLEAN
  BY ResourcesTyped DEF CycleInv, InCycle
<1> HIDE DEF node, pod
<1>5. AllocateGpuIdFunc(policy, node, pod, ready) = { ScoredGpus(policy, node, pod, ready) }
  <2>1. CASE policy.score = "DotProduct"
    BY <2>1 DEF AllocateGpuIdFunc, ScoredGpus
  <2>2. CASE policy.score = "FGD"
    BY <2>2 DEF AllocateGpuIdFunc, ScoredGpus
  <2>3. CASE policy.score = "FGDPP"
    BY <2>3 DEF AllocateGpuIdFunc, ScoredGpus
  <2>4. CASE policy.score = "CAFGD"
    BY <2>4, <1>4, CAFGDAgrees DEF AllocateGpuIdFunc, ScoredGpus
  <2> QED
    BY <1>3, <2>1, <2>2, <2>3, <2>4
<1> QED
  BY <1>1, <1>5

(***************************************************************************)
(* Reserve selects the GPUs the score was for, unless the node or the      *)
(* window changed in between: AllocateGpuIdFunc against Score of the       *)
(* plugins that do both (SelectsWhatWasScored).                            *)
(***************************************************************************)
THEOREM ScoredIsSelected == ASSUME SigmoidIsInt PROVE Spec => []SelectsWhatWasScored
BY CycleInvariant, InvScoredIsSelected, PTL

-----------------------------------------------------------------------------
(* The best score.                                                         *)

\* Finitely many positions have a largest and a smallest value.
LEMMA Extremes ==
  ASSUME NEW S, IsFiniteSet(S), S # {}, NEW v, \A i \in S : i \in Int /\ v[i] \in Int,
         NEW values, \A y : y \in values <=> \E i \in S : y = v[i]
  PROVE  /\ Max(values) \in Int /\ Min(values) \in Int
         /\ \A i \in S : Min(values) <= v[i] /\ v[i] <= Max(values)
         /\ \E i \in S : v[i] = Max(values)
<1> DEFINE down == [i \in S |-> -v[i]]
<1>1. PICK hi \in S : \A j \in S : v[j] < v[hi] \/ (v[j] = v[hi] /\ hi <= j)
  BY FirstBestFound
<1>2. PICK lo \in S : \A j \in S : down[j] < down[lo] \/ (down[j] = down[lo] /\ lo <= j)
  <2>1. \A i \in S : i \in Int /\ down[i] \in Int
    OBVIOUS
  <2> HIDE DEF down
  <2> QED
    BY <2>1, FirstBestFound
<1>3. Max(values) \in values /\ \A y \in values : Max(values) >= y
  <2>1. v[hi] \in values /\ \A y \in values : v[hi] >= y
    BY <1>1
  <2> QED
    BY <2>1 DEF Max
<1>4. Min(values) \in values /\ \A y \in values : Min(values) <= y
  <2>1. v[lo] \in values /\ \A y \in values : v[lo] <= y
    BY <1>2
  <2> QED
    BY <2>1 DEF Min
<1>5. \A i \in S : v[i] \in values
  OBVIOUS
<1>6. \A y \in values : y \in Int /\ \E i \in S : v[i] = y
  OBVIOUS
<1>7. \A i \in S : Min(values) <= v[i] /\ v[i] <= Max(values)
  BY <1>3, <1>4, <1>5, <1>6
<1> QED
  BY <1>3, <1>4, <1>6, <1>7

\* Rescaling keeps apart what was best and what was not.
LEMMA NormalizeKeepsBest ==
  ASSUME NEW scores, IsFiniteSet(DOMAIN scores), NEW n \in DOMAIN scores,
         \A m \in DOMAIN scores : m \in Int /\ scores[m] \in Int,
         \A m \in DOMAIN scores : NormalizeScore(scores)[m] <= NormalizeScore(scores)[n]
  PROVE  \A m \in DOMAIN scores : scores[m] <= scores[n]
<1> DEFINE S      == DOMAIN scores
           values == { scores[m] : m \in S }
           lo     == Min(values)
           hi     == Max(values)
           range  == hi - lo
           Scaled(x) == ((x - lo) * 100) \div range
<1>1. /\ hi \in Int /\ lo \in Int /\ \A m \in S : lo <= scores[m] /\ scores[m] <= hi
      /\ \E m \in S : scores[m] = hi
  <2>1. IsFiniteSet(S) /\ S # {} /\ \A m \in S : m \in Int /\ scores[m] \in Int
    OBVIOUS
  <2>2. PICK v : v = values
    OBVIOUS
  <2>3. /\ Max(v) \in Int /\ Min(v) \in Int /\ \A m \in S : Min(v) <= scores[m] /\ scores[m] <= Max(v)
        /\ \E m \in S : scores[m] = Max(v)
    <3>1. \A y : y \in v <=> \E m \in S : y = scores[m]
      BY <2>2
    <3> HIDE DEF S
    <3> QED
      BY <2>1, <3>1, Extremes
  <2> QED
    BY <2>2, <2>3
<1>2. \A m \in S : NormalizeScore(scores)[m] = IF range = 0 THEN MinNodeScore ELSE Scaled(scores[m])
  BY DEF NormalizeScore
<1> HIDE DEF lo, hi
<1>3. CASE range = 0
  BY <1>1, <1>3
<1>4. CASE range # 0
  <2> DEFINE x == (scores[n] - lo) * 100
             d == x \div range
  <2>1. PICK b \in S : scores[b] = hi
    BY <1>1
  <2>2. range \in Nat \ {0} /\ x \in Int
    BY <1>1, <1>4
  <2>3. Scaled(hi) = 100
    <3>1. (hi - lo) * 100 \in Int /\ 100 * range <= (hi - lo) * 100 /\ (hi - lo) * 100 < (100 + 1) * range
      BY <1>1, <2>2
    <3> QED
      BY <2>2, <3>1, Quotient
  <2>4. d \in Int /\ d * range <= x
    <3> HIDE DEF x, range
    <3> QED
      BY <2>2
  <2>5. 100 <= d
    <3>1. NormalizeScore(scores)[b] = Scaled(hi) /\ NormalizeScore(scores)[n] = d
      BY <1>2, <1>4, <2>1
    <3> HIDE DEF d, Scaled
    <3> QED
      BY <2>1, <2>3, <3>1
  <2>6. 100 * range <= d * range
    <3> HIDE DEF d, range
    <3>1. range \in Nat /\ d - 100 \in Nat
      BY <2>2, <2>4, <2>5
    <3>2. (d - 100) * range >= 0
      BY <3>1
    <3> QED
      BY <2>4, <3>1, <3>2
  <2>7. 100 * range <= x
    <3> HIDE DEF d, x, range
    <3>1. d * range \in Int /\ 100 * range \in Int
      BY <2>2, <2>4
    <3> QED
      BY <2>2, <2>4, <2>6, <3>1
  <2> HIDE DEF d
  <2>8. hi <= scores[n]
    BY <1>1, <2>7
  <2> QED
    BY <1>1, <2>8
<1> QED
  BY <1>3, <1>4

\* So does giving all to the first best.
LEMMA ToOneKeepsBest ==
  ASSUME NEW scores, IsFiniteSet(DOMAIN scores), NEW n \in DOMAIN scores,
         \A m \in DOMAIN scores : m \in Int /\ scores[m] \in Int,
         \A m \in DOMAIN scores : NormalizeToOne(scores)[m] <= NormalizeToOne(scores)[n]
  PROVE  \A m \in DOMAIN scores : scores[m] <= scores[n]
<1> DEFINE S     == DOMAIN scores
           first == CHOOSE i \in S : \A j \in S :
                      scores[j] < scores[i] \/ (scores[j] = scores[i] /\ i <= j)
<1>1. \A m \in S : NormalizeToOne(scores)[m] = IF m = first THEN 100 ELSE 1
  BY DEF NormalizeToOne, FirstBest
<1>2. first \in S /\ \A j \in S : scores[j] < scores[first] \/ (scores[j] = scores[first] /\ first <= j)
  BY FirstBestFound
<1> HIDE DEF first
<1>3. n = first
  BY <1>1, <1>2
<1> QED
  BY <1>2, <1>3

\* The policies whose scores are rescaled.
Rescaled == { "BestFit", "Simon", "CAFGD", "FGDPP" }

LEMMA BestStaysBest ==
  ASSUME NEW scores, IsFiniteSet(DOMAIN scores), NEW n \in DOMAIN scores, NEW pl,
         \A m \in DOMAIN scores : m \in Int,
         pl.score \in Rescaled => \A m \in DOMAIN scores : scores[m] \in Int,
         \A m \in DOMAIN scores : ScoreExtensions(pl, scores)[m] <= ScoreExtensions(pl, scores)[n]
  PROVE  \A m \in DOMAIN scores : scores[m] <= scores[n]
<1>1. CASE pl.score \in {"BestFit", "Simon"}
  <2>1. ScoreExtensions(pl, scores) = NormalizeScore(scores)
    BY <1>1 DEF ScoreExtensions
  <2> QED
    BY <1>1, <2>1, NormalizeKeepsBest DEF Rescaled
<1>2. CASE pl.score \in {"CAFGD", "FGDPP"}
  <2>1. ScoreExtensions(pl, scores) = NormalizeToOne(scores)
    BY <1>2 DEF ScoreExtensions
  <2> QED
    BY <1>2, <2>1, ToOneKeepsBest DEF Rescaled
<1>3. CASE pl.score \notin {"BestFit", "Simon", "CAFGD", "FGDPP"}
  BY <1>3 DEF ScoreExtensions
<1> QED
  BY <1>1, <1>2, <1>3

\* The scores that are rescaled are numbers.
LEMMA RescaledAreInt ==
  ASSUME SigmoidIsInt, NEW pl, pl.score \in Rescaled, NEW node \in NodeResources,
         NEW pod \in PodResources, pod.cpu <= node.cap, NEW tags, NEW full \in BOOLEAN, NEW drawn
  PROVE  Score(pl, node, pod, tags, full, drawn) \in Int
<1>0. Failed \in Int
  BY DEF Failed
<1>1. CASE pl.score = "BestFit"
  <2>1. GetBestFitScore(node, pod, 1) \in Int
    BY BestFitScoreInt
  <2> QED
    BY <1>0, <1>1, <2>1 DEF Score, BestFitScore, OnModel
<1>2. CASE pl.score = "Simon"
  <2> DEFINE rest == node.cap - pod.cpu
             x    == 200 * pod.cpu + rest
             y    == 2 * rest
  <2>1. rest \in Nat /\ pod.cpu \in Int /\ x \in Int
    BY DEF NodeResources, PodResources
  <2>2. SimonScore(node, pod) = IF rest = 0 THEN 100 ELSE x \div y
    BY DEF SimonScore
  <2>3. rest # 0 => x \div y \in Int
    <3> SUFFICES ASSUME rest # 0 PROVE x \div y \in Int
      OBVIOUS
    <3>1. y \in Nat \ {0}
      BY <2>1
    <3> HIDE DEF x, y
    <3> QED
      BY <2>1, <3>1
  <2>4. SimonScore(node, pod) \in Int
    <3> HIDE DEF x, y, rest
    <3> QED
      BY <2>2, <2>3
  <2> QED
    BY <1>2, <2>4 DEF Score
<1>3. CASE pl.score = "FGDPP"
  <2>1. CalculateGpuShareFragExtendScorePP(node, pod, full).score \in Int
    BY FGDPPSelects
  <2> QED
    BY <1>0, <1>3, <2>1 DEF Score, FGDPPScore, OnModel
<1>4. CASE pl.score = "CAFGD"
  <2>1. GetGpuShareFragExtendScore(node, pod, full).score \in Int
    BY CAFGDScores
  <2> QED
    BY <1>0, <1>4, <2>1 DEF Score, CAFGDScore, OnModel
<1> QED
  BY <1>1, <1>2, <1>3, <1>4 DEF Rescaled

\* What a step does to the cycle.
LEMMA CycleSteps ==
  ASSUME CycleInv, [Next]_vars
  PROVE  \/ cycle' = cycle /\ policy' = policy
         \/ cycle'.scores = <<>> /\ cycle'.seen = <<>> /\ policy' = policy
         \/ cycle'.pc = "error" /\ policy' = policy
         \/ \E n \in cycle.feasible :
              /\ ScoreNode(n)
              /\ cycle'.pc = "score" /\ cycle'.pod = cycle.pod /\ cycle'.feasible = cycle.feasible
         \/ /\ SelectHost
            /\ cycle'.pc = "reserve" /\ cycle'.scores = cycle.scores /\ cycle'.host \in cycle.feasible
            /\ \A m \in cycle.feasible :
                 ScoreExtensions(policy, cycle.scores)[m] <= ScoreExtensions(policy, cycle.scores)[cycle'.host]
<1>0. IsCycle(cycle)
  BY DEF CycleInv, InCycle
<1>1. ASSUME NEW p \in Pods, Start(p) PROVE cycle'.scores = <<>> /\ cycle'.seen = <<>> /\ policy' = policy
  <2> DEFINE feasible == { n \in Nodes : Feasible(p, n) }
  <2>1. PICK n \in feasible :
          cycle' = [Idle EXCEPT !.pc = IF Cardinality(feasible) = 1 THEN "reserve" ELSE "score",
                                !.pod = p, !.feasible = feasible,
                                !.drawn = IF policy.score = "Random" THEN n ELSE 0,
                                !.host = IF Cardinality(feasible) = 1 THEN n ELSE 0]
    BY <1>1 DEF Start
  <2>2. PICK pc, drawn, host : /\ pc = IF Cardinality(feasible) = 1 THEN "reserve" ELSE "score"
                               /\ drawn = IF policy.score = "Random" THEN n ELSE 0
                               /\ host = IF Cardinality(feasible) = 1 THEN n ELSE 0
    OBVIOUS
  <2> HIDE DEF feasible
  <2>3. PICK d : d = [Idle EXCEPT !.pc = pc, !.pod = p, !.feasible = feasible, !.drawn = drawn, !.host = host]
    OBVIOUS
  <2>4. cycle' = d
    BY <2>1, <2>2, <2>3
  <2>5. d.scores = <<>> /\ d.seen = <<>>
    BY <2>3, IdleCycle DEF IsCycle
  <2> QED
    BY <1>1, <2>4, <2>5 DEF Start
<1>2. ASSUME NEW p \in Pods, PodEnds(p) PROVE cycle' = cycle /\ policy' = policy
  BY <1>2 DEF PodEnds
<1>3. ASSUME NEW n \in Nodes, ScoreNode(n)
      PROVE  \/ cycle'.pc = "error" /\ policy' = policy
             \/ /\ n \in cycle.feasible
                /\ cycle'.pc = "score" /\ cycle'.pod = cycle.pod /\ cycle'.feasible = cycle.feasible
  <2>1. PICK pc \in {"error", "score"} :
          \E scores, seen : cycle' = [cycle EXCEPT !.pc = pc, !.scores = scores, !.seen = seen]
    BY <1>3 DEF ScoreNode
  <2>2. PICK d, scores, seen : d = cycle' /\ d = [cycle EXCEPT !.pc = pc, !.scores = scores, !.seen = seen]
    BY <2>1
  <2>3. d.pc = pc /\ d.pod = cycle.pod /\ d.feasible = cycle.feasible
    BY <1>0, <2>2 DEF IsCycle
  <2>4. n \in cycle.feasible /\ policy' = policy
    BY <1>3 DEF ScoreNode
  <2> QED
    BY <2>1, <2>2, <2>3, <2>4
<1>4. ASSUME SelectHost
      PROVE  \/ cycle'.pc = "error" /\ policy' = policy
             \/ /\ cycle'.pc = "reserve" /\ cycle'.scores = cycle.scores /\ cycle'.host \in cycle.feasible
                /\ \A m \in cycle.feasible :
                     ScoreExtensions(policy, cycle.scores)[m]
                       <= ScoreExtensions(policy, cycle.scores)[cycle'.host]
  <2>1. PICK n \in cycle.feasible, pc \in {"reserve", "error"} :
          /\ \A m \in cycle.feasible :
               ScoreExtensions(policy, cycle.scores)[m] <= ScoreExtensions(policy, cycle.scores)[n]
          /\ cycle' = [cycle EXCEPT !.pc = pc, !.host = n]
    BY <1>4 DEF SelectHost
  <2>2. PICK d : d = [cycle EXCEPT !.pc = pc, !.host = n]
    OBVIOUS
  <2>3. d.pc = pc /\ d.scores = cycle.scores /\ d.host = n
    BY <1>0, <2>2 DEF IsCycle
  <2>4. policy' = policy
    BY <1>4 DEF SelectHost
  <2> QED
    BY <2>1, <2>2, <2>3, <2>4
<1>5. ASSUME Reserve
      PROVE  policy' = policy /\ (cycle'.pc = "error" \/ (cycle'.scores = <<>> /\ cycle'.seen = <<>>))
  <2>1. policy' = policy /\ (cycle' = [cycle EXCEPT !.pc = "error"] \/ cycle' = Idle)
    BY <1>5 DEF Reserve
  <2>2. PICK d : d = [cycle EXCEPT !.pc = "error"]
    OBVIOUS
  <2>3. d.pc = "error"
    BY <1>0, <2>2 DEF IsCycle
  <2> QED
    BY <2>1, <2>2, <2>3, IdleCycle
<1>6. ASSUME BecomeReady \/ UNCHANGED vars PROVE cycle' = cycle /\ policy' = policy
  BY <1>6 DEF BecomeReady, vars
<1> QED
  BY <1>1, <1>2, <1>3, <1>4, <1>5, <1>6 DEF Next

\* The nodes scored so far are feasible ones; and the host is a best one.
ScoreInv ==
  /\ cycle.pc = "score" =>
       /\ DOMAIN cycle.scores \subseteq cycle.feasible
       /\ policy.score \in Rescaled => \A m \in DOMAIN cycle.scores : cycle.scores[m] \in Int
  /\ HostScoredBest

\* The node of a cycle while it is scored.
LEMMA NodeScored ==
  ASSUME CycleInv, NEW n \in cycle.feasible, cycle.pc # "idle"
  PROVE  LET node == GetNodeResource(snap, n)
         IN /\ n \in Nodes /\ cycle.pod \in Pods /\ PodRes[cycle.pod] \in PodResources
            /\ StillFeasible(placed, snap, cycle.pod, n)
            /\ node \in NodeResources /\ PodRes[cycle.pod].cpu <= node.cap
            /\ node.type = NodeRes[n].type
            /\ Fits(node, PodRes[cycle.pod]) = Roomy(placed, n, PodRes[cycle.pod])
<1> DEFINE node == GetNodeResource(snap, n)
<1>1. /\ n \in Nodes /\ cycle.pod \in Pods /\ PodRes[cycle.pod] \in PodResources
      /\ StillFeasible(placed, snap, cycle.pod, n) /\ snap[n] \subseteq Pods
  BY ResourcesTyped DEF CycleInv, InCycle, StillFeasible
<1>2. node \in NodeResources /\ node.cap = NodeRes[n].cap /\ node.type = NodeRes[n].type
  BY <1>1, NodeSeen
<1>3. Fits(node, PodRes[cycle.pod]) = Roomy(placed, n, PodRes[cycle.pod])
  BY <1>1, FitsSeen
<1> HIDE DEF node
<1>4. PodRes[cycle.pod].cpu <= node.cap
  <2>1. SumOver(CpuOf, snap[n]) \in Nat
    BY <1>1, SumsOfPods
  <2>2. SumOver(CpuOf, snap[n]) + PodRes[cycle.pod].cpu <= NodeRes[n].cap
    BY <1>1, CycleAssumption DEF StillFeasible
  <2>3. PodRes[cycle.pod].cpu \in Nat /\ NodeRes[n].cap \in Nat
    BY <1>1, CycleAssumption DEF PodResources
  <2> QED
    BY <1>2, <2>1, <2>2, <2>3
<1> QED
  BY <1>1, <1>2, <1>3, <1>4 DEF node

\* What scoring a node enters.
LEMMA NodeEntered ==
  ASSUME CycleInv, NEW n, ScoreNode(n)
  PROVE  /\ cycle.pc = "score" /\ n \in cycle.feasible \ DOMAIN cycle.scores /\ policy' = policy
         /\ DOMAIN cycle'.scores = DOMAIN cycle.scores \cup {n}
         /\ DOMAIN cycle'.seen = DOMAIN cycle.seen \cup {n}
         /\ \A m \in DOMAIN cycle.scores : cycle'.scores[m] = cycle.scores[m]
         /\ \A m \in DOMAIN cycle.seen \ {n} : cycle'.seen[m] = cycle.seen[m]
         /\ cycle'.seen[n].node = GetNodeResource(snap, n)
         /\ cycle'.scores[n] = Score(policy, GetNodeResource(snap, n), PodRes[cycle.pod],
                                     GpuAffinity({ PodRes[q] : q \in snap[n] }), ready, cycle.drawn = n)
<1> DEFINE node  == GetNodeResource(snap, n)
           score == Score(policy, node, PodRes[cycle.pod], GpuAffinity({ PodRes[q] : q \in snap[n] }),
                          ready, cycle.drawn = n)
           S     == Put(cycle.scores, n, score)
           V     == Put(cycle.seen, n, [node |-> node, ready |-> ready])
<1>1. IsCycle(cycle)
  BY DEF CycleInv, InCycle
<1>2. /\ cycle.pc = "score" /\ n \in cycle.feasible \ DOMAIN cycle.scores /\ policy' = policy
      /\ cycle' = [cycle EXCEPT !.pc = IF score = Failed /\ policy.score \notin {"CAFGD", "FGDPP"}
                                       THEN "error" ELSE "score",
                                !.scores = S, !.seen = V]
  BY DEF ScoreNode, IsCycle
<1> HIDE DEF S, V, score
<1>3. cycle'.scores = S /\ cycle'.seen = V
  <2>1. PICK pc : pc = IF score = Failed /\ policy.score \notin {"CAFGD", "FGDPP"} THEN "error" ELSE "score"
    OBVIOUS
  <2>2. PICK d : d = [cycle EXCEPT !.pc = pc, !.scores = S, !.seen = V]
    OBVIOUS
  <2>3. cycle' = d
    BY <1>2, <2>1, <2>2
  <2>4. d.scores = S /\ d.seen = V
    BY <1>1, <2>2 DEF IsCycle
  <2> QED
    BY <2>3, <2>4
<1>4. /\ DOMAIN S = DOMAIN cycle.scores \cup {n} /\ S[n] = score
      /\ \A m \in DOMAIN cycle.scores \ {n} : S[m] = cycle.scores[m]
  BY DEF S, Put
<1>5. /\ DOMAIN V = DOMAIN cycle.seen \cup {n} /\ V[n] = [node |-> node, ready |-> ready]
      /\ \A m \in DOMAIN cycle.seen \ {n} : V[m] = cycle.seen[m]
  BY DEF V, Put
<1>6. V[n].node = node
  <2> HIDE DEF node
  <2> QED
    BY <1>5
<1> HIDE DEF score, node
<1> QED
  BY <1>2, <1>3, <1>4, <1>5, <1>6 DEF score, node

LEMMA ScoreStep == ASSUME SigmoidIsInt, CycleInv, ScoreInv, [Next]_vars PROVE ScoreInv'
<1>1. CASE cycle' = cycle /\ policy' = policy
  BY <1>1 DEF ScoreInv, HostScoredBest
<1>2. CASE cycle'.scores = <<>> /\ policy' = policy
  <2>1. DOMAIN cycle'.scores = {}
    BY <1>2
  <2> QED
    BY <2>1 DEF ScoreInv, HostScoredBest
<1>3. CASE cycle'.pc = "error" /\ policy' = policy
  BY <1>3 DEF ScoreInv, HostScoredBest
<1>4. ASSUME NEW n \in cycle.feasible, ScoreNode(n), cycle'.pc = "score", cycle'.feasible = cycle.feasible
      PROVE  ScoreInv'
  <2> DEFINE node == GetNodeResource(snap, n)
             tags == GpuAffinity({ PodRes[q] : q \in snap[n] })
  <2>1. /\ cycle.pc = "score" /\ n \in cycle.feasible /\ policy' = policy
        /\ DOMAIN cycle'.scores = DOMAIN cycle.scores \cup {n}
        /\ \A m \in DOMAIN cycle.scores : cycle'.scores[m] = cycle.scores[m]
        /\ cycle'.scores[n] = Score(policy, node, PodRes[cycle.pod], tags, ready, cycle.drawn = n)
    BY <1>4, NodeEntered
  <2>2. DOMAIN cycle'.scores \subseteq cycle'.feasible
    BY <1>4, <2>1 DEF ScoreInv
  <2>3. ASSUME policy.score \in Rescaled PROVE cycle'.scores[n] \in Int
    <3>1. node \in NodeResources /\ PodRes[cycle.pod] \in PodResources /\ PodRes[cycle.pod].cpu <= node.cap
      BY <2>1, NodeScored
    <3>2. ready \in BOOLEAN
      BY DEF CycleInv
    <3> HIDE DEF node, tags
    <3> QED
      BY <2>1, <2>3, <3>1, <3>2, RescaledAreInt
  <2>4. policy'.score \in Rescaled => \A m \in DOMAIN cycle'.scores : cycle'.scores[m] \in Int
    BY <2>1, <2>3 DEF ScoreInv
  <2> QED
    BY <1>4, <2>2, <2>4 DEF ScoreInv, HostScoredBest
<1>5. ASSUME SelectHost, cycle'.pc = "reserve", cycle'.scores = cycle.scores, cycle'.host \in cycle.feasible,
             \A m \in cycle.feasible :
               ScoreExtensions(policy, cycle.scores)[m] <= ScoreExtensions(policy, cycle.scores)[cycle'.host]
      PROVE  ScoreInv'
  <2>1. cycle.pc = "score" /\ DOMAIN cycle.scores = cycle.feasible
    BY <1>5 DEF SelectHost
  <2>2. cycle.feasible \in SUBSET Nodes /\ IsFiniteSet(Nodes) /\ Nodes \subseteq Int
    BY <2>1, CycleAssumption DEF CycleInv, InCycle
  <2>3. IsFiniteSet(cycle.feasible)
    BY <2>2, FS_Subset
  <2>4. policy.score \in Rescaled => \A m \in DOMAIN cycle.scores : cycle.scores[m] \in Int
    BY <2>1 DEF ScoreInv
  <2>5. \A m \in DOMAIN cycle.scores : cycle.scores[m] <= cycle.scores[cycle'.host]
    BY <1>5, <2>1, <2>2, <2>3, <2>4, BestStaysBest
  <2> QED
    BY <1>5, <2>5 DEF ScoreInv, HostScoredBest
<1> QED
  BY <1>1, <1>2, <1>3, <1>4, <1>5, CycleSteps

(***************************************************************************)
(* The chosen node is one that scored highest before normalisation, for    *)
(* every policy: neither NormalizeScore merges the best score with the     *)
(* next one or turns the order round (HostScoredBest).                     *)
(***************************************************************************)
THEOREM BestScoreWins == ASSUME SigmoidIsInt PROVE Spec => []HostScoredBest
<1>1. Init => ScoreInv
  BY IdleCycle DEF Init, ScoreInv, HostScoredBest
<1>2. CycleInv /\ ScoreInv /\ [Next]_vars => ScoreInv'
  BY ScoreStep
<1>3. Spec => []CycleInv
  BY CycleInvariant
<1>4. ScoreInv => HostScoredBest
  BY DEF ScoreInv
<1> QED
  BY <1>1, <1>2, <1>3, <1>4, PTL DEF Spec

-----------------------------------------------------------------------------
(* Packing.                                                                *)

\* What a score of each band may be.
InBand(b, s) ==
  /\ b \in 1 .. 3 /\ s \in Int
  /\ b = 3 => 0 <= s /\ s < 33
  /\ b = 2 => 33 <= s /\ s < 50
  /\ b = 1 => 50 <= s

\* Above this the scores of idle nodes reach those of used ones; Flatten has
\* room for eight.
FewGpus == \A n \in Nodes : Len(NodeRes[n].gpu) <= 32

LEMMA MaxOfTwo ==
  ASSUME NEW a \in Int, NEW b \in Int
  PROVE  Max({a, b}) = IF a >= b THEN a ELSE b
BY DEF Max

\* As many GPUs as the pod asks for are used if as many have room.
LEMMA TightestSuffice ==
  ASSUME NEW node \in NodeResources, NEW pod \in PodResources, pod.num <= Cardinality(Fits(node, pod))
  PROVE  /\ TightestFits(node, pod) \subseteq Fits(node, pod) /\ IsFiniteSet(TightestFits(node, pod))
         /\ Cardinality(TightestFits(node, pod)) = pod.num
<1> DEFINE fits == Fits(node, pod)
           Before(i, j) == node.gpu[i] < node.gpu[j] \/ (node.gpu[i] = node.gpu[j] /\ i < j)
           R    == { u \in fits \X fits : Before(u[1], u[2]) }
           T    == { i \in fits : Cardinality(Below(R, fits, i)) < pod.num }
<1>1. fits \in SUBSET Int /\ IsFiniteSet(fits) /\ \A i \in fits : node.gpu[i] \in Int
  BY FitsFinite
<1>2. pod.num \in Nat
  BY DEF PodResources
<1>3. IsOrder(R, fits)
  <2> HIDE DEF fits
  <2>1. \A i, j \in fits : << i, j >> \in R <=> Before(i, j)
    OBVIOUS
  <2> HIDE DEF R
  <2>2. ASSUME NEW i \in fits, NEW j \in fits, NEW k \in fits
        PROVE  /\ ~Before(i, i) /\ (Before(i, j) /\ Before(j, k) => Before(i, k))
               /\ i # j => Before(i, j) \/ Before(j, i)
    <3>1. i \in Int /\ j \in Int /\ k \in Int /\ node.gpu[i] \in Int /\ node.gpu[j] \in Int /\ node.gpu[k] \in Int
      BY <1>1
    <3> QED
      BY <3>1
  <2> HIDE DEF Before
  <2> QED
    BY <2>1, <2>2 DEF IsOrder
<1>4. \A i \in fits : Below(R, fits, i) = { j \in fits : Before(j, i) }
  BY DEF Below
<1>5. TightestFits(node, pod) = T
  BY <1>4 DEF TightestFits
<1>6. IsFiniteSet(T) /\ Cardinality(T) = IF pod.num <= Cardinality(fits) THEN pod.num ELSE Cardinality(fits)
  <2> HIDE DEF fits, R
  <2> QED
    BY <1>1, <1>2, <1>3, FirstOfOrder
<1> QED
  BY <1>5, <1>6

\* The score of packing is in the band of the node.
LEMMA PackingInBand ==
  ASSUME NEW node \in NodeResources, NEW pod \in PodResources, pod.num > 0,
         pod.num <= Cardinality(Fits(node, pod)), Len(node.gpu) <= 32
  PROVE  /\ InBand(Band(node, pod), GetPackingScore(node, pod))
         /\ (\A i \in DOMAIN node.gpu : node.gpu[i] >= 0) => GetPackingScore(node, pod) <= 100
<1> DEFINE free  == GetFullyFreeGpuNum(node)
           len   == Len(node.gpu)
           use   == GpuToUse(node, pod)
           idle  == Cardinality(use \cap FullyFree(node))
           part  == [i \in use |-> (node.gpu[i] * 100) \div MILLI]
           share == SumFunction(part)
           score == GetPackingScore(node, pod)
<1>1. node.gpu \in Seq(Int) /\ len \in Nat /\ DOMAIN node.gpu = 1 .. len /\ MILLI \in Nat \ {0} /\ pod.num \in Nat
  BY ResourceAssumption DEF NodeResources, PodResources
<1>2. use \subseteq Fits(node, pod) /\ IsFiniteSet(use) /\ Cardinality(use) = pod.num
  BY TightestSuffice DEF GpuToUse
<1>3. use \subseteq DOMAIN node.gpu
  BY <1>2 DEF Fits
<1>4. len # 0
  <2>1. CASE len = 0
    <3>1. use = {}
      BY <1>1, <1>3, <2>1
    <3> HIDE DEF use
    <3>2. Cardinality(use) = 0
      BY <3>1, FS_EmptySet
    <3> QED
      BY <1>1, <1>2, <3>2
  <2> QED
    BY <2>1
<1>5. free \in Nat
  <2>1. IsFiniteSet(DOMAIN node.gpu) /\ FullyFree(node) \in SUBSET DOMAIN node.gpu
    BY <1>1, LeftIsInt DEF FullyFree
  <2>2. IsFiniteSet(FullyFree(node))
    BY <2>1, FS_Subset
  <2> QED
    BY <2>2, FS_CardinalityType DEF GetFullyFreeGpuNum
<1>6. idle \in Nat /\ (idle > 0 <=> \E i \in use : node.gpu[i] = MILLI)
  <2> DEFINE both == use \cap FullyFree(node)
  <2>1. both \in SUBSET use
    OBVIOUS
  <2>2. both # {} <=> \E i \in use : node.gpu[i] = MILLI
    BY <1>3 DEF FullyFree
  <2>3. IsFiniteSet(both)
    <3> HIDE DEF use, both
    <3> QED
      BY <1>2, <2>1, FS_Subset
  <2>4. Cardinality(both) \in Nat /\ (Cardinality(both) = 0 <=> both = {})
    <3> HIDE DEF both
    <3> QED
      BY <2>3, FS_CardinalityType, FS_EmptySet
  <2> HIDE DEF both, use
  <2>5. idle = Cardinality(both)
    BY DEF both
  <2> HIDE DEF idle
  <2> QED
    BY <2>2, <2>4, <2>5
<1>7. share \in Int /\ ((\A i \in DOMAIN node.gpu : node.gpu[i] >= 0) => share >= 0)
  <2>1. share = SumOver(part, use)
    BY SumOfFunction
  <2>2. \A i \in use : part[i] \in Int
    BY <1>1, <1>3
  <2>3. SumOver(part, use) \in Int
    <3> HIDE DEF part, use
    <3> QED
      BY <1>2, <2>2, SumInt
  <2>4. ASSUME \A i \in DOMAIN node.gpu : node.gpu[i] >= 0
        PROVE  SumOver(part, use) >= 0
    <3>1. ASSUME NEW i \in use PROVE part[i] \in Nat
      <4>1. node.gpu[i] * 100 \in Nat /\ part[i] = (node.gpu[i] * 100) \div MILLI
        BY <1>1, <1>3, <2>4
      <4> HIDE DEF part, use
      <4>2. (node.gpu[i] * 100) \div MILLI \in Nat
        <5> DEFINE g == node.gpu[i] * 100
        <5> HIDE DEF g
        <5>1. g \in Nat
          BY <4>1 DEF g
        <5>2. g \div MILLI \in Nat
          BY <1>1, <5>1
        <5> QED
          BY <5>2 DEF g
      <4> QED
        BY <4>1, <4>2
    <3> HIDE DEF part, use
    <3> QED
      BY <1>2, <3>1, SumNat
  <2> QED
    BY <2>1, <2>3, <2>4
<1>8. score = CASE free = len -> Max({ 33 - free, free })
                [] free # len /\ Cardinality(use) < pod.num -> Failed
                [] free # len /\ Cardinality(use) = pod.num /\ idle > 0 -> Max({ 50 - idle, 33 })
                [] OTHER -> Max({ 100 - share \div 10, 50 })
  BY DEF GetPackingScore
<1>9. Band(node, pod) = CASE free = len -> 3
                          [] (\E i \in use : node.gpu[i] = MILLI /\ free # len) -> 2
                          [] OTHER -> 1
  BY DEF Band
<1> HIDE DEF free, len, use, idle, share, score
<1>10. CASE free = len
  <2>1. score = Max({ 33 - free, free }) /\ Band(node, pod) = 3
    BY <1>8, <1>9, <1>10
  <2>2. free <= 32 /\ 1 <= free
    BY <1>1, <1>4, <1>5, <1>10 DEF len
  <2> QED
    BY <1>5, <2>1, <2>2, MaxOfTwo DEF InBand, score
<1>11. CASE free # len /\ idle > 0
  <2>1. score = Max({ 50 - idle, 33 })
    BY <1>1, <1>2, <1>8, <1>11
  <2>2. Band(node, pod) = 2
    BY <1>6, <1>9, <1>11
  <2> QED
    BY <1>6, <1>11, <2>1, <2>2, MaxOfTwo DEF InBand, score
<1>12. CASE free # len /\ ~(idle > 0)
  <2>1. score = Max({ 100 - share \div 10, 50 })
    BY <1>1, <1>2, <1>8, <1>12
  <2>2. Band(node, pod) = 1
    BY <1>6, <1>9, <1>12
  <2>3. /\ 100 - share \div 10 \in Int
        /\ (\A i \in DOMAIN node.gpu : node.gpu[i] >= 0) => 100 - share \div 10 <= 100
    BY <1>7
  <2> QED
    BY <2>1, <2>2, <2>3, MaxOfTwo DEF InBand, score
<1> QED
  BY <1>10, <1>11, <1>12

\* Every score entered so far is in its node's band.
InTheirBands(pl, c) ==
  c.pc = "score" /\ pl.score = "GpuPacking" /\ PodRes[c.pod].milli > 0 =>
    \A m \in DOMAIN c.scores :
      /\ m \in DOMAIN c.seen
      /\ InBand(Band(c.seen[m].node, PodRes[c.pod]), c.scores[m])

BandInv == InTheirBands(policy, cycle)

LEMMA BandStep == ASSUME FewGpus, CycleInv, BandInv, [Next]_vars PROVE BandInv'
<1>1. CASE cycle' = cycle /\ policy' = policy
  BY <1>1 DEF BandInv
<1>2. CASE cycle'.scores = <<>>
  <2>1. DOMAIN cycle'.scores = {}
    BY <1>2
  <2> QED
    BY <2>1 DEF BandInv, InTheirBands
<1>3. CASE cycle'.pc \in {"error", "reserve"}
  BY <1>3 DEF BandInv, InTheirBands
<1>4. ASSUME NEW n \in cycle.feasible, ScoreNode(n), cycle'.pod = cycle.pod
      PROVE  BandInv'
  <2> DEFINE node == GetNodeResource(snap, n)
             pod  == PodRes[cycle.pod]
             tags == GpuAffinity({ PodRes[q] : q \in snap[n] })
  <2>1. /\ cycle.pc = "score" /\ n \notin DOMAIN cycle.scores /\ policy' = policy
        /\ DOMAIN cycle'.scores = DOMAIN cycle.scores \cup {n}
        /\ DOMAIN cycle'.seen = DOMAIN cycle.seen \cup {n}
        /\ \A m \in DOMAIN cycle.scores : cycle'.scores[m] = cycle.scores[m]
        /\ \A m \in DOMAIN cycle.seen \ {n} : cycle'.seen[m] = cycle.seen[m]
        /\ cycle'.seen[n].node = node
        /\ cycle'.scores[n] = Score(policy, node, pod, tags, ready, cycle.drawn = n)
    BY <1>4, NodeEntered
  <2>2. ASSUME policy.score = "GpuPacking", pod.milli > 0
        PROVE  InBand(Band(node, pod), cycle'.scores[n])
    <3>1. /\ n \in Nodes /\ cycle.pod \in Pods /\ pod \in PodResources /\ node \in NodeResources
          /\ StillFeasible(placed, snap, cycle.pod, n) /\ node.type = NodeRes[n].type
          /\ Fits(node, pod) = Roomy(placed, n, pod)
      BY <2>1, NodeScored
    <3>2. Len(node.gpu) <= 32
      BY <3>1, NodeSeen DEF StillFeasible, FewGpus
    <3>3. IsNodeAccessibleToPod(node, pod) /\ pod.num <= Cardinality(Fits(node, pod)) /\ pod.num > 0
      BY <2>2, <3>1, CycleAssumption DEF StillFeasible, IsNodeAccessibleToPod
    <3>4. pod.milli \in Int
      BY <3>1, ResourceAssumption DEF PodResources
    <3> HIDE DEF node, pod, tags
    <3>5. cycle'.scores[n] = GetPackingScore(node, pod)
      BY <2>1, <2>2, <3>3, <3>4 DEF Score, GpuPackingScore, OnModel
    <3> QED
      BY <3>1, <3>2, <3>3, <3>5, PackingInBand
  <2> HIDE DEF node
  <2>3. ASSUME policy.score = "GpuPacking", pod.milli > 0, NEW m \in DOMAIN cycle'.scores
        PROVE  m \in DOMAIN cycle'.seen /\ InBand(Band(cycle'.seen[m].node, pod), cycle'.scores[m])
    <3>1. CASE m = n
      BY <2>1, <2>2, <2>3, <3>1
    <3>2. CASE m # n
      BY <2>1, <2>3, <3>2 DEF BandInv, InTheirBands
    <3> QED
      BY <3>1, <3>2
  <2> QED
    <3> HIDE DEF tags
    <3>1. InTheirBands(policy', cycle')
      BY <1>4, <2>1, <2>3 DEF InTheirBands
    <3> QED
      BY <3>1 DEF BandInv
<1> QED
  BY <1>1, <1>2, <1>3, <1>4, CycleSteps

(***************************************************************************)
(* Packing puts every node on which the pod fits beside others above those *)
(* where it starts a GPU, and those above the idle ones, if no node has    *)
(* more than 32 GPUs: getPackingScore (PackingPrefersUsed).                *)
(***************************************************************************)
THEOREM PackingPrefers == ASSUME SigmoidIsInt, FewGpus PROVE Spec => []PackingPrefersUsed
<1>1. Init => BandInv
  BY IdleCycle DEF Init, BandInv, InTheirBands
<1>2. CycleInv /\ BandInv /\ [Next]_vars => BandInv'
  BY BandStep
<1>3. Spec => []CycleInv
  BY CycleInvariant
<1>4. BandInv => PackingPrefersUsed
  BY DEF BandInv, InTheirBands, InBand, PackingPrefersUsed
<1> QED
  BY <1>1, <1>2, <1>3, <1>4, PTL DEF Spec

-----------------------------------------------------------------------------
(***************************************************************************)
(* No cycle fails.                                                         *)
(***************************************************************************)
\* What the largest machine of the scores is for.
WithinSpec ==
  \A n \in Nodes : NodeRes[n].cap <= MaxSpecCpu /\ Len(NodeRes[n].gpu) * MILLI <= MaxSpecGpu

\* A node that passed the filters, as a score plugin sees it.
Hosts(node, pod) ==
  /\ node \in NodeResources /\ pod \in PodResources
  /\ pod.cpu <= node.cpu /\ node.cpu <= MaxSpecCpu /\ pod.cpu <= node.cap
  /\ \A i \in DOMAIN node.gpu : node.gpu[i] \in 0 .. MILLI
  /\ Len(node.gpu) <= 32 /\ Len(node.gpu) * MILLI <= MaxSpecGpu
  /\ IsNodeAccessibleToPod(node, pod)
  /\ pod.milli > 0 => pod.num > 0 /\ pod.num <= Cardinality(Fits(node, pod))

\* What is left of its GPUs: no more than all of them, and enough for the pod.
LEMMA LeftBounds ==
  ASSUME NEW node, NEW pod, Hosts(node, pod)
  PROVE  /\ GetTotalMilliGpuLeft(node) \in 0 .. MaxSpecGpu
         /\ TotalMilliGpu(pod) \in 0 .. GetTotalMilliGpuLeft(node)
<1> DEFINE gpu  == node.gpu
           D    == DOMAIN gpu
           F    == Fits(node, pod)
           all  == [i \in D |-> MILLI]
           part == [i \in D |-> pod.milli]
<1>1. /\ gpu \in Seq(Int) /\ MILLI \in Nat \ {0} /\ pod.milli \in Nat /\ pod.num \in Nat
      /\ \A i \in D : gpu[i] \in 0 .. MILLI
  BY ResourceAssumption DEF Hosts, NodeResources, PodResources
<1>2. D = 1 .. Len(gpu) /\ Len(gpu) \in Nat /\ IsFiniteSet(D)
  BY <1>1, LeftIsInt
<1>3. \A i \in D : gpu[i] \in Nat /\ gpu[i] <= MILLI
  BY <1>1
<1>4. Cardinality(D) = Len(gpu)
  <2> DEFINE len == Len(gpu)
  <2> HIDE DEF D, gpu, len
  <2>1. Cardinality(1 .. len) = IF 1 > len THEN 0 ELSE len - 1 + 1
    BY <1>2, FS_Interval DEF len
  <2>2. Cardinality(D) = Cardinality(1 .. len) /\ len \in Nat
    BY <1>2, Zenon DEF len
  <2>3. Cardinality(D) = len
    BY <2>1, <2>2
  <2> QED
    BY <2>3 DEF len
<1>5. F \in SUBSET D /\ \A i \in F : pod.milli <= gpu[i]
  BY <1>1 DEF Fits
<1>6. IsFiniteSet(F) /\ Cardinality(F) \in Nat
  <2> HIDE DEF F, D
  <2> QED
    BY <1>2, <1>5, FS_Subset, FS_CardinalityType
<1>7. SumOver(gpu, D) \in Nat /\ SumOver(gpu, F) <= SumOver(gpu, D) /\ SumOver(gpu, F) \in Nat
  <2> HIDE DEF D, F, gpu
  <2>1. SumOver(gpu, D) \in Nat /\ SumOver(gpu, F) <= SumOver(gpu, D)
    BY <1>2, <1>3, <1>5, SumNat
  <2>2. \A i \in F : gpu[i] \in Nat
    BY <1>3, <1>5
  <2> QED
    BY <1>6, <2>1, <2>2, SumNat
<1>8. SumOver(gpu, D) <= MILLI * Len(gpu)
  <2>1. \A i \in D : all[i] = MILLI
    OBVIOUS
  <2> HIDE DEF all, D, gpu
  <2>2. SumOver(all, D) = MILLI * Len(gpu)
    <3>1. MILLI \in Int
      BY <1>1
    <3>2. SumOver(all, D) = MILLI * Cardinality(D)
      BY <1>2, <2>1, <3>1, SumConstant
    <3> QED
      BY <1>4, <3>2
  <2>3. SumOver(gpu, D) <= SumOver(all, D)
    BY <1>1, <1>2, <1>3, <2>1, SumMonotone
  <2> QED
    BY <2>2, <2>3
<1>9. pod.milli * Cardinality(F) <= SumOver(gpu, F)
  <2>1. \A i \in F : part[i] = pod.milli
    BY <1>5
  <2> HIDE DEF part, D, F, gpu
  <2>2. SumOver(part, F) = pod.milli * Cardinality(F)
    BY <1>1, <1>6, <2>1, SumConstant
  <2>3. \A i \in F : part[i] \in Int /\ gpu[i] \in Int /\ part[i] <= gpu[i]
    BY <1>1, <1>3, <1>5, <2>1
  <2>4. SumOver(part, F) <= SumOver(gpu, F)
    BY <1>6, <2>3, SumMonotone
  <2> QED
    BY <2>2, <2>4
<1>10. GetTotalMilliGpuLeft(node) = SumOver(gpu, D)
  BY LeftIsSum
<1>11. SumOver(gpu, D) <= MaxSpecGpu
  <2>1. Len(gpu) * MILLI <= MaxSpecGpu
    BY DEF Hosts
  <2>2. Len(gpu) * MILLI = MILLI * Len(gpu)
    BY <1>1, <1>2
  <2>3. MaxSpecGpu \in Int /\ MILLI * Len(gpu) \in Int
    BY <1>1, <1>2, SpecAssumption
  <2> HIDE DEF D, gpu
  <2> QED
    BY <1>7, <1>8, <2>1, <2>2, <2>3
<1>12. pod.milli * pod.num \in Nat /\ pod.milli * pod.num <= SumOver(gpu, D)
  <2>1. CASE pod.milli = 0
    <3> HIDE DEF D, gpu
    <3> QED
      BY <1>1, <1>7, <2>1
  <2>2. CASE pod.milli > 0
    <3>1. pod.num <= Cardinality(F)
      BY <2>2 DEF Hosts
    <3> HIDE DEF D, F, gpu
    <3>2. pod.milli * pod.num <= pod.milli * Cardinality(F)
      BY <1>1, <1>6, <3>1
    <3>3. pod.milli * pod.num \in Nat /\ pod.milli * Cardinality(F) \in Nat
      BY <1>1, <1>6
    <3> QED
      BY <1>7, <1>9, <3>2, <3>3
  <2> QED
    BY <1>1, <2>1, <2>2
<1> HIDE DEF D, gpu
<1> QED
  BY <1>7, <1>10, <1>11, <1>12, SpecAssumption DEF TotalMilliGpu

\* Best fit does not fail, and is no negative number.
LEMMA BestFitFits ==
  ASSUME NEW node, NEW pod, Hosts(node, pod)
  PROVE  GetBestFitScore(node, pod, 1) \in Nat
<1> DEFINE cpu == node.cpu - pod.cpu
           gpu == GetTotalMilliGpuLeft(node) - TotalMilliGpu(pod)
           x   == MaxNodeScore * 1 * (2 * MaxSpecCpu * MaxSpecGpu - cpu * MaxSpecGpu - gpu * MaxSpecCpu)
           y   == 2 * MaxSpecCpu * MaxSpecGpu
<1>1. cpu \in 0 .. MaxSpecCpu
  BY SpecAssumption DEF Hosts, NodeResources, PodResources
<1>2. gpu \in 0 .. MaxSpecGpu
  BY LeftBounds, SpecAssumption
<1>3. GetBestFitScore(node, pod, 1) = x \div y
  <2>1. ~(cpu < 0 \/ gpu < 0)
    BY <1>1, <1>2, SpecAssumption
  <2> QED
    BY <2>1 DEF GetBestFitScore
<1> HIDE DEF cpu, gpu
<1>4. MaxSpecCpu \in Nat \ {0} /\ MaxSpecGpu \in Nat \ {0}
  BY SpecAssumption
<1>5. cpu * MaxSpecGpu <= MaxSpecCpu * MaxSpecGpu /\ gpu * MaxSpecCpu <= MaxSpecGpu * MaxSpecCpu
  BY <1>1, <1>2, <1>4
<1>6. x \in Nat /\ y \in Nat \ {0}
  <2> DEFINE a == cpu * MaxSpecGpu
             b == gpu * MaxSpecCpu
             c == MaxSpecCpu * MaxSpecGpu
  <2>1. a \in Int /\ b \in Int /\ c \in Nat \ {0} /\ a <= c /\ b <= c
    <3>1. MaxSpecGpu * MaxSpecCpu = MaxSpecCpu * MaxSpecGpu
      BY <1>4
    <3> QED
      BY <1>1, <1>2, <1>4, <1>5, <3>1
  <2>2. y = 2 * c /\ 2 * MaxSpecCpu * MaxSpecGpu = 2 * c
    BY <1>4
  <2>3. x = 100 * (2 * c - a - b)
    BY <2>2 DEF MaxNodeScore
  <2> HIDE DEF a, b, c, x, y
  <2> QED
    BY <2>1, <2>2, <2>3
<1>7. x \div y \in Nat
  <2> HIDE DEF x, y
  <2> QED
    BY <1>6
<1> QED
  BY <1>3, <1>7

\* Clustering gives a percentage.
LEMMA ClusteringInRange ==
  ASSUME NEW node, NEW pod, Hosts(node, pod), NEW tags
  PROVE  GpuClusteringScore(node, pod, tags) \in 0 .. 100
<1> DEFINE left == GetTotalMilliGpuLeft(node)
           x    == 25 * (MaxSpecGpu - left)
           used == x \div MaxSpecGpu
<1>1. left \in 0 .. MaxSpecGpu /\ MaxSpecGpu \in Nat \ {0} /\ pod.num \in Nat
  BY LeftBounds, SpecAssumption DEF Hosts, PodResources
<1> HIDE DEF left
<1>2. x \in Nat /\ x <= 25 * MaxSpecGpu
  BY <1>1
<1>3. used \in 0 .. 25
  <2> HIDE DEF x
  <2>1. used \in Int
    BY <1>1, <1>2
  <2>2. 0 <= used
    BY <1>1, <1>2
  <2>3. used <= 25
    <3>1. used * MaxSpecGpu <= x
      BY <1>1, <1>2
    <3> HIDE DEF used
    <3>2. used * MaxSpecGpu <= 25 * MaxSpecGpu
      BY <1>1, <1>2, <2>1, <3>1
    <3> QED
      BY <1>1, <2>1, <3>2
  <2> QED
    BY <2>1, <2>2, <2>3
<1> HIDE DEF x, used
<1>4. GpuClusteringScore(node, pod, tags) \in { 0, used + 75, used + 50, used + 25, used + 0 }
  <2>1. CASE pod.num = 0
    BY <2>1 DEF GpuClusteringScore, MinNodeScore
  <2>2. CASE pod.num > 0 /\ GetGpuAffinityFromPodAnnotation(pod) \in tags
    BY <1>1, <2>2 DEF GpuClusteringScore, used, x, left
  <2>3. CASE pod.num > 0 /\ GetGpuAffinityFromPodAnnotation(pod) \notin tags
    BY <1>1, <2>3 DEF GpuClusteringScore, used, x, left
  <2> QED
    BY <1>1, <2>1, <2>2, <2>3
<1> QED
  BY <1>3, <1>4

\* And so does packing.
LEMMA PackingInRange ==
  ASSUME NEW node, NEW pod, Hosts(node, pod), pod.milli > 0
  PROVE  GetPackingScore(node, pod) \in 0 .. 100
<1>1. /\ node \in NodeResources /\ pod \in PodResources /\ pod.num > 0
      /\ pod.num <= Cardinality(Fits(node, pod)) /\ Len(node.gpu) <= 32
      /\ \A i \in DOMAIN node.gpu : node.gpu[i] >= 0
  BY ResourceAssumption DEF Hosts
<1>2. InBand(Band(node, pod), GetPackingScore(node, pod)) /\ GetPackingScore(node, pod) <= 100
  BY <1>1, PackingInBand
<1> QED
  BY <1>2 DEF InBand

\* What a plugin other than the dot product answers for such a node: no error,
\* and a percentage if the scores are not rescaled.
LEMMA ScoresWell ==
  ASSUME SigmoidRange, NEW node, NEW pod, Hosts(node, pod), NEW pl, pl.score \in Scores,
         pl.score # "DotProduct", NEW tags, NEW full, NEW drawn
  PROVE  /\ pl.score \notin {"CAFGD", "FGDPP"} => Score(pl, node, pod, tags, full, drawn) # Failed
         /\ pl.score \notin Rescaled => Score(pl, node, pod, tags, full, drawn) \in 0 .. 100
<1>0. /\ IsNodeAccessibleToPod(node, pod) /\ node \in NodeResources /\ pod \in PodResources
      /\ \A x \in Nat : x # Failed
  BY DEF Hosts, Failed
<1>1. CASE pl.score = "Random"
  BY <1>1 DEF Score, RandomScore, MinNodeScore, MaxNodeScore, Failed
<1>2. CASE pl.score = "BestFit"
  <2>1. GetBestFitScore(node, pod, 1) \in Nat
    BY BestFitFits
  <2> QED
    BY <1>0, <1>2, <2>1 DEF Score, BestFitScore, OnModel, Rescaled
<1>3. CASE pl.score = "GpuPacking"
  <2>1. CASE pod.milli <= 0
    BY <1>3, <2>1 DEF Score, GpuPackingScore, MinNodeScore, Failed
  <2>2. CASE ~(pod.milli <= 0)
    <3>1. pod.milli > 0
      BY <1>0, <2>2, ResourceAssumption DEF PodResources
    <3>2. GetPackingScore(node, pod) \in 0 .. 100
      BY <3>1, PackingInRange
    <3>3. Score(pl, node, pod, tags, full, drawn) = GetPackingScore(node, pod)
      BY <1>0, <1>3, <2>2 DEF Score, GpuPackingScore, OnModel
    <3> QED
      BY <3>2, <3>3 DEF Failed
  <2> QED
    BY <2>1, <2>2
<1>4. CASE pl.score = "GpuClustering"
  <2>1. GpuClusteringScore(node, pod, tags) \in 0 .. 100
    BY ClusteringInRange
  <2>2. Score(pl, node, pod, tags, full, drawn) = GpuClusteringScore(node, pod, tags)
    BY <1>4 DEF Score
  <2> QED
    BY <2>1, <2>2 DEF Failed
<1>5. CASE pl.score = "Simon"
  <2> DEFINE rest == node.cap - pod.cpu
             x    == 200 * pod.cpu + rest
             y    == 2 * rest
  <2>1. rest \in Nat /\ x \in Nat
    BY DEF Hosts, NodeResources, PodResources
  <2>2. SimonScore(node, pod) = IF rest = 0 THEN 100 ELSE x \div y
    BY DEF SimonScore
  <2>3. rest # 0 => x \div y \in Nat
    <3> SUFFICES ASSUME rest # 0 PROVE x \div y \in Nat
      OBVIOUS
    <3>1. y \in Nat \ {0}
      BY <2>1
    <3> HIDE DEF x, y
    <3> QED
      BY <2>1, <3>1
  <2>4. SimonScore(node, pod) \in Nat
    <3> HIDE DEF x, y, rest
    <3> QED
      BY <2>2, <2>3
  <2> QED
    BY <1>0, <1>5, <2>4 DEF Score, Rescaled
<1>6. CASE pl.score = "FGD"
  <2>1. CalculateGpuShareFragExtendScore(node, pod).score \in 0 .. 100
    BY <1>0, SigmoidInt, FGDSelects
  <2>2. Score(pl, node, pod, tags, full, drawn) = CalculateGpuShareFragExtendScore(node, pod).score
    BY <1>0, <1>6 DEF Score, FGDScore, OnModel
  <2> QED
    BY <2>1, <2>2 DEF Failed
<1>7. CASE pl.score \in {"CAFGD", "FGDPP"}
  BY <1>7 DEF Rescaled
<1> QED
  BY <1>1, <1>2, <1>3, <1>4, <1>5, <1>6, <1>7 DEF Scores

\* Rescaled numbers are in the range the framework admits.
LEMMA NormalizedInRange ==
  ASSUME NEW scores, IsFiniteSet(DOMAIN scores), NEW n \in DOMAIN scores,
         \A m \in DOMAIN scores : m \in Int /\ scores[m] \in Int
  PROVE  NormalizeScore(scores)[n] \in 0 .. 100
<1> DEFINE S      == DOMAIN scores
           values == { scores[m] : m \in S }
           hi     == Max(values)
           lo     == Min(values)
           x      == (scores[n] - lo) * 100
           range  == hi - lo
<1>1. hi \in Int /\ lo \in Int /\ scores[n] \in Int /\ lo <= scores[n] /\ scores[n] <= hi
  <2>1. S # {} /\ \A y : y \in values <=> \E i \in S : y = scores[i]
    OBVIOUS
  <2> HIDE DEF values
  <2> QED
    BY <2>1, Extremes
<1>2. NormalizeScore(scores)[n] = IF range = 0 THEN MinNodeScore ELSE x \div range
  BY DEF NormalizeScore
<1> HIDE DEF hi, lo
<1>3. range \in Nat /\ x \in Nat /\ x <= 100 * range
  BY <1>1
<1>4. range # 0 => x \div range \in 0 .. 100
  <2> HIDE DEF x, range
  <2> SUFFICES ASSUME range # 0 PROVE x \div range \in 0 .. 100
    OBVIOUS
  <2> DEFINE q == x \div range
  <2>1. q \in Int /\ 0 <= q /\ q * range <= x
    BY <1>3
  <2> HIDE DEF q
  <2>2. q * range <= 100 * range
    BY <1>3, <2>1
  <2>3. q <= 100
    BY <1>3, <2>1, <2>2
  <2> QED
    BY <2>1, <2>3 DEF q
<1> HIDE DEF x, range
<1> QED
  BY <1>2, <1>4 DEF MinNodeScore

LEMMA FinalInRange ==
  ASSUME NEW pl, NEW scores, IsFiniteSet(DOMAIN scores), NEW n \in DOMAIN scores,
         \A m \in DOMAIN scores : m \in Int,
         pl.score \in Rescaled => \A m \in DOMAIN scores : scores[m] \in Int,
         pl.score \notin Rescaled => scores[n] \in 0 .. 100
  PROVE  ScoreExtensions(pl, scores)[n] \in MinNodeScore .. MaxNodeScore
<1>1. CASE pl.score \in {"BestFit", "Simon"}
  <2>1. NormalizeScore(scores)[n] \in 0 .. 100
    BY <1>1, NormalizedInRange DEF Rescaled
  <2> QED
    BY <1>1, <2>1 DEF ScoreExtensions, MinNodeScore, MaxNodeScore
<1>2. CASE pl.score \in {"CAFGD", "FGDPP"}
  <2>1. NormalizeToOne(scores)[n] \in {1, 100}
    BY DEF NormalizeToOne, FirstBest
  <2> QED
    BY <1>2, <2>1 DEF ScoreExtensions, MinNodeScore, MaxNodeScore
<1>3. CASE pl.score \notin Rescaled
  BY <1>3 DEF ScoreExtensions, Rescaled, MinNodeScore, MaxNodeScore
<1> QED
  BY <1>1, <1>2, <1>3 DEF Rescaled

(***************************************************************************)
(* Of the pods: one without GPUs names no model of GPU, for the plugins    *)
(* that look at the model once more refuse it where Filter does not.       *)
(***************************************************************************)
NoModelWithoutGpu == \A p \in Pods : PodRes[p].milli = 0 => PodRes[p].type = {}

\* Of the policies: the dot product may find no GPUs at all ("merge").
NoDotProduct == \A pl \in Policies : pl.score # "DotProduct" /\ pl.select # "DotProduct"

LEMMA HostSeen ==
  ASSUME CycleInv, WithinSpec, FewGpus, NoModelWithoutGpu, NEW n \in cycle.feasible, cycle.pc # "idle"
  PROVE  Hosts(GetNodeResource(snap, n), PodRes[cycle.pod])
<1> DEFINE node == GetNodeResource(snap, n)
           pod  == PodRes[cycle.pod]
<1>1. /\ n \in Nodes /\ cycle.pod \in Pods /\ pod \in PodResources /\ node \in NodeResources
      /\ StillFeasible(placed, snap, cycle.pod, n) /\ snap[n] \subseteq Pods
      /\ pod.cpu <= node.cap /\ node.type = NodeRes[n].type
      /\ Fits(node, pod) = Roomy(placed, n, pod)
  BY NodeScored DEF StillFeasible
<1>2. /\ node.cap = NodeRes[n].cap /\ node.cpu = NodeRes[n].cpu - SumOver(CpuOf, snap[n])
      /\ DOMAIN node.gpu = DOMAIN NodeRes[n].gpu /\ Len(node.gpu) = Len(NodeRes[n].gpu)
      /\ \A i \in DOMAIN node.gpu : node.gpu[i] = MILLI - SumOver(MilliOf, HoldersOf(placed, n, i))
  BY <1>1, NodeSeen
<1>3. /\ NodeRes[n].cpu \in Nat /\ NodeRes[n].cpu = NodeRes[n].cap /\ NodeRes[n].cap <= MaxSpecCpu
      /\ SumOver(CpuOf, snap[n]) \in Nat /\ pod.cpu \in Nat /\ MaxSpecCpu \in Nat
  BY <1>1, CycleAssumption, SpecAssumption, SumsOfPods DEF WithinSpec, PodResources
<1>4. pod.cpu <= node.cpu /\ node.cpu <= MaxSpecCpu
  <2>1. SumOver(CpuOf, snap[n]) + pod.cpu <= NodeRes[n].cpu
    BY <1>1 DEF StillFeasible
  <2> HIDE DEF node, pod
  <2> QED
    BY <1>2, <1>3, <2>1
<1>5. ASSUME NEW i \in DOMAIN node.gpu PROVE node.gpu[i] \in 0 .. MILLI
  <2>1. SumOver(MilliOf, HoldersOf(placed, n, i)) \in Nat
    BY HeldTyped
  <2>2. SumOver(MilliOf, HoldersOf(placed, n, i)) <= MILLI
    BY <1>1, <1>2 DEF CycleInv, WithinNodes
  <2> HIDE DEF node
  <2> QED
    BY <1>2, <2>1, <2>2, ResourceAssumption
<1>6. Len(node.gpu) <= 32 /\ Len(node.gpu) * MILLI <= MaxSpecGpu
  BY <1>1, <1>2 DEF FewGpus, WithinSpec
<1>7. IsNodeAccessibleToPod(node, pod)
  <2>1. pod.milli > 0 \/ pod.milli = 0
    BY <1>1, ResourceAssumption DEF PodResources
  <2> QED
    BY <1>1, <2>1 DEF StillFeasible, NoModelWithoutGpu, IsNodeAccessibleToPod
<1>8. pod.milli > 0 => pod.num > 0 /\ pod.num <= Cardinality(Fits(node, pod))
  BY <1>1, CycleAssumption DEF StillFeasible
<1> HIDE DEF node, pod
<1>9. Hosts(node, pod)
  BY <1>1, <1>4, <1>5, <1>6, <1>7, <1>8 DEF Hosts
<1> QED
  BY <1>9 DEF node, pod

\* Reserve finds GPUs there.
LEMMA FindsGpus ==
  ASSUME SigmoidRange, NEW pl \in Policies, pl.select # "DotProduct", NEW node, NEW pod,
         Hosts(node, pod), GpuPod(pod), NEW full \in BOOLEAN, NEW ids \in AllocateGpuIdFunc(pl, node, pod, full)
  PROVE  ids # NoGpus /\ ids # Panic
<1>0. pl.select \in Selections /\ node \in NodeResources /\ pod \in PodResources /\ SigmoidIsInt
  BY CycleAssumption, SigmoidInt DEF Hosts
<1>1. HasRoom(node, pod)
  BY ResourceAssumption DEF Hosts, HasRoom, GpuPod
<1>2. Answers(node, pod, ids)
  <2>1. CASE pl.select = "FGD"
    BY <1>0, <2>1, FGDSelects DEF AllocateGpuIdFunc
  <2>2. CASE pl.select = "FGDPP"
    BY <1>0, <2>2, FGDPPSelects DEF AllocateGpuIdFunc
  <2>3. CASE pl.select = "CAFGD"
    BY <1>0, <2>3, CAFGDSelects DEF AllocateGpuIdFunc
  <2>4. CASE pl.select \in {"best", "worst", "random"}
    <3>1. ids \in AllocateByRoom(pl.select, node, pod)
      BY <2>4 DEF AllocateGpuIdFunc
    <3> QED
      BY <1>0, <2>4, <3>1, RoomSelects
  <2> QED
    BY <1>0, <2>1, <2>2, <2>3, <2>4 DEF Selections
<1> QED
  BY <1>1, <1>2 DEF Answers

(***************************************************************************)
(* What keeps a cycle from failing: the scores entered so far are in the   *)
(* range, but for those that are rescaled first.                           *)
(***************************************************************************)
InRange(pl, c) ==
  c.pc = "score" /\ pl.score \notin Rescaled =>
    \A m \in DOMAIN c.scores : c.scores[m] \in 0 .. 100

SuccessInv == CycleSucceeds /\ InRange(policy, cycle)

LEMMA SuccessStep ==
  ASSUME SigmoidRange, WithinSpec, FewGpus, NoModelWithoutGpu, NoDotProduct,
         CycleInv, ScoreInv, SuccessInv, [Next]_vars
  PROVE  SuccessInv'
<1>0. policy \in Policies /\ ready \in BOOLEAN /\ policy.score # "DotProduct" /\ policy.select # "DotProduct"
      /\ IsCycle(cycle) /\ policy.score \in Scores
  BY CycleAssumption DEF CycleInv, InCycle, NoDotProduct
<1>1. ASSUME NEW n \in Nodes, ScoreNode(n)
      PROVE  /\ cycle'.pc # "error"
             /\ policy.score \notin Rescaled => cycle'.scores[n] \in 0 .. 100
  <2> DEFINE node  == GetNodeResource(snap, n)
             pod   == PodRes[cycle.pod]
             tags  == GpuAffinity({ PodRes[q] : q \in snap[n] })
             score == Score(policy, node, pod, tags, ready, cycle.drawn = n)
  <2>1. cycle.pc = "score" /\ n \in cycle.feasible /\ cycle'.scores[n] = score
    BY <1>1, NodeEntered
  <2>2. Hosts(node, pod)
    BY <2>1, HostSeen
  <2>3. /\ policy.score \notin {"CAFGD", "FGDPP"} => score # Failed
        /\ policy.score \notin Rescaled => score \in 0 .. 100
    <3> HIDE DEF node, pod, tags
    <3> QED
      BY <1>0, <2>2, ScoresWell
  <2>4. PICK pc : /\ pc = IF score = Failed /\ policy.score \notin {"CAFGD", "FGDPP"} THEN "error" ELSE "score"
                  /\ \E s, v : cycle' = [cycle EXCEPT !.pc = pc, !.scores = s, !.seen = v]
    BY <1>1 DEF ScoreNode
  <2> HIDE DEF score
  <2>5. pc # "error"
    BY <2>3, <2>4
  <2>6. PICK d, s, v : d = cycle' /\ d = [cycle EXCEPT !.pc = pc, !.scores = s, !.seen = v]
    BY <2>4
  <2>7. d.pc = pc
    BY <1>0, <2>6 DEF IsCycle
  <2> QED
    BY <2>1, <2>3, <2>5, <2>6, <2>7
<1>2. ASSUME SelectHost PROVE cycle'.pc # "error"
  <2> DEFINE final == ScoreExtensions(policy, cycle.scores)
  <2>1. cycle.pc = "score" /\ DOMAIN cycle.scores = cycle.feasible
    BY <1>2 DEF SelectHost
  <2>2. cycle.feasible \in SUBSET Nodes /\ IsFiniteSet(Nodes) /\ Nodes \subseteq Int
    BY <2>1, CycleAssumption DEF CycleInv, InCycle
  <2>3. IsFiniteSet(cycle.feasible)
    BY <2>2, FS_Subset
  <2>4. \A m \in cycle.feasible : final[m] \in MinNodeScore .. MaxNodeScore
    <3> TAKE m \in cycle.feasible
    <3>1. policy.score \in Rescaled => \A k \in DOMAIN cycle.scores : cycle.scores[k] \in Int
      BY <2>1 DEF ScoreInv
    <3>2. policy.score \notin Rescaled => cycle.scores[m] \in 0 .. 100
      BY <2>1 DEF SuccessInv, InRange
    <3> QED
      BY <2>1, <2>2, <2>3, <3>1, <3>2, FinalInRange
  <2>5. PICK n, pc : /\ pc = IF \A m \in cycle.feasible : final[m] \in MinNodeScore .. MaxNodeScore
                             THEN "reserve" ELSE "error"
                     /\ cycle' = [cycle EXCEPT !.pc = pc, !.host = n]
    BY <1>2 DEF SelectHost
  <2>6. pc # "error"
    BY <2>4, <2>5
  <2>7. PICK d : d = [cycle EXCEPT !.pc = pc, !.host = n]
    OBVIOUS
  <2>8. d.pc = pc
    BY <1>0, <2>7 DEF IsCycle
  <2> QED
    BY <2>5, <2>6, <2>7, <2>8
<1>3. ASSUME Reserve PROVE cycle'.pc # "error"
  <2> DEFINE pod  == PodRes[cycle.pod]
             node == GetNodeResource(snap, cycle.host)
  <2>1. cycle.pc = "reserve" /\ cycle.host \in cycle.feasible
    BY <1>3 DEF Reserve, CycleInv, InCycle
  <2>2. Hosts(node, pod) /\ cycle.pod \in Pods
    BY <2>1, HostSeen, NodeScored
  <2>3. pod.milli = 0 \/ GpuPod(pod)
    BY <2>2, CycleAssumption, ResourceAssumption DEF Hosts, GpuPod, PodResources
  <2>4. PICK ids \in IF pod.milli = 0 THEN { NoGpus } ELSE AllocateGpuIdFunc(policy, node, pod, ready) :
          ids = Panic \/ (pod.milli > 0 /\ ids = NoGpus) \/ cycle' = Idle
    BY <1>3 DEF Reserve
  <2>5. ~(ids = Panic \/ (pod.milli > 0 /\ ids = NoGpus))
    <3>1. CASE pod.milli = 0
      BY <2>4, <3>1 DEF NoGpus, Panic
    <3>2. CASE pod.milli # 0
      <4>1. GpuPod(pod) /\ ids \in AllocateGpuIdFunc(policy, node, pod, ready)
        BY <2>3, <2>4, <3>2
      <4> HIDE DEF node, pod
      <4> QED
        BY <1>0, <2>2, <4>1, FindsGpus
    <3> QED
      BY <3>1, <3>2
  <2> QED
    BY <2>4, <2>5, IdleCycle
<1>4. cycle'.pc # "error"
  <2>1. ASSUME NEW p \in Pods, Start(p) PROVE cycle'.pc # "error"
    <3> DEFINE feasible == { n \in Nodes : Feasible(p, n) }
    <3>1. PICK n \in feasible :
            cycle' = [Idle EXCEPT !.pc = IF Cardinality(feasible) = 1 THEN "reserve" ELSE "score",
                                  !.pod = p, !.feasible = feasible,
                                  !.drawn = IF policy.score = "Random" THEN n ELSE 0,
                                  !.host = IF Cardinality(feasible) = 1 THEN n ELSE 0]
      BY <2>1 DEF Start
    <3>2. PICK pc, drawn, host : /\ pc = IF Cardinality(feasible) = 1 THEN "reserve" ELSE "score"
                                 /\ drawn = IF policy.score = "Random" THEN n ELSE 0
                                 /\ host = IF Cardinality(feasible) = 1 THEN n ELSE 0
      OBVIOUS
    <3> HIDE DEF feasible
    <3>3. PICK d : d = [Idle EXCEPT !.pc = pc, !.pod = p, !.feasible = feasible, !.drawn = drawn, !.host = host]
      OBVIOUS
    <3>4. cycle' = d
      BY <3>1, <3>2, <3>3
    <3>5. d.pc = pc
      BY <3>3, IdleCycle DEF IsCycle
    <3> QED
      BY <3>2, <3>4, <3>5
  <2>2. ASSUME UNCHANGED cycle PROVE cycle'.pc # "error"
    BY <2>2 DEF SuccessInv, CycleSucceeds
  <2>3. ASSUME NEW p \in Pods, PodEnds(p) PROVE UNCHANGED cycle
    BY <2>3 DEF PodEnds
  <2>4. BecomeReady => UNCHANGED cycle
    BY DEF BecomeReady
  <2>5. UNCHANGED vars => UNCHANGED cycle
    BY DEF vars
  <2> QED
    BY <1>1, <1>2, <1>3, <2>1, <2>2, <2>3, <2>4, <2>5 DEF Next
<1>5. InRange(policy', cycle')
  <2>1. CASE cycle' = cycle /\ policy' = policy
    BY <2>1 DEF SuccessInv
  <2>2. CASE cycle'.scores = <<>>
    BY <2>2 DEF InRange
  <2>3. CASE cycle'.pc \in {"error", "reserve"}
    BY <2>3 DEF InRange
  <2>4. ASSUME NEW n \in cycle.feasible, ScoreNode(n) PROVE InRange(policy', cycle')
    <3>1. n \in Nodes
      BY <2>4 DEF CycleInv, InCycle, ScoreNode
    <3>2. /\ cycle.pc = "score" /\ policy' = policy
          /\ DOMAIN cycle'.scores = DOMAIN cycle.scores \cup {n}
          /\ \A m \in DOMAIN cycle.scores : cycle'.scores[m] = cycle.scores[m]
      BY <2>4, NodeEntered
    <3> QED
      BY <1>1, <2>4, <3>1, <3>2 DEF SuccessInv, InRange
  <2> QED
    BY <2>1, <2>2, <2>3, <2>4, CycleSteps
<1> QED
  BY <1>4, <1>5 DEF SuccessInv, CycleSucceeds

(***************************************************************************)
(* No cycle fails (CycleSucceeds): on machines within what the scores are  *)
(* scaled by, for pods as the traces bring them and every policy but the   *)
(* dot product, no score is an error or out of range and Reserve finds the *)
(* GPUs the filters promised, though pods end in between: the Score and    *)
(* Reserve functions of the plugins and RunScorePlugins of the framework.  *)
(***************************************************************************)
THEOREM CyclesSucceed ==
  ASSUME SigmoidRange, WithinSpec, FewGpus, NoModelWithoutGpu, NoDotProduct
  PROVE  Spec => []CycleSucceeds
<1>1. SigmoidIsInt
  BY SigmoidInt
<1>2. Init => ScoreInv /\ SuccessInv
  BY IdleCycle DEF Init, ScoreInv, HostScoredBest, SuccessInv, InRange, CycleSucceeds
<1>3. CycleInv /\ ScoreInv /\ SuccessInv /\ [Next]_vars => ScoreInv' /\ SuccessInv'
  BY <1>1, ScoreStep, SuccessStep
<1>4. Spec => []CycleInv
  BY <1>1, CycleInvariant
<1>5. SuccessInv => CycleSucceeds
  BY DEF SuccessInv
<1> QED
  BY <1>2, <1>3, <1>4, <1>5, PTL DEF Spec

=============================================================================
