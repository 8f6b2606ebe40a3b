--------------------------- MODULE ScorePolicies ----------------------------
(***************************************************************************)
(* The score plugins and the GPU selection methods, as functions of a node *)
(* resource and a pod resource (pkg/simulator/plugin).  A selection is the *)
(* set of GPU positions, NoGpus where the code returns "", Panic where it  *)
(* panics.                                                                 *)
(***************************************************************************)
EXTENDS NodeFrag, DotProduct

CONSTANT
  Frequency,   \* the distribution of typical pods (weights, by pod resource)
  Sigmoid(_)   \* the sigmoid of a difference of amounts, in millionths

ASSUME FrequencyAssumption ==
  IsFiniteSet(DOMAIN Frequency) /\ \A q \in DOMAIN Frequency : q \in PodResources /\ Frequency[q] \in Nat

Scores     == { "Random", "BestFit", "GpuPacking", "GpuClustering", "Simon", "DotProduct",
                "FGD", "FGDPP", "CAFGD" }
Selections == { "best", "worst", "random", "DotProduct", "FGD", "FGDPP", "CAFGD" }
Dims       == { "merge", "share", "divide", "extend" }
Norms      == { "node", "pod", "max" }

MinNodeScore == 0
MaxNodeScore == 100
Failed       == -1   \* the score of a plugin that returns framework.Error

(***************************************************************************)
(* Best fit, as a percentage of the largest machine; CAFGD and FGDPP have  *)
(* copies of it that multiply by ten thousand more.                        *)
(***************************************************************************)
GetBestFitScore(node, pod, scale) ==
  LET cpu == node.cpu - pod.cpu
      gpu == GetTotalMilliGpuLeft(node) - TotalMilliGpu(pod)
  IN IF cpu < 0 \/ gpu < 0 THEN Failed
     ELSE (MaxNodeScore * scale * (2 * MaxSpecCpu * MaxSpecGpu - cpu * MaxSpecGpu - gpu * MaxSpecCpu))
            \div (2 * MaxSpecCpu * MaxSpecGpu)

(***************************************************************************)
(* GPU selection by room: the tightest GPU with room, the widest, any.     *)
(***************************************************************************)
\* The first of the GPUs in S that v values most.
FirstBest(S, v(_)) ==
  CHOOSE i \in S : \A j \in S : v(j) < v(i) \/ (v(j) = v(i) /\ i <= j)

\* allocateGpuIdBasedOnBestFit, ...OnWorstFit and ...OnRandomFit: the
\* selections they may return.
AllocateByRoom(method, node, pod) ==
  LET fits == Fits(node, pod)
  IN CASE pod.milli >= MILLI -> { AllocateExclusiveGpuId(node, pod) }
       [] pod.milli < MILLI /\ fits = {} -> { NoGpus }
       [] OTHER -> CASE method = "best"   -> { { FirstBest(fits, LAMBDA i : -node.gpu[i]) } }
                     [] method = "worst"  -> { { FirstBest(fits, LAMBDA i : node.gpu[i]) } }
                     [] method = "random" -> { {i} : i \in fits }

BestFitGpus(node, pod) == CHOOSE ids \in AllocateByRoom("best", node, pod) : TRUE

(***************************************************************************)
(* How much less fragmented a placement leaves the node, in millionths.    *)
(* A share pod is tried on every GPU with room, any other pod where Sub    *)
(* puts it; but the GPUs returned are those of AllocateExclusiveGpuId.     *)
(***************************************************************************)
ByType(node, after) ==
  Sigmoid(NodeGpuShareFragAmountScore(node, Frequency) - NodeGpuShareFragAmountScore(after, Frequency))

\* The same with the measure that sums pod by pod.
ByPod(node, after) ==
  Sigmoid(NodeGpuShareFragAmountScoreBasedOnPredict(node, Frequency)
            - NodeGpuShareFragAmountScoreBasedOnPredict(after, Frequency))

\* FGD and FGDPP: gains compared as whole percentages.
CalculateGpuShareFragExtendScore(node, pod) ==
  LET Gain(i) == ByType(node, Take(node, pod, {i})) \div 10000
      fits == Fits(node, pod)
      best == FirstBest(fits, Gain)
  IN CASE IsGpuShare(pod) /\ fits = {} -> [score |-> 0, ids |-> NoGpus]
       [] IsGpuShare(pod) /\ fits # {} -> [score |-> Gain(best), ids |-> {best}]
       [] OTHER -> [score |-> ByType(node, Sub(node, pod).node) \div 10000,
                    ids |-> AllocateExclusiveGpuId(node, pod)]

\* CAFGD on a share pod: gains compared as they are.
SharePlacement(node, pod) ==
  LET Gain(i) == ByPod(node, Take(node, pod, {i}))
      fits == Fits(node, pod)
      best == FirstBest(fits, Gain)
  IN IF fits = {} THEN [gain |-> 0, ids |-> NoGpus] ELSE [gain |-> Gain(best), ids |-> {best}]

\* CAFGD, what Score calls; best fit until the prediction window is full.
GetGpuShareFragExtendScore(node, pod, ready) ==
  CASE ~ready -> [score |-> GetBestFitScore(node, pod, 1), ids |-> BestFitGpus(node, pod)]
    [] ready /\ IsGpuShare(pod) ->
         [score |-> SharePlacement(node, pod).gain \div 10000, ids |-> SharePlacement(node, pod).ids]
    [] OTHER -> [score |-> ByPod(node, Sub(node, pod).node) \div 10000,
                 ids |-> AllocateExclusiveGpuId(node, pod)]

\* Mutant: Reserve keeps to best fit when the window is full.
PredictGpuShareFragExtendScoreBestFit(node, pod, ready) ==
  [score |-> GetBestFitScore(node, pod, 10000), ids |-> BestFitGpus(node, pod)]

\* CAFGD, what Reserve calls: a function of its own, in ten-thousandths.
PredictGpuShareFragExtendScore(node, pod, ready) ==
  CASE ~ready -> [score |-> GetBestFitScore(node, pod, 10000), ids |-> BestFitGpus(node, pod)]
    [] ready /\ pod.num = 0 /\ node.gpu # <<>> ->
         [score |-> ByPod(node, Sub(node, pod).node) \div 2, ids |-> NoGpus]
    [] ready /\ pod.num = 0 /\ node.gpu = <<>> ->
         [score |-> (50 + GetBestFitScore(node, pod, 1) \div 2) * 10000, ids |-> NoGpus]
    [] ready /\ IsGpuShare(pod) ->
         [score |-> SharePlacement(node, pod).gain, ids |-> SharePlacement(node, pod).ids]
    [] OTHER -> [score |-> GetBestFitScore(node, pod, 10000), ids |-> AllocateExclusiveGpuId(node, pod)]

\* FGDPP: best fit, ten thousand times as much, until its window is full.
CalculateGpuShareFragExtendScorePP(node, pod, ready) ==
  IF ready THEN CalculateGpuShareFragExtendScore(node, pod)
  ELSE [score |-> GetBestFitScore(node, pod, 10000), ids |-> BestFitGpus(node, pod)]

(***************************************************************************)
(* GPU packing.                                                            *)
(***************************************************************************)
\* The GPUs packing would use: the fullest ones that suffice.
GpuToUse(node, pod) == TightestFits(node, pod)

\* Mutant: the room on the shared GPUs is not scaled down by ten.
GetPackingScoreUnscaled(node, pod) ==
  LET free  == GetFullyFreeGpuNum(node)
      use   == GpuToUse(node, pod)
      idle  == Cardinality(use \cap FullyFree(node))
      share == SumFunction([i \in use |-> (node.gpu[i] * 100) \div MILLI])
  IN CASE free = Len(node.gpu) -> Max({ 33 - free, free })
       [] free # Len(node.gpu) /\ Cardinality(use) < pod.num -> Failed
       [] free # Len(node.gpu) /\ Cardinality(use) = pod.num /\ idle > 0 -> Max({ 50 - idle, 33 })
       [] OTHER -> 100 - share

GetPackingScore(node, pod) ==
  LET free  == GetFullyFreeGpuNum(node)
      use   == GpuToUse(node, pod)
      idle  == Cardinality(use \cap FullyFree(node))
      share == SumFunction([i \in use |-> (node.gpu[i] * 100) \div MILLI])
  IN CASE free = Len(node.gpu) -> Max({ 33 - free, free })
       [] free # Len(node.gpu) /\ Cardinality(use) < pod.num -> Failed
       [] free # Len(node.gpu) /\ Cardinality(use) = pod.num /\ idle > 0 -> Max({ 50 - idle, 33 })
       [] OTHER -> Max({ 100 - share \div 10, 50 })

(***************************************************************************)
(* GPU clustering: by the kinds of GPU pods the node has, tags.            *)
(***************************************************************************)
GetGpuAffinityFromPodAnnotation(pod) ==
  CASE pod.num = 0 -> << "no-gpu", 0 >>
    [] IsGpuShare(pod) -> << "share-gpu", 1 >>
    [] OTHER -> << "gpu", pod.num >>

\* The kinds of the GPU pods in a set of pod resources, GpuAffinity's keys.
GpuAffinity(S) == { GetGpuAffinityFromPodAnnotation(q) : q \in { q \in S : q.num > 0 } }

GpuClusteringScore(node, pod, tags) ==
  LET used == (25 * (MaxSpecGpu - GetTotalMilliGpuLeft(node))) \div MaxSpecGpu
  IN CASE pod.num = 0 -> MinNodeScore
       [] pod.num > 0 /\ GetGpuAffinityFromPodAnnotation(pod) \in tags ->
            used + (IF Cardinality(tags) = 1 THEN 75 ELSE 50)
       [] OTHER -> used + (IF tags = {} THEN 25 ELSE 0)

\* Simon: the pod's share of what the node has once the pod is on it, rounded.
SimonScore(node, pod) ==
  LET rest == node.cap - pod.cpu
  IN IF rest = 0 THEN 100 ELSE (200 * pod.cpu + rest) \div (2 * rest)

(***************************************************************************)
(* What Score of each plugin answers for one node.  Some of them check     *)
(* once more that the node has a GPU of a model the pod accepts.           *)
(***************************************************************************)
OnModel(node, pod, score) == IF IsNodeAccessibleToPod(node, pod) THEN score ELSE Failed

\* drawn: the node is the one Random drew in PreScore.
RandomScore(drawn) == IF drawn THEN MaxNodeScore ELSE MinNodeScore

BestFitScore(node, pod) == OnModel(node, pod, GetBestFitScore(node, pod, 1))

GpuPackingScore(node, pod) ==
  IF pod.milli <= 0 THEN MinNodeScore ELSE OnModel(node, pod, GetPackingScore(node, pod))

DotProductScore(node, pod, policy) == CalculateDotProductScore(node, pod, policy.dim, policy.norm).score

FGDScore(node, pod) == OnModel(node, pod, CalculateGpuShareFragExtendScore(node, pod).score)

FGDPPScore(node, pod, ready) ==
  OnModel(node, pod, CalculateGpuShareFragExtendScorePP(node, pod, ready).score)

CAFGDScore(node, pod, ready) == OnModel(node, pod, GetGpuShareFragExtendScore(node, pod, ready).score)

Score(policy, node, pod, tags, ready, drawn) ==
  CASE policy.score = "Random"        -> RandomScore(drawn)
    [] policy.score = "BestFit"       -> BestFitScore(node, pod)
    [] policy.score = "GpuPacking"    -> GpuPackingScore(node, pod)
    [] policy.score = "GpuClustering" -> GpuClusteringScore(node, pod, tags)
    [] policy.score = "Simon"         -> SimonScore(node, pod)
    [] policy.score = "DotProduct"    -> DotProductScore(node, pod, policy)
    [] policy.score = "FGD"           -> FGDScore(node, pod)
    [] policy.score = "FGDPP"         -> FGDPPScore(node, pod, ready)
    [] policy.score = "CAFGD"         -> CAFGDScore(node, pod, ready)

\* What the selection method of Reserve may answer.
AllocateGpuIdFunc(policy, node, pod, ready) ==
  CASE policy.select = "DotProduct" -> { CalculateDotProductScore(node, pod, policy.dim, policy.norm).ids }
    [] policy.select = "FGD"        -> { CalculateGpuShareFragExtendScore(node, pod).ids }
    [] policy.select = "FGDPP"      -> { CalculateGpuShareFragExtendScorePP(node, pod, ready).ids }
    [] policy.select = "CAFGD"      -> { PredictGpuShareFragExtendScore(node, pod, ready).ids }
    [] OTHER                        -> AllocateByRoom(policy.select, node, pod)

\* The GPUs the placement that was scored would take, where it says.
ScoredGpus(policy, node, pod, ready) ==
  CASE policy.score = "DotProduct" -> CalculateDotProductScore(node, pod, policy.dim, policy.norm).ids
    [] policy.score = "FGD"        -> CalculateGpuShareFragExtendScore(node, pod).ids
    [] policy.score = "FGDPP"      -> CalculateGpuShareFragExtendScorePP(node, pod, ready).ids
    [] policy.score = "CAFGD"      -> GetGpuShareFragExtendScore(node, pod, ready).ids

(***************************************************************************)
(* Normalisation of the scores of a cycle, a function of the nodes, which  *)
(* are numbers so that the order of their names is that of the numbers.    *)
(***************************************************************************)
\* Mutant: the lowest score is not taken off before scaling.
NormalizeScoreFromZero(scores) ==
  LET values == { scores[n] : n \in DOMAIN scores }
      range  == Max(values) - Min(values)
  IN [n \in DOMAIN scores |-> IF range = 0 THEN MinNodeScore ELSE (scores[n] * 100) \div range]

NormalizeScore(scores) ==
  LET values == { scores[n] : n \in DOMAIN scores }
      range  == Max(values) - Min(values)
  IN [n \in DOMAIN scores |->
        IF range = 0 THEN MinNodeScore ELSE ((scores[n] - Min(values)) * 100) \div range]

\* Mutant: the names are compared whether or not the scores are equal.
NormalizeToFirst(scores) == [n \in DOMAIN scores |-> IF n = Min(DOMAIN scores) THEN 100 ELSE 1]

\* CAFGD and FGDPP: all for the best node, the first name among equals.
NormalizeToOne(scores) ==
  LET first == FirstBest(DOMAIN scores, LAMBDA n : scores[n])
  IN [n \in DOMAIN scores |-> IF n = first THEN 100 ELSE 1]

ScoreExtensions(policy, scores) ==
  CASE policy.score \in {"BestFit", "Simon"} -> NormalizeScore(scores)
    [] policy.score \in {"CAFGD", "FGDPP"}   -> NormalizeToOne(scores)
    [] OTHER -> scores
=============================================================================
