--------------------------- MODULE SchedulingCycle --------------------------
(***************************************************************************)
(* One scheduling cycle of the Kubernetes framework with a score plugin    *)
(* and a GPU selection method of this repository: the nodes that pass the  *)
(* filters are scored one by one and in any order (the framework does it   *)
(* in sixteen goroutines), the scores are normalised, a best node is       *)
(* chosen, and Reserve selects GPUs there, looking at the node again.      *)
(* Meanwhile the pods that end leave the nodes: their GPUs at once, for    *)
(* GPUs are read from the node's annotation, their CPU only for the next   *)
(* cycle, for pods are read from the snapshot.                             *)
(***************************************************************************)
EXTENDS ScorePolicies

CONSTANTS
  Nodes,      \* node names, numbers
  Pods,       \* the pods to schedule
  NodeRes,    \* NodeRes[n]: the resource of node n with nothing on it
  PodRes,     \* PodRes[p]: the resource pod p asks for
  Policies    \* the [score, select, dim, norm] configurations to run

(***************************************************************************)
(* A pod that asks for a share of GPUs asks for one at least, and for all  *)
(* of each if for several: GetGpuAffinityFromPodAnnotation panics at any   *)
(* other pod on a node.  A node with nothing on it has all of its GPUs and *)
(* all of its CPU, Status.Allocatable.                                     *)
(***************************************************************************)
ASSUME CycleAssumption ==
  /\ IsFiniteSet(Nodes) /\ Nodes \subseteq Nat \ {0}
  /\ NodeRes \in [Nodes -> [cpu : Nat, cap : Nat, gpu : Seq({MILLI}), type : STRING]]
  /\ \A n \in Nodes : NodeRes[n].cpu = NodeRes[n].cap
  /\ IsFiniteSet(Pods) /\ PodRes \in [Pods -> PodResources]
  /\ \A p \in Pods : /\ PodRes[p].milli > 0 => PodRes[p].num > 0
                     /\ PodRes[p].num > 1 => PodRes[p].milli = MILLI
  /\ Policies \subseteq [score : Scores, select : Selections, dim : Dims, norm : Norms]

VARIABLES
  policy,     \* the configuration of this scheduler
  ready,      \* whether the prediction window is full
  placed,     \* placed[p]: the node and the GPUs of pod p
  snap,       \* the pods the snapshot of the cycle shows on each node
  cycle       \* the scheduling cycle

vars == << policy, ready, placed, snap, cycle >>

Nowhere == [node |-> 0, ids |-> {}]
Idle    == [pc |-> "idle", pod |-> CHOOSE p \in Pods : TRUE, feasible |-> {}, drawn |-> 0,
            scores |-> <<>>, seen |-> <<>>, host |-> 0]

On(n)         == { p \in Pods : placed[p].node = n }
Holders(n, i) == { p \in On(n) : i \in placed[p].ids }

(***************************************************************************)
(* GetNodeResourceViaHandleAndName: CPU from the pods of the snapshot,     *)
(* GPUs from the node's annotation as it is now.                           *)
(***************************************************************************)
GetNodeResource(S, n) ==
  [NodeRes[n] EXCEPT
     !.cpu = @ - SumFunction([p \in S[n] |-> PodRes[p].cpu]),
     !.gpu = [i \in DOMAIN @ |-> @[i] - SumFunction([p \in Holders(n, i) |-> PodRes[p].milli])]]

Snapshot == [n \in Nodes |-> On(n)]

\* NodeResourcesFit of the framework, then Filter of Open-Gpu-Share.
Feasible(p, n) ==
  LET node == GetNodeResource(Snapshot, n)
  IN /\ node.cpu >= PodRes[p].cpu
     /\ PodRes[p].milli > 0 =>
          /\ IsNodeAccessibleToPod(node, PodRes[p])
          /\ CanNodeHostPodOnGpuMemory(node, PodRes[p])

Init ==
  /\ policy \in Policies
  /\ ready = FALSE
  /\ placed = [p \in Pods |-> Nowhere]
  /\ snap = [n \in Nodes |-> {}]
  /\ cycle = Idle

(***************************************************************************)
(* A cycle begins.  A single feasible node is taken unscored.              *)
(***************************************************************************)
Start(p) ==
  LET feasible == { n \in Nodes : Feasible(p, n) }
  IN /\ cycle.pc = "idle" /\ placed[p] = Nowhere
     /\ feasible # {}
     /\ snap' = Snapshot
     /\ \E n \in feasible :
          cycle' = [Idle EXCEPT !.pc = IF Cardinality(feasible) = 1 THEN "reserve" ELSE "score",
                                !.pod = p, !.feasible = feasible,
                                !.drawn = IF policy.score = "Random" THEN n ELSE 0,
                                !.host = IF Cardinality(feasible) = 1 THEN n ELSE 0]
     /\ UNCHANGED << policy, ready, placed >>

\* A function with y at n.
Put(f, n, y) == [m \in DOMAIN f \cup {n} |-> IF m = n THEN y ELSE f[m]]

\* Score of one node.  One plugin error ends the cycle.
ScoreNode(n) ==
  LET node  == GetNodeResource(snap, n)
      score == Score(policy, node, PodRes[cycle.pod], GpuAffinity({ PodRes[q] : q \in snap[n] }),
                     ready, cycle.drawn = n)
  IN /\ cycle.pc = "score" /\ n \in cycle.feasible \ DOMAIN cycle.scores
     /\ cycle' = [cycle EXCEPT !.pc = IF score = Failed /\ policy.score \notin {"CAFGD", "FGDPP"}
                                      THEN "error" ELSE "score",
                               !.scores = Put(@, n, score),
                               !.seen = Put(@, n, [node |-> node, ready |-> ready])]
     /\ UNCHANGED << policy, ready, placed, snap >>

\* The framework refuses scores outside 0 .. 100 and takes any best node.
SelectHost ==
  /\ cycle.pc = "score" /\ DOMAIN cycle.scores = cycle.feasible
  /\ LET final == ScoreExtensions(policy, cycle.scores)
     IN \E n \in cycle.feasible :
          /\ \A m \in cycle.feasible : final[m] <= final[n]
          /\ cycle' = [cycle EXCEPT
               !.pc = IF \A m \in cycle.feasible : final[m] \in MinNodeScore .. MaxNodeScore
                      THEN "reserve" ELSE "error",
               !.host = n]
  /\ UNCHANGED << policy, ready, placed, snap >>

\* Reserve: the GPUs are selected anew.  A pod without GPUs is just placed; an
\* empty selection fails the cycle; a panic ends the program.
Reserve ==
  /\ cycle.pc = "reserve"
  /\ \E ids \in IF PodRes[cycle.pod].milli = 0 THEN { NoGpus }
                ELSE AllocateGpuIdFunc(policy, GetNodeResource(snap, cycle.host), PodRes[cycle.pod], ready) :
       IF ids = Panic \/ (PodRes[cycle.pod].milli > 0 /\ ids = NoGpus)
       THEN /\ cycle' = [cycle EXCEPT !.pc = "error"]
            /\ UNCHANGED placed
       ELSE /\ cycle' = Idle
            /\ placed' = [placed EXCEPT ![cycle.pod] = [node |-> cycle.host, ids |-> ids]]
  /\ snap' = IF cycle'.pc = "idle" THEN [n \in Nodes |-> {}] ELSE snap
  /\ UNCHANGED << policy, ready >>

\* A pod ends.
PodEnds(p) ==
  /\ placed[p] # Nowhere
  /\ placed' = [placed EXCEPT ![p] = Nowhere]
  /\ UNCHANGED << policy, ready, snap, cycle >>

\* The window becomes full: CAFGD's when a cycle begins, FGDPP's while the nodes
\* are scored, each of which counts the pod once more.
BecomeReady ==
  /\ ~ready
  /\ \/ policy.score = "CAFGD" /\ cycle.pc = "idle"
     \/ policy.score = "FGDPP" /\ cycle.pc \in {"idle", "score"}
  /\ ready' = TRUE
  /\ UNCHANGED << policy, placed, snap, cycle >>

Next ==
  \/ \E p \in Pods : Start(p) \/ PodEnds(p)
  \/ \E n \in Nodes : ScoreNode(n)
  \/ SelectHost
  \/ Reserve
  \/ BecomeReady

Spec == Init /\ [][Next]_vars
-----------------------------------------------------------------------------
(***************************************************************************)
(* Whatever plugin scored and whatever method selects: no score is an      *)
(* error or out of range, no selection is empty or panics, though the node *)
(* is looked at three times in a cycle (Filter, Score, Reserve) and pods   *)
(* end in between.                                                         *)
(***************************************************************************)
CycleSucceeds == cycle.pc # "error"

(***************************************************************************)
(* Every GPU pod has as many distinct GPUs as it asked for, on a node of a *)
(* model it accepts, and no GPU has more on it than it holds.              *)
(***************************************************************************)
SelectionFits ==
  /\ \A p \in Pods : placed[p] # Nowhere =>
       /\ Cardinality(placed[p].ids) = IF PodRes[p].milli = 0 THEN 0 ELSE PodRes[p].num
       /\ placed[p].ids \subseteq DOMAIN NodeRes[placed[p].node].gpu
       /\ PodRes[p].milli > 0 => IsNodeAccessibleToPod(NodeRes[placed[p].node], PodRes[p])
  /\ \A n \in Nodes : LET node == GetNodeResource(Snapshot, n)
                      IN node.cpu >= 0 /\ \A i \in DOMAIN node.gpu : node.gpu[i] >= 0

(***************************************************************************)
(* The chosen node is one that scored highest before normalisation:        *)
(* rescaling to 0 .. 100 with integers neither merges the best score with  *)
(* the next one nor turns the order round (both NormalizeScore).           *)
(***************************************************************************)
HostScoredBest ==
  cycle.pc = "reserve" => \A m \in DOMAIN cycle.scores : cycle.scores[m] <= cycle.scores[cycle.host]

(***************************************************************************)
(* Reserve selects the GPUs that were scored: for a policy that both       *)
(* scores and selects, if the node and the window are as they were when    *)
(* the node was scored, its score was for the selection Reserve makes.     *)
(* For CAFGD those are two functions (getGpuShareFragExtendScore,          *)
(* predictGpuShareFragExtendScore).                                        *)
(***************************************************************************)
SelectsWhatWasScored ==
  /\ cycle.pc = "reserve" /\ cycle.host \in DOMAIN cycle.seen
  /\ policy.score = policy.select /\ PodRes[cycle.pod].num > 0
  /\ [node |-> GetNodeResource(snap, cycle.host), ready |-> ready] = cycle.seen[cycle.host]
  => AllocateGpuIdFunc(policy, GetNodeResource(snap, cycle.host), PodRes[cycle.pod], ready)
       = { ScoredGpus(policy, cycle.seen[cycle.host].node, PodRes[cycle.pod], ready) }

(***************************************************************************)
(* Scores of one cycle are comparable: packing puts every node on which    *)
(* the pod fits beside others above those where it starts a GPU, and those *)
(* above the empty ones (the rule in front of getPackingScore).            *)
(***************************************************************************)
Band(node, pod) ==
  CASE GetFullyFreeGpuNum(node) = Len(node.gpu) -> 3
    [] \E i \in GpuToUse(node, pod) : node.gpu[i] = MILLI /\ GetFullyFreeGpuNum(node) # Len(node.gpu) -> 2
    [] OTHER -> 1

PackingPrefersUsed ==
  cycle.pc = "score" /\ policy.score = "GpuPacking" /\ PodRes[cycle.pod].milli > 0 =>
    \A m, n \in DOMAIN cycle.scores :
      Band(cycle.seen[m].node, PodRes[cycle.pod]) < Band(cycle.seen[n].node, PodRes[cycle.pod])
        => cycle.scores[m] > cycle.scores[n]

(***************************************************************************)
(* Every idle milli-GPU of a node is in one of the seven kinds, for every  *)
(* typical pod, and the measure CAFGD sums pod by pod is the one FGD sums  *)
(* by kind (NodeGpuShareFragAmount, Predict5, Predict6).                   *)
(***************************************************************************)
FragAccountsForAll ==
  cycle.pc = "idle" => \A n \in Nodes :
    LET node   == GetNodeResource(Snapshot, n)
        amount == NodeGpuShareFragAmount(node, Frequency)
        weight == SumFunction([q \in DOMAIN Frequency |-> Frequency[q]])
    IN /\ SumFunction([t \in FragTypes |-> amount[t]]) = weight * GetTotalMilliGpuLeft(node)
       /\ FragAmountSumExceptQ3(amount) = NodeGpuShareFragAmountScoreBasedOnPredict(node, Frequency)
=============================================================================
