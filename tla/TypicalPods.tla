---------------------------- MODULE TypicalPods ----------------------------
(***************************************************************************)
(* Which pods a workload typically has (GetTypicalPods and                 *)
(* GetTypicalPodsByTime of utils/frag.go): the kinds of pods by falling    *)
(* weight, taken a step of them at a time until they stand for a given     *)
(* part of the workload.  A weight is the code's percentage times the sum  *)
(* of the weights that are kept.                                           *)
(***************************************************************************)
EXTENDS NodeResource, FiniteSetsExt

CONSTANTS
  IsInvolvedCpuPods,      \* TypicalPodsConfig
  PodPopularityThreshold, \* in percent, after defaults are applied
  PodIncreaseStep,        \* after defaults are applied
  GpuResWeight,
  MaxCounted              \* how many pods are looked at, 10000 in the code

ASSUME TypicalPodsConfig ==
  /\ PodPopularityThreshold \in 1 .. 100
  /\ PodIncreaseStep \in Nat \ {0}
  /\ GpuResWeight \in Nat /\ MaxCounted \in Nat

\* The pods that count.
Counted(pods) ==
  { i \in 1 .. Min({ Len(pods), MaxCounted }) : IsInvolvedCpuPods \/ pods[i].res.num # 0 }

\* How often each kind occurs; a whole GPU counts for more.
Frequency(pods) ==
  LET once(i) == IF pods[i].res.milli = MILLI THEN 1 + pods[i].res.num * GpuResWeight ELSE 1
  IN [k \in { pods[i].res : i \in Counted(pods) } |->
        SumFunction([i \in { j \in Counted(pods) : pods[j].res = k } |-> once(i)])]

\* How long the pods of each kind run.
RunTime(pods) ==
  [k \in { pods[i].res : i \in Counted(pods) } |->
     SumFunction([i \in { j \in Counted(pods) : pods[j].res = k } |-> pods[i].time])]

Sum(weight, S) == SumFunction([k \in S |-> weight[k]])

\* Mutant: sorted the other way round.
SortInIncreasingCount(weight) ==
  SortBy(DOMAIN weight,
         LAMBDA p, q : weight[p] < weight[q] \/ (weight[p] = weight[q] /\ Less(p, q)))

\* The kinds of a map by falling weight, no two of them tied.
SortTargetPodInDecreasingCount(weight) ==
  SortBy(DOMAIN weight,
         LAMBDA p, q : weight[p] > weight[q] \/ (weight[p] = weight[q] /\ Less(q, p)))

\* The loop takes a step of kinds at a time, until they stand for enough or all
\* are taken.
Chopped(list, weight) ==
  LET taken(steps) == Min({ steps * PodIncreaseStep, Len(list) })
      cum(steps)   == Sum(weight, { list[i] : i \in 1 .. taken(steps) })
      all          == Sum(weight, DOMAIN weight)
      enough       == { steps \in 0 .. Len(list) : 100 * cum(steps) >= PodPopularityThreshold * all }
  IN [k \in { list[i] : i \in 1 .. taken(Min(enough)) } |-> weight[k]]

GetTypicalPods(pods) ==
  Chopped(SortTargetPodInDecreasingCount(Frequency(pods)), Frequency(pods))

GetTypicalPodsByTime(pods) ==
  Chopped(SortTargetPodInDecreasingCount(RunTime(pods)), RunTime(pods))
=============================================================================
