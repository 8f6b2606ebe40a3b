--------------------------- MODULE PredictWindow ---------------------------
(***************************************************************************)
(* What the score plugins expect of the pods to come (type/predict.go):    *)
(* CAFGD weighs the most frequent pods of a long window with the latest    *)
(* ones, by how long the pod being scheduled is planned to run; FGDPP      *)
(* weighs the most frequent pods ever with a short window.                 *)
(*                                                                         *)
(* The driver adds a pod to CAFGD's window before it creates it.  FGDPP    *)
(* adds the pod itself, whenever it scores a node for it.  The window      *)
(* that the running plugin does not read is left out.                      *)
(***************************************************************************)
EXTENDS Integers, FiniteSetsExt, SequencesExt

CONSTANTS
  Kinds,               \* pod resources
  PlanTimes,           \* end minus start of a pod
  Policies,            \* which of "CAFGD" and "FGDPP" may run
  SmallWinSize, BigWinSize, \* of the prediction window
  WaterNum, WaterDen,  \* the share of it its top pods are to reach
  Recent,              \* 50: how many of the latest a short pod looks at
  WinSize,             \* of FGDPP's window
  MaxNodes,            \* bound: how many nodes a pod is scored on
  MaxPods              \* bound: how many pods arrive

ASSUME WindowSizes ==
  /\ {Recent, SmallWinSize, BigWinSize, WinSize, WaterDen} \subseteq Nat \ {0}
  /\ Recent <= SmallWinSize /\ SmallWinSize <= BigWinSize /\ BigWinSize % SmallWinSize = 0
  /\ WaterNum \in 0 .. WaterDen

\* The pods that come are of finitely many kinds.
ASSUME KindsAssumption == IsFiniteSet(Kinds) /\ Kinds # {}

ASSUME BoundsAssumption == MaxNodes \in Nat /\ MaxPods \in Nat

\* Pods are planned for times at which getTimeWeight is a number of halves.
ASSUME PlansAssumption ==
  \A t \in PlanTimes :
    t \in Nat /\ (t < 500 \/ t > 500000 \/ \E h \in 0 .. 3 : t = 500 * 10^h)

VARIABLES
  policy,  \* the plugin that runs
  win,     \* PredictPod without its memo
  pm,      \* its memo of the weights, empty for nil
  np,      \* NewTypicalPodMap
  cycle    \* the pod being scheduled and how many nodes are still to be scored

vars == << policy, win, pm, np, cycle >>

Zero         == [k \in Kinds |-> 0]
Total(f)     == MapThenSumSet(LAMBDA k : f[k], DOMAIN f)
Occurs(s, k) == Cardinality({ i \in DOMAIN s : s[i] = k })
Panic        == [k \in Kinds |-> -1]  \* an index out of range

(***************************************************************************)
(* The first kinds of an order by falling count until their sum reaches    *)
(* num / den of all, at most most of them.  Kinds of the same count come   *)
(* in any order; a list that ends before is an index out of range.         *)
(***************************************************************************)
Tops(count, num, den, all, most) ==
  LET Enough(S) == den * Total([k \in S |-> count[k]]) >= num * all
      Prefix(S) == \A k \in S, j \in DOMAIN count \ S : count[k] >= count[j]
      Stops(S)  == /\ Enough(S) \/ Cardinality(S) = most
                   /\ \E k \in S : /\ \A j \in S : count[j] >= count[k]
                                   /\ S = {k} \/ ~Enough(S \ {k})
      found == { S \in SUBSET DOMAIN count : S # {} /\ Cardinality(S) <= most /\ Prefix(S) /\ Stops(S) }
  IN IF found = {} THEN { Panic } ELSE { [k \in S |-> count[k]] : S \in found }

\* The kinds that have been counted, which stay in the map at zero.
Counted(count, seen) == [k \in seen |-> count[k]]
-----------------------------------------------------------------------------
(***************************************************************************)
(* PredictPod.                                                             *)
(***************************************************************************)
IsReady == Len(win.list) >= SmallWinSize

\* Mutant: a pod that leaves the window is counted on.
ShiftedKept(w, k) ==
  LET list == Append(w.list, k)
  IN [w EXCEPT !.arrived = @ + 1, !.seen = @ \cup {k}, !.count[k] = @ + 1,
               !.list = IF Len(list) > BigWinSize THEN Tail(list) ELSE list]

\* The window with one more pod and, when it is full, without its oldest.
Shifted(w, k) ==
  LET list  == Append(w.list, k)
      count == [w.count EXCEPT ![k] = @ + 1]
      over  == Len(list) > BigWinSize
  IN [w EXCEPT !.arrived = @ + 1, !.seen = @ \cup {k},
               !.list  = IF over THEN Tail(list) ELSE list,
               !.count = IF over THEN [count EXCEPT ![Head(list)] = @ - 1] ELSE count]

genTopK(w) == Tops(Counted(w.count, w.seen), WaterNum, WaterDen, Total(w.count), SmallWinSize)

\* Mutant: only once per big window.
DueWhenFull(w) == w.arrived % BigWinSize = 0

\* Whether the top pods are made anew.
Stride(arrived) == IF arrived > BigWinSize THEN BigWinSize ELSE SmallWinSize
Due(w) == w.arrived % Stride(w.arrived) = 0

\* Mutant: the weights are kept for the next pod.
AddRemembering(k) ==
  /\ \E w \in { Shifted(win, k) } :
       IF Due(w) THEN \E top \in genTopK(w) : win' = [w EXCEPT !.top = top, !.made = w.arrived]
                 ELSE win' = w
  /\ pm' = pm

Add(k) ==
  /\ \E w \in { Shifted(win, k) } :
       IF Due(w) THEN \E top \in genTopK(w) : win' = [w EXCEPT !.top = top, !.made = w.arrived]
                 ELSE win' = w
  /\ pm' = <<>>

(***************************************************************************)
(* The weight of the long window, in halves; the plan times in between     *)
(* are the powers of ten where the logarithm is whole.                     *)
(***************************************************************************)
getTimeWeight(planTime) ==
  CASE planTime < 500    -> 0
    [] planTime > 500000 -> 2
    [] OTHER             -> CHOOSE h \in 0 .. 3 : planTime = 500 * 10^h

GetNearList == SubSeq(win.list, Len(win.list) - SmallWinSize + 1, Len(win.list))

(***************************************************************************)
(* GetPM2 without its memo, in units of one part in 4 * l times what the   *)
(* top pods sum to.  The first of the latest pods weighs a third of the    *)
(* others: (l - i) / l is a division of integers.                          *)
(***************************************************************************)
Weights(planTime) ==
  LET near == IF planTime < 500 THEN SubSeq(GetNearList, SmallWinSize - Recent + 1, SmallWinSize)
              ELSE GetNearList
      w    == getTimeWeight(planTime)
      Top(k)  == IF k \in DOMAIN win.top THEN win.top[k] ELSE 0
      Near(k) == 3 * Occurs(near, k) - (IF near[1] = k THEN 2 ELSE 0)
  IN [k \in DOMAIN win.top \cup Range(near) |->
        2 * w * Len(near) * Top(k) + Total(win.top) * (2 - w) * Near(k)]
-----------------------------------------------------------------------------
(***************************************************************************)
(* NewTypicalPodMap: its counts are of all pods ever added.                *)
(***************************************************************************)
TypicalIsReady == Len(np.list) >= WinSize

\* Mutant: half of the window instead of half of all.
remakeTopKOfWindow(n) ==
  { [n EXCEPT !.inCount = n.count, !.topK = top] :
      top \in Tops(Counted(n.map, n.seen), 1, 1, WinSize \div 2, WinSize) }

remakeTopK(n) ==
  { [n EXCEPT !.inCount = n.count, !.topK = top] :
      top \in Tops(Counted(n.map, n.seen), 1, 1, n.count \div 2, WinSize) }

TypicalAdd(k) ==
  LET list == Append(np.list, k)
      n    == [np EXCEPT !.count = @ + 1, !.seen = @ \cup {k}, !.map[k] = @ + 1,
                         !.list = IF np.count + 1 > WinSize THEN Tail(list) ELSE list]
  IN IF n.count > 5 * WinSize /\ n.count - WinSize > n.inCount
     THEN np' \in remakeTopK(n)
     ELSE np' = n

\* PreNodeGpuShareFragAmountPP's weights, in units of one part in
\* 20 * l * l times the pods its top pods were made of.
PreWeights ==
  LET l == Len(np.list)
      near(k) == Total([i \in { j \in 1 .. l : np.list[j] = k } |-> l + 2 * (i - 1)])
      topK(k) == IF k \in DOMAIN np.topK THEN np.topK[k] ELSE 0
  IN [k \in DOMAIN np.topK \cup Range(np.list) |->
        IF np.inCount = 0 THEN 10 * near(k) ELSE 14 * l * l * topK(k) + 3 * np.inCount * near(k)]
-----------------------------------------------------------------------------
Init ==
  /\ policy \in Policies
  /\ win = [list |-> <<>>, count |-> Zero, seen |-> {}, arrived |-> 0, top |-> <<>>, made |-> 0]
  /\ np = [list |-> <<>>, map |-> Zero, seen |-> {}, count |-> 0, topK |-> <<>>, inCount |-> 0]
  /\ pm = <<>>
  /\ cycle = [pods |-> 0, kind |-> CHOOSE k \in Kinds : TRUE, plan |-> 0, todo |-> 0]

\* SchedulePods: the next pod goes into the window, and its cycle begins.
Arrive(k, planTime, nodes) ==
  /\ cycle.todo = 0 /\ cycle.pods < MaxPods
  /\ cycle' = [pods |-> cycle.pods + 1, kind |-> k, plan |-> planTime, todo |-> nodes]
  /\ IF policy = "CAFGD" THEN Add(k) ELSE UNCHANGED << win, pm >>
  /\ UNCHANGED << policy, np >>

\* Score of a node, by CAFGD: the weights are computed once.
ScoreCAFGD ==
  /\ policy = "CAFGD" /\ cycle.todo > 0
  /\ IF IsReady /\ pm = <<>> THEN pm' = IF win.top = Panic \/ Len(win.list) < SmallWinSize
                                        THEN Panic ELSE Weights(cycle.plan)
                             ELSE UNCHANGED pm
  /\ cycle' = [cycle EXCEPT !.todo = @ - 1]
  /\ UNCHANGED << policy, win, np >>

\* Score of a node, by FGDPP.
ScoreFGDPP ==
  /\ policy = "FGDPP" /\ cycle.todo > 0
  /\ TypicalAdd(cycle.kind)
  /\ cycle' = [cycle EXCEPT !.todo = @ - 1]
  /\ UNCHANGED << policy, win, pm >>

\* The workload is over.
Done == cycle.pods = MaxPods /\ cycle.todo = 0 /\ UNCHANGED vars

Next ==
  \/ \E k \in Kinds, planTime \in PlanTimes, nodes \in 0 .. MaxNodes : Arrive(k, planTime, nodes)
  \/ ScoreCAFGD \/ ScoreFGDPP \/ Done

Spec == Init /\ [][Next]_vars
-----------------------------------------------------------------------------
(***************************************************************************)
(* The counts of the window are those of the pods in it, and it holds the  *)
(* latest ones up to its size: what arrives and what leaves are counted    *)
(* with the same kind.                                                     *)
(***************************************************************************)
WindowCounts ==
  policy = "CAFGD" =>
    /\ Len(win.list) = Min({ win.arrived, BigWinSize })
    /\ \A k \in Kinds : win.count[k] = Occurs(win.list, k)

(***************************************************************************)
(* Whenever the window is ready there are top pods; they are the most      *)
(* frequent ones and reach the water mark of the window they were made     *)
(* from, or there would be more of them; and they are not older than a     *)
(* small window, or a big one once the big window is full.  No index is    *)
(* out of range on the way.                                                *)
(***************************************************************************)
TopCovers ==
  policy = "CAFGD" =>
    /\ Panic \notin { win.top, pm }
    /\ IsReady =>
         /\ win.made > 0
         /\ win.arrived - win.made < Stride(win.arrived)
         /\ \/ WaterDen * Total(win.top) >= WaterNum * Min({ win.made, BigWinSize })
            \/ Cardinality(DOMAIN win.top) = SmallWinSize

(***************************************************************************)
(* The memo of the weights, which is not keyed by the plan time it was     *)
(* computed for, answers the pod of the present cycle with its own         *)
(* weights, from the window as it is now.                                  *)
(***************************************************************************)
MemoCurrent == pm # <<>> /\ cycle.todo > 0 => pm = Weights(cycle.plan)

(***************************************************************************)
(* FGDPP's top pods: once it has seen five windows of pods there are some, *)
(* they are at most one window old, and they stand for half of the pods    *)
(* seen until then, unless a full window of kinds does not.  With the      *)
(* window beside them, the weights never sum to more than one.             *)
(***************************************************************************)
TopKFresh ==
  /\ np.topK # Panic
  /\ np.count > 5 * WinSize =>
       /\ np.count - np.inCount <= WinSize
       /\ \/ Total(np.topK) >= np.inCount \div 2
          \/ Cardinality(DOMAIN np.topK) = WinSize
       /\ \A k \in DOMAIN np.topK : np.topK[k] <= np.map[k]
  /\ TypicalIsReady =>
       Total(PreWeights) <= 20 * Len(np.list) * Len(np.list) * Max({ np.inCount, 1 })

-----------------------------------------------------------------------------
Fields        == {"list", "count", "seen", "arrived", "top", "made"}
TypicalFields == {"list", "map", "seen", "count", "topK", "inCount"}

\* The counts of a window w are those of its list.
Counts(w) ==
  /\ DOMAIN w = Fields
  /\ w.list \in Seq(Kinds) /\ w.seen \in SUBSET Kinds /\ w.arrived \in Nat
  /\ Len(w.list) = IF w.arrived > BigWinSize THEN BigWinSize ELSE w.arrived
  /\ DOMAIN w.count = Kinds
  /\ \A k \in Kinds : w.count[k] = Occurs(w.list, k)
  /\ \A i \in DOMAIN w.list : w.list[i] \in w.seen

\* Its top pods were made when they were last due, and reach the water mark.
Covers(w) ==
  /\ w.made \in Nat /\ w.arrived = w.made + (w.arrived % Stride(w.arrived))
  /\ IF w.made = 0 THEN w.top = <<>>
     ELSE /\ DOMAIN w.top \in (SUBSET Kinds) \ {{}}
          /\ \A k \in DOMAIN w.top : w.top[k] \in Nat
          /\ \/ WaterDen * Total(w.top) >= WaterNum * Min({ w.made, BigWinSize })
             \/ Cardinality(DOMAIN w.top) = SmallWinSize

\* FGDPP's counts n are of all pods ever added, its list is of the latest.
Added(n) ==
  /\ DOMAIN n = TypicalFields
  /\ n.list \in Seq(Kinds) /\ n.seen \in SUBSET Kinds /\ n.count \in Nat
  /\ Len(n.list) = IF n.count > WinSize THEN WinSize ELSE n.count
  /\ DOMAIN n.map = Kinds
  /\ \A k \in Kinds : n.map[k] \in Nat
  /\ Total(n.map) = n.count
  /\ \A k \in Kinds \ n.seen : n.map[k] = 0

\* Its top pods were made of the first inCount of those pods.
TopKOf(n) ==
  /\ n.inCount \in Nat /\ n.inCount <= n.count
  /\ n.count > 5 * WinSize => n.count - n.inCount <= WinSize
  /\ DOMAIN n.topK \in SUBSET Kinds
  /\ \A k \in DOMAIN n.topK : n.topK[k] \in Nat /\ n.topK[k] <= n.map[k]
  /\ Total(n.topK) <= n.inCount
  /\ n.inCount > 0 => \/ Total(n.topK) >= n.inCount \div 2
                      \/ Cardinality(DOMAIN n.topK) = WinSize

\* The memo is nil or what would be computed now.
MemoInv ==
  \/ pm = <<>>
  \/ policy = "CAFGD" /\ IsReady /\ cycle.plan \in PlanTimes /\ pm = Weights(cycle.plan)

(***************************************************************************)
(* What every step keeps, and from which the properties above follow: the  *)
(* counts go with the lists, top pods are those of the last time they were *)
(* due, and the memo is of the window as it is now.                        *)
(***************************************************************************)
WindowInv ==
  /\ DOMAIN cycle = {"pods", "kind", "plan", "todo"}
  /\ cycle.kind \in Kinds /\ cycle.todo \in Nat
  /\ cycle.todo > 0 => cycle.plan \in PlanTimes
  /\ Counts(win) /\ Covers(win)
  /\ Added(np) /\ TopKOf(np)
  /\ MemoInv
=============================================================================
