------------------------------ MODULE Simulate ------------------------------
(***************************************************************************)
(* A simulation from the objects of the configuration to the end           *)
(* (Simulate of simulator/core.go), with the steps the simulator offers    *)
(* beside it and core.go has commented out: tuning the workload to the     *)
(* cluster, scheduling an app, and the evaluation with an inflated         *)
(* workload.                                                               *)
(*                                                                         *)
(* Of the scheduler it is kept that a pod goes to a node it may go to      *)
(* where its CPU and GPUs fit, and fails if there is none.  The simulated  *)
(* clock, which ends pods early, is left out.                              *)
(***************************************************************************)
EXTENDS Workload

CONSTANTS
  Resources,          \* the configurations that may be read
  App,                \* the app that may be scheduled
  NodeRes,            \* NodeRes[n]: the CPU and milli-GPU of node n
  Shuffle,            \* whether ShufflePod is set
  TuneNum, TuneDen,   \* the ratios a workload may be tuned to are TuneNum / TuneDen
  InflateNum, InflateDen, \* WorkloadInflationConfig.Ratio
  MaxTuned            \* bound: how many pods tuning may add

ASSUME SimulateAssumption ==
  /\ \A r \in Resources : IsConfiguration(r)
  /\ NodeRes \in [Nodes -> [cpu : Nat, gpu : Nat]]
  /\ TuneNum \subseteq Nat /\ TuneDen \in Nat \ {0}
  /\ InflateNum \in Nat /\ InflateDen \in Nat \ {0}
  /\ MaxTuned \in Nat

\* No two kinds of pods of a configuration differ in GPU models alone.
ASSUME KindsApart ==
  \A r \in Resources : \A p, q \in Asked(r) : p # q => Less(p, q) \/ Less(q, p)

\* How many copies are made of a workload of n pods.
Inflated(n) == (n * InflateNum + InflateDen - 1) \div InflateDen - n

\* No other pod draws the name of a daemon set's pod.
ASSUME NamesApart ==
  \A r \in Resources : \A d \in DOMAIN r.DaemonSets, h \in Hashes :
    LET name == Suffixed(r.DaemonSets[d].name, h)
    IN /\ \A s \in GetValidPodExcludeDaemonSet(r) : \A i \in DOMAIN s : s[i].name # name
       /\ \A e \in DOMAIN r.DaemonSets \ {d}, g \in Hashes : Suffixed(r.DaemonSets[e].name, g) # name

\* No other pod has the name of a copy.
ASSUME CopiesApart ==
  \A r \in Resources : \A s \in GetValidPodExcludeDaemonSet(r) :
    \A i \in DOMAIN s, k \in 0 .. Inflated(Len(s)) - 1 :
      LET name == Suffixed(s[i].name, 50 + k)
      IN /\ \A j \in DOMAIN s : /\ s[j].name # name
                               /\ \A l \in 0 .. MaxTuned - 1 : Suffixed(s[j].name, 70 + l) # name
         /\ \A d \in DOMAIN r.DaemonSets, h \in Hashes : Suffixed(r.DaemonSets[d].name, h) # name

VARIABLES
  stage,      \* what Simulate does next
  resources,  \* the configuration
  pods,       \* cluster.Pods
  workload,   \* workloadPods
  typical,    \* typicalPods and typicalPodsByTime
  totals,     \* the recorded requests of the pods and resources of the nodes
  tuning,     \* the ratio tuned to and the pods added
  events,     \* what SchedulePods has still to do
  cluster,    \* the pods that are there, by name, and their nodes
  failed,     \* the pods reported as unscheduled
  inflation,  \* the inflation pods
  before      \* history: the cluster before the inflation

vars == << stage, resources, pods, workload, typical, totals, tuning, events, cluster, failed,
           inflation, before >>

GpuTotal(s) == SumFunction([i \in DOMAIN s |-> TotalMilliGpu(s[i].res)])
CpuTotal(s) == SumFunction([i \in DOMAIN s |-> s[i].res.cpu])

Init ==
  /\ stage = "import"
  /\ resources \in Resources
  /\ pods = <<>> /\ workload = <<>> /\ events = <<>> /\ inflation = <<>>
  /\ typical = [count |-> <<>>, time |-> <<>>]
  /\ totals = [podCpu |-> 0, podGpu |-> 0, nodeCpu |-> 0, nodeGpu |-> 0]
  /\ tuning = [num |-> 0, added |-> 0]
  /\ cluster = <<>> /\ before = <<>> /\ failed = {}

\* The pods of everything but daemon sets are the workload.
Import ==
  /\ stage = "import"
  /\ pods' \in GetValidPodExcludeDaemonSet(resources)
  /\ IF MakeValidPod(pods')
     THEN /\ stage' = "daemons"
          /\ workload' = SetWorkloadPods(pods')
          /\ typical' = [count |-> GetTypicalPods(workload'), time |-> GetTypicalPodsByTime(workload')]
     ELSE /\ stage' = "error"
          /\ UNCHANGED << workload, typical >>
  /\ UNCHANGED << resources, totals, tuning, events, cluster, failed, inflation, before >>

\* The pods of the daemon sets are added, sorted in with the others, and counted.
RunDaemons ==
  /\ stage = "daemons"
  /\ \E hash \in [DOMAIN resources.DaemonSets -> [Nodes -> Hashes]] :
       LET made == PodsOfDaemonSets(resources.DaemonSets, hash)
       IN IF MakeValidPod(made)
          THEN /\ stage' = "start"
               /\ pods' \in SortClusterPods(pods \o made, Shuffle)
               /\ totals' = [podCpu  |-> CpuTotal(pods'), podGpu |-> GpuTotal(pods'),
                             nodeCpu |-> SumFunction([n \in Nodes |-> NodeRes[n].cpu]),
                             nodeGpu |-> SumFunction([n \in Nodes |-> NodeRes[n].gpu])]
          ELSE stage' = "error" /\ UNCHANGED << pods, totals >>
  /\ UNCHANGED << resources, workload, typical, tuning, events, cluster, failed, inflation, before >>

(***************************************************************************)
(* TunePodsByNodeTotalResource.  Milli-GPU are compared with the target in *)
(* parts of TuneDen.                                                       *)
(***************************************************************************)
Excess(milli, num) == TuneDen * milli - num * totals.nodeGpu

BeginTuning ==
  /\ stage = "start"
  /\ \E num \in TuneNum :
       /\ tuning' = [num |-> num, added |-> 0]
       /\ stage' = IF \E k \in DOMAIN totals : totals[k] <= 0 THEN "error"
                   ELSE IF num = 0 \/ Excess(totals.podGpu, num) = 0 THEN "tuned"
                   ELSE IF Excess(totals.podGpu, num) > 0 THEN "tuneDown" ELSE "tuneUp"
  /\ UNCHANGED << resources, pods, workload, typical, totals, events, cluster, failed, inflation, before >>

RemovePodsByIndex(s, index) == RemoveAt(s, index)

tuneDownPods ==
  /\ stage = "tuneDown"
  /\ IF Excess(totals.podGpu, tuning.num) > 0
     THEN \E i \in DOMAIN pods :
            /\ pods' = RemovePodsByIndex(pods, i)
            /\ totals' = [totals EXCEPT !.podGpu = @ - TotalMilliGpu(pods[i].res)]
            /\ UNCHANGED stage
     ELSE stage' = "tuned" /\ UNCHANGED << pods, totals >>
  /\ UNCHANGED << resources, workload, typical, tuning, events, cluster, failed, inflation, before >>

\* Mutant: a pod is recorded with the share of one GPU.
tuneUpPodsShare ==
  /\ stage = "tuneUp"
  /\ \E i \in DOMAIN workload :
       IF Excess(totals.podGpu + workload[i].res.milli, tuning.num) > 0
       THEN stage' = "tuned" /\ UNCHANGED << pods, totals, tuning >>
       ELSE /\ tuning.added < MaxTuned
            /\ pods' = Append(pods, Tuned(workload[i], tuning.added))
            /\ totals' = [totals EXCEPT !.podGpu = @ + workload[i].res.milli]
            /\ tuning' = [tuning EXCEPT !.added = @ + 1]
            /\ UNCHANGED stage
  /\ UNCHANGED << resources, workload, typical, events, cluster, failed, inflation, before >>

\* A pod is tested with the share of one GPU and added with all of them.
tuneUpPods ==
  /\ stage = "tuneUp"
  /\ \E i \in DOMAIN workload :
       IF Excess(totals.podGpu + workload[i].res.milli, tuning.num) > 0
       THEN stage' = "tuned" /\ UNCHANGED << pods, totals, tuning >>
       ELSE /\ tuning.added < MaxTuned
            /\ pods' = Append(pods, Tuned(workload[i], tuning.added))
            /\ totals' = [totals EXCEPT !.podGpu = @ + TotalMilliGpu(workload[i].res)]
            /\ tuning' = [tuning EXCEPT !.added = @ + 1]
            /\ UNCHANGED stage
  /\ UNCHANGED << resources, workload, typical, events, cluster, failed, inflation, before >>

RunCluster ==
  /\ stage \in {"start", "tuned"}
  /\ stage' = "run"
  /\ events' = Events(pods)
  /\ UNCHANGED << resources, pods, workload, typical, totals, tuning, cluster, failed, inflation, before >>
-----------------------------------------------------------------------------
(***************************************************************************)
(* SchedulePods.                                                           *)
(***************************************************************************)
On(n) == { p \in DOMAIN cluster : cluster[p].node = n }

\* The nodes a pod may go to and has room on.
Feasible(pod) ==
  { n \in pod.only :
      /\ SumFunction([p \in On(n) |-> cluster[p].pod.res.cpu]) + pod.res.cpu <= NodeRes[n].cpu
      /\ SumFunction([p \in On(n) |-> TotalMilliGpu(cluster[p].pod.res)]) + TotalMilliGpu(pod.res)
           <= NodeRes[n].gpu }

Absent(name) == [p \in DOMAIN cluster \ {name} |-> cluster[p]]

Scheduling == events # <<>> /\ stage \in {"run", "inflate", "app"}

Marked ==
  /\ Scheduling /\ Head(events).pod.marked
  /\ failed' = failed \cup { Head(events).pod }
  /\ events' = Tail(events)
  /\ UNCHANGED << stage, resources, pods, workload, typical, totals, tuning, cluster, inflation, before >>

\* assumePod deletes, by its name, a pod that is not scheduled; and when the
\* name is taken, the pod that has it.
Create ==
  /\ Scheduling /\ ~Head(events).pod.marked /\ Head(events).op = "create"
  /\ \E pod \in { Head(events).pod } :
       IF pod.name \in DOMAIN cluster \/ Feasible(pod) = {}
       THEN /\ cluster' = Absent(pod.name)
            /\ failed' = failed \cup {pod}
       ELSE /\ \E n \in Feasible(pod) :
                 cluster' = [p \in DOMAIN cluster \cup {pod.name} |->
                               IF p = pod.name THEN [pod |-> pod, node |-> n] ELSE cluster[p]]
            /\ UNCHANGED failed
  /\ events' = Tail(events)
  /\ UNCHANGED << stage, resources, pods, workload, typical, totals, tuning, inflation, before >>

Delete ==
  /\ Scheduling /\ ~Head(events).pod.marked /\ Head(events).op = "delete"
  /\ cluster' = Absent(Head(events).pod.name)
  /\ events' = Tail(events)
  /\ UNCHANGED << stage, resources, pods, workload, typical, totals, tuning, failed, inflation, before >>

\* What follows when SchedulePods returns.
Return ==
  /\ events = <<>> /\ stage \in {"run", "inflate", "app"}
  /\ stage' = CASE stage = "run" -> "rest" [] stage = "inflate" -> "clean" [] OTHER -> "done"
  /\ UNCHANGED << resources, pods, workload, typical, totals, tuning, events, cluster, failed, inflation, before >>
-----------------------------------------------------------------------------
(***************************************************************************)
(* RunWorkloadInflationEvaluation: as many copies of pods of the workload  *)
(* as the ratio asks for, until one does not fit the recorded totals;      *)
(* they are scheduled, and deleted again.                                  *)
(***************************************************************************)
InflationNum == Inflated(Len(workload))

BeginInflation ==
  /\ stage = "rest" /\ InflateNum > InflateDen /\ workload # <<>>
  /\ stage' = "generate"
  /\ before' = cluster
  /\ UNCHANGED << resources, pods, workload, typical, totals, tuning, events, cluster, failed, inflation >>

\* generateWorkloadInflationPods, one copy.
GenerateInflationPod ==
  /\ stage = "generate" /\ Len(inflation) < InflationNum
  /\ \E i \in DOMAIN workload :
       LET res == workload[i].res
       IN IF /\ res.cpu + CpuTotal(inflation) + totals.podCpu <= totals.nodeCpu
             /\ TotalMilliGpu(res) + GpuTotal(inflation) + totals.podGpu <= totals.nodeGpu
          THEN /\ inflation' = Append(inflation, Cloned(workload[i], Len(inflation)))
               /\ UNCHANGED << stage, events >>
          ELSE stage' = "inflate" /\ events' = GivenEvents(inflation) /\ UNCHANGED inflation
  /\ UNCHANGED << resources, pods, workload, typical, totals, tuning, cluster, failed, before >>

ScheduleInflation ==
  /\ stage = "generate" /\ Len(inflation) = InflationNum
  /\ stage' = "inflate" /\ events' = GivenEvents(inflation)
  /\ UNCHANGED << resources, pods, workload, typical, totals, tuning, cluster, failed, inflation, before >>

CleanUp ==
  /\ stage = "clean"
  /\ stage' = "inflated"
  /\ cluster' = [p \in DOMAIN cluster \ { inflation[i].name : i \in DOMAIN inflation } |-> cluster[p]]
  /\ UNCHANGED << resources, pods, workload, typical, totals, tuning, events, failed, inflation, before >>

GenerateValidPodsFromAppResources ==
  { given \o PodsOfDaemonSets(App.DaemonSets, hash) :
      given \in GetValidPodExcludeDaemonSet(App),
      hash \in [DOMAIN App.DaemonSets -> [Nodes -> Hashes]] }

(***************************************************************************)
(* ScheduleApp: the pods of an app, sorted by comparators that look at one *)
(* pod only and so leave them in any order.                                *)
(***************************************************************************)
ScheduleApp ==
  /\ stage = "rest"
  /\ stage' = "app"
  /\ \E all \in GenerateValidPodsFromAppResources :
       \E order \in SetToSeqs(DOMAIN all) : events' = GivenEvents([k \in DOMAIN all |-> all[order[k]]])
  /\ UNCHANGED << resources, pods, workload, typical, totals, tuning, cluster, failed, inflation, before >>

\* Simulate has returned, or tuning has come to its bound.
Done ==
  /\ \/ stage \in {"rest", "inflated", "done", "error"}
     \/ stage = "tuneUp" /\ tuning.added = MaxTuned
  /\ UNCHANGED vars

Next ==
  \/ Import \/ RunDaemons \/ BeginTuning \/ tuneDownPods \/ tuneUpPods \/ RunCluster
  \/ Marked \/ Create \/ Delete \/ Return
  \/ BeginInflation \/ GenerateInflationPod \/ ScheduleInflation \/ CleanUp \/ ScheduleApp \/ Done

Spec == Init /\ [][Next]_vars
-----------------------------------------------------------------------------
Named(s, i) == { k \in DOMAIN s : s[k].name = s[i].name }

(***************************************************************************)
(* Every pod ends up somewhere.  Once the cluster has run, a pod is        *)
(* either there or reported as failed, one with a date of deletion after   *)
(* its creation is not there, and nothing else is; unless two pods have    *)
(* drawn the same name.  Of a daemon set each node that it may run on, and *)
(* no other, has a pod, on that node or failed, whatever the template's    *)
(* affinity was pinned to before.                                          *)
(***************************************************************************)
EveryPodEndsUp ==
  stage = "rest" =>
    /\ { cluster[p].pod : p \in DOMAIN cluster } \cup failed \subseteq { pods[i] : i \in DOMAIN pods }
    /\ \A i \in DOMAIN pods : Named(pods, i) = {i} =>
         LET there == \E p \in DOMAIN cluster : cluster[p].pod = pods[i]
         IN /\ there => ~pods[i].marked /\ pods[i] \notin failed
            /\ ~there => pods[i] \in failed \/ pods[i].deleted # NoDate
            /\ pods[i].deleted # NoDate /\ pods[i].deleted >= pods[i].created => ~there
    /\ tuning.num = 0 => \A d \in DOMAIN resources.DaemonSets :
         LET ds   == resources.DaemonSets[d]
             runs == { i \in DOMAIN pods : \E h \in Hashes : pods[i].name = Suffixed(ds.name, h) }
         IN /\ { pods[i].only : i \in runs } =
                 { {n} : n \in { n \in ds.tolerates :
                                   ds.affinity = {} \/ \E t \in ds.affinity : n \in t.labels } }
            /\ \A i, j \in runs : pods[i].only = pods[j].only => i = j

(***************************************************************************)
(* When a pod is created at its date, the pods whose time was over by then *)
(* have left, unless the pods were shuffled; all but those that leave at   *)
(* that very moment and have no date of creation.  syncPod has these come  *)
(* before all, but keeps for a date the order of SortClusterPods, which    *)
(* has them come last: each is still to leave when all pods of the date    *)
(* have been created, whatever room it takes from them.                    *)
(***************************************************************************)
RoomIsFreedFirst ==
  stage = "run" /\ events # <<>> /\ ~Shuffle =>
    LET next == Head(events)
        Over(pod) == pod.deleted \in 1 .. next.at /\ pod.created <= pod.deleted
        Late(pod) == pod.created = NoDate /\ pod.deleted = next.at
    IN next.op = "create" /\ next.at # NoDate =>
         /\ \A p \in DOMAIN cluster : Over(cluster[p].pod) => Late(cluster[p].pod)
         /\ \A i \in DOMAIN pods : Late(pods[i]) => Contains(events, Deletion(pods[i]))

(***************************************************************************)
(* The typical pods stand for the part of the workload the configuration   *)
(* asks for, no kind left out is more frequent, none could be spared but   *)
(* in the last step, and they are there if any pod is counted at all.      *)
(***************************************************************************)
TypicalCover ==
  stage \notin {"import", "error"} =>
    \A list \in { << typical.count, Frequency(workload) >>, << typical.time, RunTime(workload) >> } :
      LET kept == DOMAIN list[1]
          weight == list[2]
          all == Sum(weight, DOMAIN weight)
          reaches(S) == 100 * Sum(weight, S) >= PodPopularityThreshold * all
      IN /\ kept \subseteq DOMAIN weight /\ \A k \in kept : list[1][k] = weight[k]
         /\ all > 0 => kept # {}
         /\ reaches(kept)
         /\ \A k \in kept, j \in DOMAIN weight \ kept : weight[j] <= weight[k]
         /\ \A S \in SUBSET kept : Cardinality(S) + PodIncreaseStep <= Cardinality(kept) => ~reaches(S)

\* What a pod may put the total off by.  Of one with a share and no number of
\* GPUs the share is tested, and nothing added.
PutsOff(res) == IF res.num = 0 THEN res.milli ELSE TotalMilliGpu(res)

(***************************************************************************)
(* The tuned workload asks for the GPUs it was tuned to, to within what    *)
(* one pod asks for, and the recorded total is what its pods ask for.      *)
(***************************************************************************)
TunedNear ==
  stage = "tuned" /\ tuning.num # 0 =>
    /\ totals.podGpu = GpuTotal(pods)
    /\ \E k \in { pods[i].res : i \in DOMAIN pods } \cup { workload[i].res : i \in DOMAIN workload }
                \cup { resources.DaemonSets[d].pod.res : d \in DOMAIN resources.DaemonSets } :
         Excess(totals.podGpu, tuning.num) \in -TuneDen * PutsOff(k) .. TuneDen * PutsOff(k)

(***************************************************************************)
(* The evaluation with an inflated workload leaves nothing behind, and     *)
(* takes nothing away: the cluster is as it was.                           *)
(***************************************************************************)
InflationLeavesNothing == stage = "inflated" => cluster = before

(***************************************************************************)
(* generateWorkloadInflationPods: "avoid total resource requests of pods   *)
(* exceeding the capacity after adding inflation pods".  A workload that   *)
(* is within the capacity of the cluster still is with them.               *)
(***************************************************************************)
InflationWithinCapacity ==
  /\ CpuTotal(pods) <= totals.nodeCpu => CpuTotal(pods) + CpuTotal(inflation) <= totals.nodeCpu
  /\ GpuTotal(pods) <= totals.nodeGpu => GpuTotal(pods) + GpuTotal(inflation) <= totals.nodeGpu
=============================================================================
