----------------------------- MODULE Deschedule -----------------------------
(***************************************************************************)
(* Descheduling: pods are evicted from nodes they fit badly or fragment,   *)
(* and scheduled again (simulator/deschedule.go, deschedule_utils.go),     *)
(* with the memo of the fragmentation amounts and the report they share    *)
(* with the rest of the simulator (simulator/analysis.go).                 *)
(*                                                                         *)
(* Nodes and pods are numbers, in the order in which the API lists them.   *)
(***************************************************************************)
EXTENDS NodeFrag

CONSTANTS
  Nodes, Pods,        \* numbers
  NodeRes,            \* NodeRes[n]: the resource of node n with nothing on it
  PodRes,             \* PodRes[p]: the resource pod p asks for
  Distributions,      \* the typical pods a workload may have
  Policies,           \* the descheduling policies to try
  RatioNum, RatioDen, \* DescheduleConfig.Ratio
  CpuBar, GpuBar,     \* milliCpuBar and milliGpuBar
  MaxRuns             \* bound: how often the cluster is descheduled

\* Every node is empty at first and has no more GPUs than its key has room for;
\* a pod that asks for no share of a GPU gets none; the weights of typical pods
\* are positive.
ASSUME DescheduleAssumption ==
  /\ IsFiniteSet(Nodes) /\ Nodes \subseteq Nat \ {0}
  /\ IsFiniteSet(Pods) /\ Pods \subseteq Nat \ {0}
  /\ NodeRes \in [Nodes -> NodeResources]
  /\ \A n \in Nodes : /\ NodeRes[n].cpu = NodeRes[n].cap
                     /\ Len(NodeRes[n].gpu) <= MaxNumGpuPerNode
                     /\ \A i \in DOMAIN NodeRes[n].gpu : NodeRes[n].gpu[i] = MILLI
  /\ PodRes \in [Pods -> PodResources]
  /\ \A p \in Pods : PodRes[p].num > 0 => PodRes[p].milli > 0
  /\ \A D \in Distributions : /\ IsFiniteSet(DOMAIN D) /\ DOMAIN D # {}
                             /\ DOMAIN D \subseteq PodResources
                             /\ \A q \in DOMAIN D : D[q] \in Nat \ {0}
  /\ Policies \subseteq {"cosSim", "fragOnePod", "fragMultiPod"}
  /\ RatioNum \in Nat /\ RatioDen \in Nat \ {0}

VARIABLES
  placed,     \* placed[p]: the node and the GPUs of pod p
  typical,    \* the typical pods
  memo,       \* fragMemo: fragmentation amounts by flattened node
  ds,         \* the descheduling in progress
  report      \* what the last cluster report said

vars == << placed, typical, memo, ds, report >>

Nowhere == [node |-> 0, ids |-> {}]
On(n)   == { p \in Pods : placed[p].node = n }
Placed  == { p \in Pods : placed[p] # Nowhere }

\* A node with the pods of S on it, where pod p has the GPUs placed[p].ids.
Loaded(n, S) ==
  [NodeRes[n] EXCEPT
     !.cpu = @ - SumFunction([p \in S |-> PodRes[p].cpu]),
     !.gpu = [i \in DOMAIN @ |->
                @[i] - SumFunction([p \in { q \in S : i \in placed[q].ids } |-> PodRes[p].milli])]]

\* GetNodeResourceMap at rest.
NodeResourceMap == [n \in Nodes |-> Loaded(n, On(n))]

\* The nodes and GPUs the scheduler may give a pod.
Places(p) ==
  { place \in [node : Nodes, ids : SUBSET (1 .. MaxNumGpuPerNode)] :
      LET node == Loaded(place.node, On(place.node))
      IN /\ place.ids \subseteq DOMAIN node.gpu
         /\ Cardinality(place.ids) = PodRes[p].num
         /\ node.cpu >= PodRes[p].cpu
         /\ PodRes[p].num > 0 => IsNodeAccessibleToPod(node, PodRes[p])
         /\ \A i \in place.ids : node.gpu[i] >= PodRes[p].milli }

\* The index list in the annotation of a pod, read when it was placed as in held.
GpuIdList(held, p) == SortBy(held[p].ids, <)
-----------------------------------------------------------------------------
(***************************************************************************)
(* Fragmentation amounts are looked up under the flattened node and        *)
(* computed once per key.  Remember(S) is the memo once the nodes of S     *)
(* have been asked for.                                                    *)
(***************************************************************************)
Remember(S) ==
  [k \in DOMAIN memo \cup { Flatten(x) : x \in S } |->
     IF k \in DOMAIN memo THEN memo[k]
     ELSE NodeGpuShareFragAmount(CHOOSE x \in S : Flatten(x) = k, typical)]

NodeGpuFragAmount(m, node) == m[Flatten(node)]
Priority(m, node) == FragAmountSumExceptQ3(NodeGpuFragAmount(m, node))

Weight == SumFunction(typical)

(***************************************************************************)
(* The queue of nodes, a binary heap in a sequence.  The standard heap     *)
(* operations, and the queue's own Push, which appends and repairs.        *)
(***************************************************************************)
Higher(x, y)     == x.priority > y.priority
Swapped(q, i, j) == [k \in DOMAIN q |-> IF k = i THEN q[j] ELSE IF k = j THEN q[i] ELSE q[k]]

\* One turn of the loops up and down: the item at h.at changes places with its
\* parent, or with the higher of its children, if it must, or stays.
Rise(h) ==
  IF h.at > 1 /\ Higher(h.q[h.at], h.q[h.at \div 2])
  THEN [q |-> Swapped(h.q, h.at, h.at \div 2), at |-> h.at \div 2] ELSE h

Sink(h) ==
  LET l == 2 * h.at
      c == IF l + 1 <= Len(h.q) /\ Higher(h.q[l + 1], h.q[l]) THEN l + 1 ELSE l
  IN IF l <= Len(h.q) /\ Higher(h.q[c], h.q[h.at]) THEN [q |-> Swapped(h.q, h.at, c), at |-> c] ELSE h

\* There are fewer turns than items before one stays.
Up(q, j)   == FoldLeft(LAMBDA h, k : Rise(h), [q |-> q, at |-> j], q).q
Down(q, i) == FoldLeft(LAMBDA h, k : Sink(h), [q |-> q, at |-> i], q).q

Fix(q, i)   == IF Down(q, i) # q THEN Down(q, i) ELSE Up(q, i)
Heapify(q)  == FoldLeft(LAMBDA h, k : Down(h, (Len(q) \div 2) + 1 - k), q,
                        [k \in 1 .. (Len(q) \div 2) |-> k])
PopRest(q)  == IF Len(q) = 1 THEN <<>> ELSE Down(Front(Swapped(q, 1, Len(q))), 1)

\* Mutant: appended, and not repaired.
PushUnfixed(q, item) == Append(q, item)

Push(q, item) == Fix(Append(q, item), Len(q) + 1)
-----------------------------------------------------------------------------
(***************************************************************************)
(* Victims.  A pod whose resources cannot be added back is passed over.    *)
(***************************************************************************)
Candidates(node, S) == { p \in S : Add(node, PodRes[p], GpuIdList(ds.held, p)).ok }
Without(node, p)    == Add(node, PodRes[p], GpuIdList(ds.held, p)).node

\* How much the fragmentation falls when p leaves, in whole milli-GPU.
Relief(m, priority, node, p) == (priority - Priority(m, Without(node, p))) \div Weight

\* Mutant: a pod that relieves nothing may be the best there is.
FragVictimAny(m, priority, node, S) ==
  LET relief == [p \in Candidates(node, S) |-> Relief(m, priority, node, p)]
  IN IF DOMAIN relief = {} THEN 0
     ELSE Min({ p \in DOMAIN relief : \A q \in DOMAIN relief : relief[q] <= relief[p] })

\* findVictimPodOnNodeFragAware: the first pod that relieves most, 0 for none.
FragVictim(m, priority, node, S) ==
  LET relief == [p \in Candidates(node, S) |-> Relief(m, priority, node, p)]
      most   == Max({ relief[p] : p \in DOMAIN relief } \cup {0})
  IN IF most = 0 THEN 0 ELSE Min({ p \in DOMAIN relief : relief[p] = most })

\* The cosine of the angle between what the node would have and what the pod
\* asks for, squared, as a fraction; <<0, 0>> for a vector that is zero.
Similarity(node, pod) ==
  LET gpu == GetTotalMilliGpuLeft(node)
      dot == node.cpu * pod.cpu + gpu * TotalMilliGpu(pod)
  IN << dot * dot, (node.cpu * node.cpu + gpu * gpu)
                     * (pod.cpu * pod.cpu + TotalMilliGpu(pod) * TotalMilliGpu(pod)) >>

(***************************************************************************)
(* findVictimPodOnCosSim: the first pod that is least like what would be   *)
(* left.  A pod that is exactly like it has a similarity of one, which a   *)
(* float may round down, so that it may be taken if there is no other.     *)
(***************************************************************************)
CosVictims(node, S) ==
  LET Sim(p)  == Similarity(Without(node, p), PodRes[p])
      Less2(p, q) == Sim(p)[1] * Sim(q)[2] < Sim(q)[1] * Sim(p)[2]
      known   == { p \in Candidates(node, S) : Sim(p)[2] # 0 }
      unlike  == { p \in known : Sim(p)[1] < Sim(p)[2] }
  IN IF unlike = {} THEN known \cup {0}
     ELSE { p \in unlike : \A q \in unlike : Less2(p, q) \/ (~Less2(q, p) /\ p <= q) }

\* The nodes CosSim takes victims from.
Crowded(node) == node.cpu < CpuBar /\ \E i \in DOMAIN node.gpu : node.gpu[i] > GpuBar

\* sortNodeStatusByResource: short of CPU first, then by GPU left, then by name.
ByResource(res) ==
  LET Gpu(n) == GetTotalMilliGpuLeft(res[n])
      Before(m, n) ==
        IF (res[m].cpu < CpuBar) # (res[n].cpu < CpuBar) THEN res[m].cpu < CpuBar
        ELSE Gpu(m) > Gpu(n) \/ (Gpu(m) = Gpu(n) /\ m < n)
  IN SetToSortSeq(Nodes, Before)
-----------------------------------------------------------------------------
Rest == [pc |-> "idle", runs |-> 0, policy |-> "", left |-> 0, todo |-> <<>>, queue |-> <<>>,
         res |-> <<>>, held |-> <<>>, pods |-> <<>>, evicted |-> <<>>, failed |-> {}]

Init ==
  /\ placed \in [Pods -> { Nowhere } \cup [node : Nodes, ids : SUBSET (1 .. MaxNumGpuPerNode)]]
  /\ \A p \in Placed : /\ placed[p].ids \subseteq DOMAIN NodeRes[placed[p].node].gpu
                       /\ Cardinality(placed[p].ids) = PodRes[p].num
                       /\ PodRes[p].num > 0 => IsNodeAccessibleToPod(NodeRes[placed[p].node], PodRes[p])
  /\ \A n \in Nodes : LET node == Loaded(n, On(n))
                      IN node.cpu >= 0 /\ \A i \in DOMAIN node.gpu : node.gpu[i] >= 0
  /\ typical \in Distributions
  /\ memo = <<>>
  /\ ds = [Rest EXCEPT !.failed = Pods \ Placed]
  /\ report = [used |-> 0, usedMilli |-> 0, frag |-> [t \in FragTypes |-> 0],
                alloc |-> [cpu |-> 0, gpu |-> 0, milli |-> 0]]

\* Mutant: the amounts of the old typical pods are kept.
SetTypicalPodsOnly ==
  /\ ds.pc = "idle" /\ ds.runs \in 1 .. (MaxRuns - 1)
  /\ typical' \in Distributions \ { typical }
  /\ UNCHANGED << placed, memo, ds, report >>

\* The workload has changed.
SetTypicalPods ==
  /\ ds.pc = "idle" /\ ds.runs \in 1 .. (MaxRuns - 1)
  /\ typical' \in Distributions \ { typical }
  /\ memo' = <<>>
  /\ UNCHANGED << placed, ds, report >>

(***************************************************************************)
(* DescheduleCluster reads the cluster once and works through its nodes in *)
(* an order its policy gives.                                              *)
(***************************************************************************)
Begin(policy) ==
  LET res == NodeResourceMap
      priority == [n \in Nodes |-> Priority(memo', res[n])]
  IN /\ ds.pc = "idle" /\ ds.runs < MaxRuns
     /\ memo' = IF policy = "cosSim" THEN memo ELSE Remember({ res[n] : n \in Nodes })
     /\ \E order \in SetToSeqs(Nodes) :
          /\ policy = "cosSim" => order = ByResource(res)
          /\ policy = "fragOnePod" =>
               \A i, j \in DOMAIN order : i < j => priority[order[i]] >= priority[order[j]]
          /\ ds' = [ds EXCEPT
               !.pc = "evict", !.runs = @ + 1, !.policy = policy,
               !.left = (RatioNum * Cardinality(Placed) + RatioDen - 1) \div RatioDen,
               !.todo = IF policy = "fragMultiPod" THEN <<>> ELSE order,
               !.queue = IF policy # "fragMultiPod" THEN <<>>
                         ELSE Heapify([k \in DOMAIN order |->
                                [node |-> order[k], priority |-> priority[order[k]]]]),
               !.res = res, !.held = placed, !.pods = [n \in Nodes |-> On(n)],
               !.evicted = <<>>]
     /\ UNCHANGED << placed, typical, report >>

\* deletePod of a victim.
Evict(p) == placed' = [placed EXCEPT ![p] = Nowhere]

\* Mutant: an eviction is not counted.
CosSimNodeUncounted ==
  LET n == Head(ds.todo)
  IN /\ ds.pc = "evict" /\ ds.policy = "cosSim" /\ ds.left > 0 /\ ds.todo # <<>>
     /\ \E p \in IF Crowded(ds.res[n]) THEN CosVictims(ds.res[n], ds.pods[n]) ELSE {0} :
          IF p = 0
          THEN /\ ds' = [ds EXCEPT !.todo = Tail(@)]
               /\ UNCHANGED placed
          ELSE /\ Evict(p)
               /\ ds' = [ds EXCEPT !.todo = Tail(@), !.evicted = Append(@, p)]
     /\ UNCHANGED << typical, memo, report >>

CosSimNode ==
  LET n == Head(ds.todo)
  IN /\ ds.pc = "evict" /\ ds.policy = "cosSim" /\ ds.left > 0 /\ ds.todo # <<>>
     /\ \E p \in IF Crowded(ds.res[n]) THEN CosVictims(ds.res[n], ds.pods[n]) ELSE {0} :
          IF p = 0
          THEN /\ ds' = [ds EXCEPT !.todo = Tail(@)]
               /\ UNCHANGED placed
          ELSE /\ Evict(p)
               /\ ds' = [ds EXCEPT !.todo = Tail(@), !.evicted = Append(@, p), !.left = @ - 1]
     /\ UNCHANGED << typical, memo, report >>

\* The node as it was read at the beginning.
Read(n) == ds.res[n]

\* The memo once the candidates of node n have been looked at.
Asked(n) == Remember({ Without(Read(n), p) : p \in Candidates(Read(n), ds.pods[n]) })

FragOnePod ==
  LET n == Head(ds.todo)
  IN /\ ds.pc = "evict" /\ ds.policy = "fragOnePod" /\ ds.left > 0 /\ ds.todo # <<>>
     /\ memo' = Asked(n)
     /\ \E p \in { FragVictim(memo', Priority(memo', Read(n)), Read(n), ds.pods[n]) } :
          IF p = 0
          THEN /\ ds' = [ds EXCEPT !.todo = Tail(@)]
               /\ UNCHANGED placed
          ELSE /\ Evict(p)
               /\ ds' = [ds EXCEPT !.todo = Tail(@), !.evicted = Append(@, p), !.left = @ - 1]
     /\ UNCHANGED << typical, report >>

RemovePodFromPodSlice(pods, n, p) == [pods EXCEPT ![n] = @ \ {p}]

\* Mutant: a node without a victim goes back into the queue as well.
AfterPopAlways(q, n, p, priority) == Push(PopRest(q), [node |-> n, priority |-> priority])

\* The queue once its head was popped: a node goes back after an eviction.
AfterPop(q, n, p, priority) ==
  IF p = 0 THEN PopRest(q) ELSE Push(PopRest(q), [node |-> n, priority |-> priority])

\* The second victim of a node is looked for in what Read gives, but compared
\* with the priority the first has left.
FragMultiPod ==
  LET item == Head(ds.queue)
      n == item.node
  IN /\ ds.pc = "evict" /\ ds.policy = "fragMultiPod" /\ ds.left > 0 /\ ds.queue # <<>>
     /\ memo' = Asked(n)
     /\ \E p \in { FragVictim(memo', item.priority, Read(n), ds.pods[n]) } :
          IF p = 0
          THEN /\ ds' = [ds EXCEPT !.queue = AfterPop(@, n, p, item.priority)]
               /\ UNCHANGED placed
          ELSE \E priority \in { Priority(memo', Without(Read(n), p)) } :
               /\ Evict(p)
               /\ ds' = [ds EXCEPT !.queue = AfterPop(@, n, p, priority),
                                   !.pods = RemovePodFromPodSlice(@, n, p),
                                   !.evicted = Append(@, p), !.left = @ - 1]
     /\ UNCHANGED << typical, report >>

(***************************************************************************)
(* The reports.  ClusterGpuFragReport, which follows every pod event,      *)
(* counts the GPUs that are not idle on the nodes that are used at all.    *)
(* ClusterAnalysis sums the fragmentation, and what GetNodeAllocMap finds: *)
(* the requests of the pods, and the GPUs by the node annotation.          *)
(***************************************************************************)
\* Mutant: a node with an idle GPU counts as unused.
UsedNodesFull(res) == { n \in Nodes : GetFullyFreeGpuNum(res[n]) = 0 }

UsedNodes(res) ==
  { n \in Nodes : GetFullyFreeGpuNum(res[n]) < Len(res[n].gpu) \/ res[n].cpu < res[n].cap }

ClusterGpuFragReport(res) ==
  [report EXCEPT
     !.used = SumFunction([n \in UsedNodes(res) |->
                             Cardinality({ i \in DOMAIN res[n].gpu : res[n].gpu[i] # MILLI })]),
     !.usedMilli = SumFunction([n \in UsedNodes(res) |->
                                  Len(res[n].gpu) * MILLI - GetTotalMilliGpuLeft(res[n])])]

\* The milli-GPU in use by the device in a node's annotation.
GpuUsedMilli(n, i) == SumFunction([p \in { q \in On(n) : i \in placed[q].ids } |-> PodRes[p].milli])

AllocMap(n) ==
  LET devs == DOMAIN NodeRes[n].gpu
  IN [cpu   |-> SumFunction([p \in On(n) |-> PodRes[p].cpu]),
      gpu   |-> Cardinality({ i \in devs : GpuUsedMilli(n, i) > 0 }),
      milli |-> SumFunction([i \in devs |-> GpuUsedMilli(n, i)])]

AllocationRate ==
  [k \in {"cpu", "gpu", "milli"} |-> SumFunction([n \in Nodes |-> AllocMap(n)[k]])]

ClusterAnalysis(res) ==
  [report EXCEPT !.frag = AddFragAmounts([n \in Nodes |-> NodeGpuFragAmount(memo', res[n])], Nodes),
                 !.alloc = AllocationRate]

PostEviction ==
  /\ ds.pc = "evict" /\ (ds.left <= 0 \/ (ds.todo = <<>> /\ ds.queue = <<>>))
  /\ memo' = Remember({ NodeResourceMap[n] : n \in Nodes })
  /\ report' = ClusterAnalysis(NodeResourceMap)
  /\ ds' = [ds EXCEPT !.pc = "schedule", !.left = 0, !.todo = <<>>, !.queue = <<>>, !.res = <<>>,
                      !.held = <<>>, !.pods = <<>>]
  /\ UNCHANGED << placed, typical >>

\* SchedulePods of the evicted pods, in the order of their eviction.
Reschedule ==
  /\ ds.pc = "schedule" /\ ds.evicted # <<>>
  /\ LET p == Head(ds.evicted)
     IN IF Places(p) = {}
        THEN /\ ds' = [ds EXCEPT !.evicted = Tail(@), !.failed = @ \cup {p}]
             /\ UNCHANGED placed
        ELSE /\ \E place \in Places(p) : placed' = [placed EXCEPT ![p] = place]
             /\ ds' = [ds EXCEPT !.evicted = Tail(@)]
  /\ memo' = Remember({ NodeResourceMap[n]' : n \in Nodes })
  /\ report' = ClusterGpuFragReport(NodeResourceMap')
  /\ UNCHANGED typical

Return ==
  /\ ds.pc = "schedule" /\ ds.evicted = <<>>
  /\ ds' = [ds EXCEPT !.pc = "idle"]
  /\ UNCHANGED << placed, typical, memo, report >>

\* The last descheduling is over.
Done == ds.pc = "idle" /\ ds.runs = MaxRuns /\ UNCHANGED vars

Step == CosSimNode \/ FragOnePod \/ FragMultiPod \/ PostEviction \/ Reschedule \/ Return
Next == (\E policy \in Policies : Begin(policy)) \/ Step \/ SetTypicalPods \/ Done

Spec == Init /\ [][Next]_vars

(***************************************************************************)
(* One goroutine runs the loops: it does not stop in the middle of them.   *)
(* This is weak fairness of Step, which is enabled until descheduling is   *)
(* over; that it is, is what the absence of deadlock shows.                *)
(***************************************************************************)
FairSpec == Spec /\ ([]<>(ds.pc = "idle") \/ []<><<Step>>_vars)
-----------------------------------------------------------------------------
NodeFragmentation(n) ==
  FragAmountSumExceptQ3(NodeGpuShareFragAmount(Loaded(n, On(n)), typical))

(***************************************************************************)
(* What a pod that is given back leaves is the node without it: Add, from  *)
(* the index list in the pod's annotation, undoes any placement, so that   *)
(* no victim is passed over for an error and none is judged by a node that *)
(* will not be.                                                            *)
(***************************************************************************)
AddUndoesPlacement ==
  ds.pc = "idle" => \A p \in Placed :
    Add(Loaded(placed[p].node, On(placed[p].node)), PodRes[p], GpuIdList(placed, p))
      = [ok |-> TRUE, node |-> Loaded(placed[p].node, On(placed[p].node) \ {p})]

(***************************************************************************)
(* The memo answers for a node what a fresh calculation would, whatever    *)
(* other nodes it was filled for and whichever typical pods it has seen.   *)
(***************************************************************************)
MemoSound ==
  \A n \in Nodes : LET node == Loaded(n, On(n))
    IN Flatten(node) \in DOMAIN memo => memo[Flatten(node)] = NodeGpuShareFragAmount(node, typical)

(***************************************************************************)
(* The head of the queue is a node with the highest priority, however      *)
(* often nodes were pushed back with other priorities.                     *)
(***************************************************************************)
HeadIsWorst == \A k \in DOMAIN ds.queue : ~Higher(ds.queue[k], ds.queue[1])

(***************************************************************************)
(* A pod is evicted at most once in a descheduling, no more are evicted    *)
(* than the ratio allows of those there were, by any policy, and every pod *)
(* is somewhere: on a node, waiting to be scheduled again, or among those  *)
(* that failed.                                                            *)
(***************************************************************************)
EvictedOnce ==
  LET waiting == Range(ds.evicted)
  IN /\ Cardinality(waiting) = Len(ds.evicted)
     /\ waiting \cap Placed = {}
     /\ Placed \cup waiting \cup ds.failed = Pods
     /\ ds.pc = "evict" =>
          Len(ds.evicted) + ds.left
            <= (RatioNum * Cardinality({ p \in Pods : ds.held[p] # Nowhere }) + RatioDen - 1) \div RatioDen

(***************************************************************************)
(* descheduleClusterOnFragMultiPod goes on with a node that has lost a     *)
(* pod: it will "update the nodeFragQueue", "remove one pod" and "update   *)
(* the nodeStatus".  So a node it is through with has no pod left whose    *)
(* leaving would lower the fragmentation of the node as it then is.        *)
(***************************************************************************)
NoVictimLeft ==
  ds.pc = "evict" /\ ds.policy = "fragMultiPod" =>
    \A n \in Nodes : (\A k \in DOMAIN ds.queue : ds.queue[k].node # n) =>
      \A p \in On(n) :
        LET left == FragAmountSumExceptQ3(NodeGpuShareFragAmount(Loaded(n, On(n) \ {p}), typical))
        IN (NodeFragmentation(n) - left) \div Weight <= 0

(***************************************************************************)
(* A victim's leaving lowers the fragmentation of its node:                *)
(* findVictimPodOnNodeFragAware passes over the pods whose descheduling    *)
(* brings more fragment, by amounts that come from the memo and, for       *)
(* fragMultiPod, from the queue.                                           *)
(***************************************************************************)
EvictionRelieves ==
  [][\A n \in Nodes :
       ds.pc = "evict" /\ ds.policy # "cosSim" /\ On(n)' # On(n)
       => NodeFragmentation(n)' < NodeFragmentation(n)]_vars

(***************************************************************************)
(* The reports tell the truth.  The one after each pod counts the GPUs     *)
(* that pods hold and the milli-GPU they hold of them; the analysis after  *)
(* the evictions accounts for every milli-GPU of the cluster, as allocated *)
(* or in one of the fragmentation cases, though it takes the former from   *)
(* the annotations and the latter from the memo.                           *)
(***************************************************************************)
ReportIsTrue ==
  [][LET used == Cardinality({ g \in Nodes \X (1 .. MaxNumGpuPerNode) :
                                 \E p \in Placed : placed[p].node = g[1] /\ g[2] \in placed[p].ids })
         usedMilli == SumFunction([p \in Placed |-> TotalMilliGpu(PodRes[p])])
         capacity  == SumFunction([n \in Nodes |-> MILLI * Len(NodeRes[n].gpu)])
     IN /\ ds'.pc = "schedule" /\ ds.pc = "schedule" => report'.used = used' /\ report'.usedMilli = usedMilli'
        /\ ds'.pc = "schedule" /\ ds.pc = "evict" =>
             /\ report'.alloc.gpu = used /\ report'.alloc.milli = usedMilli
             /\ SumFunction([t \in FragTypes |-> report'.frag[t]])
                  + Weight * report'.alloc.milli = Weight * capacity]_vars

(***************************************************************************)
(* Descheduling ends: every node popped either loses a pod or is not       *)
(* looked at again.                                                        *)
(***************************************************************************)
DescheduleEnds == ds.pc # "idle" ~> ds.pc = "idle"
=============================================================================
