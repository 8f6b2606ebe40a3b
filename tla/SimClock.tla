------------------------------ MODULE SimClock ------------------------------
(***************************************************************************)
(* Simulated time: the driver sets the clock to the start of the pod that  *)
(* arrives, deletes the pods whose end has come, and has the pod scheduled;*)
(* the Sim-Time plugin records a trace of each pod that is.  Where a pod   *)
(* gets its GPUs is left to the ledger that GpuShare implements, so a      *)
(* creation or deletion is one step here.                                  *)
(***************************************************************************)
EXTENDS GpuCluster

CONSTANTS
  NoPod, NoNode,
  Start, End,    \* the start-time and end-time annotations of each pod
  Cpu,           \* Cpu[p]: CPU pod p asks for
  CpuCapacity,   \* CpuCapacity[n]: CPU of node n
  Deletable,     \* pods that a deletion event, or a second creation, may follow
  Shuffle,       \* customConfig.ShufflePod: pods arrive in any order
  MaxArrivals    \* bound: creation events in the pod list

ASSUME ClockAssumption ==
  /\ NoPod \notin Pods /\ NoNode \notin Nodes
  /\ Start \in [Pods -> Nat] /\ End \in [Pods -> Nat]
  /\ \A p \in Pods : Start[p] <= End[p]
  /\ Cpu \in [Pods -> Nat] /\ CpuCapacity \in [Nodes -> Nat]
  /\ Deletable \subseteq Pods
  /\ Shuffle \in BOOLEAN
  /\ MaxArrivals \in Nat

VARIABLES
  alloc,      \* alloc[p]: the GPUs pod p holds
  host,       \* host[p]: the node pod p runs on
  life,       \* life[p]: how often p has been created
  snapshot,   \* <<p, k, n>>: the scheduler counts the CPU of p's life k on n
  traces,     \* fakeTime.Traces: <<p, k>> for life k of pod p
  nodeTraces, \* node2PodTraces, the traces of each node
  clock,      \* FakeCurrentTime, allEndTime and the counters
  driver      \* SchedulePods

vars == <<alloc, host, life, snapshot, traces, nodeTraces, clock, driver>>

Ledger == INSTANCE GpuLedger

Life  == Pods \X (1 .. MaxArrivals)
Clock == [now : Nat, allEnd : Nat, arrived : Nat, running : Nat, completed : Nat,
          failed : Nat, byCpu : Nat, byGpu : Nat, util : Nat,
          cpuLacked : BOOLEAN, gpuLacked : BOOLEAN]
Idle  == [pc |-> "idle", pod |-> NoPod, expired |-> {}]

TypeOK ==
  /\ alloc \in [Pods -> SUBSET Devices]
  /\ host \in [Pods -> Nodes \cup {NoNode}]
  /\ life \in [Pods -> 0 .. MaxArrivals]
  /\ snapshot \subseteq Life \X Nodes
  /\ traces \subseteq Life
  /\ nodeTraces \in [Nodes -> SUBSET Life]
  /\ clock \in Clock /\ clock.arrived <= MaxArrivals
  /\ driver \in [pc : {"idle", "release"}, pod : Pods \cup {NoPod},
                 expired : SUBSET Pods]
  /\ driver.pc = "release" => driver.pod \in Pods

Init ==
  /\ alloc = [p \in Pods |-> {}]
  /\ host = [p \in Pods |-> NoNode]
  /\ life = [p \in Pods |-> 0]
  /\ snapshot = {}
  /\ traces = {}
  /\ nodeTraces = [n \in Nodes |-> {}]
  /\ clock = [now |-> 0, allEnd |-> 0, arrived |-> 0, running |-> 0, completed |-> 0,
              failed |-> 0, byCpu |-> 0, byGpu |-> 0, util |-> 0,
              cpuLacked |-> FALSE, gpuLacked |-> FALSE]
  /\ driver = Idle

-----------------------------------------------------------------------------
(* FakeTime.                                                               *)

\* Mutant: the time is counted from the start of the simulation.
GpuTimeFromZero(tr, t) == GpuMilli[tr[1]] * GpuNum[tr[1]] * t

\* The milli-GPU of a trace over the time the pod runs up to t.
GpuTime(tr, t) == GpuMilli[tr[1]] * GpuNum[tr[1]] * (t - Start[tr[1]])

\* The same of all traces of S, up to t and up to the end of each.
GpuTimeSpent(S, t) == MapThenSumSet(LAMBDA tr : GpuTime(tr, t), S)
GpuTimeWhole(S)    == MapThenSumSet(LAMBDA tr : GpuTime(tr, End[tr[1]]), S)

\* Mutant: the pods that end right now stay.
ExpiredLate(t) == { tr \in traces : End[tr[1]] < t }

\* What ReleasePodBeforeTime pops from the heap.
Expired(t) == { tr \in traces : End[tr[1]] <= t }

\* Mutant: the pods released are not taken off the running ones.
ReleasedStillRunning(S) ==
  [clock EXCEPT !.completed = @ + Cardinality(S),
                !.util = @ + GpuTimeWhole(S)]

\* Mutant: their deletion takes the pods off the running ones once more.
ReleasedTwice(S) ==
  [clock EXCEPT !.running = @ - 2 * Cardinality(S), !.completed = @ + Cardinality(S),
                !.util = @ + GpuTimeWhole(S)]

\* ReleasePodBeforeTime, the counters.
Released(S) ==
  [clock EXCEPT !.running = @ - Cardinality(S), !.completed = @ + Cardinality(S),
                !.util = @ + GpuTimeWhole(S)]

\* Mutant: the traces of a node that end before the new one are dropped.
setPodTraceOnNodeLater(n, tr) ==
  [nodeTraces EXCEPT ![n] = {tr} \cup { x \in @ : End[x[1]] > End[tr[1]] }]

\* A node forgets the traces that have ended when it gets a new one.
setPodTraceOnNode(n, tr) ==
  [nodeTraces EXCEPT ![n] = {tr} \cup { x \in @ : End[x[1]] > clock.now }]

\* RecordPod; it is Reserve of the Sim-Time plugin.
RecordPod(n, tr) ==
  /\ traces' = traces \cup {tr}
  /\ nodeTraces' = setPodTraceOnNode(n, tr)

-----------------------------------------------------------------------------
(* What the scheduler finds on the nodes.                                  *)

Runs(p) == host[p] # NoNode

GpuFits(p, n) ==
  IsGpuPod(p) =>
    /\ n \in Accessible[p] /\ GpuNum[p] > 0
    /\ LET fits == { i \in Idx(n) :
                      GetUsedGpuMilli(Ledger!Holding(<<n, i>>)) + GpuMilli[p] <= MILLI }
       IN IF Preset[p] # {} THEN Preset[p] \subseteq fits ELSE Cardinality(fits) >= GpuNum[p]

\* The CPU of node n the scheduler's own cache counts as taken.
CpuOf(S)   == MapThenSumSet(LAMBDA x : Cpu[x[1][1]], S)
CpuUsed(n) == CpuOf({ x \in snapshot : x[2] = n })

\* Mutant: what is left is not compared with what the pod asks for.
CpuFitsAnyRoom(p, n) == CpuUsed(n) <= CpuCapacity[n]

CpuFits(p, n) == CpuUsed(n) + Cpu[p] <= CpuCapacity[n]

\* The Filter of Open-Gpu-Share notes why a node does not suit the pod.  It
\* runs on every node, whatever the other filters say.
Noted(p) ==
  [clock EXCEPT !.gpuLacked = @ \/ \E n \in Nodes : ~GpuFits(p, n),
                !.cpuLacked = @ \/ \E n \in Nodes : GpuFits(p, n) /\ ~CpuFits(p, n)]

-----------------------------------------------------------------------------
(* The driver.                                                             *)

\* A pod arrives: the window gets it, the clock is set, expired traces go.
Arrive(p) ==
  /\ driver.pc = "idle" /\ clock.arrived < MaxArrivals
  /\ life[p] = 0 \/ p \in Deletable
  /\ Shuffle \/ clock.now <= Start[p]
  /\ LET S == Expired(Start[p]) IN
     /\ traces' = traces \ S
     /\ clock' = [Released(S) EXCEPT !.now = Start[p], !.arrived = @ + 1]
     /\ driver' = [pc |-> "release", pod |-> p, expired |-> { tr[1] : tr \in S }]
  /\ UNCHANGED <<alloc, host, life, snapshot, nodeTraces>>

Stop(p) ==
  /\ host' = [host EXCEPT ![p] = NoNode]
  /\ alloc' = [alloc EXCEPT ![p] = {}]

\* deletePodByName of an expired trace; there may be no such pod any more.
DeleteExpired(p) ==
  /\ driver.pc = "release" /\ p \in driver.expired
  /\ Stop(p)
  /\ driver' = [driver EXCEPT !.expired = @ \ {p}]
  /\ UNCHANGED <<life, snapshot, traces, nodeTraces, clock>>

Ready == driver.pc = "release" /\ driver.expired = {}

\* SchedulePods counts a failure under the cause the flags name, and resets them.
Failed(c) ==
  [c EXCEPT !.failed = @ + 1,
            !.byCpu = IF c.cpuLacked THEN @ + 1 ELSE @,
            !.byGpu = IF c.gpuLacked /\ ~c.cpuLacked THEN @ + 1 ELSE @,
            !.cpuLacked = FALSE, !.gpuLacked = FALSE]

\* createPod fails on a name that exists, and that pod is deleted.
CreateDuplicate ==
  /\ Ready /\ Runs(driver.pod)
  /\ Stop(driver.pod)
  /\ clock' = Failed(clock)
  /\ driver' = Idle
  /\ UNCHANGED <<life, snapshot, traces, nodeTraces>>

\* The pod is created and scheduled; Reserve records its trace.
Schedule(n) ==
  LET p  == driver.pod
      tr == <<p, life[p] + 1>>
  IN /\ Ready /\ ~Runs(p) /\ life[p] < MaxArrivals
     /\ GpuFits(p, n) /\ CpuFits(p, n)
     /\ IF IsGpuPod(p) THEN \E ids \in SUBSET Idx(n) : Ledger!Place(p, n, ids)
        ELSE UNCHANGED alloc
     /\ host' = [host EXCEPT ![p] = n]
     /\ life' = [life EXCEPT ![p] = @ + 1]
     /\ snapshot' = snapshot \cup {<<tr, n>>}
     /\ RecordPod(n, tr)
     /\ clock' = [Noted(p) EXCEPT !.running = @ + 1,
                                  !.allEnd = IF End[p] > @ THEN End[p] ELSE @]
     /\ driver' = Idle

\* No node suits the pod, or other filters than these two turn it down: it is
\* deleted, and counted.
Reject ==
  LET p == driver.pod IN
  /\ Ready /\ ~Runs(p) /\ life[p] < MaxArrivals
  /\ life' = [life EXCEPT ![p] = @ + 1]
  /\ clock' = Failed(Noted(p))
  /\ driver' = Idle
  /\ UNCHANGED <<alloc, host, snapshot, traces, nodeTraces>>

\* A deletion event.  The trace of the pod stays where it is.
DeleteEvent(p) ==
  /\ driver.pc = "idle" /\ p \in Deletable
  /\ Stop(p)
  /\ UNCHANGED <<life, snapshot, traces, nodeTraces, clock, driver>>

\* The scheduler's cache hears of a deletion, sooner or later.
CacheForgets(x) ==
  /\ x \in snapshot
  /\ LET p == x[1][1] IN host[p] = NoNode \/ life[p] # x[1][2]
  /\ snapshot' = snapshot \ {x}
  /\ UNCHANGED <<alloc, host, life, traces, nodeTraces, clock, driver>>

Next ==
  \/ \E p \in Pods : Arrive(p) \/ DeleteExpired(p) \/ DeleteEvent(p)
  \/ \E n \in Nodes : Schedule(n)
  \/ CreateDuplicate \/ Reject
  \/ \E x \in snapshot : CacheForgets(x)

Spec == Init /\ [][Next]_vars

-----------------------------------------------------------------------------
(***************************************************************************)
(* When a pod is about to be created, every pod whose end has come has     *)
(* gone: its GPUs are free for the newcomer (ReleasePodBeforeTime, "Remove *)
(* expired Pods before scheduling").                                       *)
(***************************************************************************)
NoOverstay == Ready => \A p \in Pods : Runs(p) => End[p] > clock.now

(***************************************************************************)
(* A pod that runs has the trace that will end it, and its node's list     *)
(* shows that trace to the scores, whatever the order of arrivals and      *)
(* deletions (RecordPod, setPodTraceOnNode).                               *)
(***************************************************************************)
TracesCover ==
  \A p \in Pods : Runs(p) =>
    /\ <<p, life[p]>> \in traces \/ p \in driver.expired
    /\ <<p, life[p]>> \in nodeTraces[host[p]]

(***************************************************************************)
(* Between two pods each one that has arrived is running, completed or     *)
(* failed, and in one of the three only (FakeTimeReport).                  *)
(***************************************************************************)
EveryPodCounted ==
  driver.pc = "idle" =>
    /\ clock.arrived = clock.running + clock.completed + clock.failed
    /\ clock.running = Cardinality(traces)

(***************************************************************************)
(* The scheduler never puts more on a node than its CPUs, though its cache *)
(* lags behind the deletions (GetNodeResourceViaNode).                     *)
(***************************************************************************)
CpuSuffices ==
  \A n \in Nodes :
    MapThenSumSet(LAMBDA p : Cpu[p], { p \in Pods : host[p] = n }) <= CpuCapacity[n]

Capacity == MILLI * MapThenSumSet(LAMBDA n : GpuCount[n], Nodes)

(***************************************************************************)
(* The utilisation reported is one a cluster of this size can have: no     *)
(* more milli-GPU time than its GPUs have had by now, and than they have   *)
(* had when the last pod ends.  Of workloads in the order of their start,  *)
(* without deletions (GpuUtils, GpuUtilsAfterAll).                         *)
(***************************************************************************)
UtilPossible ==
  /\ clock.util + GpuTimeSpent(traces, clock.now) <= Capacity * clock.now
  /\ clock.util + GpuTimeWhole(traces) <= Capacity * clock.allEnd

(***************************************************************************)
(* "failed to schedule pod ... by cpu lack": a failure is counted under    *)
(* CPU only when some node with room on its GPUs lacks the CPU for the pod.*)
(***************************************************************************)
CpuLackIsReal ==
  [][clock'.byCpu > clock.byCpu =>
       \E n \in Nodes : GpuFits(driver.pod, n) /\ ~CpuFits(driver.pod, n)]_vars

-----------------------------------------------------------------------------
(* An inductive invariant, for the proofs.                                 *)

\* Types, but for the sums of the utilisation.
Shape ==
  /\ host \in [Pods -> Nodes \cup {NoNode}]
  /\ life \in [Pods -> Nat]
  /\ traces \subseteq Pods \X Nat /\ IsFiniteSet(traces)
  /\ nodeTraces \in [Nodes -> SUBSET (Pods \X Nat)]
  /\ \/ driver = Idle
     \/ driver \in [pc : {"release"}, pod : Pods, expired : SUBSET Pods]

\* The same of the clock.
ClockShape ==
  /\ clock = [now |-> clock.now, allEnd |-> clock.allEnd, arrived |-> clock.arrived,
              running |-> clock.running, completed |-> clock.completed,
              failed |-> clock.failed, byCpu |-> clock.byCpu, byGpu |-> clock.byGpu,
              util |-> clock.util, cpuLacked |-> clock.cpuLacked,
              gpuLacked |-> clock.gpuLacked]
  /\ clock.now \in Nat /\ clock.arrived \in Nat
  /\ clock.completed \in Nat /\ clock.failed \in Nat

\* While expired pods are deleted, the traces that are left end later.
Popped == driver.pc = "release" => \A tr \in traces : End[tr[1]] > clock.now

\* No trace is of a life that has not begun.
Begun == \A tr \in traces : tr[2] <= life[tr[1]]

\* The pod on its way is in none of the counters.
Balance ==
  /\ clock.running = Cardinality(traces)
  /\ clock.arrived = clock.running + clock.completed + clock.failed
                       + (IF driver.pc = "idle" THEN 0 ELSE 1)

(***************************************************************************)
(* Every trace belongs to a life of its pod and is popped when it is due,  *)
(* every pod that runs has one, and each arrival is counted once           *)
(* (SchedulePods with ReleasePodBeforeTime and RecordPod).                 *)
(***************************************************************************)
ClockInv == Shape /\ ClockShape /\ Popped /\ Begun /\ Balance /\ TracesCover

\* The scheduler's cache counts every pod that runs, and never counts more on a
\* node than the node has.
CpuCounted ==
  /\ IsFiniteSet(snapshot)
  /\ \A p \in Pods : Runs(p) => <<<<p, life[p]>>, host[p]>> \in snapshot
  /\ \A n \in Nodes : CpuUsed(n) <= CpuCapacity[n]

(***************************************************************************)
(* With the scheduler's cache and the types of every variable.             *)
(***************************************************************************)
RunInv == ClockInv /\ TypeOK /\ CpuCounted

\* No GPU is overcommitted, and a pod holds the GPUs its trace counts.
GpusHeld ==
  /\ \A d \in Devices : GetUsedGpuMilli(Ledger!Holding(d)) <= MILLI
  /\ \A tr \in traces : IsGpuPod(tr[1]) => GpuNum[tr[1]] <= Cardinality(alloc[tr[1]])

\* Without deletions a pod has one life, which begins as it arrives.
OneLife ==
  /\ \A tr \in traces : tr[2] = 1 /\ tr[1] \notin driver.expired
  /\ driver.pc = "release" => life[driver.pod] = 0 /\ Start[driver.pod] = clock.now

(***************************************************************************)
(* With what bounds the utilisation, for a workload in the order of its    *)
(* start and without deletions.                                            *)
(***************************************************************************)
UtilInv ==
  /\ RunInv /\ GpusHeld /\ OneLife
  /\ \A tr \in traces : End[tr[1]] <= clock.allEnd
  /\ UtilPossible
=============================================================================
