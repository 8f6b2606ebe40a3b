--------------------------- MODULE SimClockProofs ---------------------------
(***************************************************************************)
(* Proofs about SimClock, for every cluster, every workload and every      *)
(* order of arrivals and deletions.                                        *)
(***************************************************************************)
EXTENDS SimClock, SumProofs

-----------------------------------------------------------------------------
(* Facts about the devices of a cluster and what pods take of them.        *)

(***************************************************************************)
(* What the pods of a device take is the sum of their shares: none when    *)
(* there are none, a share more with each pod that is added (dev.addPod),  *)
(* and no more when one is taken off (dev.removePod).                      *)
(***************************************************************************)
LEMMA UsedIsSum ==
  /\ GetUsedGpuMilli({}) = 0
  /\ \A S \in SUBSET Pods : GetUsedGpuMilli(S) \in Nat
<1>1. \A S : GetUsedGpuMilli(S) = SumOver(GpuMilli, S)
  BY DEF GetUsedGpuMilli, SumOver
<1>2. IsFiniteSet(Pods) /\ \A p \in Pods : GpuMilli[p] \in Nat
  BY ClusterAssumption, DemandAssumption, MilliAssumption
<1> QED
  BY <1>1, <1>2, SumByElement

LEMMA UsedAfterAdd ==
  ASSUME NEW S \in SUBSET Pods, NEW p \in Pods \ S
  PROVE  GetUsedGpuMilli(S \cup {p}) = GetUsedGpuMilli(S) + GpuMilli[p]
<1>1. \A T : GetUsedGpuMilli(T) = SumOver(GpuMilli, T)
  BY DEF GetUsedGpuMilli, SumOver
<1>2. IsFiniteSet(Pods) /\ \A q \in Pods : GpuMilli[q] \in Nat
  BY ClusterAssumption, DemandAssumption, MilliAssumption
<1> QED
  BY <1>1, <1>2, SumByElement

LEMMA UsedAfterRemoval ==
  ASSUME NEW S \in SUBSET Pods, NEW p \in Pods
  PROVE  /\ GetUsedGpuMilli(S) \in Nat /\ GetUsedGpuMilli(S \ {p}) \in Nat
         /\ GetUsedGpuMilli(S \ {p}) <= GetUsedGpuMilli(S)
<1>1. /\ GetUsedGpuMilli(S) = SumOver(GpuMilli, S)
      /\ GetUsedGpuMilli(S \ {p}) = SumOver(GpuMilli, S \ {p})
  BY DEF GetUsedGpuMilli, SumOver
<1>2. IsFiniteSet(Pods) /\ \A q \in Pods : GpuMilli[q] \in Nat
  BY ClusterAssumption, DemandAssumption, MilliAssumption
<1>3. /\ SumOver(GpuMilli, S) \in Nat /\ SumOver(GpuMilli, S \ {p}) \in Nat
      /\ SumOver(GpuMilli, S \ {p}) <= SumOver(GpuMilli, S)
  BY <1>2, SumOneLess
<1> QED
  BY <1>1, <1>3

(***************************************************************************)
(* There are as many devices as the nodes have GPUs.                       *)
(***************************************************************************)
LEMMA DeviceCount ==
  /\ IsFiniteSet(Devices)
  /\ Cardinality(Devices) = SumOver(GpuCount, Nodes)
<1> DEFINE Of(S) == UNION { {n} \X Idx(n) : n \in S }
           Bad == { S \in SUBSET Nodes :
                      ~(IsFiniteSet(Of(S)) /\ Cardinality(Of(S)) = SumOver(GpuCount, S)) }
<1>0. Bad \in SUBSET SUBSET Nodes
  OBVIOUS
<1>1. ASSUME Bad # {} PROVE FALSE
  <2>1. PICK m \in Bad : IsFiniteSet(m) /\ \A t \in Bad : t \subseteq m => t = m
    <3> HIDE DEF Bad
    <3> QED
      BY <1>0, <1>1, ClusterAssumption, Smallest
  <2>2. m # {}
    <3>1. Of({}) = {}
      OBVIOUS
    <3>2. IsFiniteSet({}) /\ Cardinality({}) = 0 /\ SumOver(GpuCount, {}) = 0
      BY FS_EmptySet, SumNothing
    <3>3. ~(IsFiniteSet(Of(m)) /\ Cardinality(Of(m)) = SumOver(GpuCount, m))
      BY <2>1
    <3> HIDE DEF Of
    <3>4. ASSUME m = {} PROVE FALSE
      <4>1. ~(IsFiniteSet(Of({})) /\ Cardinality(Of({})) = SumOver(GpuCount, {}))
        BY <3>3, <3>4, Zenon
      <4> QED
        BY <3>1, <3>2, <4>1, Zenon
    <3> QED
      BY <3>4
  <2>3. PICK y \in m : TRUE
    BY <2>2
  <2> DEFINE r == m \ {y}
  <2>4. m \in SUBSET Nodes /\ r \in SUBSET Nodes /\ y \in Nodes /\ r \subseteq m /\ r # m
    BY <2>1, <2>3
  <2>5. IsFiniteSet(Of(r)) /\ Cardinality(Of(r)) = SumOver(GpuCount, r)
    <3>1. r \notin Bad
      BY <2>1, <2>4
    <3> HIDE DEF r, Of
    <3> QED
      BY <2>4, <3>1
  <2>6. SumOver(GpuCount, m) = GpuCount[y] + SumOver(GpuCount, r)
    <3>1. \A x \in m : GpuCount[x] \in Int
      BY <2>4, ClusterAssumption
    <3> QED
      BY <2>1, <2>3, <3>1, SumWithout
  <2> DEFINE new == {y} \X Idx(y)
  <2>7. IsFiniteSet(new) /\ Cardinality(new) = GpuCount[y]
    <3>1. GpuCount[y] \in Nat
      BY <2>4, ClusterAssumption
    <3>2. IsFiniteSet(Idx(y)) /\ Cardinality(Idx(y)) = GpuCount[y]
      <4> DEFINE k == GpuCount[y] - 1
      <4>0. k \in Int /\ 0 \in Int
        BY <3>1
      <4>1. /\ IsFiniteSet(0 .. k)
            /\ Cardinality(0 .. k) = IF 0 > k THEN 0 ELSE k - 0 + 1
        <5> HIDE DEF k
        <5> QED
          BY <4>0, FS_Interval
      <4>2. Cardinality(0 .. (GpuCount[y] - 1)) = GpuCount[y]
        BY <3>1, <4>1
      <4> QED
        BY <4>1, <4>2 DEF Idx
    <3>3. IsFiniteSet({y}) /\ Cardinality({y}) = 1
      BY FS_Singleton
    <3>4. IsFiniteSet(new) /\ Cardinality(new) = 1 * GpuCount[y]
      BY <3>2, <3>3, FS_Product
    <3> QED
      BY <3>1, <3>4
  <2>8. Of(m) = Of(r) \cup new /\ Of(r) \cap new = {}
    BY <2>3
  <2>9. /\ IsFiniteSet(Of(m))
        /\ Cardinality(Of(m)) = Cardinality(Of(r)) + Cardinality(new) - Cardinality(Of(r) \cap new)
    <3> HIDE DEF Of, new, r
    <3> QED
      BY <2>5, <2>7, <2>8, FS_Union
  <2>10. Cardinality(Of(m)) = SumOver(GpuCount, m)
    <3> HIDE DEF Of, new, r
    <3>1. Cardinality(Of(r)) \in Nat /\ Cardinality(new) \in Nat
      BY <2>5, <2>7, FS_CardinalityType
    <3>2. Cardinality(Of(r) \cap new) = 0
      BY <2>8, FS_EmptySet
    <3>3. Cardinality(Of(m)) = Cardinality(Of(r)) + Cardinality(new)
      BY <2>9, <3>1, <3>2
    <3> QED
      BY <2>5, <2>6, <2>7, <3>1, <3>3
  <2> QED
    BY <2>1, <2>9, <2>10
<1>2. Nodes \notin Bad
  BY <1>1
<1> QED
  BY <1>2 DEF Devices

(***************************************************************************)
(* When no device is overcommitted, what the pods have of all the GPUs     *)
(* they hold is no more than the cluster has.                              *)
(***************************************************************************)
LEMMA HeldWithinCapacity ==
  ASSUME NEW a \in [Pods -> SUBSET Devices],
         \A d \in Devices : GetUsedGpuMilli({ p \in Pods : d \in a[p] }) <= MILLI
  PROVE  SumOver([p \in Pods |-> GpuMilli[p] * Cardinality(a[p])], Pods)
           <= MILLI * SumOver(GpuCount, Nodes)
<1> DEFINE F(D) == [p \in Pods |-> GpuMilli[p] * Cardinality(a[p] \cap D)]
           Bad == { D \in SUBSET Devices :
                      ~(SumOver(F(D), Pods) <= MILLI * Cardinality(D)) }
<1>0. Bad \in SUBSET SUBSET Devices
  OBVIOUS
<1>c. \A D \in SUBSET Devices : IsFiniteSet(D) /\ Cardinality(D) \in Nat
  BY DeviceCount, FS_Subset, FS_CardinalityType
<1>f. \A D \in SUBSET Devices : \A p \in Pods :
        /\ Cardinality(a[p] \cap D) \in Nat /\ GpuMilli[p] \in Nat /\ F(D)[p] \in Int
  <2> TAKE D \in SUBSET Devices
  <2> TAKE p \in Pods
  <2>1. a[p] \cap D \in SUBSET Devices
    OBVIOUS
  <2>2. Cardinality(a[p] \cap D) \in Nat
    BY <1>c, <2>1
  <2>3. GpuMilli[p] \in Nat
    BY DemandAssumption, MilliAssumption
  <2>4. GpuMilli[p] * Cardinality(a[p] \cap D) \in Int
    BY <2>2, <2>3
  <2> QED
    BY <2>2, <2>3, <2>4
<1>1. ASSUME Bad # {} PROVE FALSE
  <2>1. PICK m \in Bad : IsFiniteSet(m) /\ \A t \in Bad : t \subseteq m => t = m
    <3> HIDE DEF Bad
    <3> QED
      BY <1>0, <1>1, DeviceCount, Smallest
  <2>2. m # {}
    <3>1. ASSUME m = {} PROVE FALSE
      <4>1. \A p \in Pods : F({})[p] = 0
        <5> TAKE p \in Pods
        <5>1. GpuMilli[p] \in Nat
          BY DemandAssumption, MilliAssumption
        <5>2. a[p] \cap {} = {} /\ Cardinality({}) = 0
          BY FS_EmptySet
        <5>3. F({})[p] = GpuMilli[p] * 0
          BY <5>2
        <5> QED
          BY <5>1, <5>3
      <4> HIDE DEF F
      <4>2. SumOver(F({}), Pods) = 0 * Cardinality(Pods)
        BY <4>1, ClusterAssumption, SumConstant
      <4>3. SumOver(F({}), Pods) = 0
        BY <4>2, ClusterAssumption, FS_CardinalityType
      <4>4. MILLI * Cardinality({}) = 0
        BY FS_EmptySet, MilliAssumption
      <4>5. ~(SumOver(F({}), Pods) <= MILLI * Cardinality({}))
        BY <2>1, <3>1
      <4> QED
        BY <4>3, <4>4, <4>5
    <3> QED
      BY <3>1
  <2>3. PICK y \in m : TRUE
    BY <2>2
  <2> DEFINE r == m \ {y}
             on == { p \in Pods : y \in a[p] }
             G == [p \in Pods |-> IF p \in on THEN GpuMilli[p] ELSE 0]
  <2>4. /\ m \in SUBSET Devices /\ r \in SUBSET Devices /\ y \in Devices
        /\ r \subseteq m /\ r # m
    BY <2>1, <2>3
  <2>5. SumOver(F(r), Pods) <= MILLI * Cardinality(r)
    <3>1. r \notin Bad
      BY <2>1, <2>4
    <3> HIDE DEF F, r
    <3> QED
      BY <2>4, <3>1
  <2>6. \A p \in Pods : /\ F(r)[p] \in Int /\ G[p] \in Int /\ F(m)[p] = F(r)[p] + G[p]
    <3> TAKE p \in Pods
    <3>1. a[p] \cap m \in SUBSET Devices /\ a[p] \cap r = (a[p] \cap m) \ {y}
      BY <2>4
    <3>2. /\ IsFiniteSet(a[p] \cap m) /\ Cardinality(a[p] \cap m) \in Nat
          /\ Cardinality(a[p] \cap r) \in Nat /\ GpuMilli[p] \in Nat
      BY <1>c, <1>f, <2>4, <3>1
    <3>3. CASE p \in on
      <4>1. Cardinality(a[p] \cap r) = Cardinality(a[p] \cap m) - 1
        BY <2>3, <3>1, <3>2, <3>3, FS_RemoveElement
      <4>2. \A i, j \in Nat : i * j = i * (j - 1) + i
        OBVIOUS
      <4>3. GpuMilli[p] * Cardinality(a[p] \cap m)
              = GpuMilli[p] * (Cardinality(a[p] \cap m) - 1) + GpuMilli[p]
        BY <3>2, <4>2
      <4>4. F(m)[p] = GpuMilli[p] * Cardinality(a[p] \cap m)
        OBVIOUS
      <4>5. F(r)[p] = GpuMilli[p] * (Cardinality(a[p] \cap m) - 1)
        BY <4>1
      <4>6. G[p] = GpuMilli[p]
        BY <3>3
      <4>7. F(r)[p] \in Int
        BY <1>f, <2>4
      <4> QED
        BY <3>2, <4>3, <4>4, <4>5, <4>6, <4>7
    <3>4. CASE p \notin on
      <4>1. a[p] \cap r = a[p] \cap m
        BY <3>1, <3>4
      <4>2. F(m)[p] = F(r)[p] /\ G[p] = 0
        BY <3>4, <4>1
      <4>3. F(r)[p] \in Int
        BY <1>f, <2>4
      <4> QED
        BY <4>2, <4>3
    <3> QED
      BY <3>3, <3>4
  <2>7. SumOver(G, Pods) <= MILLI /\ SumOver(G, Pods) \in Int
    <3>1. \A p \in Pods : GpuMilli[p] \in Int
      BY <1>f, <2>4
    <3>2. SumOver(G, Pods) = SumOver(GpuMilli, on)
      <4>1. /\ \A p \in on : GpuMilli[p] \in Int /\ G[p] = GpuMilli[p]
            /\ \A p \in Pods \ on : G[p] = 0
            /\ on \in SUBSET Pods
        BY <3>1
      <4> HIDE DEF G, on
      <4> QED
        BY <4>1, ClusterAssumption, SumFilter
    <3>4. SumOver(GpuMilli, on) = GetUsedGpuMilli(on)
      BY DEF SumOver, GetUsedGpuMilli
    <3>5. GetUsedGpuMilli(on) <= MILLI
      BY <2>4
    <3>6. GetUsedGpuMilli(on) \in Nat
      BY UsedIsSum
    <3> HIDE DEF G, on
    <3>7. SumOver(G, Pods) = GetUsedGpuMilli(on)
      BY <3>2, <3>4, Zenon
    <3> QED
      BY <3>5, <3>6, <3>7
  <2>8. SumOver(F(m), Pods) = SumOver(F(r), Pods) + SumOver(G, Pods)
    <3> HIDE DEF F, G, r, on
    <3> QED
      BY <2>6, ClusterAssumption, SumPlus
  <2>9. Cardinality(m) = Cardinality(r) + 1 /\ Cardinality(r) \in Nat
    BY <1>c, <2>1, <2>3, <2>4, FS_RemoveElement
  <2>10. SumOver(F(r), Pods) \in Int
    <3>1. \A p \in Pods : F(r)[p] \in Int
      BY <2>6
    <3> HIDE DEF F, r
    <3> QED
      BY <3>1, ClusterAssumption, SumInt
  <2>11. MILLI * Cardinality(m) = MILLI * Cardinality(r) + MILLI
         /\ MILLI * Cardinality(r) \in Int
    <3>1. \A i, j \in Nat : i * (j + 1) = i * j + i /\ i * j \in Int
      OBVIOUS
    <3> HIDE DEF r
    <3> QED
      BY <2>9, <3>1, MilliAssumption
  <2>12. ~(SumOver(F(m), Pods) <= MILLI * Cardinality(m))
    BY <2>1
  <2> HIDE DEF F, G, r, on, Bad
  <2> QED
    BY <2>5, <2>7, <2>8, <2>10, <2>11, <2>12, MilliAssumption
<1>2. SumOver(F(Devices), Pods) <= MILLI * Cardinality(Devices)
  <2>1. Devices \notin Bad
    BY <1>1
  <2> HIDE DEF F
  <2> QED
    BY <2>1
<1>3. F(Devices) = [p \in Pods |-> GpuMilli[p] * Cardinality(a[p])]
  <2>1. \A p \in Pods : a[p] \cap Devices = a[p]
    OBVIOUS
  <2> QED
    BY <2>1
<1> HIDE DEF F
<1> QED
  BY <1>2, <1>3, DeviceCount

-----------------------------------------------------------------------------
(* Facts about the operations of the clock.                                *)

(***************************************************************************)
(* RecordPod adds one trace to the heap and one to the node's list, and    *)
(* what leaves that list has ended.                                        *)
(***************************************************************************)
LEMMA RecordKeeps ==
  ASSUME Shape, NEW n \in Nodes, NEW tr \in Pods \X Nat, RecordPod(n, tr)
  PROVE  /\ traces' = traces \cup {tr}
         /\ traces' \subseteq Pods \X Nat /\ IsFiniteSet(traces')
         /\ nodeTraces' \in [Nodes -> SUBSET (Pods \X Nat)]
         /\ tr \in nodeTraces'[n]
         /\ \A m \in Nodes : \A y \in nodeTraces[m] :
              End[y[1]] > clock.now => y \in nodeTraces'[m]
<1>1. traces' = traces \cup {tr}
  BY DEF RecordPod
<1>2. IsFiniteSet(traces')
  BY <1>1, FS_AddElement DEF Shape
<1>3. /\ nodeTraces' \in [Nodes -> SUBSET (Pods \X Nat)]
      /\ tr \in nodeTraces'[n]
      /\ \A m \in Nodes : \A y \in nodeTraces[m] :
           End[y[1]] > clock.now => y \in nodeTraces'[m]
  BY DEF RecordPod, setPodTraceOnNode, Shape
<1> QED
  BY <1>1, <1>2, <1>3 DEF Shape

(***************************************************************************)
(* Popping the expired traces moves as many pods from running to completed *)
(* as traces leave the heap (ReleasePodBeforeTime).                        *)
(***************************************************************************)
LEMMA PoppingCounts ==
  ASSUME Shape, NEW S \in SUBSET traces
  PROVE  /\ IsFiniteSet(traces \ S)
         /\ Cardinality(S) \in Nat /\ Cardinality(traces) \in Nat
         /\ Cardinality(traces \ S) = Cardinality(traces) - Cardinality(S)
<1>1. IsFiniteSet(traces) /\ IsFiniteSet(S) /\ traces \cap S = S
  BY FS_Subset DEF Shape
<1>2. /\ IsFiniteSet(traces \ S)
      /\ Cardinality(traces \ S) = Cardinality(traces) - Cardinality(traces \cap S)
  BY <1>1, FS_Difference
<1> QED
  BY <1>1, <1>2, FS_CardinalityType

(***************************************************************************)
(* Pods that run keep what TracesCover says of them when others stop.      *)
(***************************************************************************)
LEMMA StopKeepsCover ==
  ASSUME Shape, TracesCover, NEW p \in Pods, Stop(p),
         traces' = traces, nodeTraces' = nodeTraces, life' = life,
         driver.expired \subseteq driver'.expired \cup {p}
  PROVE  host' \in [Pods -> Nodes \cup {NoNode}] /\ TracesCover'
<1>1. host' = [host EXCEPT ![p] = NoNode]
  BY DEF Stop
<1>2. host' \in [Pods -> Nodes \cup {NoNode}]
  BY <1>1 DEF Shape
<1>3. ASSUME NEW q \in Pods, Runs(q)'
      PROVE  /\ <<q, life'[q]>> \in traces' \/ q \in driver'.expired
             /\ <<q, life'[q]>> \in nodeTraces'[host'[q]]
  <2>1. q # p /\ host'[q] = host[q] /\ Runs(q)
    BY <1>1, <1>3 DEF Runs, Shape
  <2> QED
    BY <2>1 DEF TracesCover
<1> QED
  BY <1>2, <1>3 DEF TracesCover

-----------------------------------------------------------------------------
(* One lemma per action.                                                   *)

(***************************************************************************)
(* An arrival pops exactly the traces that are due.                        *)
(***************************************************************************)
LEMMA ArriveStep ==
  ASSUME ClockInv, NEW p \in Pods, Arrive(p)
  PROVE  ClockInv'
<1> DEFINE S == Expired(Start[p])
<1> USE DEF ClockInv
<1>1. /\ driver = Idle /\ driver.expired = {}
      /\ traces' = traces \ S
      /\ clock' = [Released(S) EXCEPT !.now = Start[p], !.arrived = @ + 1]
      /\ driver' = [pc |-> "release", pod |-> p, expired |-> { tr[1] : tr \in S }]
      /\ UNCHANGED <<host, life, nodeTraces>>
  BY DEF Arrive, Idle, Shape
<1>2. S \in SUBSET traces
  BY DEF Expired
<1>3. /\ IsFiniteSet(traces') /\ Cardinality(S) \in Nat /\ Cardinality(traces) \in Nat
      /\ Cardinality(traces') = Cardinality(traces) - Cardinality(S)
  BY <1>1, <1>2, PoppingCounts
<1>4. Shape'
  <2>1. { tr[1] : tr \in S } \subseteq Pods
    BY <1>2 DEF Shape
  <2> QED
    BY <1>1, <1>3, <2>1 DEF Shape
<1>5. /\ ClockShape'
      /\ clock'.now = Start[p] /\ clock'.arrived = clock.arrived + 1
      /\ clock'.running = clock.running - Cardinality(S)
      /\ clock'.completed = clock.completed + Cardinality(S)
      /\ clock'.failed = clock.failed
  <2> HIDE DEF S
  <2>1. Start[p] \in Nat
    BY ClockAssumption
  <2>2. PICK u : Released(S) = [clock EXCEPT !.running = @ - Cardinality(S),
                                             !.completed = @ + Cardinality(S), !.util = u]
    BY DEF Released
  <2>3. clock' = [now |-> Start[p], allEnd |-> clock.allEnd,
                  arrived |-> clock.arrived + 1,
                  running |-> clock.running - Cardinality(S),
                  completed |-> clock.completed + Cardinality(S),
                  failed |-> clock.failed, byCpu |-> clock.byCpu, byGpu |-> clock.byGpu,
                  util |-> u, cpuLacked |-> clock.cpuLacked,
                  gpuLacked |-> clock.gpuLacked]
    BY <1>1, <2>2 DEF ClockShape
  <2> QED
    BY <1>3, <2>1, <2>3 DEF ClockShape
<1>6. Popped'
  <2>1. ASSUME NEW tr \in traces' PROVE End[tr[1]] > Start[p]
    <3>1. tr \in traces /\ ~(End[tr[1]] <= Start[p]) /\ tr[1] \in Pods
      BY <1>1 DEF Expired, Shape
    <3> QED
      BY <3>1, ClockAssumption
  <2> QED
    BY <1>5, <2>1 DEF Popped
<1>7. Begun'
  BY <1>1 DEF Begun
<1>8. Balance'
  <2> HIDE DEF S
  <2>1. driver.pc = "idle" /\ driver'.pc = "release"
    BY <1>1 DEF Idle
  <2> QED
    BY <1>3, <1>5, <2>1 DEF Balance, ClockShape
<1>9. TracesCover'
  <2>1. ASSUME NEW q \in Pods, Runs(q)'
        PROVE  /\ <<q, life'[q]>> \in traces' \/ q \in driver'.expired
               /\ <<q, life'[q]>> \in nodeTraces'[host'[q]]
    <3>1. Runs(q) /\ <<q, life[q]>> \in traces /\ <<q, life[q]>> \in nodeTraces[host[q]]
      BY <1>1, <2>1 DEF TracesCover, Runs
    <3>2. CASE <<q, life[q]>> \in S
      <4>1. <<q, life[q]>>[1] \in { tr[1] : tr \in S }
        BY <3>2
      <4> QED
        BY <1>1, <3>1, <4>1
    <3>3. CASE <<q, life[q]>> \notin S
      BY <1>1, <3>1, <3>3
    <3> QED
      BY <3>2, <3>3
  <2> QED
    BY <2>1 DEF TracesCover
<1> QED
  BY <1>4, <1>5, <1>6, <1>7, <1>8, <1>9

(***************************************************************************)
(* Deleting an expired pod leaves heap and counters as they are.           *)
(***************************************************************************)
LEMMA DeleteExpiredStep ==
  ASSUME ClockInv, NEW p \in Pods, DeleteExpired(p)
  PROVE  ClockInv'
<1> USE DEF ClockInv
<1>1. /\ driver \in [pc : {"release"}, pod : Pods, expired : SUBSET Pods]
      /\ driver' = [driver EXCEPT !.expired = @ \ {p}]
      /\ Stop(p)
      /\ UNCHANGED <<life, traces, nodeTraces, clock>>
  BY DEF DeleteExpired, Shape, Idle
<1>2. /\ driver' \in [pc : {"release"}, pod : Pods, expired : SUBSET Pods]
      /\ driver'.expired = driver.expired \ {p}
  BY <1>1
<1>3. host' \in [Pods -> Nodes \cup {NoNode}] /\ TracesCover'
  BY <1>1, <1>2, StopKeepsCover
<1>4. Shape' /\ ClockShape'
  BY <1>1, <1>2, <1>3 DEF Shape, ClockShape
<1>5. Popped' /\ Begun' /\ Balance'
  BY <1>1, <1>2 DEF Popped, Begun, Balance
<1> QED
  BY <1>3, <1>4, <1>5

(***************************************************************************)
(* A failure is counted, whatever its cause.                               *)
(***************************************************************************)
LEMMA FailureCounts ==
  ASSUME ClockShape, NEW a, NEW b,
         clock' = Failed([clock EXCEPT !.gpuLacked = a, !.cpuLacked = b])
           \/ clock' = Failed(clock)
  PROVE  /\ ClockShape'
         /\ clock'.now = clock.now /\ clock'.arrived = clock.arrived
         /\ clock'.running = clock.running /\ clock'.completed = clock.completed
         /\ clock'.failed = clock.failed + 1
<1> DEFINE Counted(c, u, v) == [c EXCEPT !.failed = @ + 1, !.byCpu = u, !.byGpu = v,
                                         !.cpuLacked = FALSE, !.gpuLacked = FALSE]
<1>1. \A c : \E u, v : Failed(c) = Counted(c, u, v)
  BY DEF Failed
<1> HIDE DEF Counted
<1>2. PICK c, u, v :
        /\ c = clock \/ c = [clock EXCEPT !.gpuLacked = a, !.cpuLacked = b]
        /\ clock' = Counted(c, u, v)
  BY <1>1
<1>3. clock' = [now |-> clock.now, allEnd |-> clock.allEnd, arrived |-> clock.arrived,
                running |-> clock.running, completed |-> clock.completed,
                failed |-> clock.failed + 1, byCpu |-> u, byGpu |-> v,
                util |-> clock.util, cpuLacked |-> FALSE, gpuLacked |-> FALSE]
  <2>1. PICK d, e :
          c = [now |-> clock.now, allEnd |-> clock.allEnd, arrived |-> clock.arrived,
               running |-> clock.running, completed |-> clock.completed,
               failed |-> clock.failed, byCpu |-> clock.byCpu, byGpu |-> clock.byGpu,
               util |-> clock.util, cpuLacked |-> d, gpuLacked |-> e]
    <3>1. CASE c = clock
      BY <3>1 DEF ClockShape
    <3>2. CASE c = [clock EXCEPT !.gpuLacked = a, !.cpuLacked = b]
      BY <3>2 DEF ClockShape
    <3> QED
      BY <1>2, <3>1, <3>2
  <2> QED
    BY <1>2, <2>1, ZenonT(60) DEF Counted
<1> QED
  BY <1>3 DEF ClockShape

(***************************************************************************)
(* A creation that fails on a name in use ends the pod that has the name.  *)
(***************************************************************************)
LEMMA CreateDuplicateStep ==
  ASSUME ClockInv, CreateDuplicate
  PROVE  ClockInv'
<1> USE DEF ClockInv
<1>1. /\ driver \in [pc : {"release"}, pod : Pods, expired : SUBSET Pods]
      /\ driver.expired = {} /\ driver' = Idle
      /\ Stop(driver.pod)
      /\ clock' = Failed(clock)
      /\ UNCHANGED <<life, traces, nodeTraces>>
  BY DEF CreateDuplicate, Ready, Shape, Idle
<1>2. driver.pod \in Pods /\ driver.expired \subseteq driver'.expired \cup {driver.pod}
  BY <1>1
<1>3. host' \in [Pods -> Nodes \cup {NoNode}] /\ TracesCover'
  BY <1>1, <1>2, StopKeepsCover
<1>4. /\ ClockShape'
      /\ clock'.arrived = clock.arrived /\ clock'.running = clock.running
      /\ clock'.completed = clock.completed /\ clock'.failed = clock.failed + 1
  BY <1>1, FailureCounts
<1>5. driver.pc = "release" /\ driver'.pc = "idle"
  BY <1>1 DEF Idle
<1>6. Shape' /\ Popped' /\ Begun'
  BY <1>1, <1>3, <1>5 DEF Shape, Popped, Begun
<1>7. Balance'
  <2>1. Cardinality(traces) \in Nat
    BY PoppingCounts
  <2> QED
    BY <1>1, <1>4, <1>5, <2>1 DEF Balance, ClockShape
<1> QED
  BY <1>3, <1>4, <1>6, <1>7

(***************************************************************************)
(* A pod that is scheduled gets a trace of its own, and the traces of the  *)
(* pods that run stay in their nodes' lists.                               *)
(***************************************************************************)
LEMMA ScheduleStep ==
  ASSUME ClockInv, NEW n \in Nodes, Schedule(n)
  PROVE  ClockInv'
<1> DEFINE p  == driver.pod
           tr == <<p, life[p] + 1>>
<1> USE DEF ClockInv
<1>1. /\ driver \in [pc : {"release"}, pod : Pods, expired : SUBSET Pods]
      /\ driver.expired = {} /\ driver' = Idle
      /\ ~Runs(p)
      /\ host' = [host EXCEPT ![p] = n]
      /\ life' = [life EXCEPT ![p] = @ + 1]
      /\ RecordPod(n, tr)
      /\ clock' = [Noted(p) EXCEPT !.running = @ + 1,
                                   !.allEnd = IF End[p] > @ THEN End[p] ELSE @]
  BY DEF Schedule, Ready, Shape, Idle
<1>2. /\ p \in Pods /\ life[p] \in Nat /\ tr \in Pods \X Nat
      /\ driver.pc = "release" /\ driver'.pc = "idle" /\ driver'.expired = {}
  BY <1>1 DEF Shape, Idle
<1>3. /\ traces' = traces \cup {tr}
      /\ traces' \subseteq Pods \X Nat /\ IsFiniteSet(traces')
      /\ nodeTraces' \in [Nodes -> SUBSET (Pods \X Nat)]
      /\ tr \in nodeTraces'[n]
      /\ \A m \in Nodes : \A y \in nodeTraces[m] :
           End[y[1]] > clock.now => y \in nodeTraces'[m]
  <2> HIDE DEF tr
  <2> QED
    BY <1>1, <1>2, RecordKeeps
<1>4. Shape'
  <2>1. /\ host' \in [Pods -> Nodes \cup {NoNode}]
        /\ life' \in [Pods -> Nat]
    BY <1>1, <1>2 DEF Shape
  <2> QED
    BY <1>1, <1>3, <2>1 DEF Shape
<1>5. /\ ClockShape'
      /\ clock'.arrived = clock.arrived /\ clock'.running = clock.running + 1
      /\ clock'.completed = clock.completed /\ clock'.failed = clock.failed
  <2> HIDE DEF p
  <2> QED
    BY <1>1 DEF ClockShape, Noted
<1>6. tr \notin traces
  <2>1. ~(life[p] + 1 <= life[p])
    BY <1>2
  <2> QED
    BY <2>1 DEF Begun
<1>7. Begun'
  <2>1. ASSUME NEW y \in traces' PROVE y[2] <= life'[y[1]]
    <3>1. CASE y = tr
      BY <1>1, <1>2, <3>1 DEF Shape
    <3>2. CASE y \in traces
      <4>1. y[1] \in Pods /\ y[2] \in Nat /\ y[2] <= life[y[1]] /\ life[y[1]] \in Nat
        BY <3>2 DEF Begun, Shape
      <4>2. life'[y[1]] = life[y[1]] \/ life'[y[1]] = life[y[1]] + 1
        BY <1>1, <4>1 DEF Shape
      <4> QED
        BY <4>1, <4>2
    <3> QED
      BY <1>3, <2>1, <3>1, <3>2
  <2> QED
    BY <2>1 DEF Begun
<1>8. Balance'
  <2>1. Cardinality(traces') = Cardinality(traces) + 1
    BY <1>3, <1>6, FS_AddElement DEF Shape
  <2>2. Cardinality(traces) \in Nat
    BY PoppingCounts
  <2> QED
    BY <1>2, <1>5, <2>1, <2>2 DEF Balance, ClockShape
<1>9. TracesCover'
  <2>1. ASSUME NEW q \in Pods, Runs(q)'
        PROVE  /\ <<q, life'[q]>> \in traces' \/ q \in driver'.expired
               /\ <<q, life'[q]>> \in nodeTraces'[host'[q]]
    <3>1. CASE q = p
      <4>1. host'[q] = n /\ <<q, life'[q]>> = tr
        BY <1>1, <1>2, <3>1 DEF Shape
      <4> QED
        BY <1>3, <4>1
    <3>2. CASE q # p
      <4>1. host'[q] = host[q] /\ life'[q] = life[q] /\ Runs(q) /\ host[q] \in Nodes
        BY <1>1, <2>1, <3>2 DEF Shape, Runs
      <4>2. <<q, life[q]>> \in traces /\ <<q, life[q]>> \in nodeTraces[host[q]]
        BY <1>1, <4>1 DEF TracesCover
      <4>3. End[<<q, life[q]>>[1]] > clock.now
        BY <1>2, <4>2 DEF Popped
      <4> QED
        BY <1>3, <4>1, <4>2, <4>3
    <3> QED
      BY <3>1, <3>2
  <2> QED
    BY <2>1 DEF TracesCover
<1> QED
  BY <1>2, <1>4, <1>5, <1>7, <1>8, <1>9 DEF Popped

(***************************************************************************)
(* A pod that is turned down leaves no trace.                              *)
(***************************************************************************)
LEMMA RejectStep ==
  ASSUME ClockInv, Reject
  PROVE  ClockInv'
<1> DEFINE p == driver.pod
<1> USE DEF ClockInv
<1>1. /\ driver \in [pc : {"release"}, pod : Pods, expired : SUBSET Pods]
      /\ driver.expired = {} /\ driver' = Idle
      /\ ~Runs(p)
      /\ life' = [life EXCEPT ![p] = @ + 1]
      /\ clock' = Failed(Noted(p))
      /\ UNCHANGED <<host, traces, nodeTraces>>
  BY DEF Reject, Ready, Shape, Idle
<1>2. /\ p \in Pods /\ driver.pc = "release"
      /\ driver'.pc = "idle" /\ driver'.expired = {}
  BY <1>1 DEF Idle
<1>3. Shape' /\ Popped'
  BY <1>1, <1>2 DEF Shape, Popped
<1>4. /\ ClockShape'
      /\ clock'.arrived = clock.arrived /\ clock'.running = clock.running
      /\ clock'.completed = clock.completed /\ clock'.failed = clock.failed + 1
  <2> HIDE DEF p
  <2>1. PICK a, b : Noted(p) = [clock EXCEPT !.gpuLacked = a, !.cpuLacked = b]
    BY DEF Noted, ClockShape
  <2> QED
    BY <1>1, <2>1, FailureCounts
<1>5. Begun'
  <2>1. ASSUME NEW y \in traces PROVE y[2] <= life'[y[1]]
    <3>1. y[1] \in Pods /\ y[2] \in Nat /\ y[2] <= life[y[1]] /\ life[y[1]] \in Nat
      BY <2>1 DEF Begun, Shape
    <3>2. life'[y[1]] = life[y[1]] \/ life'[y[1]] = life[y[1]] + 1
      BY <1>1, <3>1 DEF Shape
    <3> QED
      BY <3>1, <3>2
  <2> QED
    BY <1>1, <2>1 DEF Begun
<1>6. Balance'
  <2>1. Cardinality(traces) \in Nat
    BY PoppingCounts
  <2> QED
    BY <1>1, <1>2, <1>4, <2>1 DEF Balance, ClockShape
<1>7. TracesCover'
  <2>1. ASSUME NEW q \in Pods, Runs(q)'
        PROVE  Runs(q) /\ life'[q] = life[q]
    BY <1>1, <2>1 DEF Runs, Shape
  <2> QED
    BY <1>1, <1>2, <2>1 DEF TracesCover
<1> QED
  BY <1>3, <1>4, <1>5, <1>6, <1>7

(***************************************************************************)
(* A deletion event touches neither heap nor counters.                     *)
(***************************************************************************)
LEMMA DeleteEventStep ==
  ASSUME ClockInv, NEW p \in Pods, DeleteEvent(p)
  PROVE  ClockInv'
<1> USE DEF ClockInv
<1>1. Stop(p) /\ UNCHANGED <<life, traces, nodeTraces, clock, driver>>
  BY DEF DeleteEvent
<1>2. host' \in [Pods -> Nodes \cup {NoNode}] /\ TracesCover'
  BY <1>1, StopKeepsCover
<1>3. Shape' /\ ClockShape'
  BY <1>1, <1>2 DEF Shape, ClockShape, Idle
<1>4. Popped' /\ Begun' /\ Balance'
  BY <1>1 DEF Popped, Begun, Balance
<1> QED
  BY <1>2, <1>3, <1>4

-----------------------------------------------------------------------------
(* The theorems.                                                           *)

(***************************************************************************)
(* The invariant holds when the simulator starts.                          *)
(***************************************************************************)
LEMMA Start0 == Init => ClockInv
<1> SUFFICES ASSUME Init PROVE ClockInv
  OBVIOUS
<1>1. traces = {} /\ IsFiniteSet(traces) /\ Cardinality(traces) = 0
  BY FS_EmptySet DEF Init
<1>2. Shape /\ ClockShape
  BY <1>1 DEF Init, Shape, ClockShape
<1>3. Popped /\ Begun /\ Balance
  BY <1>1 DEF Init, Popped, Begun, Balance, Idle
<1>4. TracesCover
  BY DEF Init, TracesCover, Runs
<1> QED
  BY <1>2, <1>3, <1>4 DEF ClockInv

(***************************************************************************)
(* Every step keeps the invariant.                                         *)
(***************************************************************************)
LEMMA Step == ClockInv /\ [Next]_vars => ClockInv'
<1> SUFFICES ASSUME ClockInv, [Next]_vars PROVE ClockInv'
  OBVIOUS
<1>1. CASE \E p \in Pods : Arrive(p) \/ DeleteExpired(p) \/ DeleteEvent(p)
  BY <1>1, ArriveStep, DeleteExpiredStep, DeleteEventStep
<1>2. CASE \E n \in Nodes : Schedule(n)
  BY <1>2, ScheduleStep
<1>3. CASE CreateDuplicate \/ Reject
  BY <1>3, CreateDuplicateStep, RejectStep
<1>4. CASE (\E y \in snapshot : CacheForgets(y)) \/ UNCHANGED vars
  <2>1. UNCHANGED <<host, life, traces, nodeTraces, clock, driver>>
    BY <1>4 DEF CacheForgets, vars
  <2> QED
    BY <2>1 DEF ClockInv, Shape, ClockShape, Popped, Begun, Balance, TracesCover,
                Runs, Idle
<1> QED
  BY <1>1, <1>2, <1>3, <1>4 DEF Next

(***************************************************************************)
(* ClockInv holds in every state of every run of the simulator.            *)
(***************************************************************************)
THEOREM ClockInvariant == Spec => []ClockInv
BY Start0, Step, PTL DEF Spec

(***************************************************************************)
(* No pod whose end has come is there when the next is about to be created *)
(* (ReleasePodBeforeTime in SchedulePods).                                 *)
(***************************************************************************)
THEOREM ExpiredAreGone == Spec => []NoOverstay
<1>1. ClockInv => NoOverstay
  <2> SUFFICES ASSUME ClockInv, Ready, NEW p \in Pods, Runs(p)
               PROVE  End[p] > clock.now
    BY DEF NoOverstay
  <2>1. <<p, life[p]>> \in traces
    BY DEF ClockInv, TracesCover, Ready
  <2>2. End[<<p, life[p]>>[1]] > clock.now
    BY <2>1 DEF ClockInv, Popped, Ready
  <2> QED
    BY <2>2
<1> QED
  BY <1>1, ClockInvariant, PTL

(***************************************************************************)
(* Every pod that runs has its trace in the heap and in its node's list    *)
(* (RecordPod, setPodTraceOnNode).                                         *)
(***************************************************************************)
THEOREM RunningAreTraced == Spec => []TracesCover
<1>1. ClockInv => TracesCover
  BY DEF ClockInv
<1> QED
  BY <1>1, ClockInvariant, PTL

(***************************************************************************)
(* Every arrival ends up in exactly one counter (FakeTimeReport).          *)
(***************************************************************************)
THEOREM CountersAddUp == Spec => []EveryPodCounted
<1>1. ClockInv => EveryPodCounted
  <2> SUFFICES ASSUME ClockInv PROVE EveryPodCounted
    OBVIOUS
  <2>1. Cardinality(traces) \in Nat
    BY PoppingCounts DEF ClockInv
  <2> QED
    BY <2>1 DEF ClockInv, Balance, EveryPodCounted, ClockShape
<1> QED
  BY <1>1, ClockInvariant, PTL
-----------------------------------------------------------------------------
(***************************************************************************)
(* The sums SimClock keeps: the CPU the scheduler counts on its nodes and  *)
(* the GPU time the clock reports.                                         *)
(***************************************************************************)
(* The sums.                                                               *)

AllTraces == Pods \X Nat

\* The GPU time of each trace up to t, and up to its end.
Spent(t) == [tr \in AllTraces |-> GpuTime(tr, t)]
Whole    == [tr \in AllTraces |-> GpuTime(tr, End[tr[1]])]

\* The CPU of each entry of the scheduler's cache.
Entry    == [x \in Life \X Nodes |-> Cpu[x[1][1]]]

\* The sum of the times up to t is one of a function of the traces.
LEMMA SpentSum ==
  ASSUME NEW S \in SUBSET AllTraces, IsFiniteSet(S), NEW t
  PROVE  GpuTimeSpent(S, t) = SumOver(Spent(t), S)
<1> DEFINE Adds(g) ==
             g = [s \in SUBSET S |-> IF s = {} THEN 0
                                     ELSE GpuTime(First(s), t) + g[s \ {First(s)}]]
           it == CHOOSE g : Adds(g)
<1>1. \A s \in SUBSET S : s # {} => Spent(t)[First(s)] = GpuTime(First(s), t)
  BY FirstIn DEF Spent
<1>2. \A g : Adds(g) <=> AddsUp(Spent(t), S, g)
  BY <1>1 DEF AddsUp
<1>3. GpuTimeSpent(S, t) = it[S]
  BY DEF GpuTimeSpent, MapThenSumSet, MapThenFoldSet, First
<1>4. AddsUp(Spent(t), S, it)
  <2>1. \E g : Adds(g)
    BY <1>2, AddsUpAlways
  <2> HIDE DEF Adds
  <2>2. Adds(it)
    BY <2>1
  <2> QED
    BY <1>2, <2>2
<1> HIDE DEF it
<1> QED
  BY <1>3, <1>4, SumIs

\* So is the sum of the times up to the ends.
LEMMA WholeSum ==
  ASSUME NEW S \in SUBSET AllTraces, IsFiniteSet(S)
  PROVE  GpuTimeWhole(S) = SumOver(Whole, S)
<1> DEFINE Adds(g) ==
             g = [s \in SUBSET S |->
                    IF s = {} THEN 0
                    ELSE GpuTime(First(s), End[First(s)[1]]) + g[s \ {First(s)}]]
           it == CHOOSE g : Adds(g)
<1>1. \A s \in SUBSET S : s # {} => Whole[First(s)] = GpuTime(First(s), End[First(s)[1]])
  BY FirstIn DEF Whole
<1>2. \A g : Adds(g) <=> AddsUp(Whole, S, g)
  BY <1>1 DEF AddsUp
<1>3. GpuTimeWhole(S) = it[S]
  BY DEF GpuTimeWhole, MapThenSumSet, MapThenFoldSet, First
<1>4. AddsUp(Whole, S, it)
  <2>1. \E g : Adds(g)
    BY <1>2, AddsUpAlways
  <2> HIDE DEF Adds
  <2>2. Adds(it)
    BY <2>1
  <2> QED
    BY <1>2, <2>2
<1> HIDE DEF it
<1> QED
  BY <1>3, <1>4, SumIs

\* And that of the CPU the scheduler's cache counts.
LEMMA EntrySum ==
  ASSUME NEW S \in SUBSET (Life \X Nodes), IsFiniteSet(S)
  PROVE  CpuOf(S) = SumOver(Entry, S)
<1> DEFINE Adds(g) ==
             g = [s \in SUBSET S |-> IF s = {} THEN 0
                                     ELSE Cpu[First(s)[1][1]] + g[s \ {First(s)}]]
           it == CHOOSE g : Adds(g)
<1>1. \A s \in SUBSET S : s # {} => Entry[First(s)] = Cpu[First(s)[1][1]]
  BY FirstIn DEF Entry
<1>2. \A g : Adds(g) <=> AddsUp(Entry, S, g)
  BY <1>1 DEF AddsUp
<1>3. CpuOf(S) = it[S]
  BY DEF CpuOf, MapThenSumSet, MapThenFoldSet, First
<1>4. AddsUp(Entry, S, it)
  <2>1. \E g : Adds(g)
    BY <1>2, AddsUpAlways
  <2> HIDE DEF Adds
  <2>2. Adds(it)
    BY <2>1
  <2> QED
    BY <1>2, <2>2
<1> HIDE DEF it
<1> QED
  BY <1>3, <1>4, SumIs

\* A pod never takes less than no GPU time.
LEMMA WholeNat ==
  /\ \A tr \in AllTraces : Whole[tr] \in Nat
  /\ \A S \in SUBSET AllTraces : IsFiniteSet(S) => SumOver(Whole, S) \in Nat
<1>1. ASSUME NEW tr \in AllTraces PROVE Whole[tr] \in Nat
  <2>1. /\ GpuMilli[tr[1]] \in Nat /\ GpuNum[tr[1]] \in Nat
        /\ End[tr[1]] - Start[tr[1]] \in Nat
    BY DemandAssumption, MilliAssumption, ClockAssumption DEF AllTraces
  <2>2. \A a, b, c \in Nat : a * b * c \in Nat
    OBVIOUS
  <2>3. GpuMilli[tr[1]] * GpuNum[tr[1]] * (End[tr[1]] - Start[tr[1]]) \in Nat
    BY <2>1, <2>2
  <2> QED
    BY <2>3 DEF Whole, GpuTime
<1>2. ASSUME NEW S \in SUBSET AllTraces, IsFiniteSet(S) PROVE SumOver(Whole, S) \in Nat
  BY <1>1, <1>2, SumNat
<1> QED
  BY <1>1, <1>2

-----------------------------------------------------------------------------
(* The types.                                                              *)

\* Whatever keeps ClockInv leaves of the clock these types to show.
LEMMA ClockTyped ==
  ASSUME ClockInv', clock.allEnd' \in Nat, clock.byCpu' \in Nat, clock.byGpu' \in Nat,
         clock.util' \in Nat, clock.cpuLacked' \in BOOLEAN, clock.gpuLacked' \in BOOLEAN
  PROVE  clock' \in Clock
<1>1. IsFiniteSet(traces') /\ clock.running' = Cardinality(traces')
  BY DEF ClockInv, Shape, Balance
<1>2. clock.running' \in Nat
  BY <1>1, FS_CardinalityType
<1>3. /\ clock' = [now |-> clock'.now, allEnd |-> clock'.allEnd, arrived |-> clock'.arrived,
              running |-> clock'.running, completed |-> clock'.completed,
              failed |-> clock'.failed, byCpu |-> clock'.byCpu, byGpu |-> clock'.byGpu,
              util |-> clock'.util, cpuLacked |-> clock'.cpuLacked,
              gpuLacked |-> clock'.gpuLacked]
      /\ clock'.now \in Nat /\ clock'.arrived \in Nat
      /\ clock'.completed \in Nat /\ clock'.failed \in Nat
  BY DEF ClockInv, ClockShape
<1> QED
  BY <1>2, <1>3 DEF Clock

\* A failure counts under one cause or none, and resets the flags.
LEMMA FailedTyped ==
  ASSUME TypeOK, NEW a, NEW b,
         clock' = Failed([clock EXCEPT !.gpuLacked = a, !.cpuLacked = b])
           \/ clock' = Failed(clock)
  PROVE  /\ clock'.allEnd = clock.allEnd /\ clock'.util = clock.util
         /\ clock'.arrived = clock.arrived /\ clock'.now = clock.now
         /\ clock'.byCpu \in Nat /\ clock'.byGpu \in Nat
         /\ clock'.cpuLacked \in BOOLEAN /\ clock'.gpuLacked \in BOOLEAN
<1> DEFINE Flagged(c) == [c EXCEPT !.failed = @ + 1,
            !.byCpu = IF c.cpuLacked THEN @ + 1 ELSE @,
            !.byGpu = IF c.gpuLacked /\ ~c.cpuLacked THEN @ + 1 ELSE @,
            !.cpuLacked = FALSE, !.gpuLacked = FALSE]
<1>1. PICK c : /\ clock' = Flagged(c)
               /\ c = [clock EXCEPT !.gpuLacked = a, !.cpuLacked = b] \/ c = clock
  BY DEF Failed
<1>2. \E d, e : c = [now |-> clock.now, allEnd |-> clock.allEnd, arrived |-> clock.arrived,
               running |-> clock.running, completed |-> clock.completed,
               failed |-> clock.failed, byCpu |-> clock.byCpu, byGpu |-> clock.byGpu,
               util |-> clock.util, cpuLacked |-> d, gpuLacked |-> e]
  <2>1. CASE c = clock
    BY <2>1 DEF TypeOK, Clock
  <2>2. CASE c = [clock EXCEPT !.gpuLacked = a, !.cpuLacked = b]
    BY <2>2 DEF TypeOK, Clock
  <2> QED
    BY <1>1, <2>1, <2>2
<1>3. PICK u, v :
        /\ u \in Nat /\ v \in Nat
        /\ clock' = [now |-> clock.now, allEnd |-> clock.allEnd, arrived |-> clock.arrived,
                     running |-> clock.running, completed |-> clock.completed,
                     failed |-> clock.failed + 1, byCpu |-> u, byGpu |-> v,
                     util |-> clock.util, cpuLacked |-> FALSE, gpuLacked |-> FALSE]
  <2>1. PICK d, e : c = [now |-> clock.now, allEnd |-> clock.allEnd, arrived |-> clock.arrived,
               running |-> clock.running, completed |-> clock.completed,
               failed |-> clock.failed, byCpu |-> clock.byCpu, byGpu |-> clock.byGpu,
               util |-> clock.util, cpuLacked |-> d, gpuLacked |-> e]
    BY <1>2
  <2> DEFINE u == IF d THEN clock.byCpu + 1 ELSE clock.byCpu
             v == IF e /\ ~d THEN clock.byGpu + 1 ELSE clock.byGpu
  <2>2. clock' = [now |-> clock.now, allEnd |-> clock.allEnd, arrived |-> clock.arrived,
                     running |-> clock.running, completed |-> clock.completed,
                     failed |-> clock.failed + 1, byCpu |-> u, byGpu |-> v,
                     util |-> clock.util, cpuLacked |-> FALSE, gpuLacked |-> FALSE]
    <3>1. c.failed = clock.failed /\ c.byCpu = clock.byCpu /\ c.byGpu = clock.byGpu
          /\ c.cpuLacked = d /\ c.gpuLacked = e
      BY <2>1, Zenon
    <3>2. clock' = [c EXCEPT !.failed = clock.failed + 1, !.byCpu = u, !.byGpu = v,
                             !.cpuLacked = FALSE, !.gpuLacked = FALSE]
      BY <1>1, <3>1, Zenon
    <3> HIDE DEF u, v
    <3> QED
      BY <2>1, <3>2
  <2>3. u \in Nat /\ v \in Nat
    <3>1. clock.byCpu \in Nat /\ clock.byGpu \in Nat
      BY DEF TypeOK, Clock
    <3> QED
      BY <3>1
  <2> HIDE DEF u, v
  <2> QED
    BY <2>2, <2>3
<1> QED
  BY <1>3

\* The driver's record, of either form.
LEMMA DriverTyped ==
  ASSUME ClockInv'
  PROVE  /\ driver' \in [pc : {"idle", "release"}, pod : Pods \cup {NoPod},
                         expired : SUBSET Pods]
         /\ driver'.pc = "release" => driver'.pod \in Pods
BY DEF ClockInv, Shape, Idle

\* The clock set to an arrival, and the traces left, keep their types.
LEMMA ArriveTyped ==
  ASSUME ClockInv, TypeOK, NEW p \in Pods, Arrive(p)
  PROVE  TypeOK'
<1> DEFINE S == Expired(Start[p])
<1>1. ClockInv'
  BY ArriveStep
<1>2. /\ traces' = traces \ S
      /\ clock' = [Released(S) EXCEPT !.now = Start[p], !.arrived = @ + 1]
      /\ clock.arrived < MaxArrivals
      /\ UNCHANGED <<alloc, host, life, snapshot, nodeTraces>>
  BY DEF Arrive
<1>3. S \in SUBSET AllTraces /\ IsFiniteSet(S)
  BY FS_Subset DEF Expired, ClockInv, Shape, AllTraces
<1> HIDE DEF S
<1>4. Released(S) = [clock EXCEPT !.running = @ - Cardinality(S),
                         !.completed = @ + Cardinality(S), !.util = @ + SumOver(Whole, S)]
  BY <1>3, WholeSum DEF Released
<1>5. /\ clock'.arrived = clock.arrived + 1 /\ clock'.allEnd = clock.allEnd
      /\ clock'.byCpu = clock.byCpu /\ clock'.byGpu = clock.byGpu
      /\ clock'.cpuLacked = clock.cpuLacked /\ clock'.gpuLacked = clock.gpuLacked
      /\ clock'.util = clock.util + SumOver(Whole, S)
  BY <1>2, <1>4 DEF TypeOK, Clock
<1>6. SumOver(Whole, S) \in Nat
  BY <1>3, WholeNat
<1>7. clock' \in Clock
  BY <1>1, <1>5, <1>6, ClockTyped DEF TypeOK, Clock
<1>8. clock'.arrived <= MaxArrivals
  BY <1>2, <1>5, ClockAssumption DEF TypeOK, Clock
<1> QED
  BY <1>1, <1>2, <1>7, <1>8, DriverTyped DEF TypeOK

\* A pod that stops holds nothing and is nowhere.
LEMMA StopTyped ==
  ASSUME TypeOK, NEW p \in Pods, Stop(p)
  PROVE  alloc' \in [Pods -> SUBSET Devices] /\ host' \in [Pods -> Nodes \cup {NoNode}]
BY DEF TypeOK, Stop

\* A pod scheduled begins a life within the bound, and holds devices.
LEMMA ScheduleTyped ==
  ASSUME ClockInv, TypeOK, NEW n \in Nodes, Schedule(n)
  PROVE  TypeOK'
<1> DEFINE p  == driver.pod
           tr == <<p, life[p] + 1>>
<1>1. ClockInv'
  BY ScheduleStep
<1>2. /\ driver.pc = "release" /\ p \in Pods
      /\ life[p] < MaxArrivals /\ life[p] \in 0 .. MaxArrivals
      /\ host' = [host EXCEPT ![p] = n]
      /\ life' = [life EXCEPT ![p] = @ + 1]
      /\ snapshot' = snapshot \cup {<<tr, n>>}
      /\ RecordPod(n, tr)
      /\ clock' = [Noted(p) EXCEPT !.running = @ + 1,
                                   !.allEnd = IF End[p] > @ THEN End[p] ELSE @]
  BY DEF Schedule, Ready, TypeOK
<1>3. tr \in Life
  BY <1>2, ClockAssumption DEF Life
<1>4. life' \in [Pods -> 0 .. MaxArrivals]
  BY <1>2, ClockAssumption DEF TypeOK
<1>5. traces' \subseteq Life /\ nodeTraces' \in [Nodes -> SUBSET Life]
  <2> HIDE DEF tr
  <2> QED
    BY <1>2, <1>3 DEF RecordPod, setPodTraceOnNode, TypeOK
<1>6. snapshot' \subseteq Life \X Nodes
  <2> HIDE DEF tr
  <2> QED
    BY <1>2, <1>3 DEF TypeOK
<1>7. clock' \in Clock /\ clock'.arrived = clock.arrived
  <2>1. End[p] \in Nat
    BY <1>2, ClockAssumption
  <2> HIDE DEF p
  <2>2. /\ clock'.arrived = clock.arrived /\ clock'.allEnd \in Nat
        /\ clock'.byCpu = clock.byCpu /\ clock'.byGpu = clock.byGpu
        /\ clock'.util = clock.util
        /\ clock'.cpuLacked \in BOOLEAN /\ clock'.gpuLacked \in BOOLEAN
    BY <1>2, <2>1 DEF Noted, TypeOK, Clock
  <2> QED
    BY <1>1, <2>2, ClockTyped DEF TypeOK, Clock
<1>8. alloc' \in [Pods -> SUBSET Devices]
  <2>1. CASE IsGpuPod(p)
    <3>1. PICK ids \in SUBSET Idx(n) : alloc' = [alloc EXCEPT ![p] = {n} \X ids]
      BY <2>1 DEF Schedule, Ledger!Place
    <3>2. {n} \X ids \in SUBSET Devices
      BY <3>1 DEF Devices
    <3> QED
      BY <1>2, <3>1, <3>2 DEF TypeOK
  <2>2. CASE ~IsGpuPod(p)
    BY <2>2 DEF Schedule, TypeOK
  <2> QED
    BY <2>1, <2>2
<1>9. host' \in [Pods -> Nodes \cup {NoNode}]
  BY <1>1 DEF ClockInv, Shape
<1> HIDE DEF p, tr
<1> QED
  BY <1>1, <1>4, <1>5, <1>6, <1>7, <1>8, <1>9, DriverTyped DEF TypeOK

\* A pod turned down ends a life within the bound.
LEMMA RejectTyped ==
  ASSUME ClockInv, TypeOK, Reject
  PROVE  TypeOK'
<1> DEFINE p == driver.pod
<1>1. ClockInv'
  BY RejectStep
<1>2. /\ p \in Pods /\ life[p] < MaxArrivals /\ life[p] \in 0 .. MaxArrivals
      /\ life' = [life EXCEPT ![p] = @ + 1]
      /\ clock' = Failed(Noted(p))
      /\ UNCHANGED <<alloc, host, snapshot, traces, nodeTraces>>
  BY DEF Reject, Ready, TypeOK
<1>3. life' \in [Pods -> 0 .. MaxArrivals]
  BY <1>2, ClockAssumption DEF TypeOK
<1>4. clock' \in Clock /\ clock'.arrived = clock.arrived
  <2> HIDE DEF p
  <2>1. PICK a, b : Noted(p) = [clock EXCEPT !.gpuLacked = a, !.cpuLacked = b]
    BY DEF Noted, TypeOK, Clock
  <2>2. /\ clock'.allEnd = clock.allEnd /\ clock'.util = clock.util
        /\ clock'.arrived = clock.arrived
        /\ clock'.byCpu \in Nat /\ clock'.byGpu \in Nat
        /\ clock'.cpuLacked \in BOOLEAN /\ clock'.gpuLacked \in BOOLEAN
    BY <1>2, <2>1, FailedTyped
  <2> QED
    BY <1>1, <2>2, ClockTyped DEF TypeOK, Clock
<1> QED
  BY <1>1, <1>2, <1>3, <1>4, DriverTyped DEF TypeOK

\* Deletions, the second creation and the cache keep every type.
LEMMA OthersTyped ==
  ASSUME ClockInv, TypeOK,
         \/ \E p \in Pods : DeleteExpired(p) \/ DeleteEvent(p)
         \/ CreateDuplicate
         \/ \E x \in snapshot : CacheForgets(x)
         \/ UNCHANGED vars
  PROVE  TypeOK'
<1>1. ClockInv'
  BY Step DEF Next
<1>2. ASSUME NEW p \in Pods, DeleteExpired(p) \/ DeleteEvent(p)
      PROVE  TypeOK'
  <2>1. Stop(p) /\ UNCHANGED <<life, snapshot, traces, nodeTraces, clock>>
    BY <1>2 DEF DeleteExpired, DeleteEvent
  <2> QED
    BY <1>1, <2>1, StopTyped, DriverTyped DEF TypeOK
<1>3. CASE CreateDuplicate
  <2>1. /\ Stop(driver.pod) /\ driver.pod \in Pods /\ clock' = Failed(clock)
        /\ UNCHANGED <<life, snapshot, traces, nodeTraces>>
    BY <1>3 DEF CreateDuplicate, Ready, TypeOK
  <2>2. clock' \in Clock /\ clock'.arrived = clock.arrived
    <3>1. \/ clock' = Failed([clock EXCEPT !.gpuLacked = TRUE, !.cpuLacked = TRUE])
          \/ clock' = Failed(clock)
      BY <2>1
    <3>2. /\ clock'.allEnd = clock.allEnd /\ clock'.util = clock.util
          /\ clock'.arrived = clock.arrived
          /\ clock'.byCpu \in Nat /\ clock'.byGpu \in Nat
          /\ clock'.cpuLacked \in BOOLEAN /\ clock'.gpuLacked \in BOOLEAN
      BY <3>1, FailedTyped
    <3> QED
      BY <1>1, <3>2, ClockTyped DEF TypeOK, Clock
  <2> QED
    BY <1>1, <2>1, <2>2, StopTyped, DriverTyped DEF TypeOK
<1>4. CASE (\E x \in snapshot : CacheForgets(x)) \/ UNCHANGED vars
  <2>1. /\ UNCHANGED <<alloc, host, life, traces, nodeTraces, clock, driver>>
        /\ snapshot' \subseteq snapshot
    BY <1>4 DEF CacheForgets, vars
  <2> QED
    BY <2>1 DEF TypeOK
<1> QED
  BY <1>2, <1>3, <1>4

-----------------------------------------------------------------------------
(* The CPU of the nodes.                                                   *)

\* What the scheduler counts on a node, as a sum over entries of its cache.
LEMMA CpuUsedIs ==
  ASSUME TypeOK, IsFiniteSet(snapshot), NEW n
  PROVE  /\ IsFiniteSet({ x \in snapshot : x[2] = n })
         /\ { x \in snapshot : x[2] = n } \in SUBSET (Life \X Nodes)
         /\ CpuUsed(n) = SumOver(Entry, { x \in snapshot : x[2] = n })
<1> DEFINE S == { x \in snapshot : x[2] = n }
<1>1. S \in SUBSET (Life \X Nodes)
  BY DEF TypeOK
<1>2. IsFiniteSet(S)
  BY FS_Subset
<1>3. CpuUsed(n) = CpuOf(S)
  BY DEF CpuUsed
<1> HIDE DEF S
<1>4. CpuUsed(n) = SumOver(Entry, S)
  BY <1>1, <1>2, <1>3, EntrySum
<1> QED
  BY <1>1, <1>2, <1>4 DEF S

\* An entry of the cache counts no less than no CPU.
LEMMA EntryNat == \A x \in Life \X Nodes : Entry[x] \in Nat
BY ClockAssumption DEF Entry, Life

\* The cache forgets entries: it counts no more, and what it counts was there.
LEMMA ForgettingFrees ==
  ASSUME TypeOK, TypeOK', CpuCounted, snapshot' \subseteq snapshot
  PROVE  /\ IsFiniteSet(snapshot')
         /\ \A n \in Nodes : CpuUsed(n)' <= CpuCapacity[n]
<1>1. IsFiniteSet(snapshot')
  BY FS_Subset DEF CpuCounted
<1>2. ASSUME NEW n \in Nodes PROVE CpuUsed(n)' <= CpuCapacity[n]
  <2> DEFINE S == { x \in snapshot : x[2] = n }
             T == { x \in snapshot' : x[2] = n }
  <2>1. T \in SUBSET S
    OBVIOUS
  <2>2. S \in SUBSET (Life \X Nodes) /\ IsFiniteSet(S) /\ CpuUsed(n) = SumOver(Entry, S)
    BY CpuUsedIs DEF CpuCounted
  <2>3. T \in SUBSET (Life \X Nodes) /\ IsFiniteSet(T)
    BY <2>1, <2>2, FS_Subset
  <2>4. CpuUsed(n)' = SumOver(Entry, T)
    <3>1. CpuUsed(n)' = CpuOf(T)
      BY DEF CpuUsed
    <3> HIDE DEF T
    <3> QED
      BY <2>3, <3>1, EntrySum
  <2> HIDE DEF S, T
  <2>5. SumOver(Entry, T) <= SumOver(Entry, S) /\ SumOver(Entry, S) \in Nat
    BY <2>1, <2>2, EntryNat, SumNat
  <2>6. SumOver(Entry, T) \in Nat
    BY <2>3, EntryNat, SumNat
  <2>7. CpuUsed(n) <= CpuCapacity[n] /\ CpuCapacity[n] \in Nat
    BY ClockAssumption DEF CpuCounted
  <2> QED
    BY <2>2, <2>4, <2>5, <2>6, <2>7
<1> QED
  BY <1>1, <1>2

(***************************************************************************)
(* The scheduler puts a pod on a node that has the CPU it asks for, and    *)
(* counts the pod from then on (fitsRequest, assume).                      *)
(***************************************************************************)
LEMMA ScheduleCounts ==
  ASSUME RunInv, TypeOK', NEW n \in Nodes, Schedule(n)
  PROVE  CpuCounted'
<1> DEFINE p  == driver.pod
           tr == <<p, life[p] + 1>>
           e  == <<tr, n>>
<1> USE DEF RunInv
<1>1. /\ p \in Pods /\ life[p] \in 0 .. MaxArrivals /\ life[p] < MaxArrivals
      /\ ~Runs(p) /\ CpuFits(p, n)
      /\ host' = [host EXCEPT ![p] = n]
      /\ life' = [life EXCEPT ![p] = @ + 1]
      /\ snapshot' = snapshot \cup {e}
  BY DEF Schedule, Ready, TypeOK
<1>2. e \in Life \X Nodes /\ e[2] = n /\ Entry[e] = Cpu[p]
  BY <1>1, ClockAssumption DEF Life, Entry
<1> HIDE DEF e
<1>3. IsFiniteSet(snapshot) /\ IsFiniteSet(snapshot')
  BY <1>1, FS_AddElement DEF CpuCounted
<1>4. ASSUME NEW q \in Pods, Runs(q)'
      PROVE  <<<<q, life'[q]>>, host'[q]>> \in snapshot'
  <2>1. CASE q = p
    BY <1>1, <2>1 DEF e, TypeOK
  <2>2. CASE q # p
    <3>1. host'[q] = host[q] /\ life'[q] = life[q] /\ Runs(q)
      BY <1>1, <1>4, <2>2 DEF TypeOK, Runs
    <3> QED
      BY <1>1, <3>1 DEF CpuCounted
  <2> QED
    BY <2>1, <2>2
<1>5. ASSUME NEW m \in Nodes PROVE CpuUsed(m)' <= CpuCapacity[m]
  <2> DEFINE S == { x \in snapshot : x[2] = m }
             T == { x \in snapshot' : x[2] = m }
  <2>1. S \in SUBSET (Life \X Nodes) /\ IsFiniteSet(S) /\ CpuUsed(m) = SumOver(Entry, S)
    BY <1>3, CpuUsedIs
  <2>2. T \in SUBSET (Life \X Nodes) /\ IsFiniteSet(T)
    BY <1>3, FS_Subset DEF TypeOK
  <2>3. CpuUsed(m)' = SumOver(Entry, T)
    <3>1. CpuUsed(m)' = CpuOf(T)
      BY DEF CpuUsed
    <3> HIDE DEF T
    <3> QED
      BY <2>2, <3>1, EntrySum
  <2>4. CpuUsed(m) <= CpuCapacity[m]
    BY DEF CpuCounted
  <2>5. CASE m = n /\ e \notin snapshot
    <3>1. T = S \cup {e} /\ e \notin S
      BY <1>1, <1>2, <2>5
    <3> HIDE DEF S, T
    <3>2. \A x \in S \cup {e} : Entry[x] \in Int
      BY <1>2, <2>1, EntryNat
    <3>3. SumOver(Entry, T) = SumOver(Entry, S) + Cpu[p]
      BY <1>2, <2>1, <3>1, <3>2, SumAdd
    <3>4. CpuUsed(m) + Cpu[p] <= CpuCapacity[m]
      BY <1>1, <2>5 DEF CpuFits
    <3> QED
      BY <2>1, <2>3, <3>3, <3>4
  <2>6. CASE m # n \/ e \in snapshot
    <3>1. T = S
      BY <1>1, <1>2, <2>6
    <3> QED
      BY <2>1, <2>3, <2>4, <3>1
  <2> QED
    BY <2>5, <2>6
<1> QED
  BY <1>3, <1>4, <1>5 DEF CpuCounted

\* No other step has the scheduler count a pod, or starts one.
LEMMA OthersCount ==
  ASSUME RunInv, TypeOK',
         \/ \E p \in Pods : Arrive(p) \/ DeleteExpired(p) \/ DeleteEvent(p)
         \/ CreateDuplicate \/ Reject
         \/ \E x \in snapshot : CacheForgets(x)
         \/ UNCHANGED vars
  PROVE  CpuCounted'
<1> USE DEF RunInv
<1>1. snapshot' \subseteq snapshot
  BY DEF Arrive, DeleteExpired, DeleteEvent, CreateDuplicate, Reject, CacheForgets, vars
<1>2. ASSUME NEW q \in Pods, Runs(q)'
      PROVE  /\ Runs(q) /\ host'[q] = host[q] /\ life'[q] = life[q]
             /\ <<<<q, life[q]>>, host[q]>> \in snapshot'
  <2>1. <<<<q, life[q]>>, host[q]>> \in snapshot => Runs(q)
    BY ClockAssumption DEF TypeOK, Runs
  <2>2. CASE \E p \in Pods : Arrive(p) \/ DeleteExpired(p) \/ DeleteEvent(p)
    BY <1>2, <2>2 DEF Arrive, DeleteExpired, DeleteEvent, Stop, TypeOK, Runs, CpuCounted
  <2>3. CASE CreateDuplicate
    BY <1>2, <2>3 DEF CreateDuplicate, Stop, TypeOK, Runs, CpuCounted
  <2>4. CASE Reject
    <3>1. driver.pod \in Pods /\ ~Runs(driver.pod)
      BY <2>4 DEF Reject, Ready, TypeOK
    <3>2. q # driver.pod
      BY <1>2, <2>4, <3>1 DEF Reject, Runs
    <3> QED
      BY <1>2, <2>4, <3>2 DEF Reject, TypeOK, Runs, CpuCounted
  <2>5. CASE \E x \in snapshot : CacheForgets(x)
    <3>1. PICK x \in snapshot : CacheForgets(x)
      BY <2>5
    <3>2. Runs(q) /\ host'[q] = host[q] /\ life'[q] = life[q]
      BY <1>2, <3>1 DEF CacheForgets, Runs
    <3>3. <<<<q, life[q]>>, host[q]>> # x
      BY <3>1, <3>2 DEF CacheForgets, Runs
    <3> QED
      BY <3>1, <3>2, <3>3 DEF CacheForgets, CpuCounted
  <2>6. CASE UNCHANGED vars
    BY <1>2, <2>6 DEF vars, Runs, CpuCounted
  <2> QED
    BY <2>2, <2>3, <2>4, <2>5, <2>6
<1> QED
  BY <1>1, <1>2, ForgettingFrees DEF CpuCounted

\* Nothing runs and nothing is counted at the start.
LEMMA RunInvInit == Init => RunInv
<1> SUFFICES ASSUME Init PROVE RunInv
  OBVIOUS
<1>1. TypeOK
  <2>1. Idle \in [pc : {"idle", "release"}, pod : Pods \cup {NoPod}, expired : SUBSET Pods]
        /\ Idle.pc = "idle"
    BY DEF Idle
  <2> QED
    BY <2>1, ClockAssumption DEF Init, TypeOK, Clock
<1>2. CpuCounted
  <2>1. IsFiniteSet(snapshot) /\ snapshot = {}
    BY FS_EmptySet DEF Init
  <2>2. ASSUME NEW n \in Nodes PROVE CpuUsed(n) <= CpuCapacity[n]
    <3>1. { x \in snapshot : x[2] = n } = {}
      BY <2>1
    <3>2. CpuUsed(n) = SumOver(Entry, { x \in snapshot : x[2] = n })
      BY <1>1, <2>1, CpuUsedIs
    <3>3. CpuUsed(n) = 0
      BY <3>1, <3>2, SumNothing
    <3> QED
      BY <3>3, ClockAssumption
  <2> QED
    BY <2>1, <2>2 DEF Init, CpuCounted, Runs
<1> QED
  BY <1>1, <1>2, Start0 DEF RunInv

\* Every step keeps RunInv.
LEMMA RunInvStep == RunInv /\ [Next]_vars => RunInv'
<1> SUFFICES ASSUME RunInv, [Next]_vars PROVE RunInv'
  OBVIOUS
<1>1. ClockInv'
  BY Step DEF RunInv
<1>2. TypeOK'
  <2>1. CASE \E p \in Pods : Arrive(p)
    BY <2>1, ArriveTyped DEF RunInv
  <2>2. CASE \E n \in Nodes : Schedule(n)
    BY <2>2, ScheduleTyped DEF RunInv
  <2>3. CASE Reject
    BY <2>3, RejectTyped DEF RunInv
  <2> QED
    BY <2>1, <2>2, <2>3, OthersTyped DEF Next, RunInv
<1>3. CpuCounted'
  <2>1. CASE \E n \in Nodes : Schedule(n)
    BY <1>2, <2>1, ScheduleCounts
  <2> QED
    BY <1>2, <2>1, OthersCount DEF Next
<1> QED
  BY <1>1, <1>2, <1>3 DEF RunInv

(***************************************************************************)
(* RunInv holds in every state of every run: the scheduler's cache counts  *)
(* each pod that runs, and every variable keeps its type.                  *)
(***************************************************************************)
THEOREM RunInvariant == Spec => []RunInv
BY RunInvInit, RunInvStep, PTL DEF Spec

(***************************************************************************)
(* Every variable of the clock and its driver keeps its type: the counters *)
(* never go below zero, no life is longer than the pod list allows.        *)
(***************************************************************************)
THEOREM TypesKept == Spec => []TypeOK
<1>1. RunInv => TypeOK
  BY DEF RunInv
<1> QED
  BY <1>1, RunInvariant, PTL

(***************************************************************************)
(* The pods that run on a node never ask for more CPU than it has          *)
(* (GetNodeResourceViaNode), however late the scheduler hears of deletions.*)
(***************************************************************************)
THEOREM CpuNeverShort == Spec => []CpuSuffices
<1>1. RunInv => CpuSuffices
  <2> SUFFICES ASSUME RunInv, NEW n \in Nodes
               PROVE  SumOver(Cpu, { p \in Pods : host[p] = n }) <= CpuCapacity[n]
    BY DEF CpuSuffices, SumOver
  <2> DEFINE S == { p \in Pods : host[p] = n }
             T == { x \in snapshot : x[2] = n }
             b == [p \in S |-> <<<<p, life[p]>>, n>>]
  <2>1. T \in SUBSET (Life \X Nodes) /\ IsFiniteSet(T) /\ CpuUsed(n) = SumOver(Entry, T)
    BY CpuUsedIs DEF RunInv, CpuCounted
  <2>2. IsFiniteSet(S)
    BY ClusterAssumption, FS_Subset
  <2>3. \A p \in S : b[p] \in T
    <3> TAKE p \in S
    <3>1. Runs(p) /\ host[p] = n
      BY ClockAssumption DEF Runs
    <3> QED
      BY <3>1 DEF RunInv, CpuCounted
  <2>4. b \in [S -> T]
    BY <2>3
  <2>5. \A p, q \in S : b[p] = b[q] => p = q
    OBVIOUS
  <2>6. \A x \in T : Entry[x] \in Nat
    BY <2>1, EntryNat
  <2>7. \A p \in S : Cpu[p] \in Int /\ Cpu[p] <= Entry[b[p]]
    <3> TAKE p \in S
    <3>1. b[p] \in Life \X Nodes /\ b[p][1][1] = p
      BY <2>1, <2>3
    <3>2. Cpu[p] \in Nat
      BY ClockAssumption
    <3> QED
      BY <3>1, <3>2 DEF Entry
  <2> HIDE DEF S, T, b
  <2>8. SumOver(Cpu, S) <= SumOver(Entry, T)
    BY <2>1, <2>2, <2>4, <2>5, <2>6, <2>7, SumInjection
  <2>9. CpuUsed(n) <= CpuCapacity[n] /\ CpuCapacity[n] \in Nat
    BY ClockAssumption DEF RunInv, CpuCounted
  <2>10. SumOver(Cpu, S) \in Int /\ SumOver(Entry, T) \in Int
    BY <2>1, <2>2, <2>6, <2>7, SumInt
  <2>11. SumOver(Cpu, S) <= CpuCapacity[n]
    BY <2>1, <2>8, <2>9, <2>10
  <2> QED
    BY <2>11 DEF S
<1> QED
  BY <1>1, RunInvariant, PTL

-----------------------------------------------------------------------------
(* The utilisation, of workloads in order and without deletions.           *)

(***************************************************************************)
(* Pods arrive in the order of their start and are never deleted, and a    *)
(* pod the workload file gives GPUs gets as many as it asks for.           *)
(***************************************************************************)
InOrder ==
  /\ ~Shuffle /\ Deletable = {}
  /\ \A p \in Pods : Preset[p] # {} => GpuNum[p] <= Cardinality(Preset[p])

\* The milli-GPU a trace takes while its pod runs.
Rate == [tr \in AllTraces |-> GpuMilli[tr[1]] * GpuNum[tr[1]]]

\* A product with a natural number grows with the other factor.
LEMMA ProductGrows ==
  ASSUME NEW a \in Nat, NEW x \in Int, NEW y \in Int, x <= y
  PROVE  a * x <= a * y
<1>1. \A i, j \in Int : a * (i + j) = a * i + a * j
  OBVIOUS
<1>2. \A j \in Nat : a * j \in Nat
  OBVIOUS
<1>3. y - x \in Nat /\ y = x + (y - x) /\ a * x \in Int
  OBVIOUS
<1> QED
  BY <1>1, <1>2, <1>3

\* The time of a trace is its rate times how long its pod has run.
LEMMA RateNat ==
  ASSUME NEW tr \in AllTraces
  PROVE  /\ Rate[tr] \in Nat /\ Start[tr[1]] \in Nat /\ End[tr[1]] \in Nat
         /\ Whole[tr] = Rate[tr] * (End[tr[1]] - Start[tr[1]])
         /\ \A t : Spent(t)[tr] = Rate[tr] * (t - Start[tr[1]])
<1>1. /\ GpuMilli[tr[1]] \in Nat /\ GpuNum[tr[1]] \in Nat
      /\ Start[tr[1]] \in Nat /\ End[tr[1]] \in Nat
  BY DemandAssumption, MilliAssumption, ClockAssumption DEF AllTraces
<1>2. \A a, b \in Nat : a * b \in Nat
  OBVIOUS
<1> QED
  BY <1>1, <1>2 DEF Rate, Whole, Spent, GpuTime

\* Times up to any t are integers; before the start of a pod they are negative.
LEMMA SpentInt ==
  ASSUME NEW S \in SUBSET AllTraces, IsFiniteSet(S), NEW t \in Int
  PROVE  SumOver(Spent(t), S) \in Int /\ \A tr \in S : Spent(t)[tr] \in Int
<1>1. \A tr \in S : Spent(t)[tr] \in Int
  <2> TAKE tr \in S
  <2>1. Rate[tr] \in Nat /\ t - Start[tr[1]] \in Int
    BY RateNat
  <2>2. \A a, b \in Int : a * b \in Int
    OBVIOUS
  <2> QED
    BY <2>1, <2>2, RateNat
<1> QED
  BY <1>1, SumInt

(***************************************************************************)
(* As time goes on each trace takes its rate.                              *)
(***************************************************************************)
LEMMA SpentLater ==
  ASSUME NEW S \in SUBSET AllTraces, IsFiniteSet(S), NEW t \in Int, NEW u \in Int
  PROVE  SumOver(Spent(u), S) = SumOver(Spent(t), S) + (u - t) * SumOver(Rate, S)
<1> DEFINE more == [tr \in AllTraces |-> (u - t) * Rate[tr]]
<1>1. \A tr \in S : /\ Spent(t)[tr] \in Int /\ more[tr] \in Int /\ Rate[tr] \in Int
                    /\ Spent(u)[tr] = Spent(t)[tr] + more[tr]
  <2> TAKE tr \in S
  <2> DEFINE a == Rate[tr]
             b == Start[tr[1]]
  <2>1. /\ a \in Int /\ b \in Int
        /\ Spent(u)[tr] = a * (u - b) /\ Spent(t)[tr] = a * (t - b)
        /\ more[tr] = (u - t) * a
    BY RateNat
  <2> HIDE DEF a, b, more
  <2>2. a * (u - b) = a * (t - b) + (u - t) * a
    BY <2>1
  <2>3. a * (t - b) \in Int /\ (u - t) * a \in Int
    BY <2>1
  <2> QED
    BY <2>1, <2>2, <2>3 DEF a
<1>2. \A tr \in S : Rate[tr] \in Int /\ more[tr] = (u - t) * Rate[tr]
  BY <1>1
<1> HIDE DEF more
<1>3. SumOver(Spent(u), S) = SumOver(Spent(t), S) + SumOver(more, S)
  BY <1>1, SumPlus
<1>4. u - t \in Int
  OBVIOUS
<1>5. SumOver(more, S) = (u - t) * SumOver(Rate, S)
  BY <1>2, <1>4, SumTimes
<1> QED
  BY <1>3, <1>5

(***************************************************************************)
(* Up to its end a trace takes no more than up to any later time.          *)
(***************************************************************************)
LEMMA WholeAtMost ==
  ASSUME NEW S \in SUBSET AllTraces, IsFiniteSet(S), NEW t \in Int,
         \A tr \in S : End[tr[1]] <= t
  PROVE  SumOver(Whole, S) <= SumOver(Spent(t), S)
<1>1. \A tr \in S : Whole[tr] \in Int /\ Spent(t)[tr] \in Int /\ Whole[tr] <= Spent(t)[tr]
  <2> TAKE tr \in S
  <2> DEFINE x == End[tr[1]] - Start[tr[1]]
             y == t - Start[tr[1]]
  <2>1. /\ Rate[tr] \in Nat /\ x \in Int /\ y \in Int /\ x <= y
        /\ Whole[tr] = Rate[tr] * x /\ Spent(t)[tr] = Rate[tr] * y
    BY RateNat
  <2> HIDE DEF x, y
  <2>2. Rate[tr] * x <= Rate[tr] * y
    BY <2>1, ProductGrows
  <2> QED
    BY <2>1, <2>2, WholeNat, SpentInt
<1> QED
  BY <1>1, SumMonotone

\* The capacity of the cluster is that of one GPU for each GPU of each node.
LEMMA CapacityNat == Capacity \in Nat /\ Capacity = MILLI * SumOver(GpuCount, Nodes)
<1>1. SumOver(GpuCount, Nodes) \in Nat
  BY ClusterAssumption, SumNat
<1>2. Capacity = MILLI * SumOver(GpuCount, Nodes)
  BY DEF Capacity, SumOver
<1>3. \A a, b \in Nat : a * b \in Nat
  OBVIOUS
<1> QED
  BY <1>1, <1>2, <1>3, MilliAssumption

(***************************************************************************)
(* Traces of pods that hold the GPUs they ask for never take more, all     *)
(* together, than the cluster has.                                         *)
(***************************************************************************)
LEMMA RateWithinCapacity ==
  ASSUME NEW T \in SUBSET AllTraces, IsFiniteSet(T), \A tr \in T : tr[2] = 1,
         NEW a \in [Pods -> SUBSET Devices],
         \A d \in Devices : GetUsedGpuMilli({ p \in Pods : d \in a[p] }) <= MILLI,
         \A tr \in T : IsGpuPod(tr[1]) => GpuNum[tr[1]] <= Cardinality(a[tr[1]])
  PROVE  SumOver(Rate, T) <= Capacity /\ SumOver(Rate, T) \in Nat
<1> DEFINE g == [p \in Pods |-> GpuMilli[p] * Cardinality(a[p])]
           b == [tr \in T |-> tr[1]]
<1>1. b \in [T -> Pods]
  BY DEF AllTraces
<1>2. \A x, y \in T : b[x] = b[y] => x = y
  <2> TAKE x, y \in T
  <2>1. x = <<x[1], x[2]>> /\ y = <<y[1], y[2]>>
    BY DEF AllTraces
  <2> QED
    BY <2>1
<1>3. \A p \in Pods : /\ GpuMilli[p] \in Nat /\ GpuNum[p] \in Nat
                      /\ Cardinality(a[p]) \in Nat /\ g[p] \in Nat
  <2> TAKE p \in Pods
  <2>1. GpuMilli[p] \in Nat /\ GpuNum[p] \in Nat
    BY DemandAssumption, MilliAssumption
  <2>2. Cardinality(a[p]) \in Nat
    BY DeviceCount, FS_Subset, FS_CardinalityType
  <2>3. \A i, j \in Nat : i * j \in Nat
    OBVIOUS
  <2> QED
    BY <2>1, <2>2, <2>3
<1>4. \A tr \in T : Rate[tr] \in Int /\ Rate[tr] <= g[b[tr]]
  <2> TAKE tr \in T
  <2>1. /\ tr[1] \in Pods /\ b[tr] = tr[1] /\ Rate[tr] \in Nat
        /\ Rate[tr] = GpuMilli[tr[1]] * GpuNum[tr[1]]
        /\ g[b[tr]] = GpuMilli[tr[1]] * Cardinality(a[tr[1]])
    BY <1>1, RateNat DEF AllTraces, Rate
  <2>2. /\ GpuMilli[tr[1]] \in Nat /\ GpuNum[tr[1]] \in Nat
        /\ Cardinality(a[tr[1]]) \in Nat
    BY <1>3, <2>1
  <2> HIDE DEF g, b
  <2>3. CASE IsGpuPod(tr[1])
    <3>1. GpuNum[tr[1]] <= Cardinality(a[tr[1]])
      BY <2>3
    <3> QED
      BY <2>1, <2>2, <3>1, ProductGrows
  <2>4. CASE ~IsGpuPod(tr[1])
    <3>1. GpuMilli[tr[1]] = 0
      BY <2>2, <2>4 DEF IsGpuPod
    <3> QED
      BY <2>1, <2>2, <3>1
  <2> QED
    BY <2>3, <2>4
<1>5. SumOver(g, Pods) <= MILLI * SumOver(GpuCount, Nodes)
  BY HeldWithinCapacity
<1> HIDE DEF g, b
<1>6. SumOver(Rate, T) <= SumOver(g, Pods)
  BY <1>1, <1>2, <1>3, <1>4, ClusterAssumption, SumInjection
<1>7. SumOver(Rate, T) \in Nat /\ SumOver(g, Pods) \in Nat
  BY <1>3, RateNat, ClusterAssumption, SumNat
<1> QED
  BY <1>5, <1>6, <1>7, CapacityNat

\* The ledger has the cluster of the clock, and counts its devices alike.
LEMMA SameLedger ==
  /\ \A d : Ledger!Holding(d) = { p \in Pods : d \in alloc[p] }
  /\ \A S : Ledger!GetUsedGpuMilli(S) = GetUsedGpuMilli(S)
  /\ \A S : Ledger!Cardinality(S) = Cardinality(S)
  /\ \A p : Ledger!IsGpuPod(p) <=> IsGpuPod(p)
<1>1. \A S : Ledger!GetUsedGpuMilli(S) = GetUsedGpuMilli(S)
  BY DEF Ledger!GetUsedGpuMilli, GetUsedGpuMilli, Ledger!MapThenSumSet, MapThenSumSet,
         Ledger!MapThenFoldSet, MapThenFoldSet
<1>2. \A S : Ledger!Cardinality(S) = Cardinality(S)
  BY DEF Ledger!Cardinality, Cardinality
<1>3. \A p : Ledger!IsGpuPod(p) <=> IsGpuPod(p)
  BY DEF Ledger!IsGpuPod, IsGpuPod
<1>4. \A d : Ledger!Holding(d) = { p \in Pods : d \in alloc[p] }
  BY DEF Ledger!Holding
<1> QED
  BY <1>1, <1>2, <1>3, <1>4

\* What RunInv says of the heap.
LEMMA TracesShape ==
  ASSUME RunInv
  PROVE  traces \in SUBSET AllTraces /\ IsFiniteSet(traces)
BY DEF RunInv, ClockInv, Shape, AllTraces

\* The sums the clock reports are those over its traces.
LEMMA UtilIs ==
  ASSUME RunInv
  PROVE  UtilPossible <=>
           /\ clock.util + SumOver(Spent(clock.now), traces) <= Capacity * clock.now
           /\ clock.util + SumOver(Whole, traces) <= Capacity * clock.allEnd
BY TracesShape, SpentSum, WholeSum DEF UtilPossible

(***************************************************************************)
(* When a pod arrives, the time its clock jumps over is shared by the      *)
(* traces, and those that end in it are counted to their end only.         *)
(***************************************************************************)
LEMMA ArriveUtil ==
  ASSUME InOrder, UtilInv, RunInv', NEW p \in Pods, Arrive(p)
  PROVE  UtilInv'
<1> DEFINE S == Expired(Start[p])
           T == traces \ S
           t == Start[p]
<1>1. /\ life[p] = 0 /\ clock.now <= t /\ driver = Idle
      /\ traces' = T
      /\ clock' = [Released(S) EXCEPT !.now = t, !.arrived = @ + 1]
      /\ driver' = [pc |-> "release", pod |-> p, expired |-> { tr[1] : tr \in S }]
      /\ UNCHANGED <<alloc, host, life, snapshot, nodeTraces>>
  BY DEF Arrive, InOrder, UtilInv, RunInv, ClockInv, Shape
<1>2. /\ traces \in SUBSET AllTraces /\ S \in SUBSET traces
      /\ S \in SUBSET AllTraces /\ T \in SUBSET AllTraces
      /\ IsFiniteSet(traces) /\ IsFiniteSet(S) /\ IsFiniteSet(T)
  <2>1. S \in SUBSET traces /\ T \in SUBSET traces
    BY DEF Expired
  <2> QED
    BY <2>1, TracesShape, FS_Subset DEF UtilInv
<1>3. /\ clock'.now = t /\ clock'.allEnd = clock.allEnd
      /\ clock'.util = clock.util + SumOver(Whole, S)
  <2> HIDE DEF S
  <2>1. Released(S) = [clock EXCEPT !.running = @ - Cardinality(S),
                         !.completed = @ + Cardinality(S), !.util = @ + SumOver(Whole, S)]
    BY <1>2, WholeSum DEF Released
  <2> QED
    BY <1>1, <2>1 DEF UtilInv, RunInv, TypeOK, Clock
<1>4. GpusHeld'
  <2>1. \A d : Ledger!Holding(d)' = Ledger!Holding(d)
    BY <1>1 DEF Ledger!Holding
  <2> QED
    BY <1>1, <2>1 DEF UtilInv, GpusHeld
<1>5. OneLife'
  <2>1. ASSUME NEW tr \in T PROVE tr[2] = 1 /\ tr[1] \notin driver'.expired
    <3>1. tr[2] = 1 /\ tr \notin S /\ tr \in AllTraces
      BY <1>2, <2>1 DEF UtilInv, OneLife
    <3>2. ASSUME NEW x \in S, x[1] = tr[1] PROVE FALSE
      <4>1. x[2] = 1 /\ x \in AllTraces
        BY <1>2 DEF UtilInv, OneLife
      <4>2. x = <<x[1], x[2]>> /\ tr = <<tr[1], tr[2]>>
        BY <3>1, <4>1 DEF AllTraces
      <4> QED
        BY <3>1, <3>2, <4>1, <4>2
    <3> QED
      BY <1>1, <3>1, <3>2
  <2>2. life'[driver'.pod] = 0 /\ Start[driver'.pod] = clock'.now
    BY <1>1, <1>3
  <2> QED
    BY <1>1, <2>1, <2>2 DEF OneLife
<1>6. \A tr \in traces' : End[tr[1]] <= clock'.allEnd
  BY <1>1, <1>3 DEF UtilInv
<1>7. /\ clock.util \in Nat /\ clock.now \in Nat /\ clock.allEnd \in Nat /\ t \in Nat
      /\ Capacity \in Nat
  BY ClockAssumption, CapacityNat DEF UtilInv, RunInv, TypeOK, Clock
<1>8. /\ SumOver(Rate, traces) <= Capacity /\ SumOver(Rate, traces) \in Nat
  <2>1. alloc \in [Pods -> SUBSET Devices] /\ \A tr \in traces : tr[2] = 1
    BY DEF UtilInv, OneLife, RunInv, TypeOK
  <2>2. \A d \in Devices : GetUsedGpuMilli({ q \in Pods : d \in alloc[q] }) <= MILLI
    BY SameLedger DEF UtilInv, GpusHeld
  <2> QED
    BY <1>2, <2>1, <2>2, RateWithinCapacity DEF UtilInv, GpusHeld
<1>9. /\ clock.util + SumOver(Spent(clock.now), traces) <= Capacity * clock.now
      /\ clock.util + SumOver(Whole, traces) <= Capacity * clock.allEnd
  BY UtilIs DEF UtilInv
<1>10. \A tr \in S : End[tr[1]] <= t
  BY DEF Expired
<1> HIDE DEF S, T, t
<1>11. \A tr \in traces : Whole[tr] \in Int /\ Spent(t)[tr] \in Int
  BY <1>2, <1>7, WholeNat, SpentInt
<1>12. SumOver(Whole, traces) = SumOver(Whole, S) + SumOver(Whole, T)
  BY <1>2, <1>11, SumPart DEF T
<1>13. SumOver(Spent(t), traces) = SumOver(Spent(t), S) + SumOver(Spent(t), T)
  BY <1>2, <1>11, SumPart DEF T
<1>14. SumOver(Whole, S) <= SumOver(Spent(t), S)
  BY <1>2, <1>7, <1>10, WholeAtMost
<1>15. SumOver(Spent(t), traces)
         = SumOver(Spent(clock.now), traces) + (t - clock.now) * SumOver(Rate, traces)
  <2>1. \A i, j \in Int : SumOver(Spent(j), traces)
                             = SumOver(Spent(i), traces) + (j - i) * SumOver(Rate, traces)
    BY <1>2, SpentLater
  <2>2. clock.now \in Int /\ t \in Int
    BY <1>7
  <2> QED
    BY <2>1, <2>2
<1>16. (t - clock.now) * SumOver(Rate, traces) <= (t - clock.now) * Capacity
  <2>1. t - clock.now \in Nat
    BY <1>1, <1>7
  <2> QED
    BY <1>7, <1>8, <2>1, ProductGrows
<1>17. /\ SumOver(Whole, S) \in Int /\ SumOver(Whole, T) \in Int
       /\ SumOver(Spent(t), S) \in Int /\ SumOver(Spent(t), T) \in Int
       /\ SumOver(Spent(clock.now), traces) \in Int
       /\ (t - clock.now) * SumOver(Rate, traces) \in Int
       /\ (t - clock.now) * Capacity \in Int
       /\ Capacity * clock.now \in Int /\ Capacity * clock.allEnd \in Int
       /\ Capacity * t = Capacity * clock.now + (t - clock.now) * Capacity
  <2>1. \A a, b, c \in Int : /\ (a - b) * c \in Int /\ c * b \in Int
                             /\ c * a = c * b + (a - b) * c
    OBVIOUS
  <2> QED
    BY <1>2, <1>7, <1>8, <2>1, WholeNat, SpentInt
<1>18. /\ clock'.util + SumOver(Spent(t), T) <= Capacity * t
       /\ clock'.util + SumOver(Whole, T) <= Capacity * clock.allEnd
  BY <1>3, <1>7, <1>9, <1>12, <1>13, <1>14, <1>15, <1>16, <1>17
<1>19. UtilPossible'
  <2>1. clock'.util + GpuTimeSpent(T, t) <= Capacity * t
        /\ clock'.util + GpuTimeWhole(T) <= Capacity * clock.allEnd
    BY <1>2, <1>18, SpentSum, WholeSum
  <2> QED
    BY <1>1, <1>3, <2>1 DEF UtilPossible
<1> QED
  BY <1>4, <1>5, <1>6, <1>19 DEF UtilInv

(***************************************************************************)
(* A pod that is scheduled takes GPUs with room for it, and as many as its *)
(* trace counts; the traces then share the GPUs until the last has ended.  *)
(***************************************************************************)
LEMMA ScheduleUtil ==
  ASSUME InOrder, UtilInv, RunInv', NEW n \in Nodes, Schedule(n)
  PROVE  UtilInv'
<1> DEFINE p  == driver.pod
           tr == <<p, life[p] + 1>>
           T  == traces \cup {tr}
<1>1. /\ driver.pc = "release" /\ driver.expired = {} /\ driver' = Idle
      /\ p \in Pods /\ life[p] = 0 /\ Start[p] = clock.now
      /\ life' = [life EXCEPT ![p] = @ + 1]
      /\ traces' = T
      /\ clock' = [Noted(p) EXCEPT !.running = @ + 1,
                                   !.allEnd = IF End[p] > @ THEN End[p] ELSE @]
  BY DEF Schedule, Ready, RecordPod, UtilInv, OneLife, RunInv, TypeOK
<1>2. /\ tr \in AllTraces /\ tr[1] = p /\ tr[2] = 1
      /\ traces \in SUBSET AllTraces /\ IsFiniteSet(traces)
      /\ T \in SUBSET AllTraces /\ IsFiniteSet(T)
  <2>1. traces \in SUBSET AllTraces /\ IsFiniteSet(traces)
    BY TracesShape DEF UtilInv
  <2>2. tr \in AllTraces /\ tr[1] = p /\ tr[2] = 1
    BY <1>1 DEF AllTraces
  <2> HIDE DEF tr
  <2> QED
    BY <2>1, <2>2, FS_AddElement
<1>3. \A x \in traces : x[1] # p /\ x[1] \in Pods
  <2> TAKE x \in traces
  <2>1. x[2] = 1 /\ x[2] <= life[x[1]] /\ x[1] \in Pods
    BY <1>2 DEF UtilInv, OneLife, RunInv, ClockInv, Begun, AllTraces
  <2> QED
    BY <1>1, <2>1
<1> HIDE DEF tr
<1>4. OneLife'
  BY <1>1, <1>2 DEF UtilInv, OneLife, Idle
<1>5. /\ clock.util \in Nat /\ clock.now \in Nat /\ clock.allEnd \in Nat
      /\ End[p] \in Nat /\ Start[p] <= End[p] /\ Capacity \in Nat
  BY <1>1, ClockAssumption, CapacityNat DEF UtilInv, RunInv, TypeOK, Clock
<1>6. /\ clock'.now = clock.now /\ clock'.util = clock.util
      /\ clock'.allEnd \in Nat /\ clock'.allEnd >= clock.allEnd /\ clock'.allEnd >= End[p]
  <2> HIDE DEF p
  <2>1. clock'.now = clock.now /\ clock'.util = clock.util
        /\ clock'.allEnd = IF End[p] > clock.allEnd THEN End[p] ELSE clock.allEnd
    BY <1>1 DEF Noted, UtilInv, RunInv, TypeOK, Clock
  <2> QED
    BY <1>5, <2>1
<1>7. /\ alloc' \in [Pods -> SUBSET Devices]
      /\ \A d \in Devices : GetUsedGpuMilli({ q \in Pods : d \in alloc'[q] }) <= MILLI
      /\ \A x \in T : IsGpuPod(x[1]) => GpuNum[x[1]] <= Cardinality(alloc'[x[1]])
  <2>0. alloc \in [Pods -> SUBSET Devices] /\ alloc' \in [Pods -> SUBSET Devices]
    BY DEF UtilInv, RunInv, TypeOK
  <2>h. \A d \in Devices : GetUsedGpuMilli({ q \in Pods : d \in alloc[q] }) <= MILLI
    BY SameLedger DEF UtilInv, GpusHeld
  <2>1. CASE IsGpuPod(p)
    <3>1. PICK ids \in SUBSET Idx(n) : Ledger!Place(p, n, ids)
      BY <2>1 DEF Schedule
    <3>2. /\ alloc[p] = {} /\ alloc' = [alloc EXCEPT ![p] = {n} \X ids]
          /\ IF Preset[p] # {} THEN ids = Preset[p] ELSE Cardinality(ids) = GpuNum[p]
          /\ \A i \in ids :
               GetUsedGpuMilli({ q \in Pods : <<n, i>> \in alloc[q] }) + GpuMilli[p] <= MILLI
      BY <3>1, SameLedger DEF Ledger!Place
    <3>3. ASSUME NEW d \in Devices
          PROVE  GetUsedGpuMilli({ q \in Pods : d \in alloc'[q] }) <= MILLI
      <4> DEFINE H == { q \in Pods : d \in alloc[q] }
      <4>1. CASE d \in {n} \X ids
        <5>1. PICK i \in ids : d = <<n, i>>
          BY <4>1
        <5>2. { q \in Pods : d \in alloc'[q] } = H \cup {p} /\ p \in Pods \ H
          BY <1>1, <2>0, <3>2, <4>1
        <5>3. GetUsedGpuMilli(H \cup {p}) = GetUsedGpuMilli(H) + GpuMilli[p]
          <6> HIDE DEF p
          <6>1. H \in SUBSET Pods
            OBVIOUS
          <6> HIDE DEF H
          <6> QED
            BY <5>2, <6>1, UsedAfterAdd
        <5>4. GetUsedGpuMilli(H) + GpuMilli[p] <= MILLI
          BY <3>2, <5>1
        <5> QED
          BY <5>2, <5>3, <5>4
      <4>2. CASE d \notin {n} \X ids
        <5>1. { q \in Pods : d \in alloc'[q] } = H
          BY <1>1, <2>0, <3>2, <4>2
        <5> QED
          BY <2>h, <5>1
      <4> QED
        BY <4>1, <4>2
    <3>4. GpuNum[p] <= Cardinality(alloc'[p])
      <4>1. IsFiniteSet(ids)
        <5>1. IsFiniteSet(0 .. (GpuCount[n] - 1))
          <6>1. GpuCount[n] - 1 \in Int /\ 0 \in Int
            BY ClusterAssumption
          <6> QED
            BY <6>1, FS_Interval
        <5> QED
          BY <5>1, FS_Subset DEF Idx
      <4>2. Cardinality({n} \X ids) = Cardinality(ids)
        <5>0. IsFiniteSet({n}) /\ Cardinality({n}) = 1
          BY FS_Singleton
        <5>1. Cardinality({n} \X ids) = Cardinality({n}) * Cardinality(ids)
          BY <4>1, <5>0, FS_Product
        <5>2. Cardinality(ids) \in Nat
          BY <4>1, FS_CardinalityType
        <5> QED
          BY <5>0, <5>1, <5>2
      <4>3. alloc'[p] = {n} \X ids
        BY <1>1, <2>0, <3>2
      <4>4. GpuNum[p] \in Nat /\ GpuNum[p] <= Cardinality(ids)
        BY <1>1, <3>2, DemandAssumption DEF InOrder
      <4> QED
        BY <4>2, <4>3, <4>4
    <3>5. \A x \in traces : alloc'[x[1]] = alloc[x[1]]
      BY <1>3, <2>0, <3>2
    <3> QED
      BY <1>2, <2>0, <3>3, <3>4, <3>5 DEF UtilInv, GpusHeld
  <2>2. CASE ~IsGpuPod(p)
    <3>1. alloc' = alloc
      BY <2>2 DEF Schedule
    <3> QED
      BY <1>2, <2>0, <2>h, <2>2, <3>1 DEF UtilInv, GpusHeld
  <2> QED
    BY <2>1, <2>2
<1>8. GpusHeld'
  <2>1. \A d : Ledger!Holding(d)' = { q \in Pods : d \in alloc'[q] }
    BY DEF Ledger!Holding
  <2> QED
    BY <1>1, <1>7, <2>1 DEF GpusHeld
<1>9. \A x \in T : End[x[1]] <= clock'.allEnd
  <2> TAKE x \in T
  <2>1. CASE x = tr
    BY <1>2, <1>6, <2>1
  <2>2. CASE x \in traces
    <3>1. End[x[1]] <= clock.allEnd /\ x[1] \in Pods
      BY <1>3, <2>2 DEF UtilInv
    <3>2. End[x[1]] \in Nat
      BY <3>1, ClockAssumption
    <3> QED
      BY <1>5, <1>6, <3>1, <3>2
  <2> QED
    BY <2>1, <2>2
<1>10. SumOver(Rate, T) <= Capacity /\ SumOver(Rate, T) \in Nat
  <2>1. \A x \in T : x[2] = 1
    BY <1>2 DEF UtilInv, OneLife
  <2> HIDE DEF T
  <2> QED
    BY <1>2, <1>7, <2>1, RateWithinCapacity
<1> DEFINE now == clock.now
           end == clock'.allEnd
<1>11. clock.util + SumOver(Spent(now), traces) <= Capacity * now
  BY UtilIs DEF UtilInv
<1> HIDE DEF p, now
<1>12. SumOver(Spent(now), T) = SumOver(Spent(now), traces)
  <2>1. now \in Int
    BY <1>5 DEF now
  <2>2. Spent(now)[tr] = 0
    <3>1. Spent(now)[tr] = Rate[tr] * (now - Start[tr[1]]) /\ Rate[tr] \in Nat
      BY <1>2, RateNat
    <3>2. now - Start[tr[1]] = 0
      BY <1>1, <1>2, <2>1 DEF now
    <3> QED
      BY <3>1, <3>2
  <2>3. tr \notin traces
    BY <1>2, <1>3
  <2>4. \A x \in T : Spent(now)[x] \in Int
    BY <1>2, <2>1, SpentInt
  <2>5. SumOver(Spent(now), T) = SumOver(Spent(now), traces) + Spent(now)[tr]
    BY <1>2, <2>3, <2>4, SumAdd
  <2>6. SumOver(Spent(now), traces) \in Int
    BY <1>2, <2>1, SpentInt
  <2> QED
    BY <2>2, <2>5, <2>6
<1> HIDE DEF T, end
<1>13. now \in Nat /\ end \in Nat /\ now <= end
  <2>1. now <= End[p]
    BY <1>1, <1>5 DEF now
  <2> QED
    BY <1>5, <1>6, <2>1 DEF now, end
<1>14. SumOver(Whole, T) <= SumOver(Spent(end), T)
  <2>1. \A x \in T : End[x[1]] <= end
    BY <1>9 DEF end
  <2> QED
    BY <1>2, <1>13, <2>1, WholeAtMost
<1>15. SumOver(Spent(end), T) = SumOver(Spent(now), T) + (end - now) * SumOver(Rate, T)
  <2>1. \A i, j \in Int : SumOver(Spent(j), T) = SumOver(Spent(i), T) + (j - i) * SumOver(Rate, T)
    BY <1>2, SpentLater
  <2>2. now \in Int /\ end \in Int
    BY <1>13
  <2> QED
    BY <2>1, <2>2
<1>16. (end - now) * SumOver(Rate, T) <= (end - now) * Capacity
  <2>1. end - now \in Nat
    BY <1>13
  <2> QED
    BY <1>5, <1>10, <2>1, ProductGrows
<1>17. /\ SumOver(Whole, T) \in Int /\ SumOver(Spent(end), T) \in Int
       /\ SumOver(Spent(now), T) \in Int
       /\ (end - now) * SumOver(Rate, T) \in Int /\ (end - now) * Capacity \in Int
       /\ Capacity * now \in Int
       /\ Capacity * end = Capacity * now + (end - now) * Capacity
  <2>1. \A a, b, c \in Int : /\ (a - b) * c \in Int /\ c * b \in Int
                             /\ c * a = c * b + (a - b) * c
    OBVIOUS
  <2> QED
    BY <1>2, <1>5, <1>10, <1>13, <2>1, WholeNat, SpentInt
<1>18. /\ clock.util + SumOver(Spent(now), T) <= Capacity * now
       /\ clock.util + SumOver(Whole, T) <= Capacity * end
  BY <1>5, <1>11, <1>12, <1>14, <1>15, <1>16, <1>17
<1>19. UtilPossible'
  <2>1. clock.util + GpuTimeSpent(T, now) <= Capacity * now
        /\ clock.util + GpuTimeWhole(T) <= Capacity * end
    BY <1>2, <1>18, SpentSum, WholeSum
  <2> QED
    BY <1>1, <1>6, <2>1 DEF UtilPossible, now, end
<1> QED
  BY <1>1, <1>4, <1>8, <1>9, <1>19 DEF UtilInv

(***************************************************************************)
(* What the other steps leave alone is enough.  A pod is not created twice *)
(* and never deleted before its end.                                       *)
(***************************************************************************)
LEMMA OthersUtil ==
  ASSUME InOrder, UtilInv, RunInv',
         \/ \E p \in Pods : DeleteExpired(p) \/ DeleteEvent(p)
         \/ CreateDuplicate \/ Reject
         \/ \E x \in snapshot : CacheForgets(x)
         \/ UNCHANGED vars
  PROVE  UtilInv'
<1> USE DEF UtilInv
<1>1. ~ \E p \in Pods : DeleteEvent(p)
  BY DEF DeleteEvent, InOrder
<1>2. ~CreateDuplicate
  <2> SUFFICES ASSUME CreateDuplicate PROVE FALSE
    OBVIOUS
  <2>1. Runs(driver.pod) /\ driver.pod \in Pods /\ life[driver.pod] = 0
    BY DEF CreateDuplicate, Ready, OneLife, RunInv, TypeOK
  <2>2. host[driver.pod] \in Nodes
    BY <2>1 DEF Runs, RunInv, TypeOK
  <2>3. <<driver.pod, life[driver.pod]>> \in Life
    BY <2>1, <2>2 DEF RunInv, ClockInv, TracesCover, TypeOK
  <2> QED
    BY <2>1, <2>3 DEF Life
<1>3. ASSUME NEW p \in Pods, DeleteExpired(p)
      PROVE  UtilInv'
  <2>1. /\ driver.pc = "release" /\ p \in driver.expired
        /\ alloc' = [alloc EXCEPT ![p] = {}]
        /\ driver' = [driver EXCEPT !.expired = @ \ {p}]
        /\ UNCHANGED <<life, traces, clock>>
    BY <1>3 DEF DeleteExpired, Stop
  <2>2. driver' = [pc |-> driver.pc, pod |-> driver.pod, expired |-> driver.expired \ {p}]
    BY <2>1 DEF RunInv, TypeOK
  <2>3. OneLife'
    BY <2>1, <2>2 DEF OneLife
  <2>4. GpusHeld'
    <3>1. alloc \in [Pods -> SUBSET Devices]
      BY DEF RunInv, TypeOK
    <3>2. ASSUME NEW d \in Devices
          PROVE  GetUsedGpuMilli(Ledger!Holding(d)') <= MILLI
      <4>1. Ledger!Holding(d)' = Ledger!Holding(d) \ {p}
        BY <2>1, <3>1 DEF Ledger!Holding
      <4>2. Ledger!Holding(d) \in SUBSET Pods
        BY DEF Ledger!Holding
      <4>3. /\ GetUsedGpuMilli(Ledger!Holding(d)) \in Nat
            /\ GetUsedGpuMilli(Ledger!Holding(d) \ {p}) \in Nat
            /\ GetUsedGpuMilli(Ledger!Holding(d) \ {p}) <= GetUsedGpuMilli(Ledger!Holding(d))
        BY <4>2, UsedAfterRemoval
      <4>4. GetUsedGpuMilli(Ledger!Holding(d)) <= MILLI
        BY DEF GpusHeld
      <4> QED
        BY <4>1, <4>3, <4>4, MilliAssumption
    <3>3. \A tr \in traces : tr[1] # p /\ tr[1] \in Pods
      BY <2>1, TracesShape DEF OneLife, AllTraces
    <3>4. \A tr \in traces : alloc'[tr[1]] = alloc[tr[1]]
      BY <2>1, <3>1, <3>3
    <3> QED
      BY <2>1, <3>2, <3>4 DEF GpusHeld
  <2> QED
    BY <2>1, <2>3, <2>4 DEF UtilPossible
<1>4. CASE Reject
  <2>1. /\ driver' = Idle /\ clock' = Failed(Noted(driver.pod))
        /\ UNCHANGED <<alloc, traces>>
    BY <1>4 DEF Reject
  <2>2. /\ clock'.now = clock.now /\ clock'.util = clock.util
        /\ clock'.allEnd = clock.allEnd
    <3>1. TypeOK
      BY DEF RunInv
    <3>2. PICK a, b : Noted(driver.pod) = [clock EXCEPT !.gpuLacked = a, !.cpuLacked = b]
      BY <3>1 DEF Noted, TypeOK, Clock
    <3> QED
      BY <2>1, <3>1, <3>2, FailedTyped
  <2>3. OneLife'
    BY <2>1 DEF OneLife, Idle
  <2>4. \A d : Ledger!Holding(d)' = Ledger!Holding(d)
    BY <2>1 DEF Ledger!Holding
  <2> QED
    BY <2>1, <2>2, <2>3, <2>4 DEF GpusHeld, UtilPossible
<1>5. CASE (\E x \in snapshot : CacheForgets(x)) \/ UNCHANGED vars
  <2>1. UNCHANGED <<alloc, life, traces, clock, driver>>
    BY <1>5 DEF CacheForgets, vars
  <2>2. \A d : Ledger!Holding(d)' = Ledger!Holding(d)
    BY <2>1 DEF Ledger!Holding
  <2> QED
    BY <2>1, <2>2 DEF GpusHeld, OneLife, UtilPossible
<1> QED
  BY <1>1, <1>2, <1>3, <1>4, <1>5

\* No time has been spent at the start.
LEMMA UtilInvInit == Init => UtilInv
<1> SUFFICES ASSUME Init PROVE UtilInv
  OBVIOUS
<1>1. traces = {} /\ clock.util = 0 /\ clock.now = 0 /\ clock.allEnd = 0 /\ RunInv
  BY RunInvInit DEF Init
<1>2. GpusHeld
  <2>1. \A d \in Devices : Ledger!Holding(d) = {}
    BY DEF Init, Ledger!Holding
  <2> QED
    BY <1>1, <2>1, UsedIsSum, MilliAssumption DEF GpusHeld
<1>3. OneLife
  BY <1>1 DEF Init, OneLife, Idle
<1>4. UtilPossible
  <2>1. SumOver(Spent(0), {}) = 0 /\ SumOver(Whole, {}) = 0 /\ Capacity * 0 = 0
    BY SumNothing, CapacityNat
  <2> QED
    BY <1>1, <2>1, UtilIs
<1> QED
  BY <1>1, <1>2, <1>3, <1>4 DEF UtilInv

\* Every step of an ordered workload keeps UtilInv.
LEMMA UtilInvStep ==
  ASSUME InOrder
  PROVE  UtilInv /\ [Next]_vars => UtilInv'
<1> SUFFICES ASSUME UtilInv, [Next]_vars PROVE UtilInv'
  OBVIOUS
<1>1. RunInv'
  BY RunInvStep DEF UtilInv
<1>2. CASE \E p \in Pods : Arrive(p)
  BY <1>1, <1>2, ArriveUtil
<1>3. CASE \E n \in Nodes : Schedule(n)
  BY <1>1, <1>3, ScheduleUtil
<1> QED
  BY <1>1, <1>2, <1>3, OthersUtil DEF Next

(***************************************************************************)
(* The utilisation FakeTime reports is one the cluster can have had: the   *)
(* GPU time counted is within what its GPUs offered by now, and by the end *)
(* of the last pod (GpuUtils, GpuUtilsAfterAll).                           *)
(***************************************************************************)
THEOREM UtilNeverBeyondCapacity ==
  ASSUME InOrder
  PROVE  Spec => []UtilPossible
<1>1. UtilInv /\ [Next]_vars => UtilInv'
  BY UtilInvStep
<1>2. UtilInv => UtilPossible
  BY DEF UtilInv
<1> QED
  BY <1>1, <1>2, UtilInvInit, PTL DEF Spec
=============================================================================
