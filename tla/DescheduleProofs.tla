-------------------------- MODULE DescheduleProofs --------------------------
(***************************************************************************)
(* Proofs about Deschedule, for every cluster, every workload and every    *)
(* placement of the pods.                                                  *)
(***************************************************************************)
EXTENDS Deschedule, NodeFragProofs

-----------------------------------------------------------------------------
(* The key of the memo.  What is left of each GPU can be read off it, but  *)
(* for the order and for GPUs that are used up.                            *)

\* A node that fits its key.
Keyed == { node \in NodeResources : Len(node.gpu) <= MaxNumGpuPerNode }

LEMMA KeyOrder ==
  ASSUME NEW node \in Keyed
  PROVE  LET L == 1 .. Len(node.gpu)
             D == 1 .. MaxNumGpuPerNode
         IN /\ Len(node.gpu) \in Nat /\ DOMAIN node.gpu = L /\ L \subseteq D
            /\ \A i \in L : node.gpu[i] \in Int
            /\ \E s \in [L -> L] :
                 /\ \A i, j \in L : s[i] = s[j] => i = j
                 /\ \A j \in L : \E i \in L : s[i] = j
                 /\ Flatten(node).gpu = [i \in D |-> IF i \in L THEN node.gpu[s[i]] ELSE 0]
<1> DEFINE n == Len(node.gpu)
           L == 1 .. n
           D == 1 .. MaxNumGpuPerNode
           s == SortedMilliGpuLeftIndexList(node, FALSE)
           Before(i, j) == IF node.gpu[i] = node.gpu[j] THEN i < j
                           ELSE (node.gpu[i] < node.gpu[j]) = FALSE
           R == { u \in L \X L : Before(u[1], u[2]) }
           rank(x) == Cardinality(Below(R, L, x))
<1>1. n \in Nat /\ DOMAIN node.gpu = L /\ \A i \in L : node.gpu[i] \in Int
  BY DEF Keyed, NodeResources
<1>2. L \subseteq D
  BY <1>1, ResourceAssumption DEF Keyed
<1>3. IsFiniteSet(L) /\ Cardinality(L) = n
  <2>1. IsFiniteSet(L) /\ Cardinality(L) = IF 1 > n THEN 0 ELSE n - 1 + 1
    <3> HIDE DEF n
    <3> QED
      BY <1>1, FS_Interval
  <2> HIDE DEF n, L
  <2> QED
    BY <1>1, <2>1
<1>4. IsOrder(R, L)
  <2> HIDE DEF L
  <2> QED
    BY <1>1 DEF IsOrder
<1>5. \A x \in L : Below(R, L, x) = { y \in L : Before(y, x) }
  BY DEF Below
<1>6. s = [k \in 1 .. Cardinality(L) |-> CHOOSE x \in L : Cardinality({ y \in L : Before(y, x) }) = k - 1]
  <2> HIDE DEF L
  <2> QED
    BY <1>1 DEF SortedMilliGpuLeftIndexList, SortBy
<1>7. /\ \A k \in L : \E x \in L : rank(x) = k - 1
      /\ \A x, y \in L : rank(x) = rank(y) => x = y
  <2> HIDE DEF R, L
  <2>1. /\ \A k \in 1 .. Cardinality(L) : \E x \in L : rank(x) = k - 1
        /\ \A x, y \in L : rank(x) = rank(y) => x = y
    BY <1>3, <1>4, RankFound
  <2> QED
    BY <1>3, <2>1 DEF L
<1>8. ASSUME NEW k \in L
      PROVE  s[k] \in L /\ rank(s[k]) = k - 1
  <2>1. \E x \in L : Cardinality({ y \in L : Before(y, x) }) = k - 1
    <3> HIDE DEF L, R, Before
    <3> QED
      BY <1>5, <1>7
  <2>2. s[k] = CHOOSE x \in L : Cardinality({ y \in L : Before(y, x) }) = k - 1
    BY <1>3, <1>6
  <2>3. s[k] \in L /\ Cardinality({ y \in L : Before(y, s[k]) }) = k - 1
    <3> HIDE DEF L, Before, s
    <3> QED
      BY <2>1, <2>2
  <2> QED
    BY <1>5, <2>3
<1>9. s \in [L -> L] /\ DOMAIN s = L
  <2>1. s = [k \in L |-> s[k]]
    BY <1>3, <1>6
  <2> HIDE DEF s
  <2> QED
    BY <1>8, <2>1
<1>10. \A i, j \in L : s[i] = s[j] => i = j
  <2> HIDE DEF s, rank
  <2> QED
    BY <1>1, <1>8
<1>11. ASSUME NEW j \in L
       PROVE  \E i \in L : s[i] = j
  <2>1. rank(j) \in 0 .. n - 1
    <3> HIDE DEF R
    <3> QED
      BY <1>3, <1>4, BelowGrows
  <2>2. rank(j) + 1 \in L /\ rank(j) = (rank(j) + 1) - 1
    <3> HIDE DEF rank
    <3> QED
      BY <1>1, <2>1
  <2>3. s[rank(j) + 1] = j
    <3>1. s[rank(j) + 1] \in L /\ rank(s[rank(j) + 1]) = rank(j)
      <4> HIDE DEF s, rank
      <4> QED
        BY <1>8, <2>2
    <3> HIDE DEF s, rank
    <3> QED
      BY <1>7, <3>1
  <2> QED
    BY <2>2, <2>3
<1>12. Flatten(node).gpu = [i \in D |-> IF i \in L THEN node.gpu[s[i]] ELSE 0]
  <2>1. Flatten(node).gpu = [i \in D |-> IF i \in DOMAIN s THEN node.gpu[s[i]] ELSE 0]
    BY DEF Flatten
  <2> HIDE DEF s
  <2> QED
    BY <1>9, <2>1
<1> HIDE DEF s, L, D
<1>13. \E t \in [L -> L] :
         /\ \A i, j \in L : t[i] = t[j] => i = j
         /\ \A j \in L : \E i \in L : t[i] = j
         /\ Flatten(node).gpu = [i \in D |-> IF i \in L THEN node.gpu[t[i]] ELSE 0]
  BY <1>9, <1>10, <1>11, <1>12
<1> QED
  BY <1>1, <1>2, <1>13 DEF L, D

\* A sum over the GPUs of a node, to which one that is used up adds nothing,
\* is the sum over its key.
LEMMA KeySum ==
  ASSUME NEW node \in Keyed, NEW w \in [Int -> Int], w[0] = 0
  PROVE  LET key == Flatten(node).gpu
         IN SumOver([j \in DOMAIN node.gpu |-> w[node.gpu[j]]], DOMAIN node.gpu)
              = SumOver([i \in 1 .. MaxNumGpuPerNode |-> w[key[i]]], 1 .. MaxNumGpuPerNode)
<1> DEFINE L   == 1 .. Len(node.gpu)
           D   == 1 .. MaxNumGpuPerNode
           key == Flatten(node).gpu
           f   == [j \in L |-> w[node.gpu[j]]]
           g   == [i \in D |-> w[key[i]]]
<1>1. DOMAIN node.gpu = L /\ L \subseteq D /\ \A i \in L : node.gpu[i] \in Int
  BY KeyOrder
<1>2. PICK s \in [L -> L] :
        /\ \A i, j \in L : s[i] = s[j] => i = j
        /\ \A j \in L : \E i \in L : s[i] = j
        /\ key = [i \in D |-> IF i \in L THEN node.gpu[s[i]] ELSE 0]
  BY KeyOrder
<1>3. IsFiniteSet(D) /\ IsFiniteSet(L)
  <2>1. IsFiniteSet(D)
    BY UpToFinite, ResourceAssumption
  <2> HIDE DEF L, D
  <2> QED
    BY <1>1, <2>1, FS_Subset
<1> HIDE DEF L, D, key
<1>4. \A i \in L : g[i] \in Int /\ f[s[i]] = g[i]
  BY <1>1, <1>2
<1>5. SumOver(g, L) = SumOver(f, L)
  <2>1. /\ \A i, j \in L : s[i] = s[j] => i = j
        /\ \A j \in L : \E i \in L : s[i] = j
    BY <1>2
  <2> HIDE DEF f, g
  <2> QED
    BY <1>3, <1>4, <2>1, SumRenamed
<1>6. \A i \in D \ L : g[i] = 0
  BY <1>2
<1>7. SumOver(g, D) = SumOver(g, L)
  <2> HIDE DEF f, g
  <2> QED
    BY <1>1, <1>3, <1>4, <1>6, SumFilter
<1> QED
  BY <1>1, <1>5, <1>7 DEF key, D

(***************************************************************************)
(* Nodes with the same key are the same to every typical pod.              *)
(***************************************************************************)
LEMMA SameKey ==
  ASSUME NEW x \in Keyed, NEW y \in Keyed, Flatten(x) = Flatten(y)
  PROVE  /\ x.cpu = y.cpu /\ x.type = y.type
         /\ \A w \in [Int -> Int] : w[0] = 0 =>
              SumOver([j \in DOMAIN x.gpu |-> w[x.gpu[j]]], DOMAIN x.gpu)
                = SumOver([j \in DOMAIN y.gpu |-> w[y.gpu[j]]], DOMAIN y.gpu)
<1>1. x.cpu = y.cpu /\ x.type = y.type
  BY DEF Flatten
<1>2. ASSUME NEW w \in [Int -> Int], w[0] = 0
      PROVE  SumOver([j \in DOMAIN x.gpu |-> w[x.gpu[j]]], DOMAIN x.gpu)
               = SumOver([j \in DOMAIN y.gpu |-> w[y.gpu[j]]], DOMAIN y.gpu)
  BY <1>2, KeySum
<1> QED
  BY <1>1, <1>2

\* What is left of a node, the part of it that is on GPUs too small for a pod,
\* and the number of GPUs with room for one, as sums over the GPUs.
LEMMA MeasuresAreSums ==
  ASSUME NEW x \in NodeResources, NEW pod \in PodResources
  PROVE  LET Sum(w) == SumOver([j \in DOMAIN x.gpu |-> w[x.gpu[j]]], DOMAIN x.gpu)
         IN /\ GetTotalMilliGpuLeft(x) = Sum([v \in Int |-> v])
            /\ GetGpuFragMilliByNodeResAndPodRes(x, pod)
                 = Sum([v \in Int |-> IF v < pod.milli THEN v ELSE 0])
            /\ Cardinality(Fits(x, pod)) = Sum([v \in Int |-> IF v >= pod.milli THEN 1 ELSE 0])
<1> DEFINE L    == DOMAIN x.gpu
           f    == x.gpu
           all  == [v \in Int |-> v]
           few  == [v \in Int |-> IF v < pod.milli THEN v ELSE 0]
           room == [v \in Int |-> IF v >= pod.milli THEN 1 ELSE 0]
           S(w) == [j \in L |-> w[f[j]]]
<1>1. IsFiniteSet(L) /\ \A j \in L : f[j] \in Int
  BY LeftIsInt DEF NodeResources
<1>2. GetTotalMilliGpuLeft(x) = SumOver(S(all), L)
  <2>1. GetTotalMilliGpuLeft(x) = SumOver(f, L)
    BY LeftIsSum
  <2>2. \A j \in L : f[j] = S(all)[j] /\ f[j] \in Int
    BY <1>1
  <2> HIDE DEF L, all, f
  <2>3. SumOver(f, L) = SumOver(S(all), L)
    <3> HIDE DEF S
    <3> QED
      BY <1>1, <2>2, SumSame
  <2> QED
    BY <2>1, <2>3
<1>3. GetGpuFragMilliByNodeResAndPodRes(x, pod) = SumOver(S(few), L)
  <2> DEFINE T == { j \in L : f[j] < pod.milli }
             h == [i \in T |-> f[i]]
  <2>1. GetGpuFragMilliByNodeResAndPodRes(x, pod) = SumOver(h, T)
    BY SumOfFunction DEF GetGpuFragMilliByNodeResAndPodRes
  <2>2. T \in SUBSET L
    OBVIOUS
  <2>3. \A j \in T : h[j] \in Int /\ S(few)[j] = h[j]
    BY <1>1
  <2>4. \A j \in L \ T : S(few)[j] = 0
    BY <1>1
  <2>5. SumOver(S(few), L) = SumOver(h, T)
    <3> DEFINE s == S(few)
    <3>1. (\A j \in T : h[j] \in Int /\ s[j] = h[j]) /\ \A j \in L \ T : s[j] = 0
      BY <2>3, <2>4
    <3> HIDE DEF S, few, L, T, h, s
    <3>2. SumOver(s, L) = SumOver(h, T)
      BY <1>1, <2>2, <3>1, SumFilter
    <3> QED
      BY <3>2 DEF s
  <2> QED
    BY <2>1, <2>5
<1>4. Cardinality(Fits(x, pod)) = SumOver(S(room), L)
  <2> DEFINE T == Fits(x, pod)
             h == [i \in T |-> 1]
  <2>1. T \in SUBSET L
    BY DEF Fits
  <2>2. IsFiniteSet(T) /\ Cardinality(T) \in Nat
    <3> HIDE DEF T, L
    <3> QED
      BY <1>1, <2>1, FS_Subset, FS_CardinalityType
  <2>3. \A j \in T : h[j] = 1 /\ S(room)[j] = h[j]
    BY <1>1 DEF Fits
  <2>4. \A j \in L \ T : S(room)[j] = 0
    BY <1>1 DEF Fits, PodResources
  <2>5. SumOver(S(room), L) = SumOver(h, T)
    <3> DEFINE s == S(room)
    <3>1. (\A j \in T : h[j] \in Int /\ s[j] = h[j]) /\ \A j \in L \ T : s[j] = 0
      BY <2>3, <2>4
    <3> HIDE DEF S, room, L, T, h, s
    <3>2. SumOver(s, L) = SumOver(h, T)
      BY <1>1, <2>1, <3>1, SumFilter
    <3> QED
      BY <3>2 DEF s
  <2>6. SumOver(h, T) = 1 * Cardinality(T)
    <3>1. \A j \in T : h[j] = 1
      BY <2>3
    <3> HIDE DEF h, T
    <3> QED
      BY <2>2, <3>1, SumConstant
  <2> HIDE DEF S, room, h, T
  <2> QED
    BY <2>2, <2>5, <2>6 DEF T
<1> QED
  BY <1>2, <1>3, <1>4

(***************************************************************************)
(* Nodes with the same key are the same to every pod ...                   *)
(***************************************************************************)
LEMMA SameForPods ==
  ASSUME NEW x \in Keyed, NEW y \in Keyed, Flatten(x) = Flatten(y), NEW pod \in PodResources
  PROVE  /\ GetTotalMilliGpuLeft(x) = GetTotalMilliGpuLeft(y)
         /\ FragOf(x, pod) = FragOf(y, pod)
         /\ FragType(x, pod) = FragType(y, pod)
<1> DEFINE all  == [v \in Int |-> v]
           few  == [v \in Int |-> IF v < pod.milli THEN v ELSE 0]
           room == [v \in Int |-> IF v >= pod.milli THEN 1 ELSE 0]
<1>1. x \in NodeResources /\ y \in NodeResources /\ pod.milli \in Nat
  BY ResourceAssumption DEF Keyed, PodResources
<1>2. all \in [Int -> Int] /\ all[0] = 0 /\ few \in [Int -> Int] /\ few[0] = 0
  BY <1>1
<1>3. GetTotalMilliGpuLeft(x) = GetTotalMilliGpuLeft(y)
  <2> HIDE DEF few, room
  <2>1. all \in [Int -> Int] /\ all[0] = 0
    BY <1>2
  <2>2. /\ GetTotalMilliGpuLeft(x) = SumOver([j \in DOMAIN x.gpu |-> all[x.gpu[j]]], DOMAIN x.gpu)
        /\ GetTotalMilliGpuLeft(y) = SumOver([j \in DOMAIN y.gpu |-> all[y.gpu[j]]], DOMAIN y.gpu)
    BY <1>1, MeasuresAreSums
  <2> HIDE DEF all
  <2> QED
    BY <2>1, <2>2, SameKey
<1>4. GetGpuFragMilliByNodeResAndPodRes(x, pod) = GetGpuFragMilliByNodeResAndPodRes(y, pod)
  <2> HIDE DEF all, room
  <2>1. few \in [Int -> Int] /\ few[0] = 0
    BY <1>2
  <2>2. /\ GetGpuFragMilliByNodeResAndPodRes(x, pod)
             = SumOver([j \in DOMAIN x.gpu |-> few[x.gpu[j]]], DOMAIN x.gpu)
        /\ GetGpuFragMilliByNodeResAndPodRes(y, pod)
             = SumOver([j \in DOMAIN y.gpu |-> few[y.gpu[j]]], DOMAIN y.gpu)
    BY <1>1, MeasuresAreSums
  <2> HIDE DEF few
  <2> QED
    BY <2>1, <2>2, SameKey
<1>5. ASSUME pod.milli # 0
      PROVE  Cardinality(Fits(x, pod)) = Cardinality(Fits(y, pod))
  <2> HIDE DEF all, few
  <2>1. room \in [Int -> Int] /\ room[0] = 0
    BY <1>1, <1>5
  <2>2. /\ Cardinality(Fits(x, pod)) = SumOver([j \in DOMAIN x.gpu |-> room[x.gpu[j]]], DOMAIN x.gpu)
        /\ Cardinality(Fits(y, pod)) = SumOver([j \in DOMAIN y.gpu |-> room[y.gpu[j]]], DOMAIN y.gpu)
    BY <1>1, MeasuresAreSums
  <2> HIDE DEF room
  <2> QED
    BY <2>1, <2>2, SameKey
<1>6. pod.milli # 0 => (CanNodeHostPodOnGpuMemory(x, pod) <=> CanNodeHostPodOnGpuMemory(y, pod))
  <2> SUFFICES ASSUME pod.milli # 0
               PROVE  CanNodeHostPodOnGpuMemory(x, pod) <=> CanNodeHostPodOnGpuMemory(y, pod)
    OBVIOUS
  <2>1. \A z \in NodeResources : Fits(z, pod) = {} <=> Cardinality(Fits(z, pod)) = 0
    BY FitsFinite, FS_EmptySet
  <2> QED
    BY <1>1, <1>5, <2>1 DEF CanNodeHostPodOnGpuMemory
<1>7. x.cpu = y.cpu /\ x.type = y.type
  BY SameKey
<1>8. GetNodePodFrag(x, pod) = GetNodePodFrag(y, pod)
  <2>1. IsNodeAccessibleToPod(x, pod) <=> IsNodeAccessibleToPod(y, pod)
    BY <1>7 DEF IsNodeAccessibleToPod
  <2> QED
    BY <1>6, <1>7, <2>1 DEF GetNodePodFrag
<1> QED
  BY <1>3, <1>4, <1>8 DEF FragOf, FragType

(***************************************************************************)
(* ... and so to every workload: the memo may answer for one what was      *)
(* computed for the other.                                                 *)
(***************************************************************************)
LEMMA SameAmount ==
  ASSUME NEW x \in Keyed, NEW y \in Keyed, Flatten(x) = Flatten(y),
         NEW D, DOMAIN D \subseteq PodResources
  PROVE  NodeGpuShareFragAmount(x, D) = NodeGpuShareFragAmount(y, D)
<1>1. \A pod \in DOMAIN D : /\ GetTotalMilliGpuLeft(x) = GetTotalMilliGpuLeft(y)
                            /\ FragOf(x, pod) = FragOf(y, pod)
                            /\ FragType(x, pod) = FragType(y, pod)
  BY SameForPods
<1>2. [pod \in DOMAIN D |-> D[pod] * (GetTotalMilliGpuLeft(x) - FragOf(x, pod))]
        = [pod \in DOMAIN D |-> D[pod] * (GetTotalMilliGpuLeft(y) - FragOf(y, pod))]
  BY <1>1
<1>3. \A t : [pod \in { p \in DOMAIN D : FragType(x, p) = t } |-> D[pod] * FragOf(x, pod)]
               = [pod \in { p \in DOMAIN D : FragType(y, p) = t } |-> D[pod] * FragOf(y, pod)]
  <2> TAKE t
  <2>1. { p \in DOMAIN D : FragType(x, p) = t } = { p \in DOMAIN D : FragType(y, p) = t }
    BY <1>1
  <2> QED
    BY <1>1, <2>1
<1> QED
  BY <1>2, <1>3 DEF NodeGpuShareFragAmount

-----------------------------------------------------------------------------
(* The memo.                                                               *)

\* m has, of the nodes that fit their key, amounts for the workload D.
MemoFor(m, D) ==
  \A x \in Keyed : Flatten(x) \in DOMAIN m => m[Flatten(x)] = NodeGpuShareFragAmount(x, D)

\* What is remembered of new nodes is true, and all of them are.
LEMMA Remembers ==
  ASSUME MemoFor(memo, typical), DOMAIN typical \subseteq PodResources, NEW S \in SUBSET Keyed
  PROVE  /\ MemoFor(Remember(S), typical)
         /\ \A x \in S : /\ Flatten(x) \in DOMAIN Remember(S)
                         /\ NodeGpuFragAmount(Remember(S), x) = NodeGpuShareFragAmount(x, typical)
<1> DEFINE r == Remember(S)
           K == { Flatten(x) : x \in S }
<1>1. /\ DOMAIN r = DOMAIN memo \cup K
      /\ \A k \in DOMAIN r : r[k] = IF k \in DOMAIN memo THEN memo[k]
                                    ELSE NodeGpuShareFragAmount(CHOOSE x \in S : Flatten(x) = k, typical)
  BY DEF Remember
<1> HIDE DEF r
<1>2. ASSUME NEW x \in Keyed, Flatten(x) \in DOMAIN r
      PROVE  r[Flatten(x)] = NodeGpuShareFragAmount(x, typical)
  <2>1. CASE Flatten(x) \in DOMAIN memo
    BY <1>1, <1>2, <2>1 DEF MemoFor
  <2>2. CASE Flatten(x) \notin DOMAIN memo
    <3> DEFINE y == CHOOSE z \in S : Flatten(z) = Flatten(x)
    <3>1. y \in S /\ Flatten(y) = Flatten(x)
      BY <1>1, <1>2, <2>2
    <3>2. r[Flatten(x)] = NodeGpuShareFragAmount(y, typical)
      BY <1>1, <1>2, <2>2
    <3> HIDE DEF y
    <3> QED
      BY <3>1, <3>2, SameAmount
  <2> QED
    BY <2>1, <2>2
<1>3. \A x \in S : Flatten(x) \in DOMAIN r
  BY <1>1
<1> QED
  BY <1>2, <1>3 DEF r, MemoFor, NodeGpuFragAmount

-----------------------------------------------------------------------------
(* Giving back what a pod holds.                                           *)

\* The elements of a set of numbers in their order: each of them, once.
LEMMA SortByAll ==
  ASSUME NEW S, IsFiniteSet(S), \A x \in S : x \in Int
  PROVE  /\ \A x \in S : \E k \in 1 .. Cardinality(S) : SortBy(S, <)[k] = x
         /\ \A j, k \in 1 .. Cardinality(S) : SortBy(S, <)[j] = SortBy(S, <)[k] => j = k
<1> DEFINE R == { u \in S \X S : u[1] < u[2] }
           n == Cardinality(S)
           s == SortBy(S, <)
           rank(x) == Cardinality({ y \in S : y < x })
<1>1. IsOrder(R, S) /\ \A x \in S : Below(R, S, x) = { y \in S : y < x }
  BY DEF IsOrder, Below
<1>2. \A k \in 1 .. n : \E x \in S : rank(x) = k - 1
  <2> HIDE DEF R
  <2> QED
    BY <1>1, RankFound
<1>3. \A x, y \in S : rank(x) = rank(y) => x = y
  <2>1. \A x, y \in S : Cardinality(Below(R, S, x)) = Cardinality(Below(R, S, y)) => x = y
    <3> HIDE DEF R
    <3> QED
      BY <1>1, RankFound
  <2> HIDE DEF R
  <2> QED
    BY <1>1, <2>1
<1>4. \A x \in S : rank(x) \in 0 .. n - 1
  <2> HIDE DEF R
  <2> QED
    BY <1>1, BelowGrows
<1>5. n \in Nat
  BY FS_CardinalityType
<1>6. \A k \in 1 .. n : s[k] = CHOOSE x \in S : rank(x) = k - 1
  BY DEF SortBy
<1> HIDE DEF s, rank, n
<1>7. \A k \in 1 .. n : s[k] \in S /\ rank(s[k]) = k - 1
  BY <1>2, <1>6
<1>8. ASSUME NEW x \in S PROVE \E k \in 1 .. n : s[k] = x
  <2>1. rank(x) + 1 \in 1 .. n /\ rank(x) = (rank(x) + 1) - 1
    BY <1>4, <1>5
  <2>2. s[rank(x) + 1] = x
    BY <1>3, <1>7, <2>1
  <2> QED
    BY <2>1, <2>2
<1>9. \A j, k \in 1 .. n : s[j] = s[k] => j = k
  BY <1>5, <1>7
<1> QED
  BY <1>8, <1>9 DEF s, n

\* A node that got a share back on each of the GPUs of ids.
GivenBack(node, pod, ids) ==
  [node EXCEPT !.cpu = @ + pod.cpu,
               !.gpu = [i \in DOMAIN @ |-> IF i \in ids THEN @[i] + pod.milli ELSE @[i]]]

(***************************************************************************)
(* Add gives back all it is asked to if no GPU would have more left than   *)
(* it has.                                                                 *)
(***************************************************************************)
LEMMA AddGives ==
  ASSUME NEW node \in NodeResources, NEW pod \in PodResources,
         NEW ids, ids \subseteq DOMAIN node.gpu, Cardinality(ids) = pod.num,
         node.cpu + pod.cpu <= node.cap, \A i \in ids : node.gpu[i] + pod.milli <= MILLI
  PROVE  Add(node, pod, SortBy(ids, <)) = [ok |-> TRUE, node |-> GivenBack(node, pod, ids)]
<1> DEFINE L    == DOMAIN node.gpu
           n    == pod.num
           D    == 1 .. n
           idl  == IF n = 0 THEN <<>> ELSE SortBy(ids, <)
           T    == [L -> Int]
           V    == [ok : BOOLEAN, gpu : T]
           GiveBack(out, i) ==
             IF out.ok /\ i \in DOMAIN out.gpu /\ out.gpu[i] + pod.milli <= MILLI
             THEN [ok |-> TRUE, gpu |-> [out.gpu EXCEPT ![i] = @ + pod.milli]]
             ELSE [out EXCEPT !.ok = FALSE]
           base == [ok |-> TRUE, gpu |-> node.gpu]
           Op(k, v) == GiveBack(v, idl[k])
           op   == [u \in D \X V |-> Op(u[1], u[2])]
           Eqn(g) == g = [s \in SUBSET D |-> IF s = {} THEN base ELSE Op(Max(s), g[s \ {Max(s)}])]
           given(k) == [i \in L |-> IF \E j \in 1 .. k : idl[j] = i THEN node.gpu[i] + pod.milli ELSE node.gpu[i]]
<1>1. /\ L \in SUBSET Int /\ IsFiniteSet(L) /\ node.gpu \in T /\ node.cpu \in Int
      /\ pod.milli \in Nat /\ n \in Nat /\ pod.cpu \in Nat
  BY LeftIsInt, ResourceAssumption DEF NodeResources, PodResources
<1>2. IsFiniteSet(ids) /\ \A x \in ids : x \in Int
  <2> HIDE DEF L
  <2> QED
    BY <1>1, FS_Subset DEF L
<1>3. /\ DOMAIN idl = D
      /\ \A k \in D : idl[k] \in ids
      /\ \A j, k \in D : idl[j] = idl[k] => j = k
      /\ \A i \in ids : \E k \in D : idl[k] = i
  <2>1. CASE n = 0
    <3>1. ids = {}
      BY <1>2, <2>1, FS_EmptySet
    <3> QED
      BY <2>1, <3>1
  <2>2. CASE n # 0
    BY <1>2, <2>2, SortByNumber, SortByAll
  <2> QED
    BY <2>1, <2>2
<1>4. base \in V
  BY <1>1
<1>5. \A k \in D, v \in V : Op(k, v) \in V /\ op[<<k, v>>] = Op(k, v)
  <2> TAKE k \in D, v \in V
  <2>1. op[<<k, v>>] = Op(k, v)
    OBVIOUS
  <2>2. ASSUME NEW i \in DOMAIN v.gpu
        PROVE  [v.gpu EXCEPT ![i] = @ + pod.milli] \in T
    BY <1>1
  <2>3. Op(k, v) \in V
    <3> HIDE DEF T, idl
    <3> QED
      BY <2>2
  <2> QED
    BY <2>1, <2>3
<1>6. PICK g : FoldsLeft(base, op, n, g)
  <2> HIDE DEF base, op
  <2> QED
    BY <1>1, FoldsLeftAlways
<1>7. \A s \in SUBSET D : g[s] \in V
  <2>1. \A x \in D, v \in V : op[<<x, v>>] \in V
    <3> HIDE DEF V, Op, op
    <3> QED
      BY <1>5
  <2> HIDE DEF base, op, V, Op
  <2> QED
    BY <1>1, <1>4, <1>6, <2>1, FoldsLeftStays
<1>8. Eqn(g)
  <2>1. g = [s \in SUBSET D |-> IF s = {} THEN base ELSE op[<< Max(s), g[s \ {Max(s)}] >>]]
    BY <1>6 DEF FoldsLeft
  <2>2. ASSUME NEW s \in SUBSET D, s # {}
        PROVE  op[<< Max(s), g[s \ {Max(s)}] >>] = Op(Max(s), g[s \ {Max(s)}])
    <3>1. IsFiniteSet(D) /\ \A i \in D : i \in Int
      BY <1>1, UpToFinite
    <3> HIDE DEF D, V, op, Op
    <3>2. Max(s) \in D
      BY <2>2, <3>1, FS_Subset, MaxIn
    <3> QED
      BY <1>5, <1>7, <3>2
  <2> HIDE DEF base, op, Op, D
  <2> QED
    BY <2>1, <2>2
<1> DEFINE it == CHOOSE h : h = [s \in SUBSET DOMAIN idl |->
                                   IF s = {} THEN base ELSE Op(Max(s), h[s \ {Max(s)}])]
           out == it[DOMAIN idl]
<1>9. Eqn(it)
  <2>1. DOMAIN idl = D
    BY <1>3
  <2> HIDE DEF base, op, Op, D, idl
  <2> QED
    BY <1>8, <2>1
<1>10. Add(node, pod, SortBy(ids, <))
         = [ok |-> out.ok, node |-> [node EXCEPT !.cpu = node.cpu + pod.cpu, !.gpu = out.gpu]]
  <2>1. Add(node, pod, SortBy(ids, <))
          = IF node.cpu + pod.cpu > node.cap THEN [ok |-> FALSE, node |-> node]
            ELSE [ok |-> out.ok, node |-> [node EXCEPT !.cpu = node.cpu + pod.cpu, !.gpu = out.gpu]]
    BY DEF Add, FoldLeft, MapThenFoldSet
  <2>2. ~(node.cpu + pod.cpu > node.cap)
    BY <1>1 DEF NodeResources
  <2> HIDE DEF out
  <2> QED
    BY <2>1, <2>2
<1>11. it[{}] = base /\ \A k \in D : it[1 .. k] = Op(k, it[1 .. (k - 1)])
  <2>1. ASSUME NEW k \in D
        PROVE  it[1 .. k] = Op(k, it[1 .. (k - 1)])
    <3>1. k \in 1 .. n
      OBVIOUS
    <3> HIDE DEF it, D, Op, base
    <3>2. Max(1 .. k) = k /\ (1 .. k) \ {k} = 1 .. (k - 1)
      BY <1>1, <3>1, MaxUpTo
    <3>4. 1 .. k # {}
      BY <3>1
    <3>3. 1 .. k \in SUBSET D
      <4> USE DEF D
      <4> QED
        BY <1>1, <3>1
    <3> QED
      BY <1>9, <3>2, <3>3, <3>4
  <2> HIDE DEF it, D, Op, base
  <2> QED
    BY <1>9, <2>1
<1> HIDE DEF it
<1> DEFINE Right(k) == it[1 .. k] = [ok |-> TRUE, gpu |-> given(k)]
           Bad == { k \in 0 .. n : ~Right(k) }
<1>12. Right(0)
  <2>1. 1 .. 0 = {}
    OBVIOUS
  <2>2. given(0) = node.gpu
    BY <1>1
  <2> QED
    BY <1>11, <2>1, <2>2
<1>13. ASSUME NEW k \in D, Right(k - 1)
       PROVE  Right(k)
  <2> DEFINE v == it[1 .. (k - 1)]
             i == idl[k]
  <2>1. v = [ok |-> TRUE, gpu |-> given(k - 1)]
    BY <1>13
  <2>2. i \in ids /\ i \in L /\ node.gpu[i] \in Int /\ node.gpu[i] + pod.milli <= MILLI
    BY <1>1, <1>3
  <2>3. \A j \in 1 .. (k - 1) : idl[j] # i
    <3>1. \A j \in 1 .. (k - 1) : j \in D /\ j # k
      BY <1>1
    <3> HIDE DEF idl, D
    <3> QED
      BY <1>3, <3>1
  <2>4. given(k - 1)[i] = node.gpu[i]
    <3> HIDE DEF i, idl
    <3> QED
      BY <2>2, <2>3
  <2>5. Op(k, v) = [ok |-> TRUE, gpu |-> [given(k - 1) EXCEPT ![i] = node.gpu[i] + pod.milli]]
    <3>1. DOMAIN given(k - 1) = L
      OBVIOUS
    <3>2. v.ok = TRUE /\ v.gpu = given(k - 1) /\ v.gpu[i] = node.gpu[i] /\ i \in DOMAIN v.gpu
      <4> HIDE DEF v, given, idl, i, L
      <4> QED
        BY <2>1, <2>2, <2>4, <3>1
    <3>3. GiveBack(v, i) = [ok |-> TRUE, gpu |-> [given(k - 1) EXCEPT ![i] = node.gpu[i] + pod.milli]]
      <4> HIDE DEF v, given, idl, i, L
      <4> QED
        BY <2>2, <3>2
    <3> HIDE DEF given, idl, v, GiveBack
    <3> QED
      BY <3>3
  <2>6. [given(k - 1) EXCEPT ![i] = node.gpu[i] + pod.milli] = given(k)
    <3>1. \A x \in L : (\E j \in 1 .. k : idl[j] = x) <=> (x = i \/ \E j \in 1 .. (k - 1) : idl[j] = x)
      <4>1. \A j : j \in 1 .. k <=> j \in 1 .. (k - 1) \/ j = k
        BY <1>1
      <4> HIDE DEF idl
      <4> QED
        BY <4>1
    <3> HIDE DEF idl, i
    <3> QED
      BY <2>2, <3>1
  <2> HIDE DEF Op, given, v, i
  <2> QED
    BY <1>11, <2>5, <2>6 DEF v
<1>14. \A k \in 0 .. n : Right(k)
  <2> HIDE DEF Right
  <2> SUFFICES ASSUME Bad # {} PROVE FALSE
    OBVIOUS
  <2>1. Bad \in SUBSET Nat
    BY <1>1
  <2>2. PICK m \in Bad : \A t \in Bad : m <= t
    <3> HIDE DEF Bad
    <3> QED
      BY <2>1, LeastNumber
  <2>3. m # 0
    BY <1>12, <2>2
  <2>4. m \in D /\ m - 1 \in 0 .. n /\ m - 1 < m
    BY <1>1, <2>2, <2>3
  <2>5. Right(m - 1)
    BY <2>2, <2>4
  <2> QED
    BY <1>13, <2>2, <2>4, <2>5
<1>15. out = [ok |-> TRUE, gpu |-> given(n)]
  <2>1. DOMAIN idl = 1 .. n /\ n \in 0 .. n
    <3> HIDE DEF idl
    <3> QED
      BY <1>1, <1>3
  <2> HIDE DEF given, idl
  <2> QED
    BY <1>14, <2>1
<1>16. given(n) = [i \in L |-> IF i \in ids THEN node.gpu[i] + pod.milli ELSE node.gpu[i]]
  <2> HIDE DEF idl
  <2> QED
    BY <1>3
<1>17. [node EXCEPT !.cpu = node.cpu + pod.cpu, !.gpu = given(n)] = GivenBack(node, pod, ids)
  BY <1>16 DEF GivenBack
<1> HIDE DEF out, given
<1> QED
  BY <1>10, <1>15, <1>17

(***************************************************************************)
(* The cluster with the pods where pl says they are.                       *)
(***************************************************************************)
OnAs(pl, n) == { p \in Pods : pl[p].node = n }

CpuOf(S)          == SumOver([p \in S |-> PodRes[p].cpu], S)
Holders(pl, i, S) == { q \in S : i \in pl[q].ids }
MilliOf(S)        == SumOver([p \in S |-> PodRes[p].milli], S)

LoadedAs(pl, n, S) ==
  [NodeRes[n] EXCEPT !.cpu = @ - CpuOf(S),
                     !.gpu = [i \in DOMAIN @ |-> @[i] - MilliOf(Holders(pl, i, S))]]

LEMMA LoadedIs == \A n, S : Loaded(n, S) = LoadedAs(placed, n, S)
<1> TAKE n, S
<1>1. SumFunction([p \in S |-> PodRes[p].cpu]) = CpuOf(S)
  BY SumOfFunction DEF CpuOf
<1>2. \A i : SumFunction([p \in { q \in S : i \in placed[q].ids } |-> PodRes[p].milli]) = MilliOf(Holders(placed, i, S))
  BY SumOfFunction DEF MilliOf, Holders
<1> QED
  BY <1>1, <1>2 DEF Loaded, LoadedAs

\* The same of the next state.
LEMMA LoadedNext ==
  ASSUME NEW n
  PROVE  Loaded(n, On(n))' = LoadedAs(placed', n, On(n)') /\ On(n)' = OnAs(placed', n)
<1> DEFINE S == OnAs(placed', n)
<1>1. On(n)' = S
  BY DEF On, OnAs
<1>2. SumFunction([p \in S |-> PodRes[p].cpu]) = CpuOf(S)
  BY SumOfFunction DEF CpuOf
<1>3. \A i : SumFunction([p \in { q \in S : i \in placed'[q].ids } |-> PodRes[p].milli])
              = MilliOf(Holders(placed', i, S))
  BY SumOfFunction DEF MilliOf, Holders
<1>4. Loaded(n, On(n))' =
        [NodeRes[n] EXCEPT
           !.cpu = @ - SumFunction([p \in S |-> PodRes[p].cpu]),
           !.gpu = [i \in DOMAIN @ |->
                      @[i] - SumFunction([p \in { q \in S : i \in placed'[q].ids } |-> PodRes[p].milli])]]
  BY <1>1 DEF Loaded
<1> HIDE DEF S
<1> QED
  BY <1>1, <1>2, <1>3, <1>4 DEF LoadedAs, S

LEMMA SumsOfPods ==
  ASSUME NEW S \in SUBSET Pods
  PROVE  /\ CpuOf(S) \in Nat /\ MilliOf(S) \in Nat
         /\ \A p \in S : /\ CpuOf(S) = PodRes[p].cpu + CpuOf(S \ {p})
                         /\ MilliOf(S) = PodRes[p].milli + MilliOf(S \ {p})
<1>1. /\ IsFiniteSet(S) /\ \A p \in S : IsFiniteSet(S \ {p})
      /\ \A p \in S : PodRes[p].cpu \in Nat /\ PodRes[p].milli \in Nat
  <2>1. IsFiniteSet(Pods) /\ \A p \in Pods : PodRes[p] \in PodResources
    BY DescheduleAssumption
  <2>2. \A p \in S : PodRes[p].cpu \in Nat /\ PodRes[p].milli \in Nat
    BY <2>1, ResourceAssumption DEF PodResources
  <2>3. IsFiniteSet(S) /\ \A p \in S : S \ {p} \in SUBSET S
    BY <2>1, FS_Subset
  <2>4. \A p \in S : IsFiniteSet(S \ {p})
    BY <2>3, FS_Subset
  <2> QED
    BY <2>2, <2>3, <2>4
<1> DEFINE c == [p \in S |-> PodRes[p].cpu]
           m == [p \in S |-> PodRes[p].milli]
<1>2. \A p \in S : c[p] = PodRes[p].cpu /\ c[p] \in Nat /\ c[p] \in Int /\ m[p] = PodRes[p].milli /\ m[p] \in Nat /\ m[p] \in Int
  BY <1>1
<1>3. SumOver(c, S) \in Nat /\ SumOver(m, S) \in Nat
  <2> HIDE DEF c, m
  <2> QED
    BY <1>1, <1>2, SumNat
<1>4. ASSUME NEW p \in S
      PROVE  /\ SumOver(c, S) = c[p] + SumOver(c, S \ {p})
             /\ SumOver(m, S) = m[p] + SumOver(m, S \ {p})
             /\ SumOver(c, S \ {p}) = CpuOf(S \ {p})
             /\ SumOver(m, S \ {p}) = MilliOf(S \ {p})
  <2> DEFINE R  == S \ {p}
             cr == [q \in R |-> PodRes[q].cpu]
             mr == [q \in R |-> PodRes[q].milli]
  <2>1. SumOver(c, S) = c[p] + SumOver(c, S \ {p}) /\ SumOver(m, S) = m[p] + SumOver(m, S \ {p})
    <3> HIDE DEF c, m
    <3> QED
      BY <1>1, <1>2, SumWithout
  <2>2. \A q \in R : c[q] = cr[q] /\ m[q] = mr[q] /\ c[q] \in Int /\ m[q] \in Int
    BY <1>2
  <2>3. IsFiniteSet(R)
    BY <1>1
  <2>4. SumOver(c, R) = SumOver(cr, R) /\ SumOver(m, R) = SumOver(mr, R)
    <3> HIDE DEF c, m, cr, mr, R
    <3> QED
      BY <2>2, <2>3, SumSame
  <2> QED
    BY <2>1, <2>4 DEF CpuOf, MilliOf
<1> HIDE DEF c, m
<1> QED
  BY <1>2, <1>3, <1>4 DEF CpuOf, MilliOf, c, m

LEMMA LoadedFields ==
  ASSUME NEW n \in Nodes, NEW pl, NEW S \in SUBSET Pods
  PROVE  LET node == LoadedAs(pl, n, S)
         IN /\ node \in Keyed
            /\ node.cpu = NodeRes[n].cap - CpuOf(S) /\ node.cap = NodeRes[n].cap /\ node.type = NodeRes[n].type
            /\ Len(node.gpu) = Len(NodeRes[n].gpu) /\ DOMAIN node.gpu = DOMAIN NodeRes[n].gpu
            /\ \A i \in DOMAIN node.gpu : node.gpu[i] = MILLI - MilliOf(Holders(pl, i, S))
<1>1. /\ NodeRes[n] \in NodeResources /\ NodeRes[n].cpu = NodeRes[n].cap
      /\ Len(NodeRes[n].gpu) <= MaxNumGpuPerNode
      /\ \A i \in DOMAIN NodeRes[n].gpu : NodeRes[n].gpu[i] = MILLI
  BY DescheduleAssumption
<1>2. CpuOf(S) \in Nat /\ \A i : Holders(pl, i, S) \in SUBSET Pods /\ MilliOf(Holders(pl, i, S)) \in Nat
  <2>1. \A i : Holders(pl, i, S) \in SUBSET Pods
    BY DEF Holders
  <2> QED
    BY <2>1, SumsOfPods
<1>3. PICK node : node = LoadedAs(pl, n, S)
  OBVIOUS
<1> DEFINE L == DOMAIN NodeRes[n].gpu
           g == [i \in L |-> NodeRes[n].gpu[i] - MilliOf(Holders(pl, i, S))]
<1>4. g \in Seq(Int) /\ Len(g) = Len(NodeRes[n].gpu) /\ \A i \in L : g[i] = MILLI - MilliOf(Holders(pl, i, S))
  <2>1. L = 1 .. Len(NodeRes[n].gpu) /\ Len(NodeRes[n].gpu) \in Nat
    BY <1>1 DEF NodeResources
  <2>2. \A i \in L : g[i] = MILLI - MilliOf(Holders(pl, i, S)) /\ g[i] \in Int
    BY <1>1, <1>2, ResourceAssumption
  <2>3. g = [i \in 1 .. Len(NodeRes[n].gpu) |-> g[i]]
    BY <2>1
  <2>4. Len(g) = Len(NodeRes[n].gpu) /\ g \in Seq(Int)
    <3> HIDE DEF g
    <3>1. DOMAIN g = 1 .. Len(NodeRes[n].gpu)
      BY <2>3
    <3>2. g \in [1 .. Len(NodeRes[n].gpu) -> Int]
      BY <2>1, <2>2, <2>3
    <3> QED
      BY <2>1, <3>1, <3>2
  <2> QED
    BY <2>2, <2>4
<1>5. node = [cpu |-> NodeRes[n].cpu - CpuOf(S), cap |-> NodeRes[n].cap, gpu |-> g, type |-> NodeRes[n].type]
  BY <1>1, <1>3 DEF LoadedAs, NodeResources
<1> HIDE DEF g
<1>6. DOMAIN node.gpu = L
  BY <1>5 DEF g
<1>7. node \in Keyed
  BY <1>1, <1>2, <1>4, <1>5 DEF Keyed, NodeResources
<1> QED
  BY <1>1, <1>3, <1>4, <1>5, <1>6, <1>7

(***************************************************************************)
(* What a pod that is given back leaves is the node without it.            *)
(***************************************************************************)
LEMMA AddUndoes ==
  ASSUME NEW n \in Nodes, NEW pl, NEW S \in SUBSET Pods, NEW p \in S,
         pl[p].ids \subseteq DOMAIN NodeRes[n].gpu, Cardinality(pl[p].ids) = PodRes[p].num
  PROVE  Add(LoadedAs(pl, n, S), PodRes[p], GpuIdList(pl, p))
           = [ok |-> TRUE, node |-> LoadedAs(pl, n, S \ {p})]
<1> DEFINE R    == S \ {p}
           pod  == PodRes[p]
           ids  == pl[p].ids
           node == LoadedAs(pl, n, S)
           rest == LoadedAs(pl, n, R)
<1>1. pod \in PodResources /\ R \in SUBSET Pods
  BY DescheduleAssumption
<1>2. /\ CpuOf(S) \in Nat /\ CpuOf(R) \in Nat /\ CpuOf(S) = pod.cpu + CpuOf(R)
      /\ pod.cpu \in Nat /\ pod.milli \in Nat /\ MILLI \in Nat
      /\ NodeRes[n].cap \in Nat
  <2>1. CpuOf(S) \in Nat /\ CpuOf(R) \in Nat /\ CpuOf(S) = pod.cpu + CpuOf(R)
    BY <1>1, SumsOfPods
  <2>2. NodeRes[n] \in NodeResources
    BY DescheduleAssumption
  <2> HIDE DEF pod
  <2> QED
    BY <1>1, <2>1, <2>2, ResourceAssumption DEF PodResources, NodeResources
<1>3. ASSUME NEW i
      PROVE  LET H == Holders(pl, i, S)
                 K == Holders(pl, i, R)
             IN /\ MilliOf(H) \in Nat /\ MilliOf(K) \in Nat
                /\ MilliOf(H) = IF i \in ids THEN pod.milli + MilliOf(K) ELSE MilliOf(K)
  <2> DEFINE H == Holders(pl, i, S)
             K == Holders(pl, i, R)
  <2>1. H \in SUBSET Pods /\ K \in SUBSET Pods /\ K = H \ {p} /\ (p \in H <=> i \in ids)
    BY DEF Holders
  <2>2. MilliOf(H) \in Nat /\ MilliOf(K) \in Nat /\ (p \in H => MilliOf(H) = pod.milli + MilliOf(H \ {p}))
    <3> HIDE DEF H, K, pod
    <3> QED
      BY <2>1, SumsOfPods DEF pod
  <2>3. p \notin H => K = H
    BY <2>1
  <2> HIDE DEF H, K, pod, ids
  <2> QED
    BY <2>1, <2>2, <2>3 DEF H, K
<1>4. /\ node \in Keyed /\ rest \in Keyed
      /\ node.cpu = NodeRes[n].cap - CpuOf(S) /\ node.cap = NodeRes[n].cap
      /\ DOMAIN node.gpu = DOMAIN NodeRes[n].gpu
      /\ \A i \in DOMAIN NodeRes[n].gpu : node.gpu[i] = MILLI - MilliOf(Holders(pl, i, S))
      /\ rest.cpu = NodeRes[n].cap - CpuOf(R) /\ rest.cap = NodeRes[n].cap
      /\ DOMAIN rest.gpu = DOMAIN NodeRes[n].gpu
      /\ \A i \in DOMAIN NodeRes[n].gpu : rest.gpu[i] = MILLI - MilliOf(Holders(pl, i, R))
      /\ node.type = rest.type
  <2> HIDE DEF R
  <2> QED
    BY <1>1, LoadedFields
<1>5. PICK x, y : x = node /\ y = rest
  OBVIOUS
<1> DEFINE L == DOMAIN NodeRes[n].gpu
<1>6. \A i \in L : y.gpu[i] = IF i \in ids THEN x.gpu[i] + pod.milli ELSE x.gpu[i]
  <2> TAKE i \in L
  <2> DEFINE a == MilliOf(Holders(pl, i, S))
             b == MilliOf(Holders(pl, i, R))
  <2>1. x.gpu[i] = MILLI - a /\ y.gpu[i] = MILLI - b
    BY <1>4, <1>5
  <2>2. a \in Nat /\ b \in Nat /\ a = IF i \in ids THEN pod.milli + b ELSE b
    BY <1>3
  <2> HIDE DEF a, b, R, ids, pod
  <2> QED
    BY <1>2, <2>1, <2>2
<1>7. \A i \in ids : x.gpu[i] + pod.milli <= MILLI
  <2> TAKE i \in ids
  <2> DEFINE a == MilliOf(Holders(pl, i, S))
             b == MilliOf(Holders(pl, i, R))
  <2>1. x.gpu[i] = MILLI - a
    BY <1>4, <1>5
  <2>2. a \in Nat /\ b \in Nat /\ a = IF i \in ids THEN pod.milli + b ELSE b
    BY <1>3
  <2> HIDE DEF a, b, R, ids, pod
  <2> QED
    BY <1>2, <2>1, <2>2
<1>8. x.cpu + pod.cpu <= x.cap /\ y.cpu = x.cpu + pod.cpu /\ y.cap = x.cap /\ y.type = x.type
  <2> HIDE DEF R, pod
  <2> QED
    BY <1>2, <1>4, <1>5
<1>9. y = GivenBack(x, pod, ids)
  <2>1. y.gpu = [i \in L |-> y.gpu[i]] /\ DOMAIN x.gpu = L
    <3>1. DOMAIN y.gpu = L /\ DOMAIN x.gpu = L /\ y.gpu \in Seq(Int)
      BY <1>4, <1>5 DEF Keyed, NodeResources
    <3> HIDE DEF L
    <3> QED
      BY <3>1
  <2>2. y.gpu = [i \in L |-> IF i \in ids THEN x.gpu[i] + pod.milli ELSE x.gpu[i]]
    <3> HIDE DEF ids, pod
    <3> QED
      BY <1>6, <2>1
  <2>3. x \in NodeResources /\ y \in NodeResources
    BY <1>4, <1>5 DEF Keyed
  <2> HIDE DEF pod, ids, node, rest, L
  <2> QED
    BY <1>8, <2>1, <2>2, <2>3 DEF GivenBack, NodeResources
<1>10. /\ x \in NodeResources /\ ids \subseteq DOMAIN x.gpu /\ Cardinality(ids) = pod.num
  BY <1>4, <1>5 DEF Keyed
<1>11. Add(x, pod, SortBy(ids, <)) = [ok |-> TRUE, node |-> GivenBack(x, pod, ids)]
  <2> HIDE DEF pod, ids, node, rest
  <2> QED
    BY <1>1, <1>7, <1>8, <1>10, AddGives
<1>12. Add(x, pod, GpuIdList(pl, p)) = [ok |-> TRUE, node |-> y]
  BY <1>9, <1>11 DEF GpuIdList
<1> QED
  BY <1>5, <1>12

-----------------------------------------------------------------------------
(* The queue of nodes.                                                     *)

Items == [node : Nodes, priority : Int]

\* The queues of n items of I, no two of them for the same node.
Queues(n, I) == { q \in [1 .. n -> I] : \A j, k \in 1 .. n : q[j].node = q[k].node => j = k }

\* Where the item at position at is moved in such a queue.
Turns(n, I) == [q : Queues(n, I), at : 1 .. n]

LEMMA QueueIs ==
  ASSUME NEW n \in Nat, NEW I \in SUBSET Items, NEW q \in Queues(n, I)
  PROVE  /\ q \in [1 .. n -> I] /\ q \in Seq(I) /\ Len(q) = n /\ DOMAIN q = 1 .. n
         /\ \A k \in 1 .. n : q[k] \in I /\ q[k].node \in Nodes /\ q[k].priority \in Int
         /\ \A j, k \in 1 .. n : q[j].node = q[k].node => j = k
<1>1. q \in [1 .. n -> I] /\ DOMAIN q = 1 .. n
  BY DEF Queues
<1>2. q \in Seq(I) /\ Len(q) = n
  BY <1>1
<1>3. \A k \in 1 .. n : q[k] \in I /\ q[k].node \in Nodes /\ q[k].priority \in Int
  BY <1>1 DEF Items
<1> QED
  BY <1>1, <1>2, <1>3 DEF Queues

LEMMA SwappedKeeps ==
  ASSUME NEW n \in Nat, NEW I \in SUBSET Items, NEW q \in Queues(n, I), NEW i \in 1 .. n, NEW j \in 1 .. n
  PROVE  /\ Swapped(q, i, j) \in Queues(n, I)
         /\ \A k \in 1 .. n : Swapped(q, i, j)[k] = q[IF k = i THEN j ELSE IF k = j THEN i ELSE k]
<1> DEFINE s == Swapped(q, i, j)
           D == 1 .. n
<1>1. DOMAIN q = D /\ \A k \in D : q[k] \in I
  BY QueueIs
<1>2. \A k \in D : s[k] = q[IF k = i THEN j ELSE IF k = j THEN i ELSE k]
  BY <1>1 DEF Swapped
<1>3. s \in [D -> I]
  BY <1>1 DEF Swapped
<1>4. \A x, y \in D : q[x].node = q[y].node => x = y
  BY DEF Queues
<1>5. \A x, y \in D : s[x].node = s[y].node => x = y
  <2> HIDE DEF s, D
  <2> QED
    BY <1>2, <1>4 DEF D
<1> QED
  BY <1>2, <1>3, <1>5 DEF Queues

LEMMA Half == \A k \in Nat : k \div 2 \in Nat /\ 2 * (k \div 2) <= k /\ k <= 2 * (k \div 2) + 1
OBVIOUS

\* One turn of down: the item stays, no child being higher, or changes places
\* with a child that is higher than it and no lower than the other.
LEMMA SinkTurn ==
  ASSUME NEW n \in Nat, NEW I \in SUBSET Items, NEW h \in Turns(n, I)
  PROVE  LET q == h.q
             i == h.at
             Child(k) == k \in 1 .. n /\ (k = 2 * i \/ k = 2 * i + 1)
         IN \/ Sink(h) = h /\ \A k : Child(k) => ~Higher(q[k], q[i])
            \/ \E c : /\ Child(c) /\ Higher(q[c], q[i]) /\ \A k : Child(k) => ~Higher(q[k], q[c])
                      /\ Sink(h) = [q |-> Swapped(q, i, c), at |-> c]
<1> DEFINE q == h.q
           i == h.at
           l == 2 * i
           c == IF l + 1 <= Len(q) /\ Higher(q[l + 1], q[l]) THEN l + 1 ELSE l
           Child(k) == k \in 1 .. n /\ (k = 2 * i \/ k = 2 * i + 1)
<1>1. q \in Queues(n, I) /\ i \in 1 .. n
  BY DEF Turns
<1>2. Len(q) = n /\ \A k \in 1 .. n : q[k].priority \in Int
  BY <1>1, QueueIs
<1>3. Sink(h) = IF l <= Len(q) /\ Higher(q[c], q[i]) THEN [q |-> Swapped(q, i, c), at |-> c] ELSE h
  BY DEF Sink
<1> HIDE DEF q, i
<1>4. CASE l <= n
  <2>1. c \in 1 .. n /\ Child(c) /\ \A k : Child(k) => ~Higher(q[k], q[c])
    BY <1>1, <1>2, <1>4 DEF Higher
  <2>2. CASE Higher(q[c], q[i])
    BY <1>2, <1>3, <1>4, <2>1, <2>2 DEF q, i
  <2>3. CASE ~Higher(q[c], q[i])
    <3>1. \A k : Child(k) => ~Higher(q[k], q[i])
      <4> HIDE DEF c
      <4>1. \A k : Child(k) => k \in 1 .. n
        OBVIOUS
      <4> HIDE DEF Child
      <4> QED
        BY <1>1, <1>2, <2>1, <2>3, <4>1 DEF Higher
    <3> QED
      BY <1>3, <2>3, <3>1 DEF q, i
  <2> QED
    BY <2>2, <2>3
<1>5. CASE ~(l <= n)
  <2>1. \A k : ~Child(k)
    BY <1>1, <1>5
  <2> QED
    BY <1>2, <1>3, <1>5, <2>1 DEF q, i
<1> QED
  BY <1>4, <1>5

LEMMA SinkIn ==
  ASSUME NEW n \in Nat, NEW I \in SUBSET Items, NEW h \in Turns(n, I)
  PROVE  Sink(h) \in Turns(n, I)
<1>1. h.q \in Queues(n, I) /\ h.at \in 1 .. n
  BY DEF Turns
<1>2. Sink(h) = h \/ \E c \in 1 .. n : Sink(h) = [q |-> Swapped(h.q, h.at, c), at |-> c]
  BY SinkTurn
<1>3. \A c \in 1 .. n : Swapped(h.q, h.at, c) \in Queues(n, I)
  BY <1>1, SwappedKeeps
<1> QED
  BY <1>2, <1>3 DEF Turns

\* One turn of up: the item stays, not being higher than its parent, or
\* changes places with it.
LEMMA RiseTurn ==
  ASSUME NEW n \in Nat, NEW I \in SUBSET Items, NEW h \in Turns(n, I)
  PROVE  LET q == h.q
             i == h.at
             p == h.at \div 2
         IN \/ Rise(h) = h /\ (i > 1 => ~Higher(q[i], q[p]))
            \/ /\ i > 1 /\ p \in 1 .. n /\ p < i /\ Higher(q[i], q[p])
               /\ Rise(h) = [q |-> Swapped(q, i, p), at |-> p]
<1>1. h.q \in Queues(n, I) /\ h.at \in 1 .. n
  BY DEF Turns
<1>2. h.at > 1 => h.at \div 2 \in 1 .. n /\ h.at \div 2 < h.at
  BY <1>1
<1> QED
  BY <1>2 DEF Rise

LEMMA RiseIn ==
  ASSUME NEW n \in Nat, NEW I \in SUBSET Items, NEW h \in Turns(n, I)
  PROVE  Rise(h) \in Turns(n, I)
<1>1. h.q \in Queues(n, I) /\ h.at \in 1 .. n
  BY DEF Turns
<1>2. Rise(h) = h \/ \E c \in 1 .. n : Rise(h) = [q |-> Swapped(h.q, h.at, c), at |-> c]
  BY RiseTurn
<1>3. \A c \in 1 .. n : Swapped(h.q, h.at, c) \in Queues(n, I)
  BY <1>1, SwappedKeeps
<1> QED
  BY <1>2, <1>3 DEF Turns

\* The turns of down, and of up, one after the other.
LEMMA DownRun ==
  ASSUME NEW n \in Nat, NEW I \in SUBSET Items, NEW q \in Queues(n, I), NEW i \in 1 .. n
  PROVE  \E t \in [0 .. n -> Turns(n, I)] :
           /\ t[0] = [q |-> q, at |-> i] /\ Down(q, i) = t[n].q
           /\ \A k \in 1 .. n : t[k] = Sink(t[k - 1])
<1> DEFINE D    == 1 .. n
           V    == Turns(n, I)
           base == [q |-> q, at |-> i]
           op   == [u \in D \X V |-> Sink(u[2])]
           Eqn(h) == h = [s \in SUBSET DOMAIN q |-> IF s = {} THEN base ELSE Sink(h[s \ {Max(s)}])]
           it   == CHOOSE h : Eqn(h)
<1>1. DOMAIN q = D
  BY QueueIs
<1>2. Down(q, i) = it[D].q
  BY <1>1 DEF Down, FoldLeft, MapThenFoldSet
<1>3. base \in V
  BY DEF Turns
<1>4. \A x \in D, v \in V : op[<<x, v>>] = Sink(v) /\ Sink(v) \in V
  <2>1. \A v \in V : Sink(v) \in V
    BY SinkIn
  <2> QED
    BY <2>1
<1>5. \E h : Eqn(h)
  <2>1. PICK g : /\ g = [s \in SUBSET D |-> IF s = {} THEN base ELSE op[<< Max(s), g[s \ {Max(s)}] >>]]
                 /\ \A s \in SUBSET D : g[s] \in V /\ (s # {} => Max(s) \in D)
    <3>1. \A x \in D, v \in V : op[<<x, v>>] \in V
      <4> HIDE DEF V, D, op
      <4> QED
        BY <1>4
    <3> HIDE DEF V, base, op
    <3> QED
      BY <1>3, <3>1, FoldExists
  <2>2. \A s \in SUBSET D : s # {} => op[<< Max(s), g[s \ {Max(s)}] >>] = Sink(g[s \ {Max(s)}])
    <3> HIDE DEF V, base, op, D
    <3> QED
      BY <1>4, <2>1
  <2>3. Eqn(g)
    <3> HIDE DEF V, base, op, D
    <3> QED
      BY <1>1, <2>1, <2>2
  <2> QED
    BY <2>3
<1>6. Eqn(it)
  <2> HIDE DEF Eqn
  <2> QED
    BY <1>5
<1> HIDE DEF it
<1> DEFINE W   == V \cup { it[s] : s \in SUBSET D }
           op2 == [u \in D \X W |-> Sink(u[2])]
<1>7. it = [s \in SUBSET D |-> IF s = {} THEN base ELSE op2[<< Max(s), it[s \ {Max(s)}] >>]]
  <2>1. ASSUME NEW s \in SUBSET D, s # {}
        PROVE  op2[<< Max(s), it[s \ {Max(s)}] >>] = Sink(it[s \ {Max(s)}])
    <3>1. Max(s) \in D
      <4>1. IsFiniteSet(D) /\ \A j \in D : j \in Int
        BY UpToFinite
      <4> HIDE DEF D
      <4> QED
        BY <2>1, <4>1, FS_Subset, MaxIn
    <3> HIDE DEF D, V
    <3> QED
      BY <3>1
  <2> HIDE DEF op2, base, D
  <2> QED
    BY <1>1, <1>6, <2>1
<1>8. \A x \in D, v \in V : op2[<<x, v>>] = Sink(v) /\ op2[<<x, v>>] \in V
  <2>1. \A x \in D, v \in V : op2[<<x, v>>] = Sink(v)
    <3> HIDE DEF V, D
    <3> QED
      OBVIOUS
  <2> HIDE DEF op2, V, D
  <2> QED
    BY <1>4, <2>1
<1>9. PICK t : FoldSteps(base, op2, n, V, t) /\ t[n] = it[D]
  <2>1. \A x \in D, v \in V : op2[<<x, v>>] \in V
    <3> HIDE DEF op2, V, D
    <3> QED
      BY <1>8
  <2>2. FoldsLeft(base, op2, n, it)
    <3> HIDE DEF op2, base
    <3> QED
      BY <1>7 DEF FoldsLeft
  <2> HIDE DEF op2, base, V
  <2> QED
    BY <1>3, <2>1, <2>2, FoldRun
<1>10. \A k \in D : t[k] = Sink(t[k - 1])
  <2>1. \A k \in D : k - 1 \in 0 .. n
    OBVIOUS
  <2> HIDE DEF op2, V, D
  <2> QED
    BY <1>8, <1>9, <2>1 DEF FoldSteps, D
<1>11. t \in [0 .. n -> V] /\ t[0] = base
  <2> HIDE DEF V, base
  <2> QED
    BY <1>9 DEF FoldSteps
<1> QED
  BY <1>2, <1>9, <1>10, <1>11

LEMMA UpRun ==
  ASSUME NEW n \in Nat, NEW I \in SUBSET Items, NEW q \in Queues(n, I), NEW i \in 1 .. n
  PROVE  \E t \in [0 .. n -> Turns(n, I)] :
           /\ t[0] = [q |-> q, at |-> i] /\ Up(q, i) = t[n].q
           /\ \A k \in 1 .. n : t[k] = Rise(t[k - 1])
<1> DEFINE D    == 1 .. n
           V    == Turns(n, I)
           base == [q |-> q, at |-> i]
           op   == [u \in D \X V |-> Rise(u[2])]
           Eqn(h) == h = [s \in SUBSET DOMAIN q |-> IF s = {} THEN base ELSE Rise(h[s \ {Max(s)}])]
           it   == CHOOSE h : Eqn(h)
<1>1. DOMAIN q = D
  BY QueueIs
<1>2. Up(q, i) = it[D].q
  BY <1>1 DEF Up, FoldLeft, MapThenFoldSet
<1>3. base \in V
  BY DEF Turns
<1>4. \A x \in D, v \in V : op[<<x, v>>] = Rise(v) /\ Rise(v) \in V
  <2>1. \A v \in V : Rise(v) \in V
    BY RiseIn
  <2> QED
    BY <2>1
<1>5. \E h : Eqn(h)
  <2>1. PICK g : /\ g = [s \in SUBSET D |-> IF s = {} THEN base ELSE op[<< Max(s), g[s \ {Max(s)}] >>]]
                 /\ \A s \in SUBSET D : g[s] \in V /\ (s # {} => Max(s) \in D)
    <3>1. \A x \in D, v \in V : op[<<x, v>>] \in V
      <4> HIDE DEF V, D, op
      <4> QED
        BY <1>4
    <3> HIDE DEF V, base, op
    <3> QED
      BY <1>3, <3>1, FoldExists
  <2>2. \A s \in SUBSET D : s # {} => op[<< Max(s), g[s \ {Max(s)}] >>] = Rise(g[s \ {Max(s)}])
    <3> HIDE DEF V, base, op, D
    <3> QED
      BY <1>4, <2>1
  <2>3. Eqn(g)
    <3> HIDE DEF V, base, op, D
    <3> QED
      BY <1>1, <2>1, <2>2
  <2> QED
    BY <2>3
<1>6. Eqn(it)
  <2> HIDE DEF Eqn
  <2> QED
    BY <1>5
<1> HIDE DEF it
<1> DEFINE W   == V \cup { it[s] : s \in SUBSET D }
           op2 == [u \in D \X W |-> Rise(u[2])]
<1>7. it = [s \in SUBSET D |-> IF s = {} THEN base ELSE op2[<< Max(s), it[s \ {Max(s)}] >>]]
  <2>1. ASSUME NEW s \in SUBSET D, s # {}
        PROVE  op2[<< Max(s), it[s \ {Max(s)}] >>] = Rise(it[s \ {Max(s)}])
    <3>1. Max(s) \in D
      <4>1. IsFiniteSet(D) /\ \A j \in D : j \in Int
        BY UpToFinite
      <4> HIDE DEF D
      <4> QED
        BY <2>1, <4>1, FS_Subset, MaxIn
    <3> HIDE DEF D, V
    <3> QED
      BY <3>1
  <2> HIDE DEF op2, base, D
  <2> QED
    BY <1>1, <1>6, <2>1
<1>8. \A x \in D, v \in V : op2[<<x, v>>] = Rise(v) /\ op2[<<x, v>>] \in V
  <2>1. \A x \in D, v \in V : op2[<<x, v>>] = Rise(v)
    <3> HIDE DEF V, D
    <3> QED
      OBVIOUS
  <2> HIDE DEF op2, V, D
  <2> QED
    BY <1>4, <2>1
<1>9. PICK t : FoldSteps(base, op2, n, V, t) /\ t[n] = it[D]
  <2>1. \A x \in D, v \in V : op2[<<x, v>>] \in V
    <3> HIDE DEF op2, V, D
    <3> QED
      BY <1>8
  <2>2. FoldsLeft(base, op2, n, it)
    <3> HIDE DEF op2, base
    <3> QED
      BY <1>7 DEF FoldsLeft
  <2> HIDE DEF op2, base, V
  <2> QED
    BY <1>3, <2>1, <2>2, FoldRun
<1>10. \A k \in D : t[k] = Rise(t[k - 1])
  <2>1. \A k \in D : k - 1 \in 0 .. n
    OBVIOUS
  <2> HIDE DEF op2, V, D
  <2> QED
    BY <1>8, <1>9, <2>1 DEF FoldSteps, D
<1>11. t \in [0 .. n -> V] /\ t[0] = base
  <2> HIDE DEF V, base
  <2> QED
    BY <1>9 DEF FoldSteps
<1> QED
  BY <1>2, <1>9, <1>10, <1>11

(***************************************************************************)
(* The order of the heap: no item is higher than its parent.  From position*)
(* lo on only the items whose parents are at lo or after it are ordered.   *)
(***************************************************************************)
Parent(j, k) == k = 2 * j \/ k = 2 * j + 1

OrderedFrom(q, n, lo) ==
  \A j, k \in 1 .. n : j >= lo /\ Parent(j, k) => q[k].priority <= q[j].priority

\* But for the item that goes down, and but for the one that goes up.
Sinking(h, n, lo) ==
  /\ h.at >= lo
  /\ \A j, k \in 1 .. n : j >= lo /\ Parent(j, k) /\ j # h.at => h.q[k].priority <= h.q[j].priority
  /\ \A j, k \in 1 .. n : j >= lo /\ Parent(j, h.at) /\ Parent(h.at, k) => h.q[k].priority <= h.q[j].priority

Rising(h, n) ==
  /\ \A j, k \in 1 .. n : Parent(j, k) /\ k # h.at => h.q[k].priority <= h.q[j].priority
  /\ \A j, k \in 1 .. n : Parent(j, h.at) /\ Parent(h.at, k) => h.q[k].priority <= h.q[j].priority

LEMMA SinkOrders ==
  ASSUME NEW n \in Nat, NEW I \in SUBSET Items, NEW h \in Turns(n, I), NEW lo \in Nat \ {0}, Sinking(h, n, lo)
  PROVE  /\ Sinking(Sink(h), n, lo)
         /\ \/ Sink(h) = h /\ OrderedFrom(h.q, n, lo)
            \/ Sink(h).at > h.at
<1> DEFINE q == h.q
           i == h.at
<1>1. q \in Queues(n, I) /\ i \in 1 .. n
  BY DEF Turns
<1>2. \A k \in 1 .. n : q[k].priority \in Int
  BY <1>1, QueueIs
<1>3. CASE Sink(h) = h /\ \A k : k \in 1 .. n /\ (k = 2 * i \/ k = 2 * i + 1) => ~Higher(q[k], q[i])
  <2>1. ASSUME NEW j \in 1 .. n, NEW k \in 1 .. n, j >= lo, Parent(j, k)
        PROVE  q[k].priority <= q[j].priority
    <3>1. CASE j = i
      <4>1. ~Higher(q[k], q[i])
        BY <1>3, <2>1, <3>1 DEF Parent
      <4> HIDE DEF q, i
      <4> QED
        BY <1>2, <3>1, <4>1 DEF Higher
    <3>2. CASE j # i
      BY <2>1, <3>2 DEF Sinking
    <3> QED
      BY <3>1, <3>2
  <2> QED
    BY <1>3, <2>1 DEF OrderedFrom
<1>4. ASSUME NEW c, c \in 1 .. n /\ (c = 2 * i \/ c = 2 * i + 1), Higher(q[c], q[i]),
             \A k : k \in 1 .. n /\ (k = 2 * i \/ k = 2 * i + 1) => ~Higher(q[k], q[c]),
             Sink(h) = [q |-> Swapped(q, i, c), at |-> c]
      PROVE  Sinking(Sink(h), n, lo) /\ Sink(h).at > h.at
  <2> DEFINE s == Swapped(q, i, c)
             a == [k \in 1 .. n |-> q[k].priority]
             b == [k \in 1 .. n |-> s[k].priority]
  <2>1. \A k \in 1 .. n : s[k] = q[IF k = i THEN c ELSE IF k = c THEN i ELSE k]
    <3>1. c \in 1 .. n
      BY <1>4
    <3> HIDE DEF q, i
    <3> QED
      BY <1>1, <3>1, SwappedKeeps
  <2>2. \A k \in 1 .. n : a[k] = q[k].priority /\ b[k] = s[k].priority /\ a[k] \in Int
    BY <1>2
  <2>3. b[i] = a[c] /\ b[c] = a[i] /\ \A k \in 1 .. n : k # i /\ k # c => b[k] = a[k]
    <3> HIDE DEF s, q, i
    <3> QED
      BY <1>1, <1>4, <2>1
  <2>4. a[i] < a[c] /\ \A k \in 1 .. n : Parent(i, k) => a[k] <= a[c]
    <3>1. a[c] > a[i]
      BY <1>1, <1>4, <2>2 DEF Higher
    <3>2. ASSUME NEW k \in 1 .. n, Parent(i, k) PROVE a[k] <= a[c]
      <4>1. ~Higher(q[k], q[c])
        BY <1>4, <3>2 DEF Parent
      <4> HIDE DEF q, i
      <4> QED
        BY <1>2, <1>4, <4>1 DEF Higher
    <3> HIDE DEF a, i
    <3> QED
      BY <1>1, <1>4, <2>2, <3>1, <3>2
  <2>5. /\ i >= lo
        /\ \A j, k \in 1 .. n : j >= lo /\ Parent(j, k) /\ j # i => a[k] <= a[j]
        /\ \A j, k \in 1 .. n : j >= lo /\ Parent(j, i) /\ Parent(i, k) => a[k] <= a[j]
    <3> HIDE DEF a
    <3> QED
      BY <2>2 DEF Sinking
  <2> HIDE DEF a, b, s, i
  <2>6. c > i /\ c >= lo /\ Parent(i, c) /\ c \in 1 .. n /\ i \in 1 .. n
    BY <1>1, <1>4, <2>5 DEF Parent
  <2>7. ASSUME NEW j \in 1 .. n, NEW k \in 1 .. n, j >= lo, Parent(j, k), j # c
        PROVE  b[k] <= b[j]
    <3>1. j < k
      BY <2>7 DEF Parent
    <3>2. CASE j = i /\ k = c
      BY <2>2, <2>3, <2>4, <2>6, <3>2
    <3>3. CASE j = i /\ k # c
      BY <2>2, <2>3, <2>4, <2>6, <2>7, <3>1, <3>3
    <3>4. CASE j # i /\ k = i
      BY <2>2, <2>3, <2>5, <2>6, <2>7, <3>1, <3>4
    <3>5. CASE j # i /\ k # i
      <4>1. k # c
        BY <2>6, <2>7, <3>5 DEF Parent
      <4> QED
        BY <2>2, <2>3, <2>5, <2>7, <3>5, <4>1
    <3> QED
      BY <3>2, <3>3, <3>4, <3>5
  <2>8. ASSUME NEW j \in 1 .. n, NEW k \in 1 .. n, j >= lo, Parent(j, c), Parent(c, k)
        PROVE  b[k] <= b[j]
    <3>1. j = i /\ c < k
      BY <2>6, <2>8 DEF Parent
    <3>2. a[k] <= a[c]
      BY <2>5, <2>6, <2>8
    <3> QED
      BY <2>2, <2>3, <2>6, <3>1, <3>2
  <2>9. \A j, k \in 1 .. n : j >= lo /\ Parent(j, k) /\ j # c => s[k].priority <= s[j].priority
    BY <2>2, <2>7
  <2>10. \A j, k \in 1 .. n : j >= lo /\ Parent(j, c) /\ Parent(c, k) => s[k].priority <= s[j].priority
    BY <2>2, <2>8
  <2>11. Sink(h).q = s /\ Sink(h).at = c
    BY <1>4 DEF s, i
  <2> QED
    BY <2>6, <2>9, <2>10, <2>11 DEF Sinking, i
<1>5. \/ Sink(h) = h /\ \A k : k \in 1 .. n /\ (k = 2 * i \/ k = 2 * i + 1) => ~Higher(q[k], q[i])
      \/ \E c : /\ c \in 1 .. n /\ (c = 2 * i \/ c = 2 * i + 1)
                /\ Higher(q[c], q[i])
                /\ \A k : k \in 1 .. n /\ (k = 2 * i \/ k = 2 * i + 1) => ~Higher(q[k], q[c])
                /\ Sink(h) = [q |-> Swapped(q, i, c), at |-> c]
  BY SinkTurn
<1> QED
  BY <1>3, <1>4, <1>5

LEMMA RiseOrders ==
  ASSUME NEW n \in Nat, NEW I \in SUBSET Items, NEW h \in Turns(n, I), Rising(h, n)
  PROVE  /\ Rising(Rise(h), n)
         /\ \/ Rise(h) = h /\ OrderedFrom(h.q, n, 1)
            \/ Rise(h).at < h.at
<1> DEFINE q == h.q
           i == h.at
           p == h.at \div 2
<1>1. q \in Queues(n, I) /\ i \in 1 .. n
  BY DEF Turns
<1>2. \A k \in 1 .. n : q[k].priority \in Int
  BY <1>1, QueueIs
<1>3. p \in Nat /\ Parent(p, i) /\ \A j \in 1 .. n : Parent(j, i) => j = p
  <2>1. p \in Nat /\ 2 * p <= i /\ i <= 2 * p + 1
    BY <1>1, Half
  <2> HIDE DEF p, i
  <2> QED
    BY <1>1, <2>1 DEF Parent
<1>4. CASE Rise(h) = h /\ (i > 1 => ~Higher(q[i], q[p]))
  <2>1. ASSUME NEW j \in 1 .. n, NEW k \in 1 .. n, j >= 1, Parent(j, k)
        PROVE  q[k].priority <= q[j].priority
    <3>1. CASE k = i
      <4>1. j = p /\ i > 1
        BY <1>1, <1>3, <2>1, <3>1 DEF Parent
      <4>2. ~Higher(q[i], q[p])
        BY <1>4, <4>1
      <4> HIDE DEF q, i, p
      <4> QED
        BY <1>2, <3>1, <4>1, <4>2 DEF Higher
    <3>2. CASE k # i
      BY <2>1, <3>2 DEF Rising
    <3> QED
      BY <3>1, <3>2
  <2> QED
    BY <1>4, <2>1 DEF OrderedFrom
<1>5. ASSUME i > 1, p \in 1 .. n, p < i, Higher(q[i], q[p]), Rise(h) = [q |-> Swapped(q, i, p), at |-> p]
      PROVE  Rising(Rise(h), n) /\ Rise(h).at < h.at
  <2> DEFINE s == Swapped(q, i, p)
             a == [k \in 1 .. n |-> q[k].priority]
             b == [k \in 1 .. n |-> s[k].priority]
  <2>1. \A k \in 1 .. n : s[k] = q[IF k = i THEN p ELSE IF k = p THEN i ELSE k]
    <3> HIDE DEF q, i, p
    <3> QED
      BY <1>1, <1>5, SwappedKeeps
  <2>2. \A k \in 1 .. n : a[k] = q[k].priority /\ b[k] = s[k].priority /\ a[k] \in Int
    BY <1>2
  <2>3. b[i] = a[p] /\ b[p] = a[i] /\ \A k \in 1 .. n : k # i /\ k # p => b[k] = a[k]
    <3> HIDE DEF s, q, i, p
    <3> QED
      BY <1>1, <1>5, <2>1
  <2>4. a[p] < a[i]
    <3> HIDE DEF q, i, p
    <3> QED
      BY <1>1, <1>5, <2>2 DEF Higher
  <2>5. /\ \A j, k \in 1 .. n : Parent(j, k) /\ k # i => a[k] <= a[j]
        /\ \A j, k \in 1 .. n : Parent(j, i) /\ Parent(i, k) => a[k] <= a[j]
    <3> HIDE DEF a
    <3> QED
      BY <2>2 DEF Rising
  <2>6. Rise(h).q = s /\ Rise(h).at = p
    BY <1>5
  <2>7. i \in 1 .. n /\ p \in 1 .. n /\ p < i
    BY <1>1, <1>5
  <2> HIDE DEF a, b, s, i, p
  <2>8. ASSUME NEW j \in 1 .. n, NEW k \in 1 .. n, Parent(j, k), k # p
        PROVE  b[k] <= b[j]
    <3>1. j < k
      BY <2>8 DEF Parent
    <3>2. CASE k = i
      BY <1>3, <2>2, <2>3, <2>4, <2>7, <2>8, <3>2
    <3>3. CASE j = i
      <4>1. a[k] <= a[p] /\ k # i
        BY <1>3, <2>5, <2>7, <2>8, <3>1, <3>3
      <4> QED
        BY <2>2, <2>3, <2>7, <2>8, <3>1, <3>3, <4>1
    <3>4. CASE k # i /\ j = p
      <4>1. a[k] <= a[p]
        BY <2>5, <2>8, <3>4
      <4> QED
        BY <2>2, <2>3, <2>4, <2>7, <2>8, <3>4, <4>1
    <3>5. CASE k # i /\ j # i /\ j # p
      BY <2>2, <2>3, <2>5, <2>8, <3>5
    <3> QED
      BY <3>2, <3>3, <3>4, <3>5
  <2>9. ASSUME NEW j \in 1 .. n, NEW k \in 1 .. n, Parent(j, p), Parent(p, k)
        PROVE  b[k] <= b[j]
    <3>1. j < p /\ p < k
      BY <2>7, <2>9 DEF Parent
    <3>2. a[p] <= a[j] /\ b[j] = a[j]
      BY <2>3, <2>5, <2>7, <2>9, <3>1
    <3>3. CASE k = i
      BY <2>2, <2>3, <2>7, <3>2, <3>3
    <3>4. CASE k # i
      <4>1. a[k] <= a[p] /\ b[k] = a[k]
        BY <2>3, <2>5, <2>7, <2>9, <3>1, <3>4
      <4> QED
        BY <2>2, <2>7, <3>2, <4>1
    <3> QED
      BY <3>3, <3>4
  <2>10. \A j, k \in 1 .. n : Parent(j, k) /\ k # p => s[k].priority <= s[j].priority
    BY <2>2, <2>8
  <2>11. \A j, k \in 1 .. n : Parent(j, p) /\ Parent(p, k) => s[k].priority <= s[j].priority
    BY <2>2, <2>9
  <2> QED
    BY <2>6, <2>7, <2>10, <2>11 DEF Rising, i
<1>6. \/ Rise(h) = h /\ (i > 1 => ~Higher(q[i], q[p]))
      \/ /\ i > 1 /\ p \in 1 .. n /\ p < i /\ Higher(q[i], q[p])
         /\ Rise(h) = [q |-> Swapped(q, i, p), at |-> p]
  BY RiseTurn
<1> QED
  BY <1>4, <1>5, <1>6

(***************************************************************************)
(* There are turns enough to restore the order.                            *)
(***************************************************************************)
LEMMA DownOrders ==
  ASSUME NEW n \in Nat, NEW I \in SUBSET Items, NEW q \in Queues(n, I), NEW i \in 1 .. n
  PROVE  /\ Down(q, i) \in Queues(n, I)
         /\ \A lo \in Nat \ {0} : Sinking([q |-> q, at |-> i], n, lo) => OrderedFrom(Down(q, i), n, lo)
<1> DEFINE V == Turns(n, I)
<1>1. PICK t \in [0 .. n -> V] : /\ t[0] = [q |-> q, at |-> i] /\ Down(q, i) = t[n].q
                                 /\ \A k \in 1 .. n : t[k] = Sink(t[k - 1])
  BY DownRun
<1>2. n \in 0 .. n /\ t[n] \in V /\ \A k \in 1 .. n : k - 1 \in 0 .. n /\ t[k - 1] \in V
  BY <1>1
<1>3. Down(q, i) \in Queues(n, I) /\ t[n].at \in 1 .. n
  BY <1>1, <1>2 DEF Turns
<1>4. ASSUME NEW lo \in Nat \ {0}, Sinking([q |-> q, at |-> i], n, lo)
      PROVE  OrderedFrom(Down(q, i), n, lo)
  <2> DEFINE S == { k \in 0 .. n : /\ Sinking(t[k], n, lo)
                                   /\ OrderedFrom(t[k].q, n, lo) \/ t[k].at >= i + k }
  <2>1. 0 \in S
    BY <1>1, <1>4
  <2>2. ASSUME NEW k \in 1 .. n, k - 1 \in S
        PROVE  k \in S
    <3> DEFINE x == t[k - 1]
               y == t[k]
    <3>1. y = Sink(x) /\ x \in V /\ Sinking(x, n, lo) /\ (OrderedFrom(x.q, n, lo) \/ x.at >= i + (k - 1))
      BY <1>1, <1>2, <2>2
    <3>2. y \in V /\ k \in 0 .. n
      BY <1>1
    <3>3. x.at \in 1 .. n /\ y.at \in 1 .. n
      BY <3>1, <3>2 DEF Turns
    <3> HIDE DEF x, y
    <3>4. /\ Sinking(y, n, lo)
          /\ (y = x /\ OrderedFrom(x.q, n, lo)) \/ y.at > x.at
      BY <3>1, SinkOrders
    <3>5. OrderedFrom(y.q, n, lo) \/ y.at >= i + k
      <4>1. CASE y = x /\ OrderedFrom(x.q, n, lo)
        BY <4>1
      <4>2. CASE y.at > x.at /\ x.at >= i + (k - 1)
        BY <3>3, <4>2
      <4>3. CASE y.at > x.at /\ OrderedFrom(x.q, n, lo)
        <5>1. Sink(x) = x
          <6>1. \A j \in 1 .. n : Parent(x.at, j) => ~Higher(x.q[j], x.q[x.at])
            <7>1. x.q \in Queues(n, I) /\ x.at >= lo
              BY <3>1 DEF Turns, Sinking
            <7>2. \A j \in 1 .. n : x.q[j].priority \in Int
              BY <7>1, QueueIs
            <7>3. \A j \in 1 .. n : Parent(x.at, j) => x.q[j].priority <= x.q[x.at].priority
              BY <3>3, <4>3, <7>1 DEF OrderedFrom
            <7> QED
              BY <3>3, <7>2, <7>3 DEF Higher
          <6> QED
            BY <3>1, <6>1, SinkTurn DEF Parent
        <5> QED
          BY <3>1, <4>3, <5>1
      <4> QED
        BY <3>1, <3>4, <4>1, <4>2, <4>3
    <3> QED
      BY <3>2, <3>4, <3>5 DEF y
  <2>3. n \in S
    <3>1. S \in SUBSET (0 .. n)
      OBVIOUS
    <3> HIDE DEF S
    <3> QED
      BY <1>2, <2>1, <2>2, <3>1, UpToAll
  <2>4. ~(t[n].at >= i + n)
    BY <1>3
  <2> QED
    BY <1>1, <2>3, <2>4
<1> QED
  BY <1>3, <1>4

LEMMA UpOrders ==
  ASSUME NEW n \in Nat, NEW I \in SUBSET Items, NEW q \in Queues(n, I), NEW i \in 1 .. n
  PROVE  /\ Up(q, i) \in Queues(n, I)
         /\ Rising([q |-> q, at |-> i], n) => OrderedFrom(Up(q, i), n, 1)
<1> DEFINE V == Turns(n, I)
<1>1. PICK t \in [0 .. n -> V] : /\ t[0] = [q |-> q, at |-> i] /\ Up(q, i) = t[n].q
                                 /\ \A k \in 1 .. n : t[k] = Rise(t[k - 1])
  BY UpRun
<1>2. n \in 0 .. n /\ t[n] \in V /\ \A k \in 1 .. n : k - 1 \in 0 .. n /\ t[k - 1] \in V
  BY <1>1
<1>3. Up(q, i) \in Queues(n, I) /\ t[n].at \in 1 .. n
  BY <1>1, <1>2 DEF Turns
<1>4. ASSUME Rising([q |-> q, at |-> i], n)
      PROVE  OrderedFrom(Up(q, i), n, 1)
  <2> DEFINE S == { k \in 0 .. n : /\ Rising(t[k], n)
                                   /\ OrderedFrom(t[k].q, n, 1) \/ t[k].at <= i - k }
  <2>1. 0 \in S
    BY <1>1, <1>4
  <2>2. ASSUME NEW k \in 1 .. n, k - 1 \in S
        PROVE  k \in S
    <3> DEFINE x == t[k - 1]
               y == t[k]
    <3>1. y = Rise(x) /\ x \in V /\ Rising(x, n) /\ (OrderedFrom(x.q, n, 1) \/ x.at <= i - (k - 1))
      BY <1>1, <1>2, <2>2
    <3>2. y \in V /\ k \in 0 .. n
      BY <1>1
    <3>3. x.at \in 1 .. n /\ y.at \in 1 .. n
      BY <3>1, <3>2 DEF Turns
    <3> HIDE DEF x, y
    <3>4. /\ Rising(y, n)
          /\ (y = x /\ OrderedFrom(x.q, n, 1)) \/ y.at < x.at
      BY <3>1, RiseOrders
    <3>5. OrderedFrom(y.q, n, 1) \/ y.at <= i - k
      <4>1. CASE y = x /\ OrderedFrom(x.q, n, 1)
        BY <4>1
      <4>2. CASE y.at < x.at /\ x.at <= i - (k - 1)
        BY <3>3, <4>2
      <4>3. CASE y.at < x.at /\ OrderedFrom(x.q, n, 1)
        <5>1. Rise(x) = x
          <6>1. x.at > 1 => ~Higher(x.q[x.at], x.q[x.at \div 2])
            <7>1. x.q \in Queues(n, I)
              BY <3>1 DEF Turns
            <7>2. \A j \in 1 .. n : x.q[j].priority \in Int
              BY <7>1, QueueIs
            <7>3. x.at > 1 => x.at \div 2 \in 1 .. n /\ Parent(x.at \div 2, x.at)
              <8> DEFINE a == x.at
                         p == x.at \div 2
              <8>1. a \in 1 .. n /\ p \in Nat /\ 2 * p <= a /\ a <= 2 * p + 1
                BY <3>3, Half
              <8> HIDE DEF a, p
              <8>2. a > 1 => p \in 1 .. n /\ Parent(p, a)
                BY <8>1 DEF Parent
              <8> QED
                BY <8>2 DEF a, p
            <7>4. x.at > 1 => x.q[x.at].priority <= x.q[x.at \div 2].priority
              <8> DEFINE p == x.at \div 2
              <8> SUFFICES ASSUME x.at > 1 PROVE x.q[x.at].priority <= x.q[p].priority
                OBVIOUS
              <8>1. p \in 1 .. n /\ Parent(p, x.at) /\ p >= 1
                BY <7>3
              <8> HIDE DEF p
              <8> QED
                BY <3>3, <4>3, <8>1 DEF OrderedFrom
            <7> QED
              BY <3>3, <7>2, <7>3, <7>4 DEF Higher
          <6> QED
            BY <3>1, <6>1, RiseTurn
        <5> QED
          BY <3>1, <4>3, <5>1
      <4> QED
        BY <3>1, <3>4, <4>1, <4>2, <4>3
    <3> QED
      BY <3>2, <3>4, <3>5 DEF y
  <2>3. n \in S
    <3>1. S \in SUBSET (0 .. n)
      OBVIOUS
    <3> HIDE DEF S
    <3> QED
      BY <1>2, <2>1, <2>2, <3>1, UpToAll
  <2>4. ~(t[n].at <= i - n)
    BY <1>3
  <2> QED
    BY <1>1, <2>3, <2>4
<1> QED
  BY <1>3, <1>4

LEMMA HeadHighest ==
  ASSUME NEW n \in Nat, NEW I \in SUBSET Items, NEW q \in Queues(n, I), OrderedFrom(q, n, 1)
  PROVE  \A k \in 1 .. n : ~Higher(q[k], q[1])
<1> DEFINE Bad == { k \in 1 .. n : Higher(q[k], q[1]) }
<1> SUFFICES ASSUME Bad # {} PROVE FALSE
  OBVIOUS
<1>1. Bad \in SUBSET Nat
  OBVIOUS
<1>2. PICK m \in Bad : \A k \in Bad : m <= k
  <2> HIDE DEF Bad
  <2> QED
    BY <1>1, LeastNumber
<1>3. \A k \in 1 .. n : q[k].priority \in Int
  BY QueueIs
<1> DEFINE p == m \div 2
<1>4. m # 1
  BY <1>2, <1>3 DEF Higher
<1>5. m \in 1 .. n /\ p \in 1 .. n /\ p < m /\ Parent(p, m)
  <2>1. m \in 1 .. n
    BY <1>2
  <2>2. p \in Nat /\ 2 * p <= m /\ m <= 2 * p + 1
    BY <2>1, Half
  <2> HIDE DEF p
  <2> QED
    BY <1>4, <2>1, <2>2 DEF Parent
<1> HIDE DEF p
<1>6. ~Higher(q[p], q[1])
  BY <1>2, <1>5
<1>7. q[m].priority <= q[p].priority
  BY <1>5 DEF OrderedFrom
<1> QED
  BY <1>2, <1>3, <1>5, <1>6, <1>7 DEF Higher

(***************************************************************************)
(* Push, of an item for a node that has none in the queue.                 *)
(***************************************************************************)
LEMMA PushOrders ==
  ASSUME NEW n \in Nat, NEW I \in SUBSET Items, NEW q \in Queues(n, I), NEW item \in I,
         \A k \in 1 .. n : q[k].node # item.node
  PROVE  /\ Push(q, item) \in Queues(n + 1, I)
         /\ OrderedFrom(q, n, 1) => OrderedFrom(Push(q, item), n + 1, 1)
<1> DEFINE m == n + 1
           r == Append(q, item)
           h == [q |-> r, at |-> m]
<1>1. q \in Seq(I) /\ Len(q) = n
  BY QueueIs
<1>2. r \in Seq(I) /\ Len(r) = m /\ r[m] = item /\ \A k \in 1 .. n : r[k] = q[k]
  BY <1>1
<1>3. r \in Queues(m, I)
  <2>1. r \in [1 .. m -> I]
    <3> HIDE DEF r
    <3> QED
      BY <1>2
  <2>2. \A j, k \in 1 .. n : q[j].node = q[k].node => j = k
    BY QueueIs
  <2>3. ASSUME NEW j \in 1 .. m, NEW k \in 1 .. m, r[j].node = r[k].node
        PROVE  j = k
    <3>1. \A x \in 1 .. m : x \in 1 .. n \/ x = m
      OBVIOUS
    <3> HIDE DEF r
    <3> QED
      BY <1>2, <2>2, <2>3, <3>1
  <2> QED
    BY <2>1, <2>3 DEF Queues
<1>4. m \in Nat /\ m \in 1 .. m
  OBVIOUS
<1> HIDE DEF r
<1>5. h \in Turns(m, I)
  BY <1>3, <1>4 DEF Turns
<1>6. Sink(h) = h
  <2>1. \A k : ~(k \in 1 .. m /\ (k = 2 * m \/ k = 2 * m + 1))
    OBVIOUS
  <2> HIDE DEF m
  <2> QED
    BY <1>4, <1>5, <2>1, SinkTurn
<1>7. Down(r, m) = r
  <2>0. r \in Queues(m, I)
    BY <1>3
  <2>1. PICK t \in [0 .. m -> Turns(m, I)] : /\ t[0] = h /\ Down(r, m) = t[m].q
                                             /\ \A k \in 1 .. m : t[k] = Sink(t[k - 1])
    <3> HIDE DEF m
    <3>1. \E t \in [0 .. m -> Turns(m, I)] : /\ t[0] = [q |-> r, at |-> m] /\ Down(r, m) = t[m].q
                                              /\ \A k \in 1 .. m : t[k] = Sink(t[k - 1])
      BY ONLY <1>4, <2>0, DownRun, I \in SUBSET Items
    <3> QED
      BY <3>1
  <2> DEFINE S == { k \in 0 .. m : t[k] = h }
  <2>2. 0 \in S /\ S \in SUBSET (0 .. m)
    <3> HIDE DEF h, m
    <3> QED
      BY <1>4, <2>1
  <2>3. \A k \in 1 .. m : k - 1 \in S => k \in S
    <3> HIDE DEF h, m
    <3>1. \A k \in 1 .. m : k \in 0 .. m
      BY <1>4
    <3> QED
      BY <1>6, <2>1, <3>1
  <2>4. m \in S
    <3>1. m \in 0 .. m
      OBVIOUS
    <3> HIDE DEF S, m
    <3> QED
      BY <1>4, <2>2, <2>3, <3>1, UpToAll
  <2> QED
    BY <2>1, <2>4
<1>8. Push(q, item) = Up(r, m)
  BY <1>1, <1>7 DEF Push, Fix, r
<1>9. Up(r, m) \in Queues(m, I) /\ (Rising(h, m) => OrderedFrom(Up(r, m), m, 1))
  <2> HIDE DEF m
  <2> QED
    BY <1>3, <1>4, UpOrders
<1>10. ASSUME OrderedFrom(q, n, 1) PROVE Rising(h, m)
  <2>1. ASSUME NEW j \in 1 .. m, NEW k \in 1 .. m, Parent(j, k), k # m
        PROVE  r[k].priority <= r[j].priority
    <3>1. j \in 1 .. n /\ k \in 1 .. n /\ j >= 1
      BY <2>1 DEF Parent
    <3> QED
      BY <1>2, <1>10, <2>1, <3>1 DEF OrderedFrom
  <2>2. \A k \in 1 .. m : ~Parent(m, k)
    BY DEF Parent
  <2> HIDE DEF m
  <2> QED
    BY <2>1, <2>2 DEF Rising
<1> QED
  BY <1>8, <1>9, <1>10

(***************************************************************************)
(* Pop: the items of the other nodes are left, in order.                   *)
(***************************************************************************)
LEMMA PopOrders ==
  ASSUME NEW n \in Nat \ {0}, NEW I \in SUBSET Items, NEW q \in Queues(n, I)
  PROVE  /\ PopRest(q) \in Queues(n - 1, { x \in I : x.node # q[1].node })
         /\ OrderedFrom(q, n, 1) => OrderedFrom(PopRest(q), n - 1, 1)
<1> DEFINE J == { x \in I : x.node # q[1].node }
           m == n - 1
<1>1. /\ Len(q) = n /\ \A j, k \in 1 .. n : q[j].node = q[k].node => j = k
      /\ \A k \in 1 .. n : q[k] \in I
  BY QueueIs
<1>2. m \in Nat /\ J \in SUBSET Items /\ 1 \in 1 .. n /\ n \in 1 .. n
  OBVIOUS
<1>3. CASE n = 1
  <2>1. PopRest(q) = <<>> /\ 1 .. 0 = {} /\ m = 0
    BY <1>1, <1>3 DEF PopRest
  <2>2. <<>> \in [1 .. 0 -> J]
    BY <2>1
  <2>3. <<>> \in Queues(0, J) /\ OrderedFrom(<<>>, 0, 1)
    BY <2>1, <2>2 DEF Queues, OrderedFrom
  <2> QED
    BY <2>1, <2>3
<1>4. CASE n # 1
  <2> DEFINE s == Swapped(q, 1, n)
             r == Front(s)
             h == [q |-> r, at |-> 1]
  <2>1. s \in Queues(n, I) /\ \A k \in 1 .. n : s[k] = q[IF k = 1 THEN n ELSE IF k = n THEN 1 ELSE k]
    BY <1>2, SwappedKeeps
  <2>2. s \in Seq(I) /\ Len(s) = n
    BY <2>1, QueueIs
  <2>3. r = [k \in 1 .. m |-> s[k]]
    <3> HIDE DEF s
    <3>1. r = SubSeq(s, 1, n - 1)
      BY <2>2 DEF Front
    <3> QED
      BY <2>2, <3>1
  <2>4. \A k \in 1 .. m : r[k] = q[IF k = 1 THEN n ELSE k] /\ (IF k = 1 THEN n ELSE k) \in 2 .. n
    <3>1. \A k \in 1 .. m : r[k] = s[k] /\ k \in 1 .. n /\ k # n
      BY <2>3
    <3> HIDE DEF r, s
    <3> QED
      BY <1>4, <2>1, <3>1
  <2>5. r \in Queues(m, J)
    <3>1. \A k \in 1 .. m : r[k] \in J
      <4> HIDE DEF r
      <4>1. \A k \in 2 .. n : q[k] \in J
        BY <1>1
      <4> HIDE DEF J
      <4> QED
        BY <2>4, <4>1
    <3>2. r \in [1 .. m -> J]
      <4>1. r = [k \in 1 .. m |-> r[k]]
        BY <2>3
      <4> HIDE DEF r, J
      <4> QED
        BY <3>1, <4>1
    <3>3. ASSUME NEW j \in 1 .. m, NEW k \in 1 .. m, r[j].node = r[k].node
          PROVE  j = k
      <4> HIDE DEF r
      <4>1. (IF j = 1 THEN n ELSE j) = (IF k = 1 THEN n ELSE k)
        BY <1>1, <2>4, <3>3
      <4> QED
        BY <4>1
    <3> QED
      BY <3>2, <3>3 DEF Queues
  <2>6. 1 \in 1 .. m
    BY <1>4
  <2>7. PopRest(q) = Down(r, 1)
    BY <1>1, <1>4 DEF PopRest
  <2> HIDE DEF r, J
  <2>8. /\ Down(r, 1) \in Queues(m, J)
        /\ \A lo \in Nat \ {0} : Sinking(h, m, lo) => OrderedFrom(Down(r, 1), m, lo)
    <3> HIDE DEF m
    <3> QED
      BY <1>2, <2>5, <2>6, DownOrders DEF J
  <2>9. ASSUME OrderedFrom(q, n, 1) PROVE Sinking(h, m, 1)
    <3>1. ASSUME NEW j \in 1 .. m, NEW k \in 1 .. m, j >= 1, Parent(j, k), j # 1
          PROVE  r[k].priority <= r[j].priority
      <4>1. k # 1 /\ j \in 1 .. n /\ k \in 1 .. n
        BY <3>1 DEF Parent
      <4>2. r[k] = q[k] /\ r[j] = q[j]
        BY <2>4, <3>1, <4>1
      <4> QED
        BY <2>9, <3>1, <4>1, <4>2 DEF OrderedFrom
    <3>2. \A j \in 1 .. m : ~Parent(j, 1)
      BY DEF Parent
    <3> QED
      BY <3>1, <3>2 DEF Sinking
  <2> QED
    BY <2>7, <2>8, <2>9 DEF J
<1> QED
  BY <1>3, <1>4

(***************************************************************************)
(* Heapify goes down from every item that has children, the last of them   *)
(* first.                                                                  *)
(***************************************************************************)
LEMMA HeapifyOrders ==
  ASSUME NEW n \in Nat, NEW I \in SUBSET Items, NEW q \in Queues(n, I)
  PROVE  Heapify(q) \in Queues(n, I) /\ OrderedFrom(Heapify(q), n, 1)
<1> DEFINE m    == n \div 2
           D    == 1 .. m
           V    == Queues(n, I)
           idx  == [k \in 1 .. (Len(q) \div 2) |-> k]
           Op(k, v) == Down(v, (Len(q) \div 2) + 1 - idx[k])
           op   == [u \in D \X V |-> Op(u[1], u[2])]
           Eqn(h) == h = [s \in SUBSET DOMAIN idx |-> IF s = {} THEN q ELSE Op(Max(s), h[s \ {Max(s)}])]
           it   == CHOOSE h : Eqn(h)
<1>1. Len(q) = n
  BY QueueIs
<1>2. m \in Nat /\ 2 * m <= n /\ n <= 2 * m + 1
  BY Half
<1>3. Heapify(q) = it[DOMAIN idx]
  BY DEF Heapify, FoldLeft, MapThenFoldSet
<1>4. DOMAIN idx = D /\ \A k \in D : idx[k] = k
  BY <1>1
<1>5. \A k \in D : \A v : Op(k, v) = Down(v, m + 1 - k)
  <2> HIDE DEF idx
  <2> QED
    BY <1>1, <1>4
<1>6. \A k \in D : m + 1 - k \in 1 .. n
  <2> HIDE DEF m
  <2> QED
    BY <1>2
<1> HIDE DEF m, idx, Op
<1>7. \A k \in D, v \in V : op[<<k, v>>] = Op(k, v) /\ Op(k, v) \in V
  <2>1. \A k \in D, v \in V : Op(k, v) \in V
    <3> HIDE DEF D
    <3> QED
      BY <1>5, <1>6, DownOrders
  <2> QED
    BY <2>1
<1>8. Eqn(it)
  <2>1. \A k \in D, v \in V : op[<<k, v>>] \in V
    <3> HIDE DEF V, D, op
    <3> QED
      BY <1>7
  <2>2. PICK g : /\ g = [s \in SUBSET D |-> IF s = {} THEN q ELSE op[<< Max(s), g[s \ {Max(s)}] >>]]
                 /\ \A s \in SUBSET D : g[s] \in V /\ (s # {} => Max(s) \in D)
    <3> HIDE DEF V, op
    <3>1. q \in V
      BY DEF V
    <3> QED
      BY <1>2, <2>1, <3>1, FoldExists
  <2>3. \A s \in SUBSET D : s # {} => op[<< Max(s), g[s \ {Max(s)}] >>] = Op(Max(s), g[s \ {Max(s)}])
    <3> HIDE DEF V, op, D
    <3> QED
      BY <1>7, <2>2
  <2>4. Eqn(g)
    <3> HIDE DEF V, op, D
    <3> QED
      BY <1>4, <2>2, <2>3
  <2> HIDE DEF Eqn
  <2> QED
    BY <2>4
<1> HIDE DEF it
<1> DEFINE W   == V \cup { it[s] : s \in SUBSET D }
           op2 == [u \in D \X W |-> Op(u[1], u[2])]
<1>9. it = [s \in SUBSET D |-> IF s = {} THEN q ELSE op2[<< Max(s), it[s \ {Max(s)}] >>]]
  <2>1. ASSUME NEW s \in SUBSET D, s # {}
        PROVE  op2[<< Max(s), it[s \ {Max(s)}] >>] = Op(Max(s), it[s \ {Max(s)}])
    <3>1. Max(s) \in D
      <4>1. IsFiniteSet(D) /\ \A j \in D : j \in Int
        BY <1>2, UpToFinite
      <4> HIDE DEF D
      <4> QED
        BY <2>1, <4>1, FS_Subset, MaxIn
    <3> HIDE DEF D, V
    <3> QED
      BY <3>1
  <2> HIDE DEF op2, D
  <2> QED
    BY <1>4, <1>8, <2>1
<1>10. \A k \in D, v \in V : op2[<<k, v>>] = Op(k, v) /\ op2[<<k, v>>] \in V
  <2>1. \A k \in D, v \in V : op2[<<k, v>>] = Op(k, v)
    <3> HIDE DEF V, D
    <3> QED
      OBVIOUS
  <2> HIDE DEF op2, V, D
  <2> QED
    BY <1>7, <2>1
<1>11. PICK t : FoldSteps(q, op2, m, V, t) /\ t[m] = it[D]
  <2>1. \A k \in D, v \in V : op2[<<k, v>>] \in V
    <3> HIDE DEF op2, V, D
    <3> QED
      BY <1>10
  <2>2. FoldsLeft(q, op2, m, it)
    <3> HIDE DEF op2
    <3> QED
      BY <1>9 DEF FoldsLeft
  <2>3. q \in V
    OBVIOUS
  <2> HIDE DEF op2, V
  <2> QED
    BY <1>2, <2>1, <2>2, <2>3, FoldRun
<1>12. t \in [0 .. m -> V] /\ t[0] = q
  <2> HIDE DEF V
  <2> QED
    BY <1>11 DEF FoldSteps
<1>13. ASSUME NEW k \in D
       PROVE  /\ k \in 0 .. m /\ t[k - 1] \in V /\ t[k] = Down(t[k - 1], m + 1 - k)
  <2>1. k - 1 \in 0 .. m /\ k \in 0 .. m
    BY <1>2
  <2>2. t[k] = op2[<< k, t[k - 1] >>]
    <3> HIDE DEF op2, V
    <3> QED
      BY <1>11 DEF FoldSteps
  <2> HIDE DEF op2, V, D
  <2>3. t[k - 1] \in V
    BY <1>12, <2>1
  <2> QED
    BY <1>5, <1>10, <2>1, <2>2, <2>3
<1> DEFINE S == { k \in 0 .. m : OrderedFrom(t[k], n, m + 1 - k) }
<1>14. 0 \in S
  <2>1. OrderedFrom(q, n, m + 1 - 0)
    BY <1>2 DEF OrderedFrom, Parent
  <2> QED
    BY <1>2, <1>12, <2>1
<1>15. ASSUME NEW k \in D, k - 1 \in S
       PROVE  k \in S
  <2> DEFINE x  == t[k - 1]
             lo == m + 1 - k
  <2>1. x \in V /\ t[k] = Down(x, lo) /\ OrderedFrom(x, n, lo + 1)
    <3>1. m + 1 - (k - 1) = lo + 1
      BY <1>2
    <3>2. OrderedFrom(t[k - 1], n, m + 1 - (k - 1))
      BY <1>15
    <3> QED
      BY <1>13, <3>1, <3>2
  <2>2. lo \in 1 .. n /\ lo \in Nat \ {0}
    BY <1>6
  <2> HIDE DEF x, lo, D
  <2>3. Sinking([q |-> x, at |-> lo], n, lo)
    <3>1. \A j, c \in 1 .. n : j >= lo /\ Parent(j, c) /\ j # lo => x[c].priority <= x[j].priority
      BY <2>1, <2>2 DEF OrderedFrom
    <3>2. \A j \in 1 .. n : ~(j >= lo /\ Parent(j, lo))
      BY <2>2 DEF Parent
    <3> QED
      BY <2>2, <3>1, <3>2 DEF Sinking
  <2>4. OrderedFrom(Down(x, lo), n, lo)
    BY <2>1, <2>2, <2>3, DownOrders
  <2> QED
    BY <1>13, <2>1, <2>4 DEF lo
<1>16. m \in S
  <2>1. S \in SUBSET (0 .. m) /\ m \in 0 .. m
    BY <1>2
  <2> HIDE DEF S
  <2> QED
    BY <1>2, <1>14, <1>15, <2>1, UpToAll
<1>17. t[m] \in V /\ OrderedFrom(t[m], n, 1)
  <2>1. m + 1 - m = 1 /\ m \in 0 .. m
    BY <1>2
  <2> QED
    BY <1>12, <1>16, <2>1
<1> QED
  BY <1>3, <1>4, <1>11, <1>17

-----------------------------------------------------------------------------
(* The invariant.  Its parts have the state as parameters: pl stands for   *)
(* placed, ty for typical, m for memo and d for ds.                        *)

Place == { Nowhere } \cup [node : Nodes, ids : SUBSET (1 .. MaxNumGpuPerNode)]

\* Every pod is nowhere, or on as many of a node's GPUs as it asks for.
Held(pl) ==
  /\ pl \in [Pods -> Place]
  /\ \A p \in Pods : pl[p] # Nowhere =>
       pl[p].ids \subseteq DOMAIN NodeRes[pl[p].node].gpu /\ Cardinality(pl[p].ids) = PodRes[p].num

DsTyped(d) ==
  d \in [pc : {"idle", "evict", "schedule"}, runs : Nat, policy : {""} \cup Policies, left : Nat,
         todo : Seq(Nodes), queue : Seq(Items), res : { <<>> } \cup [Nodes -> Keyed],
         held : { <<>> } \cup [Pods -> Place], pods : { <<>> } \cup [Nodes -> SUBSET Pods],
         evicted : Seq(Pods), failed : SUBSET Pods]

Waiting(d) == { d.evicted[k] : k \in DOMAIN d.evicted }

Quota(n) == (RatioNum * n + RatioDen - 1) \div RatioDen

\* How many pods there were when descheduling began.
Seated(d) == Cardinality({ p \in Pods : d.held[p] # Nowhere })

\* No pod is lost, none waits twice and not too many are evicted.
Counted(pl, d) ==
  /\ \A j, k \in DOMAIN d.evicted : d.evicted[j] = d.evicted[k] => j = k
  /\ \A p \in Waiting(d) : pl[p] = Nowhere
  /\ \A p \in Pods : pl[p] # Nowhere \/ p \in Waiting(d) \/ p \in d.failed
  /\ d.pc = "evict" => Len(d.evicted) + d.left <= Quota(Seated(d))
  /\ d.pc = "idle" => d.evicted = <<>>
  /\ d.pc # "evict" => d.queue = <<>>

\* What descheduling read when it began, and what it has changed since.
ReadOf(d, n)  == LoadedAs(d.held, n, OnAs(d.held, n))
Left(d, n, p) == LoadedAs(d.held, n, OnAs(d.held, n) \ {p})

Reading(pl, d) ==
  d.pc = "evict" =>
    /\ Held(d.held) /\ d.policy \in Policies
    /\ d.res = [n \in Nodes |-> ReadOf(d, n)]
    /\ pl = [p \in Pods |-> IF p \in Waiting(d) THEN Nowhere ELSE d.held[p]]
    /\ \A p \in Waiting(d) : d.held[p] # Nowhere
    /\ d.pods = [n \in Nodes |-> IF d.policy = "fragMultiPod" THEN OnAs(d.held, n) \ Waiting(d)
                                 ELSE OnAs(d.held, n)]

\* No node that is still to be looked at has lost a pod, but for those in the
\* queue, and none has lost two.
Once(d) ==
  d.pc = "evict" =>
    /\ \A p, q \in Waiting(d) : d.held[p].node = d.held[q].node => p = q
    /\ IF d.policy = "fragMultiPod" THEN d.todo = <<>> ELSE d.queue = <<>>
    /\ \A j, k \in DOMAIN d.todo : d.todo[j] = d.todo[k] => j = k
    /\ \A k \in DOMAIN d.todo : \A p \in Waiting(d) : d.held[p].node # d.todo[k]

(***************************************************************************)
(* A node is in the queue with the priority it was read with, and has not  *)
(* lost a pod, or with one from which no pod of it brings relief.          *)
(***************************************************************************)
Score(node, ty) == FragAmountSumExceptQ3(NodeGpuShareFragAmount(node, ty))

Justified(d, ty) ==
  { x \in Items :
      \/ x.priority = Score(ReadOf(d, x.node), ty) /\ \A p \in Waiting(d) : d.held[p].node # x.node
      \/ \A q \in OnAs(d.held, x.node) : (x.priority - Score(Left(d, x.node, q), ty)) \div SumFunction(ty) <= 0 }

Queued(d, ty) ==
  d.pc = "evict" => /\ d.queue \in Queues(Len(d.queue), Justified(d, ty))
                    /\ OrderedFrom(d.queue, Len(d.queue), 1)

\* The amounts of the nodes that were read are remembered.
Known(m, d) ==
  d.pc = "evict" /\ d.policy # "cosSim" => \A n \in Nodes : Flatten(ReadOf(d, n)) \in DOMAIN m

DInv(pl, ty, m, d) ==
  /\ Held(pl) /\ ty \in Distributions /\ MemoFor(m, ty)
  /\ DsTyped(d) /\ Counted(pl, d) /\ Reading(pl, d) /\ Once(d) /\ Queued(d, ty) /\ Known(m, d)

-----------------------------------------------------------------------------
(* What the invariant says of a node that is looked at.                    *)

LEMMA TypicalIs ==
  ASSUME NEW ty \in Distributions
  PROVE  /\ DOMAIN ty \subseteq PodResources /\ SumFunction(ty) \in Nat \ {0}
         /\ \A node \in Keyed : Score(node, ty) \in Int
<1>1. /\ IsFiniteSet(DOMAIN ty) /\ DOMAIN ty # {} /\ DOMAIN ty \subseteq PodResources
      /\ \A q \in DOMAIN ty : ty[q] \in Nat \ {0}
  BY DescheduleAssumption
<1>2. SumFunction(ty) \in Nat \ {0}
  <2>1. SumFunction(ty) = SumOver(ty, DOMAIN ty)
    BY SumOfFunction
  <2>2. \A q \in DOMAIN ty : ty[q] \in Nat /\ ty[q] \in Int
    BY <1>1
  <2>3. SumOver(ty, DOMAIN ty) \in Nat
    BY <1>1, <2>2, SumNat
  <2>4. PICK q \in DOMAIN ty : TRUE
    BY <1>1
  <2>5. SumOver(ty, {q}) = ty[q] /\ {q} \in SUBSET DOMAIN ty
    BY <2>2, SumSingle
  <2>6. SumOver(ty, {q}) <= SumOver(ty, DOMAIN ty)
    BY <1>1, <2>2, <2>5, SumNat
  <2> QED
    BY <1>1, <2>1, <2>3, <2>5, <2>6
<1>3. ASSUME NEW node \in Keyed
      PROVE  Score(node, ty) \in Int
  <2>1. node.gpu \in Seq(Int)
    BY DEF Keyed, NodeResources
  <2>2. Score(node, ty) = NodeGpuShareFragAmountScoreBasedOnPredict(node, ty)
    <3>1. \A q \in DOMAIN ty : ty[q] \in Int
      BY <1>1
    <3> QED
      BY <1>1, <2>1, <3>1, AmountsAddUp DEF Score
  <2> DEFINE f == [pod \in DOMAIN ty |-> ty[pod] * FragOf(node, pod)]
  <2>3. \A pod \in DOMAIN ty : f[pod] \in Int
    BY <1>1, <2>1, FragIsInt
  <2>4. NodeGpuShareFragAmountScoreBasedOnPredict(node, ty) = SumOver(f, DOMAIN ty)
    BY SumOfFunction DEF NodeGpuShareFragAmountScoreBasedOnPredict
  <2>5. SumOver(f, DOMAIN ty) \in Int
    <3> HIDE DEF f
    <3> QED
      BY <1>1, <2>3, SumInt
  <2> QED
    BY <2>2, <2>4, <2>5
<1> QED
  BY <1>1, <1>2, <1>3

\* A node with any pods on it fits its key.
LEMMA LoadedKeyed ==
  ASSUME NEW pl, NEW n \in Nodes, NEW S \in SUBSET Pods
  PROVE  LoadedAs(pl, n, S) \in Keyed
BY LoadedFields

LEMMA OnAsIs ==
  ASSUME NEW pl, Held(pl), NEW n \in Nodes
  PROVE  /\ OnAs(pl, n) \in SUBSET Pods
         /\ \A p \in OnAs(pl, n) : /\ pl[p] # Nowhere /\ pl[p].ids \subseteq DOMAIN NodeRes[n].gpu
                                   /\ Cardinality(pl[p].ids) = PodRes[p].num
<1>1. n # 0
  BY DescheduleAssumption
<1>2. \A p \in OnAs(pl, n) : p \in Pods /\ pl[p].node = n /\ pl[p] # Nowhere
  BY <1>1 DEF OnAs, Nowhere
<1> QED
  BY <1>2 DEF Held, OnAs

(***************************************************************************)
(* No pod is passed over, and each leaves the node without it.             *)
(***************************************************************************)
LEMMA ReadGives ==
  ASSUME DsTyped(ds), Reading(placed, ds), ds.pc = "evict", NEW n \in Nodes
  PROVE  /\ Read(n) = ReadOf(ds, n) /\ Read(n) \in Keyed
         /\ ds.pods[n] \in SUBSET OnAs(ds.held, n) /\ OnAs(ds.held, n) \in SUBSET Pods
         /\ Candidates(Read(n), ds.pods[n]) = ds.pods[n]
         /\ \A p \in OnAs(ds.held, n) : Without(Read(n), p) = Left(ds, n, p) /\ Left(ds, n, p) \in Keyed
<1>1. /\ Held(ds.held) /\ ds.res[n] = ReadOf(ds, n)
      /\ ds.pods[n] \in SUBSET OnAs(ds.held, n)
  BY DEF Reading
<1>2. OnAs(ds.held, n) \in SUBSET Pods
  BY <1>1, OnAsIs
<1>3. Read(n) = ReadOf(ds, n) /\ Read(n) \in Keyed
  BY <1>1, <1>2, LoadedKeyed DEF Read, ReadOf
<1>4. ASSUME NEW p \in OnAs(ds.held, n)
      PROVE  /\ Add(Read(n), PodRes[p], GpuIdList(ds.held, p)) = [ok |-> TRUE, node |-> Left(ds, n, p)]
             /\ Left(ds, n, p) \in Keyed
  <2>1. ds.held[p].ids \subseteq DOMAIN NodeRes[n].gpu /\ Cardinality(ds.held[p].ids) = PodRes[p].num
    BY <1>1, OnAsIs
  <2>2. Add(LoadedAs(ds.held, n, OnAs(ds.held, n)), PodRes[p], GpuIdList(ds.held, p))
          = [ok |-> TRUE, node |-> LoadedAs(ds.held, n, OnAs(ds.held, n) \ {p})]
    BY <1>2, <2>1, AddUndoes
  <2>3. OnAs(ds.held, n) \ {p} \in SUBSET Pods
    BY <1>2
  <2>4. LoadedAs(ds.held, n, OnAs(ds.held, n) \ {p}) \in Keyed
    BY <2>3, LoadedKeyed
  <2> QED
    BY <1>3, <2>2, <2>4 DEF ReadOf, Left
<1> DEFINE Back(p) == Add(Read(n), PodRes[p], GpuIdList(ds.held, p))
<1>5. \A p \in OnAs(ds.held, n) : Back(p).ok = TRUE /\ Back(p).node = Left(ds, n, p) /\ Left(ds, n, p) \in Keyed
  <2> TAKE p \in OnAs(ds.held, n)
  <2>1. Back(p) = [ok |-> TRUE, node |-> Left(ds, n, p)] /\ Left(ds, n, p) \in Keyed
    BY <1>4
  <2> HIDE DEF Back
  <2> QED
    BY <2>1
<1>6. /\ Candidates(Read(n), ds.pods[n]) = { p \in ds.pods[n] : Back(p).ok }
      /\ \A p : Without(Read(n), p) = Back(p).node
  BY DEF Candidates, Without
<1> HIDE DEF Back
<1>7. Candidates(Read(n), ds.pods[n]) = ds.pods[n]
  BY <1>1, <1>5, <1>6
<1>8. \A p \in OnAs(ds.held, n) : Without(Read(n), p) = Left(ds, n, p) /\ Left(ds, n, p) \in Keyed
  BY <1>5, <1>6
<1> QED
  BY <1>1, <1>2, <1>3, <1>7, <1>8

\* The smallest of a set of numbers.
LEMMA MinIn ==
  ASSUME NEW S, IsFiniteSet(S), S # {}, \A i \in S : i \in Int
  PROVE  Min(S) \in S /\ \A i \in S : Min(S) <= i
<1> DEFINE v == [i \in S |-> 0]
<1>1. \A i \in S : i \in Int /\ v[i] = 0 /\ v[i] \in Int
  OBVIOUS
<1>2. PICK i \in S : \A j \in S : v[j] < v[i] \/ (v[j] = v[i] /\ i <= j)
  <2> HIDE DEF v
  <2> QED
    BY <1>1, FirstBestFound
<1>3. \A j \in S : i <= j
  <2> HIDE DEF v
  <2> QED
    BY <1>1, <1>2
<1> QED
  BY <1>3 DEF Min

(***************************************************************************)
(* The victim is a pod of those that relieve most, if any does.            *)
(***************************************************************************)
LEMMA VictimBest ==
  ASSUME NEW m, NEW priority, NEW node, NEW S,
         IsFiniteSet(Candidates(node, S)),
         \A p \in Candidates(node, S) : p \in Nat \ {0} /\ Relief(m, priority, node, p) \in Int
  PROVE  LET victim == FragVictim(m, priority, node, S)
             R(p)   == Relief(m, priority, node, p)
         IN /\ victim # 0 => /\ victim \in Candidates(node, S) /\ R(victim) > 0
                             /\ \A q \in Candidates(node, S) : R(q) <= R(victim)
            /\ (\A q \in Candidates(node, S) : R(q) <= 0) => victim = 0
<1> DEFINE C == Candidates(node, S)
           relief == [p \in C |-> Relief(m, priority, node, p)]
           V == { relief[p] : p \in C } \cup {0}
           most == Max(V)
           best == { p \in C : relief[p] = most }
           victim == IF most = 0 THEN 0 ELSE Min(best)
<1>1. FragVictim(m, priority, node, S) = victim
  BY DEF FragVictim
<1>2. \A p \in C : relief[p] = Relief(m, priority, node, p) /\ relief[p] \in Int /\ p \in Nat \ {0}
  OBVIOUS
<1> HIDE DEF C, relief
<1>3. most \in V /\ \A v \in V : v <= most
  <2>1. \E x \in V : \A v \in V : x >= v
    <3>1. CASE C = {}
      BY <3>1
    <3>2. CASE C # {}
      <4>1. PICK i \in C : \A j \in C : relief[j] < relief[i] \/ (relief[j] = relief[i] /\ i <= j)
        <5>1. IsFiniteSet(C) /\ \A i \in C : i \in Int /\ relief[i] \in Int
          BY <1>2 DEF C
        <5> QED
          BY <3>2, <5>1, FirstBestFound
      <4>2. \A j \in C : relief[i] >= relief[j]
        BY <1>2, <4>1
      <4>3. CASE relief[i] >= 0
        BY <4>2, <4>3
      <4>4. CASE ~(relief[i] >= 0)
        <5>1. \A j \in C : 0 >= relief[j]
          BY <1>2, <4>2, <4>4
        <5> QED
          BY <5>1
      <4> QED
        BY <4>3, <4>4
    <3> QED
      BY <3>1, <3>2
  <2>2. most \in V /\ \A v \in V : most >= v
    <3> HIDE DEF V
    <3> QED
      BY <2>1 DEF Max
  <2>3. \A v \in V : v \in Int
    BY <1>2
  <2> HIDE DEF V
  <2> QED
    BY <2>2, <2>3
<1>4. most \in Int /\ most >= 0
  BY <1>2, <1>3
<1>5. ASSUME most # 0
      PROVE  victim \in C /\ victim # 0 /\ relief[victim] = most
  <2>1. best # {} /\ best \in SUBSET C /\ \A p \in best : p \in Int
    <3>1. \E p \in C : most = relief[p]
      <4> HIDE DEF most
      <4> QED
        BY <1>3, <1>5
    <3> HIDE DEF most
    <3> QED
      BY <1>2, <3>1
  <2>2. IsFiniteSet(best)
    <3> HIDE DEF best
    <3> QED
      BY <2>1, FS_Subset DEF C
  <2>3. Min(best) \in best
    <3> HIDE DEF best
    <3> QED
      BY <2>1, <2>2, MinIn
  <2> HIDE DEF most
  <2> QED
    BY <1>2, <1>5, <2>3
<1>6. \A q \in C : relief[q] <= most
  BY <1>3
<1> HIDE DEF most, best
<1>7. victim # 0 => /\ victim \in C /\ relief[victim] > 0
                    /\ \A q \in C : relief[q] <= relief[victim]
  BY <1>4, <1>5, <1>6
<1>8. (\A q \in C : relief[q] <= 0) => victim = 0
  BY <1>2, <1>4, <1>5
<1> HIDE DEF victim
<1> QED
  BY <1>1, <1>2, <1>7, <1>8 DEF C

-----------------------------------------------------------------------------
(* The invariant holds.                                                    *)

LEMMA DivIs ==
  ASSUME NEW x \in Int, NEW d \in Nat \ {0}
  PROVE  x \div d \in Int /\ (x \div d) * d <= x /\ x < (x \div d + 1) * d
OBVIOUS

LEMMA DivSmaller ==
  ASSUME NEW a \in Int, NEW b \in Int, NEW c \in Int, NEW e \in Int, NEW d \in Nat \ {0}, a * d <= c, c <= e, e < (b + 1) * d
  PROVE  a <= b
<1> SUFFICES ASSUME ~(a <= b) PROVE FALSE
  OBVIOUS
<1>1. PICK k \in Nat : a = (b + 1) + k
  <2>1. a - (b + 1) \in Nat /\ a = (b + 1) + (a - (b + 1))
    OBVIOUS
  <2> QED
    BY <2>1
<1>2. a * d = (b + 1) * d + k * d /\ k * d \in Nat
  BY <1>1
<1> DEFINE p == a * d
           q == (b + 1) * d
           r == k * d
<1>3. p = q + r /\ r \in Nat /\ p \in Int /\ q \in Int /\ p <= c /\ e < q
  BY <1>2
<1> HIDE DEF p, q, r
<1> QED
  BY <1>3

LEMMA DivMonotone ==
  ASSUME NEW x \in Int, NEW y \in Int, NEW d \in Nat \ {0}, x <= y
  PROVE  x \div d \in Int /\ y \div d \in Int /\ x \div d <= y \div d
<1> DEFINE a == x \div d
           b == y \div d
<1>1. a \in Int /\ a * d <= x /\ b \in Int /\ y < (b + 1) * d
  BY DivIs
<1> HIDE DEF a, b
<1>2. a <= b
  BY <1>1, DivSmaller
<1> QED
  BY <1>1, <1>2 DEF a, b

\* What relieves no more than the best relieves nothing once the best has left.
LEMMA BestLeaves ==
  ASSUME NEW x \in Int, NEW y \in Int, NEW d \in Nat \ {0}, x \div d <= y \div d
  PROVE  (x - y) \div d <= 0
<1> DEFINE a == x \div d
           b == y \div d
           c == (x - y) \div d
<1>1. /\ a \in Int /\ x < (a + 1) * d
      /\ b \in Int /\ b * d <= y
      /\ c \in Int /\ c * d <= x - y
  <2>1. x - y \in Int
    OBVIOUS
  <2> QED
    BY <2>1, DivIs
<1>2. a <= b
  OBVIOUS
<1> HIDE DEF a, b, c
<1>3. (c + b) * d = c * d + b * d /\ (c + b) \in Int
  BY <1>1
<1>4. c * d \in Int /\ b * d \in Int
  BY <1>1
<1>5. (c + b) * d <= x
  BY <1>1, <1>3, <1>4
<1>6. c + b <= a
  BY <1>1, <1>3, <1>5, DivSmaller
<1> QED
  BY <1>1, <1>2, <1>6 DEF c

\* A quotient that is not zero is one of a number as large as the divisor.
LEMMA DivPositive ==
  ASSUME NEW x \in Int, NEW d \in Nat \ {0}, x \div d > 0
  PROVE  x > 0
<1> SUFFICES ASSUME x <= 0 PROVE FALSE
  OBVIOUS
<1>1. x \div d <= 0 \div d
  BY DivMonotone
<1>2. 0 \div d = 0
  <2>1. 0 * d <= 0 /\ 0 < (0 + 1) * d
    OBVIOUS
  <2> QED
    BY <2>1, Quotient
<1>3. x \div d \in Int
  BY DivIs
<1> DEFINE q == x \div d
<1> HIDE DEF q
<1> QED
  BY <1>1, <1>2, <1>3 DEF q

LEMMA QuotaIsNat == \A n \in Nat : Quota(n) \in Nat
<1> TAKE n \in Nat
<1>1. RatioNum \in Nat /\ RatioDen \in Nat \ {0}
  BY DescheduleAssumption
<1> DEFINE u == RatioNum * n
           x == u + RatioDen - 1
<1>2. u \in Nat
  BY <1>1
<1> HIDE DEF u
<1>3. x \in Int /\ 0 <= x
  BY <1>1, <1>2
<1> HIDE DEF x
<1>4. 0 \div RatioDen <= x \div RatioDen
  BY <1>1, <1>3, DivMonotone
<1>5. 0 \div RatioDen = 0
  <2>1. 0 * RatioDen <= 0 /\ 0 < (0 + 1) * RatioDen
    BY <1>1
  <2> QED
    BY <1>1, <2>1, Quotient
<1>6. x \div RatioDen \in Int
  BY <1>1, <1>3, DivIs
<1> DEFINE r == x \div RatioDen
<1>7. r \in Nat
  BY <1>4, <1>5, <1>6
<1>8. Quota(n) = r
  BY DEF Quota, x, u
<1> HIDE DEF r
<1> QED
  BY <1>7, <1>8

LEMMA InitInv == Init => DInv(placed, typical, memo, ds)
<1> SUFFICES ASSUME Init PROVE DInv(placed, typical, memo, ds)
  OBVIOUS
<1>1. Held(placed)
  BY DEF Init, Held, Place, Placed
<1>2. typical \in Distributions /\ MemoFor(memo, typical)
  BY DEF Init, MemoFor
<1>3. /\ ds.pc = "idle" /\ ds.left = 0 /\ ds.queue = <<>> /\ ds.evicted = <<>> /\ ds.failed = Pods \ Placed
      /\ ds = [pc |-> "idle", runs |-> 0, policy |-> "", left |-> 0, todo |-> <<>>, queue |-> <<>>,
               res |-> <<>>, held |-> <<>>, pods |-> <<>>, evicted |-> <<>>, failed |-> Pods \ Placed]
  BY DEF Init, Rest
<1>4. DsTyped(ds)
  <2> DEFINE empty == <<>>
             failed == Pods \ Placed
             idle == "idle"
  <2>1. empty \in Seq(Nodes) /\ empty \in Seq(Items) /\ empty \in Seq(Pods) /\ failed \in SUBSET Pods
    OBVIOUS
  <2>2. ds = [pc |-> "idle", runs |-> 0, policy |-> "", left |-> 0, todo |-> empty, queue |-> empty,
               res |-> empty, held |-> empty, pods |-> empty, evicted |-> empty, failed |-> failed]
    BY <1>3
  <2>3. empty \in { <<>> }
    OBVIOUS
  <2>4. "" \in {""} \cup Policies
    OBVIOUS
  <2> HIDE DEF empty, failed
  <2> QED
    BY <2>1, <2>2, <2>3, <2>4 DEF DsTyped
<1>5. Counted(placed, ds)
  <2>1. ds.evicted = <<>> /\ ds.left = 0 /\ ds.failed = Pods \ Placed
    BY <1>3
  <2>2. Len(<<>>) = 0 /\ DOMAIN <<>> = {}
    OBVIOUS
  <2>3. Len(ds.evicted) + ds.left = 0 /\ DOMAIN ds.evicted = {}
    BY <2>1, <2>2
  <2>4. \A p \in Pods : placed[p] # Nowhere \/ p \in ds.failed
    BY <2>1 DEF Placed
  <2>6. Waiting(ds) = {}
    BY <2>3 DEF Waiting
  <2>7. ds.queue = <<>> /\ ds.pc # "evict"
    BY <1>3
  <2> QED
    BY <2>1, <2>3, <2>4, <2>6, <2>7 DEF Counted
<1>6. Reading(placed, ds) /\ Once(ds) /\ Queued(ds, typical) /\ Known(memo, ds)
  BY <1>3 DEF Reading, Once, Queued, Known
<1> QED
  BY <1>1, <1>2, <1>4, <1>5, <1>6 DEF DInv

\* The fields of a descheduling.
LEMMA FieldsOf ==
  ASSUME NEW d, DsTyped(d)
  PROVE  /\ d.pc \in {"idle", "evict", "schedule"} /\ d.runs \in Nat /\ d.policy \in {""} \cup Policies /\ d.left \in Nat
         /\ d.todo \in Seq(Nodes) /\ d.queue \in Seq(Items) /\ d.evicted \in Seq(Pods) /\ d.failed \in SUBSET Pods
         /\ d.res \in { <<>> } \cup [Nodes -> Keyed] /\ d.held \in { <<>> } \cup [Pods -> Place]
         /\ d.pods \in { <<>> } \cup [Nodes -> SUBSET Pods]
         /\ d = [pc |-> d.pc, runs |-> d.runs, policy |-> d.policy, left |-> d.left, todo |-> d.todo,
                 queue |-> d.queue, res |-> d.res, held |-> d.held, pods |-> d.pods,
                 evicted |-> d.evicted, failed |-> d.failed]
BY DEF DsTyped

\* The workload changes, and descheduling does not: it rests.
LEMMA SetTypicalPodsInv ==
  ASSUME DInv(placed, typical, memo, ds), SetTypicalPods
  PROVE  DInv(placed, typical, memo, ds)'
<1>1. ds.pc = "idle" /\ typical' \in Distributions /\ memo' = <<>> /\ placed' = placed /\ ds' = ds
  BY DEF SetTypicalPods
<1>2. MemoFor(memo', typical')
  BY <1>1 DEF MemoFor
<1>3. Reading(placed, ds) /\ Once(ds) /\ Queued(ds, typical') /\ Known(memo', ds)
  BY <1>1 DEF Reading, Once, Queued, Known
<1> QED
  BY <1>1, <1>2, <1>3 DEF DInv

\* The memo of a step: what it had is still right, and there.
LEMMA MemoAfter ==
  ASSUME DInv(placed, typical, memo, ds), NEW S \in SUBSET Keyed
  PROVE  /\ MemoFor(Remember(S), typical)
         /\ \A x \in S : /\ Flatten(x) \in DOMAIN Remember(S)
                         /\ Priority(Remember(S), x) = Score(x, typical)
         /\ DOMAIN memo \subseteq DOMAIN Remember(S)
<1>1. DOMAIN typical \subseteq PodResources /\ MemoFor(memo, typical)
  BY TypicalIs DEF DInv
<1>2. DOMAIN memo \subseteq DOMAIN Remember(S)
  BY DEF Remember
<1> QED
  BY <1>1, <1>2, Remembers DEF Priority, Score

LEMMA OrderIs ==
  ASSUME NEW order \in SetToSeqs(Nodes)
  PROVE  LET n == Cardinality(Nodes)
         IN /\ n \in Nat /\ order \in [1 .. n -> Nodes] /\ order \in Seq(Nodes) /\ DOMAIN order = 1 .. n
            /\ \A j, k \in DOMAIN order : order[j] = order[k] => j = k
<1>1. Cardinality(Nodes) \in Nat
  BY DescheduleAssumption, FS_CardinalityType
<1>2. /\ order \in [1 .. Cardinality(Nodes) -> Nodes]
      /\ \A j, k \in 1 .. Cardinality(Nodes) : j # k => order[j] # order[k]
  BY DEF SetToSeqs
<1>3. order \in Seq(Nodes)
  BY <1>1, <1>2
<1> QED
  BY <1>1, <1>2, <1>3

(***************************************************************************)
(* Descheduling begins with what it reads.                                 *)
(***************************************************************************)
LEMMA BeginInv ==
  ASSUME DInv(placed, typical, memo, ds), NEW policy \in Policies, Begin(policy)
  PROVE  DInv(placed, typical, memo, ds)'
<1> DEFINE res  == NodeResourceMap
           node(n) == LoadedAs(placed, n, OnAs(placed, n))
           S    == { res[n] : n \in Nodes }
           N    == Cardinality(Nodes)
           D    == 1 .. N
           J    == { x \in Items : x.priority = Score(node(x.node), typical) }
<1>1. /\ Held(placed) /\ typical \in Distributions /\ MemoFor(memo, typical)
      /\ DsTyped(ds) /\ Counted(placed, ds)
  BY DEF DInv
<1>2. /\ ds.pc = "idle" /\ UNCHANGED << placed, typical >>
      /\ memo' = IF policy = "cosSim" THEN memo ELSE Remember(S)
  BY DEF Begin
<1>3. PICK order \in SetToSeqs(Nodes) :
        ds' = [ds EXCEPT
                 !.pc = "evict", !.runs = @ + 1, !.policy = policy,
                 !.left = (RatioNum * Cardinality(Placed) + RatioDen - 1) \div RatioDen,
                 !.todo = IF policy = "fragMultiPod" THEN <<>> ELSE order,
                 !.queue = IF policy # "fragMultiPod" THEN <<>>
                           ELSE Heapify([k \in DOMAIN order |->
                                  [node |-> order[k], priority |-> Priority(memo', res[order[k]])]]),
                 !.res = res, !.held = placed, !.pods = [n \in Nodes |-> On(n)],
                 !.evicted = <<>>]
  <2> HIDE DEF res
  <2>1. \E order \in SetToSeqs(Nodes) :
        ds' = [ds EXCEPT
                 !.pc = "evict", !.runs = @ + 1, !.policy = policy,
                 !.left = (RatioNum * Cardinality(Placed) + RatioDen - 1) \div RatioDen,
                 !.todo = IF policy = "fragMultiPod" THEN <<>> ELSE order,
                 !.queue = IF policy # "fragMultiPod" THEN <<>>
                           ELSE Heapify([k \in DOMAIN order |->
                                  [node |-> order[k],
                                   priority |-> [n \in Nodes |-> Priority(memo', res[n])][order[k]]]]),
                 !.res = res, !.held = placed, !.pods = [n \in Nodes |-> On(n)],
                 !.evicted = <<>>]
    BY DEF Begin, res
  <2>2. ASSUME NEW order \in SetToSeqs(Nodes)
        PROVE  [k \in DOMAIN order |->
                  [node |-> order[k], priority |-> [n \in Nodes |-> Priority(memo', res[n])][order[k]]]]
               = [k \in DOMAIN order |-> [node |-> order[k], priority |-> Priority(memo', res[order[k]])]]
    <3>1. \A k \in DOMAIN order : order[k] \in Nodes
      BY OrderIs
    <3> QED
      BY <3>1
  <2> QED
    BY <2>1, <2>2
<1> DEFINE q0 == [k \in DOMAIN order |-> [node |-> order[k], priority |-> Priority(memo', res[order[k]])]]
           left == Quota(Cardinality(Placed))
           queue == IF policy # "fragMultiPod" THEN <<>> ELSE Heapify(q0)
           todo == IF policy = "fragMultiPod" THEN <<>> ELSE order
           pods == [n \in Nodes |-> On(n)]
<1>4. /\ N \in Nat /\ order \in [D -> Nodes] /\ order \in Seq(Nodes) /\ DOMAIN order = D
      /\ \A j, k \in DOMAIN order : order[j] = order[k] => j = k
  BY OrderIs
<1>5. \A n \in Nodes : OnAs(placed, n) = On(n) /\ On(n) \in SUBSET Pods /\ res[n] = node(n) /\ res[n] \in Keyed
  <2> TAKE n \in Nodes
  <2>1. OnAs(placed, n) = On(n) /\ On(n) \in SUBSET Pods
    BY DEF OnAs, On
  <2>2. res[n] = node(n)
    BY <2>1, LoadedIs DEF NodeResourceMap
  <2> QED
    BY <2>1, <2>2, LoadedKeyed
<1>6. S \in SUBSET Keyed
  BY <1>5
<1>7. /\ MemoFor(memo', typical)
      /\ policy # "cosSim" => \A n \in Nodes : /\ Flatten(res[n]) \in DOMAIN memo'
                                               /\ Priority(memo', res[n]) = Score(res[n], typical)
  <2>1. CASE policy = "cosSim"
    BY <1>1, <1>2, <2>1
  <2>2. CASE policy # "cosSim"
    <3>1. memo' = Remember(S) /\ \A n \in Nodes : res[n] \in S
      BY <1>2, <2>2
    <3> HIDE DEF S, res
    <3> QED
      BY <1>6, <3>1, MemoAfter
  <2> QED
    BY <2>1, <2>2
<1>8. res = [n \in Nodes |-> node(n)] /\ res \in [Nodes -> Keyed] /\ pods \in [Nodes -> SUBSET Pods]
  <2>1. res = [n \in Nodes |-> res[n]]
    BY DEF NodeResourceMap
  <2> HIDE DEF res
  <2> QED
    BY <1>5, <2>1
<1>9. ASSUME policy = "fragMultiPod"
      PROVE  /\ queue \in Queues(Len(queue), J) /\ OrderedFrom(queue, Len(queue), 1)
             /\ queue \in Seq(Items)
  <2>1. J \in SUBSET Items
    OBVIOUS
  <2>2. \A k \in D : q0[k].node = order[k] /\ q0[k] \in J
    <3> TAKE k \in D
    <3>1. order[k] \in Nodes /\ q0[k] = [node |-> order[k], priority |-> Priority(memo', res[order[k]])]
      BY <1>4
    <3>2. Priority(memo', res[order[k]]) = Score(node(order[k]), typical)
      BY <1>5, <1>7, <1>9, <3>1
    <3>3. Score(node(order[k]), typical) \in Int
      BY <1>1, <1>5, <3>1, TypicalIs
    <3> HIDE DEF q0, res, node
    <3> QED
      BY <3>1, <3>2, <3>3 DEF Items
  <2>3. q0 \in Queues(N, J)
    <3>1. q0 = [k \in D |-> q0[k]]
      BY <1>4
    <3> HIDE DEF q0, J, D
    <3> QED
      BY <1>4, <2>2, <3>1 DEF Queues, D
  <2>4. queue = Heapify(q0)
    BY <1>9
  <2> HIDE DEF J, q0, queue
  <2>5. queue \in Queues(N, J) /\ OrderedFrom(queue, N, 1)
    BY <1>4, <2>1, <2>3, <2>4, HeapifyOrders
  <2>6. Len(queue) = N /\ queue \in Seq(J)
    BY <1>4, <2>1, <2>5, QueueIs
  <2> QED
    BY <2>1, <2>5, <2>6
<1>10. left \in Nat
  <2>1. IsFiniteSet(Placed)
    BY DescheduleAssumption, FS_Subset DEF Placed
  <2>2. Cardinality(Placed) \in Nat
    BY <2>1, FS_CardinalityType
  <2> QED
    BY <2>2, QuotaIsNat
<1>11. /\ ds'.pc = "evict" /\ ds'.runs = ds.runs + 1 /\ ds'.policy = policy /\ ds'.left = left
       /\ ds'.todo = todo /\ ds'.queue = queue /\ ds'.res = res /\ ds'.held = placed
       /\ ds'.pods = pods /\ ds'.evicted = <<>> /\ ds'.failed = ds.failed
       /\ ds' = [pc |-> "evict", runs |-> ds.runs + 1, policy |-> policy, left |-> left,
                 todo |-> todo, queue |-> queue, res |-> res, held |-> placed,
                 pods |-> pods, evicted |-> <<>>, failed |-> ds.failed]
  <2>1. ds' = [ds EXCEPT
                 !.pc = "evict", !.runs = ds.runs + 1, !.policy = policy, !.left = left,
                 !.todo = todo, !.queue = queue, !.res = res, !.held = placed, !.pods = pods,
                 !.evicted = <<>>]
    BY <1>3 DEF Quota
  <2> HIDE DEF left, todo, queue, res, pods
  <2> QED
    BY <1>1, <2>1 DEF DsTyped
<1>12. queue \in Seq(Items) /\ todo \in Seq(Nodes) /\ <<>> \in Seq(Pods)
  <2>1. <<>> \in Seq(Items) /\ <<>> \in Seq(Nodes) /\ <<>> \in Seq(Pods)
    OBVIOUS
  <2>2. CASE policy = "fragMultiPod"
    BY <1>9, <2>1, <2>2
  <2>3. CASE policy # "fragMultiPod"
    BY <1>4, <2>1, <2>3
  <2> QED
    BY <2>2, <2>3
<1> HIDE DEF left, todo, queue, res, pods, q0
<1>13. DsTyped(ds')
  <2> DEFINE none == <<>>
  <2>1. none \in Seq(Pods)
    BY <1>12
  <2>2. ds.runs + 1 \in Nat /\ ds.failed \in SUBSET Pods
    <3>1. DsTyped(ds)
      BY <1>1
    <3>2. ds.runs \in Nat /\ ds.failed \in SUBSET Pods
      BY ONLY <3>1, FieldsOf
    <3> QED
      BY ONLY <3>2
  <2>3. ds' = [pc |-> "evict", runs |-> ds.runs + 1, policy |-> policy, left |-> left,
               todo |-> todo, queue |-> queue, res |-> res, held |-> placed,
               pods |-> pods, evicted |-> none, failed |-> ds.failed]
    BY <1>11
  <2>4. placed \in [Pods -> Place]
    BY <1>1 DEF Held
  <2> HIDE DEF none
  <2> QED
    BY <1>8, <1>10, <1>12, <2>1, <2>2, <2>3, <2>4 DEF DsTyped
<1>14. Waiting(ds') = {} /\ DOMAIN ds'.evicted = {} /\ Len(ds'.evicted) = 0
  <2>1. ds'.evicted = <<>>
    BY <1>11
  <2>2. DOMAIN <<>> = {} /\ Len(<<>>) = 0
    OBVIOUS
  <2> QED
    BY <2>1, <2>2 DEF Waiting
<1>15. Counted(placed, ds')
  <2>1. ds.evicted = <<>>
    BY <1>1, <1>2 DEF Counted
  <2>2. Waiting(ds) = {}
    <3>1. DOMAIN <<>> = {}
      OBVIOUS
    <3> QED
      BY <2>1, <3>1 DEF Waiting
  <2>3. \A p \in Pods : placed[p] # Nowhere \/ p \in ds'.failed
    BY <1>1, <1>11, <2>2 DEF Counted
  <2>4. Len(ds'.evicted) + ds'.left <= Quota(Seated(ds'))
    <3>1. Seated(ds') = Cardinality(Placed)
      BY <1>11 DEF Seated, Placed
    <3>2. ds'.left = Quota(Cardinality(Placed)) /\ ds'.left \in Nat /\ Len(ds'.evicted) = 0
      BY <1>10, <1>11, <1>14 DEF left
    <3> QED
      BY <3>1, <3>2
  <2> QED
    BY <1>11, <1>14, <2>3, <2>4 DEF Counted
<1>16. \A n \in Nodes : ReadOf(ds', n) = node(n)
  BY <1>11 DEF ReadOf
<1>17. Reading(placed, ds')
  <2>1. placed = [p \in Pods |-> placed[p]]
    BY <1>1 DEF Held
  <2>2. pods = [n \in Nodes |-> OnAs(placed, n)]
    BY <1>5 DEF pods
  <2>3. \A n \in Nodes : OnAs(placed, n) \ {} = OnAs(placed, n)
    OBVIOUS
  <2>4. ds'.pods = [n \in Nodes |-> IF ds'.policy = "fragMultiPod" THEN OnAs(ds'.held, n) \ Waiting(ds')
                                    ELSE OnAs(ds'.held, n)]
    BY <1>11, <1>14, <2>2, <2>3
  <2>5. placed = [p \in Pods |-> IF p \in Waiting(ds') THEN Nowhere ELSE ds'.held[p]]
    BY <1>11, <1>14, <2>1
  <2>6. ds'.res = [n \in Nodes |-> ReadOf(ds', n)]
    BY <1>8, <1>11, <1>16
  <2> QED
    BY <1>1, <1>11, <1>14, <2>4, <2>5, <2>6 DEF Reading
<1>18. Once(ds')
  <2>1. IF policy = "fragMultiPod" THEN todo = <<>> ELSE queue = <<>>
    BY DEF todo, queue
  <2>2. DOMAIN <<>> = {}
    OBVIOUS
  <2>3. \A j, k \in DOMAIN todo : todo[j] = todo[k] => j = k
    BY <1>4, <2>2 DEF todo
  <2> QED
    BY <1>11, <1>14, <2>1, <2>3 DEF Once
<1>19. Queued(ds', typical)
  <2>1. CASE policy = "fragMultiPod"
    <3>1. ASSUME NEW x \in J
          PROVE  x \in Justified(ds', typical)
      <4>1. x \in Items /\ x.node \in Nodes /\ x.priority = Score(node(x.node), typical)
        BY DEF Items
      <4> HIDE DEF node
      <4>2. x.priority = Score(ReadOf(ds', x.node), typical)
        BY <1>16, <4>1
      <4> QED
        BY <1>14, <4>1, <4>2 DEF Justified
    <3> HIDE DEF J
    <3>2. queue \in Queues(Len(queue), J)
      BY <1>9, <2>1
    <3>3. queue \in Queues(Len(queue), Justified(ds', typical))
      BY <3>1, <3>2 DEF Queues
    <3> QED
      BY <1>9, <1>11, <2>1, <3>3 DEF Queued
  <2>2. CASE policy # "fragMultiPod"
    <3>1. queue = <<>> /\ Len(<<>>) = 0 /\ 1 .. 0 = {}
      BY <2>2 DEF queue
    <3>2. <<>> \in [1 .. 0 -> Justified(ds', typical)]
      BY <3>1
    <3>3. <<>> \in Queues(0, Justified(ds', typical)) /\ OrderedFrom(<<>>, 0, 1)
      BY <3>1, <3>2 DEF Queues, OrderedFrom
    <3> QED
      BY <1>11, <3>1, <3>3 DEF Queued
  <2> QED
    BY <2>1, <2>2
<1>20. Known(memo', ds')
  BY <1>5, <1>7, <1>11, <1>16 DEF Known
<1> QED
  BY <1>1, <1>2, <1>7, <1>13, <1>15, <1>17, <1>18, <1>19, <1>20 DEF DInv

(***************************************************************************)
(* A victim p is taken from node n, which has not lost a pod: e is the     *)
(* descheduling afterwards, and pl2 where the pods are.                    *)
(***************************************************************************)
Evicts(pl, d, pl2, e, n, p) ==
  /\ n \in Nodes /\ p \in OnAs(d.held, n)
  /\ Held(pl) /\ DsTyped(d) /\ Counted(pl, d) /\ Reading(pl, d) /\ Once(d)
  /\ d.pc = "evict" /\ d.left > 0 /\ \A q \in Waiting(d) : d.held[q].node # n
  /\ pl2 = [pl EXCEPT ![p] = Nowhere]
  /\ e.pc = "evict" /\ e.left = d.left - 1 /\ e.evicted = Append(d.evicted, p) /\ e.held = d.held
  /\ e.failed = d.failed

LEMMA Evicted ==
  ASSUME NEW pl, NEW d, NEW pl2, NEW e, NEW n, NEW p, Evicts(pl, d, pl2, e, n, p)
  PROVE  /\ Held(pl2) /\ Counted(pl2, e) /\ p \in Pods /\ e.evicted \in Seq(Pods)
         /\ Waiting(e) = Waiting(d) \cup {p}
         /\ pl2 = [q \in Pods |-> IF q \in Waiting(e) THEN Nowhere ELSE e.held[q]]
         /\ \A q \in Waiting(e) : e.held[q] # Nowhere
         /\ \A q, r \in Waiting(e) : e.held[q].node = e.held[r].node => q = r
<1>h. /\ n \in Nodes /\ p \in OnAs(d.held, n)
      /\ Held(pl) /\ DsTyped(d) /\ Counted(pl, d) /\ Reading(pl, d) /\ Once(d)
      /\ d.pc = "evict" /\ d.left > 0 /\ \A q \in Waiting(d) : d.held[q].node # n
      /\ pl2 = [pl EXCEPT ![p] = Nowhere]
      /\ e.pc = "evict" /\ e.left = d.left - 1 /\ e.evicted = Append(d.evicted, p) /\ e.held = d.held
      /\ e.failed = d.failed
  BY DEF Evicts
<1> USE <1>h
<1>1. Held(d.held) /\ d.evicted \in Seq(Pods) /\ d.left \in Nat
  BY FieldsOf DEF Reading
<1>2. p \in Pods /\ d.held[p] # Nowhere /\ d.held[p].node = n
  BY <1>1, OnAsIs DEF OnAs
<1>3. p \notin Waiting(d)
  BY <1>2
<1>4. pl \in [Pods -> Place] /\ Nowhere \in Place
  BY DEF Held, Place
<1>5. pl2 \in [Pods -> Place] /\ pl2[p] = Nowhere /\ \A q \in Pods \ {p} : pl2[q] = pl[q]
  BY <1>2, <1>4
<1>6. Held(pl2)
  <2>1. \A q \in Pods : pl2[q] # Nowhere => q # p /\ pl2[q] = pl[q]
    BY <1>5
  <2> QED
    BY <1>5, <2>1 DEF Held
<1> DEFINE L == Len(d.evicted)
<1>7. /\ L \in Nat /\ DOMAIN d.evicted = 1 .. L /\ DOMAIN e.evicted = 1 .. (L + 1)
      /\ Len(e.evicted) = L + 1 /\ e.evicted[L + 1] = p /\ e.evicted \in Seq(Pods)
      /\ \A k \in 1 .. L : e.evicted[k] = d.evicted[k]
  BY <1>1, <1>2
<1> HIDE DEF L
<1>8. \A k \in 1 .. (L + 1) : k = L + 1 \/ k \in 1 .. L
  BY <1>7
<1>9. \A k \in 1 .. L : k \in 1 .. (L + 1)
  BY <1>7
<1>10. L + 1 \in 1 .. (L + 1)
  BY <1>7
<1>11. Waiting(e) = Waiting(d) \cup {p}
  BY <1>7, <1>8, <1>9, <1>10 DEF Waiting
<1>12. \A j, k \in DOMAIN e.evicted : e.evicted[j] = e.evicted[k] => j = k
  <2>1. \A k \in 1 .. L : e.evicted[k] = d.evicted[k] /\ d.evicted[k] \in Waiting(d)
    BY <1>7 DEF Waiting
  <2>2. \A k \in 1 .. L : e.evicted[k] # p
    BY <1>3, <2>1
  <2>3. \A j, k \in 1 .. L : d.evicted[j] = d.evicted[k] => j = k
    BY <1>7 DEF Counted
  <2> QED
    BY <1>7, <1>8, <2>1, <2>2, <2>3
<1>13. Counted(pl2, e)
  <2>1. \A q \in Waiting(e) : pl2[q] = Nowhere
    <3> SUFFICES ASSUME NEW q \in Waiting(e) PROVE pl2[q] = Nowhere
      OBVIOUS
    <3>1. q = p \/ (q \in Waiting(d) /\ q \in Pods)
      BY <1>1, <1>11 DEF Waiting
    <3>2. q \in Waiting(d) => pl[q] = Nowhere
      BY DEF Counted
    <3> QED
      BY <1>5, <3>1, <3>2
  <2>2. \A q \in Pods : pl2[q] # Nowhere \/ q \in Waiting(e) \/ q \in e.failed
    <3>1. \A q \in Pods : pl[q] # Nowhere \/ q \in Waiting(d) \/ q \in d.failed
      BY DEF Counted
    <3> QED
      BY <1>5, <1>11, <3>1
  <2>3. Len(e.evicted) + e.left <= Quota(Seated(e))
    <3>1. L + d.left <= Quota(Seated(d))
      BY DEF Counted, L
    <3>2. Len(e.evicted) + e.left = L + d.left
      BY <1>1, <1>7
    <3>3. Seated(e) = Seated(d)
      BY DEF Seated
    <3> QED
      BY <3>1, <3>2, <3>3
  <2>4. e.pc = "evict" /\ "evict" # "idle"
    OBVIOUS
  <2> QED
    BY <1>12, <2>1, <2>2, <2>3, <2>4 DEF Counted
<1>14. pl2 = [q \in Pods |-> IF q \in Waiting(e) THEN Nowhere ELSE e.held[q]]
  <2>1. pl = [q \in Pods |-> IF q \in Waiting(d) THEN Nowhere ELSE d.held[q]]
    BY DEF Reading
  <2>2. \A q \in Pods : pl2[q] = IF q \in Waiting(e) THEN Nowhere ELSE e.held[q]
    <3> TAKE q \in Pods
    <3>1. CASE q = p
      BY <1>5, <1>11, <3>1
    <3>2. CASE q # p
      <4>1. pl2[q] = pl[q] /\ (q \in Waiting(e) <=> q \in Waiting(d))
        BY <1>5, <1>11, <3>2
      <4>2. pl[q] = IF q \in Waiting(d) THEN Nowhere ELSE d.held[q]
        BY <2>1
      <4> QED
        BY <4>1, <4>2
    <3> QED
      BY <3>1, <3>2
  <2> QED
    BY <1>5, <2>2
<1>15. \A q \in Waiting(d) : d.held[q] # Nowhere
  BY DEF Reading
<1>16. \A q, r \in Waiting(d) : d.held[q].node = d.held[r].node => q = r
  BY DEF Once
<1>17. \A q \in Waiting(e) : e.held[q] # Nowhere
  BY <1>2, <1>11, <1>15
<1>18. \A q, r \in Waiting(e) : e.held[q].node = e.held[r].node => q = r
  BY <1>2, <1>11, <1>16
<1> QED
  BY <1>2, <1>6, <1>7, <1>11, <1>13, <1>14, <1>17, <1>18

\* What a list of nodes begins with, and what is left of it.
LEMMA HeadTail ==
  ASSUME NEW S, NEW s \in Seq(S), s # <<>>, \A j, k \in DOMAIN s : s[j] = s[k] => j = k
  PROVE  /\ Head(s) \in S /\ Tail(s) \in Seq(S) /\ 1 \in DOMAIN s /\ s[1] = Head(s)
         /\ \A j, k \in DOMAIN Tail(s) : Tail(s)[j] = Tail(s)[k] => j = k
         /\ \A k \in DOMAIN Tail(s) : Tail(s)[k] # Head(s) /\ \E j \in DOMAIN s : Tail(s)[k] = s[j]
         /\ \A k \in DOMAIN s : s[k] = Head(s) \/ \E j \in DOMAIN Tail(s) : s[k] = Tail(s)[j]
         /\ Len(Tail(s)) = Len(s) - 1
<1> DEFINE L == Len(s)
<1>1. L \in Nat \ {0} /\ DOMAIN s = 1 .. L
  OBVIOUS
<1>2. Head(s) = s[1] /\ s[1] \in S /\ Tail(s) \in Seq(S)
  BY <1>1
<1>3. Len(Tail(s)) = L - 1 /\ DOMAIN Tail(s) = 1 .. (L - 1) /\ \A k \in 1 .. (L - 1) : Tail(s)[k] = s[k + 1]
  BY <1>1
<1> HIDE DEF L
<1>4. \A k \in 1 .. (L - 1) : k + 1 \in 1 .. L /\ k + 1 # 1
  BY <1>1
<1>5. \A k \in 1 .. L : k = 1 \/ (k - 1 \in 1 .. (L - 1) /\ (k - 1) + 1 = k)
  BY <1>1
<1>6. \A j, k \in 1 .. (L - 1) : Tail(s)[j] = Tail(s)[k] => j = k
  <2> SUFFICES ASSUME NEW j \in 1 .. (L - 1), NEW k \in 1 .. (L - 1), Tail(s)[j] = Tail(s)[k]
               PROVE  j = k
    OBVIOUS
  <2>1. s[j + 1] = s[k + 1]
    BY <1>3
  <2>2. j + 1 = k + 1
    BY <1>1, <1>4, <2>1
  <2> QED
    BY <1>1, <2>2
<1>7. 1 \in 1 .. L
  BY <1>1
<1>8. \A k \in 1 .. (L - 1) : Tail(s)[k] # Head(s) /\ \E j \in DOMAIN s : Tail(s)[k] = s[j]
  BY <1>1, <1>2, <1>3, <1>4, <1>7
<1>9. \A k \in 1 .. L : s[k] = Head(s) \/ \E j \in 1 .. (L - 1) : s[k] = Tail(s)[j]
  BY <1>2, <1>3, <1>5
<1> QED
  BY <1>1, <1>2, <1>3, <1>6, <1>7, <1>8, <1>9 DEF L

(***************************************************************************)
(* CosSim and FragOnePod: the next node is looked at, and loses p or, when *)
(* p is 0, no pod.                                                         *)
(***************************************************************************)
LEMMA NextNode ==
  ASSUME DInv(placed, typical, memo, ds), ds.pc = "evict", ds.policy # "fragMultiPod",
         ds.left > 0, ds.todo # <<>>,
         NEW p \in ds.pods[Head(ds.todo)] \cup {0},
         IF p = 0
         THEN /\ ds' = [ds EXCEPT !.todo = Tail(@)]
              /\ UNCHANGED placed
         ELSE /\ Evict(p)
              /\ ds' = [ds EXCEPT !.todo = Tail(@), !.evicted = Append(@, p), !.left = @ - 1],
         UNCHANGED typical, MemoFor(memo', typical), DOMAIN memo \subseteq DOMAIN memo'
  PROVE  DInv(placed, typical, memo, ds)'
<1> DEFINE n == Head(ds.todo)
           rest == Tail(ds.todo)
           evicted == IF p = 0 THEN ds.evicted ELSE Append(ds.evicted, p)
           left == IF p = 0 THEN ds.left ELSE ds.left - 1
<1>1. /\ Held(placed) /\ typical \in Distributions
      /\ DsTyped(ds) /\ Counted(placed, ds) /\ Reading(placed, ds) /\ Once(ds) /\ Queued(ds, typical)
      /\ Known(memo, ds)
  BY DEF DInv
<1>2. /\ ds.queue = <<>> /\ \A j, k \in DOMAIN ds.todo : ds.todo[j] = ds.todo[k] => j = k
      /\ \A k \in DOMAIN ds.todo : \A q \in Waiting(ds) : ds.held[q].node # ds.todo[k]
  BY <1>1 DEF Once
<1>3. ds.todo \in Seq(Nodes) /\ ds.evicted \in Seq(Pods) /\ ds.left \in Nat
  BY <1>1, FieldsOf
<1>4. /\ n \in Nodes /\ rest \in Seq(Nodes)
      /\ \A j, k \in DOMAIN rest : rest[j] = rest[k] => j = k
      /\ \A k \in DOMAIN rest : rest[k] # n /\ \E j \in DOMAIN ds.todo : rest[k] = ds.todo[j]
      /\ \A q \in Waiting(ds) : ds.held[q].node # n
  <2>1. /\ n \in Nodes /\ rest \in Seq(Nodes) /\ 1 \in DOMAIN ds.todo /\ ds.todo[1] = n
        /\ \A j, k \in DOMAIN rest : rest[j] = rest[k] => j = k
        /\ \A k \in DOMAIN rest : rest[k] # n /\ \E j \in DOMAIN ds.todo : rest[k] = ds.todo[j]
    BY <1>2, <1>3, HeadTail
  <2> QED
    BY <1>2, <2>1
<1>5. ds.pods[n] = OnAs(ds.held, n) /\ OnAs(ds.held, n) \in SUBSET Pods /\ Held(ds.held)
  <2>1. ds.pods = [m \in Nodes |-> OnAs(ds.held, m)] /\ Held(ds.held)
    BY <1>1 DEF Reading
  <2> QED
    BY <1>4, <2>1, OnAsIs
<1>6. /\ ds'.pc = "evict" /\ ds'.runs = ds.runs /\ ds'.policy = ds.policy /\ ds'.left = left
      /\ ds'.todo = rest /\ ds'.queue = <<>> /\ ds'.res = ds.res /\ ds'.held = ds.held
      /\ ds'.pods = ds.pods /\ ds'.evicted = evicted /\ ds'.failed = ds.failed
      /\ ds' = [pc |-> ds.pc, runs |-> ds.runs, policy |-> ds.policy, left |-> left,
                todo |-> rest, queue |-> ds.queue, res |-> ds.res, held |-> ds.held,
                pods |-> ds.pods, evicted |-> evicted, failed |-> ds.failed]
  <2>1. ds' = [ds EXCEPT !.todo = rest, !.evicted = evicted, !.left = left]
    <3>1. CASE p = 0
      <4>1. ds' = [ds EXCEPT !.todo = rest] /\ evicted = ds.evicted /\ left = ds.left
        BY <3>1
      <4> HIDE DEF rest, evicted, left
      <4> QED
        BY <1>1, <4>1 DEF DsTyped
    <3>2. CASE p # 0
      BY <3>2
    <3> QED
      BY <3>1, <3>2
  <2> HIDE DEF rest, evicted, left
  <2> QED
    BY <1>1, <1>2, <2>1 DEF DsTyped
<1>7. p # 0 => placed' = [placed EXCEPT ![p] = Nowhere] /\ p \in OnAs(ds.held, n)
  BY <1>5 DEF Evict
<1>8. p = 0 => placed' = placed
  OBVIOUS
<1>9. /\ p = 0 => evicted = ds.evicted /\ left = ds.left
      /\ p # 0 => evicted = Append(ds.evicted, p) /\ left = ds.left - 1
  OBVIOUS
<1> HIDE DEF rest, evicted, left, n
<1>10. /\ Held(placed') /\ Counted(placed', ds') /\ evicted \in Seq(Pods)
       /\ Waiting(ds') = IF p = 0 THEN Waiting(ds) ELSE Waiting(ds) \cup {p}
       /\ placed' = [q \in Pods |-> IF q \in Waiting(ds') THEN Nowhere ELSE ds'.held[q]]
       /\ \A q \in Waiting(ds') : ds'.held[q] # Nowhere
       /\ \A q, r \in Waiting(ds') : ds'.held[q].node = ds'.held[r].node => q = r
  <2>1. CASE p = 0
    <3>1. placed' = placed /\ evicted = ds.evicted /\ left = ds.left
      BY <1>8, <1>9, <2>1
    <3>2. Waiting(ds') = Waiting(ds)
      BY <1>6, <3>1 DEF Waiting
    <3>3. Counted(placed', ds')
      <4>1. Seated(ds') = Seated(ds)
        BY <1>6 DEF Seated
      <4> QED
        BY <1>1, <1>6, <3>1, <3>2, <4>1 DEF Counted
    <3>4. placed = [q \in Pods |-> IF q \in Waiting(ds) THEN Nowhere ELSE ds.held[q]]
      BY <1>1 DEF Reading
    <3>5. placed' = [q \in Pods |-> IF q \in Waiting(ds') THEN Nowhere ELSE ds'.held[q]]
      BY <1>6, <3>1, <3>2, <3>4
    <3>6. \A q \in Waiting(ds) : ds.held[q] # Nowhere
      BY <1>1 DEF Reading
    <3>7. \A q, r \in Waiting(ds) : ds.held[q].node = ds.held[r].node => q = r
      BY <1>1 DEF Once
    <3> QED
      BY <1>1, <1>3, <1>6, <2>1, <3>1, <3>2, <3>3, <3>5, <3>6, <3>7
  <2>2. CASE p # 0
    <3>1. /\ placed' = [placed EXCEPT ![p] = Nowhere] /\ p \in OnAs(ds.held, n)
          /\ ds'.evicted = Append(ds.evicted, p) /\ ds'.left = ds.left - 1
      BY <1>6, <1>7, <1>9, <2>2
    <3>2. \A q \in Waiting(ds) : ds.held[q].node # n
      BY <1>4
    <3>3. /\ Held(placed') /\ Counted(placed', ds') /\ p \in Pods /\ ds'.evicted \in Seq(Pods)
          /\ Waiting(ds') = Waiting(ds) \cup {p}
          /\ placed' = [q \in Pods |-> IF q \in Waiting(ds') THEN Nowhere ELSE ds'.held[q]]
          /\ \A q \in Waiting(ds') : ds'.held[q] # Nowhere
          /\ \A q, r \in Waiting(ds') : ds'.held[q].node = ds'.held[r].node => q = r
      <4> DEFINE d2 == ds'
                 pl2 == placed'
      <4>1. Evicts(placed, ds, pl2, d2, n, p)
        BY <1>1, <1>4, <1>6, <3>1, <3>2 DEF Evicts
      <4> HIDE DEF d2, pl2
      <4>2. /\ Held(pl2) /\ Counted(pl2, d2) /\ p \in Pods /\ d2.evicted \in Seq(Pods)
            /\ Waiting(d2) = Waiting(ds) \cup {p}
            /\ pl2 = [q \in Pods |-> IF q \in Waiting(d2) THEN Nowhere ELSE d2.held[q]]
            /\ \A q \in Waiting(d2) : d2.held[q] # Nowhere
            /\ \A q, r \in Waiting(d2) : d2.held[q].node = d2.held[r].node => q = r
        BY <4>1, Evicted
      <4> QED
        BY <4>2 DEF d2, pl2
    <3> QED
      BY <1>6, <2>2, <3>3
  <2> QED
    BY <2>1, <2>2
<1>11. left \in Nat
  BY <1>3, <1>9
<1>12. DsTyped(ds')
  <2>1. /\ ds.pc \in {"idle", "evict", "schedule"} /\ ds.runs \in Nat /\ ds.policy \in {""} \cup Policies
        /\ ds.queue \in Seq(Items) /\ ds.failed \in SUBSET Pods
        /\ ds.res \in { <<>> } \cup [Nodes -> Keyed] /\ ds.held \in { <<>> } \cup [Pods -> Place]
        /\ ds.pods \in { <<>> } \cup [Nodes -> SUBSET Pods]
    BY <1>1, FieldsOf
  <2> DEFINE d2 == ds'
  <2>2. d2 = [pc |-> ds.pc, runs |-> ds.runs, policy |-> ds.policy, left |-> left,
              todo |-> rest, queue |-> ds.queue, res |-> ds.res, held |-> ds.held,
              pods |-> ds.pods, evicted |-> evicted, failed |-> ds.failed]
    BY <1>6
  <2> HIDE DEF d2
  <2>3. DsTyped(d2)
    BY <1>4, <1>10, <1>11, <2>1, <2>2 DEF DsTyped
  <2> QED
    BY <2>3 DEF d2
<1>13. \A m : ReadOf(ds', m) = ReadOf(ds, m)
  BY <1>6 DEF ReadOf
<1>14. Reading(placed', ds')
  <2>1. /\ ds.policy \in Policies /\ ds.res = [m \in Nodes |-> ReadOf(ds, m)]
        /\ ds.pods = [m \in Nodes |-> OnAs(ds.held, m)]
    BY <1>1 DEF Reading
  <2>2. ds'.res = [m \in Nodes |-> ReadOf(ds', m)]
    BY <1>6, <1>13, <2>1
  <2>3. ds'.pods = [m \in Nodes |-> IF ds'.policy = "fragMultiPod" THEN OnAs(ds'.held, m) \ Waiting(ds')
                                    ELSE OnAs(ds'.held, m)]
    BY <1>6, <2>1
  <2> QED
    BY <1>5, <1>6, <1>10, <2>1, <2>2, <2>3 DEF Reading
<1>15. Once(ds')
  <2>1. \A k \in DOMAIN rest : \A q \in Waiting(ds') : ds.held[q].node # rest[k]
    <3> SUFFICES ASSUME NEW k \in DOMAIN rest, NEW q \in Waiting(ds') PROVE ds.held[q].node # rest[k]
      OBVIOUS
    <3>1. CASE q \in Waiting(ds)
      BY <1>2, <1>4, <3>1
    <3>2. CASE q \notin Waiting(ds)
      <4>1. p # 0 /\ q = p
        BY <1>10, <3>2
      <4>2. ds.held[q].node = n
        BY <1>7, <4>1 DEF OnAs
      <4> QED
        BY <1>4, <4>2
    <3> QED
      BY <3>1, <3>2
  <2> QED
    BY <1>4, <1>6, <1>10, <2>1 DEF Once
<1>16. Queued(ds', typical)
  <2>1. ds'.queue = <<>> /\ Len(<<>>) = 0 /\ 1 .. 0 = {}
    BY <1>6
  <2>2. <<>> \in [1 .. 0 -> Justified(ds', typical)]
    BY <2>1
  <2>3. <<>> \in Queues(0, Justified(ds', typical)) /\ OrderedFrom(<<>>, 0, 1)
    BY <2>1, <2>2 DEF Queues, OrderedFrom
  <2> QED
    BY <2>1, <2>3 DEF Queued
<1>17. Known(memo', ds')
  BY <1>1, <1>6, <1>13 DEF Known
<1> QED
  BY <1>1, <1>10, <1>12, <1>14, <1>15, <1>16, <1>17 DEF DInv

LEMMA CosSimNodeInv ==
  ASSUME DInv(placed, typical, memo, ds), CosSimNode
  PROVE  DInv(placed, typical, memo, ds)'
<1> DEFINE n == Head(ds.todo)
<1>1. /\ ds.pc = "evict" /\ ds.policy = "cosSim" /\ ds.left > 0 /\ ds.todo # <<>>
      /\ typical' = typical /\ memo' = memo
  BY DEF CosSimNode
<1>2. PICK p \in IF Crowded(ds.res[n]) THEN CosVictims(ds.res[n], ds.pods[n]) ELSE {0} :
        IF p = 0
        THEN /\ ds' = [ds EXCEPT !.todo = Tail(@)]
             /\ UNCHANGED placed
        ELSE /\ Evict(p)
             /\ ds' = [ds EXCEPT !.todo = Tail(@), !.evicted = Append(@, p), !.left = @ - 1]
  BY DEF CosSimNode
<1>3. \A node, S : CosVictims(node, S) \subseteq S \cup {0}
  BY DEF CosVictims, Candidates
<1>4. p \in ds.pods[n] \cup {0}
  BY <1>2, <1>3
<1>5. MemoFor(memo', typical) /\ DOMAIN memo \subseteq DOMAIN memo'
  BY <1>1 DEF DInv
<1> QED
  BY <1>1, <1>2, <1>4, <1>5, NextNode

\* How much the fragmentation of node n falls from a priority when p leaves.
Gain(priority, d, n, p, ty) == (priority - Score(Left(d, n, p), ty)) \div SumFunction(ty)

(***************************************************************************)
(* What findVictimPodOnNodeFragAware finds: the pods of the node are       *)
(* compared by what they would leave, from the memo.                       *)
(***************************************************************************)
LEMMA VictimIs ==
  ASSUME DInv(placed, typical, memo, ds), ds.pc = "evict", NEW n \in Nodes, NEW priority \in Int,
         NEW victim, victim = FragVictim(Asked(n), priority, Read(n), ds.pods[n])
  PROVE  /\ MemoFor(Asked(n), typical) /\ DOMAIN memo \subseteq DOMAIN Asked(n)
         /\ \A p \in ds.pods[n] : /\ Priority(Asked(n), Without(Read(n), p)) = Score(Left(ds, n, p), typical)
                                  /\ Score(Left(ds, n, p), typical) \in Int
         /\ victim # 0 => /\ victim \in ds.pods[n] /\ Gain(priority, ds, n, victim, typical) > 0
                          /\ \A q \in ds.pods[n] :
                               Gain(priority, ds, n, q, typical) <= Gain(priority, ds, n, victim, typical)
         /\ (\A q \in ds.pods[n] : Gain(priority, ds, n, q, typical) <= 0) => victim = 0
<1> DEFINE m == Asked(n)
           C == ds.pods[n]
           S == { Without(Read(n), p) : p \in C }
<1>1. DsTyped(ds) /\ Reading(placed, ds) /\ typical \in Distributions
  BY DEF DInv
<1>2. /\ Read(n) \in Keyed /\ C \in SUBSET OnAs(ds.held, n) /\ OnAs(ds.held, n) \in SUBSET Pods
      /\ Candidates(Read(n), C) = C
      /\ \A p \in OnAs(ds.held, n) : Without(Read(n), p) = Left(ds, n, p) /\ Left(ds, n, p) \in Keyed
  BY <1>1, ReadGives
<1>3. S \in SUBSET Keyed /\ m = Remember(S)
  BY <1>2 DEF Asked
<1>4. /\ MemoFor(m, typical) /\ DOMAIN memo \subseteq DOMAIN m
      /\ \A x \in S : Priority(m, x) = Score(x, typical)
  <2> HIDE DEF S, m
  <2> QED
    BY <1>3, MemoAfter
<1>5. \A p \in C : /\ Priority(m, Without(Read(n), p)) = Score(Left(ds, n, p), typical)
                   /\ Score(Left(ds, n, p), typical) \in Int
  <2> TAKE p \in C
  <2>1. Without(Read(n), p) = Left(ds, n, p) /\ Left(ds, n, p) \in Keyed
    BY <1>2
  <2>2. Without(Read(n), p) \in S
    OBVIOUS
  <2> HIDE DEF S, m, C
  <2>3. Priority(m, Without(Read(n), p)) = Score(Without(Read(n), p), typical)
    BY <1>4, <2>2
  <2>4. Score(Left(ds, n, p), typical) \in Int
    BY <1>1, <2>1, TypicalIs
  <2> QED
    BY <2>1, <2>3, <2>4
<1> HIDE DEF m, C, S
<1>6. \A p \in C : /\ Relief(m, priority, Read(n), p) = Gain(priority, ds, n, p, typical)
                   /\ Gain(priority, ds, n, p, typical) \in Int
  <2> TAKE p \in C
  <2>1. Relief(m, priority, Read(n), p) = Gain(priority, ds, n, p, typical)
    BY <1>5 DEF Relief, Gain, Weight
  <2>2. priority - Score(Left(ds, n, p), typical) \in Int /\ SumFunction(typical) \in Nat \ {0}
    BY <1>1, <1>5, TypicalIs
  <2>3. Gain(priority, ds, n, p, typical) \in Int
    BY <2>2, DivIs DEF Gain
  <2> QED
    BY <2>1, <2>3
<1>7. IsFiniteSet(C) /\ \A p \in C : p \in Nat \ {0}
  <2>1. C \in SUBSET Pods
    BY <1>2
  <2> QED
    BY <2>1, DescheduleAssumption, FS_Subset
<1>8. /\ IsFiniteSet(Candidates(Read(n), C))
      /\ \A p \in Candidates(Read(n), C) : p \in Nat \ {0} /\ Relief(m, priority, Read(n), p) \in Int
  BY <1>2, <1>6, <1>7
<1>9. victim = FragVictim(m, priority, Read(n), C)
  BY DEF m, C
<1>10. /\ victim # 0 => /\ victim \in Candidates(Read(n), C) /\ Relief(m, priority, Read(n), victim) > 0
                        /\ \A q \in Candidates(Read(n), C) :
                             Relief(m, priority, Read(n), q) <= Relief(m, priority, Read(n), victim)
       /\ (\A q \in Candidates(Read(n), C) : Relief(m, priority, Read(n), q) <= 0) => victim = 0
  BY <1>8, <1>9, VictimBest
<1>11. /\ victim # 0 => /\ victim \in C /\ Gain(priority, ds, n, victim, typical) > 0
                        /\ \A q \in C : Gain(priority, ds, n, q, typical) <= Gain(priority, ds, n, victim, typical)
       /\ (\A q \in C : Gain(priority, ds, n, q, typical) <= 0) => victim = 0
  BY <1>2, <1>6, <1>10
<1> QED
  BY <1>4, <1>5, <1>11 DEF m, C

\* The priority of a node is that of what was read of it.
LEMMA ReadRemembered ==
  ASSUME DInv(placed, typical, memo, ds), ds.pc = "evict", ds.policy # "cosSim", NEW n \in Nodes
  PROVE  /\ MemoFor(Asked(n), typical) /\ DOMAIN memo \subseteq DOMAIN Asked(n)
         /\ Priority(Asked(n), Read(n)) = Score(ReadOf(ds, n), typical) /\ Read(n) = ReadOf(ds, n)
         /\ Score(ReadOf(ds, n), typical) \in Int
<1>1. DsTyped(ds) /\ Reading(placed, ds) /\ typical \in Distributions /\ Known(memo, ds)
  BY DEF DInv
<1>2. Read(n) = ReadOf(ds, n) /\ Read(n) \in Keyed
  BY <1>1, ReadGives
<1>3. Flatten(Read(n)) \in DOMAIN memo
  BY <1>1, <1>2 DEF Known
<1>4. MemoFor(Asked(n), typical) /\ DOMAIN memo \subseteq DOMAIN Asked(n)
  <2> DEFINE zero == 0
             v == FragVictim(Asked(n), zero, Read(n), ds.pods[n])
  <2>1. v = FragVictim(Asked(n), zero, Read(n), ds.pods[n]) /\ zero \in Int
    OBVIOUS
  <2> HIDE DEF v, zero
  <2> QED
    BY <2>1, VictimIs
<1>5. Asked(n)[Flatten(Read(n))] = NodeGpuShareFragAmount(Read(n), typical)
  BY <1>2, <1>3, <1>4 DEF MemoFor
<1>6. Priority(Asked(n), Read(n)) = Score(Read(n), typical)
  BY <1>5 DEF Priority, NodeGpuFragAmount, Score
<1>7. Score(Read(n), typical) \in Int
  BY <1>1, <1>2, TypicalIs
<1> QED
  BY <1>2, <1>4, <1>6, <1>7

LEMMA FragOnePodInv ==
  ASSUME DInv(placed, typical, memo, ds), FragOnePod
  PROVE  DInv(placed, typical, memo, ds)'
<1> DEFINE n == Head(ds.todo)
           victim == FragVictim(memo', Priority(memo', Read(n)), Read(n), ds.pods[n])
<1>1. /\ ds.pc = "evict" /\ ds.policy = "fragOnePod" /\ ds.left > 0 /\ ds.todo # <<>>
      /\ typical' = typical /\ memo' = Asked(n)
  BY DEF FragOnePod
<1>2. IF victim = 0
      THEN /\ ds' = [ds EXCEPT !.todo = Tail(@)]
           /\ UNCHANGED placed
      ELSE /\ Evict(victim)
           /\ ds' = [ds EXCEPT !.todo = Tail(@), !.evicted = Append(@, victim), !.left = @ - 1]
  BY DEF FragOnePod
<1>3. n \in Nodes
  <2>1. DsTyped(ds) /\ Once(ds)
    BY DEF DInv
  <2>2. ds.todo \in Seq(Nodes) /\ \A j, k \in DOMAIN ds.todo : ds.todo[j] = ds.todo[k] => j = k
    BY <1>1, <2>1, FieldsOf DEF Once
  <2> QED
    BY <1>1, <2>2, HeadTail
<1>4. /\ MemoFor(memo', typical) /\ DOMAIN memo \subseteq DOMAIN memo'
      /\ Priority(memo', Read(n)) = Score(Read(n), typical) /\ Score(Read(n), typical) \in Int
  BY <1>1, <1>3, ReadRemembered
<1>5. victim \in ds.pods[n] \cup {0}
  <2>1. victim = FragVictim(Asked(n), Priority(memo', Read(n)), Read(n), ds.pods[n])
    BY <1>1
  <2> HIDE DEF victim, n
  <2> QED
    BY <1>1, <1>3, <1>4, <2>1, VictimIs
<1> HIDE DEF victim
<1> QED
  BY <1>1, <1>2, <1>4, <1>5, NextNode

(***************************************************************************)
(* FragMultiPod: the first node of the queue is looked at.  If a pod       *)
(* leaves it then the node was as it was read, because from a node that    *)
(* went back no pod brings relief; and what goes back now is such a node.  *)
(***************************************************************************)
LEMMA QueueHead ==
  ASSUME DInv(placed, typical, memo, ds), FragMultiPod,
         NEW item, item = Head(ds.queue), NEW n, n = item.node, NEW L, L = Len(ds.queue)
  PROVE  /\ L \in Nat \ {0} /\ ds.queue \in Queues(L, Justified(ds, typical)) /\ OrderedFrom(ds.queue, L, 1)
         /\ item = ds.queue[1] /\ item \in Justified(ds, typical) /\ n \in Nodes /\ item.priority \in Int
         /\ PopRest(ds.queue) \in Queues(L - 1, { x \in Justified(ds, typical) : x.node # n })
         /\ OrderedFrom(PopRest(ds.queue), L - 1, 1)
<1> DEFINE J == Justified(ds, typical)
<1>1. ds.pc = "evict" /\ ds.queue # <<>>
  BY DEF FragMultiPod
<1>2. DsTyped(ds) /\ ds.queue \in Queues(L, J) /\ OrderedFrom(ds.queue, L, 1)
  BY <1>1 DEF DInv, Queued
<1>3. ds.queue \in Seq(Items)
  BY <1>2, FieldsOf
<1>4. L \in Nat \ {0} /\ item = ds.queue[1]
  BY <1>1, <1>3
<1>5. J \in SUBSET Items
  BY DEF Justified
<1> HIDE DEF J
<1>6. item \in J /\ n \in Nodes /\ item.priority \in Int
  <2>1. 1 \in 1 .. L
    BY <1>4
  <2> QED
    BY <1>2, <1>4, <1>5, <2>1, QueueIs
<1>7. /\ PopRest(ds.queue) \in Queues(L - 1, { x \in J : x.node # n })
      /\ OrderedFrom(PopRest(ds.queue), L - 1, 1)
  BY <1>2, <1>4, <1>5, PopOrders
<1> QED
  BY <1>2, <1>4, <1>6, <1>7 DEF J

LEMMA FragMultiPodInv ==
  ASSUME DInv(placed, typical, memo, ds), FragMultiPod
  PROVE  DInv(placed, typical, memo, ds)'
<1> DEFINE item == Head(ds.queue)
           n == item.node
           L == Len(ds.queue)
           J == Justified(ds, typical)
           K == Justified(ds', typical)
           p == FragVictim(memo', item.priority, Read(n), ds.pods[n])
           priority == Priority(memo', Without(Read(n), p))
           back == [node |-> n, priority |-> priority]
           queue == IF p = 0 THEN PopRest(ds.queue) ELSE Push(PopRest(ds.queue), back)
           pods == IF p = 0 THEN ds.pods ELSE [ds.pods EXCEPT ![n] = @ \ {p}]
           evicted == IF p = 0 THEN ds.evicted ELSE Append(ds.evicted, p)
           left == IF p = 0 THEN ds.left ELSE ds.left - 1
<1>1. /\ ds.pc = "evict" /\ ds.policy = "fragMultiPod" /\ ds.left > 0
      /\ typical' = typical /\ memo' = Asked(n)
  BY DEF FragMultiPod
<1>2. /\ Held(placed) /\ typical \in Distributions
      /\ DsTyped(ds) /\ Counted(placed, ds) /\ Reading(placed, ds) /\ Once(ds) /\ Known(memo, ds)
  BY DEF DInv
<1>3. IF p = 0
      THEN /\ ds' = [ds EXCEPT !.queue = PopRest(ds.queue)]
           /\ UNCHANGED placed
      ELSE /\ Evict(p)
           /\ ds' = [ds EXCEPT !.queue = Push(PopRest(ds.queue), back),
                               !.pods = RemovePodFromPodSlice(@, n, p),
                               !.evicted = Append(@, p), !.left = @ - 1]
  BY DEF FragMultiPod, AfterPop
<1>4. /\ L \in Nat \ {0} /\ item \in J /\ n \in Nodes /\ item.priority \in Int
      /\ PopRest(ds.queue) \in Queues(L - 1, { x \in J : x.node # n })
      /\ OrderedFrom(PopRest(ds.queue), L - 1, 1)
  <2>1. item = Head(ds.queue) /\ n = item.node /\ L = Len(ds.queue)
    OBVIOUS
  <2> HIDE DEF item, n, L
  <2> QED
    BY <2>1, QueueHead
<1>5. /\ MemoFor(memo', typical) /\ DOMAIN memo \subseteq DOMAIN memo'
      /\ \A q \in ds.pods[n] : /\ Priority(memo', Without(Read(n), q)) = Score(Left(ds, n, q), typical)
                               /\ Score(Left(ds, n, q), typical) \in Int
      /\ p # 0 => /\ p \in ds.pods[n]
                  /\ \A q \in ds.pods[n] :
                       Gain(item.priority, ds, n, q, typical) <= Gain(item.priority, ds, n, p, typical)
      /\ (\A q \in ds.pods[n] : Gain(item.priority, ds, n, q, typical) <= 0) => p = 0
  <2>1. p = FragVictim(Asked(n), item.priority, Read(n), ds.pods[n])
    BY <1>1
  <2> HIDE DEF p, n, item
  <2> QED
    BY <1>1, <1>4, <2>1, VictimIs
<1>6. /\ ds.pods = [m \in Nodes |-> OnAs(ds.held, m) \ Waiting(ds)] /\ ds.policy \in Policies
      /\ ds.res = [m \in Nodes |-> ReadOf(ds, m)] /\ Held(ds.held)
  BY <1>1, <1>2 DEF Reading
<1>7. /\ ds'.pc = "evict" /\ ds'.runs = ds.runs /\ ds'.policy = "fragMultiPod" /\ ds'.left = left
      /\ ds'.todo = ds.todo /\ ds'.queue = queue /\ ds'.res = ds.res /\ ds'.held = ds.held
      /\ ds'.pods = pods /\ ds'.evicted = evicted /\ ds'.failed = ds.failed
      /\ ds' = [pc |-> ds.pc, runs |-> ds.runs, policy |-> ds.policy, left |-> left,
                todo |-> ds.todo, queue |-> queue, res |-> ds.res, held |-> ds.held,
                pods |-> pods, evicted |-> evicted, failed |-> ds.failed]
  <2>1. ds' = [ds EXCEPT !.queue = queue, !.pods = pods, !.evicted = evicted, !.left = left]
    <3>1. CASE p = 0
      <4>1. /\ ds' = [ds EXCEPT !.queue = queue]
            /\ pods = ds.pods /\ evicted = ds.evicted /\ left = ds.left
        BY <1>3, <3>1
      <4> HIDE DEF queue, pods, evicted, left
      <4> QED
        BY <1>2, <4>1 DEF DsTyped
    <3>2. CASE p # 0
      <4>1. /\ ds' = [ds EXCEPT !.queue = Push(PopRest(ds.queue), back),
                                !.pods = RemovePodFromPodSlice(ds.pods, n, p),
                                !.evicted = Append(ds.evicted, p), !.left = ds.left - 1]
        BY <1>3, <3>2
      <4>2. /\ queue = Push(PopRest(ds.queue), back) /\ pods = RemovePodFromPodSlice(ds.pods, n, p)
            /\ evicted = Append(ds.evicted, p) /\ left = ds.left - 1
        BY <3>2 DEF RemovePodFromPodSlice
      <4> HIDE DEF queue, pods, evicted, left
      <4> QED
        BY <4>1, <4>2
    <3> QED
      BY <3>1, <3>2
  <2> HIDE DEF queue, pods, evicted, left
  <2> QED
    BY <1>1, <1>2, <2>1 DEF DsTyped
<1>8. ds.evicted \in Seq(Pods) /\ ds.left \in Nat /\ ds.todo = <<>> /\ ds.todo \in Seq(Nodes)
  BY <1>1, <1>2, FieldsOf DEF Once
<1>9. /\ p = 0 => evicted = ds.evicted /\ left = ds.left /\ pods = ds.pods /\ queue = PopRest(ds.queue)
                  /\ placed' = placed
      /\ p # 0 => evicted = Append(ds.evicted, p) /\ left = ds.left - 1 /\ pods = [ds.pods EXCEPT ![n] = @ \ {p}]
                  /\ queue = Push(PopRest(ds.queue), back) /\ placed' = [placed EXCEPT ![p] = Nowhere]
  BY <1>3 DEF Evict
<1>10. back = [node |-> n, priority |-> priority] /\ (p # 0 => priority = Score(Left(ds, n, p), typical))
  BY <1>5
<1>11. \A x \in J : \/ x.priority = Score(ReadOf(ds, x.node), typical)
                       /\ \A q \in Waiting(ds) : ds.held[q].node # x.node
                    \/ \A q \in OnAs(ds.held, x.node) : Gain(x.priority, ds, x.node, q, typical) <= 0
  BY DEF Justified, Gain
<1>12. \A x \in Items :
         \/ x.priority = Score(ReadOf(ds', x.node), typical)
            /\ \A q \in Waiting(ds') : ds'.held[q].node # x.node
         \/ \A q \in OnAs(ds'.held, x.node) : Gain(x.priority, ds', x.node, q, typical) <= 0
         => x \in K
  BY <1>1 DEF Justified, Gain
<1>13. J \in SUBSET Items /\ K \in SUBSET Items
  BY DEF Justified
<1> HIDE DEF left, evicted, pods, queue, back, priority, p, J, K, L, n, item
<1>14. \A m, q : ReadOf(ds', m) = ReadOf(ds, m) /\ \A r : Gain(r, ds', m, q, typical) = Gain(r, ds, m, q, typical)
  BY <1>7 DEF ReadOf, Gain, Left
<1>15. ASSUME p # 0
       PROVE  /\ \A q \in Waiting(ds) : ds.held[q].node # n
              /\ ds.pods[n] = OnAs(ds.held, n) /\ p \in OnAs(ds.held, n)
  <2>1. ds.pods[n] \in SUBSET OnAs(ds.held, n)
    BY <1>4, <1>6
  <2>2. ~\A q \in OnAs(ds.held, n) : Gain(item.priority, ds, n, q, typical) <= 0
    BY <1>5, <1>15, <2>1
  <2>3. \A q \in Waiting(ds) : ds.held[q].node # n
    BY <1>4, <1>11, <2>2 DEF n
  <2>4. \A q \in OnAs(ds.held, n) : q \notin Waiting(ds)
    BY <2>3 DEF OnAs
  <2>5. ds.pods[n] = OnAs(ds.held, n)
    BY <1>4, <1>6, <2>4
  <2> QED
    BY <1>5, <1>15, <2>3, <2>5
<1>16. /\ Held(placed') /\ Counted(placed', ds') /\ evicted \in Seq(Pods)
       /\ Waiting(ds') = IF p = 0 THEN Waiting(ds) ELSE Waiting(ds) \cup {p}
       /\ placed' = [q \in Pods |-> IF q \in Waiting(ds') THEN Nowhere ELSE ds'.held[q]]
       /\ \A q \in Waiting(ds') : ds'.held[q] # Nowhere
       /\ \A q, r \in Waiting(ds') : ds'.held[q].node = ds'.held[r].node => q = r
  <2>1. CASE p = 0
    <3>1. placed' = placed /\ ds'.evicted = ds.evicted /\ ds'.left = ds.left
      BY <1>7, <1>9, <2>1
    <3>2. Waiting(ds') = Waiting(ds)
      BY <3>1 DEF Waiting
    <3>3. Counted(placed', ds')
      <4>1. Seated(ds') = Seated(ds)
        BY <1>7 DEF Seated
      <4> QED
        BY <1>1, <1>2, <1>7, <3>1, <3>2, <4>1 DEF Counted
    <3>4. placed = [q \in Pods |-> IF q \in Waiting(ds) THEN Nowhere ELSE ds.held[q]]
      BY <1>1, <1>2 DEF Reading
    <3>5. placed' = [q \in Pods |-> IF q \in Waiting(ds') THEN Nowhere ELSE ds'.held[q]]
      BY <1>7, <3>1, <3>2, <3>4
    <3>6. \A q \in Waiting(ds) : ds.held[q] # Nowhere
      BY <1>1, <1>2 DEF Reading
    <3>7. \A q, r \in Waiting(ds) : ds.held[q].node = ds.held[r].node => q = r
      BY <1>1, <1>2 DEF Once
    <3> QED
      BY <1>2, <1>7, <1>8, <1>9, <2>1, <3>1, <3>2, <3>3, <3>5, <3>6, <3>7
  <2>2. CASE p # 0
    <3> DEFINE d2 == ds'
               pl2 == placed'
    <3>1. Evicts(placed, ds, pl2, d2, n, p)
      BY <1>1, <1>2, <1>4, <1>7, <1>9, <1>15, <2>2 DEF Evicts
    <3> HIDE DEF d2, pl2
    <3>2. /\ Held(pl2) /\ Counted(pl2, d2) /\ p \in Pods /\ d2.evicted \in Seq(Pods)
          /\ Waiting(d2) = Waiting(ds) \cup {p}
          /\ pl2 = [q \in Pods |-> IF q \in Waiting(d2) THEN Nowhere ELSE d2.held[q]]
          /\ \A q \in Waiting(d2) : d2.held[q] # Nowhere
          /\ \A q, r \in Waiting(d2) : d2.held[q].node = d2.held[r].node => q = r
      BY <3>1, Evicted
    <3>3. /\ Held(placed') /\ Counted(placed', ds') /\ p \in Pods /\ ds'.evicted \in Seq(Pods)
          /\ Waiting(ds') = Waiting(ds) \cup {p}
          /\ placed' = [q \in Pods |-> IF q \in Waiting(ds') THEN Nowhere ELSE ds'.held[q]]
          /\ \A q \in Waiting(ds') : ds'.held[q] # Nowhere
          /\ \A q, r \in Waiting(ds') : ds'.held[q].node = ds'.held[r].node => q = r
      BY <3>2 DEF d2, pl2
    <3> QED
      BY <1>7, <2>2, <3>3
  <2> QED
    BY <2>1, <2>2
<1>17. J \ { x \in J : x.node = n } \in SUBSET K
  <2> SUFFICES ASSUME NEW x \in J, x.node # n PROVE x \in K
    OBVIOUS
  <2>1. x \in Items
    BY <1>13
  <2>2. CASE /\ x.priority = Score(ReadOf(ds, x.node), typical)
             /\ \A q \in Waiting(ds) : ds.held[q].node # x.node
    <3>1. p # 0 => ds.held[p].node = n
      BY <1>15 DEF OnAs
    <3>2. \A q \in Waiting(ds') : ds'.held[q].node # x.node
      BY <1>7, <1>16, <2>2, <3>1
    <3>3. x.priority = Score(ReadOf(ds', x.node), typical)
      BY <1>14, <2>2
    <3> QED
      BY <1>12, <2>1, <3>2, <3>3
  <2>3. CASE \A q \in OnAs(ds.held, x.node) : Gain(x.priority, ds, x.node, q, typical) <= 0
    <3>1. \A q \in OnAs(ds'.held, x.node) : Gain(x.priority, ds', x.node, q, typical) <= 0
      BY <1>7, <1>14, <2>3
    <3> QED
      BY <1>12, <2>1, <3>1
  <2> QED
    BY <1>11, <2>2, <2>3
<1>18. /\ queue \in Queues(Len(queue), K) /\ OrderedFrom(queue, Len(queue), 1)
       /\ queue \in Seq(Items)
  <2> DEFINE rest == PopRest(ds.queue)
             M == { x \in J : x.node # n }
             l == L - 1
  <2>1. M \in SUBSET K /\ \A x \in M : x.node # n
    BY <1>17
  <2>2. rest \in Queues(l, M) /\ OrderedFrom(rest, l, 1) /\ l \in Nat
    BY <1>4
  <2> HIDE DEF rest, M, l
  <2>3. rest \in Queues(l, K) /\ \A k \in 1 .. l : rest[k].node # n
    BY <2>1, <2>2 DEF Queues
  <2>4. CASE p = 0
    <3>1. queue = rest
      BY <1>9, <2>4 DEF rest
    <3>2. Len(rest) = l /\ rest \in Seq(K)
      BY <1>13, <2>2, <2>3, QueueIs
    <3> QED
      BY <1>13, <2>2, <2>3, <3>1, <3>2
  <2>5. CASE p # 0
    <3>1. queue = Push(rest, back) /\ back.node = n /\ back.priority = Score(Left(ds, n, p), typical)
      BY <1>9, <1>10, <2>5 DEF rest
    <3>2. back \in Items
      BY <1>4, <1>5, <1>10, <1>15, <2>5 DEF Items
    <3>3. \A q \in OnAs(ds.held, n) : Gain(back.priority, ds, n, q, typical) <= 0
      <4> TAKE q \in OnAs(ds.held, n)
      <4> DEFINE x == item.priority - Score(Left(ds, n, q), typical)
                 y == item.priority - Score(Left(ds, n, p), typical)
                 z == back.priority - Score(Left(ds, n, q), typical)
                 d == SumFunction(typical)
      <4>1. x \in Int /\ y \in Int /\ z = x - y
        BY <1>4, <1>5, <1>15, <2>5, <3>1
      <4>2. d \in Nat \ {0}
        BY <1>2, TypicalIs
      <4>3. x \div d <= y \div d
        BY <1>5, <1>15, <2>5 DEF Gain
      <4>4. Gain(back.priority, ds, n, q, typical) = z \div d
        BY DEF Gain
      <4> HIDE DEF x, y, z, d
      <4>5. (x - y) \div d <= 0
        BY <4>1, <4>2, <4>3, BestLeaves
      <4> QED
        BY <4>1, <4>4, <4>5
    <3>4. back \in K
      <4>1. \A q \in OnAs(ds'.held, n) : Gain(back.priority, ds', n, q, typical) <= 0
        BY <1>7, <1>14, <3>3
      <4> QED
        BY <1>12, <3>1, <3>2, <4>1
    <3>5. queue \in Queues(l + 1, K) /\ OrderedFrom(queue, l + 1, 1)
      BY <1>13, <2>2, <2>3, <3>1, <3>4, PushOrders
    <3>6. Len(queue) = l + 1 /\ queue \in Seq(K)
      BY <1>13, <2>2, <3>5, QueueIs
    <3> QED
      BY <1>13, <3>5, <3>6
  <2> QED
    BY <2>4, <2>5
<1>19. Queued(ds', typical)
  BY <1>7, <1>18 DEF Queued, K
<1>20. left \in Nat
  BY <1>1, <1>8, <1>9
<1>21. /\ pods = [m \in Nodes |-> OnAs(ds'.held, m) \ Waiting(ds')]
       /\ pods \in [Nodes -> SUBSET Pods]
  <2>1. CASE p = 0
    <3>1. pods = ds.pods /\ Waiting(ds') = Waiting(ds)
      BY <1>9, <1>16, <2>1
    <3>2. \A m \in Nodes : OnAs(ds.held, m) \in SUBSET Pods
      BY DEF OnAs
    <3> QED
      BY <1>6, <1>7, <3>1, <3>2
  <2>2. CASE p # 0
    <3>1. pods = [ds.pods EXCEPT ![n] = @ \ {p}] /\ Waiting(ds') = Waiting(ds) \cup {p}
      BY <1>9, <1>16, <2>2
    <3>2. ds.held[p].node = n
      BY <1>15, <2>2 DEF OnAs
    <3>3. \A m \in Nodes : OnAs(ds.held, m) \in SUBSET Pods /\ (m # n => p \notin OnAs(ds.held, m))
      BY <3>2 DEF OnAs
    <3>4. \A m \in Nodes : pods[m] = OnAs(ds.held, m) \ (Waiting(ds) \cup {p})
      BY <1>4, <1>6, <3>1, <3>3
    <3>5. pods = [m \in Nodes |-> pods[m]]
      BY <1>6, <3>1
    <3>6. pods = [m \in Nodes |-> OnAs(ds.held, m) \ (Waiting(ds) \cup {p})]
      BY <3>4, <3>5
    <3>7. pods \in [Nodes -> SUBSET Pods]
      BY <3>3, <3>4, <3>5
    <3> QED
      BY <1>7, <3>1, <3>6, <3>7
  <2> QED
    BY <2>1, <2>2
<1>22. DsTyped(ds')
  <2>1. /\ ds.pc \in {"idle", "evict", "schedule"} /\ ds.runs \in Nat /\ ds.policy \in {""} \cup Policies
        /\ ds.failed \in SUBSET Pods
        /\ ds.res \in { <<>> } \cup [Nodes -> Keyed] /\ ds.held \in { <<>> } \cup [Pods -> Place]
    BY <1>2, FieldsOf
  <2> DEFINE d2 == ds'
  <2>2. d2 = [pc |-> ds.pc, runs |-> ds.runs, policy |-> ds.policy, left |-> left,
              todo |-> ds.todo, queue |-> queue, res |-> ds.res, held |-> ds.held,
              pods |-> pods, evicted |-> evicted, failed |-> ds.failed]
    BY <1>7
  <2> HIDE DEF d2
  <2>3. DsTyped(d2)
    BY <1>8, <1>16, <1>18, <1>20, <1>21, <2>1, <2>2 DEF DsTyped
  <2> QED
    BY <2>3 DEF d2
<1>23. Reading(placed', ds')
  <2>1. ds'.res = [m \in Nodes |-> ReadOf(ds', m)]
    BY <1>6, <1>7, <1>14
  <2>2. ds'.pods = [m \in Nodes |-> IF ds'.policy = "fragMultiPod" THEN OnAs(ds'.held, m) \ Waiting(ds')
                                    ELSE OnAs(ds'.held, m)]
    BY <1>7, <1>21
  <2>3. ds'.policy \in Policies /\ Held(ds'.held)
    BY <1>1, <1>6, <1>7
  <2> QED
    BY <1>16, <2>1, <2>2, <2>3 DEF Reading
<1>24. Once(ds')
  <2>1. ds'.todo = <<>> /\ DOMAIN <<>> = {}
    BY <1>7, <1>8
  <2> QED
    BY <1>7, <1>16, <2>1 DEF Once
<1>25. Known(memo', ds')
  BY <1>1, <1>2, <1>5, <1>14 DEF Known
<1> QED
  BY <1>1, <1>2, <1>5, <1>16, <1>19, <1>22, <1>23, <1>24, <1>25 DEF DInv

LEMMA PostEvictionInv ==
  ASSUME DInv(placed, typical, memo, ds), PostEviction
  PROVE  DInv(placed, typical, memo, ds)'
<1> DEFINE none == <<>>
           S == { NodeResourceMap[n] : n \in Nodes }
<1>1. /\ Held(placed) /\ typical \in Distributions /\ DsTyped(ds) /\ Counted(placed, ds)
  BY DEF DInv
<1>2. /\ typical' = typical /\ placed' = placed /\ memo' = Remember(S)
      /\ ds' = [ds EXCEPT !.pc = "schedule", !.left = 0, !.todo = none, !.queue = none, !.res = none,
                          !.held = none, !.pods = none]
  BY DEF PostEviction
<1>3. none \in Seq(Nodes) /\ none \in Seq(Items) /\ none \in { <<>> }
  OBVIOUS
<1>4. none = <<>>
  OBVIOUS
<1> HIDE DEF none
<1>5. /\ ds'.pc = "schedule" /\ ds'.left = 0 /\ ds'.queue = none /\ ds'.evicted = ds.evicted
      /\ ds'.failed = ds.failed
      /\ ds' = [pc |-> "schedule", runs |-> ds.runs, policy |-> ds.policy, left |-> 0, todo |-> none,
                queue |-> none, res |-> none, held |-> none, pods |-> none,
                evicted |-> ds.evicted, failed |-> ds.failed]
  BY <1>1, <1>2 DEF DsTyped
<1>6. S \in SUBSET Keyed
  <2>1. \A n \in Nodes : NodeResourceMap[n] \in Keyed
    <3> TAKE n \in Nodes
    <3>1. NodeResourceMap[n] = LoadedAs(placed, n, On(n)) /\ On(n) \in SUBSET Pods
      BY LoadedIs DEF NodeResourceMap, On
    <3> QED
      BY <3>1, LoadedKeyed
  <2> QED
    BY <2>1
<1> HIDE DEF S
<1>7. MemoFor(memo', typical)
  BY <1>2, <1>6, MemoAfter
<1>8. DsTyped(ds')
  <2>1. /\ ds.runs \in Nat /\ ds.policy \in {""} \cup Policies
        /\ ds.evicted \in Seq(Pods) /\ ds.failed \in SUBSET Pods
    BY <1>1, FieldsOf
  <2> DEFINE d2 == ds'
             zero == 0
  <2>2. d2 = [pc |-> "schedule", runs |-> ds.runs, policy |-> ds.policy, left |-> zero, todo |-> none,
              queue |-> none, res |-> none, held |-> none, pods |-> none,
              evicted |-> ds.evicted, failed |-> ds.failed]
    BY <1>5
  <2>3. zero \in Nat
    OBVIOUS
  <2> HIDE DEF d2, zero
  <2>4. DsTyped(d2)
    BY <1>3, <2>1, <2>2, <2>3 DEF DsTyped
  <2> QED
    BY <2>4 DEF d2
<1>9. Counted(placed', ds')
  <2>1. Waiting(ds') = Waiting(ds)
    BY <1>5 DEF Waiting
  <2>2. /\ \A j, k \in DOMAIN ds.evicted : ds.evicted[j] = ds.evicted[k] => j = k
        /\ \A p \in Waiting(ds) : placed[p] = Nowhere
        /\ \A p \in Pods : placed[p] # Nowhere \/ p \in Waiting(ds) \/ p \in ds.failed
    BY <1>1 DEF Counted
  <2>6. "schedule" # "idle" /\ "schedule" # "evict"
    OBVIOUS
  <2> QED
    BY <1>2, <1>4, <1>5, <2>1, <2>2, <2>6 DEF Counted
<1>10. Reading(placed', ds') /\ Once(ds') /\ Queued(ds', typical') /\ Known(memo', ds')
  BY <1>5 DEF Reading, Once, Queued, Known
<1> QED
  BY <1>1, <1>2, <1>7, <1>8, <1>9, <1>10 DEF DInv

(***************************************************************************)
(* The pod evicted first is scheduled, or joins those that failed.         *)
(***************************************************************************)
LEMMA RescheduleInv ==
  ASSUME DInv(placed, typical, memo, ds), Reschedule
  PROVE  DInv(placed, typical, memo, ds)'
<1> DEFINE p == Head(ds.evicted)
           rest == Tail(ds.evicted)
           failed == IF Places(p) = {} THEN ds.failed \cup {p} ELSE ds.failed
           S == { NodeResourceMap[n]' : n \in Nodes }
<1>1. /\ Held(placed) /\ typical \in Distributions /\ DsTyped(ds) /\ Counted(placed, ds)
  BY DEF DInv
<1>2. /\ ds.pc = "schedule" /\ ds.evicted # <<>> /\ typical' = typical /\ memo' = Remember(S)
  BY DEF Reschedule
<1>3. IF Places(p) = {}
      THEN /\ ds' = [ds EXCEPT !.evicted = rest, !.failed = @ \cup {p}]
           /\ placed' = placed
      ELSE /\ \E place \in Places(p) : placed' = [placed EXCEPT ![p] = place]
           /\ ds' = [ds EXCEPT !.evicted = rest]
  BY DEF Reschedule
<1>4. /\ ds.evicted \in Seq(Pods) /\ ds.failed \in SUBSET Pods /\ ds.left \in Nat
      /\ \A j, k \in DOMAIN ds.evicted : ds.evicted[j] = ds.evicted[k] => j = k
      /\ \A q \in Waiting(ds) : placed[q] = Nowhere
      /\ \A q \in Pods : placed[q] # Nowhere \/ q \in Waiting(ds) \/ q \in ds.failed
      /\ ds.queue = <<>>
  BY <1>1, <1>2, FieldsOf DEF Counted
<1>5. /\ p \in Pods /\ rest \in Seq(Pods) /\ 1 \in DOMAIN ds.evicted /\ ds.evicted[1] = p
      /\ \A j, k \in DOMAIN rest : rest[j] = rest[k] => j = k
      /\ \A k \in DOMAIN rest : rest[k] # p /\ \E j \in DOMAIN ds.evicted : rest[k] = ds.evicted[j]
      /\ \A k \in DOMAIN ds.evicted : ds.evicted[k] = p \/ \E j \in DOMAIN rest : ds.evicted[k] = rest[j]
      /\ Len(rest) = Len(ds.evicted) - 1
  BY <1>2, <1>4, HeadTail
<1>6. /\ ds'.pc = "schedule" /\ ds'.left = ds.left /\ ds'.queue = <<>> /\ ds'.evicted = rest /\ ds'.failed = failed
      /\ ds' = [pc |-> ds.pc, runs |-> ds.runs, policy |-> ds.policy, left |-> ds.left, todo |-> ds.todo,
                queue |-> ds.queue, res |-> ds.res, held |-> ds.held, pods |-> ds.pods,
                evicted |-> rest, failed |-> failed]
  <2>1. ds' = [ds EXCEPT !.evicted = rest, !.failed = failed]
    <3>1. CASE Places(p) = {}
      BY <1>3, <3>1
    <3>2. CASE Places(p) # {}
      <4>1. ds' = [ds EXCEPT !.evicted = rest] /\ failed = ds.failed
        BY <1>3, <3>2
      <4> HIDE DEF rest, failed, p
      <4> QED
        BY <1>1, <4>1 DEF DsTyped
    <3> QED
      BY <3>1, <3>2
  <2> HIDE DEF rest, failed, p
  <2> QED
    BY <1>1, <1>2, <1>4, <2>1 DEF DsTyped
<1>7. Places(p) = {} => p \in failed
  OBVIOUS
<1>8. \A place \in Places(p) : /\ place # Nowhere /\ place \in Place
                               /\ place.ids \subseteq DOMAIN NodeRes[place.node].gpu
                               /\ Cardinality(place.ids) = PodRes[p].num
  <2> SUFFICES ASSUME NEW place \in Places(p)
               PROVE  /\ place # Nowhere /\ place \in Place
                      /\ place.ids \subseteq DOMAIN NodeRes[place.node].gpu
                      /\ Cardinality(place.ids) = PodRes[p].num
    OBVIOUS
  <2>1. /\ place \in [node : Nodes, ids : SUBSET (1 .. MaxNumGpuPerNode)]
        /\ place.ids \subseteq DOMAIN Loaded(place.node, On(place.node)).gpu
        /\ Cardinality(place.ids) = PodRes[p].num
    BY DEF Places
  <2>2. place.node \in Nodes /\ 0 \notin Nodes
    BY <2>1, DescheduleAssumption
  <2>3. place # Nowhere
    BY <2>2 DEF Nowhere
  <2>4. DOMAIN Loaded(place.node, On(place.node)).gpu = DOMAIN NodeRes[place.node].gpu
    <3>1. NodeRes[place.node] \in NodeResources
      BY <2>2, DescheduleAssumption
    <3> QED
      BY <3>1 DEF Loaded, NodeResources
  <2> QED
    BY <2>1, <2>3, <2>4 DEF Place
<1>9. \/ Places(p) = {} /\ placed' = placed
      \/ \E place \in Places(p) : placed' = [placed EXCEPT ![p] = place]
  BY <1>3
<1>10. failed \in SUBSET Pods /\ ds.failed \subseteq failed
  BY <1>4, <1>5
<1> HIDE DEF p, rest, failed
<1>11. Held(placed') /\ (placed'[p] # Nowhere \/ p \in failed) /\ \A q \in Pods \ {p} : placed'[q] = placed[q]
  <2>1. CASE Places(p) = {} /\ placed' = placed
    BY <1>1, <1>7, <2>1
  <2>2. CASE \E place \in Places(p) : placed' = [placed EXCEPT ![p] = place]
    <3>1. PICK place \in Places(p) : placed' = [placed EXCEPT ![p] = place]
      BY <2>2
    <3>2. placed \in [Pods -> Place]
      BY <1>1 DEF Held
    <3>3. /\ placed' \in [Pods -> Place] /\ placed'[p] = place
          /\ \A q \in Pods \ {p} : placed'[q] = placed[q]
      BY <1>5, <1>8, <3>1, <3>2
    <3>4. Held(placed')
      <4>1. \A q \in Pods \ {p} : placed'[q] # Nowhere =>
              placed'[q].ids \subseteq DOMAIN NodeRes[placed'[q].node].gpu /\ Cardinality(placed'[q].ids) = PodRes[q].num
        BY <1>1, <3>3 DEF Held
      <4>2. /\ placed'[p].ids \subseteq DOMAIN NodeRes[placed'[p].node].gpu
            /\ Cardinality(placed'[p].ids) = PodRes[p].num
        BY <1>8, <3>3
      <4> QED
        BY <3>3, <4>1, <4>2 DEF Held
    <3> QED
      BY <1>8, <3>3, <3>4
  <2> QED
    BY <1>9, <2>1, <2>2
<1>12. Waiting(ds') = Waiting(ds) \ {p}
  <2>1. Waiting(ds') = { rest[k] : k \in DOMAIN rest }
    BY <1>6 DEF Waiting
  <2> DEFINE before == ds.evicted
  <2>2. Waiting(ds) = { before[k] : k \in DOMAIN before }
    BY DEF Waiting
  <2>3. /\ \A k \in DOMAIN rest : rest[k] # p /\ \E j \in DOMAIN before : rest[k] = before[j]
        /\ \A k \in DOMAIN before : before[k] = p \/ \E j \in DOMAIN rest : before[k] = rest[j]
    BY <1>5
  <2> HIDE DEF before
  <2> QED
    BY <2>1, <2>2, <2>3
<1>13. Counted(placed', ds')
  <2>1. \A q \in Waiting(ds') : placed'[q] = Nowhere
    <3>1. Waiting(ds) \subseteq Pods
      BY <1>4 DEF Waiting
    <3> QED
      BY <1>4, <1>11, <1>12, <3>1
  <2>2. \A q \in Pods : placed'[q] # Nowhere \/ q \in Waiting(ds') \/ q \in failed
    <3> TAKE q \in Pods
    <3>1. CASE q = p
      BY <1>11, <3>1
    <3>2. CASE q # p
      BY <1>4, <1>10, <1>11, <1>12, <3>2
    <3> QED
      BY <3>1, <3>2
  <2>3. "schedule" # "idle" /\ "schedule" # "evict"
    OBVIOUS
  <2> QED
    BY <1>5, <1>6, <2>1, <2>2, <2>3 DEF Counted
<1>14. DsTyped(ds')
  <2>1. /\ ds.pc \in {"idle", "evict", "schedule"} /\ ds.runs \in Nat /\ ds.policy \in {""} \cup Policies
        /\ ds.todo \in Seq(Nodes) /\ ds.queue \in Seq(Items) /\ ds.left \in Nat
        /\ ds.res \in { <<>> } \cup [Nodes -> Keyed] /\ ds.held \in { <<>> } \cup [Pods -> Place]
        /\ ds.pods \in { <<>> } \cup [Nodes -> SUBSET Pods]
    BY <1>1, FieldsOf
  <2> DEFINE d2 == ds'
  <2>2. d2 = [pc |-> ds.pc, runs |-> ds.runs, policy |-> ds.policy, left |-> ds.left, todo |-> ds.todo,
              queue |-> ds.queue, res |-> ds.res, held |-> ds.held, pods |-> ds.pods,
              evicted |-> rest, failed |-> failed]
    BY <1>6
  <2> HIDE DEF d2
  <2>3. DsTyped(d2)
    BY <1>5, <1>10, <2>1, <2>2 DEF DsTyped
  <2> QED
    BY <2>3 DEF d2
<1>15. S \in SUBSET Keyed
  <2>1. \A n \in Nodes : NodeResourceMap[n]' \in Keyed
    <3> TAKE n \in Nodes
    <3>1. NodeResourceMap[n]' = LoadedAs(placed', n, On(n)') /\ On(n)' \in SUBSET Pods
      <4>1. NodeResourceMap[n]' = Loaded(n, On(n))' /\ On(n)' \in SUBSET Pods
        BY DEF NodeResourceMap, On
      <4> QED
        BY <4>1, LoadedNext
    <3> QED
      BY <3>1, LoadedKeyed
  <2> QED
    BY <2>1
<1> HIDE DEF S
<1>16. MemoFor(memo', typical)
  BY <1>2, <1>15, MemoAfter
<1>17. Reading(placed', ds') /\ Once(ds') /\ Queued(ds', typical') /\ Known(memo', ds')
  BY <1>6 DEF Reading, Once, Queued, Known
<1> QED
  BY <1>1, <1>2, <1>11, <1>13, <1>14, <1>16, <1>17 DEF DInv

LEMMA ReturnInv ==
  ASSUME DInv(placed, typical, memo, ds), Return
  PROVE  DInv(placed, typical, memo, ds)'
<1>1. /\ Held(placed) /\ typical \in Distributions /\ MemoFor(memo, typical)
      /\ DsTyped(ds) /\ Counted(placed, ds)
  BY DEF DInv
<1>2. /\ ds.pc = "schedule" /\ ds.evicted = <<>> /\ ds' = [ds EXCEPT !.pc = "idle"]
      /\ placed' = placed /\ typical' = typical /\ memo' = memo
  BY DEF Return
<1>3. /\ ds'.pc = "idle" /\ ds'.left = ds.left /\ ds'.queue = ds.queue /\ ds'.evicted = ds.evicted
      /\ ds'.failed = ds.failed
      /\ ds' \in [pc : {"idle", "evict", "schedule"}, runs : Nat, policy : {""} \cup Policies, left : Nat,
                  todo : Seq(Nodes), queue : Seq(Items), res : { <<>> } \cup [Nodes -> Keyed],
                  held : { <<>> } \cup [Pods -> Place], pods : { <<>> } \cup [Nodes -> SUBSET Pods],
                  evicted : Seq(Pods), failed : SUBSET Pods]
  BY <1>1, <1>2 DEF DsTyped
<1>4. Waiting(ds') = Waiting(ds)
  <2>1. ds'.evicted = ds.evicted
    BY <1>3
  <2> QED
    BY <2>1 DEF Waiting
<1>5. Counted(placed', ds')
  <2>1. ds.queue = <<>>
    BY <1>1, <1>2 DEF Counted
  <2> QED
    BY <1>1, <1>2, <1>3, <1>4, <2>1 DEF Counted
<1>6. Reading(placed', ds') /\ Once(ds') /\ Queued(ds', typical') /\ Known(memo', ds')
  BY <1>3 DEF Reading, Once, Queued, Known
<1> QED
  BY <1>1, <1>2, <1>3, <1>5, <1>6 DEF DInv, DsTyped

-----------------------------------------------------------------------------
(***************************************************************************)
(* What descheduling works with stays true while it runs: what it read is  *)
(* the cluster without the pods evicted since, no two of them from one     *)
(* node, the queue is a heap of nodes that have lost no pod or have none   *)
(* left to lose with profit, and the memo is of the typical pods at hand   *)
(* (DescheduleCluster and its three policies, deschedule.go).              *)
(***************************************************************************)
THEOREM DescheduleInvariant == Spec => []DInv(placed, typical, memo, ds)
<1>1. Init => DInv(placed, typical, memo, ds)
  BY InitInv
<1>2. DInv(placed, typical, memo, ds) /\ [Next]_vars => DInv(placed, typical, memo, ds)'
  <2> SUFFICES ASSUME DInv(placed, typical, memo, ds), [Next]_vars
               PROVE  DInv(placed, typical, memo, ds)'
    OBVIOUS
  <2>1. CASE \E policy \in Policies : Begin(policy)
    BY <2>1, BeginInv
  <2>2. CASE CosSimNode
    BY <2>2, CosSimNodeInv
  <2>3. CASE FragOnePod
    BY <2>3, FragOnePodInv
  <2>4. CASE FragMultiPod
    BY <2>4, FragMultiPodInv
  <2>5. CASE PostEviction
    BY <2>5, PostEvictionInv
  <2>6. CASE Reschedule
    BY <2>6, RescheduleInv
  <2>7. CASE Return
    BY <2>7, ReturnInv
  <2>8. CASE SetTypicalPods
    BY <2>8, SetTypicalPodsInv
  <2>9. CASE Done \/ UNCHANGED vars
    <3>1. placed' = placed /\ typical' = typical /\ memo' = memo /\ ds' = ds
      BY <2>9 DEF Done, vars
    <3> QED
      BY <3>1 DEF DInv
  <2> QED
    BY <2>1, <2>2, <2>3, <2>4, <2>5, <2>6, <2>7, <2>8, <2>9 DEF Next, Step
<1> QED
  BY <1>1, <1>2, PTL DEF Spec

(***************************************************************************)
(* Giving a pod back leaves the node without it, wherever the pods are:    *)
(* no candidate of findVictimPodOnNodeFragAware is passed over for an      *)
(* error of NodeResource.Add, and each is judged by the node it leaves.    *)
(***************************************************************************)
THEOREM PlacementsUndone == Spec => []AddUndoesPlacement
<1>1. DInv(placed, typical, memo, ds) => AddUndoesPlacement
  <2> SUFFICES ASSUME Held(placed), NEW p \in Placed
               PROVE  Add(Loaded(placed[p].node, On(placed[p].node)), PodRes[p], GpuIdList(placed, p))
                        = [ok |-> TRUE, node |-> Loaded(placed[p].node, On(placed[p].node) \ {p})]
    BY DEF DInv, AddUndoesPlacement
  <2> DEFINE n == placed[p].node
             S == OnAs(placed, n)
  <2>1. p \in Pods /\ placed[p] # Nowhere /\ n \in Nodes
    BY DEF Placed, Held, Place
  <2>2. S \in SUBSET Pods /\ p \in S /\ On(n) = S
    BY <2>1 DEF OnAs, On
  <2>3. placed[p].ids \subseteq DOMAIN NodeRes[n].gpu /\ Cardinality(placed[p].ids) = PodRes[p].num
    BY <2>1 DEF Held
  <2>4. Loaded(n, S) = LoadedAs(placed, n, S) /\ Loaded(n, S \ {p}) = LoadedAs(placed, n, S \ {p})
    BY LoadedIs
  <2> HIDE DEF n, S
  <2>5. Add(LoadedAs(placed, n, S), PodRes[p], GpuIdList(placed, p))
          = [ok |-> TRUE, node |-> LoadedAs(placed, n, S \ {p})]
    BY <2>1, <2>2, <2>3, AddUndoes
  <2>6. Add(Loaded(n, On(n)), PodRes[p], GpuIdList(placed, p))
          = [ok |-> TRUE, node |-> Loaded(n, On(n) \ {p})]
    BY <2>2, <2>4, <2>5
  <2> QED
    BY <2>6 DEF n
<1> QED
  BY <1>1, DescheduleInvariant, PTL

(***************************************************************************)
(* fragMemo never answers for the wrong node or for typical pods of        *)
(* another workload, however the pods lie on the nodes                     *)
(* (NodeGpuFragAmount and SetTypicalPods, simulator.go).                   *)
(***************************************************************************)
THEOREM MemoNeverLies == Spec => []MemoSound
<1>1. DInv(placed, typical, memo, ds) => MemoSound
  <2> SUFFICES ASSUME MemoFor(memo, typical), NEW n \in Nodes, Flatten(Loaded(n, On(n))) \in DOMAIN memo
               PROVE  memo[Flatten(Loaded(n, On(n)))] = NodeGpuShareFragAmount(Loaded(n, On(n)), typical)
    BY DEF DInv, MemoSound
  <2>1. Loaded(n, On(n)) = LoadedAs(placed, n, On(n)) /\ On(n) \in SUBSET Pods
    BY LoadedIs DEF On
  <2>2. Loaded(n, On(n)) \in Keyed
    BY <2>1, LoadedKeyed
  <2> QED
    BY <2>2 DEF MemoFor
<1> QED
  BY <1>1, DescheduleInvariant, PTL

(***************************************************************************)
(* The node fragMultiPod pops is one with the highest priority: Heapify,   *)
(* Pop and the queue's own Push keep the heap (NodePriorityQueue,          *)
(* deschedule_utils.go, with container/heap).                              *)
(***************************************************************************)
THEOREM WorstNodeFirst == Spec => []HeadIsWorst
<1>1. DInv(placed, typical, memo, ds) => HeadIsWorst
  <2> SUFFICES ASSUME DInv(placed, typical, memo, ds) PROVE HeadIsWorst
    OBVIOUS
  <2>1. DsTyped(ds) /\ Counted(placed, ds) /\ Queued(ds, typical)
    BY DEF DInv
  <2>2. CASE ds.pc = "evict"
    <3> DEFINE L == Len(ds.queue)
               J == Justified(ds, typical)
    <3>1. ds.queue \in Queues(L, J) /\ OrderedFrom(ds.queue, L, 1)
      BY <2>1, <2>2 DEF Queued
    <3>2. ds.queue \in Seq(Items) /\ J \in SUBSET Items
      BY <2>1, FieldsOf DEF Justified
    <3>3. L \in Nat /\ DOMAIN ds.queue = 1 .. L
      BY <3>2
    <3> HIDE DEF L, J
    <3>4. \A k \in 1 .. L : ~Higher(ds.queue[k], ds.queue[1])
      BY <3>1, <3>2, <3>3, HeadHighest
    <3> QED
      BY <3>3, <3>4 DEF HeadIsWorst
  <2>3. CASE ds.pc # "evict"
    <3>1. ds.queue = <<>> /\ DOMAIN <<>> = {}
      BY <2>1, <2>3 DEF Counted
    <3> QED
      BY <3>1 DEF HeadIsWorst
  <2> QED
    BY <2>2, <2>3
<1> QED
  BY <1>1, DescheduleInvariant, PTL

(***************************************************************************)
(* No pod is evicted twice or lost and no more are evicted than the ratio  *)
(* allows, whatever the cluster, the workload and the policies             *)
(* (DescheduleCluster and SchedulePods of the evicted pods).               *)
(***************************************************************************)
THEOREM NoPodLost == Spec => []EvictedOnce
<1>1. DInv(placed, typical, memo, ds) => EvictedOnce
  <2> SUFFICES ASSUME DInv(placed, typical, memo, ds) PROVE EvictedOnce
    OBVIOUS
  <2> DEFINE W == Waiting(ds)
             L == Len(ds.evicted)
  <2>1. DsTyped(ds) /\ Counted(placed, ds)
    BY DEF DInv
  <2>2. /\ \A j, k \in DOMAIN ds.evicted : ds.evicted[j] = ds.evicted[k] => j = k
        /\ \A p \in W : placed[p] = Nowhere
        /\ \A p \in Pods : placed[p] # Nowhere \/ p \in W \/ p \in ds.failed
        /\ ds.pc = "evict" => L + ds.left <= Quota(Seated(ds))
    BY <2>1 DEF Counted
  <2>3. ds.evicted \in Seq(Pods) /\ ds.failed \in SUBSET Pods
    BY <2>1, FieldsOf
  <2>4. Range(ds.evicted) = W
    BY DEF Range, Waiting
  <2>5. L \in Nat /\ DOMAIN ds.evicted = 1 .. L
    BY <2>3
  <2>6. Cardinality(W) = L
    <3>1. ds.evicted \in Bijection(1 .. L, W)
      BY <2>2, <2>3, <2>5 DEF Bijection, Injection, Surjection, IsInjective, Waiting
    <3>2. IsFiniteSet(1 .. L) /\ Cardinality(1 .. L) = L
      BY <2>5, FS_Interval
    <3>3. ExistsBijection(1 .. L, W)
      BY <3>1 DEF ExistsBijection
    <3> QED
      BY <3>2, <3>3, FS_Bijection
  <2>7. W \in SUBSET Pods
    BY <2>3 DEF Waiting
  <2>8. W \cap Placed = {}
    BY <2>2 DEF Placed
  <2>9. Placed \cup W \cup ds.failed = Pods
    BY <2>2, <2>3, <2>7 DEF Placed
  <2>10. ds.pc = "evict" =>
           L + ds.left <= (RatioNum * Cardinality({ p \in Pods : ds.held[p] # Nowhere }) + RatioDen - 1)
                            \div RatioDen
    BY <2>2 DEF Quota, Seated
  <2> HIDE DEF W, L
  <2> QED
    BY <2>4, <2>6, <2>8, <2>9, <2>10 DEF EvictedOnce, L
<1> QED
  BY <1>1, DescheduleInvariant, PTL

(***************************************************************************)
(* A victim that brings relief to a node as it was read brings it to the   *)
(* node as it is: no other pod has left it.                                *)
(***************************************************************************)
LEMMA SameAsRead ==
  ASSUME NEW pl, NEW held, NEW n, NEW S, \A q \in S : pl[q] = held[q]
  PROVE  LoadedAs(pl, n, S) = LoadedAs(held, n, S)
<1>1. \A i : Holders(pl, i, S) = Holders(held, i, S)
  BY DEF Holders
<1> QED
  BY <1>1 DEF LoadedAs

LEMMA Relieved ==
  ASSUME DInv(placed, typical, memo, ds), ds.pc = "evict", NEW n \in Nodes, NEW p \in OnAs(ds.held, n),
         \A q \in Waiting(ds) : ds.held[q].node # n,
         placed' = [placed EXCEPT ![p] = Nowhere], typical' = typical,
         Gain(Score(ReadOf(ds, n), typical), ds, n, p, typical) > 0
  PROVE  \A m \in Nodes : On(m)' # On(m) => NodeFragmentation(m)' < NodeFragmentation(m)
<1> DEFINE S == OnAs(ds.held, n)
           T == S \ {p}
<1>1. Held(placed) /\ DsTyped(ds) /\ Reading(placed, ds) /\ typical \in Distributions
  BY DEF DInv
<1>2. /\ Held(ds.held) /\ placed = [q \in Pods |-> IF q \in Waiting(ds) THEN Nowhere ELSE ds.held[q]]
      /\ \A q \in Waiting(ds) : ds.held[q] # Nowhere
  BY <1>1 DEF Reading
<1>3. S \in SUBSET Pods /\ T \in SUBSET Pods /\ p \in Pods /\ ds.held[p].node = n /\ n # 0 /\ 0 \notin Nodes
  BY DescheduleAssumption DEF OnAs
<1>4. \A q \in S : q \notin Waiting(ds) /\ placed[q] = ds.held[q]
  BY <1>2, <1>3 DEF OnAs
<1>5. \A m \in Nodes : On(m)' = On(m) \ {p}
  <2>1. placed'[p] = Nowhere /\ \A q \in Pods \ {p} : placed'[q] = placed[q]
    BY <1>2, <1>3
  <2> QED
    BY <1>3, <2>1 DEF On, Nowhere
<1>6. \A m \in Nodes : m # n => p \notin On(m)
  BY <1>3, <1>4 DEF On
<1>7. On(n) = S
  <2>1. \A q \in Pods : placed[q].node = n => q \notin Waiting(ds) /\ placed[q] = ds.held[q]
    BY <1>2, <1>3 DEF Nowhere
  <2> QED
    BY <1>3, <1>4, <2>1 DEF On, OnAs
<1>8. NodeFragmentation(n) = Score(ReadOf(ds, n), typical)
  <2>1. Loaded(n, On(n)) = LoadedAs(ds.held, n, S)
    BY <1>4, <1>7, LoadedIs, SameAsRead
  <2> QED
    BY <2>1 DEF NodeFragmentation, Score, ReadOf
<1>9. NodeFragmentation(n)' = Score(Left(ds, n, p), typical)
  <2>1. On(n)' = T
    BY <1>5, <1>7
  <2>2. \A q \in T : placed'[q] = ds.held[q]
    BY <1>2, <1>3, <1>4
  <2>3. LoadedAs(placed', n, T) = LoadedAs(ds.held, n, T)
    <3> DEFINE pl2 == placed'
               held == ds.held
    <3>1. \A q \in T : pl2[q] = held[q]
      BY <2>2
    <3> HIDE DEF pl2, held, T
    <3>2. LoadedAs(pl2, n, T) = LoadedAs(held, n, T)
      BY <3>1, SameAsRead
    <3> QED
      BY <3>2 DEF pl2, held
  <2>4. Loaded(n, On(n))' = LoadedAs(ds.held, n, T)
    BY <2>1, <2>3, LoadedNext
  <2>5. NodeFragmentation(n)' = FragAmountSumExceptQ3(NodeGpuShareFragAmount(Loaded(n, On(n))', typical'))
    BY DEF NodeFragmentation
  <2> QED
    BY <2>4, <2>5 DEF Score, Left
<1>10. Score(Left(ds, n, p), typical) < Score(ReadOf(ds, n), typical)
  <2> DEFINE x == Score(ReadOf(ds, n), typical)
             y == Score(Left(ds, n, p), typical)
             d == SumFunction(typical)
  <2>1. ReadOf(ds, n) \in Keyed /\ Left(ds, n, p) \in Keyed
    BY <1>3, LoadedKeyed DEF ReadOf, Left
  <2>2. x \in Int /\ y \in Int /\ d \in Nat \ {0}
    BY <1>1, <2>1, TypicalIs
  <2>3. (x - y) \div d > 0
    BY DEF Gain
  <2> HIDE DEF x, y, d
  <2>4. x - y \in Int
    BY <2>2
  <2>5. x - y > 0
    BY <2>2, <2>3, <2>4, DivPositive
  <2>6. y < x
    BY <2>2, <2>5
  <2> QED
    BY <2>6 DEF x, y
<1>11. NodeFragmentation(n)' < NodeFragmentation(n)
  BY <1>8, <1>9, <1>10
<1> QED
  BY <1>5, <1>6, <1>11

LEMMA OnePodRelieves ==
  ASSUME DInv(placed, typical, memo, ds), FragOnePod
  PROVE  \A m \in Nodes : On(m)' # On(m) => NodeFragmentation(m)' < NodeFragmentation(m)
<1> DEFINE n == Head(ds.todo)
           victim == FragVictim(memo', Priority(memo', Read(n)), Read(n), ds.pods[n])
<1>1. /\ ds.pc = "evict" /\ ds.policy = "fragOnePod" /\ ds.todo # <<>>
      /\ typical' = typical /\ memo' = Asked(n)
  BY DEF FragOnePod
<1>2. IF victim = 0 THEN placed' = placed ELSE placed' = [placed EXCEPT ![victim] = Nowhere]
  BY DEF FragOnePod, Evict
<1>3. n \in Nodes /\ \A q \in Waiting(ds) : ds.held[q].node # n
  <2>1. DsTyped(ds) /\ Once(ds)
    BY DEF DInv
  <2>2. /\ ds.todo \in Seq(Nodes) /\ \A j, k \in DOMAIN ds.todo : ds.todo[j] = ds.todo[k] => j = k
        /\ \A k \in DOMAIN ds.todo : \A q \in Waiting(ds) : ds.held[q].node # ds.todo[k]
    BY <1>1, <2>1, FieldsOf DEF Once
  <2>3. n \in Nodes /\ 1 \in DOMAIN ds.todo /\ ds.todo[1] = n
    BY <1>1, <2>2, HeadTail
  <2> QED
    BY <2>2, <2>3
<1>4. /\ Priority(memo', Read(n)) = Score(ReadOf(ds, n), typical) /\ Score(ReadOf(ds, n), typical) \in Int
  BY <1>1, <1>3, ReadRemembered
<1>5. ds.pods[n] \in SUBSET OnAs(ds.held, n)
  <2>1. DsTyped(ds) /\ Reading(placed, ds)
    BY DEF DInv
  <2> QED
    BY <1>1, <1>3, <2>1, ReadGives
<1>6. victim # 0 => victim \in ds.pods[n] /\ Gain(Score(ReadOf(ds, n), typical), ds, n, victim, typical) > 0
  <2>1. victim = FragVictim(Asked(n), Score(ReadOf(ds, n), typical), Read(n), ds.pods[n])
    BY <1>1, <1>4
  <2> HIDE DEF victim, n
  <2> QED
    BY <1>1, <1>3, <1>4, <2>1, VictimIs
<1> HIDE DEF victim, n
<1>7. CASE victim = 0
  <2>1. \A m : On(m)' = On(m)
    BY <1>2, <1>7 DEF On
  <2> QED
    BY <2>1
<1>8. CASE victim # 0
  BY <1>1, <1>2, <1>3, <1>5, <1>6, <1>8, Relieved
<1> QED
  BY <1>7, <1>8

LEMMA MultiPodRelieves ==
  ASSUME DInv(placed, typical, memo, ds), FragMultiPod
  PROVE  \A m \in Nodes : On(m)' # On(m) => NodeFragmentation(m)' < NodeFragmentation(m)
<1> DEFINE item == Head(ds.queue)
           n == item.node
           victim == FragVictim(memo', item.priority, Read(n), ds.pods[n])
<1>1. /\ ds.pc = "evict" /\ ds.policy = "fragMultiPod" /\ typical' = typical /\ memo' = Asked(n)
  BY DEF FragMultiPod
<1>2. IF victim = 0 THEN placed' = placed ELSE placed' = [placed EXCEPT ![victim] = Nowhere]
  BY DEF FragMultiPod, Evict
<1>3. n \in Nodes /\ item.priority \in Int /\ item \in Justified(ds, typical)
  <2> DEFINE L == Len(ds.queue)
  <2>1. item = Head(ds.queue) /\ n = item.node /\ L = Len(ds.queue)
    OBVIOUS
  <2> HIDE DEF item, n, L
  <2> QED
    BY <2>1, QueueHead
<1>4. ds.pods[n] \in SUBSET OnAs(ds.held, n)
  <2>1. DsTyped(ds) /\ Reading(placed, ds)
    BY DEF DInv
  <2> QED
    BY <1>1, <1>3, <2>1, ReadGives
<1>5. /\ victim # 0 => victim \in ds.pods[n] /\ Gain(item.priority, ds, n, victim, typical) > 0
      /\ (\A q \in ds.pods[n] : Gain(item.priority, ds, n, q, typical) <= 0) => victim = 0
  <2>1. victim = FragVictim(Asked(n), item.priority, Read(n), ds.pods[n])
    BY <1>1
  <2> HIDE DEF victim, n, item
  <2> QED
    BY <1>1, <1>3, <2>1, VictimIs
<1>6. \/ item.priority = Score(ReadOf(ds, n), typical) /\ \A q \in Waiting(ds) : ds.held[q].node # n
      \/ \A q \in OnAs(ds.held, n) : Gain(item.priority, ds, n, q, typical) <= 0
  BY <1>3 DEF Justified, Gain
<1> HIDE DEF victim, item, n
<1>7. CASE victim = 0
  <2>1. \A m : On(m)' = On(m)
    BY <1>2, <1>7 DEF On
  <2> QED
    BY <2>1
<1>8. CASE victim # 0
  <2>1. item.priority = Score(ReadOf(ds, n), typical) /\ \A q \in Waiting(ds) : ds.held[q].node # n
    BY <1>4, <1>5, <1>6, <1>8
  <2>2. victim \in OnAs(ds.held, n) /\ Gain(Score(ReadOf(ds, n), typical), ds, n, victim, typical) > 0
    BY <1>4, <1>5, <1>8, <2>1
  <2> QED
    BY <1>1, <1>2, <1>3, <1>8, <2>1, <2>2, Relieved
<1> QED
  BY <1>7, <1>8

(***************************************************************************)
(* No victim of fragOnePod or fragMultiPod leaves its node more fragmented *)
(* or as fragmented as it was, though it is chosen by the node as it was   *)
(* read, by amounts from the memo and a priority from the queue            *)
(* (findVictimPodOnNodeFragAware, deschedule_utils.go).                    *)
(***************************************************************************)
THEOREM VictimsRelieve == Spec => EvictionRelieves
<1> DEFINE Relieves == \A n \in Nodes :
             ds.pc = "evict" /\ ds.policy # "cosSim" /\ On(n)' # On(n)
             => NodeFragmentation(n)' < NodeFragmentation(n)
<1>1. DInv(placed, typical, memo, ds) /\ [Next]_vars => [Relieves]_vars
  <2> SUFFICES ASSUME DInv(placed, typical, memo, ds), Next, ds.pc = "evict", ds.policy # "cosSim",
                      NEW n \in Nodes, On(n)' # On(n)
               PROVE  NodeFragmentation(n)' < NodeFragmentation(n)
    OBVIOUS
  <2>1. \A m : placed' = placed => On(m)' = On(m)
    BY DEF On
  <2>2. ~(\E policy \in Policies : Begin(policy)) /\ ~SetTypicalPods /\ ~Done /\ ~Return /\ ~Reschedule
    BY DEF Begin, SetTypicalPods, Done, Return, Reschedule
  <2>3. ~CosSimNode
    BY DEF CosSimNode
  <2>4. ~PostEviction
    BY <2>1 DEF PostEviction
  <2>5. FragOnePod \/ FragMultiPod
    BY <2>2, <2>3, <2>4 DEF Next, Step
  <2> QED
    BY <2>5, OnePodRelieves, MultiPodRelieves
<1> QED
  BY <1>1, DescheduleInvariant, PTL DEF EvictionRelieves, Spec

-----------------------------------------------------------------------------
(* The reports.  The milli-GPU that pods hold of a GPU, of the GPUs of a   *)
(* node and of those of all nodes, with the pods where pl says.            *)

Devs(n)           == DOMAIN NodeRes[n].gpu
HeldOf(pl, n, i)  == MilliOf(Holders(pl, i, OnAs(pl, n)))
MilliOn(pl, n)    == SumOver([i \in Devs(n) |-> HeldOf(pl, n, i)], Devs(n))
UsedOn(pl, n)     == Cardinality({ i \in Devs(n) : HeldOf(pl, n, i) > 0 })
PlacedAs(pl)      == { p \in Pods : pl[p] # Nowhere }
MilliInUse(pl)    == SumOver([p \in PlacedAs(pl) |-> TotalMilliGpu(PodRes[p])], PlacedAs(pl))
InUse(pl) ==
  { g \in Nodes \X (1 .. MaxNumGpuPerNode) : \E p \in PlacedAs(pl) : pl[p].node = g[1] /\ g[2] \in pl[p].ids }

LEMMA HeldIs ==
  ASSUME NEW pl, Held(pl), NEW n \in Nodes
  PROVE  /\ Devs(n) = 1 .. Len(NodeRes[n].gpu) /\ Len(NodeRes[n].gpu) \in Nat
         /\ Devs(n) \in SUBSET (1 .. MaxNumGpuPerNode) /\ IsFiniteSet(Devs(n))
         /\ \A i : HeldOf(pl, n, i) \in Nat
         /\ \A i : i \notin Devs(n) => HeldOf(pl, n, i) = 0
         /\ \A i : HeldOf(pl, n, i) > 0 <=> \E p \in PlacedAs(pl) : pl[p].node = n /\ i \in pl[p].ids
<1>1. NodeRes[n] \in NodeResources /\ Len(NodeRes[n].gpu) <= MaxNumGpuPerNode
  BY DescheduleAssumption
<1>2. NodeRes[n].gpu \in Seq(Int)
  BY <1>1 DEF NodeResources
<1>3. Devs(n) = 1 .. Len(NodeRes[n].gpu) /\ Len(NodeRes[n].gpu) \in Nat /\ MaxNumGpuPerNode \in Nat
  BY <1>2, ResourceAssumption DEF Devs
<1>4. Devs(n) \in SUBSET (1 .. MaxNumGpuPerNode) /\ IsFiniteSet(Devs(n))
  BY <1>1, <1>3, UpToFinite
<1> DEFINE H(i) == Holders(pl, i, OnAs(pl, n))
<1>5. \A i : H(i) \in SUBSET Pods /\ H(i) = { p \in PlacedAs(pl) : pl[p].node = n /\ i \in pl[p].ids }
  <2>1. n # 0
    BY DescheduleAssumption
  <2> QED
    BY <2>1 DEF Holders, OnAs, PlacedAs, Nowhere
<1>6. \A i : HeldOf(pl, n, i) = MilliOf(H(i))
  BY DEF HeldOf
<1>7. \A i, p : p \in H(i) => i \in Devs(n) /\ PodRes[p].milli \in Nat \ {0}
  <2> SUFFICES ASSUME NEW i, NEW p \in H(i) PROVE i \in Devs(n) /\ PodRes[p].milli \in Nat \ {0}
    OBVIOUS
  <2>1. p \in Pods /\ pl[p] # Nowhere /\ pl[p].node = n /\ i \in pl[p].ids
    BY <1>5 DEF PlacedAs
  <2>2. pl[p].ids \subseteq Devs(n) /\ Cardinality(pl[p].ids) = PodRes[p].num
    BY <2>1 DEF Held, Devs
  <2>3. IsFiniteSet(pl[p].ids)
    BY <1>4, <2>2, FS_Subset
  <2>4. Cardinality(pl[p].ids) \in Nat /\ Cardinality(pl[p].ids) # 0
    BY <2>1, <2>3, FS_CardinalityType, FS_EmptySet
  <2>5. PodRes[p].num > 0
    BY <2>2, <2>4
  <2>6. PodRes[p].milli > 0 /\ PodRes[p] \in PodResources
    BY <2>1, <2>5, DescheduleAssumption
  <2>7. PodRes[p].milli \in Nat
    BY <2>6, ResourceAssumption DEF PodResources
  <2> QED
    BY <2>1, <2>2, <2>6, <2>7
<1> HIDE DEF H
<1>8. \A i : MilliOf(H(i)) \in Nat
  BY <1>5, SumsOfPods
<1>9. \A i : H(i) = {} => MilliOf(H(i)) = 0
  <2>1. MilliOf({}) = 0
    BY SumNothing DEF MilliOf
  <2> QED
    BY <2>1
<1>10. \A i, p : p \in H(i) => MilliOf(H(i)) > 0
  <2> SUFFICES ASSUME NEW i, NEW p \in H(i) PROVE MilliOf(H(i)) > 0
    OBVIOUS
  <2>1. H(i) \in SUBSET Pods /\ H(i) \ {p} \in SUBSET Pods
    BY <1>5
  <2>2. MilliOf(H(i)) = PodRes[p].milli + MilliOf(H(i) \ {p}) /\ MilliOf(H(i) \ {p}) \in Nat
    BY <2>1, SumsOfPods
  <2>3. PodRes[p].milli \in Nat \ {0}
    BY <1>7
  <2> QED
    BY <2>2, <2>3
<1>11. \A i : i \notin Devs(n) => HeldOf(pl, n, i) = 0
  BY <1>6, <1>7, <1>9
<1>12. \A i : HeldOf(pl, n, i) > 0 <=> \E p \in PlacedAs(pl) : pl[p].node = n /\ i \in pl[p].ids
  <2> TAKE i
  <2>1. HeldOf(pl, n, i) > 0 <=> H(i) # {}
    BY <1>6, <1>9, <1>10
  <2> QED
    BY <1>5, <2>1
<1> QED
  BY <1>3, <1>4, <1>6, <1>8, <1>11, <1>12

LEMMA PlacedFinite ==
  ASSUME NEW pl
  PROVE  /\ PlacedAs(pl) \in SUBSET Pods /\ IsFiniteSet(PlacedAs(pl))
         /\ IsFiniteSet(Nodes) /\ IsFiniteSet(1 .. MaxNumGpuPerNode)
         /\ IsFiniteSet(Nodes \X (1 .. MaxNumGpuPerNode))
         /\ \A p \in Pods : PodRes[p].milli \in Nat /\ PodRes[p].num \in Nat
<1>1. PlacedAs(pl) \in SUBSET Pods
  BY DEF PlacedAs
<1>2. IsFiniteSet(PlacedAs(pl)) /\ IsFiniteSet(Nodes)
  BY <1>1, DescheduleAssumption, FS_Subset
<1>3. IsFiniteSet(1 .. MaxNumGpuPerNode)
  BY ResourceAssumption, UpToFinite
<1>4. \A p \in Pods : PodRes[p].milli \in Nat /\ PodRes[p].num \in Nat
  <2>1. \A p \in Pods : PodRes[p] \in PodResources
    BY DescheduleAssumption
  <2> QED
    BY <2>1, ResourceAssumption DEF PodResources
<1> QED
  BY <1>1, <1>2, <1>3, <1>4, FS_Product

(***************************************************************************)
(* The milli-GPU in use, counted by GPU and by pod.                        *)
(***************************************************************************)
LEMMA MilliTotal ==
  ASSUME NEW pl, Held(pl)
  PROVE  SumOver([n \in Nodes |-> MilliOn(pl, n)], Nodes) = MilliInUse(pl)
<1> DEFINE D == 1 .. MaxNumGpuPerNode
           G == Nodes \X D
           All == PlacedAs(pl)
           f == [n \in Nodes |-> [i \in D |-> HeldOf(pl, n, i)]]
           w == [u \in G |-> HeldOf(pl, u[1], u[2])]
           g == [n \in Nodes |-> MilliOn(pl, n)]
           Share(u, p) == IF pl[p].node = u[1] /\ u[2] \in pl[p].ids THEN PodRes[p].milli ELSE 0
           r == [u \in G |-> [p \in All |-> Share(u, p)]]
           c == [p \in All |-> [u \in G |-> Share(u, p)]]
           h == [p \in All |-> TotalMilliGpu(PodRes[p])]
<1>1. /\ IsFiniteSet(Nodes) /\ IsFiniteSet(D) /\ IsFiniteSet(G) /\ IsFiniteSet(All) /\ All \in SUBSET Pods
      /\ \A p \in Pods : PodRes[p].milli \in Nat /\ PodRes[p].num \in Nat
  BY PlacedFinite
<1>2. \A n \in Nodes : /\ Devs(n) \in SUBSET D /\ IsFiniteSet(Devs(n))
                       /\ \A i : HeldOf(pl, n, i) \in Nat
                       /\ \A i : i \notin Devs(n) => HeldOf(pl, n, i) = 0
  BY HeldIs
<1>3. RowSums(f, Nodes, D, g)
  <2> SUFFICES ASSUME NEW n \in Nodes PROVE g[n] = SumOver(f[n], D)
    BY DEF RowSums
  <2> DEFINE row == f[n]
             part == [i \in Devs(n) |-> HeldOf(pl, n, i)]
  <2>1. /\ \A i \in Devs(n) : part[i] \in Int /\ row[i] = part[i]
        /\ \A i \in D \ Devs(n) : row[i] = 0
    BY <1>2
  <2>2. g[n] = SumOver(part, Devs(n))
    BY DEF MilliOn
  <2>3. Devs(n) \in SUBSET D
    BY <1>2
  <2> HIDE DEF row, part, D
  <2>4. SumOver(row, D) = SumOver(part, Devs(n))
    BY <1>1, <2>1, <2>3, SumFilter
  <2> QED
    BY <2>2, <2>4 DEF row
<1>4. SumOver(g, Nodes) = SumOver(w, G)
  <2>1. \A n \in Nodes, i \in D : f[n][i] \in Int /\ w[<<n, i>>] = f[n][i]
    BY <1>2
  <2> HIDE DEF f, w, g, D
  <2> QED
    BY <1>1, <1>3, <2>1, SumPairs DEF G
<1>5. RowSums(r, G, All, w)
  <2> SUFFICES ASSUME NEW u \in G PROVE w[u] = SumOver(r[u], All)
    BY DEF RowSums
  <2> DEFINE row == r[u]
             H == Holders(pl, u[2], OnAs(pl, u[1]))
             part == [p \in H |-> PodRes[p].milli]
  <2>1. w[u] = SumOver(part, H)
    BY DEF HeldOf, MilliOf
  <2>2. u[1] \in Nodes /\ u[1] # 0
    BY DescheduleAssumption
  <2>3. H = { p \in All : pl[p].node = u[1] /\ u[2] \in pl[p].ids }
    BY <2>2 DEF Holders, OnAs, PlacedAs, Nowhere
  <2>4. /\ H \in SUBSET All /\ \A p \in H : part[p] \in Int /\ row[p] = part[p]
        /\ \A p \in All \ H : row[p] = 0
    BY <1>1, <2>3
  <2> HIDE DEF H, row, part, All
  <2>5. SumOver(row, All) = SumOver(part, H)
    BY <1>1, <2>4, SumFilter
  <2> QED
    BY <2>1, <2>5 DEF row
<1>6. RowSums(c, All, G, h)
  <2> SUFFICES ASSUME NEW p \in All PROVE h[p] = SumOver(c[p], G)
    BY DEF RowSums
  <2> DEFINE row == c[p]
             ids == pl[p].ids
             node == pl[p].node
             T == {node} \X ids
             m == PodRes[p].milli
  <2>1. p \in Pods /\ pl[p] # Nowhere /\ pl[p] \in Place
    BY <1>1 DEF PlacedAs, Held
  <2>2. node \in Nodes /\ ids \in SUBSET D /\ Cardinality(ids) = PodRes[p].num
    BY <2>1 DEF Held, Place
  <2>3. T \in SUBSET G /\ m \in Nat
    BY <1>1, <2>1, <2>2
  <2>4. \A u \in G : row[u] = IF u \in T THEN m ELSE 0
    <3>1. \A u \in G : u \in T <=> node = u[1] /\ u[2] \in ids
      OBVIOUS
    <3> QED
      BY <3>1
  <2>5. IsFiniteSet(T) /\ Cardinality(T) = PodRes[p].num
    <3>1. IsFiniteSet(ids) /\ IsFiniteSet({node}) /\ Cardinality({node}) = 1
      BY <1>1, <2>2, FS_Subset, FS_Singleton
    <3>2. IsFiniteSet(T) /\ Cardinality(T) = 1 * Cardinality(ids)
      BY <3>1, FS_Product
    <3> QED
      BY <1>1, <2>1, <2>2, <3>2
  <2>6. h[p] = m * PodRes[p].num
    BY DEF TotalMilliGpu
  <2> HIDE DEF row, ids, node, T, m, G
  <2>7. SumOver(row, T) = m * Cardinality(T)
    <3>1. \A u \in T : row[u] = m
      BY <2>3, <2>4
    <3>2. m \in Int
      BY <2>3
    <3> QED
      BY <2>5, <3>1, <3>2, SumConstant
  <2>8. SumOver(row, G) = SumOver(row, T)
    <3>1. /\ \A u \in T : row[u] \in Int /\ row[u] = row[u]
          /\ \A u \in G \ T : row[u] = 0
      BY <2>3, <2>4
    <3> QED
      BY <1>1, <2>3, <3>1, SumFilter
  <2> QED
    BY <2>5, <2>6, <2>7, <2>8 DEF row
<1>7. SumOver(w, G) = SumOver(h, All)
  <2>1. \A u \in G, p \in All : r[u][p] \in Int /\ c[p][u] = r[u][p]
    BY <1>1
  <2> HIDE DEF r, c, w, h, G, All
  <2> QED
    BY <1>1, <1>5, <1>6, <2>1, SumSwap
<1> QED
  BY <1>4, <1>7 DEF MilliInUse

(***************************************************************************)
(* The GPUs in use, counted node by node.                                  *)
(***************************************************************************)
LEMMA UsedTotal ==
  ASSUME NEW pl, Held(pl)
  PROVE  SumOver([n \in Nodes |-> UsedOn(pl, n)], Nodes) = Cardinality(InUse(pl))
<1> DEFINE D == 1 .. MaxNumGpuPerNode
           G == Nodes \X D
           One(n, i) == IF HeldOf(pl, n, i) > 0 THEN 1 ELSE 0
           f == [n \in Nodes |-> [i \in D |-> One(n, i)]]
           w == [u \in G |-> One(u[1], u[2])]
           g == [n \in Nodes |-> UsedOn(pl, n)]
           U == InUse(pl)
<1>1. IsFiniteSet(Nodes) /\ IsFiniteSet(D) /\ IsFiniteSet(G)
  BY PlacedFinite
<1>2. \A n \in Nodes : /\ Devs(n) \in SUBSET D
                       /\ \A i : i \notin Devs(n) => HeldOf(pl, n, i) = 0
                       /\ \A i : HeldOf(pl, n, i) > 0 <=> \E p \in PlacedAs(pl) : pl[p].node = n /\ i \in pl[p].ids
  BY HeldIs
<1>3. RowSums(f, Nodes, D, g)
  <2> SUFFICES ASSUME NEW n \in Nodes PROVE g[n] = SumOver(f[n], D)
    BY DEF RowSums
  <2> DEFINE row == f[n]
             T == { i \in Devs(n) : HeldOf(pl, n, i) > 0 }
  <2>1. /\ T \in SUBSET D /\ \A i \in T : row[i] = 1
        /\ \A i \in D \ T : row[i] = 0
    BY <1>2
  <2>2. g[n] = Cardinality(T)
    BY DEF UsedOn
  <2> HIDE DEF row, T, D
  <2>3. SumOver(row, D) = Cardinality(T)
    BY <1>1, <2>1, CountIs
  <2> QED
    BY <2>2, <2>3 DEF row
<1>4. SumOver(g, Nodes) = SumOver(w, G)
  <2>1. \A n \in Nodes, i \in D : f[n][i] \in Int /\ w[<<n, i>>] = f[n][i]
    OBVIOUS
  <2> HIDE DEF f, w, g, D
  <2> QED
    BY <1>1, <1>3, <2>1, SumPairs DEF G
<1>5. SumOver(w, G) = Cardinality(U)
  <2>1. U = { u \in G : HeldOf(pl, u[1], u[2]) > 0 }
    BY <1>2 DEF InUse
  <2>2. U \in SUBSET G /\ (\A u \in U : w[u] = 1) /\ \A u \in G \ U : w[u] = 0
    BY <2>1
  <2> HIDE DEF U, w, G
  <2> QED
    BY <1>1, <2>2, CountIs
<1> QED
  BY <1>4, <1>5

(***************************************************************************)
(* What a node's resource says of the GPUs that pods hold on it.           *)
(***************************************************************************)
LEMMA OnNode ==
  ASSUME NEW pl, Held(pl), NEW n \in Nodes, NEW node, node = LoadedAs(pl, n, OnAs(pl, n))
  PROVE  /\ Cardinality({ i \in DOMAIN node.gpu : node.gpu[i] # MILLI }) = UsedOn(pl, n)
         /\ Len(node.gpu) = Len(NodeRes[n].gpu) /\ Len(NodeRes[n].gpu) \in Nat
         /\ GetTotalMilliGpuLeft(node) \in Int /\ MilliOn(pl, n) \in Nat /\ UsedOn(pl, n) \in Nat
         /\ GetTotalMilliGpuLeft(node) + MilliOn(pl, n) = MILLI * Len(NodeRes[n].gpu)
         /\ ~(GetFullyFreeGpuNum(node) < Len(node.gpu)) => MilliOn(pl, n) = 0 /\ UsedOn(pl, n) = 0
<1> DEFINE L == Devs(n)
           l == Len(NodeRes[n].gpu)
           held == [i \in L |-> HeldOf(pl, n, i)]
           left == [i \in L |-> node.gpu[i]]
           all == [i \in L |-> MILLI]
           U == { i \in L : HeldOf(pl, n, i) > 0 }
<1>1. L = 1 .. l /\ l \in Nat /\ IsFiniteSet(L) /\ \A i : HeldOf(pl, n, i) \in Nat
  BY HeldIs
<1>2. /\ node \in Keyed /\ Len(node.gpu) = l /\ DOMAIN node.gpu = L
      /\ \A i \in L : node.gpu[i] = MILLI - HeldOf(pl, n, i)
  <2>1. OnAs(pl, n) \in SUBSET Pods
    BY DEF OnAs
  <2> QED
    BY <2>1, LoadedFields DEF HeldOf, Devs
<1>3. MILLI \in Nat \ {0}
  BY ResourceAssumption
<1>4. { i \in DOMAIN node.gpu : node.gpu[i] # MILLI } = U
  BY <1>1, <1>2, <1>3
<1>5. UsedOn(pl, n) = Cardinality(U) /\ U \in SUBSET L /\ IsFiniteSet(U) /\ Cardinality(U) \in Nat
  <2>1. U \in SUBSET L
    OBVIOUS
  <2> QED
    BY <1>1, <2>1, FS_Subset, FS_CardinalityType DEF UsedOn
<1>6. \A i \in L : /\ held[i] = HeldOf(pl, n, i) /\ held[i] \in Nat /\ held[i] \in Int
                   /\ left[i] = node.gpu[i] /\ left[i] \in Int
                   /\ all[i] = MILLI /\ all[i] = left[i] + held[i]
  BY <1>1, <1>2, <1>3
<1>7. GetTotalMilliGpuLeft(node) = SumOver(left, L)
  <2>1. GetTotalMilliGpuLeft(node) = SumOver(node.gpu, L)
    BY <1>2, LeftIsSum
  <2>2. \A i \in L : node.gpu[i] = left[i] /\ node.gpu[i] \in Int
    BY <1>6
  <2> HIDE DEF left, L
  <2> QED
    BY <1>1, <2>1, <2>2, SumSame
<1>8. MilliOn(pl, n) = SumOver(held, L)
  BY DEF MilliOn
<1> HIDE DEF held, left, all, L, U, l
<1>9. SumOver(left, L) \in Int /\ SumOver(held, L) \in Nat
  BY <1>1, <1>6, SumInt, SumNat
<1>10. SumOver(all, L) = SumOver(left, L) + SumOver(held, L)
  BY <1>1, <1>6, SumPlus
<1>11. SumOver(all, L) = MILLI * l
  <2>1. SumOver(all, L) = MILLI * Cardinality(L)
    BY <1>1, <1>3, <1>6, SumConstant
  <2>2. Cardinality(L) = l
    BY <1>1, FS_Interval
  <2> QED
    BY <2>1, <2>2
<1>12. ASSUME ~(GetFullyFreeGpuNum(node) < Len(node.gpu))
       PROVE  MilliOn(pl, n) = 0 /\ UsedOn(pl, n) = 0
  <2>1. FullyFree(node) \in SUBSET L /\ FullyFree(node) = { i \in L : HeldOf(pl, n, i) = 0 }
    BY <1>1, <1>2, <1>3 DEF FullyFree
  <2>2. Cardinality(L) = l
    BY <1>1, FS_Interval
  <2>3. Cardinality(FullyFree(node)) <= l /\ Cardinality(FullyFree(node)) \in Nat
    BY <1>1, <2>1, <2>2, FS_Subset, FS_CardinalityType
  <2>4. Cardinality(FullyFree(node)) = Cardinality(L)
    BY <1>1, <1>2, <1>12, <2>2, <2>3 DEF GetFullyFreeGpuNum
  <2>5. FullyFree(node) = L
    BY <1>1, <2>1, <2>4, FS_Subset
  <2>6. U = {}
    BY <2>1, <2>5 DEF U
  <2>7. UsedOn(pl, n) = 0
    BY <1>5, <2>6, FS_EmptySet
  <2>8. \A i \in L : held[i] = 0
    BY <1>6, <2>1, <2>5
  <2>9. SumOver(held, L) = 0 * Cardinality(L)
    BY <1>1, <2>8, SumConstant
  <2>10. SumOver(held, L) = 0
    BY <1>1, <2>2, <2>9
  <2> QED
    BY <1>8, <2>7, <2>10
<1> QED
  BY <1>1, <1>2, <1>4, <1>5, <1>7, <1>8, <1>9, <1>10, <1>11, <1>12 DEF l

(***************************************************************************)
(* ClusterGpuFragReport, of the nodes as the pods lie on them.             *)
(***************************************************************************)
LEMMA ReportOf ==
  ASSUME NEW pl, Held(pl), NEW res, \A n \in Nodes : res[n] = LoadedAs(pl, n, OnAs(pl, n))
  PROVE  /\ SumFunction([n \in UsedNodes(res) |->
                           Cardinality({ i \in DOMAIN res[n].gpu : res[n].gpu[i] # MILLI })])
              = Cardinality(InUse(pl))
         /\ SumFunction([n \in UsedNodes(res) |-> Len(res[n].gpu) * MILLI - GetTotalMilliGpuLeft(res[n])])
              = MilliInUse(pl)
<1> DEFINE U == UsedNodes(res)
           f == [n \in U |-> Cardinality({ i \in DOMAIN res[n].gpu : res[n].gpu[i] # MILLI })]
           g == [n \in U |-> Len(res[n].gpu) * MILLI - GetTotalMilliGpuLeft(res[n])]
           used  == [n \in Nodes |-> UsedOn(pl, n)]
           milli == [n \in Nodes |-> MilliOn(pl, n)]
<1>1. U \in SUBSET Nodes /\ \A n \in Nodes \ U : ~(GetFullyFreeGpuNum(res[n]) < Len(res[n].gpu))
  BY DEF UsedNodes
<1>2. IsFiniteSet(Nodes)
  BY DescheduleAssumption
<1>3. \A n \in Nodes :
        /\ Cardinality({ i \in DOMAIN res[n].gpu : res[n].gpu[i] # MILLI }) = UsedOn(pl, n)
        /\ Len(res[n].gpu) \in Nat
        /\ GetTotalMilliGpuLeft(res[n]) \in Int /\ MilliOn(pl, n) \in Nat /\ UsedOn(pl, n) \in Nat
        /\ GetTotalMilliGpuLeft(res[n]) + MilliOn(pl, n) = MILLI * Len(res[n].gpu)
        /\ ~(GetFullyFreeGpuNum(res[n]) < Len(res[n].gpu)) => MilliOn(pl, n) = 0 /\ UsedOn(pl, n) = 0
  <2> TAKE n \in Nodes
  <2> DEFINE node == res[n]
  <2>1. node = LoadedAs(pl, n, OnAs(pl, n))
    OBVIOUS
  <2> HIDE DEF node
  <2>2. /\ Cardinality({ i \in DOMAIN node.gpu : node.gpu[i] # MILLI }) = UsedOn(pl, n)
        /\ Len(node.gpu) \in Nat
        /\ GetTotalMilliGpuLeft(node) \in Int /\ MilliOn(pl, n) \in Nat /\ UsedOn(pl, n) \in Nat
        /\ GetTotalMilliGpuLeft(node) + MilliOn(pl, n) = MILLI * Len(node.gpu)
        /\ ~(GetFullyFreeGpuNum(node) < Len(node.gpu)) => MilliOn(pl, n) = 0 /\ UsedOn(pl, n) = 0
    BY <2>1, OnNode
  <2> QED
    BY <2>2 DEF node
<1>4. \A n \in Nodes : Len(res[n].gpu) * MILLI - GetTotalMilliGpuLeft(res[n]) = MilliOn(pl, n)
  <2> TAKE n \in Nodes
  <2> DEFINE a == Len(res[n].gpu) * MILLI
             b == MILLI * Len(res[n].gpu)
             x == GetTotalMilliGpuLeft(res[n])
             y == MilliOn(pl, n)
  <2>1. a = b /\ b \in Int
    BY <1>3, ResourceAssumption
  <2>2. x + y = b /\ x \in Int /\ y \in Nat
    BY <1>3, Zenon
  <2> HIDE DEF a, b, x, y
  <2>3. a - x = y
    BY <2>1, <2>2
  <2> QED
    BY <2>3 DEF a, x, y
<1>5. /\ \A n \in U : f[n] \in Int /\ used[n] = f[n] /\ g[n] \in Int /\ milli[n] = g[n]
      /\ \A n \in Nodes \ U : used[n] = 0 /\ milli[n] = 0
  <2>1. \A n \in Nodes : used[n] = UsedOn(pl, n) /\ milli[n] = MilliOn(pl, n)
    OBVIOUS
  <2>2. \A n \in Nodes : UsedOn(pl, n) \in Int /\ MilliOn(pl, n) \in Int
    <3>1. \A n \in Nodes : UsedOn(pl, n) \in Nat /\ MilliOn(pl, n) \in Nat
      BY <1>3, Zenon
    <3> QED
      BY <3>1
  <2>3. \A n \in U : f[n] = UsedOn(pl, n)
    BY <1>1, <1>3
  <2>4. \A n \in U : g[n] = MilliOn(pl, n)
    BY <1>1, <1>4
  <2>5. \A n \in Nodes \ U : UsedOn(pl, n) = 0 /\ MilliOn(pl, n) = 0
    <3>1. \A n \in Nodes : ~(GetFullyFreeGpuNum(res[n]) < Len(res[n].gpu)) => UsedOn(pl, n) = 0 /\ MilliOn(pl, n) = 0
      BY <1>3
    <3> QED
      BY <1>1, <3>1
  <2> HIDE DEF f, g, used, milli, U
  <2> QED
    BY <1>1, <2>1, <2>2, <2>3, <2>4, <2>5
<1>6. SumFunction(f) = SumOver(f, U) /\ SumFunction(g) = SumOver(g, U)
  BY SumOfFunction
<1> HIDE DEF f, g, used, milli, U
<1>7. SumOver(used, Nodes) = SumOver(f, U)
  BY <1>1, <1>2, <1>5, SumFilter
<1>8. SumOver(milli, Nodes) = SumOver(g, U)
  BY <1>1, <1>2, <1>5, SumFilter
<1>9. SumOver(used, Nodes) = Cardinality(InUse(pl)) /\ SumOver(milli, Nodes) = MilliInUse(pl)
  BY UsedTotal, MilliTotal DEF used, milli
<1>10. SumFunction(f) = Cardinality(InUse(pl)) /\ SumFunction(g) = MilliInUse(pl)
  BY <1>6, <1>7, <1>8, <1>9
<1> QED
  BY <1>10 DEF f, g, U

(***************************************************************************)
(* GetNodeAllocMap, which reads the annotations.                           *)
(***************************************************************************)
LEMMA AllocIs ==
  ASSUME Held(placed)
  PROVE  /\ AllocationRate["gpu"] = Cardinality(InUse(placed))
         /\ AllocationRate["milli"] = MilliInUse(placed)
<1>1. \A n \in Nodes : On(n) = OnAs(placed, n) /\ \A i : GpuUsedMilli(n, i) = HeldOf(placed, n, i)
  <2> TAKE n \in Nodes
  <2>1. On(n) = OnAs(placed, n)
    BY DEF On, OnAs
  <2>2. \A i : GpuUsedMilli(n, i) = HeldOf(placed, n, i)
    BY <2>1, SumOfFunction DEF GpuUsedMilli, HeldOf, Holders, MilliOf
  <2> QED
    BY <2>1, <2>2
<1>2. \A n \in Nodes : AllocMap(n)["gpu"] = UsedOn(placed, n) /\ AllocMap(n)["milli"] = MilliOn(placed, n)
  <2> TAKE n \in Nodes
  <2>1. AllocMap(n)["gpu"] = UsedOn(placed, n)
    BY <1>1 DEF AllocMap, UsedOn, Devs
  <2>2. SumFunction([i \in Devs(n) |-> HeldOf(placed, n, i)]) = MilliOn(placed, n)
    BY SumOfFunction DEF MilliOn
  <2>3. AllocMap(n)["milli"] = SumFunction([i \in Devs(n) |-> HeldOf(placed, n, i)])
    BY <1>1 DEF AllocMap, Devs
  <2> QED
    BY <2>1, <2>2, <2>3
<1>3. /\ AllocationRate["gpu"] = SumFunction([n \in Nodes |-> UsedOn(placed, n)])
      /\ AllocationRate["milli"] = SumFunction([n \in Nodes |-> MilliOn(placed, n)])
  BY <1>2 DEF AllocationRate
<1>4. /\ SumFunction([n \in Nodes |-> UsedOn(placed, n)]) = SumOver([n \in Nodes |-> UsedOn(placed, n)], Nodes)
      /\ SumFunction([n \in Nodes |-> MilliOn(placed, n)]) = SumOver([n \in Nodes |-> MilliOn(placed, n)], Nodes)
  BY SumOfFunction
<1> QED
  BY <1>3, <1>4, UsedTotal, MilliTotal

LEMMA AmountIsInt ==
  ASSUME NEW node, node.gpu \in Seq(Int), NEW ty \in Distributions, NEW t \in FragTypes
  PROVE  NodeGpuShareFragAmount(node, ty)[t] \in Int
<1>1. IsFiniteSet(DOMAIN ty) /\ \A q \in DOMAIN ty : ty[q] \in Nat \ {0}
  BY DescheduleAssumption
<1>2. GetTotalMilliGpuLeft(node) \in Int /\ \A q : FragOf(node, q) \in Int
  BY LeftIsInt, FragIsInt
<1> DEFINE f == [pod \in DOMAIN ty |-> ty[pod] * (GetTotalMilliGpuLeft(node) - FragOf(node, pod))]
           P == { p \in DOMAIN ty : FragType(node, p) = t }
           g == [pod \in P |-> ty[pod] * FragOf(node, pod)]
<1>3. NodeGpuShareFragAmount(node, ty)[t] = IF t = Q3Satisfied THEN SumOver(f, DOMAIN ty) ELSE SumOver(g, P)
  BY SumOfFunction DEF NodeGpuShareFragAmount
<1>4. IsFiniteSet(P) /\ P \in SUBSET DOMAIN ty
  BY <1>1, FS_Subset
<1>5. \A pod \in DOMAIN ty : f[pod] \in Int
  BY <1>1, <1>2
<1>6. \A pod \in P : g[pod] \in Int
  BY <1>1, <1>2
<1> HIDE DEF f, g, P
<1>7. SumOver(f, DOMAIN ty) \in Int /\ SumOver(g, P) \in Int
  BY <1>1, <1>4, <1>5, <1>6, SumInt
<1> QED
  BY <1>3, <1>7

(***************************************************************************)
(* ClusterAnalysis: the amounts of all kinds on all nodes, and what is in  *)
(* use, are all there is.                                                  *)
(***************************************************************************)
LEMMA AllAccountedFor ==
  ASSUME NEW pl, Held(pl), NEW ty \in Distributions, NEW amounts,
         \A n \in Nodes : amounts[n] = NodeGpuShareFragAmount(LoadedAs(pl, n, OnAs(pl, n)), ty)
  PROVE  SumFunction([t \in FragTypes |-> AddFragAmounts(amounts, Nodes)[t]]) + SumFunction(ty) * MilliInUse(pl)
           = SumFunction(ty) * SumFunction([n \in Nodes |-> MILLI * Len(NodeRes[n].gpu)])
<1> DEFINE T == FragTypes
           W == SumFunction(ty)
           node(n) == LoadedAs(pl, n, OnAs(pl, n))
           f == [t \in T |-> [n \in Nodes |-> amounts[n][t]]]
           c == [n \in Nodes |-> [t \in T |-> amounts[n][t]]]
           g == [t \in T |-> AddFragAmounts(amounts, Nodes)[t]]
           left  == [n \in Nodes |-> GetTotalMilliGpuLeft(node(n))]
           h     == [n \in Nodes |-> W * left[n]]
           milli == [n \in Nodes |-> MilliOn(pl, n)]
           cap   == [n \in Nodes |-> MILLI * Len(NodeRes[n].gpu)]
<1>1. IsFiniteSet(Nodes) /\ IsFiniteSet(T)
  BY DescheduleAssumption, KindsFinite
<1>2. W \in Nat \ {0} /\ W \in Int /\ IsFiniteSet(DOMAIN ty) /\ \A q \in DOMAIN ty : ty[q] \in Int
  BY TypicalIs, DescheduleAssumption
<1>3. \A n \in Nodes : node(n).gpu \in Seq(Int)
  <2> TAKE n \in Nodes
  <2>1. OnAs(pl, n) \in SUBSET Pods
    BY DEF OnAs
  <2>2. node(n) \in Keyed
    BY <2>1, LoadedKeyed
  <2> HIDE DEF node
  <2> QED
    BY <2>2 DEF Keyed, NodeResources
<1>4. \A n \in Nodes, t \in T : amounts[n][t] \in Int
  BY <1>3, AmountIsInt
<1>5. \A n \in Nodes : /\ left[n] \in Int /\ milli[n] \in Int
                       /\ cap[n] = left[n] + milli[n]
  <2> TAKE n \in Nodes
  <2> DEFINE x == node(n)
  <2>1. x = LoadedAs(pl, n, OnAs(pl, n))
    OBVIOUS
  <2>2. left[n] = GetTotalMilliGpuLeft(x) /\ milli[n] = MilliOn(pl, n) /\ cap[n] = MILLI * Len(NodeRes[n].gpu)
    OBVIOUS
  <2> HIDE DEF x, left, milli, cap
  <2>3. /\ GetTotalMilliGpuLeft(x) \in Int /\ MilliOn(pl, n) \in Nat
        /\ GetTotalMilliGpuLeft(x) + MilliOn(pl, n) = MILLI * Len(NodeRes[n].gpu)
    BY <2>1, OnNode
  <2> QED
    BY <2>2, <2>3
<1>6. RowSums(f, T, Nodes, g)
  <2> SUFFICES ASSUME NEW t \in T PROVE g[t] = SumOver(f[t], Nodes)
    BY DEF RowSums
  <2>1. g[t] = SumFunction([n \in Nodes |-> amounts[n][t]])
    BY DEF AddFragAmounts
  <2>2. f[t] = [n \in Nodes |-> amounts[n][t]]
    OBVIOUS
  <2>3. SumFunction([n \in Nodes |-> amounts[n][t]]) = SumOver([n \in Nodes |-> amounts[n][t]], Nodes)
    BY SumOfFunction
  <2> QED
    BY <2>1, <2>2, <2>3
<1>7. RowSums(c, Nodes, T, h)
  <2> SUFFICES ASSUME NEW n \in Nodes PROVE h[n] = SumOver(c[n], T)
    BY DEF RowSums
  <2> DEFINE x == node(n)
             amount == NodeGpuShareFragAmount(x, ty)
  <2>1. x.gpu \in Seq(Int)
    BY <1>3
  <2>2. amounts[n] = amount /\ left[n] = GetTotalMilliGpuLeft(x)
    OBVIOUS
  <2>3. c[n] = [t \in T |-> amount[t]] /\ h[n] = W * left[n]
    BY <2>2
  <2> HIDE DEF x
  <2>4. SumFunction([t \in FragTypes |-> amount[t]]) = SumFunction([q \in DOMAIN ty |-> ty[q]]) * GetTotalMilliGpuLeft(x)
    BY <1>2, <2>1, AmountsAddUp
  <2>5. SumFunction([q \in DOMAIN ty |-> ty[q]]) = W
    <3> DEFINE d == [q \in DOMAIN ty |-> ty[q]]
    <3>1. SumFunction(d) = SumOver(d, DOMAIN ty) /\ SumFunction(ty) = SumOver(ty, DOMAIN ty)
      BY SumOfFunction
    <3>2. \A q \in DOMAIN ty : d[q] = ty[q] /\ d[q] \in Int
      BY <1>2
    <3> HIDE DEF d
    <3>3. SumOver(d, DOMAIN ty) = SumOver(ty, DOMAIN ty)
      BY <1>2, <3>2, SumSame
    <3> QED
      BY <3>1, <3>3 DEF d
  <2>6. SumFunction([t \in FragTypes |-> amount[t]]) = SumOver([t \in T |-> amount[t]], T)
    BY SumOfFunction
  <2> HIDE DEF amount, c, h, left, W
  <2> QED
    BY <2>2, <2>3, <2>4, <2>5, <2>6
<1>8. SumFunction(g) = SumOver(g, T) /\ SumFunction(cap) = SumOver(cap, Nodes)
  BY SumOfFunction
<1>9. \A t \in T, n \in Nodes : f[t][n] \in Int /\ c[n][t] = f[t][n]
  BY <1>4
<1>10. \A n \in Nodes : h[n] = W * left[n]
  OBVIOUS
<1>11. SumOver(milli, Nodes) = MilliInUse(pl)
  BY MilliTotal
<1> HIDE DEF T, W, node, f, c, g, left, h, milli, cap
<1>12. SumOver(g, T) = SumOver(h, Nodes)
  BY <1>1, <1>6, <1>7, <1>9, SumSwap
<1>13. SumOver(h, Nodes) = W * SumOver(left, Nodes)
  BY <1>1, <1>2, <1>5, <1>10, SumTimes
<1>14. SumOver(cap, Nodes) = SumOver(left, Nodes) + SumOver(milli, Nodes)
  BY <1>1, <1>5, SumPlus
<1>15. SumOver(left, Nodes) \in Int /\ SumOver(milli, Nodes) \in Int
  BY <1>1, <1>5, SumInt
<1> DEFINE a == SumOver(left, Nodes)
           b == SumOver(milli, Nodes)
<1>16. W * a + W * b = W * (a + b)
  <2> HIDE DEF a, b
  <2>1. a \in Int /\ b \in Int
    BY <1>15 DEF a, b
  <2> QED
    BY <1>2, <2>1
<1>17. SumFunction(g) + W * MilliInUse(pl) = W * SumFunction(cap)
  BY <1>8, <1>11, <1>12, <1>13, <1>14, <1>16
<1> QED
  BY <1>17 DEF g, W, cap, T

(***************************************************************************)
(* What the property says of the reports, in these terms.                  *)
(***************************************************************************)
ReportFields == {"used", "usedMilli", "frag", "alloc"}

LEMMA ReportHasFields == Spec => [](DOMAIN report = ReportFields)
<1>1. Init => DOMAIN report = ReportFields
  BY DEF Init, ReportFields
<1>2. DOMAIN report = ReportFields /\ [Next]_vars => (DOMAIN report = ReportFields)'
  <2> SUFFICES ASSUME DOMAIN report = ReportFields, [Next]_vars PROVE DOMAIN report' = ReportFields
    OBVIOUS
  <2>1. CASE PostEviction
    BY <2>1 DEF PostEviction, ClusterAnalysis
  <2>2. CASE Reschedule
    <3>1. report' = ClusterGpuFragReport(NodeResourceMap')
      BY <2>2 DEF Reschedule
    <3> QED
      BY <3>1 DEF ClusterGpuFragReport
  <2>3. CASE ~PostEviction /\ ~Reschedule
    <3>1. report' = report
      BY <2>3 DEF Next, Step, Begin, CosSimNode, FragOnePod, FragMultiPod, Return, SetTypicalPods, Done, vars
    <3> QED
      BY <3>1
  <2> QED
    BY <2>1, <2>2, <2>3
<1> QED
  BY <1>1, <1>2, PTL DEF Spec

\* After a pod was scheduled (ClusterGpuFragReport).
LEMMA ReportedAfterPod ==
  ASSUME DInv(placed, typical, memo, ds), DOMAIN report = ReportFields, Reschedule
  PROVE  report'.used = Cardinality(InUse(placed')) /\ report'.usedMilli = MilliInUse(placed')
<1>1. Held(placed')
  <2>1. DInv(placed, typical, memo, ds)'
    BY RescheduleInv
  <2> QED
    BY <2>1 DEF DInv
<1> DEFINE res == NodeResourceMap'
           pl == placed'
<1>2. report' = ClusterGpuFragReport(res)
  BY DEF Reschedule
<1>3. \A n \in Nodes : res[n] = LoadedAs(pl, n, OnAs(pl, n))
  <2> TAKE n \in Nodes
  <2>1. res[n] = Loaded(n, On(n))'
    BY DEF NodeResourceMap
  <2>2. Loaded(n, On(n))' = LoadedAs(placed', n, On(n)') /\ On(n)' = OnAs(placed', n)
    BY LoadedNext
  <2> QED
    BY <2>1, <2>2
<1>4. Held(pl)
  BY <1>1
<1> HIDE DEF res, pl
<1>5. /\ SumFunction([n \in UsedNodes(res) |->
                        Cardinality({ i \in DOMAIN res[n].gpu : res[n].gpu[i] # MILLI })])
           = Cardinality(InUse(pl))
      /\ SumFunction([n \in UsedNodes(res) |-> Len(res[n].gpu) * MILLI - GetTotalMilliGpuLeft(res[n])])
           = MilliInUse(pl)
  BY <1>3, <1>4, ReportOf
<1>6. report' = [report EXCEPT !.used = Cardinality(InUse(pl)), !.usedMilli = MilliInUse(pl)]
  BY <1>2, <1>5 DEF ClusterGpuFragReport
<1>7. report'.used = Cardinality(InUse(pl)) /\ report'.usedMilli = MilliInUse(pl)
  BY <1>6 DEF ReportFields
<1> QED
  BY <1>7 DEF pl

\* After the evictions (ClusterAnalysis).
LEMMA ReportedAfterEvictions ==
  ASSUME DInv(placed, typical, memo, ds), DOMAIN report = ReportFields, PostEviction
  PROVE  /\ report'.alloc["gpu"] = Cardinality(InUse(placed)) /\ report'.alloc["milli"] = MilliInUse(placed)
         /\ SumFunction([t \in FragTypes |-> report'.frag[t]]) + SumFunction(typical) * MilliInUse(placed)
              = SumFunction(typical) * SumFunction([n \in Nodes |-> MILLI * Len(NodeRes[n].gpu)])
<1> DEFINE res == NodeResourceMap
           S == { res[n] : n \in Nodes }
           amounts == [n \in Nodes |-> NodeGpuFragAmount(memo', res[n])]
           sums == AddFragAmounts(amounts, Nodes)
<1>1. Held(placed) /\ typical \in Distributions /\ MemoFor(memo, typical) /\ DOMAIN typical \subseteq PodResources
  BY TypicalIs DEF DInv
<1>2. memo' = Remember(S) /\ report' = [report EXCEPT !.frag = sums, !.alloc = AllocationRate]
  BY DEF PostEviction, ClusterAnalysis
<1>3. \A n \in Nodes : res[n] = LoadedAs(placed, n, OnAs(placed, n)) /\ res[n] \in Keyed
  <2> TAKE n \in Nodes
  <2>1. OnAs(placed, n) = On(n) /\ On(n) \in SUBSET Pods
    BY DEF OnAs, On
  <2>2. res[n] = LoadedAs(placed, n, OnAs(placed, n))
    BY <2>1, LoadedIs DEF NodeResourceMap
  <2> QED
    BY <2>1, <2>2, LoadedKeyed
<1>4. S \in SUBSET Keyed /\ \A n \in Nodes : res[n] \in S
  BY <1>3
<1> HIDE DEF res, S
<1>5. \A x \in S : NodeGpuFragAmount(Remember(S), x) = NodeGpuShareFragAmount(x, typical)
  BY <1>1, <1>4, Remembers
<1>6. \A n \in Nodes : amounts[n] = NodeGpuShareFragAmount(LoadedAs(placed, n, OnAs(placed, n)), typical)
  BY <1>2, <1>3, <1>4, <1>5
<1> HIDE DEF amounts
<1>7. SumFunction([t \in FragTypes |-> sums[t]]) + SumFunction(typical) * MilliInUse(placed)
        = SumFunction(typical) * SumFunction([n \in Nodes |-> MILLI * Len(NodeRes[n].gpu)])
  BY <1>1, <1>6, AllAccountedFor
<1> HIDE DEF sums
<1>8. report'.frag = sums /\ report'.alloc = AllocationRate
  BY <1>2 DEF ReportFields
<1>9. AllocationRate["gpu"] = Cardinality(InUse(placed)) /\ AllocationRate["milli"] = MilliInUse(placed)
  BY <1>1, AllocIs
<1> QED
  BY <1>7, <1>8, <1>9

(***************************************************************************)
(* THEOREM: the report after each pod counts the GPUs and the milli-GPU    *)
(* that pods hold, and the analysis after the evictions accounts for every *)
(* milli-GPU of the cluster (ClusterGpuFragReport and ClusterAnalysis,     *)
(* analysis.go).                                                           *)
(***************************************************************************)
THEOREM ReportsAddUp == Spec => ReportIsTrue
<1> DEFINE used == Cardinality({ g \in Nodes \X (1 .. MaxNumGpuPerNode) :
                                   \E p \in Placed : placed[p].node = g[1] /\ g[2] \in placed[p].ids })
           usedMilli == SumFunction([p \in Placed |-> TotalMilliGpu(PodRes[p])])
           capacity  == SumFunction([n \in Nodes |-> MILLI * Len(NodeRes[n].gpu)])
           Tells ==
             /\ ds'.pc = "schedule" /\ ds.pc = "schedule" => report'.used = used' /\ report'.usedMilli = usedMilli'
             /\ ds'.pc = "schedule" /\ ds.pc = "evict" =>
                  /\ report'.alloc.gpu = used /\ report'.alloc.milli = usedMilli
                  /\ SumFunction([t \in FragTypes |-> report'.frag[t]])
                       + Weight * report'.alloc.milli = Weight * capacity
<1>1. DInv(placed, typical, memo, ds) /\ DOMAIN report = ReportFields /\ [Next]_vars => [Tells]_vars
  <2> SUFFICES ASSUME DInv(placed, typical, memo, ds), DOMAIN report = ReportFields, Next PROVE Tells
    OBVIOUS
  <2>1. used = Cardinality(InUse(placed)) /\ usedMilli = MilliInUse(placed)
    <3>1. Placed = PlacedAs(placed)
      BY DEF Placed, PlacedAs
    <3> QED
      BY <3>1, SumOfFunction DEF InUse, MilliInUse
  <2>2. used' = Cardinality(InUse(placed')) /\ usedMilli' = MilliInUse(placed')
    <3>1. Placed' = PlacedAs(placed')
      BY DEF Placed, PlacedAs
    <3> QED
      BY <3>1, SumOfFunction DEF InUse, MilliInUse
  <2> HIDE DEF used, usedMilli
  <2>3. ASSUME ds'.pc = "schedule", ds.pc = "schedule"
        PROVE  report'.used = used' /\ report'.usedMilli = usedMilli'
    <3>1. ~(\E policy \in Policies : Begin(policy)) /\ ~SetTypicalPods /\ ~Done /\ ~PostEviction
      BY <2>3 DEF Begin, SetTypicalPods, Done, PostEviction
    <3>2. ~CosSimNode /\ ~FragOnePod /\ ~FragMultiPod
      BY <2>3 DEF CosSimNode, FragOnePod, FragMultiPod
    <3>3. ~Return
      <4>1. DOMAIN ds = DOMAIN Rest
        BY DEF DInv, DsTyped, Rest
      <4> QED
        BY <2>3, <4>1 DEF Return, Rest
    <3>4. Reschedule
      BY <3>1, <3>2, <3>3 DEF Next, Step
    <3> QED
      BY <2>2, <3>4, ReportedAfterPod
  <2>4. ASSUME ds'.pc = "schedule", ds.pc = "evict"
        PROVE  /\ report'.alloc.gpu = used /\ report'.alloc.milli = usedMilli
               /\ SumFunction([t \in FragTypes |-> report'.frag[t]])
                    + Weight * report'.alloc.milli = Weight * capacity
    <3>1. ~(\E policy \in Policies : Begin(policy)) /\ ~SetTypicalPods /\ ~Done /\ ~Reschedule /\ ~Return
      BY <2>4 DEF Begin, SetTypicalPods, Done, Reschedule, Return
    <3>2. ~CosSimNode /\ ~FragOnePod /\ ~FragMultiPod
      <4>1. "pc" \in DOMAIN ds
        BY DEF DInv, DsTyped
      <4> QED
        BY <2>4, <4>1 DEF CosSimNode, FragOnePod, FragMultiPod
    <3>3. PostEviction
      BY <3>1, <3>2 DEF Next, Step
    <3>4. /\ report'.alloc.gpu = Cardinality(InUse(placed)) /\ report'.alloc.milli = MilliInUse(placed)
          /\ SumFunction([t \in FragTypes |-> report'.frag[t]]) + SumFunction(typical) * MilliInUse(placed)
               = SumFunction(typical) * capacity
      BY <3>3, ReportedAfterEvictions
    <3> QED
      BY <2>1, <3>4 DEF Weight
  <2> QED
    BY <2>3, <2>4
<1> QED
  BY <1>1, DescheduleInvariant, ReportHasFields, PTL DEF ReportIsTrue, Spec

=============================================================================
