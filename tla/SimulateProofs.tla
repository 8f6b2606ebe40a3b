--------------------------- MODULE SimulateProofs ---------------------------
(***************************************************************************)
(* Proofs about Simulate, for every configuration, cluster and bound that  *)
(* the assumptions of Simulate, Workload and TypicalPods admit.  Each      *)
(* property has an inductive invariant, on the way to which:               *)
(*   TypeInv     what the variables hold, and of what kinds the pods are;  *)
(*   NearInv     how far from the target tuning is at each of its stages;  *)
(*   TypicalInv  that the typical pods are those of the workload;          *)
(*   OrderInv    that events are in order, and who is there will leave;    *)
(*   EndsInv     that each pod is there, has failed or is still to come;   *)
(*   DaemonInv   that the daemon sets have their pods;                     *)
(*   LeftInv     that inflation adds pods of names of their own, and only  *)
(*               these.                                                    *)
(***************************************************************************)
EXTENDS Simulate, SumProofs, SequenceTheorems

-----------------------------------------------------------------------------
(* Sequences and orders.                                                   *)

\* A finite set in its order: each element once, and the earlier ones before.
Ranked(R, S, s) ==
  \A k \in 1 .. Cardinality(S) : s[k] \in S /\ Cardinality(Below(R, S, s[k])) = k - 1

LEMMA RankOrder ==
  ASSUME NEW S, IsFiniteSet(S), NEW R, IsOrder(R, S), NEW s, Ranked(R, S, s)
  PROVE  LET D == 1 .. Cardinality(S)
         IN /\ Cardinality(S) \in Nat /\ \A i \in D : s[i] \in S
            /\ \A i, j \in D : s[i] = s[j] => i = j
            /\ \A x \in S : \E i \in D : s[i] = x
            /\ \A i, j \in D : i < j => <<s[i], s[j]>> \in R
<1> DEFINE n == Cardinality(S)
           D == 1 .. n
           rank == [x \in S |-> Cardinality(Below(R, S, x))]
<1>1. n \in Nat
  BY FS_CardinalityType
<1>2. /\ \A k \in D : \E x \in S : rank[x] = k - 1
      /\ \A x, y \in S : rank[x] = rank[y] => x = y
  BY RankFound
<1>3. /\ \A x \in S : rank[x] \in 0 .. n - 1
      /\ \A x, y \in S : <<x, y>> \in R => rank[x] < rank[y]
  BY BelowGrows
<1>4. \A k \in D : s[k] \in S /\ rank[s[k]] = k - 1
  BY DEF Ranked
<1> HIDE DEF n, rank
<1>7. \A i, j \in D : s[i] = s[j] => i = j
  BY <1>1, <1>4
<1>8. \A x \in S : \E i \in D : s[i] = x
  <2> TAKE x \in S
  <2>1. rank[x] + 1 \in D /\ rank[x] = (rank[x] + 1) - 1
    BY <1>1, <1>3
  <2>2. s[rank[x] + 1] = x
    BY <1>2, <1>4, <2>1
  <2> QED
    BY <2>1, <2>2
<1>9. ASSUME NEW i \in D, NEW j \in D, i < j
      PROVE  <<s[i], s[j]>> \in R
  <2>1. s[i] \in S /\ s[j] \in S /\ rank[s[i]] = i - 1 /\ rank[s[j]] = j - 1 /\ s[i] # s[j]
    BY <1>4, <1>7, <1>9
  <2>2. <<s[i], s[j]>> \in R \/ <<s[j], s[i]>> \in R
    BY <2>1 DEF IsOrder
  <2>3. <<s[j], s[i]>> \in R => j - 1 < i - 1
    BY <1>3, <2>1
  <2> QED
    BY <1>1, <1>9, <2>2, <2>3
<1> QED
  BY <1>1, <1>4, <1>7, <1>8, <1>9 DEF n

\* t has the elements of s in the order b.
Rearranges(b, s, t) ==
  /\ b \in [DOMAIN s -> DOMAIN s]
  /\ \A i, j \in DOMAIN s : b[i] = b[j] => i = j
  /\ \A j \in DOMAIN s : \E i \in DOMAIN s : b[i] = j
  /\ t = [k \in DOMAIN s |-> s[b[k]]]

\* Pairs in their order.
UpTo(x, y) == x[1] < y[1] \/ (x[1] = y[1] /\ x[2] <= y[2])

LEMMA SortedIs ==
  ASSUME NEW n \in Nat, NEW s, DOMAIN s = 1 .. n, NEW key \in [1 .. n -> Int \X Int]
  PROVE  \E b : /\ Rearranges(b, s, Sorted(s, key))
                /\ \A i, j \in 1 .. n : i < j => UpTo(key[b[i]], key[b[j]])
<1> DEFINE D == 1 .. n
           Before(i, j) == \/ key[i][1] < key[j][1]
                           \/ key[i][1] = key[j][1] /\ key[i][2] < key[j][2]
                           \/ key[i] = key[j] /\ i < j
           f == [i \in D |-> key[i][1]]
           g == [i \in D |-> key[i][2]]
           Pre(i, j) == f[i] < f[j] \/ (f[i] = f[j] /\ (g[i] < g[j] \/ (g[i] = g[j] /\ i < j)))
           R == { u \in D \X D : Pre(u[1], u[2]) }
           b == SortBy(D, Before)
           B == [k \in D |-> b[k]]
<1>1. \A i \in D : /\ key[i] = << f[i], g[i] >> /\ f[i] = key[i][1] /\ g[i] = key[i][2]
                   /\ f[i] \in Int /\ g[i] \in Int /\ i \in Int
  OBVIOUS
<1>2. IsFiniteSet(D) /\ Cardinality(D) = n
  <2>1. IsFiniteSet(D) /\ Cardinality(D) = IF 1 > n THEN 0 ELSE n - 1 + 1
    BY FS_Interval
  <2> QED
    BY <2>1
<1>3. \A i, j \in D : (<<i, j>> \in R <=> Pre(i, j)) /\ (Before(i, j) <=> Pre(i, j))
  <2> HIDE DEF D, f, g
  <2>1. \A i, j \in D : <<i, j>> \in R <=> Pre(i, j)
    OBVIOUS
  <2>2. \A i, j \in D : key[i] = key[j] <=> f[i] = f[j] /\ g[i] = g[j]
    BY <1>1
  <2>3. ASSUME NEW i \in D, NEW j \in D
        PROVE  Before(i, j) <=> Pre(i, j)
    <3>1. /\ key[i][1] = f[i] /\ key[j][1] = f[j] /\ key[i][2] = g[i] /\ key[j][2] = g[j]
          /\ key[i] = key[j] <=> f[i] = f[j] /\ g[i] = g[j]
      BY <1>1, <2>2
    <3> QED
      BY <3>1, Zenon
  <2> QED
    BY <2>1, <2>3
<1>4. IsOrder(R, D)
  <2> HIDE DEF D, f, g
  <2>1. ASSUME NEW x \in D, NEW y \in D, NEW z \in D
        PROVE  /\ ~Pre(x, x)
               /\ Pre(x, y) /\ Pre(y, z) => Pre(x, z)
               /\ x # y => Pre(x, y) \/ Pre(y, x)
    <3>1. /\ x \in Int /\ y \in Int /\ z \in Int /\ f[x] \in Int /\ f[y] \in Int /\ f[z] \in Int
          /\ g[x] \in Int /\ g[y] \in Int /\ g[z] \in Int
      BY <1>1
    <3> QED
      BY <3>1, SMTT(30)
  <2> HIDE DEF Pre, R
  <2> QED
    BY <1>3, <2>1 DEF IsOrder
<1>5. Ranked(R, D, b)
  <2> DEFINE low == [x \in D |-> { y \in D : Before(y, x) }]
  <2>1. \A x \in D : Below(R, D, x) = low[x]
    <3> HIDE DEF R, D, Before, Pre
    <3> QED
      BY <1>3 DEF Below
  <2>2. b = [k \in 1 .. Cardinality(D) |-> CHOOSE x \in D : Cardinality({ y \in D : Before(y, x) }) = k - 1]
    <3> HIDE DEF D, Before
    <3> QED
      BY DEF SortBy
  <2>3. \A k \in 1 .. Cardinality(D) : \E x \in D : Cardinality(low[x]) = k - 1
    <3> DEFINE rank == [x \in D |-> Cardinality(Below(R, D, x))]
    <3>1. \A k \in 1 .. Cardinality(D) : \E x \in D : rank[x] = k - 1
      <4>1. \A k \in 1 .. Cardinality(D) : \E x \in D : Cardinality(Below(R, D, x)) = k - 1
        <5>1. IsFiniteSet(D) /\ IsOrder(R, D)
          BY <1>2, <1>4
        <5> HIDE DEF D, R
        <5> QED
          BY ONLY <5>1, RankFound
      <4> HIDE DEF D, R
      <4> QED
        BY <4>1
    <3>2. \A x \in D : rank[x] = Cardinality(low[x])
      <4> HIDE DEF D, low, R
      <4> QED
        BY <2>1
    <3> HIDE DEF D, low, R, rank
    <3> QED
      BY <3>1, <3>2
  <2>4. ASSUME NEW k \in 1 .. Cardinality(D)
        PROVE  b[k] \in D /\ Cardinality(Below(R, D, b[k])) = k - 1
    <3>1. \E x \in D : Cardinality({ y \in D : Before(y, x) }) = k - 1
      <4>1. PICK x \in D : Cardinality(low[x]) = k - 1
        <5> HIDE DEF D, low
        <5> QED
          BY <2>3
      <4>2. low[x] = { y \in D : Before(y, x) }
        <5> HIDE DEF D, Before
        <5> QED
          OBVIOUS
      <4> HIDE DEF D, low, Before
      <4> QED
        BY <4>1, <4>2
    <3>2. b[k] = CHOOSE x \in D : Cardinality({ y \in D : Before(y, x) }) = k - 1
      <4> HIDE DEF D, Before, b
      <4> QED
        BY <2>2
    <3>3. b[k] \in D /\ Cardinality({ y \in D : Before(y, b[k]) }) = k - 1
      <4> HIDE DEF D, Before, b
      <4> QED
        BY <3>1, <3>2
    <3>4. low[b[k]] = { y \in D : Before(y, b[k]) }
      <4> HIDE DEF D, Before, b
      <4> QED
        BY <3>3
    <3> HIDE DEF D, Before, b, R, low
    <3> QED
      BY <2>1, <3>3, <3>4
  <2> HIDE DEF D, b, R
  <2> QED
    BY <2>4 DEF Ranked
<1>6. /\ \A i \in D : b[i] \in D
      /\ \A i, j \in D : b[i] = b[j] => i = j
      /\ \A x \in D : \E i \in D : b[i] = x
      /\ \A i, j \in D : i < j => <<b[i], b[j]>> \in R
  <2>1. 1 .. Cardinality(D) = D
    BY <1>2
  <2> HIDE DEF D, b, R, Before, Pre, f, g
  <2>2. LET C == 1 .. Cardinality(D)
        IN /\ \A i \in C : b[i] \in D
           /\ \A i, j \in C : b[i] = b[j] => i = j
           /\ \A x \in D : \E i \in C : b[i] = x
           /\ \A i, j \in C : i < j => <<b[i], b[j]>> \in R
    <3>1. IsFiniteSet(D) /\ IsOrder(R, D) /\ Ranked(R, D, b)
      BY <1>2, <1>4, <1>5
    <3> QED
      BY ONLY <3>1, RankOrder
  <2> QED
    BY <2>1, <2>2
<1>7. Sorted(s, key) = [k \in D |-> s[b[k]]]
  BY DEF Sorted
<1> HIDE DEF b
<1>8. Rearranges(B, s, Sorted(s, key))
  BY <1>6, <1>7 DEF Rearranges
<1>9. ASSUME NEW i \in D, NEW j \in D, i < j
      PROVE  UpTo(key[B[i]], key[B[j]])
  <2>1. Pre(b[i], b[j]) /\ b[i] \in D /\ b[j] \in D
    <3> HIDE DEF Pre, D, R, f, g
    <3> QED
      BY <1>3, <1>6, <1>9
  <2> DEFINE x == b[i]
             y == b[j]
  <2>2. /\ f[x] \in Int /\ f[y] \in Int /\ g[x] \in Int /\ g[y] \in Int
        /\ key[x][1] = f[x] /\ key[y][1] = f[y] /\ key[x][2] = g[x] /\ key[y][2] = g[y]
    <3> HIDE DEF D, f, g
    <3> QED
      BY <1>1, <2>1
  <2> HIDE DEF D, f, g
  <2> QED
    BY <2>1, <2>2 DEF UpTo
<1> QED
  BY <1>8, <1>9

-----------------------------------------------------------------------------
(***************************************************************************)
(* What a configuration gives: its objects and daemon sets give pods of    *)
(* their kinds, a daemon set one for each node it runs on.  The folds over *)
(* kinds, objects, nodes and sets are recursive functions, unfolded with   *)
(* the theorems of SumProofs.                                              *)
(***************************************************************************)

Objects == [name : Nat, count : Nat, pod : PodRecords]

\* Pods with requests of a given set.
PodsAsking(K) == { p \in PodRecords : p.res \in K }

LEMMA RenamedPod ==
  ASSUME NEW p \in PodRecords, NEW name \in Nat
  PROVE  /\ [p EXCEPT !.name = name] \in PodsAsking({p.res})
         /\ [p EXCEPT !.name = name].res = p.res
<1> DEFINE q == [p EXCEPT !.name = name]
<1>1. q \in PodRecords /\ q.res = p.res
  BY DEF PodRecords
<1> QED
  BY <1>1 DEF PodsAsking

LEMMA NameIsNat == \A x, y \in Nat : Suffixed(x, y) \in Nat
BY DEF Suffixed

LEMMA ReplicasAsk ==
  ASSUME NEW w \in Objects
  PROVE  /\ MakeValidPodsByReplicaSet(w) \subseteq Seq(PodsAsking({w.pod.res}))
         /\ MakeValidPodsByStatefulSet(w) \subseteq Seq(PodsAsking({w.pod.res}))
<1>1. w.name \in Nat /\ w.count \in Nat /\ w.pod \in PodRecords
  BY DEF Objects
<1> DEFINE n == w.count
           P == w.pod
           G == PodsAsking({w.pod.res})
<1>2. \A x \in Nat : [P EXCEPT !.name = Suffixed(w.name, x)] \in G
  BY <1>1, RenamedPod, NameIsNat
<1>3. ASSUME NEW h \in [1 .. n -> Hashes]
      PROVE  [i \in 1 .. n |-> [P EXCEPT !.name = Suffixed(w.name, h[i])]] \in Seq(G)
  <2>1. \A i \in 1 .. n : h[i] \in Nat
    BY WorkloadAssumption
  <2> HIDE DEF n, P, G
  <2>2. [i \in 1 .. n |-> [P EXCEPT !.name = Suffixed(w.name, h[i])]] \in [1 .. n -> G]
    BY <1>2, <2>1
  <2>3. n \in Nat
    BY <1>1 DEF n
  <2> QED
    BY <2>2, <2>3
<1>4. [i \in 1 .. n |-> [P EXCEPT !.name = Suffixed(w.name, i - 1)]] \in Seq(G)
  <2>1. n \in Nat /\ \A i \in 1 .. n : i - 1 \in Nat
    BY <1>1
  <2> HIDE DEF n, P, G
  <2>2. [i \in 1 .. n |-> [P EXCEPT !.name = Suffixed(w.name, i - 1)]] \in [1 .. n -> G]
    BY <1>2, <2>1
  <2> QED
    BY <2>1, <2>2
<1> QED
  BY <1>3, <1>4 DEF MakeValidPodsByReplicaSet, MakeValidPodsByStatefulSet

LEMMA ObjectsAsk ==
  ASSUME NEW k \in DOMAIN Kinds, NEW w \in Objects
  PROVE  PodsOf(Kinds[k], w) \subseteq Seq(PodsAsking({w.pod.res}))
<1> DEFINE G == PodsAsking({w.pod.res})
<1>1. /\ MakeValidPodsByReplicaSet(w) \subseteq Seq(G)
      /\ MakeValidPodsByStatefulSet(w) \subseteq Seq(G)
  BY ReplicasAsk
<1>2. ASSUME NEW h \in Hashes
      PROVE  MakeValidPodsByReplicaSet([w EXCEPT !.name = Suffixed(@, h)]) \subseteq Seq(G)
  <2> DEFINE v == [w EXCEPT !.name = Suffixed(@, h)]
  <2>1. h \in Nat /\ w.name \in Nat
    BY WorkloadAssumption DEF Objects
  <2>2. Suffixed(w.name, h) \in Nat
    BY <2>1, NameIsNat
  <2>3. v \in Objects /\ v.pod = w.pod
    BY <2>2 DEF Objects
  <2> HIDE DEF v
  <2>4. MakeValidPodsByReplicaSet(v) \subseteq Seq(PodsAsking({v.pod.res}))
    BY <2>3, ReplicasAsk
  <2> QED
    BY <2>3, <2>4 DEF v
<1> HIDE DEF G
<1>3. /\ MakeValidPodsByDeployment(w) \subseteq Seq(G)
      /\ MakeValidPodByCronJob(w) \subseteq Seq(G)
  BY <1>2 DEF MakeValidPodsByDeployment, MakeValidPodByCronJob, MakeValidPodByJob
<1>4. /\ MakeValidPodsByReplicationController(w) \subseteq Seq(G)
      /\ MakeValidPodByJob(w) \subseteq Seq(G)
  BY <1>1 DEF MakeValidPodsByReplicationController, MakeValidPodByJob
<1>5. Kinds[k] \in { "Deployments", "ReplicaSets", "ReplicationControllers", "StatefulSets", "Jobs", "CronJobs" }
  BY DEF Kinds
<1>6. PodsOf(Kinds[k], w) \subseteq Seq(G)
  BY <1>1, <1>3, <1>4, <1>5 DEF PodsOf
<1> QED
  BY <1>6 DEF G

LEMMA ConcatsIn ==
  ASSUME NEW G, NEW A \in SUBSET Seq(G), NEW B \in SUBSET Seq(G)
  PROVE  Concats(A, B) \in SUBSET Seq(G)
<1>1. \A a, b \in Seq(G) : a \o b \in Seq(G)
  OBVIOUS
<1>2. \A x \in Concats(A, B) : \E a \in A, b \in B : x = a \o b
  BY DEF Concats
<1>3. ASSUME NEW x \in Concats(A, B)
      PROVE  x \in Seq(G)
  <2>1. PICK a \in A, b \in B : x = a \o b
    BY <1>2
  <2>2. a \in Seq(G) /\ b \in Seq(G)
    OBVIOUS
  <2> QED
    BY <1>1, <2>1, <2>2
<1> QED
  BY <1>3

LEMMA SeqOfMore ==
  ASSUME NEW A, NEW B, A \subseteq B
  PROVE  Seq(A) \subseteq Seq(B)
<1>1. ASSUME NEW s \in Seq(A)
      PROVE  s \in Seq(B)
  <2>1. Len(s) \in Nat /\ s \in [1 .. Len(s) -> B]
    OBVIOUS
  <2> QED
    BY <2>1
<1> QED
  BY <1>1

\* A fold with Op stays in V when Op does.
LEMMA KindGives ==
  ASSUME NEW n \in Nat, NEW seq, DOMAIN seq = 1 .. n, NEW kind, NEW G,
         \A i \in 1 .. n : PodsOf(kind, seq[i]) \subseteq Seq(G), NEW All \in SUBSET Seq(G)
  PROVE  OfKind(All, kind, seq) \in SUBSET Seq(G)
<1> DEFINE D == 1 .. n
           V == SUBSET Seq(G)
           Op(k, v) == Concats(v, PodsOf(kind, seq[k]))
           op == [u \in D \X V |-> Op(u[1], u[2])]
           Eqn(g) == g = [s \in SUBSET D |-> IF s = {} THEN All ELSE Op(Max(s), g[s \ {Max(s)}])]
           it == CHOOSE h : h = [s \in SUBSET DOMAIN seq |->
                                   IF s = {} THEN All ELSE Op(Max(s), h[s \ {Max(s)}])]
           S == { k \in 0 .. n : it[1 .. k] \in V }
<1>1. \A k \in D, v \in V : Op(k, v) \in V /\ op[<<k, v>>] = Op(k, v)
  <2> TAKE k \in D, v \in V
  <2>1. op[<<k, v>>] = Op(k, v)
    OBVIOUS
  <2>2. PodsOf(kind, seq[k]) \in SUBSET Seq(G)
    OBVIOUS
  <2>3. Op(k, v) \in V
    BY <2>2, ConcatsIn
  <2> QED
    BY <2>1, <2>3
<1>2. \E g : Eqn(g)
  <2>1. \A x \in D, v \in V : op[<<x, v>>] \in V
    <3> HIDE DEF V, Op, op
    <3> QED
      BY <1>1
  <2>2. PICK g : /\ g = [s \in SUBSET D |-> IF s = {} THEN All ELSE op[<< Max(s), g[s \ {Max(s)}] >>]]
                 /\ \A s \in SUBSET D : g[s] \in V /\ (s # {} => Max(s) \in D)
    <3> HIDE DEF op
    <3> QED
      BY <2>1, FoldExists
  <2>3. ASSUME NEW s \in SUBSET D, s # {}
        PROVE  op[<< Max(s), g[s \ {Max(s)}] >>] = Op(Max(s), g[s \ {Max(s)}])
    <3>1. g[s \ {Max(s)}] \in V /\ Max(s) \in D
      BY <2>2, <2>3
    <3> HIDE DEF D, V, op, Op
    <3> QED
      BY <1>1, <3>1
  <2> HIDE DEF op, Op, D
  <2>4. Eqn(g)
    BY <2>2, <2>3
  <2> QED
    BY <2>4
<1>3. Eqn(it)
  <2>1. DOMAIN seq = D
    OBVIOUS
  <2> HIDE DEF Op, D
  <2> QED
    BY <1>2, <2>1
<1>4. OfKind(All, kind, seq) = it[1 .. n]
  BY DEF OfKind, FoldLeft, MapThenFoldSet
<1> HIDE DEF it
<1>5. it[{}] = All /\ \A k \in D : it[1 .. k] = Op(k, it[1 .. (k - 1)])
  <2> HIDE DEF Op
  <2>1. it[{}] = All
    BY <1>3
  <2>2. ASSUME NEW k \in D
        PROVE  it[1 .. k] = Op(k, it[1 .. (k - 1)])
    <3>1. 1 .. k \in SUBSET D /\ Max(1 .. k) = k /\ (1 .. k) \ {k} = 1 .. (k - 1) /\ 1 .. k # {}
      BY MaxUpTo
    <3> HIDE DEF D
    <3> QED
      BY <1>3, <3>1
  <2> QED
    BY <2>1, <2>2
<1>6. \A k \in 0 .. n : k \in S
  <2>1. 0 \in S
    <3>1. 1 .. 0 = {}
      OBVIOUS
    <3> QED
      BY <1>5, <3>1
  <2>2. ASSUME NEW k \in D, k - 1 \in S
        PROVE  k \in S
    <3> DEFINE v == it[1 .. (k - 1)]
    <3>1. v \in V
      BY <2>2
    <3>2. Op(k, v) \in V /\ it[1 .. k] = Op(k, v)
      <4> HIDE DEF Op, V
      <4> QED
        BY <1>1, <1>5, <3>1, Zenon
    <3> HIDE DEF Op, V, v
    <3> QED
      BY <3>2
  <2> HIDE DEF S
  <2>3. S \in SUBSET (0 .. n)
    BY DEF S
  <2> QED
    BY <2>1, <2>2, <2>3, UpToAll
<1> QED
  BY <1>4, <1>6

\* Whatever pods the objects but daemon sets give, they are pods that ask for
\* what the configuration says.
LEMMA ImportedAsk ==
  ASSUME NEW r, IsConfiguration(r), NEW s \in GetValidPodExcludeDaemonSet(r)
  PROVE  s \in Seq(PodsAsking(Asked(r)))
<1> DEFINE D == 1 .. 6
           G == PodsAsking(Asked(r))
           V == SUBSET Seq(G)
           Op(k, v) == OfKind(v, Kinds[k], r[Kinds[k]])
           base == { r.pods }
           op == [u \in D \X V |-> Op(u[1], u[2])]
           Eqn(g) == g = [t \in SUBSET D |-> IF t = {} THEN base ELSE Op(Max(t), g[t \ {Max(t)}])]
           it == CHOOSE h : h = [t \in SUBSET DOMAIN Kinds |->
                                   IF t = {} THEN base ELSE Op(Max(t), h[t \ {Max(t)}])]
           S == { k \in 0 .. 6 : it[1 .. k] \in V }
<1>0. DOMAIN Kinds = D
  BY DEF Kinds
<1>1. \A k \in D, v \in V : Op(k, v) \in V /\ op[<<k, v>>] = Op(k, v)
  <2> TAKE k \in D, v \in V
  <2>1. op[<<k, v>>] = Op(k, v)
    <3> HIDE DEF D, V, Op
    <3> QED
      OBVIOUS
  <2> DEFINE seq == r[Kinds[k]]
  <2>2. seq \in Seq(Objects)
    BY <1>0 DEF IsConfiguration, Objects
  <2>3. Len(seq) \in Nat /\ DOMAIN seq = 1 .. Len(seq) /\ \A i \in 1 .. Len(seq) : seq[i] \in Objects
    <3> HIDE DEF seq
    <3> QED
      BY <2>2
  <2>4. ASSUME NEW i \in 1 .. Len(seq)
        PROVE  PodsOf(Kinds[k], seq[i]) \subseteq Seq(G)
    <3>1. seq[i].pod.res \in Asked(r)
      <4> DEFINE row == { r[Kinds[k]][j].pod.res : j \in DOMAIN r[Kinds[k]] }
      <4>1. seq[i].pod.res \in row
        BY <2>3
      <4>2. row \subseteq Asked(r)
        <5>1. row \in { { r[Kinds[h]][j].pod.res : j \in DOMAIN r[Kinds[h]] } : h \in DOMAIN Kinds }
          BY <1>0
        <5> HIDE DEF row
        <5> QED
          BY <5>1 DEF Asked
      <4> HIDE DEF row, seq
      <4> QED
        BY <4>1, <4>2
    <3>2. PodsAsking({seq[i].pod.res}) \subseteq G
      BY <3>1 DEF PodsAsking
    <3>3. PodsOf(Kinds[k], seq[i]) \subseteq Seq(PodsAsking({seq[i].pod.res}))
      <4> HIDE DEF seq
      <4> QED
        BY <1>0, <2>3, ObjectsAsk
    <3> HIDE DEF seq, G
    <3>4. Seq(PodsAsking({seq[i].pod.res})) \subseteq Seq(G)
      BY <3>2, SeqOfMore
    <3> QED
      BY <3>3, <3>4
  <2>5. Op(k, v) \in V
    <3> DEFINE n == Len(seq)
               kind == Kinds[k]
    <3>1. n \in Nat /\ DOMAIN seq = 1 .. n /\ \A i \in 1 .. n : PodsOf(kind, seq[i]) \subseteq Seq(G)
      BY <2>3, <2>4
    <3>2. OfKind(v, kind, seq) \in V
      <4> HIDE DEF n, kind, seq, G
      <4> QED
        BY <3>1, KindGives
    <3> QED
      BY <3>2
  <2> QED
    BY <2>1, <2>5
<1>1a. base \in V
  <2>1. r.pods \in Seq(PodRecords) /\ \A i \in DOMAIN r.pods : r.pods[i].res \in Asked(r)
    BY DEF IsConfiguration, Asked
  <2>2. \A i \in DOMAIN r.pods : r.pods[i] \in G
    BY <2>1 DEF PodsAsking
  <2>3. r.pods \in Seq(G)
    <3> HIDE DEF G
    <3> QED
      BY <2>1, <2>2
  <2> QED
    BY <2>3
<1>2. \E g : Eqn(g)
  <2>1. \A x \in D, v \in V : op[<<x, v>>] \in V
    <3> HIDE DEF V, Op, op
    <3> QED
      BY <1>1
  <2>2. PICK g : /\ g = [t \in SUBSET D |-> IF t = {} THEN base ELSE op[<< Max(t), g[t \ {Max(t)}] >>]]
                 /\ \A t \in SUBSET D : g[t] \in V /\ (t # {} => Max(t) \in D)
    <3> HIDE DEF op, base, V
    <3> QED
      BY <1>1a, <2>1, FoldExists
  <2>3. ASSUME NEW t \in SUBSET D, t # {}
        PROVE  op[<< Max(t), g[t \ {Max(t)}] >>] = Op(Max(t), g[t \ {Max(t)}])
    <3>1. g[t \ {Max(t)}] \in V /\ Max(t) \in D
      <4> HIDE DEF Op, op, V
      <4> QED
        BY <2>2, <2>3
    <3> HIDE DEF D, V, op, Op
    <3> QED
      BY <1>1, <3>1
  <2> HIDE DEF op, Op, D
  <2>4. Eqn(g)
    BY <2>2, <2>3
  <2> QED
    BY <2>4
<1>3. Eqn(it)
  <2> HIDE DEF Op, D, base
  <2> QED
    BY <1>0, <1>2
<1>4. GetValidPodExcludeDaemonSet(r) = it[1 .. 6]
  BY <1>0 DEF FoldLeft, MapThenFoldSet, GetValidPodExcludeDaemonSet
<1> HIDE DEF it
<1>5. it[{}] = base /\ \A k \in D : it[1 .. k] = Op(k, it[1 .. (k - 1)])
  <2> HIDE DEF Op, base
  <2>1. it[{}] = base
    BY <1>3
  <2>2. ASSUME NEW k \in D
        PROVE  it[1 .. k] = Op(k, it[1 .. (k - 1)])
    <3>1. 1 .. k \in SUBSET D /\ Max(1 .. k) = k /\ (1 .. k) \ {k} = 1 .. (k - 1) /\ 1 .. k # {}
      BY MaxUpTo, SMTT(30)
    <3> HIDE DEF D
    <3> QED
      BY <1>3, <3>1
  <2> QED
    BY <2>1, <2>2
<1>6. \A k \in 0 .. 6 : k \in S
  <2> HIDE DEF Op, V, base
  <2>1. 0 \in S
    <3>1. 1 .. 0 = {}
      OBVIOUS
    <3> QED
      BY <1>1a, <1>5, <3>1
  <2>2. ASSUME NEW k \in D, k - 1 \in S
        PROVE  k \in S
    <3> DEFINE v == it[1 .. (k - 1)]
    <3>1. v \in V
      BY <2>2
    <3>2. Op(k, v) \in V /\ it[1 .. k] = Op(k, v)
      BY <1>1, <1>5, <3>1, Zenon
    <3> HIDE DEF v
    <3> QED
      BY <3>2
  <2> HIDE DEF S
  <2>3. S \in SUBSET (0 .. 6)
    BY DEF S
  <2> QED
    BY <2>1, <2>2, <2>3, UpToAll
<1>7. it[1 .. 6] \in V
  <2> HIDE DEF V
  <2> QED
    BY <1>6
<1> QED
  BY <1>4, <1>7

LEMMA NodesInOrder ==
  LET s == SortBy(Nodes, <)
      n == Cardinality(Nodes)
  IN /\ n \in Nat /\ DOMAIN s = 1 .. n
     /\ \A k \in 1 .. n : s[k] \in Nodes
     /\ \A j, k \in 1 .. n : s[j] = s[k] => j = k
     /\ \A x \in Nodes : \E k \in 1 .. n : s[k] = x
<1> DEFINE s == SortBy(Nodes, <)
           R == { u \in Nodes \X Nodes : u[1] < u[2] }
           low == [x \in Nodes |-> { y \in Nodes : y < x }]
<1>1. IsFiniteSet(Nodes) /\ Nodes \subseteq Nat
  BY WorkloadAssumption
<1>2. IsOrder(R, Nodes) /\ \A x \in Nodes : Below(R, Nodes, x) = low[x]
  BY <1>1 DEF IsOrder, Below
<1>3. \A k \in 1 .. Cardinality(Nodes) : s[k] = CHOOSE x \in Nodes : Cardinality({ y \in Nodes : y < x }) = k - 1
  BY DEF SortBy
<1>4. \A k \in 1 .. Cardinality(Nodes) : \E x \in Nodes : Cardinality(low[x]) = k - 1
  <2>1. \A k \in 1 .. Cardinality(Nodes) : \E x \in Nodes : Cardinality(Below(R, Nodes, x)) = k - 1
    <3>1. IsFiniteSet(Nodes) /\ IsOrder(R, Nodes)
      BY <1>1, <1>2
    <3> HIDE DEF R, low, s
    <3> QED
      BY ONLY <3>1, RankFound
  <2> HIDE DEF R, low, s
  <2> QED
    BY <1>2, <2>1
<1>5. DOMAIN s = 1 .. Cardinality(Nodes)
  BY DEF SortBy
<1> HIDE DEF s
<1>6. ASSUME NEW k \in 1 .. Cardinality(Nodes)
      PROVE  s[k] \in Nodes /\ Cardinality(Below(R, Nodes, s[k])) = k - 1
  <2>1. \E x \in Nodes : Cardinality({ y \in Nodes : y < x }) = k - 1
    BY <1>4
  <2>2. s[k] \in Nodes /\ Cardinality({ y \in Nodes : y < s[k] }) = k - 1
    BY <1>3, <2>1
  <2>3. low[s[k]] = { y \in Nodes : y < s[k] }
    BY <2>2
  <2> HIDE DEF R, low
  <2> QED
    BY <1>2, <2>2, <2>3
<1>7. IsFiniteSet(Nodes) /\ IsOrder(R, Nodes) /\ Ranked(R, Nodes, s)
  <2> HIDE DEF R
  <2> QED
    BY <1>1, <1>2, <1>6 DEF Ranked
<1> HIDE DEF R
<1>8. LET D == 1 .. Cardinality(Nodes)
      IN /\ Cardinality(Nodes) \in Nat /\ \A i \in D : s[i] \in Nodes
         /\ \A i, j \in D : s[i] = s[j] => i = j
         /\ \A x \in Nodes : \E i \in D : s[i] = x
  BY ONLY <1>7, RankOrder
<1> QED
  BY <1>5, <1>8 DEF s

\* Whether an affinity, of a template and not pinned, lets a pod run on a node.
Runs(affinity, n) == affinity = {} \/ \E t \in affinity : n \in t.labels

\* Pinned to a node an affinity admits that node if it did before, whatever it was
\* pinned to, and no other.
LEMMA PinnedAdmits ==
  ASSUME NEW affinity \in SUBSET Terms, NEW n \in Nodes
  PROVE  LET pinned == SetDaemonSetPodNodeNameByNodeAffinity(affinity, n)
         IN /\ pinned \in SUBSET Terms
            /\ \A m \in Nodes : Runs(pinned, m) <=> Runs(affinity, m)
            /\ Admits(pinned) = IF Runs(affinity, n) THEN {n} ELSE {}
<1> DEFINE pin(t) == [t EXCEPT !.fields = {n}]
           pinned == SetDaemonSetPodNodeNameByNodeAffinity(affinity, n)
           whole == [labels |-> Nodes, fields |-> {n}]
<1>1. \A t \in affinity : pin(t) \in Terms /\ pin(t).labels = t.labels /\ pin(t).fields = {n}
  BY DEF Terms
<1>2. CASE affinity = {}
  <2>1. pinned = { whole }
    BY <1>2 DEF SetDaemonSetPodNodeNameByNodeAffinity
  <2>2. whole \in Terms /\ whole.labels = Nodes /\ whole.fields = {n}
    BY DEF Terms
  <2>3. \A m \in Nodes : Runs(pinned, m) /\ Runs(affinity, m)
    BY <1>2, <2>1, <2>2 DEF Runs
  <2>4. Admits(pinned) = {n}
    BY <2>1, <2>2 DEF Admits
  <2> HIDE DEF whole, pinned
  <2>5. pinned \in SUBSET Terms
    BY <2>1, <2>2
  <2> QED
    BY <2>3, <2>4, <2>5 DEF pinned
<1>3. CASE affinity # {}
  <2>1. pinned = { pin(t) : t \in affinity }
    BY <1>3 DEF SetDaemonSetPodNodeNameByNodeAffinity
  <2> HIDE DEF pin, pinned
  <2>2. pinned \in SUBSET Terms /\ pinned # {}
    BY <1>1, <1>3, <2>1
  <2>3. \A m \in Nodes : Runs(pinned, m) <=> Runs(affinity, m)
    BY <1>1, <1>3, <2>1, <2>2 DEF Runs
  <2>4. \A m \in Nodes : (\E t \in pinned : m \in t.labels \cap t.fields) <=> m = n /\ Runs(affinity, n)
    BY <1>1, <1>3, <2>1 DEF Runs
  <2>5. Admits(pinned) = IF Runs(affinity, n) THEN {n} ELSE {}
    BY <2>4 DEF Admits
  <2> QED
    BY <2>2, <2>3, <2>5 DEF pinned
<1> QED
  BY <1>2, <1>3

DaemonSetRecords ==
  [name : Nat, affinity : SUBSET Terms, shared : BOOLEAN, tolerates : SUBSET Nodes, pod : PodRecords]

\* The nodes a daemon set runs on.
RunsOn(ds) == { n \in ds.tolerates : Runs(ds.affinity, n) }

\* A pod of a daemon set on the node n.
IsDaemonOn(pod, ds, hash, n) ==
  pod.only = {n} /\ pod.name = Suffixed(ds.name, hash[n])

MadePod(ds, hash, n, only) == [ds.pod EXCEPT !.name = Suffixed(ds.name, hash[n]), !.only = only]

LEMMA DaemonPod ==
  ASSUME NEW ds \in DaemonSetRecords, NEW hash \in [Nodes -> Hashes], NEW n \in Nodes,
         NEW only \in SUBSET Nodes
  PROVE  /\ MadePod(ds, hash, n, only) \in PodsAsking({ds.pod.res})
         /\ MadePod(ds, hash, n, only).name = Suffixed(ds.name, hash[n])
         /\ MadePod(ds, hash, n, only).only = only
<1> DEFINE P == ds.pod
           name == Suffixed(ds.name, hash[n])
           pod == MadePod(ds, hash, n, only)
<1>0. pod = [P EXCEPT !.name = name, !.only = only]
  BY DEF MadePod
<1>1. P \in PodRecords /\ ds.name \in Nat /\ hash[n] \in Nat
  BY WorkloadAssumption DEF DaemonSetRecords
<1>2. name \in Nat
  BY <1>1, NameIsNat
<1> HIDE DEF P, name, pod
<1>3. pod \in PodRecords /\ pod.res = P.res /\ pod.name = name /\ pod.only = only
  BY <1>0, <1>1, <1>2 DEF PodRecords
<1> QED
  BY <1>3 DEF PodsAsking, P, name, pod

\* The ps of a daemon set once it was looked at the first k nodes.
PlacedUpTo(ps, ds, hash, s, k) ==
  /\ \A i \in DOMAIN ps : \E j \in 1 .. k : s[j] \in RunsOn(ds) /\ IsDaemonOn(ps[i], ds, hash, s[j])
  /\ \A j \in 1 .. k : s[j] \in RunsOn(ds) => \E i \in DOMAIN ps : IsDaemonOn(ps[i], ds, hash, s[j])
  /\ \A i, j \in DOMAIN ps : ps[i].only = ps[j].only => i = j

LEMMA PlacedOneMore ==
  ASSUME NEW G, NEW ps \in Seq(G), NEW pod \in G, NEW ds, NEW hash, NEW n \in Nat, NEW s, NEW k \in 1 .. n,
         \A i, j \in 1 .. n : s[i] = s[j] => i = j, PlacedUpTo(ps, ds, hash, s, k - 1)
  PROVE  /\ s[k] \in RunsOn(ds) /\ IsDaemonOn(pod, ds, hash, s[k])
              => PlacedUpTo(Append(ps, pod), ds, hash, s, k)
         /\ s[k] \notin RunsOn(ds) => PlacedUpTo(ps, ds, hash, s, k)
<1>1. \A j \in 1 .. k : j \in 1 .. n /\ (j \in 1 .. (k - 1) \/ j = k)
  OBVIOUS
<1>1a. \A j \in 1 .. (k - 1) : j \in 1 .. k /\ j \in 1 .. n /\ j # k
  OBVIOUS
<1>1b. k \in 1 .. k
  OBVIOUS
<1>2. ASSUME s[k] \in RunsOn(ds), IsDaemonOn(pod, ds, hash, s[k])
      PROVE  PlacedUpTo(Append(ps, pod), ds, hash, s, k)
  <2> DEFINE t == Append(ps, pod)
             l == Len(ps)
  <2>1. /\ l \in Nat /\ DOMAIN ps = 1 .. l /\ DOMAIN t = 1 .. (l + 1)
        /\ \A i \in 1 .. l : t[i] = ps[i]
        /\ t[l + 1] = pod
    OBVIOUS
  <2> HIDE DEF t, l
  <2>2. \A i \in 1 .. (l + 1) : i \in 1 .. l \/ i = l + 1
    BY <2>1
  <2>2a. l + 1 \in 1 .. (l + 1) /\ \A i \in 1 .. l : i \in 1 .. (l + 1)
    BY <2>1
  <2>3. \A i \in DOMAIN t : \E j \in 1 .. k : s[j] \in RunsOn(ds) /\ IsDaemonOn(t[i], ds, hash, s[j])
    BY <1>1a, <1>1b, <1>2, <2>1, <2>2 DEF PlacedUpTo
  <2>4. \A j \in 1 .. k : s[j] \in RunsOn(ds) => \E i \in DOMAIN t : IsDaemonOn(t[i], ds, hash, s[j])
    BY <1>1, <1>2, <2>1, <2>2a DEF PlacedUpTo
  <2>5. ASSUME NEW i \in 1 .. l
        PROVE  ps[i].only # pod.only
    <3>1. PICK j \in 1 .. (k - 1) : IsDaemonOn(ps[i], ds, hash, s[j])
      BY <2>1 DEF PlacedUpTo
    <3>2. s[j] # s[k]
      BY <1>1a
    <3> QED
      BY <1>2, <3>1, <3>2 DEF IsDaemonOn
  <2>6. \A i, j \in DOMAIN t : t[i].only = t[j].only => i = j
    BY <2>1, <2>2, <2>5 DEF PlacedUpTo
  <2> QED
    BY <2>3, <2>4, <2>6 DEF PlacedUpTo, t
<1>3. ASSUME s[k] \notin RunsOn(ds)
      PROVE  PlacedUpTo(ps, ds, hash, s, k)
  BY <1>1, <1>1a, <1>3 DEF PlacedUpTo
<1> QED
  BY <1>2, <1>3

\* The ps of a daemon set, one on each node it runs on.
LEMMA DaemonPods ==
  ASSUME NEW ds \in DaemonSetRecords, NEW hash \in [Nodes -> Hashes]
  PROVE  LET made == MakeValidPodsByDaemonset(ds, hash)
         IN /\ made \in Seq(PodsAsking({ds.pod.res}))
            /\ \A i \in DOMAIN made : \E n \in RunsOn(ds) : IsDaemonOn(made[i], ds, hash, n)
            /\ \A n \in RunsOn(ds) : \E i \in DOMAIN made : IsDaemonOn(made[i], ds, hash, n)
            /\ \A i, j \in DOMAIN made : made[i].only = made[j].only => i = j
<1> DEFINE G == PodsAsking({ds.pod.res})
           s == SortBy(Nodes, <)
           n == Cardinality(Nodes)
           D == 1 .. n
           V == { v \in [affinity : SUBSET Terms, pods : Seq(G)] :
                    \A m \in Nodes : Runs(v.affinity, m) <=> Runs(ds.affinity, m) }
           Pinned(k, v) == SetDaemonSetPodNodeNameByNodeAffinity(v.affinity, s[k])
           Pod(k, v) == [ds.pod EXCEPT !.name = Suffixed(ds.name, hash[s[k]]), !.only = Admits(Pinned(k, v))]
           Op(k, v) ==
             [affinity |-> IF ds.shared THEN Pinned(k, v) ELSE v.affinity,
              pods |-> IF NodeShouldRunPod(ds, s[k], Pod(k, v)) THEN Append(v.pods, Pod(k, v)) ELSE v.pods]
           base == [affinity |-> ds.affinity, pods |-> <<>>]
           op == [u \in D \X V |-> Op(u[1], u[2])]
           Eqn(g) == g = [t \in SUBSET D |-> IF t = {} THEN base ELSE Op(Max(t), g[t \ {Max(t)}])]
           it == CHOOSE h : h = [t \in SUBSET DOMAIN s |->
                                   IF t = {} THEN base ELSE Op(Max(t), h[t \ {Max(t)}])]
           S == { k \in 0 .. n : it[1 .. k] \in V /\ PlacedUpTo(it[1 .. k].pods, ds, hash, s, k) }
<1>0. /\ n \in Nat /\ DOMAIN s = D
      /\ \A k \in D : s[k] \in Nodes
      /\ \A j, k \in D : s[j] = s[k] => j = k
      /\ \A x \in Nodes : \E k \in D : s[k] = x
  BY NodesInOrder
<1>0a. base \in V
  <2>1. ds.affinity \in SUBSET Terms
    BY DEF DaemonSetRecords
  <2> HIDE DEF G
  <2> QED
    BY <2>1
<1>4a. MakeValidPodsByDaemonset(ds, hash) = it[DOMAIN s].pods
  BY DEF FoldLeft, MapThenFoldSet, MakeValidPodsByDaemonset
<1> HIDE DEF s, n
<1>1. \A k \in D, v \in V : /\ op[<<k, v>>] = Op(k, v) /\ Op(k, v) \in V
                            /\ PlacedUpTo(v.pods, ds, hash, s, k - 1) => PlacedUpTo(Op(k, v).pods, ds, hash, s, k)
  <2> TAKE k \in D, v \in V
  <2>1. op[<<k, v>>] = Op(k, v)
    <3> HIDE DEF D, V, Op
    <3> QED
      OBVIOUS
  <2> DEFINE aff == v.affinity
             ps == v.pods
             m == s[k]
             pinned == SetDaemonSetPodNodeNameByNodeAffinity(aff, m)
             only == Admits(pinned)
             pod == MadePod(ds, hash, m, only)
             now == Op(k, v)
  <2>2. /\ aff \in SUBSET Terms /\ ps \in Seq(G) /\ m \in Nodes
        /\ \A x \in Nodes : Runs(aff, x) <=> Runs(ds.affinity, x)
    <3> HIDE DEF G
    <3> QED
      BY <1>0
  <2>3. now = [affinity |-> IF ds.shared THEN pinned ELSE aff,
               pods |-> IF NodeShouldRunPod(ds, m, pod) THEN Append(ps, pod) ELSE ps]
    BY DEF MadePod
  <2> HIDE DEF aff, ps, m, now
  <2>4. /\ pinned \in SUBSET Terms
        /\ \A x \in Nodes : Runs(pinned, x) <=> Runs(aff, x)
        /\ only = IF Runs(aff, m) THEN {m} ELSE {}
    BY <2>2, PinnedAdmits
  <2> HIDE DEF pinned
  <2>5. only \in SUBSET Nodes
    BY <2>2, <2>4
  <2> HIDE DEF only
  <2>6. pod \in G /\ pod.name = Suffixed(ds.name, hash[m]) /\ pod.only = only
    <3>1. m \in Nodes /\ only \in SUBSET Nodes
      BY <2>2, <2>5
    <3> QED
      BY <3>1, DaemonPod
  <2> HIDE DEF pod
  <2>7. NodeShouldRunPod(ds, m, pod) <=> m \in RunsOn(ds)
    BY <2>2, <2>4, <2>6 DEF NodeShouldRunPod, RunsOn
  <2>8. m \in RunsOn(ds) => IsDaemonOn(pod, ds, hash, m)
    BY <2>2, <2>4, <2>6 DEF RunsOn, IsDaemonOn
  <2>9. now \in V
    <3>1. now.affinity \in SUBSET Terms /\ \A x \in Nodes : Runs(now.affinity, x) <=> Runs(ds.affinity, x)
      BY <2>2, <2>3, <2>4
    <3>2. now.pods \in Seq(G)
      <4> HIDE DEF G
      <4> QED
        BY <2>2, <2>3, <2>6
    <3>3. now = [affinity |-> now.affinity, pods |-> now.pods]
      BY <2>3
    <3>4. now \in [affinity : SUBSET Terms, pods : Seq(G)]
      <4> HIDE DEF G
      <4> QED
        BY <3>1, <3>2, <3>3
    <3> HIDE DEF G
    <3> QED
      BY <3>1, <3>4
  <2>10. PlacedUpTo(ps, ds, hash, s, k - 1) => PlacedUpTo(now.pods, ds, hash, s, k)
    <3> SUFFICES ASSUME PlacedUpTo(ps, ds, hash, s, k - 1) PROVE PlacedUpTo(now.pods, ds, hash, s, k)
      OBVIOUS
    <3>1. /\ s[k] \in RunsOn(ds) /\ IsDaemonOn(pod, ds, hash, s[k])
               => PlacedUpTo(Append(ps, pod), ds, hash, s, k)
          /\ s[k] \notin RunsOn(ds) => PlacedUpTo(ps, ds, hash, s, k)
      <4> HIDE DEF G
      <4> QED
        BY <1>0, <2>2, <2>6, PlacedOneMore, ZenonT(30)
    <3>2. now.pods = IF m \in RunsOn(ds) THEN Append(ps, pod) ELSE ps
      BY <2>3, <2>7
    <3> QED
      BY <2>8, <3>1, <3>2 DEF m
  <2> HIDE DEF Op, op, V
  <2> QED
    BY <2>1, <2>9, <2>10 DEF now, ps
<1>2. \E g : Eqn(g)
  <2>1. \A x \in D, v \in V : op[<<x, v>>] \in V
    <3> HIDE DEF V, Op, op
    <3> QED
      BY <1>1
  <2>2. PICK g : /\ g = [t \in SUBSET D |-> IF t = {} THEN base ELSE op[<< Max(t), g[t \ {Max(t)}] >>]]
                 /\ \A t \in SUBSET D : g[t] \in V /\ (t # {} => Max(t) \in D)
    <3> HIDE DEF op, base, V
    <3> QED
      BY <1>0, <1>0a, <2>1, FoldExists, ZenonT(40)
  <2>3. ASSUME NEW t \in SUBSET D, t # {}
        PROVE  op[<< Max(t), g[t \ {Max(t)}] >>] = Op(Max(t), g[t \ {Max(t)}])
    <3>1. g[t \ {Max(t)}] \in V /\ Max(t) \in D
      <4> HIDE DEF Op, op, V
      <4> QED
        BY <2>2, <2>3
    <3> HIDE DEF D, V, op, Op
    <3> QED
      BY <1>1, <3>1
  <2> HIDE DEF op, Op, D, base
  <2>4. Eqn(g)
    BY <2>2, <2>3
  <2> QED
    BY <2>4
<1>3. Eqn(it)
  <2> HIDE DEF Op, D, base
  <2> QED
    BY <1>0, <1>2
<1> HIDE DEF it
<1>5. it[{}] = base /\ \A k \in D : it[1 .. k] = Op(k, it[1 .. (k - 1)])
  <2> HIDE DEF Op, base
  <2>1. it[{}] = base
    BY <1>3
  <2>2. ASSUME NEW k \in D
        PROVE  it[1 .. k] = Op(k, it[1 .. (k - 1)])
    <3>1. 1 .. k \in SUBSET D /\ Max(1 .. k) = k /\ (1 .. k) \ {k} = 1 .. (k - 1) /\ 1 .. k # {}
      <4>1. n \in Nat /\ k \in 1 .. n /\ k \in 1 .. k
        BY <1>0
      <4>2. 1 .. k \in SUBSET (1 .. n) /\ Max(1 .. k) = k /\ (1 .. k) \ {k} = 1 .. (k - 1)
        BY ONLY <4>1, MaxUpTo
      <4> QED
        BY <4>1, <4>2
    <3> HIDE DEF D
    <3> QED
      BY <1>3, <3>1
  <2> QED
    BY <2>1, <2>2
<1>6. \A k \in 0 .. n : k \in S
  <2>1. 0 \in S
    <3>1. 1 .. 0 = {} /\ 0 \in 0 .. n
      BY <1>0
    <3>2. it[1 .. 0] = base
      BY <1>5, <3>1
    <3>3. base.pods = <<>> /\ PlacedUpTo(<<>>, ds, hash, s, 0)
      BY <3>1 DEF PlacedUpTo
    <3> HIDE DEF base, V
    <3> QED
      BY <1>0a, <3>1, <3>2, <3>3
  <2>2. ASSUME NEW k \in D, k - 1 \in S
        PROVE  k \in S
    <3> DEFINE v == it[1 .. (k - 1)]
    <3>1. v \in V /\ PlacedUpTo(v.pods, ds, hash, s, k - 1)
      BY <2>2
    <3>2. /\ it[1 .. k] = Op(k, v) /\ Op(k, v) \in V
          /\ PlacedUpTo(Op(k, v).pods, ds, hash, s, k)
      <4> HIDE DEF Op, V
      <4> QED
        BY <1>1, <1>5, <3>1, Zenon
    <3>3. k \in 0 .. n
      BY <1>0
    <3>4. it[1 .. k] \in V /\ PlacedUpTo(it[1 .. k].pods, ds, hash, s, k)
      <4> HIDE DEF Op, V, v
      <4> QED
        BY <3>2
    <3> HIDE DEF Op, V, v
    <3> QED
      BY <3>3, <3>4
  <2> HIDE DEF S
  <2>3. S \in SUBSET (0 .. n)
    BY DEF S
  <2> QED
    BY <1>0, <2>1, <2>2, <2>3, UpToAll
<1> DEFINE made == it[1 .. n].pods
<1>7. made \in Seq(G) /\ PlacedUpTo(made, ds, hash, s, n)
  <2>1. n \in S
    <3>1. n \in 0 .. n
      BY <1>0
    <3> HIDE DEF S
    <3> QED
      BY <1>6, <3>1
  <2>2. it[1 .. n] \in V /\ PlacedUpTo(made, ds, hash, s, n)
    BY <2>1
  <2> HIDE DEF G
  <2> QED
    BY <2>2
<1>8. MakeValidPodsByDaemonset(ds, hash) = made
  BY <1>0, <1>4a
<1>9. \A x \in RunsOn(ds) : x \in Nodes
  BY DEF RunsOn, DaemonSetRecords
<1> HIDE DEF made
<1>10. /\ \A i \in DOMAIN made : \E x \in RunsOn(ds) : IsDaemonOn(made[i], ds, hash, x)
       /\ \A x \in RunsOn(ds) : \E i \in DOMAIN made : IsDaemonOn(made[i], ds, hash, x)
       /\ \A i, j \in DOMAIN made : made[i].only = made[j].only => i = j
  BY <1>0, <1>7, <1>9 DEF PlacedUpTo
<1> QED
  BY <1>7, <1>8, <1>10

\* Where the ps of several daemon sets come from, once k of them are made.
OwnedUpTo(ps, sets, hash, k) ==
  /\ \E own \in [DOMAIN ps -> 1 .. k] :
       /\ \A i \in DOMAIN ps : \E n \in RunsOn(sets[own[i]]) : IsDaemonOn(ps[i], sets[own[i]], hash[own[i]], n)
       /\ \A i, j \in DOMAIN ps : own[i] = own[j] /\ ps[i].only = ps[j].only => i = j
  /\ \A d \in 1 .. k : \A n \in RunsOn(sets[d]) : \E i \in DOMAIN ps : IsDaemonOn(ps[i], sets[d], hash[d], n)

LEMMA OwnedOneMore ==
  ASSUME NEW G, NEW ps \in Seq(G), NEW more \in Seq(G), NEW sets, NEW hash, NEW k \in Nat \ {0},
         OwnedUpTo(ps, sets, hash, k - 1),
         \A i \in DOMAIN more : \E n \in RunsOn(sets[k]) : IsDaemonOn(more[i], sets[k], hash[k], n),
         \A n \in RunsOn(sets[k]) : \E i \in DOMAIN more : IsDaemonOn(more[i], sets[k], hash[k], n),
         \A i, j \in DOMAIN more : more[i].only = more[j].only => i = j
  PROVE  OwnedUpTo(ps \o more, sets, hash, k)
<1> DEFINE t == ps \o more
           l == Len(ps)
           m == Len(more)
           L == 1 .. l
           T == 1 .. (l + m)
<1>1. /\ l \in Nat /\ m \in Nat /\ DOMAIN ps = L /\ DOMAIN more = 1 .. m /\ DOMAIN t = T
      /\ \A i \in L : t[i] = ps[i]
      /\ \A i \in 1 .. m : t[l + i] = more[i]
  OBVIOUS
<1> HIDE DEF t, l, m
<1>2. /\ \A i \in T : i \in L \/ (i - l \in 1 .. m /\ l + (i - l) = i)
      /\ \A i \in L : i \in T
      /\ \A i \in 1 .. m : l + i \in T /\ l + i \notin L
  BY <1>1
<1>3. /\ k \in 1 .. k /\ \A d \in 1 .. (k - 1) : d \in 1 .. k /\ d # k
      /\ \A d \in 1 .. k : d = k \/ d \in 1 .. (k - 1)
  OBVIOUS
<1>4. PICK own \in [L -> 1 .. (k - 1)] :
        /\ \A i \in L : \E n \in RunsOn(sets[own[i]]) : IsDaemonOn(ps[i], sets[own[i]], hash[own[i]], n)
        /\ \A i, j \in L : own[i] = own[j] /\ ps[i].only = ps[j].only => i = j
  <2>1. PICK own \in [DOMAIN ps -> 1 .. (k - 1)] :
          /\ \A i \in DOMAIN ps : \E n \in RunsOn(sets[own[i]]) : IsDaemonOn(ps[i], sets[own[i]], hash[own[i]], n)
          /\ \A i, j \in DOMAIN ps : own[i] = own[j] /\ ps[i].only = ps[j].only => i = j
    BY DEF OwnedUpTo
  <2> HIDE DEF L
  <2> QED
    BY <1>1, <2>1, ZenonT(30)
<1> DEFINE now == [i \in T |-> IF i \in L THEN own[i] ELSE k]
<1>5. /\ now \in [T -> 1 .. k]
      /\ \A i \in L : now[i] = own[i] /\ now[i] # k
      /\ \A i \in 1 .. m : now[l + i] = k
  <2> HIDE DEF T, L
  <2> QED
    BY <1>2, <1>3
<1> HIDE DEF now, T, L
<1>6. ASSUME NEW i \in T
      PROVE  \E n \in RunsOn(sets[now[i]]) : IsDaemonOn(t[i], sets[now[i]], hash[now[i]], n)
  <2>1. CASE i \in L
    BY <1>1, <1>4, <1>5, <2>1
  <2>2. CASE i - l \in 1 .. m /\ l + (i - l) = i
    <3> DEFINE j == i - l
    <3>1. j \in 1 .. m /\ i = l + j
      BY <2>2
    <3> HIDE DEF j
    <3>2. t[i] = more[j] /\ now[i] = k /\ j \in DOMAIN more
      BY <1>1, <1>5, <3>1
    <3> QED
      BY <3>2
  <2> QED
    BY <1>2, <2>1, <2>2
<1>7. ASSUME NEW i \in T, NEW j \in T, now[i] = now[j], t[i].only = t[j].only
      PROVE  i = j
  <2>1. CASE i \in L /\ j \in L
    BY <1>1, <1>4, <1>5, <1>7, <2>1
  <2>2. CASE i \notin L /\ j \notin L
    <3>1. i - l \in 1 .. m /\ j - l \in 1 .. m /\ l + (i - l) = i /\ l + (j - l) = j
      BY <1>2, <2>2
    <3>2. t[i] = more[i - l] /\ t[j] = more[j - l]
      BY <1>1, <3>1
    <3>3. i - l = j - l
      BY <1>1, <1>7, <3>1, <3>2, ZenonT(30)
    <3> QED
      BY <3>1, <3>3
  <2>3. CASE i \in L /\ j \notin L
    BY <1>2, <1>5, <1>7, <2>3
  <2>4. CASE i \notin L /\ j \in L
    BY <1>2, <1>5, <1>7, <2>4
  <2> QED
    BY <2>1, <2>2, <2>3, <2>4
<1>8. ASSUME NEW d \in 1 .. k, NEW n \in RunsOn(sets[d])
      PROVE  \E i \in T : IsDaemonOn(t[i], sets[d], hash[d], n)
  <2>1. CASE d \in 1 .. (k - 1)
    BY <1>1, <1>2, <2>1 DEF OwnedUpTo
  <2>2. CASE d = k
    BY <1>1, <1>2, <2>2
  <2> QED
    BY <1>3, <2>1, <2>2
<1>9. OwnedUpTo(t, sets, hash, k)
  BY <1>1, <1>5, <1>6, <1>7, <1>8 DEF OwnedUpTo
<1> QED
  BY <1>9 DEF t

\* What ps of daemon sets ask for.
DaemonsAsk(sets) == { sets[d].pod.res : d \in DOMAIN sets }

LEMMA AllDaemonPods ==
  ASSUME NEW sets \in Seq(DaemonSetRecords), NEW hash \in [DOMAIN sets -> [Nodes -> Hashes]]
  PROVE  /\ PodsOfDaemonSets(sets, hash) \in Seq(PodsAsking(DaemonsAsk(sets)))
         /\ OwnedUpTo(PodsOfDaemonSets(sets, hash), sets, hash, Len(sets))
<1> DEFINE n == Len(sets)
           D == 1 .. n
           G == PodsAsking(DaemonsAsk(sets))
           V == Seq(G)
           row == [d \in DOMAIN sets |-> MakeValidPodsByDaemonset(sets[d], hash[d])]
           base == <<>>
           Op(k, v) == v \o row[k]
           op == [u \in D \X V |-> Op(u[1], u[2])]
           Eqn(g) == g = [t \in SUBSET D |-> IF t = {} THEN base ELSE Op(Max(t), g[t \ {Max(t)}])]
           it == CHOOSE h : h = [t \in SUBSET DOMAIN row |->
                                   IF t = {} THEN base ELSE Op(Max(t), h[t \ {Max(t)}])]
           S == { k \in 0 .. n : it[1 .. k] \in V /\ OwnedUpTo(it[1 .. k], sets, hash, k) }
<1>0. n \in Nat /\ DOMAIN sets = D /\ DOMAIN row = D
  OBVIOUS
<1>0a. base \in V
  OBVIOUS
<1>4a. PodsOfDaemonSets(sets, hash) = it[DOMAIN row]
  BY DEF FoldLeft, MapThenFoldSet, PodsOfDaemonSets
<1>0b. ASSUME NEW k \in D
       PROVE  /\ row[k] \in V
              /\ \A i \in DOMAIN row[k] : \E x \in RunsOn(sets[k]) : IsDaemonOn(row[k][i], sets[k], hash[k], x)
              /\ \A x \in RunsOn(sets[k]) : \E i \in DOMAIN row[k] : IsDaemonOn(row[k][i], sets[k], hash[k], x)
              /\ \A i, j \in DOMAIN row[k] : row[k][i].only = row[k][j].only => i = j
  <2> DEFINE ds == sets[k]
             made == MakeValidPodsByDaemonset(ds, hash[k])
  <2>1. ds \in DaemonSetRecords /\ hash[k] \in [Nodes -> Hashes] /\ row[k] = made
    BY <1>0
  <2>2. /\ made \in Seq(PodsAsking({ds.pod.res}))
        /\ \A i \in DOMAIN made : \E x \in RunsOn(ds) : IsDaemonOn(made[i], ds, hash[k], x)
        /\ \A x \in RunsOn(ds) : \E i \in DOMAIN made : IsDaemonOn(made[i], ds, hash[k], x)
        /\ \A i, j \in DOMAIN made : made[i].only = made[j].only => i = j
    <3> HIDE DEF ds
    <3> QED
      BY <2>1, DaemonPods
  <2>3. PodsAsking({ds.pod.res}) \subseteq G
    BY <1>0 DEF PodsAsking, DaemonsAsk
  <2>4. Seq(PodsAsking({ds.pod.res})) \subseteq V
    <3> HIDE DEF ds, G
    <3> QED
      BY <2>3, SeqOfMore
  <2> HIDE DEF made, row, G, V
  <2> QED
    BY <2>1, <2>2, <2>4 DEF made
<1> HIDE DEF row, G
<1>1. \A k \in D, v \in V : /\ op[<<k, v>>] = Op(k, v) /\ Op(k, v) \in V
                            /\ OwnedUpTo(v, sets, hash, k - 1) => OwnedUpTo(Op(k, v), sets, hash, k)
  <2> TAKE k \in D, v \in V
  <2>1. op[<<k, v>>] = Op(k, v)
    <3> HIDE DEF D, V, Op
    <3> QED
      OBVIOUS
  <2>2. Op(k, v) \in V
    <3>1. row[k] \in V
      BY <1>0b
    <3> QED
      BY <3>1
  <2>3. ASSUME OwnedUpTo(v, sets, hash, k - 1)
        PROVE  OwnedUpTo(Op(k, v), sets, hash, k)
    <3>1. k \in Nat \ {0}
      BY <1>0
    <3> DEFINE more == row[k]
    <3>2. /\ v \in Seq(G) /\ more \in Seq(G)
          /\ \A i \in DOMAIN more : \E x \in RunsOn(sets[k]) : IsDaemonOn(more[i], sets[k], hash[k], x)
          /\ \A x \in RunsOn(sets[k]) : \E i \in DOMAIN more : IsDaemonOn(more[i], sets[k], hash[k], x)
          /\ \A i, j \in DOMAIN more : more[i].only = more[j].only => i = j
      BY <1>0b
    <3> HIDE DEF more
    <3>3. OwnedUpTo(v \o more, sets, hash, k)
      BY ONLY <2>3, <3>1, <3>2, OwnedOneMore
    <3> QED
      BY <3>3 DEF more
  <2> HIDE DEF op, Op, V
  <2> QED
    BY <2>1, <2>2, <2>3
<1>2. \E g : Eqn(g)
  <2>1. \A x \in D, v \in V : op[<<x, v>>] \in V
    <3> HIDE DEF V, Op, op
    <3> QED
      BY <1>1
  <2>2. PICK g : /\ g = [t \in SUBSET D |-> IF t = {} THEN base ELSE op[<< Max(t), g[t \ {Max(t)}] >>]]
                 /\ \A t \in SUBSET D : g[t] \in V /\ (t # {} => Max(t) \in D)
    <3> HIDE DEF op, base, V
    <3> QED
      BY <1>0, <1>0a, <2>1, FoldExists
  <2>3. ASSUME NEW t \in SUBSET D, t # {}
        PROVE  op[<< Max(t), g[t \ {Max(t)}] >>] = Op(Max(t), g[t \ {Max(t)}])
    <3>1. g[t \ {Max(t)}] \in V /\ Max(t) \in D
      <4> HIDE DEF Op, op, V
      <4> QED
        BY <2>2, <2>3
    <3> HIDE DEF D, V, op, Op
    <3> QED
      BY <1>1, <3>1
  <2> HIDE DEF op, Op, D, base
  <2>4. Eqn(g)
    BY <2>2, <2>3
  <2> QED
    BY <2>4
<1>3. Eqn(it)
  <2> HIDE DEF Op, D, base
  <2> QED
    BY <1>0, <1>2
<1> HIDE DEF it
<1>5. it[{}] = base /\ \A k \in D : it[1 .. k] = Op(k, it[1 .. (k - 1)])
  <2> HIDE DEF Op, base
  <2>1. it[{}] = base
    BY <1>3
  <2>2. ASSUME NEW k \in D
        PROVE  it[1 .. k] = Op(k, it[1 .. (k - 1)])
    <3>1. 1 .. k \in SUBSET D /\ Max(1 .. k) = k /\ (1 .. k) \ {k} = 1 .. (k - 1) /\ 1 .. k # {}
      <4>1. n \in Nat /\ k \in 1 .. n /\ k \in 1 .. k
        BY <1>0
      <4>2. 1 .. k \in SUBSET (1 .. n) /\ Max(1 .. k) = k /\ (1 .. k) \ {k} = 1 .. (k - 1)
        BY ONLY <4>1, MaxUpTo
      <4> QED
        BY <4>1, <4>2
    <3> HIDE DEF D
    <3> QED
      BY <1>3, <3>1
  <2> QED
    BY <2>1, <2>2
<1>6. \A k \in 0 .. n : k \in S
  <2>1. 0 \in S
    <3>1. 1 .. 0 = {} /\ 0 \in 0 .. n
      BY <1>0
    <3>2. it[1 .. 0] = base
      BY <1>5, <3>1
    <3>3. OwnedUpTo(base, sets, hash, 0)
      <4>1. DOMAIN base = {}
        OBVIOUS
      <4>2. [i \in {} |-> 0] \in [DOMAIN base -> 1 .. 0]
        BY <4>1
      <4> HIDE DEF base
      <4> QED
        BY <3>1, <4>1, <4>2 DEF OwnedUpTo
    <3> HIDE DEF base, V
    <3> QED
      BY <1>0a, <3>1, <3>2, <3>3
  <2>2. ASSUME NEW k \in D, k - 1 \in S
        PROVE  k \in S
    <3> DEFINE v == it[1 .. (k - 1)]
    <3>1. v \in V /\ OwnedUpTo(v, sets, hash, k - 1)
      BY <2>2
    <3>2. /\ it[1 .. k] = Op(k, v) /\ Op(k, v) \in V
          /\ OwnedUpTo(Op(k, v), sets, hash, k)
      <4> HIDE DEF Op, V
      <4> QED
        BY <1>1, <1>5, <3>1, Zenon
    <3>3. k \in 0 .. n
      BY <1>0
    <3>4. it[1 .. k] \in V /\ OwnedUpTo(it[1 .. k], sets, hash, k)
      <4> HIDE DEF Op, V, v
      <4> QED
        BY <3>2
    <3> HIDE DEF Op, V, v
    <3> QED
      BY <3>3, <3>4
  <2> HIDE DEF S
  <2>3. S \in SUBSET (0 .. n)
    BY DEF S
  <2> QED
    BY <1>0, <2>1, <2>2, <2>3, UpToAll
<1>7. n \in 0 .. n
  BY <1>0
<1>8. n \in S
  <2> HIDE DEF S
  <2> QED
    BY <1>6, <1>7
<1>9. it[1 .. n] \in V /\ OwnedUpTo(it[1 .. n], sets, hash, n)
  BY <1>8
<1> QED
  BY <1>0, <1>4a, <1>9 DEF G

LEMMA RearrangedIn ==
  ASSUME NEW G, NEW s \in Seq(G), NEW b, NEW t, Rearranges(b, s, t)
  PROVE  t \in Seq(G) /\ Len(t) = Len(s) /\ DOMAIN t = DOMAIN s
<1> DEFINE n == Len(s)
<1>1. n \in Nat /\ DOMAIN s = 1 .. n /\ s \in [1 .. n -> G]
  OBVIOUS
<1> HIDE DEF n
<1>2. t \in [1 .. n -> G]
  BY <1>1 DEF Rearranges
<1> QED
  BY <1>1, <1>2

\* Pods are sorted by date, or in any order.
CreatedAt(pod) == IF pod.created = NoDate THEN Now ELSE pod.created

LEMMA ClusterSorted ==
  ASSUME NEW s \in Seq(PodRecords), NEW shuffle, NEW t \in SortClusterPods(s, shuffle)
  PROVE  \E b : /\ Rearranges(b, s, t)
                /\ ~shuffle => \A i, j \in DOMAIN s : i < j => CreatedAt(t[i]) <= CreatedAt(t[j])
<1> DEFINE n == Len(s)
           D == 1 .. n
<1>1. n \in Nat /\ DOMAIN s = D /\ \A i \in D : s[i] \in PodRecords
  OBVIOUS
<1>2. CASE shuffle
  <2>1. PICK p \in SetToSeqs(DOMAIN s) : t = [k \in DOMAIN s |-> s[p[k]]]
    BY <1>2 DEF SortClusterPods
  <2>2. IsFiniteSet(D) /\ Cardinality(D) = n
    <3>1. IsFiniteSet(D) /\ Cardinality(D) = IF 1 > n THEN 0 ELSE n - 1 + 1
      BY <1>1, FS_Interval
    <3> QED
      BY <1>1, <3>1
  <2> HIDE DEF n
  <2>3. p \in [D -> D] /\ \A i, j \in D : i # j => p[i] # p[j]
    BY <1>1, <2>2 DEF SetToSeqs
  <2> HIDE DEF D
  <2>4. p \in Injection(D, D)
    BY <2>3 DEF Injection, IsInjective
  <2>5. p \in Surjection(D, D)
    BY <2>2, <2>4, FS_Injection
  <2>6. \A j \in D : \E i \in D : p[i] = j
    BY <2>5 DEF Surjection
  <2> QED
    BY <1>1, <1>2, <2>1, <2>3, <2>6, ZenonT(30) DEF Rearranges
<1>3. CASE ~shuffle
  <2> DEFINE key == [k \in DOMAIN s |-> << IF s[k].created = NoDate THEN Now ELSE s[k].created, s[k].name >>]
  <2>1. t = Sorted(s, key)
    BY <1>3 DEF SortClusterPods
  <2>2. \A i \in D : CreatedAt(s[i]) \in Int /\ s[i].name \in Int /\ key[i] = << CreatedAt(s[i]), s[i].name >>
    <3>1. \A i \in D : s[i].created \in Int /\ s[i].name \in Int
      BY <1>1 DEF PodRecords
    <3> QED
      BY <1>1, <3>1, WorkloadAssumption DEF CreatedAt
  <2>3. key \in [1 .. n -> Int \X Int]
    <3> HIDE DEF D, n
    <3> QED
      BY <1>1, <2>2 DEF D
  <2> HIDE DEF key
  <2>4. PICK b : /\ Rearranges(b, s, Sorted(s, key))
                 /\ \A i, j \in 1 .. n : i < j => UpTo(key[b[i]], key[b[j]])
    <3> HIDE DEF n
    <3> QED
      BY <1>1, <2>3, SortedIs
  <2>5. ASSUME NEW i \in D, NEW j \in D, i < j
        PROVE  CreatedAt(t[i]) <= CreatedAt(t[j])
    <3>1. UpTo(key[b[i]], key[b[j]]) /\ b[i] \in D /\ b[j] \in D /\ t[i] = s[b[i]] /\ t[j] = s[b[j]]
      BY <1>1, <2>1, <2>4, <2>5 DEF Rearranges
    <3> DEFINE x == b[i]
               y == b[j]
    <3>2. /\ key[x] = << CreatedAt(s[x]), s[x].name >> /\ key[y] = << CreatedAt(s[y]), s[y].name >>
          /\ CreatedAt(s[x]) \in Int /\ CreatedAt(s[y]) \in Int
      BY <2>2, <3>1
    <3> HIDE DEF x, y, D
    <3> QED
      BY <3>1, <3>2 DEF UpTo, x, y
  <2> QED
    BY <1>1, <2>1, <2>4, <2>5
<1> QED
  BY <1>2, <1>3

\* The workload asks for what the imported pods ask for.
LEMMA WorkloadAsks ==
  ASSUME NEW K, NEW s \in Seq(PodsAsking(K))
  PROVE  /\ SetWorkloadPods(s) \in Seq(PodsAsking(K))
         /\ DOMAIN SetWorkloadPods(s) = DOMAIN s
         /\ \A i \in DOMAIN s : \E j \in DOMAIN s : SetWorkloadPods(s)[j].res = s[i].res
         /\ \A i \in DOMAIN s : \E j \in DOMAIN s : SetWorkloadPods(s)[i].name = s[j].name
         /\ \A i \in DOMAIN s : LET w == SetWorkloadPods(s)[i]
                                IN w.created = NoDate /\ w.deleted = NoDate /\ w.marked = FALSE
<1> DEFINE n == Len(s)
           D == 1 .. n
           Fresh(p) == [p EXCEPT !.created = NoDate, !.deleted = NoDate, !.marked = FALSE, !.only = Nodes]
           fresh == [k \in DOMAIN s |-> Fresh(s[k])]
           key == [k \in DOMAIN fresh |-> << fresh[k].name, 0 >>]
           w == SetWorkloadPods(s)
<1>1. n \in Nat /\ DOMAIN s = D /\ \A i \in D : s[i] \in PodsAsking(K)
  OBVIOUS
<1>2. ASSUME NEW i \in D
      PROVE  /\ fresh[i] \in PodsAsking(K) /\ fresh[i].res = s[i].res
             /\ fresh[i].name \in Nat /\ fresh[i].name = s[i].name
             /\ fresh[i].created = NoDate /\ fresh[i].deleted = NoDate /\ fresh[i].marked = FALSE
  <2> DEFINE p == s[i]
             q == Fresh(p)
  <2>1. p \in PodRecords /\ p.res \in K
    BY <1>1 DEF PodsAsking
  <2> HIDE DEF p
  <2>2. /\ q \in PodRecords /\ q.res = p.res /\ q.name \in Nat /\ q.name = p.name
        /\ q.created = NoDate /\ q.deleted = NoDate /\ q.marked = FALSE
    <3>1. NoDate \in 0 .. Now - 1 /\ NoDate \in Nat
      BY WorkloadAssumption DEF NoDate
    <3> QED
      BY <2>1, <3>1 DEF PodRecords
  <2>3. fresh[i] = q
    BY <1>1 DEF p
  <2> HIDE DEF q, fresh
  <2> QED
    BY <2>1, <2>2, <2>3 DEF PodsAsking, p
<1>3. DOMAIN fresh = D /\ w = Sorted(fresh, key)
  BY <1>1 DEF SetWorkloadPods
<1>3a. \A i \in D : /\ fresh[i] \in PodsAsking(K) /\ fresh[i].res = s[i].res
                     /\ fresh[i].name \in Nat /\ fresh[i].name = s[i].name
                     /\ fresh[i].created = NoDate /\ fresh[i].deleted = NoDate /\ fresh[i].marked = FALSE
  <2> HIDE DEF fresh
  <2> QED
    BY <1>2
<1> HIDE DEF fresh, w, n, Fresh
<1>4. fresh \in Seq(PodsAsking(K))
  <2>1. fresh = [k \in D |-> fresh[k]]
    BY <1>1 DEF fresh
  <2>2. fresh \in [D -> PodsAsking(K)]
    BY <1>2, <2>1
  <2> QED
    BY <1>1, <2>2
<1>5. key \in [1 .. n -> Int \X Int]
  <2>1. \A i \in D : fresh[i].name \in Int
    BY <1>3a
  <2>2. key = [k \in D |-> << fresh[k].name, 0 >>]
    BY <1>3
  <2> HIDE DEF key
  <2> QED
    BY <2>1, <2>2
<1> HIDE DEF key
<1>6. PICK b : Rearranges(b, fresh, w)
  BY <1>1, <1>3, <1>5, SortedIs
<1>7. w \in Seq(PodsAsking(K)) /\ DOMAIN w = D
  BY <1>3, <1>4, <1>6, RearrangedIn
<1>8. \A i \in D : b[i] \in D /\ w[i] = fresh[b[i]]
  BY <1>3, <1>6 DEF Rearranges
<1>9. \A i \in D : \E j \in D : w[j].res = s[i].res
  <2>1. \A i \in D : \E j \in D : b[j] = i
    BY <1>3, <1>6 DEF Rearranges
  <2> HIDE DEF D
  <2> QED
    BY <1>3a, <1>8, <2>1
<1> HIDE DEF D
<1>10. \A i \in D : w[i].created = NoDate /\ w[i].deleted = NoDate /\ w[i].marked = FALSE
  BY <1>3a, <1>8
<1>11. \A i \in D : \E j \in D : w[i].name = s[j].name
  BY <1>3a, <1>8
<1> QED
  BY <1>1, <1>7, <1>9, <1>10, <1>11 DEF w

-----------------------------------------------------------------------------
(***************************************************************************)
(* Totals: what pods ask for, with one pod more or less.                   *)
(***************************************************************************)

LEMMA WithoutOne ==
  ASSUME NEW G, NEW s \in Seq(G), NEW i \in DOMAIN s
  PROVE  /\ RemoveAt(s, i) \in Seq(G) /\ DOMAIN RemoveAt(s, i) = 1 .. (Len(s) - 1)
         /\ \A j \in 1 .. (Len(s) - 1) : RemoveAt(s, i)[j] = s[IF j < i THEN j ELSE j + 1]
<1> DEFINE n == Len(s)
           a == SubSeq(s, 1, i - 1)
           b == SubSeq(s, i + 1, n)
<1>1. n \in Nat /\ i \in 1 .. n /\ s \in [1 .. n -> G]
  OBVIOUS
<1>2. /\ a \in Seq(G) /\ Len(a) = i - 1
      /\ \A j \in 1 .. (i - 1) : a[j] = s[j]
  <2> DEFINE m == i - 1
  <2>1. m \in Int /\ \A j \in 1 .. m : s[j] \in G
    BY <1>1
  <2> HIDE DEF m, n
  <2>2. /\ SubSeq(s, 1, m) \in Seq(G)
        /\ Len(SubSeq(s, 1, m)) = IF 1 <= m THEN m - 1 + 1 ELSE 0
        /\ \A j \in 1 .. m - 1 + 1 : SubSeq(s, 1, m)[j] = s[1 + j - 1]
    BY <2>1, SubSeqProperties
  <2>3. \A j \in 1 .. m : 1 + j - 1 = j
    OBVIOUS
  <2> QED
    BY <1>1, <2>1, <2>2, <2>3 DEF m
<1>3b. /\ b \in Seq(G) /\ Len(b) = n - i
       /\ \A j \in 1 .. (n - i) : b[j] = s[i + j]
  <2> DEFINE m == i + 1
  <2>1. m \in Int /\ n \in Int /\ \A j \in m .. n : s[j] \in G
    BY <1>1
  <2> HIDE DEF m, n
  <2>2. /\ SubSeq(s, m, n) \in Seq(G)
        /\ Len(SubSeq(s, m, n)) = IF m <= n THEN n - m + 1 ELSE 0
        /\ \A j \in 1 .. n - m + 1 : SubSeq(s, m, n)[j] = s[m + j - 1]
    BY <2>1, SubSeqProperties
  <2>3. \A j \in 1 .. (n - i) : m + j - 1 = i + j /\ j \in 1 .. (n - m + 1)
    BY <1>1 DEF m
  <2>4. (IF m <= n THEN n - m + 1 ELSE 0) = n - i
    BY <1>1 DEF m
  <2> QED
    BY <2>2, <2>3, <2>4 DEF m
<1> HIDE DEF a, b, n
<1>3. /\ a \o b \in Seq(G) /\ DOMAIN (a \o b) = 1 .. (n - 1)
      /\ \A j \in 1 .. (n - 1) : (a \o b)[j] = IF j <= i - 1 THEN a[j] ELSE b[j - (i - 1)]
  <2>1. /\ a \o b \in Seq(G)
        /\ Len(a \o b) = Len(a) + Len(b)
        /\ \A j \in 1 .. Len(a) + Len(b) : (a \o b)[j] = IF j <= Len(a) THEN a[j] ELSE b[j - Len(a)]
    BY <1>2, <1>3b, ConcatProperties
  <2>2. Len(a) + Len(b) = n - 1 /\ Len(a) = i - 1
    BY <1>1, <1>2, <1>3b
  <2>3. DOMAIN (a \o b) = 1 .. Len(a \o b)
    BY <2>1
  <2> QED
    BY <2>1, <2>2, <2>3
<1>4. ASSUME NEW j \in 1 .. (n - 1)
      PROVE  (a \o b)[j] = s[IF j < i THEN j ELSE j + 1]
  <2>1. CASE j < i
    BY <1>1, <1>2, <1>3, <2>1
  <2>2. CASE ~(j < i)
    <3>1. j - (i - 1) \in 1 .. (n - i) /\ i + (j - (i - 1)) = j + 1 /\ ~(j <= i - 1)
      BY <1>1, <2>2
    <3> QED
      BY <1>3b, <1>3, <2>2, <3>1
  <2> QED
    BY <2>1, <2>2
<1> QED
  BY <1>3, <1>4 DEF RemoveAt, a, b, n

\* What each pod asks for, and all of them.
Gpus(s) == [i \in DOMAIN s |-> TotalMilliGpu(s[i].res)]

LEMMA GpuTotalIs ==
  ASSUME NEW s \in Seq(PodRecords)
  PROVE  /\ GpuTotal(s) = SumOver(Gpus(s), DOMAIN s)
         /\ IsFiniteSet(DOMAIN s)
         /\ \A i \in DOMAIN s : Gpus(s)[i] = TotalMilliGpu(s[i].res) /\ Gpus(s)[i] \in Nat
         /\ GpuTotal(s) \in Nat
<1>1. IsFiniteSet(DOMAIN s)
  <2>1. Len(s) \in Nat /\ DOMAIN s = 1 .. Len(s)
    OBVIOUS
  <2> QED
    BY <2>1, UpToFinite
<1>2. ASSUME NEW i \in DOMAIN s
      PROVE  Gpus(s)[i] = TotalMilliGpu(s[i].res) /\ Gpus(s)[i] \in Nat
  <2>0. s[i] \in PodRecords
    OBVIOUS
  <2>1. s[i].res.milli \in Nat /\ s[i].res.num \in Nat
    <3>1. s[i].res \in PodResources
      BY <2>0 DEF PodRecords
    <3> QED
      BY <3>1, ResourceAssumption DEF PodResources
  <2> QED
    BY <2>1 DEF Gpus, TotalMilliGpu
<1>3. GpuTotal(s) = SumOver(Gpus(s), DOMAIN s)
  <2>1. DOMAIN Gpus(s) = DOMAIN s
    BY DEF Gpus
  <2>2. GpuTotal(s) = SumFunction(Gpus(s))
    BY DEF GpuTotal, Gpus
  <2>3. SumFunction(Gpus(s)) = SumOver(Gpus(s), DOMAIN Gpus(s))
    BY DEF SumFunction, SumFunctionOnSet, FoldFunctionOnSet, SumOver, MapThenSumSet
  <2> QED
    BY <2>1, <2>2, <2>3
<1>4. SumOver(Gpus(s), DOMAIN s) \in Nat
  BY <1>1, <1>2, SumNat
<1> QED
  BY <1>1, <1>2, <1>3, <1>4

LEMMA GpuTotalWithout ==
  ASSUME NEW s \in Seq(PodRecords), NEW i \in DOMAIN s
  PROVE  GpuTotal(RemoveAt(s, i)) = GpuTotal(s) - TotalMilliGpu(s[i].res)
<1> DEFINE n == Len(s)
           t == RemoveAt(s, i)
           S == 1 .. (n - 1)
           D == 1 .. n
           T == D \ {i}
           b == [j \in S |-> IF j < i THEN j ELSE j + 1]
           f == Gpus(t)
           g == Gpus(s)
<1>1. n \in Nat /\ i \in D /\ DOMAIN s = D
  OBVIOUS
<1>2. t \in Seq(PodRecords) /\ DOMAIN t = S /\ \A j \in S : t[j] = s[b[j]]
  BY WithoutOne
<1>3. /\ GpuTotal(t) = SumOver(f, S) /\ IsFiniteSet(S)
      /\ \A j \in S : f[j] = TotalMilliGpu(t[j].res) /\ f[j] \in Int
  BY <1>2, GpuTotalIs
<1>4. /\ GpuTotal(s) = SumOver(g, D) /\ IsFiniteSet(D)
      /\ \A j \in D : g[j] = TotalMilliGpu(s[j].res) /\ g[j] \in Int
  BY <1>1, GpuTotalIs
<1> HIDE DEF n, t, f, g
<1>5. b \in [S -> T] /\ \A x, y \in S : b[x] = b[y] => x = y
  BY <1>1
<1>6. \A x \in T : \E j \in S : b[j] = x
  <2> TAKE x \in T
  <2>1. CASE x < i
    <3>1. x \in S /\ b[x] = x
      BY <1>1, <2>1
    <3> QED
      BY <3>1
  <2>2. CASE ~(x < i)
    <3>1. x - 1 \in S /\ b[x - 1] = x
      BY <1>1, <2>2
    <3> QED
      BY <3>1
  <2> QED
    BY <2>1, <2>2
<1>7. IsFiniteSet(T) /\ T \subseteq D
  <2> HIDE DEF D
  <2> QED
    BY <1>4, FS_Subset
<1>8. \A j \in S : f[j] \in Int /\ g[b[j]] = f[j]
  <2> HIDE DEF S, b, D
  <2> QED
    BY <1>2, <1>3, <1>4, <1>5, <1>7
<1>9. SumOver(f, S) = SumOver(g, T)
  <2>1. IsFiniteSet(S) /\ IsFiniteSet(T)
    BY <1>3, <1>7
  <2> HIDE DEF S, T, b
  <2> QED
    BY ONLY <1>5, <1>6, <1>8, <2>1, SumRenamed
<1>10. SumOver(g, D) = g[i] + SumOver(g, D \ {i})
  <2>1. IsFiniteSet(D) /\ (\A x \in D : g[x] \in Int) /\ i \in D
    BY <1>1, <1>4
  <2> HIDE DEF D
  <2> QED
    BY ONLY <2>1, SumWithout
<1>11. SumOver(g, T) \in Int /\ g[i] \in Int
  <2> HIDE DEF D, T
  <2> QED
    BY <1>1, <1>4, <1>7, SumInt
<1> QED
  BY <1>1, <1>3, <1>4, <1>9, <1>10, <1>11 DEF t

LEMMA GpuTotalWith ==
  ASSUME NEW s \in Seq(PodRecords), NEW p \in PodRecords
  PROVE  GpuTotal(Append(s, p)) = GpuTotal(s) + TotalMilliGpu(p.res)
<1> DEFINE n == Len(s)
           t == Append(s, p)
           D == 1 .. n
           f == Gpus(s)
           g == Gpus(t)
<1>1. n \in Nat /\ DOMAIN s = D
  OBVIOUS
<1>2. /\ t \in Seq(PodRecords) /\ DOMAIN t = 1 .. (n + 1)
      /\ \A j \in D : t[j] = s[j]
      /\ t[n + 1] = p
  OBVIOUS
<1>3. /\ GpuTotal(t) = SumOver(g, 1 .. (n + 1))
      /\ \A j \in 1 .. (n + 1) : g[j] = TotalMilliGpu(t[j].res) /\ g[j] \in Int
  <2> HIDE DEF t
  <2> QED
    BY <1>2, GpuTotalIs
<1>4. /\ GpuTotal(s) = SumOver(f, D) /\ IsFiniteSet(D)
      /\ \A j \in D : f[j] = TotalMilliGpu(s[j].res) /\ f[j] \in Int
  BY <1>1, GpuTotalIs
<1> HIDE DEF n, t, f, g
<1>5. 1 .. (n + 1) = D \cup {n + 1} /\ n + 1 \notin D
  BY <1>1
<1>6. \A j \in D : f[j] = g[j] /\ f[j] \in Int
  BY <1>2, <1>3, <1>4, <1>5
<1>7. \A x \in D \cup {n + 1} : g[x] \in Int
  BY <1>3, <1>5
<1> HIDE DEF D
<1> DEFINE m == n + 1
<1>8. m \notin D /\ \A x \in D \cup {m} : g[x] \in Int
  BY <1>5, <1>7
<1>9. SumOver(g, 1 .. m) = SumOver(g, D \cup {m})
  BY <1>5
<1> HIDE DEF m
<1>10. SumOver(g, D \cup {m}) = SumOver(g, D) + g[m]
  BY <1>4, <1>8, SumAdd
<1>11. SumOver(f, D) = SumOver(g, D)
  BY <1>4, <1>6, SumSame
<1>12. g[m] = TotalMilliGpu(p.res)
  <2>1. n + 1 \in 1 .. (n + 1)
    BY <1>1
  <2> QED
    BY <1>2, <1>3, <2>1 DEF m
<1> QED
  BY <1>3, <1>4, <1>9, <1>10, <1>11, <1>12 DEF m, t

Kin == { workload[i].res : i \in DOMAIN workload } \cup DaemonsAsk(resources.DaemonSets)

Undated(pod) == pod.created = NoDate /\ pod.deleted = NoDate /\ pod.marked = FALSE

(***************************************************************************)
(* What the variables hold.                                                *)
(***************************************************************************)
TypeInv ==
  /\ resources \in Resources
  /\ pods \in Seq(PodRecords) /\ inflation \in Seq(PodRecords)
  /\ workload \in Seq(PodsAsking(Asked(resources)))
  /\ \A i \in DOMAIN workload : Undated(workload[i])
  /\ stage = "daemons" => pods \in Seq(PodsAsking({ workload[i].res : i \in DOMAIN workload }))
  /\ stage \notin {"import", "error"} => pods \in Seq(PodsAsking(Kin))
  /\ totals = [podCpu |-> totals.podCpu, podGpu |-> totals.podGpu,
               nodeCpu |-> totals.nodeCpu, nodeGpu |-> totals.nodeGpu]
  /\ totals.podGpu \in Int /\ totals.nodeGpu \in Int
  /\ tuning = [num |-> tuning.num, added |-> tuning.added]
  /\ tuning.num \in Nat /\ tuning.added \in Nat

LEMMA IsPods == \A K : Seq(PodsAsking(K)) \subseteq Seq(PodRecords)
<1> SUFFICES ASSUME NEW K PROVE Seq(PodsAsking(K)) \subseteq Seq(PodRecords)
  OBVIOUS
<1>1. PodsAsking(K) \subseteq PodRecords
  BY DEF PodsAsking
<1> QED
  BY <1>1, SeqOfMore

LEMMA CopyAsks ==
  ASSUME NEW p \in PodRecords, NEW i \in Nat
  PROVE  /\ Tuned(p, i) \in PodsAsking({p.res}) /\ Cloned(p, i) \in PodsAsking({p.res})
         /\ Undated(p) => Undated(Tuned(p, i)) /\ Undated(Cloned(p, i))
<1>1. p.name \in Nat /\ 70 + i \in Nat /\ 50 + i \in Nat
  BY DEF PodRecords
<1> DEFINE x == Suffixed(p.name, 70 + i)
           y == Suffixed(p.name, 50 + i)
<1>2. x \in Nat /\ y \in Nat
  BY <1>1, NameIsNat
<1>3. Tuned(p, i) = [p EXCEPT !.name = x] /\ Cloned(p, i) = [p EXCEPT !.name = y]
  BY DEF Tuned, Cloned
<1> HIDE DEF x, y
<1>4. [p EXCEPT !.name = x] \in PodsAsking({p.res}) /\ [p EXCEPT !.name = y] \in PodsAsking({p.res})
  BY <1>2, RenamedPod
<1>5. Undated(p) => Undated([p EXCEPT !.name = x]) /\ Undated([p EXCEPT !.name = y])
  BY DEF Undated, PodRecords
<1> QED
  BY <1>3, <1>4, <1>5

LEMMA DaemonSetsTyped ==
  ASSUME NEW r \in Resources
  PROVE  r.DaemonSets \in Seq(DaemonSetRecords)
BY SimulateAssumption DEF IsConfiguration, DaemonSetRecords

LEMMA NodeTotal ==
  /\ SumFunction([n \in Nodes |-> NodeRes[n].gpu]) \in Int
<1> DEFINE f == [n \in Nodes |-> NodeRes[n].gpu]
<1>1. IsFiniteSet(Nodes) /\ \A n \in Nodes : f[n] \in Int
  BY WorkloadAssumption, SimulateAssumption
<1>2. DOMAIN f = Nodes
  OBVIOUS
<1> HIDE DEF f
<1>3. SumOver(f, Nodes) \in Int
  BY <1>1, SumInt
<1>4. SumFunction(f) = SumOver(f, DOMAIN f)
  BY DEF SumFunction, SumFunctionOnSet, FoldFunctionOnSet, SumOver, MapThenSumSet
<1> QED
  BY <1>2, <1>3, <1>4 DEF f

LEMMA TypeInit == Init => TypeInv
<1> SUFFICES ASSUME Init PROVE TypeInv
  OBVIOUS
<1>1. <<>> \in Seq(PodsAsking(Asked(resources))) /\ <<>> \in Seq(PodRecords) /\ DOMAIN <<>> = {}
  OBVIOUS
<1>2. <<>> \in Seq(PodsAsking({ workload[i].res : i \in DOMAIN workload })) /\ <<>> \in Seq(PodsAsking(Kin))
  OBVIOUS
<1> QED
  BY <1>1 DEF Init, TypeInv

LEMMA TypeImport == TypeInv /\ Import => TypeInv'
<1> SUFFICES ASSUME TypeInv, Import PROVE TypeInv'
  OBVIOUS
<1> DEFINE K == Asked(resources)
           p2 == pods'
           w2 == workload'
<1>1. p2 \in GetValidPodExcludeDaemonSet(resources) /\ IsConfiguration(resources)
  BY SimulateAssumption DEF Import, TypeInv
<1>2. p2 \in Seq(PodsAsking(K))
  <2> HIDE DEF p2
  <2> QED
    BY <1>1, ImportedAsk
<1>3. CASE MakeValidPod(p2)
  <2>1. stage' = "daemons" /\ w2 = SetWorkloadPods(p2) /\ resources' = resources
    BY <1>3 DEF Import
  <2> HIDE DEF K, p2, w2
  <2>2. /\ w2 \in Seq(PodsAsking(K)) /\ DOMAIN w2 = DOMAIN p2
        /\ \A i \in DOMAIN p2 : \E j \in DOMAIN p2 : w2[j].res = p2[i].res
        /\ \A i \in DOMAIN w2 : Undated(w2[i])
    <3>1. /\ w2 \in Seq(PodsAsking(K)) /\ DOMAIN w2 = DOMAIN p2
          /\ \A i \in DOMAIN p2 : \E j \in DOMAIN p2 : w2[j].res = p2[i].res
      BY <1>2, <2>1, WorkloadAsks
    <3>2. \A i \in DOMAIN p2 : w2[i].created = NoDate /\ w2[i].deleted = NoDate /\ w2[i].marked = FALSE
      BY <1>2, <2>1, WorkloadAsks
    <3> QED
      BY <3>1, <3>2 DEF Undated
  <2> DEFINE W == { w2[i].res : i \in DOMAIN w2 }
  <2>3. p2 \in Seq(PodsAsking(W))
    <3>1. \A i \in DOMAIN p2 : p2[i] \in PodRecords /\ p2[i].res \in W
      <4> TAKE i \in DOMAIN p2
      <4>1. p2[i] \in PodsAsking(K)
        BY <1>2
      <4>2. PICK j \in DOMAIN p2 : w2[j].res = p2[i].res
        BY <2>2
      <4>3. j \in DOMAIN w2
        BY <2>2
      <4> QED
        BY <4>1, <4>2, <4>3 DEF PodsAsking
    <3> HIDE DEF W
    <3>2. \A i \in DOMAIN p2 : p2[i] \in PodsAsking(W)
      BY <3>1 DEF PodsAsking
    <3>3. Len(p2) \in Nat /\ DOMAIN p2 = 1 .. Len(p2) /\ p2 = [i \in 1 .. Len(p2) |-> p2[i]]
      BY <1>2
    <3> QED
      BY <3>2, <3>3
  <2>4. p2 \in Seq(PodsAsking(Kin'))
    <3>1. PodsAsking(W) \subseteq PodsAsking(Kin')
      BY DEF PodsAsking, Kin, w2
    <3> HIDE DEF W
    <3> QED
      BY <2>3, <3>1, SeqOfMore
  <2>5. p2 \in Seq(PodRecords)
    BY <1>2, IsPods
  <2>6. Asked(resources)' = K
    BY <2>1 DEF K
  <2> QED
    BY <2>1, <2>2, <2>3, <2>4, <2>5, <2>6 DEF Import, TypeInv, p2, w2
<1>4. CASE ~MakeValidPod(p2)
  <2>1. p2 \in Seq(PodRecords)
    <3> HIDE DEF p2
    <3> QED
      BY <1>2, IsPods
  <2> QED
    BY <1>4, <2>1 DEF Import, TypeInv
<1> QED
  BY <1>3, <1>4

LEMMA TypeRunDaemons == TypeInv /\ RunDaemons => TypeInv'
<1> SUFFICES ASSUME TypeInv, RunDaemons PROVE TypeInv'
  OBVIOUS
<1> DEFINE sets == resources.DaemonSets
           p2 == pods'
<1>1. PICK hash \in [DOMAIN sets -> [Nodes -> Hashes]] :
        LET made == PodsOfDaemonSets(sets, hash)
        IN IF MakeValidPod(made)
           THEN /\ stage' = "start"
                /\ pods' \in SortClusterPods(pods \o made, Shuffle)
                /\ totals' = [podCpu  |-> CpuTotal(pods'), podGpu |-> GpuTotal(pods'),
                              nodeCpu |-> SumFunction([n \in Nodes |-> NodeRes[n].cpu]),
                              nodeGpu |-> SumFunction([n \in Nodes |-> NodeRes[n].gpu])]
           ELSE stage' = "error" /\ UNCHANGED << pods, totals >>
  BY DEF RunDaemons
<1> DEFINE made == PodsOfDaemonSets(sets, hash)
<1>2. sets \in Seq(DaemonSetRecords)
  BY DaemonSetsTyped DEF TypeInv
<1>3. made \in Seq(PodsAsking(DaemonsAsk(sets)))
  <2> HIDE DEF sets
  <2> QED
    BY <1>2, AllDaemonPods
<1>4. stage = "daemons" /\ UNCHANGED << resources, workload, tuning, inflation >>
  BY DEF RunDaemons
<1>5. CASE MakeValidPod(made)
  <2> DEFINE s == pods \o made
  <2>1. /\ stage' = "start" /\ p2 \in SortClusterPods(s, Shuffle)
        /\ totals'.podGpu = GpuTotal(p2)
        /\ totals'.nodeGpu = SumFunction([n \in Nodes |-> NodeRes[n].gpu])
        /\ totals' = [podCpu |-> totals'.podCpu, podGpu |-> totals'.podGpu,
                      nodeCpu |-> totals'.nodeCpu, nodeGpu |-> totals'.nodeGpu]
    BY <1>1, <1>5
  <2>2. pods \in Seq(PodsAsking(Kin)) /\ made \in Seq(PodsAsking(Kin))
    <3>1. PodsAsking(DaemonsAsk(sets)) \subseteq PodsAsking(Kin)
      BY DEF PodsAsking, Kin
    <3> HIDE DEF made, sets
    <3> QED
      BY <1>3, <1>4, <3>1, SeqOfMore DEF TypeInv
  <2>3. s \in Seq(PodsAsking(Kin))
    <3> HIDE DEF made
    <3> QED
      BY <2>2
  <2>4. s \in Seq(PodRecords)
    <3> HIDE DEF s
    <3> QED
      BY <2>3, IsPods
  <2> HIDE DEF s, p2
  <2>5. PICK b : Rearranges(b, s, p2)
    BY <2>1, <2>4, ClusterSorted
  <2>6. p2 \in Seq(PodsAsking(Kin)) /\ p2 \in Seq(PodRecords)
    BY <2>3, <2>4, <2>5, RearrangedIn
  <2>7. GpuTotal(p2) \in Int
    BY <2>6, GpuTotalIs
  <2>8. Kin' = Kin /\ Asked(resources)' = Asked(resources)
    BY <1>4 DEF Kin
  <2>9. totals'.podGpu \in Int /\ totals'.nodeGpu \in Int
    BY <2>1, <2>7, NodeTotal
  <2> QED
    BY <1>4, <2>1, <2>6, <2>8, <2>9 DEF TypeInv, p2
<1>6. CASE ~MakeValidPod(made)
  <2>1. stage' = "error" /\ UNCHANGED << pods, totals >>
    BY <1>1, <1>6
  <2> QED
    BY <1>4, <2>1 DEF TypeInv
<1> QED
  BY <1>5, <1>6

LEMMA Reordered ==
  /\ tuneDownPods => stage = "tuneDown" /\ stage' \in {"tuneDown", "tuned"}
  /\ tuneUpPods => stage = "tuneUp" /\ stage' \in {"tuneUp", "tuned"}
  /\ BeginTuning => stage = "start" /\ stage' \in {"error", "tuned", "tuneDown", "tuneUp"}
BY DEF tuneDownPods, tuneUpPods, BeginTuning

LEMMA TypeTuning == TypeInv /\ (BeginTuning \/ tuneDownPods \/ tuneUpPods) => TypeInv'
<1> SUFFICES ASSUME TypeInv, BeginTuning \/ tuneDownPods \/ tuneUpPods PROVE TypeInv'
  OBVIOUS
<1>1. /\ UNCHANGED << resources, workload, inflation >>
      /\ stage \notin {"import", "error", "daemons"} /\ stage' \notin {"import", "daemons"}
      /\ Kin' = Kin /\ Asked(resources)' = Asked(resources)
  BY Reordered DEF BeginTuning, tuneDownPods, tuneUpPods, Kin
<1>2. pods \in Seq(PodsAsking(Kin)) /\ \A i \in DOMAIN pods : TotalMilliGpu(pods[i].res) \in Int
  <2>1. pods \in Seq(PodsAsking(Kin)) /\ pods \in Seq(PodRecords)
    BY <1>1 DEF TypeInv
  <2> QED
    BY <2>1, GpuTotalIs
<1>3. workload \in Seq(PodRecords) /\ \A i \in DOMAIN workload : TotalMilliGpu(workload[i].res) \in Int
  <2>1. workload \in Seq(PodRecords)
    BY IsPods DEF TypeInv
  <2> QED
    BY <2>1, GpuTotalIs
<1>4. CASE BeginTuning
  <2>1. PICK num \in TuneNum : tuning' = [num |-> num, added |-> 0]
    BY <1>4 DEF BeginTuning
  <2>2. num \in Nat
    BY SimulateAssumption
  <2>3. UNCHANGED << pods, totals >>
    BY <1>4 DEF BeginTuning
  <2> QED
    BY <1>1, <1>2, <2>1, <2>2, <2>3 DEF TypeInv
<1>5. CASE tuneDownPods
  <2>1. CASE UNCHANGED << pods, totals >>
    BY <1>1, <1>2, <1>5, <2>1 DEF TypeInv, tuneDownPods
  <2>2. CASE ~UNCHANGED << pods, totals >>
    <3>1. PICK i \in DOMAIN pods :
            /\ pods' = RemovePodsByIndex(pods, i)
            /\ totals' = [totals EXCEPT !.podGpu = @ - TotalMilliGpu(pods[i].res)]
      BY <1>5, <2>2 DEF tuneDownPods
    <3> DEFINE p2 == RemoveAt(pods, i)
    <3>2. p2 \in Seq(PodsAsking(Kin))
      BY <1>2, WithoutOne
    <3>3. p2 \in Seq(PodRecords)
      <4> HIDE DEF p2
      <4> QED
        BY <3>2, IsPods
    <3>4. pods' = p2
      BY <3>1 DEF RemovePodsByIndex
    <3> DEFINE t == TotalMilliGpu(pods[i].res)
    <3>5. t \in Int
      BY <1>2
    <3> HIDE DEF t, p2
    <3>6. /\ totals'.podGpu = totals.podGpu - t /\ totals'.nodeGpu = totals.nodeGpu
          /\ totals' = [podCpu |-> totals'.podCpu, podGpu |-> totals'.podGpu,
                        nodeCpu |-> totals'.nodeCpu, nodeGpu |-> totals'.nodeGpu]
      BY <3>1 DEF TypeInv, t
    <3>7. totals'.podGpu \in Int /\ totals'.nodeGpu \in Int
      BY <3>5, <3>6 DEF TypeInv
    <3>8. UNCHANGED tuning
      BY <1>5 DEF tuneDownPods
    <3> QED
      BY <1>1, <3>2, <3>3, <3>4, <3>6, <3>7, <3>8 DEF TypeInv
  <2> QED
    BY <2>1, <2>2
<1>6. CASE tuneUpPods
  <2>1. CASE UNCHANGED << pods, totals, tuning >>
    BY <1>1, <1>2, <2>1 DEF TypeInv
  <2>2. CASE ~UNCHANGED << pods, totals, tuning >>
    <3>1. PICK i \in DOMAIN workload :
            /\ pods' = Append(pods, Tuned(workload[i], tuning.added))
            /\ totals' = [totals EXCEPT !.podGpu = @ + TotalMilliGpu(workload[i].res)]
            /\ tuning' = [tuning EXCEPT !.added = @ + 1]
      BY <1>6, <2>2 DEF tuneUpPods
    <3> DEFINE p2 == Append(pods, Tuned(workload[i], tuning.added))
               t == TotalMilliGpu(workload[i].res)
               w == workload[i]
    <3>2. w \in PodRecords /\ t \in Int /\ w.res \in Kin
      BY <1>3 DEF Kin
    <3>3. p2 \in Seq(PodsAsking(Kin))
      <4>1. tuning.added \in Nat
        BY DEF TypeInv
      <4> DEFINE q == Tuned(w, tuning.added)
      <4>2. q \in PodsAsking({w.res})
        <5> HIDE DEF w
        <5> QED
          BY <3>2, <4>1, CopyAsks
      <4>3. q \in PodsAsking(Kin)
        <5> HIDE DEF w, q
        <5> QED
          BY <3>2, <4>2 DEF PodsAsking
      <4> HIDE DEF q
      <4>4. Append(pods, q) \in Seq(PodsAsking(Kin))
        BY <1>2, <4>3
      <4> QED
        BY <4>4 DEF q
    <3>4. p2 \in Seq(PodRecords)
      <4> HIDE DEF p2
      <4> QED
        BY <3>3, IsPods
    <3>5. pods' = p2
      BY <3>1
    <3> HIDE DEF t, p2
    <3>6. /\ totals'.podGpu = totals.podGpu + t /\ totals'.nodeGpu = totals.nodeGpu
          /\ totals' = [podCpu |-> totals'.podCpu, podGpu |-> totals'.podGpu,
                        nodeCpu |-> totals'.nodeCpu, nodeGpu |-> totals'.nodeGpu]
      BY <3>1 DEF TypeInv, t
    <3>7. totals'.podGpu \in Int /\ totals'.nodeGpu \in Int
      BY <3>2, <3>6 DEF TypeInv
    <3>8. /\ tuning' = [num |-> tuning'.num, added |-> tuning'.added]
          /\ tuning'.num \in Nat /\ tuning'.added \in Nat
      BY <3>1, SMTT(30) DEF TypeInv
    <3> QED
      BY <1>1, <3>3, <3>4, <3>5, <3>6, <3>7, <3>8 DEF TypeInv
  <2> QED
    BY <2>1, <2>2
<1> QED
  BY <1>4, <1>5, <1>6

LEMMA TypeGenerate == TypeInv /\ GenerateInflationPod => TypeInv'
<1> SUFFICES ASSUME TypeInv, GenerateInflationPod PROVE TypeInv'
  OBVIOUS
<1>1. /\ UNCHANGED << resources, pods, workload, totals, tuning >>
      /\ stage = "generate" /\ stage' \in {"generate", "inflate"}
  BY DEF GenerateInflationPod
<1>2. inflation' \in Seq(PodRecords)
  <2>1. CASE inflation' = inflation
    BY <2>1 DEF TypeInv
  <2>2. CASE inflation' # inflation
    <3>1. PICK i \in DOMAIN workload : inflation' = Append(inflation, Cloned(workload[i], Len(inflation)))
      BY <2>2 DEF GenerateInflationPod
    <3> DEFINE q == Cloned(workload[i], Len(inflation))
    <3>2. workload[i] \in PodRecords /\ Len(inflation) \in Nat
      BY IsPods DEF TypeInv
    <3>3. q \in PodsAsking({workload[i].res})
      BY <3>2, CopyAsks
    <3>4. q \in PodRecords
      <4> HIDE DEF q
      <4> QED
        BY <3>3 DEF PodsAsking
    <3> HIDE DEF q
    <3>5. Append(inflation, q) \in Seq(PodRecords)
      BY <3>4 DEF TypeInv
    <3> QED
      BY <3>1, <3>5 DEF q
  <2> QED
    BY <2>1, <2>2
<1>3. Kin' = Kin /\ Asked(resources)' = Asked(resources)
  BY <1>1 DEF Kin
<1> QED
  BY <1>1, <1>2, <1>3 DEF TypeInv

\* The other steps leave alone what is typed.
Rest ==
  \/ RunCluster \/ Marked \/ Create \/ Delete \/ Return
  \/ BeginInflation \/ ScheduleInflation \/ CleanUp \/ ScheduleApp \/ Done

LEMMA RestLeaves ==
  ASSUME Rest \/ UNCHANGED vars
  PROVE  /\ UNCHANGED << resources, pods, workload, typical, totals, tuning, inflation >>
         /\ stage' # stage => stage \notin {"import", "error", "daemons"} /\ stage' \notin {"import", "daemons"}
BY DEF Rest, RunCluster, Marked, Create, Delete, Return, BeginInflation, ScheduleInflation, CleanUp,
       ScheduleApp, Done, Scheduling, vars

LEMMA TypeNext == TypeInv /\ [Next]_vars => TypeInv'
<1> SUFFICES ASSUME TypeInv, [Next]_vars PROVE TypeInv'
  OBVIOUS
<1>1. CASE Rest \/ UNCHANGED vars
  <2>1. /\ UNCHANGED << resources, pods, workload, totals, tuning, inflation >>
        /\ stage' # stage => stage \notin {"import", "error", "daemons"} /\ stage' \notin {"import", "daemons"}
    BY <1>1, RestLeaves
  <2>2. Kin' = Kin /\ Asked(resources)' = Asked(resources)
    BY <2>1 DEF Kin
  <2> QED
    BY <2>1, <2>2 DEF TypeInv
<1> QED
  BY <1>1, TypeImport, TypeRunDaemons, TypeTuning, TypeGenerate DEF Next, Rest

(***************************************************************************)
(* What the variables of a simulation hold, in all states: pods are of the *)
(* kinds the configuration asks for, and the workload has no dates.        *)
(***************************************************************************)
THEOREM SimulateTypes == Spec => []TypeInv
<1> QED
  BY TypeInit, TypeNext, PTL DEF Spec

-----------------------------------------------------------------------------
(***************************************************************************)
(* Tuning: while the total is over the target, pods leave, so that it ends *)
(* at most one pod below; while it is under, pods come whose share of one  *)
(* GPU still fits, so that it ends at most one pod above or below.         *)
(***************************************************************************)

Near == \E k \in Kin : Excess(totals.podGpu, tuning.num) \in -TuneDen * PutsOff(k) .. TuneDen * PutsOff(k)

NearInv ==
  /\ stage \in {"start", "tuneDown", "tuneUp", "tuned"} => totals.podGpu = GpuTotal(pods)
  /\ stage = "tuneDown" => Excess(totals.podGpu, tuning.num) > 0 \/ Near
  /\ stage = "tuneUp" => Excess(totals.podGpu, tuning.num) <= 0 \/ Near
  /\ stage = "tuned" /\ tuning.num # 0 => Near

LEMMA Scaled ==
  ASSUME NEW d \in Nat, NEW x \in Int, NEW y \in Int
  PROVE  /\ d * (x + y) = d * x + d * y /\ d * (x - y) = d * x - d * y
         /\ d * x \in Int /\ d * y \in Int /\ (x <= y => d * x <= d * y)
<1>1. d * (x + y) = d * x + d * y /\ d * (x - y) = d * x - d * y
  OBVIOUS
<1>2. d * x \in Int /\ d * y \in Int
  OBVIOUS
<1>3. ASSUME x <= y PROVE d * x <= d * y
  <2> DEFINE z == y - x
  <2>1. z \in Nat
    BY <1>3
  <2>2. d * z \in Nat
    <3> HIDE DEF z
    <3> QED
      BY <2>1
  <2>3. d * (y - x) = d * y - d * x
    OBVIOUS
  <2> QED
    BY <1>2, <2>2, <2>3
<1> QED
  BY <1>1, <1>2, <1>3

LEMMA PutsOffIs ==
  ASSUME NEW p \in PodRecords
  PROVE  /\ PutsOff(p.res) \in Nat /\ p.res.milli \in Nat /\ TotalMilliGpu(p.res) \in Nat
         /\ p.res.milli <= PutsOff(p.res) /\ TotalMilliGpu(p.res) <= PutsOff(p.res)
         /\ TotalMilliGpu(p.res) <= p.res.milli \/ TotalMilliGpu(p.res) = PutsOff(p.res)
<1> DEFINE m == p.res.milli
           n == p.res.num
<1>1. m \in Nat /\ n \in Nat
  <2>1. p.res \in PodResources
    BY DEF PodRecords
  <2> QED
    BY <2>1, ResourceAssumption DEF PodResources
<1> HIDE DEF m, n
<1>2. m * n \in Nat /\ (n = 0 => m * n = 0)
  BY <1>1
<1>3. n # 0 => m <= m * n
  <2> SUFFICES ASSUME n # 0 PROVE m <= m * n
    OBVIOUS
  <2>1. m * 1 <= m * n
    BY <1>1, Scaled
  <2> QED
    BY <1>1, <2>1
<1>4. TotalMilliGpu(p.res) = m * n /\ PutsOff(p.res) = IF n = 0 THEN m ELSE m * n
  BY DEF TotalMilliGpu, PutsOff, m, n
<1> QED
  BY <1>1, <1>2, <1>3, <1>4 DEF m

\* The total of one pod more or less.
LEMMA ExcessMoves ==
  ASSUME TypeInv, NEW x \in Int, NEW y \in Int, NEW num \in Nat
  PROVE  /\ Excess(x + y, num) = Excess(x, num) + TuneDen * y
         /\ Excess(x - y, num) = Excess(x, num) - TuneDen * y
         /\ Excess(x, num) \in Int /\ TuneDen * y \in Int /\ -TuneDen * y = -(TuneDen * y)
<1> DEFINE c == num * totals.nodeGpu
<1>1. TuneDen \in Nat /\ c \in Int
  BY SimulateAssumption DEF TypeInv
<1> HIDE DEF c
<1>2. \A z : Excess(z, num) = TuneDen * z - c
  BY DEF Excess, c
<1>3. /\ TuneDen * (x + y) = TuneDen * x + TuneDen * y /\ TuneDen * (x - y) = TuneDen * x - TuneDen * y
      /\ TuneDen * x \in Int /\ TuneDen * y \in Int
  BY <1>1, Scaled
<1>4. -TuneDen * y = -(TuneDen * y)
  BY <1>1
<1> QED
  BY <1>1, <1>2, <1>3, <1>4

LEMMA NearInit == Init => NearInv
BY DEF Init, NearInv

LEMMA NearDaemons == TypeInv /\ TypeInv' /\ RunDaemons => NearInv'
<1> SUFFICES ASSUME TypeInv', RunDaemons PROVE NearInv'
  OBVIOUS
<1>1. PICK hash : LET made == PodsOfDaemonSets(resources.DaemonSets, hash)
                  IN IF MakeValidPod(made)
                     THEN /\ stage' = "start"
                          /\ totals' = [podCpu  |-> CpuTotal(pods'), podGpu |-> GpuTotal(pods'),
                                        nodeCpu |-> SumFunction([n \in Nodes |-> NodeRes[n].cpu]),
                                        nodeGpu |-> SumFunction([n \in Nodes |-> NodeRes[n].gpu])]
                     ELSE stage' = "error"
  BY DEF RunDaemons
<1>2. CASE stage' = "error"
  BY <1>2 DEF NearInv
<1>3. CASE stage' # "error"
  <2>1. stage' = "start" /\ totals'.podGpu = GpuTotal(pods')
    BY <1>1, <1>3
  <2>2. GpuTotal(pods') = GpuTotal(pods)'
    BY DEF GpuTotal
  <2> QED
    BY <2>1, <2>2 DEF NearInv
<1> QED
  BY <1>2, <1>3

LEMMA NearBegin == TypeInv /\ TypeInv' /\ NearInv /\ BeginTuning => NearInv'
<1> SUFFICES ASSUME TypeInv, TypeInv', NearInv, BeginTuning PROVE NearInv'
  OBVIOUS
<1>1. PICK num \in TuneNum :
        /\ tuning' = [num |-> num, added |-> 0]
        /\ stage' = IF \E k \in DOMAIN totals : totals[k] <= 0 THEN "error"
                    ELSE IF num = 0 \/ Excess(totals.podGpu, num) = 0 THEN "tuned"
                    ELSE IF Excess(totals.podGpu, num) > 0 THEN "tuneDown" ELSE "tuneUp"
  BY DEF BeginTuning
<1>2. /\ UNCHANGED << pods, workload, totals, resources >> /\ stage = "start"
      /\ tuning'.num = num /\ num \in Nat
  BY <1>1, SimulateAssumption DEF BeginTuning
<1> DEFINE e == Excess(totals.podGpu, num)
<1>3. /\ e \in Int /\ Excess(totals.podGpu, tuning.num)' = e /\ Kin' = Kin
      /\ totals'.podGpu = GpuTotal(pods)'
  <2>1. totals.podGpu \in Int
    BY DEF TypeInv
  <2>2. e \in Int
    BY <1>2, <2>1, ExcessMoves
  <2>3. totals.podGpu = GpuTotal(pods)
    BY <1>2 DEF NearInv
  <2> QED
    BY <1>2, <2>2, <2>3 DEF Excess, Kin, GpuTotal
<1>4. CASE stage' \in {"error", "tuneDown", "tuneUp"}
  <2>1. stage' = "tuneDown" => e > 0
    BY <1>1, <1>4
  <2>2. stage' = "tuneUp" => ~(e > 0)
    BY <1>1, <1>4
  <2> HIDE DEF e
  <2> QED
    BY <1>3, <1>4, <2>1, <2>2 DEF NearInv
<1>5. CASE stage' = "tuned"
  <2>1. ~ \E k \in DOMAIN totals : totals[k] <= 0
    BY <1>1, <1>5
  <2>2. "podGpu" \in DOMAIN totals
    BY DEF TypeInv
  <2>3. totals.podGpu > 0
    BY <2>1, <2>2 DEF TypeInv
  <2>4. num # 0 => e = 0
    BY <1>1, <1>5
  <2>5. pods # <<>>
    <3> SUFFICES ASSUME pods = <<>> PROVE FALSE
      OBVIOUS
    <3>1. DOMAIN pods = {}
      OBVIOUS
    <3>2. GpuTotal(pods) = SumOver(Gpus(pods), {})
      BY <3>1, GpuTotalIs DEF TypeInv
    <3>3. GpuTotal(pods) = 0
      BY <3>2, SumNothing
    <3> QED
      BY <1>2, <2>3, <3>3 DEF NearInv
  <2>6. pods[1] \in PodRecords /\ pods[1].res \in Kin
    <3>1. pods \in Seq(PodsAsking(Kin))
      BY <1>2 DEF TypeInv
    <3>2. pods[1] \in PodsAsking(Kin)
      BY <2>5, <3>1
    <3> QED
      BY <3>2 DEF PodsAsking
  <2> DEFINE k == pods[1].res
  <2>7. PutsOff(k) \in Nat /\ k \in Kin
    BY <2>6, PutsOffIs
  <2> HIDE DEF k
  <2>8. 0 \in -TuneDen * PutsOff(k) .. TuneDen * PutsOff(k)
    <3> DEFINE x == TuneDen * PutsOff(k)
    <3>1. TuneDen \in Nat
      BY SimulateAssumption
    <3>2. x \in Nat /\ -TuneDen * PutsOff(k) = -x
      BY <2>7, <3>1
    <3> HIDE DEF x
    <3>3. 0 \in -x .. x
      BY <3>2
    <3> QED
      BY <3>2, <3>3 DEF x
  <2>9. num # 0 => Near'
    <3> HIDE DEF e
    <3> QED
      BY <1>3, <2>4, <2>7, <2>8 DEF Near
  <2> HIDE DEF e
  <2> QED
    BY <1>2, <1>3, <1>5, <2>9 DEF NearInv
<1> QED
  BY <1>4, <1>5, Reordered

LEMMA NearDown == TypeInv /\ TypeInv' /\ NearInv /\ tuneDownPods => NearInv'
<1> SUFFICES ASSUME TypeInv, TypeInv', NearInv, tuneDownPods PROVE NearInv'
  OBVIOUS
<1> DEFINE e == Excess(totals.podGpu, tuning.num)
<1>1. /\ stage = "tuneDown" /\ UNCHANGED << workload, resources, tuning >> /\ Kin' = Kin
      /\ totals.podGpu = GpuTotal(pods) /\ (e > 0 \/ Near)
  BY DEF tuneDownPods, NearInv, Kin
<1>2. CASE ~(e > 0)
  <2>1. stage' = "tuned" /\ UNCHANGED << pods, totals >> /\ Near
    BY <1>1, <1>2 DEF tuneDownPods
  <2>2. Near' /\ GpuTotal(pods)' = GpuTotal(pods)
    BY <1>1, <2>1 DEF Near, Excess, GpuTotal
  <2> QED
    BY <1>1, <2>1, <2>2 DEF NearInv
<1>3. CASE e > 0
  <2>1. PICK i \in DOMAIN pods :
          /\ pods' = RemoveAt(pods, i)
          /\ totals' = [totals EXCEPT !.podGpu = @ - TotalMilliGpu(pods[i].res)]
          /\ stage' = stage
    BY <1>3 DEF tuneDownPods, RemovePodsByIndex
  <2> DEFINE p == pods[i]
             t == TotalMilliGpu(p.res)
             w == PutsOff(p.res)
             e2 == Excess(totals.podGpu - t, tuning.num)
  <2>2. p \in PodRecords /\ p.res \in Kin
    <3>1. pods \in Seq(PodsAsking(Kin))
      BY <1>1 DEF TypeInv
    <3>2. pods[i] \in PodsAsking(Kin)
      BY <3>1
    <3> QED
      BY <3>2 DEF PodsAsking
  <2>3. t \in Nat /\ w \in Nat /\ t <= w
    <3> HIDE DEF p
    <3> QED
      BY <2>2, PutsOffIs
  <2>4. totals'.podGpu = totals.podGpu - t /\ totals'.nodeGpu = totals.nodeGpu
    BY <2>1 DEF TypeInv
  <2>5. GpuTotal(pods') = GpuTotal(pods) - t
    BY <2>1, GpuTotalWithout DEF TypeInv
  <2> HIDE DEF t, p, w
  <2>6. totals'.podGpu = GpuTotal(pods)'
    BY <1>1, <2>4, <2>5 DEF GpuTotal
  <2>7. /\ e2 = e - TuneDen * t /\ e \in Int /\ TuneDen * t \in Int
        /\ TuneDen * t <= TuneDen * w /\ TuneDen * w \in Int /\ -TuneDen * w = -(TuneDen * w)
    <3>1. tuning.num \in Nat /\ totals.podGpu \in Int /\ TuneDen \in Nat
      BY SimulateAssumption DEF TypeInv
    <3> DEFINE g == totals.podGpu
               n == tuning.num
    <3>2. e2 = e - TuneDen * t /\ e \in Int /\ TuneDen * t \in Int
      <4>1. g \in Int /\ n \in Nat /\ t \in Int
        BY <2>3, <3>1
      <4> HIDE DEF g, n
      <4>2. /\ Excess(g - t, n) = Excess(g, n) - TuneDen * t
            /\ Excess(g, n) \in Int /\ TuneDen * t \in Int
        BY <4>1, ExcessMoves
      <4> QED
        BY <4>2 DEF g, n
    <3>3. TuneDen * t <= TuneDen * w /\ TuneDen * w \in Int
      BY <2>3, <3>1, Scaled
    <3>4. -TuneDen * w = -(TuneDen * w)
      BY <2>3, <3>1
    <3> QED
      BY <3>2, <3>3, <3>4
  <2>8. Excess(totals.podGpu, tuning.num)' = e2
    BY <1>1, <2>4 DEF Excess
  <2> DEFINE x == TuneDen * t
             y == TuneDen * w
  <2>9. e2 > 0 \/ e2 \in -y .. y
    <3> HIDE DEF x, y, e, e2
    <3>1. e2 = e - x /\ e \in Int /\ x \in Int /\ x <= y /\ y \in Int
      BY <2>7 DEF x, y
    <3> QED
      BY <1>3, <3>1
  <2>10. e2 > 0 \/ Near'
    <3>1. PutsOff(p.res) = w /\ p.res \in Kin'
      BY <1>1, <2>2 DEF w
    <3>2. Excess(totals.podGpu, tuning.num)' = e2 /\ -TuneDen * w = -y /\ TuneDen * w = y
      BY <2>7, <2>8
    <3> HIDE DEF y, e2
    <3> QED
      BY <2>9, <3>1, <3>2 DEF Near
  <2> HIDE DEF e2
  <2> QED
    BY <1>1, <2>1, <2>6, <2>8, <2>10 DEF NearInv
<1> QED
  BY <1>2, <1>3

LEMMA NearUp == TypeInv /\ TypeInv' /\ NearInv /\ tuneUpPods => NearInv'
<1> SUFFICES ASSUME TypeInv, TypeInv', NearInv, tuneUpPods PROVE NearInv'
  OBVIOUS
<1> DEFINE e == Excess(totals.podGpu, tuning.num)
<1>1. /\ stage = "tuneUp" /\ UNCHANGED << workload, resources >> /\ Kin' = Kin
      /\ totals.podGpu = GpuTotal(pods) /\ (e <= 0 \/ Near)
  BY DEF tuneUpPods, NearInv, Kin
<1>2. PICK i \in DOMAIN workload :
        IF Excess(totals.podGpu + workload[i].res.milli, tuning.num) > 0
        THEN stage' = "tuned" /\ UNCHANGED << pods, totals, tuning >>
        ELSE /\ pods' = Append(pods, Tuned(workload[i], tuning.added))
             /\ totals' = [totals EXCEPT !.podGpu = @ + TotalMilliGpu(workload[i].res)]
             /\ tuning' = [tuning EXCEPT !.added = @ + 1]
             /\ stage' = stage
  BY DEF tuneUpPods
<1> DEFINE p == workload[i]
           m == p.res.milli
           t == TotalMilliGpu(p.res)
           w == PutsOff(p.res)
           a == Excess(totals.podGpu + m, tuning.num)
           e2 == Excess(totals.podGpu + t, tuning.num)
           x == TuneDen * m
           z == TuneDen * t
           y == TuneDen * w
<1>3. p \in PodRecords /\ p.res \in Kin
  BY IsPods DEF TypeInv, Kin
<1>4. m \in Nat /\ t \in Nat /\ w \in Nat /\ m <= w /\ t <= w /\ (t <= m \/ t = w)
  <2> HIDE DEF p
  <2> QED
    BY <1>3, PutsOffIs
<1> HIDE DEF m, t, w, p
<1>5. /\ a = e + x /\ e2 = e + z /\ e \in Int /\ x \in Int /\ y \in Int /\ z \in Int
      /\ x <= y /\ z <= y /\ (z <= x \/ z = y) /\ 0 <= x /\ 0 <= z
      /\ -TuneDen * w = -y
  <2>1. tuning.num \in Nat /\ totals.podGpu \in Int /\ TuneDen \in Nat
    BY SimulateAssumption DEF TypeInv
  <2>2. a = e + x /\ e \in Int /\ x \in Int
    BY <1>4, <2>1, ExcessMoves
  <2>3. e2 = e + z /\ z \in Int
    BY <1>4, <2>1, ExcessMoves
  <2>4. x <= y /\ y \in Int
    BY <1>4, <2>1, Scaled
  <2>5. z <= y /\ (t <= m => z <= x)
    BY <1>4, <2>1, Scaled
  <2>6. 0 <= x /\ 0 <= z /\ -TuneDen * w = -y
    BY <1>4, <2>1
  <2> QED
    BY <1>4, <2>2, <2>3, <2>4, <2>5, <2>6
<1>6. p.res \in Kin' /\ w = PutsOff(p.res) /\ TuneDen * w = y
  BY <1>1, <1>3 DEF w
<1> HIDE DEF x, y, z
<1>7. CASE a > 0
  <2>1. stage' = "tuned" /\ UNCHANGED << pods, totals, tuning >>
    BY <1>2, <1>7 DEF m, p
  <2>2. Excess(totals.podGpu, tuning.num)' = e /\ GpuTotal(pods)' = GpuTotal(pods)
    BY <2>1 DEF Excess, GpuTotal
  <2> HIDE DEF a, e, e2
  <2>3. Near'
    <3>1. CASE e <= 0
      <4>1. e \in -y .. y
        BY <1>5, <1>7, <3>1
      <4> QED
        BY <1>5, <1>6, <2>2, <4>1 DEF Near
    <3>2. CASE ~(e <= 0)
      BY <1>1, <2>2, <3>2 DEF Near, e
    <3> QED
      BY <3>1, <3>2
  <2> QED
    BY <1>1, <2>1, <2>2, <2>3 DEF NearInv
<1>8. CASE ~(a > 0)
  <2>1. /\ pods' = Append(pods, Tuned(workload[i], tuning.added))
        /\ totals' = [totals EXCEPT !.podGpu = @ + t]
        /\ tuning' = [tuning EXCEPT !.added = @ + 1]
        /\ stage' = stage
    BY <1>2, <1>8 DEF m, p, t
  <2>2. /\ totals'.podGpu = totals.podGpu + t /\ totals'.nodeGpu = totals.nodeGpu
        /\ tuning'.num = tuning.num
    BY <2>1 DEF TypeInv
  <2>3. Excess(totals.podGpu, tuning.num)' = e2
    BY <2>2 DEF Excess
  <2>4. totals'.podGpu = GpuTotal(pods)'
    <3> DEFINE q == Tuned(p, tuning.added)
    <3>1. q \in PodsAsking({p.res})
      BY <1>3, CopyAsks DEF TypeInv
    <3>2. q \in PodRecords /\ q.res = p.res
      <4> HIDE DEF q
      <4> QED
        BY <3>1 DEF PodsAsking
    <3>3. pods' = Append(pods, q)
      BY <2>1 DEF p
    <3> HIDE DEF q
    <3>4. GpuTotal(Append(pods, q)) = GpuTotal(pods) + TotalMilliGpu(q.res)
      BY <3>2, GpuTotalWith DEF TypeInv
    <3> QED
      BY <1>1, <2>2, <3>2, <3>3, <3>4 DEF GpuTotal, t
  <2> HIDE DEF a, e, e2
  <2>5. e2 <= 0 \/ e2 \in -y .. y
    BY <1>5, <1>8
  <2>6. e2 <= 0 \/ Near'
    BY <1>5, <1>6, <2>3, <2>5 DEF Near
  <2> QED
    BY <1>1, <2>1, <2>3, <2>4, <2>6 DEF NearInv
<1> QED
  BY <1>7, <1>8

LEMMA NearNext == TypeInv /\ TypeInv' /\ NearInv /\ [Next]_vars => NearInv'
<1> SUFFICES ASSUME TypeInv, TypeInv', NearInv, [Next]_vars PROVE NearInv'
  OBVIOUS
<1>1. CASE UNCHANGED vars
  BY <1>1 DEF vars, NearInv, Near, Kin, Excess, GpuTotal
<1>2. CASE Import
  BY <1>2 DEF Import, NearInv
<1>3. CASE GenerateInflationPod
  BY <1>3 DEF GenerateInflationPod, NearInv
<1>4. CASE Rest
  <2>1. stage' \in {"start", "tuneDown", "tuneUp", "tuned"} => UNCHANGED vars
    BY <1>4 DEF Rest, RunCluster, Marked, Create, Delete, Return, Scheduling, BeginInflation, ScheduleInflation,
                CleanUp, ScheduleApp, Done
  <2> QED
    BY <1>1, <2>1 DEF NearInv
<1> QED
  BY <1>1, <1>2, <1>3, <1>4, NearDaemons, NearBegin, NearDown, NearUp DEF Next, Rest

(***************************************************************************)
(* TunePodsByNodeTotalResource: a workload that was tuned asks for the     *)
(* GPUs it was tuned to, to within what one pod may put it off by, and     *)
(* podTotalMilliGpuReq is what its pods ask for.                           *)
(***************************************************************************)
THEOREM Tuning == Spec => []TunedNear
<1>1. NearInv => TunedNear
  <2> SUFFICES ASSUME NearInv, stage = "tuned", tuning.num # 0 PROVE TunedNear
    BY DEF TunedNear
  <2> DEFINE A == { pods[i].res : i \in DOMAIN pods }
             B == { workload[i].res : i \in DOMAIN workload }
  <2>1. Near /\ totals.podGpu = GpuTotal(pods)
    BY DEF NearInv
  <2>2. Kin \subseteq A \cup B \cup { resources.DaemonSets[d].pod.res : d \in DOMAIN resources.DaemonSets }
    BY DEF Kin, DaemonsAsk
  <2> HIDE DEF A, B
  <2>3. \E k \in A \cup B \cup { resources.DaemonSets[d].pod.res : d \in DOMAIN resources.DaemonSets } :
          Excess(totals.podGpu, tuning.num) \in -TuneDen * PutsOff(k) .. TuneDen * PutsOff(k)
    BY <2>1, <2>2 DEF Near
  <2> QED
    BY <2>1, <2>3 DEF TunedNear, A, B
<1> QED
  BY <1>1, NearInit, NearNext, SimulateTypes, PTL DEF Spec

-----------------------------------------------------------------------------
(***************************************************************************)
(* Typical pods: the kinds are sorted by weight, and taken in steps until  *)
(* they weigh enough.                                                      *)
(***************************************************************************)

LEMMA SumIsOver ==
  ASSUME NEW weight, NEW S, IsFiniteSet(S), \A k \in S : weight[k] \in Int
  PROVE  Sum(weight, S) = SumOver(weight, S)
<1> DEFINE f == [k \in S |-> weight[k]]
<1>1. DOMAIN f = S /\ \A k \in S : f[k] = weight[k] /\ f[k] \in Int
  OBVIOUS
<1>2. Sum(weight, S) = SumFunction(f)
  BY DEF Sum
<1> HIDE DEF f
<1>3. SumFunction(f) = SumOver(f, DOMAIN f)
  BY DEF SumFunction, SumFunctionOnSet, FoldFunctionOnSet, SumOver, MapThenSumSet
<1>4. SumOver(f, S) = SumOver(weight, S)
  BY <1>1, SumSame
<1> QED
  BY <1>1, <1>2, <1>3, <1>4

\* The first of a falling order weigh at least what as many others do.
LEMMA Heaviest ==
  ASSUME NEW D, IsFiniteSet(D), NEW R, IsOrder(R, D), NEW s, Ranked(R, D, s),
         NEW weight, \A x \in D : weight[x] \in Nat,
         \A x, y \in D : <<x, y>> \in R => weight[y] <= weight[x],
         NEW t \in 0 .. Cardinality(D), NEW S \in SUBSET D, Cardinality(S) <= t
  PROVE  SumOver(weight, S) <= SumOver(weight, { s[i] : i \in 1 .. t })
<1> DEFINE n == Cardinality(D)
           T == { s[i] : i \in 1 .. t }
           at == [x \in S |-> Cardinality(Below(R, S, x)) + 1]
           pos == [x \in D |-> Cardinality(Below(R, D, x)) + 1]
           b == [x \in S |-> s[at[x]]]
<1>1. /\ n \in Nat /\ \A i \in 1 .. n : s[i] \in D
      /\ \A i, j \in 1 .. n : s[i] = s[j] => i = j
      /\ \A i, j \in 1 .. n : i < j => <<s[i], s[j]>> \in R
  BY RankOrder
<1>2. IsFiniteSet(S) /\ IsOrder(R, S) /\ Cardinality(S) \in Nat
  <2>1. IsFiniteSet(S)
    BY FS_Subset
  <2> QED
    BY <2>1, FS_CardinalityType DEF IsOrder
<1>3. \A x \in S : at[x] \in 1 .. t /\ \A y \in S : <<x, y>> \in R => at[x] < at[y]
  <2> TAKE x \in S
  <2>1. /\ Cardinality(Below(R, S, x)) \in 0 .. Cardinality(S) - 1
        /\ \A y \in S : <<x, y>> \in R => Cardinality(Below(R, S, x)) < Cardinality(Below(R, S, y))
    BY <1>2, BelowGrows
  <2>2. \A y \in S : Cardinality(Below(R, S, y)) \in 0 .. Cardinality(S) - 1
    BY <1>2, BelowGrows
  <2> QED
    BY <1>2, <2>1, <2>2
<1>4. \A x \in S : pos[x] \in 1 .. n /\ s[pos[x]] = x /\ at[x] <= pos[x]
  <2> TAKE x \in S
  <2>1. Cardinality(Below(R, D, x)) \in 0 .. n - 1
    BY BelowGrows
  <2>2. pos[x] \in 1 .. n /\ Cardinality(Below(R, D, x)) = pos[x] - 1
    <3> DEFINE c == Cardinality(Below(R, D, x))
    <3>1. pos[x] = c + 1 /\ c \in 0 .. n - 1
      BY <2>1
    <3> HIDE DEF c, pos, n
    <3>2. pos[x] \in 1 .. n /\ c = pos[x] - 1
      BY <1>1, <3>1
    <3> QED
      BY <3>2 DEF c
  <2>3. s[pos[x]] = x
    <3>1. s[pos[x]] \in D /\ Cardinality(Below(R, D, s[pos[x]])) = pos[x] - 1
      BY <2>2 DEF Ranked
    <3>2. \A y, z \in D : Cardinality(Below(R, D, y)) = Cardinality(Below(R, D, z)) => y = z
      <4> TAKE y \in D, z \in D
      <4> HAVE Cardinality(Below(R, D, y)) = Cardinality(Below(R, D, z))
      <4>1. /\ <<y, z>> \in R => Cardinality(Below(R, D, y)) < Cardinality(Below(R, D, z))
            /\ <<z, y>> \in R => Cardinality(Below(R, D, z)) < Cardinality(Below(R, D, y))
            /\ Cardinality(Below(R, D, y)) \in 0 .. n - 1
        BY BelowGrows
      <4>2. y # z => <<y, z>> \in R \/ <<z, y>> \in R
        BY DEF IsOrder
      <4> HIDE DEF n
      <4> QED
        BY <1>1, <4>1, <4>2
    <3> HIDE DEF pos
    <3> QED
      BY <2>2, <3>1, <3>2
  <2>4. Cardinality(Below(R, S, x)) <= Cardinality(Below(R, D, x))
    <3>1. Below(R, S, x) \subseteq Below(R, D, x) /\ Below(R, D, x) \subseteq D
      BY DEF Below
    <3>2. IsFiniteSet(Below(R, D, x))
      BY <3>1, FS_Subset
    <3> QED
      BY <3>1, <3>2, FS_Subset
  <2>5. Cardinality(Below(R, S, x)) \in Nat
    <3>1. Cardinality(Below(R, S, x)) \in 0 .. Cardinality(S) - 1
      BY <1>2, BelowGrows
    <3> QED
      BY <3>1
  <2> QED
    BY <2>1, <2>2, <2>3, <2>4, <2>5
<1> HIDE DEF at, pos, n
<1>5. b \in [S -> T] /\ \A x \in S : b[x] = s[at[x]]
  BY <1>3
<1>6. \A x, y \in S : b[x] = b[y] => x = y
  <2> TAKE x \in S, y \in S
  <2> HAVE b[x] = b[y]
  <2>1. at[x] \in 1 .. n /\ at[y] \in 1 .. n
    BY <1>1, <1>3 DEF n
  <2>2. at[x] = at[y]
    BY <1>1, <1>5, <2>1
  <2>3. x # y => <<x, y>> \in R \/ <<y, x>> \in R
    BY <1>2 DEF IsOrder
  <2> QED
    BY <1>3, <2>1, <2>2, <2>3
<1>7. \A x \in S : weight[x] <= weight[b[x]] /\ b[x] \in D
  <2> TAKE x \in S
  <2>1. at[x] \in 1 .. n /\ pos[x] \in 1 .. n /\ s[pos[x]] = x /\ at[x] <= pos[x]
    BY <1>1, <1>3, <1>4 DEF n
  <2>2. CASE at[x] = pos[x]
    BY <1>5, <2>1, <2>2
  <2>3. CASE at[x] < pos[x]
    <3>1. <<s[at[x]], s[pos[x]]>> \in R /\ s[at[x]] \in D
      BY <1>1, <2>1, <2>3
    <3> QED
      BY <1>5, <2>1, <3>1
  <2> QED
    BY <2>1, <2>2, <2>3
<1>8. IsFiniteSet(T) /\ T \subseteq D
  <2>1. 1 .. t \subseteq 1 .. n
    BY <1>1 DEF n
  <2>2. T \subseteq D
    BY <1>1, <2>1
  <2> HIDE DEF T
  <2> QED
    BY <2>2, FS_Subset
<1> HIDE DEF T, b
<1>9. (\A x \in T : weight[x] \in Nat) /\ \A x \in S : weight[x] \in Int /\ weight[x] <= weight[b[x]]
  BY <1>7, <1>8
<1>10. SumOver(weight, S) <= SumOver(weight, T)
  BY ONLY <1>2, <1>5, <1>6, <1>8, <1>9, SumInjection
<1> QED
  BY <1>10 DEF T

\* What a map of weights of kinds of pods is.
Weighs(weight, D) ==
  /\ DOMAIN weight = D /\ IsFiniteSet(D) /\ D \subseteq PodResources
  /\ \A k \in D : weight[k] \in Nat
  /\ \A p, q \in D : p # q => Less(p, q) \/ Less(q, p)

\* The kinds are sorted by falling weight.
LEMMA KindsSorted ==
  ASSUME NEW weight, NEW D, Weighs(weight, D)
  PROVE  \E R : /\ IsOrder(R, D) /\ Ranked(R, D, SortTargetPodInDecreasingCount(weight))
                /\ \A x, y \in D : <<x, y>> \in R => weight[y] <= weight[x]
                /\ Len(SortTargetPodInDecreasingCount(weight)) = Cardinality(D)
<1> DEFINE Before(p, q) == weight[p] > weight[q] \/ (weight[p] = weight[q] /\ Less(q, p))
           R == { u \in D \X D : Before(u[1], u[2]) }
           s == SortBy(D, Before)
           n == Cardinality(D)
           low == [x \in D |-> { y \in D : Before(y, x) }]
<1>1. /\ IsFiniteSet(D) /\ n \in Nat /\ \A k \in D : weight[k] \in Nat
      /\ \A p, q \in D : p # q => Less(p, q) \/ Less(q, p)
      /\ \A k \in D : k.cpu \in Int /\ k.milli \in Int /\ k.num \in Int
  BY FS_CardinalityType, ResourceAssumption DEF Weighs, PodResources
<1>2. /\ \A p \in D : ~Less(p, p)
      /\ \A p, q, r \in D : Less(p, q) /\ Less(q, r) => Less(p, r)
  BY <1>1 DEF Less
<1>3. \A x, y \in D : <<x, y>> \in R <=> Before(x, y)
  <2> HIDE DEF Before
  <2> QED
    OBVIOUS
<1>4. /\ \A p \in D : ~Before(p, p)
      /\ \A p, q \in D : p # q => Before(p, q) \/ Before(q, p)
      /\ \A p, q \in D : Before(p, q) => weight[q] <= weight[p]
  BY <1>1, <1>2
<1>5. ASSUME NEW p \in D, NEW q \in D, NEW r \in D, Before(p, q), Before(q, r)
      PROVE  Before(p, r)
  <2>1. weight[p] \in Nat /\ weight[q] \in Nat /\ weight[r] \in Nat /\ (Less(q, p) /\ Less(r, q) => Less(r, p))
    BY <1>1, <1>2
  <2> QED
    BY <1>5, <2>1
<1> HIDE DEF Before, R
<1>6. IsOrder(R, D) /\ \A x, y \in D : <<x, y>> \in R => weight[y] <= weight[x]
  <2>1. \A x, y, z \in D : Before(x, y) /\ Before(y, z) => Before(x, z)
    BY <1>5
  <2> QED
    BY <1>3, <1>4, <2>1 DEF IsOrder
<1>7. \A x \in D : Below(R, D, x) = low[x] /\ low[x] = { y \in D : Before(y, x) }
  BY <1>3 DEF Below
<1>8. \A k \in 1 .. n : \E x \in D : Cardinality(low[x]) = k - 1
  <2>1. \A k \in 1 .. n : \E x \in D : Cardinality(Below(R, D, x)) = k - 1
    BY <1>1, <1>6, RankFound
  <2> HIDE DEF n, low
  <2> QED
    BY <1>7, <2>1
<1>9. \A k \in 1 .. n : s[k] \in D /\ Cardinality(Below(R, D, s[k])) = k - 1
  <2> TAKE k \in 1 .. n
  <2>1. \E x \in D : Cardinality({ y \in D : Before(y, x) }) = k - 1
    BY <1>7, <1>8
  <2>2. s[k] = CHOOSE x \in D : Cardinality({ y \in D : Before(y, x) }) = k - 1
    BY DEF SortBy
  <2> HIDE DEF s
  <2>3. s[k] \in D /\ Cardinality({ y \in D : Before(y, s[k]) }) = k - 1
    BY <2>1, <2>2
  <2>4. Below(R, D, s[k]) = { y \in D : Before(y, s[k]) }
    BY <1>7, <2>3
  <2> QED
    BY <2>3, <2>4
<1>12. Len(s) = n
  <2>1. DOMAIN s = 1 .. n
    BY DEF SortBy
  <2> HIDE DEF s, n
  <2> QED
    BY <1>1, <2>1
<1>10. SortTargetPodInDecreasingCount(weight) = s
  BY DEF SortTargetPodInDecreasingCount, SortBy, Before, Weighs
<1> HIDE DEF s, n
<1>11. Ranked(R, D, s)
  BY <1>9 DEF Ranked, n
<1> QED
  BY <1>6, <1>10, <1>11, <1>12 DEF n

\* The lesser of two numbers.
LEMMA LesserIs ==
  ASSUME NEW x \in Int, NEW y \in Int
  PROVE  Min({x, y}) = IF x <= y THEN x ELSE y
<1>1. Min({x, y}) = CHOOSE z \in {x, y} : \A w \in {x, y} : z <= w
  BY DEF Min
<1>2. CASE x <= y
  <2>1. x \in {x, y} /\ \A w \in {x, y} : x <= w
    BY <1>2
  <2>2. Min({x, y}) \in {x, y} /\ \A w \in {x, y} : Min({x, y}) <= w
    BY <1>1, <2>1
  <2> QED
    BY <1>2, <2>2
<1>3. CASE ~(x <= y)
  <2>1. y \in {x, y} /\ \A w \in {x, y} : y <= w
    BY <1>3
  <2>2. Min({x, y}) \in {x, y} /\ \A w \in {x, y} : Min({x, y}) <= w
    BY <1>1, <2>1
  <2> QED
    BY <1>3, <2>2
<1> QED
  BY <1>2, <1>3

\* What TypicalCover says of one list and its weights.
Covers(list, weight) ==
  LET kept == DOMAIN list
      all == Sum(weight, DOMAIN weight)
      reaches(S) == 100 * Sum(weight, S) >= PodPopularityThreshold * all
  IN /\ kept \subseteq DOMAIN weight /\ \A k \in kept : list[k] = weight[k]
     /\ all > 0 => kept # {}
     /\ reaches(kept)
     /\ \A k \in kept, j \in DOMAIN weight \ kept : weight[j] <= weight[k]
     /\ \A S \in SUBSET kept : Cardinality(S) + PodIncreaseStep <= Cardinality(kept) => ~reaches(S)

\* How many kinds have been taken after some steps.
TakenAfter(steps, n) == Min({ steps * PodIncreaseStep, n })

LEMMA TakenIs ==
  ASSUME NEW n \in Nat, NEW k \in Nat
  PROVE  /\ TakenAfter(k, n) \in 0 .. n
         /\ TakenAfter(0, n) = 0 /\ TakenAfter(n, n) = n
         /\ k # 0 => k - 1 \in Nat /\ TakenAfter(k, n) - PodIncreaseStep <= TakenAfter(k - 1, n)
<1> DEFINE p == PodIncreaseStep
<1>1. p \in Nat \ {0}
  BY TypicalPodsConfig
<1> HIDE DEF p
<1>2. ASSUME NEW i \in Nat
      PROVE  p * i \in Nat /\ TakenAfter(i, n) = IF p * i <= n THEN p * i ELSE n
  <2>1. p * i \in Nat /\ i * p = p * i
    BY <1>1
  <2> DEFINE x == p * i
  <2>2. TakenAfter(i, n) = Min({x, n})
    BY <2>1 DEF TakenAfter, p
  <2> HIDE DEF x
  <2>3. x \in Int /\ n \in Int
    BY <2>1 DEF x
  <2>4. Min({x, n}) = IF x <= n THEN x ELSE n
    BY <2>3, LesserIs
  <2> QED
    BY <2>1, <2>2, <2>4 DEF x
<1>3. TakenAfter(k, n) \in 0 .. n
  <2> DEFINE x == p * k
  <2>1. x \in Nat /\ TakenAfter(k, n) = IF x <= n THEN x ELSE n
    BY <1>2
  <2> HIDE DEF x
  <2> QED
    BY <2>1
<1>4. TakenAfter(0, n) = 0
  <2>1. p * 0 = 0 /\ TakenAfter(0, n) = IF p * 0 <= n THEN p * 0 ELSE n
    BY <1>1, <1>2
  <2> QED
    BY <2>1
<1>5. TakenAfter(n, n) = n
  <2> DEFINE x == p * n
  <2>1. x \in Nat /\ TakenAfter(n, n) = IF x <= n THEN x ELSE n
    BY <1>2
  <2>2. n * 1 <= n * p
    BY <1>1, Scaled
  <2>3. n <= x
    BY <1>1, <2>2
  <2> HIDE DEF x
  <2> QED
    BY <2>1, <2>3
<1>6. ASSUME k # 0 PROVE k - 1 \in Nat /\ TakenAfter(k, n) - p <= TakenAfter(k - 1, n)
  <2> DEFINE j == k - 1
             x == p * k
             y == p * j
  <2>1. j \in Nat
    BY <1>6
  <2>2. y = x - p
    <3>1. p * (k - 1) = p * k - p * 1
      BY <1>1, Scaled
    <3> QED
      BY <1>1, <3>1
  <2> HIDE DEF j
  <2>3. x \in Nat /\ y \in Nat /\ TakenAfter(k, n) = (IF x <= n THEN x ELSE n)
        /\ TakenAfter(j, n) = (IF y <= n THEN y ELSE n)
    BY <1>2, <2>1
  <2> HIDE DEF x, y
  <2>4. TakenAfter(k, n) - p <= TakenAfter(j, n)
    BY <1>1, <2>2, <2>3
  <2> QED
    BY <2>1, <2>4 DEF j
<1> QED
  BY <1>3, <1>4, <1>5, <1>6 DEF p

\* The list that is kept covers its map.
LEMMA ChoppedCovers ==
  ASSUME NEW weight, NEW D, Weighs(weight, D)
  PROVE  Covers(Chopped(SortTargetPodInDecreasingCount(weight), weight), weight)
<1> DEFINE list == SortTargetPodInDecreasingCount(weight)
           n == Cardinality(D)
           all == Sum(weight, D)
           T == [k \in Nat |-> { list[i] : i \in 1 .. TakenAfter(k, n) }]
           cum == [k \in Nat |-> Sum(weight, T[k])]
           enough == { k \in 0 .. n : 100 * cum[k] >= PodPopularityThreshold * all }
           m == Min(enough)
           kept == T[m]
           chop == [k \in kept |-> weight[k]]
<1>1. /\ DOMAIN weight = D /\ IsFiniteSet(D) /\ n \in Nat /\ \A k \in D : weight[k] \in Nat
  BY FS_CardinalityType DEF Weighs
<1>2. PICK R : /\ IsOrder(R, D) /\ Ranked(R, D, list)
               /\ \A x, y \in D : <<x, y>> \in R => weight[y] <= weight[x]
               /\ Len(list) = n
  BY KindsSorted
<1> HIDE DEF list
<1>3. /\ \A i \in 1 .. n : list[i] \in D
      /\ \A i, j \in 1 .. n : list[i] = list[j] => i = j
      /\ \A x \in D : \E i \in 1 .. n : list[i] = x
      /\ \A i, j \in 1 .. n : i < j => <<list[i], list[j]>> \in R
  BY <1>1, <1>2, RankOrder
<1> HIDE DEF n
<1>4. \A k \in Nat : TakenAfter(k, n) \in 0 .. n
  BY <1>1, TakenIs
<1>5. \A k \in Nat : T[k] \subseteq D /\ IsFiniteSet(T[k])
  <2> TAKE k \in Nat
  <2>1. 1 .. TakenAfter(k, n) \subseteq 1 .. n
    BY <1>1, <1>4
  <2>2. T[k] \subseteq D
    BY <1>3, <2>1
  <2> HIDE DEF T
  <2> QED
    BY <1>1, <2>2, FS_Subset
<1>7. 0 \in enough \/ n \in enough
  <2>1. TakenAfter(n, n) = n /\ n \in Nat
    BY <1>1, TakenIs
  <2>2. T[n] = D
    <3>1. T[n] = { list[i] : i \in 1 .. n }
      BY <2>1
    <3> HIDE DEF T
    <3> QED
      BY <1>3, <3>1
  <2> HIDE DEF T
  <2>3. cum[n] = all
    BY <1>1, <2>2
  <2>4. all \in Nat
    <3>1. all = SumOver(weight, D)
      BY <1>1, SumIsOver
    <3>2. SumOver(weight, D) \in Nat
      BY <1>1, SumNat
    <3> QED
      BY <3>1, <3>2
  <2> HIDE DEF all, cum
  <2>5. 100 * all >= PodPopularityThreshold * all
    <3>1. all * PodPopularityThreshold <= all * 100
      BY <2>4, TypicalPodsConfig, Scaled
    <3>2. all * PodPopularityThreshold = PodPopularityThreshold * all /\ all * 100 = 100 * all
      BY <2>4, TypicalPodsConfig
    <3> QED
      BY <3>1, <3>2
  <2> QED
    BY <2>1, <2>3, <2>5
<1>8. m \in enough /\ \A k \in enough : m <= k
  <2>1. enough \in SUBSET Nat /\ enough # {}
    <3> HIDE DEF cum, all
    <3> QED
      BY <1>1, <1>7
  <2> HIDE DEF enough
  <2>2. \E k \in enough : \A j \in enough : k <= j
    BY <2>1, LeastNumber
  <2> QED
    BY <2>2 DEF Min
<1>9. m \in 0 .. n /\ 100 * cum[m] >= PodPopularityThreshold * all
  BY <1>8
<1>6. Chopped(list, weight) = chop
  <2> DEFINE l == Len(list)
             F(k) == { list[i] : i \in 1 .. TakenAfter(k, l) }
             E == { k \in 0 .. l : 100 * Sum(weight, F(k)) >= PodPopularityThreshold * Sum(weight, DOMAIN weight) }
  <2>1. Chopped(list, weight) = [k \in F(Min(E)) |-> weight[k]]
    BY DEF Chopped, TakenAfter
  <2>2. \A k \in Nat : T[k] = F(k)
    BY <1>2
  <2> HIDE DEF T, F
  <2>3. \A k \in Nat : cum[k] = Sum(weight, F(k))
    BY <2>2
  <2> HIDE DEF cum
  <2>4. E = enough
    <3>1. \A k \in 0 .. n : cum[k] = Sum(weight, F(k))
      BY <1>1, <2>3
    <3>2. l = n /\ DOMAIN weight = D
      BY <1>1, <1>2
    <3> HIDE DEF l
    <3>3. E = { k \in 0 .. n : 100 * Sum(weight, F(k)) >= PodPopularityThreshold * all }
      BY <3>2
    <3> HIDE DEF all, E
    <3> QED
      BY <3>1, <3>3
  <2> HIDE DEF E, enough
  <2>5. m \in Nat /\ Min(E) = m
    BY <1>1, <1>9, <2>4
  <2>6. F(Min(E)) = kept
    BY <2>2, <2>5
  <2> HIDE DEF m, kept
  <2> QED
    BY <2>1, <2>6
<1>10. \A k \in 0 .. n : k < m => ~(100 * cum[k] >= PodPopularityThreshold * all)
  <2> HIDE DEF cum, all, m
  <2> QED
    BY <1>1, <1>8, <1>9
<1> HIDE DEF enough, m
<1>11. kept \subseteq D /\ IsFiniteSet(kept)
  BY <1>1, <1>5, <1>9
<1>12. cum[m] = Sum(weight, kept) /\ kept = { list[i] : i \in 1 .. TakenAfter(m, n) }
  BY <1>1, <1>9
<1>13. ASSUME NEW k \in kept, NEW j \in D \ kept
       PROVE  weight[j] <= weight[k]
  <2> DEFINE t == TakenAfter(m, n)
  <2>1. t \in 0 .. n /\ kept = { list[i] : i \in 1 .. t }
    BY <1>1, <1>4, <1>9, <1>12
  <2> HIDE DEF kept, t
  <2>2. PICK x \in 1 .. t : k = list[x]
    BY <1>13, <2>1
  <2>3. PICK y \in 1 .. n : j = list[y]
    BY <1>3, <1>13
  <2>4. y \notin 1 .. t
    BY <1>13, <2>1, <2>3
  <2>5. x \in 1 .. n /\ x < y
    BY <1>1, <2>1, <2>2, <2>3, <2>4
  <2>6. <<k, j>> \in R
    BY <1>3, <2>2, <2>3, <2>5
  <2> QED
    BY <1>2, <1>11, <1>13, <2>6
<1>14. Cardinality(kept) <= TakenAfter(m, n)
  <2> DEFINE t == TakenAfter(m, n)
             f == [i \in 1 .. t |-> list[i]]
  <2>1. t \in Nat /\ kept = { list[i] : i \in 1 .. t }
    BY <1>1, <1>4, <1>9, <1>12
  <2> HIDE DEF kept, t
  <2>2. f \in Surjection(1 .. t, kept)
    BY <2>1 DEF Surjection
  <2>3. IsFiniteSet(1 .. t) /\ Cardinality(1 .. t) = t
    <3>1. IsFiniteSet(1 .. t) /\ Cardinality(1 .. t) = IF 1 > t THEN 0 ELSE t - 1 + 1
      BY <2>1, FS_Interval
    <3> QED
      BY <2>1, <3>1
  <2> HIDE DEF f
  <2>4. Cardinality(kept) <= Cardinality(1 .. t)
    BY <2>2, <2>3, FS_Surjection
  <2> QED
    BY <2>3, <2>4 DEF t
<1>15. ASSUME NEW S \in SUBSET kept, Cardinality(S) + PodIncreaseStep <= Cardinality(kept)
       PROVE  ~(100 * Sum(weight, S) >= PodPopularityThreshold * all)
  <2>1. S \subseteq D /\ IsFiniteSet(S) /\ Cardinality(S) \in Nat /\ Cardinality(kept) \in Nat
    <3> HIDE DEF kept
    <3>1. S \subseteq D /\ IsFiniteSet(S)
      BY <1>11, <1>15, FS_Subset
    <3> QED
      BY <1>11, <3>1, FS_CardinalityType
  <2>2. PodIncreaseStep \in Nat \ {0}
    BY TypicalPodsConfig
  <2> HIDE DEF kept
  <2>3. m # 0
    <3> SUFFICES ASSUME m = 0 PROVE FALSE
      OBVIOUS
    <3>1. TakenAfter(m, n) = 0
      BY <1>1, TakenIs
    <3> QED
      BY <1>14, <1>15, <2>1, <2>2, <3>1
  <2> DEFINE k == m - 1
             t == TakenAfter(k, n)
  <2>4. m \in Nat
    BY <1>1, <1>9
  <2>5. k \in Nat /\ TakenAfter(m, n) - PodIncreaseStep <= TakenAfter(m - 1, n)
    BY <1>1, <2>3, <2>4, TakenIs
  <2>6. k \in 0 .. n /\ k < m
    BY <1>1, <1>9, <2>3
  <2>7. t \in 0 .. n /\ TakenAfter(m, n) \in 0 .. n
    BY <1>4, <2>4, <2>5
  <2>8. Cardinality(S) <= t
    <3>1. Cardinality(S) <= TakenAfter(m, n) - PodIncreaseStep
      BY <1>1, <1>14, <1>15, <2>1, <2>2, <2>7
    <3> HIDE DEF t
    <3> QED
      BY <1>1, <2>1, <2>2, <2>5, <2>7, <3>1 DEF t
  <2> HIDE DEF k
  <2>9. SumOver(weight, S) <= SumOver(weight, { list[i] : i \in 1 .. t })
    <3>1. t \in 0 .. Cardinality(D) /\ S \in SUBSET D
      BY <2>1, <2>7 DEF n
    <3> HIDE DEF t
    <3> QED
      BY ONLY <1>1, <1>2, <2>8, <3>1, Heaviest
  <2>10. T[k] = { list[i] : i \in 1 .. t } /\ cum[k] = Sum(weight, T[k])
    BY <2>5
  <2>11. T[k] \subseteq D /\ IsFiniteSet(T[k])
    BY <1>5, <2>5
  <2> HIDE DEF T, t
  <2>12. Sum(weight, S) <= cum[k] /\ Sum(weight, S) \in Nat /\ cum[k] \in Nat
    <3>1. Sum(weight, S) = SumOver(weight, S) /\ SumOver(weight, S) \in Nat
      BY <1>1, <2>1, SumIsOver, SumNat
    <3> DEFINE U == T[k]
    <3>2. U \subseteq D /\ IsFiniteSet(U)
      BY <2>11
    <3> HIDE DEF U
    <3>3. Sum(weight, U) = SumOver(weight, U) /\ SumOver(weight, U) \in Nat
      BY <1>1, <3>2, SumIsOver, SumNat
    <3> QED
      BY <2>9, <2>10, <3>1, <3>3 DEF U
  <2>13. ~(100 * cum[k] >= PodPopularityThreshold * all)
    BY <1>10, <2>6
  <2>14. all \in Nat
    <3>1. all = SumOver(weight, D)
      BY <1>1, SumIsOver
    <3>2. SumOver(weight, D) \in Nat
      BY <1>1, SumNat
    <3> QED
      BY <3>1, <3>2
  <2> DEFINE x == Sum(weight, S)
             y == cum[k]
             z == PodPopularityThreshold * all
  <2> HIDE DEF cum, all
  <2>15. z \in Int
    BY <2>14, TypicalPodsConfig
  <2> HIDE DEF x, y, z
  <2> QED
    BY <2>12, <2>13, <2>15 DEF x, y, z
<1>16. all > 0 => kept # {}
  <2> SUFFICES ASSUME all > 0, kept = {} PROVE FALSE
    OBVIOUS
  <2>1. all \in Int
    <3>1. all = SumOver(weight, D)
      BY <1>1, SumIsOver
    <3>2. SumOver(weight, D) \in Int
      BY <1>1, SumInt
    <3> QED
      BY <3>1, <3>2
  <2>2. cum[m] = 0
    <3>1. Sum(weight, {}) = SumOver(weight, {})
      BY SumIsOver, FS_EmptySet
    <3> QED
      BY <1>12, <3>1, SumNothing
  <2> HIDE DEF all, cum, kept
  <2>3. 1 * all <= PodPopularityThreshold * all
    <3>1. all * 1 <= all * PodPopularityThreshold
      BY <2>1, TypicalPodsConfig, Scaled
    <3> QED
      BY <2>1, <3>1, TypicalPodsConfig
  <2>4. PodPopularityThreshold * all \in Int
    BY <2>1, TypicalPodsConfig
  <2> DEFINE z == PodPopularityThreshold * all
  <2>5. z \in Int /\ all <= z /\ 0 >= z /\ all > 0
    BY <1>9, <2>1, <2>2, <2>3, <2>4
  <2> HIDE DEF z
  <2> QED
    BY <2>1, <2>5
<1> HIDE DEF kept, cum
<1>17. DOMAIN chop = kept /\ \A k \in kept : chop[k] = weight[k]
  OBVIOUS
<1> HIDE DEF chop
<1>18. Covers(chop, weight)
  BY <1>1, <1>9, <1>11, <1>12, <1>13, <1>15, <1>16, <1>17 DEF Covers
<1> QED
  BY <1>6, <1>18 DEF list

\* The pods that count are some of the workload's, of its kinds.
LEMMA CountedIs ==
  ASSUME NEW K, NEW w \in Seq(PodsAsking(K))
  PROVE  /\ Counted(w) \subseteq DOMAIN w /\ IsFiniteSet(Counted(w))
         /\ \A i \in Counted(w) : w[i] \in PodRecords /\ w[i].res \in K
         /\ IsFiniteSet({ w[i].res : i \in Counted(w) })
<1> DEFINE C == Counted(w)
           D == { w[i].res : i \in C }
           f == [i \in C |-> w[i].res]
<1>1. Len(w) \in Nat /\ DOMAIN w = 1 .. Len(w) /\ \A i \in DOMAIN w : w[i] \in PodsAsking(K)
  OBVIOUS
<1>2. C \subseteq DOMAIN w
  <2>1. Min({ Len(w), MaxCounted }) <= Len(w) /\ Min({ Len(w), MaxCounted }) \in Int
    BY <1>1, LesserIs, TypicalPodsConfig
  <2> DEFINE m == Min({ Len(w), MaxCounted })
  <2>2. C \subseteq 1 .. m
    BY DEF Counted
  <2>3. m <= Len(w) /\ m \in Int
    BY <2>1
  <2> HIDE DEF m, C
  <2> QED
    BY <1>1, <2>2, <2>3
<1>3. IsFiniteSet(C)
  <2>1. IsFiniteSet(DOMAIN w)
    BY <1>1, UpToFinite
  <2> HIDE DEF C
  <2> QED
    BY <1>2, <2>1, FS_Subset
<1>4. \A i \in C : w[i] \in PodRecords /\ w[i].res \in K
  BY <1>1, <1>2 DEF PodsAsking
<1>5. IsFiniteSet(D)
  <2>1. f \in Surjection(C, D)
    <3> HIDE DEF C
    <3> QED
      BY DEF Surjection
  <2> HIDE DEF f, D, C
  <2> QED
    BY <1>3, <2>1, FS_Surjection
<1> HIDE DEF C
<1> QED
  BY <1>2, <1>3, <1>4, <1>5 DEF C

LEMMA SumOfNat ==
  ASSUME NEW S, IsFiniteSet(S), NEW f, DOMAIN f = S, \A i \in S : f[i] \in Nat
  PROVE  SumFunction(f) \in Nat
<1>1. SumFunction(f) = SumOver(f, DOMAIN f)
  BY DEF SumFunction, SumFunctionOnSet, FoldFunctionOnSet, SumOver, MapThenSumSet
<1>2. SumOver(f, S) \in Nat
  BY SumNat
<1> QED
  BY <1>1, <1>2

\* Both maps of a workload are weights of its kinds.
LEMMA WorkloadWeighs ==
  ASSUME NEW r \in Resources, NEW w \in Seq(PodsAsking(Asked(r)))
  PROVE  /\ Weighs(Frequency(w), { w[i].res : i \in Counted(w) })
         /\ Weighs(RunTime(w), { w[i].res : i \in Counted(w) })
<1> DEFINE K == Asked(r)
           C == Counted(w)
           D == { w[i].res : i \in C }
           once == [i \in C |-> IF w[i].res.milli = MILLI THEN 1 + w[i].res.num * GpuResWeight ELSE 1]
           Of(k) == { j \in C : w[j].res = k }
<1>1. /\ IsFiniteSet(C) /\ IsFiniteSet(D) /\ \A i \in C : w[i] \in PodRecords /\ w[i].res \in K
  <2>1. w \in Seq(PodsAsking(K))
    OBVIOUS
  <2> HIDE DEF K
  <2> QED
    BY <2>1, CountedIs
<1>2. /\ D \subseteq PodResources
      /\ \A p, q \in D : p # q => Less(p, q) \/ Less(q, p)
  <2>1. D \subseteq K
    BY <1>1
  <2>2. \A i \in C : w[i].res \in PodResources
    BY <1>1 DEF PodRecords
  <2>3. \A p, q \in K : p # q => Less(p, q) \/ Less(q, p)
    BY KindsApart
  <2> HIDE DEF K, C
  <2> QED
    BY <2>1, <2>2, <2>3
<1>3. \A i \in C : once[i] \in Nat /\ w[i].time \in Nat
  <2> TAKE i \in C
  <2>1. w[i].res \in PodResources /\ w[i].time \in Nat
    BY <1>1 DEF PodRecords
  <2>2. w[i].res.num \in Nat /\ GpuResWeight \in Nat
    BY <2>1, TypicalPodsConfig DEF PodResources
  <2> DEFINE x == w[i].res.num
  <2>3. x * GpuResWeight \in Nat
    <3> HIDE DEF x
    <3> QED
      BY <2>2 DEF x
  <2> QED
    BY <2>1, <2>3
<1>4. \A k \in D : Of(k) \subseteq C /\ IsFiniteSet(Of(k))
  <2> TAKE k \in D
  <2>1. Of(k) \subseteq C
    OBVIOUS
  <2> DEFINE S == Of(k)
  <2> HIDE DEF C, S
  <2> QED
    BY <1>1, <2>1, FS_Subset DEF S
<1> DEFINE Once(k) == [i \in Of(k) |-> IF w[i].res.milli = MILLI THEN 1 + w[i].res.num * GpuResWeight ELSE 1]
           Time(k) == [i \in Of(k) |-> w[i].time]
<1>5. Frequency(w) = [k \in D |-> SumFunction(Once(k))] /\ RunTime(w) = [k \in D |-> SumFunction(Time(k))]
  BY DEF Frequency, RunTime
<1>6. ASSUME NEW k \in D
      PROVE  SumFunction(Once(k)) \in Nat /\ SumFunction(Time(k)) \in Nat
  <2> DEFINE S == Of(k)
             f == Once(k)
             g == Time(k)
  <2>1. S \subseteq C /\ IsFiniteSet(S)
    BY <1>4
  <2>2. DOMAIN f = S /\ \A i \in S : f[i] = once[i]
    BY <2>1
  <2>3. DOMAIN g = S /\ \A i \in S : g[i] = w[i].time
    OBVIOUS
  <2> HIDE DEF S, f, g, once, C
  <2>4. SumFunction(f) \in Nat
    BY <1>3, <2>1, <2>2, SumOfNat
  <2>5. SumFunction(g) \in Nat
    BY <1>3, <2>1, <2>3, SumOfNat
  <2> QED
    BY <2>4, <2>5 DEF f, g
<1> HIDE DEF D, Once, Time
<1>7. Weighs(Frequency(w), D)
  <2>1. \A k \in D : Frequency(w)[k] \in Nat
    BY <1>5, <1>6
  <2>2. DOMAIN Frequency(w) = D
    BY <1>5
  <2> QED
    BY <1>1, <1>2, <2>1, <2>2 DEF Weighs
<1>8. Weighs(RunTime(w), D)
  <2>1. \A k \in D : RunTime(w)[k] \in Nat
    BY <1>5, <1>6
  <2>2. DOMAIN RunTime(w) = D
    BY <1>5
  <2> QED
    BY <1>1, <1>2, <2>1, <2>2 DEF Weighs
<1> QED
  BY <1>7, <1>8 DEF D

\* The typical pods are those of the workload.
TypicalInv ==
  stage \notin {"import", "error"} =>
    typical = [count |-> GetTypicalPods(workload), time |-> GetTypicalPodsByTime(workload)]

LEMMA TypicalNext == TypicalInv /\ [Next]_vars => TypicalInv'
<1> SUFFICES ASSUME TypicalInv, [Next]_vars PROVE TypicalInv'
  OBVIOUS
<1>1. CASE Import
  BY <1>1 DEF Import, TypicalInv
<1>2. ASSUME UNCHANGED << workload, typical >>, stage' # stage => stage \notin {"import", "error"}
      PROVE  TypicalInv'
  BY <1>2 DEF TypicalInv
<1>3. CASE RunDaemons
  BY <1>2, <1>3 DEF RunDaemons
<1>4. CASE BeginTuning \/ tuneDownPods \/ tuneUpPods
  <2>1. UNCHANGED << workload, typical >>
    BY <1>4 DEF BeginTuning, tuneDownPods, tuneUpPods
  <2> QED
    BY <1>2, <1>4, <2>1, Reordered
<1>5. CASE GenerateInflationPod
  BY <1>2, <1>5 DEF GenerateInflationPod
<1>6. CASE Rest \/ UNCHANGED vars
  BY <1>2, <1>6, RestLeaves
<1> QED
  BY <1>1, <1>3, <1>4, <1>5, <1>6 DEF Next, Rest

(***************************************************************************)
(* SetTypicalPods: the typical pods, by count and by time, stand for the   *)
(* part of the workload that the configuration asks for, are the heaviest  *)
(* kinds, and are no more than the last step needs.                        *)
(***************************************************************************)
THEOREM TypicalPodsCover == Spec => []TypicalCover
<1>1. TypeInv /\ TypicalInv => TypicalCover
  <2> SUFFICES ASSUME TypeInv, TypicalInv, stage \notin {"import", "error"},
                      NEW x \in { << typical.count, Frequency(workload) >>, << typical.time, RunTime(workload) >> }
               PROVE  Covers(x[1], x[2])
    BY Zenon DEF TypicalCover, Covers
  <2> DEFINE f == Frequency(workload)
             g == RunTime(workload)
             D == { workload[i].res : i \in Counted(workload) }
  <2>1. Weighs(f, D) /\ Weighs(g, D)
    BY WorkloadWeighs DEF TypeInv
  <2>2. /\ typical.count = Chopped(SortTargetPodInDecreasingCount(f), f)
        /\ typical.time = Chopped(SortTargetPodInDecreasingCount(g), g)
    BY DEF TypicalInv, GetTypicalPods, GetTypicalPodsByTime
  <2> HIDE DEF f, g, D
  <2>3. Covers(typical.count, f) /\ Covers(typical.time, g)
    BY <2>1, <2>2, ChoppedCovers
  <2> QED
    BY <2>3 DEF f, g
<1>2. Init => TypicalInv
  BY DEF Init, TypicalInv
<1> QED
  BY <1>1, <1>2, SimulateTypes, TypicalNext, PTL DEF Spec

-----------------------------------------------------------------------------
(***************************************************************************)
(* Creation and deletion: the events are in the order of their dates, a    *)
(* deletion after the creation of its pod, and at once if it is of the     *)
(* same date; and if the pods are in that order, with those that have no   *)
(* date of creation last, then of those that leave at a moment, the ones   *)
(* with a date leave before others are created at that moment, and the     *)
(* ones without after.                                                     *)
(***************************************************************************)

EventRecords == { Creation(p) : p \in PodRecords } \cup { Deletion(p) : p \in PodRecords }

\* One that has a time to leave after it came.
Leaves(pod) == pod.deleted # NoDate /\ pod.created <= pod.deleted

DatedInOrder(s) ==
  \A i, j \in DOMAIN s :
    i < j => /\ s[i].created # NoDate /\ s[j].created # NoDate => s[i].created <= s[j].created
             /\ s[i].created = NoDate => s[j].created = NoDate

\* Events by date; what leaves leaves after it came; and at one date what came
\* before leaves before others come, and what has no date of creation after.
Timely(es) ==
  /\ \A i, j \in DOMAIN es : i < j => es[i].at <= es[j].at
  /\ \A i \in DOMAIN es : es[i].op = "create" /\ Leaves(es[i].pod) =>
       \E j \in DOMAIN es : /\ i < j /\ es[j] = Deletion(es[i].pod)
                            /\ es[i].pod.created = es[i].pod.deleted => j = i + 1
  /\ ~Shuffle =>
       \A i, j \in DOMAIN es :
         i < j /\ es[i].op = "create" /\ es[j].op = "delete" /\ es[i].at = es[j].at =>
           es[j].pod.created \notin 1 .. (es[j].at - 1)
  /\ ~Shuffle =>
       \A i, j \in DOMAIN es :
         i < j /\ es[i].op = "delete" /\ es[j].op = "create" /\ es[i].pod.created = NoDate =>
           es[i].at # es[j].at

\* What has no date of creation and leaves when another is created is still to leave.
Waits(es, s) ==
  \A k \in DOMAIN es : es[k].op = "create" =>
    \A i \in DOMAIN s : s[i].created = NoDate /\ s[i].deleted = es[k].at /\ es[k].at # NoDate =>
      \E m \in DOMAIN es : es[m] = Deletion(s[i])

Places(s) == UNION { {k} \X DOMAIN EventsOf(s[k]) : k \in DOMAIN s }
EventAt(s, x) == EventsOf(s[x[1]])[x[2]]

\* Where the events of a sequence of pods are, and what they are.
LEMMA EventPlaces ==
  ASSUME NEW s \in Seq(PodRecords)
  PROVE  LET X  == Places(s)
             ev == [x \in X |-> EventAt(s, x)]
         IN /\ IsFiniteSet(X)
            /\ \A x \in X : x[1] \in 1 .. Len(s) /\ x[2] \in DOMAIN EventsOf(s[x[1]]) /\ x = << x[1], x[2] >>
            /\ \A k \in 1 .. Len(s) : \A i \in DOMAIN EventsOf(s[k]) : << k, i >> \in X
            /\ \A x \in X : \/ x[2] = 1 /\ ev[x] = Creation(s[x[1]])
                            \/ x[2] = 2 /\ ev[x] = Deletion(s[x[1]])
            /\ \A x \in X : ev[x].at \in Nat /\ ev[x] \in EventRecords
<1> DEFINE n == Len(s)
           X  == UNION { {k} \X DOMAIN EventsOf(s[k]) : k \in DOMAIN s }
           ev == [x \in X |-> EventsOf(s[x[1]])[x[2]]]
<1>1. n \in Nat /\ DOMAIN s = 1 .. n /\ \A k \in 1 .. n : s[k] \in PodRecords
  OBVIOUS
<1>2. /\ \A x \in X : x[1] \in 1 .. n /\ x[2] \in DOMAIN EventsOf(s[x[1]]) /\ x = << x[1], x[2] >>
      /\ \A k \in 1 .. n : \A i \in DOMAIN EventsOf(s[k]) : << k, i >> \in X
  <2> HIDE DEF n
  <2> QED
    BY <1>1
<1>3. \A k \in 1 .. n : /\ DOMAIN EventsOf(s[k]) \subseteq 1 .. 2
                        /\ EventsOf(s[k])[1] = Creation(s[k])
                        /\ 2 \in DOMAIN EventsOf(s[k]) => EventsOf(s[k])[2] = Deletion(s[k])
  BY DEF EventsOf
<1> HIDE DEF n, X
<1>4. IsFiniteSet(X)
  <2> DEFINE A == 1 .. n
             B == 1 .. 2
  <2>1. IsFiniteSet(A) /\ IsFiniteSet(B)
    BY <1>1, UpToFinite
  <2>2. X \subseteq A \X B
    BY <1>2, <1>3
  <2> HIDE DEF A, B
  <2>3. IsFiniteSet(A \X B)
    BY <2>1, FS_Product
  <2> QED
    BY <2>2, <2>3, FS_Subset
<1>5. ASSUME NEW x \in X
      PROVE  /\ \/ x[2] = 1 /\ ev[x] = Creation(s[x[1]])
                \/ x[2] = 2 /\ ev[x] = Deletion(s[x[1]])
             /\ ev[x].at \in Nat /\ ev[x] \in EventRecords
  <2> DEFINE k == x[1]
             i == x[2]
             p == s[k]
  <2>1. k \in 1 .. n /\ i \in DOMAIN EventsOf(p) /\ ev[x] = EventsOf(p)[i]
    BY <1>2
  <2>2. \/ i = 1 /\ ev[x] = Creation(p)
        \/ i = 2 /\ ev[x] = Deletion(p)
    <3> HIDE DEF k, i, ev
    <3>1. /\ DOMAIN EventsOf(p) \subseteq 1 .. 2 /\ EventsOf(p)[1] = Creation(p)
          /\ 2 \in DOMAIN EventsOf(p) => EventsOf(p)[2] = Deletion(p)
      BY <1>3, <2>1
    <3> HIDE DEF p
    <3>2. i = 1 \/ i = 2
      BY <2>1, <3>1
    <3> QED
      BY <2>1, <3>1, <3>2
  <2>3. p \in PodRecords
    <3> HIDE DEF k, i, ev
    <3> QED
      BY <1>1, <2>1
  <2> HIDE DEF p, ev
  <2>4. p.created \in Nat /\ p.deleted \in Nat
    BY <2>3 DEF PodRecords
  <2>5. /\ Creation(p).at \in Nat /\ Creation(p) \in EventRecords
        /\ Deletion(p).at \in Nat /\ Deletion(p) \in EventRecords
    <3>1. Creation(p).at = p.created /\ Deletion(p).at = p.deleted
      BY DEF Creation, Deletion
    <3>2. Creation(p) \in EventRecords /\ Deletion(p) \in EventRecords
      BY <2>3 DEF EventRecords
    <3> QED
      BY <2>4, <3>1, <3>2
  <2> QED
    BY <2>2, <2>5 DEF p
<1> QED
  BY <1>2, <1>4, <1>5 DEF n, X, Places, EventAt

\* Earlier, or of the same date and placed before.
Sooner(s, x, y) ==
  \/ EventAt(s, x).at < EventAt(s, y).at
  \/ EventAt(s, x).at = EventAt(s, y).at /\ (x[1] < y[1] \/ (x[1] = y[1] /\ x[2] < y[2]))

\* The events of a sequence of pods in their order.
LEMMA EventsAre ==
  ASSUME NEW s \in Seq(PodRecords)
  PROVE  \E o : /\ Events(s) \in Seq(EventRecords) /\ DOMAIN o = DOMAIN Events(s)
                /\ \A i \in DOMAIN o : o[i] \in Places(s) /\ Events(s)[i] = EventAt(s, o[i])
                /\ \A i, j \in DOMAIN o : o[i] = o[j] => i = j
                /\ \A x \in Places(s) : \E i \in DOMAIN o : o[i] = x
                /\ \A i, j \in DOMAIN o : i < j => Sooner(s, o[i], o[j])
<1> DEFINE X == Places(s)
           ev == [x \in X |-> EventAt(s, x)]
           at == [x \in X |-> ev[x].at]
           a == [x \in X |-> x[1]]
           b == [x \in X |-> x[2]]
           Pre(x, y) == at[x] < at[y] \/ (at[x] = at[y] /\ (a[x] < a[y] \/ (a[x] = a[y] /\ b[x] < b[y])))
           R == { u \in X \X X : Pre(u[1], u[2]) }
           event(x) == EventsOf(s[x[1]])[x[2]]
           Before(x, y) ==
             \/ event(x).at < event(y).at
             \/ /\ event(x).at = event(y).at
                /\ x[1] < y[1] \/ (x[1] = y[1] /\ x[2] < y[2])
           o == SortBy(X, Before)
           n == Cardinality(X)
           low == [x \in X |-> { y \in X : Before(y, x) }]
<1>1. /\ IsFiniteSet(X) /\ n \in Nat
      /\ \A x \in X : /\ x = << x[1], x[2] >> /\ x[1] \in Int /\ x[2] \in Int
                      /\ ev[x].at \in Nat /\ ev[x] \in EventRecords
  <2>1. /\ IsFiniteSet(X)
        /\ \A x \in X : x[1] \in 1 .. Len(s) /\ x[2] \in DOMAIN EventsOf(s[x[1]]) /\ x = << x[1], x[2] >>
        /\ \A x \in X : \/ x[2] = 1 /\ ev[x] = Creation(s[x[1]])
                        \/ x[2] = 2 /\ ev[x] = Deletion(s[x[1]])
        /\ \A x \in X : ev[x].at \in Nat /\ ev[x] \in EventRecords
    BY EventPlaces
  <2> HIDE DEF X, ev
  <2>2. \A x \in X : x[1] \in Int /\ x[2] \in Int
    BY <2>1
  <2> QED
    BY <2>1, <2>2, FS_CardinalityType
<1> HIDE DEF X
<1>2. \A x \in X : /\ at[x] \in Nat /\ a[x] \in Int /\ b[x] \in Int /\ x = << a[x], b[x] >>
                   /\ at[x] = EventAt(s, x).at /\ a[x] = x[1] /\ b[x] = x[2] /\ ev[x] = EventAt(s, x)
  BY <1>1
<1>3. \A x, y \in X : (Sooner(s, x, y) <=> Pre(x, y)) /\ (Before(x, y) <=> Pre(x, y))
  <2> TAKE x \in X, y \in X
  <2>1. Sooner(s, x, y) <=> Pre(x, y)
    BY <1>2, Zenon DEF Sooner
  <2>2. Sooner(s, x, y) <=> Before(x, y)
    BY Zenon DEF Sooner, EventAt
  <2> QED
    BY <2>1, <2>2
<1> HIDE DEF at, a, b
<1>4. IsOrder(R, X)
  <2>1. ASSUME NEW x \in X, NEW y \in X, NEW z \in X
        PROVE  /\ ~Pre(x, x)
               /\ Pre(x, y) /\ Pre(y, z) => Pre(x, z)
               /\ x # y => Pre(x, y) \/ Pre(y, x)
    <3>1. /\ at[x] \in Nat /\ at[y] \in Nat /\ at[z] \in Nat /\ a[x] \in Int /\ a[y] \in Int /\ a[z] \in Int
          /\ b[x] \in Int /\ b[y] \in Int /\ b[z] \in Int
          /\ x # y => a[x] # a[y] \/ b[x] # b[y]
      BY <1>2
    <3> QED
      BY <3>1, SMTT(30)
  <2>2. \A x, y \in X : <<x, y>> \in R <=> Pre(x, y)
    <3> HIDE DEF Pre
    <3> QED
      OBVIOUS
  <2> HIDE DEF Pre, R
  <2> QED
    BY <2>1, <2>2 DEF IsOrder
<1>5. \A x, y \in X : <<x, y>> \in R <=> Before(x, y)
  <2>1. \A x, y \in X : <<x, y>> \in R <=> Pre(x, y)
    <3> HIDE DEF Pre
    <3> QED
      OBVIOUS
  <2> HIDE DEF Pre, R, Before
  <2> QED
    BY <1>3, <2>1
<1>6. \A x \in X : Below(R, X, x) = low[x] /\ low[x] = { y \in X : Before(y, x) }
  <2> HIDE DEF R, Before
  <2> QED
    BY <1>5 DEF Below
<1> HIDE DEF Before, R, ev
<1>7. \A k \in 1 .. n : \E x \in X : Cardinality({ y \in X : Before(y, x) }) = k - 1
  <2>1. \A k \in 1 .. n : \E x \in X : Cardinality(Below(R, X, x)) = k - 1
    BY <1>1, <1>4, RankFound
  <2> HIDE DEF n, low
  <2> QED
    BY <1>6, <2>1
<1>8. \A k \in 1 .. n : o[k] \in X /\ Cardinality(Below(R, X, o[k])) = k - 1
  <2> TAKE k \in 1 .. n
  <2>1. \E x \in X : Cardinality({ y \in X : Before(y, x) }) = k - 1
    BY <1>7
  <2>2. o[k] = CHOOSE x \in X : Cardinality({ y \in X : Before(y, x) }) = k - 1
    BY DEF SortBy
  <2> HIDE DEF o
  <2>3. o[k] \in X /\ Cardinality({ y \in X : Before(y, o[k]) }) = k - 1
    BY <2>1, <2>2
  <2>4. Below(R, X, o[k]) = { y \in X : Before(y, o[k]) }
    BY <1>6, <2>3
  <2> QED
    BY <2>3, <2>4
<1>9. DOMAIN o = 1 .. n
  BY DEF SortBy
<1>10. Events(s) = [k \in DOMAIN o |-> EventAt(s, o[k])]
  BY DEF Events, Before, X, Places, EventAt
<1> HIDE DEF o
<1>11. /\ \A i \in 1 .. n : o[i] \in X
       /\ \A i, j \in 1 .. n : o[i] = o[j] => i = j
       /\ \A x \in X : \E i \in 1 .. n : o[i] = x
       /\ \A i, j \in 1 .. n : i < j => <<o[i], o[j]>> \in R
  <2>1. Ranked(R, X, o)
    BY <1>8 DEF Ranked
  <2> QED
    BY <1>1, <1>4, <2>1, RankOrder
<1> HIDE DEF n
<1>12. Events(s) \in Seq(EventRecords) /\ DOMAIN Events(s) = 1 .. n
  <2>1. \A k \in 1 .. n : EventAt(s, o[k]) \in EventRecords
    BY <1>1, <1>2, <1>11
  <2>2. Events(s) \in [1 .. n -> EventRecords]
    BY <1>9, <1>10, <2>1
  <2> QED
    BY <1>1, <2>2
<1>13. \A i, j \in 1 .. n : i < j => Sooner(s, o[i], o[j])
  <2> HIDE DEF Pre
  <2> QED
    BY <1>3, <1>5, <1>11
<1> QED
  BY <1>9, <1>10, <1>11, <1>12, <1>13 DEF X

LEMMA EventsTimely ==
  ASSUME NEW s \in Seq(PodRecords), ~Shuffle => DatedInOrder(s)
  PROVE  Timely(Events(s)) /\ Events(s) \in Seq(EventRecords)
<1> DEFINE es == Events(s)
           X == Places(s)
           at == [x \in X |-> EventAt(s, x).at]
<1>1. PICK o : /\ es \in Seq(EventRecords) /\ DOMAIN o = DOMAIN es
               /\ \A i \in DOMAIN o : o[i] \in X /\ es[i] = EventAt(s, o[i])
               /\ \A i, j \in DOMAIN o : o[i] = o[j] => i = j
               /\ \A x \in X : \E i \in DOMAIN o : o[i] = x
               /\ \A i, j \in DOMAIN o : i < j => Sooner(s, o[i], o[j])
  BY EventsAre
<1>2. /\ \A x \in X : /\ x[1] \in 1 .. Len(s) /\ x[2] \in DOMAIN EventsOf(s[x[1]]) /\ x = << x[1], x[2] >>
                      /\ \/ x[2] = 1 /\ EventAt(s, x) = Creation(s[x[1]])
                         \/ x[2] = 2 /\ EventAt(s, x) = Deletion(s[x[1]])
                      /\ at[x] \in Nat /\ at[x] = EventAt(s, x).at
      /\ \A k \in 1 .. Len(s) : \A i \in DOMAIN EventsOf(s[k]) : << k, i >> \in X
  BY EventPlaces
<1>3. Len(s) \in Nat /\ DOMAIN s = 1 .. Len(s) /\ DOMAIN es = 1 .. Len(es) /\ Len(es) \in Nat
  BY <1>1
<1> HIDE DEF es, X, at
<1>4. ASSUME NEW i \in DOMAIN es, NEW j \in DOMAIN es, i < j
      PROVE  es[i].at <= es[j].at
  <2>1. Sooner(s, o[i], o[j]) /\ es[i].at = at[o[i]] /\ es[j].at = at[o[j]] /\ at[o[i]] \in Nat /\ at[o[j]] \in Nat
        /\ EventAt(s, o[i]).at = at[o[i]] /\ EventAt(s, o[j]).at = at[o[j]]
    BY <1>1, <1>2, <1>4
  <2> QED
    BY <2>1 DEF Sooner
<1>5. ASSUME NEW i \in DOMAIN es, es[i].op = "create", Leaves(es[i].pod)
      PROVE  \E j \in DOMAIN es : /\ i < j /\ es[j] = Deletion(es[i].pod)
                                  /\ es[i].pod.created = es[i].pod.deleted => j = i + 1
  <2> DEFINE k == o[i][1]
             p == s[k]
             y == << k, 2 >>
  <2>1. o[i] \in X /\ es[i] = EventAt(s, o[i])
    BY <1>1
  <2>2. k \in 1 .. Len(s) /\ o[i] = << k, 1 >> /\ es[i] = Creation(p) /\ es[i].pod = p
    <3>1. /\ o[i][1] \in 1 .. Len(s) /\ o[i] = << o[i][1], o[i][2] >>
          /\ \/ o[i][2] = 1 /\ es[i] = Creation(p)
             \/ o[i][2] = 2 /\ es[i] = Deletion(p)
      BY <1>2, <2>1
    <3>2. es[i] # Deletion(p)
      BY <1>5 DEF Deletion
    <3>3. Creation(p).pod = p
      BY DEF Creation
    <3> QED
      BY <3>1, <3>2, <3>3
  <2>3. Leaves(p)
    BY <1>5, <2>2
  <2>4. y \in X
    <3>1. 2 \in DOMAIN EventsOf(p)
      BY <2>3 DEF EventsOf, Leaves
    <3> QED
      BY <1>2, <2>2, <3>1
  <2>5. PICK j \in DOMAIN es : o[j] = y
    BY <1>1, <2>4
  <2>6. es[j] = Deletion(p)
    <3>1. es[j] = EventAt(s, y)
      BY <1>1, <2>5
    <3>2. EventAt(s, y) = Deletion(p)
      BY <1>2, <2>4
    <3> QED
      BY <3>1, <3>2
  <2> HIDE DEF p
  <2>7. i < j
    <3> SUFFICES ASSUME ~(i < j) PROVE FALSE
      OBVIOUS
    <3>1. i # j
      <4>1. Creation(p) # Deletion(p)
        BY DEF Creation, Deletion
      <4> QED
        BY <2>2, <2>6, <4>1
    <3>2. j < i
      BY <1>3, <3>1
    <3>3. Sooner(s, o[j], o[i])
      BY <1>1, <3>2
    <3>4. EventAt(s, o[j]) = Deletion(p) /\ EventAt(s, o[i]) = Creation(p)
      BY <1>1, <2>2, <2>6
    <3>5. Deletion(p).at = p.deleted /\ Creation(p).at = p.created /\ p.created <= p.deleted
      BY <2>3 DEF Deletion, Creation, Leaves
    <3>6. p.created \in Nat /\ p.deleted \in Nat
      <4>1. p \in PodRecords
        BY <1>3, <2>2 DEF p
      <4> QED
        BY <4>1 DEF PodRecords
    <3>7. o[j][1] = k /\ o[i][1] = k /\ o[j][2] = 2 /\ o[i][2] = 1 /\ k \in Int
      BY <2>2, <2>5
    <3> HIDE DEF k
    <3> QED
      BY <3>3, <3>4, <3>5, <3>6, <3>7 DEF Sooner
  <2>8. ASSUME p.created = p.deleted, j # i + 1 PROVE FALSE
    <3> DEFINE m == i + 1
    <3>1. m \in DOMAIN es /\ i < m /\ m < j
      BY <1>3, <2>7, <2>8
    <3> HIDE DEF m
    <3>2. Sooner(s, o[i], o[m]) /\ Sooner(s, o[m], o[j]) /\ o[m] \in X
      BY <1>1, <3>1
    <3>3. EventAt(s, o[i]).at = p.created /\ EventAt(s, o[j]).at = p.created
      <4>1. EventAt(s, o[j]) = Deletion(p) /\ EventAt(s, o[i]) = Creation(p)
        BY <1>1, <2>2, <2>6
      <4> QED
        BY <2>8, <4>1 DEF Deletion, Creation
    <3>4. p.created \in Nat
      <4>1. p \in PodRecords
        BY <1>3, <2>2 DEF p
      <4> QED
        BY <4>1 DEF PodRecords
    <3>5. o[m][1] \in Int /\ o[m][2] \in {1, 2} /\ EventAt(s, o[m]).at \in Nat
      <4>1. /\ o[m][1] \in 1 .. Len(s)
            /\ o[m][2] = 1 \/ o[m][2] = 2
            /\ at[o[m]] \in Nat /\ at[o[m]] = EventAt(s, o[m]).at
        BY <1>2, <3>2
      <4> QED
        BY <1>3, <4>1
    <3>6. o[j][1] = k /\ o[i][1] = k /\ o[j][2] = 2 /\ o[i][2] = 1 /\ k \in Int
      BY <2>2, <2>5
    <3> HIDE DEF k
    <3> QED
      BY <3>2, <3>3, <3>4, <3>5, <3>6 DEF Sooner
  <2> QED
    BY <2>2, <2>6, <2>7, <2>8
<1>6. ASSUME ~Shuffle, NEW i \in DOMAIN es, NEW j \in DOMAIN es, i < j, es[i].op = "create", es[j].op = "delete",
             es[i].at = es[j].at, es[j].pod.created \in 1 .. (es[j].at - 1)
      PROVE  FALSE
  <2> DEFINE k == o[i][1]
             l == o[j][1]
             p == s[k]
             q == s[l]
  <2>1. o[i] \in X /\ es[i] = EventAt(s, o[i]) /\ o[j] \in X /\ es[j] = EventAt(s, o[j]) /\ Sooner(s, o[i], o[j])
    BY <1>1, <1>6
  <2>2. k \in 1 .. Len(s) /\ o[i] = << k, 1 >> /\ es[i] = Creation(p)
    <3>1. /\ o[i][1] \in 1 .. Len(s) /\ o[i] = << o[i][1], o[i][2] >>
          /\ \/ o[i][2] = 1 /\ es[i] = Creation(p)
             \/ o[i][2] = 2 /\ es[i] = Deletion(p)
      BY <1>2, <2>1
    <3>2. es[i] # Deletion(p)
      BY <1>6 DEF Deletion
    <3> QED
      BY <3>1, <3>2
  <2>3. l \in 1 .. Len(s) /\ o[j] = << l, 2 >> /\ es[j] = Deletion(q)
    <3>1. /\ o[j][1] \in 1 .. Len(s) /\ o[j] = << o[j][1], o[j][2] >>
          /\ \/ o[j][2] = 1 /\ es[j] = Creation(q)
             \/ o[j][2] = 2 /\ es[j] = Deletion(q)
      BY <1>2, <2>1
    <3>2. es[j] # Creation(q)
      BY <1>6 DEF Creation
    <3> QED
      BY <3>1, <3>2
  <2>4. /\ p.created \in Nat /\ q.deleted \in Nat /\ q.created \in Nat
    <3>1. p \in PodRecords /\ q \in PodRecords
      BY <1>3, <2>2, <2>3
    <3> HIDE DEF p, q
    <3> QED
      BY <3>1 DEF PodRecords
  <2>5. p.created = q.deleted /\ q.created \in 1 .. (q.deleted - 1)
        /\ EventAt(s, o[i]).at = EventAt(s, o[j]).at
    <3>1. Creation(p).at = p.created /\ Deletion(q).at = q.deleted /\ Deletion(q).pod = q
      BY DEF Creation, Deletion
    <3> HIDE DEF p, q
    <3> QED
      BY <1>6, <2>1, <2>2, <2>3, <3>1
  <2>6. k < l \/ k = l
    <3>1. EventAt(s, o[j]).at \in Nat /\ o[i][1] = k /\ o[j][1] = l
      <4>1. at[o[j]] \in Nat /\ at[o[j]] = EventAt(s, o[j]).at
        BY <1>2, <2>1
      <4> QED
        BY <4>1
    <3> HIDE DEF k, l
    <3> QED
      BY <2>1, <2>5, <3>1 DEF Sooner
  <2>7. k # l
    <3> HIDE DEF k, l
    <3> QED
      BY <2>4, <2>5
  <2>8. p.created # NoDate /\ q.created # NoDate
    <3> HIDE DEF p, q
    <3> QED
      BY <2>4, <2>5 DEF NoDate
  <2>9. p.created <= q.created
    <3>1. DatedInOrder(s) /\ k \in DOMAIN s /\ l \in DOMAIN s /\ k < l
      BY <1>3, <1>6, <2>2, <2>3, <2>6, <2>7
    <3> HIDE DEF k, l
    <3> QED
      BY <2>8, <3>1 DEF DatedInOrder
  <2> HIDE DEF p, q
  <2> QED
    BY <2>4, <2>5, <2>9
<1>7. ASSUME ~Shuffle, NEW i \in DOMAIN es, NEW j \in DOMAIN es, i < j, es[i].op = "delete", es[j].op = "create",
             es[i].pod.created = NoDate, es[i].at = es[j].at
      PROVE  FALSE
  <2> DEFINE k == o[i][1]
             l == o[j][1]
             p == s[k]
             q == s[l]
  <2>1. o[i] \in X /\ es[i] = EventAt(s, o[i]) /\ o[j] \in X /\ es[j] = EventAt(s, o[j]) /\ Sooner(s, o[i], o[j])
    BY <1>1, <1>7
  <2>2. k \in 1 .. Len(s) /\ o[i] = << k, 2 >> /\ es[i] = Deletion(p)
    <3>1. /\ o[i][1] \in 1 .. Len(s) /\ o[i] = << o[i][1], o[i][2] >>
          /\ \/ o[i][2] = 1 /\ es[i] = Creation(p)
             \/ o[i][2] = 2 /\ es[i] = Deletion(p)
      BY <1>2, <2>1
    <3>2. es[i] # Creation(p)
      BY <1>7 DEF Creation
    <3> QED
      BY <3>1, <3>2
  <2>3. l \in 1 .. Len(s) /\ o[j] = << l, 1 >> /\ es[j] = Creation(q)
    <3>1. /\ o[j][1] \in 1 .. Len(s) /\ o[j] = << o[j][1], o[j][2] >>
          /\ \/ o[j][2] = 1 /\ es[j] = Creation(q)
             \/ o[j][2] = 2 /\ es[j] = Deletion(q)
      BY <1>2, <2>1
    <3>2. es[j] # Deletion(q)
      BY <1>7 DEF Deletion
    <3> QED
      BY <3>1, <3>2
  <2>4. p.created = NoDate /\ p.deleted = q.created /\ EventAt(s, o[i]).at = EventAt(s, o[j]).at
    <3>1. Creation(q).at = q.created /\ Deletion(p).at = p.deleted /\ Deletion(p).pod = p
      BY DEF Creation, Deletion
    <3> HIDE DEF p, q
    <3> QED
      BY <1>7, <2>1, <2>2, <2>3, <3>1
  <2>5. p.deleted # NoDate
    <3>1. 2 \in DOMAIN EventsOf(p)
      BY <1>2, <2>1, <2>2
    <3> HIDE DEF p
    <3> QED
      BY <3>1 DEF EventsOf
  <2>6. k < l
    <3>1. EventAt(s, o[j]).at \in Nat /\ o[i][1] = k /\ o[j][1] = l
      <4>1. at[o[j]] \in Nat /\ at[o[j]] = EventAt(s, o[j]).at
        BY <1>2, <2>1
      <4> QED
        BY <4>1
    <3>2. k = l => p = q
      OBVIOUS
    <3> HIDE DEF k, l, p, q
    <3> QED
      BY <2>1, <2>4, <2>5, <3>1, <3>2 DEF Sooner
  <2>7. DatedInOrder(s) /\ k \in DOMAIN s /\ l \in DOMAIN s
    BY <1>3, <1>7, <2>2, <2>3
  <2> HIDE DEF k, l
  <2> QED
    BY <2>4, <2>5, <2>6, <2>7 DEF DatedInOrder
<1>8. Timely(es)
  BY <1>4, <1>5, <1>6, <1>7 DEF Timely
<1> QED
  BY <1>1, <1>8 DEF es

LEMMA EventsWait ==
  ASSUME NEW s \in Seq(PodRecords)
  PROVE  Waits(Events(s), s)
<1> DEFINE es == Events(s)
<1>1. PICK o : /\ DOMAIN o = DOMAIN es
               /\ \A i \in DOMAIN o : o[i] \in Places(s) /\ es[i] = EventAt(s, o[i])
               /\ \A x \in Places(s) : \E i \in DOMAIN o : o[i] = x
  BY EventsAre
<1> HIDE DEF es
<1>2. ASSUME NEW i \in DOMAIN s, s[i].deleted # NoDate
      PROVE  \E m \in DOMAIN es : es[m] = Deletion(s[i])
  <2> DEFINE x == << i, 2 >>
             p == s[i]
  <2>1. i \in 1 .. Len(s) /\ EventsOf(p) = << Creation(p), Deletion(p) >>
    BY <1>2 DEF EventsOf
  <2>2. x \in Places(s)
    <3>1. 2 \in DOMAIN EventsOf(p)
      BY <2>1
    <3> QED
      BY <2>1, <3>1, EventPlaces
  <2>3. EventAt(s, x) = Deletion(p)
    BY <2>1 DEF EventAt
  <2> HIDE DEF x, p
  <2> QED
    BY <1>1, <2>2, <2>3 DEF p
<1>3. Waits(es, s)
  BY <1>2 DEF Waits
<1> QED
  BY <1>3 DEF es

\* What remains of events that are timely is.
LEMMA RestTimely ==
  ASSUME NEW es \in Seq(EventRecords), es # <<>>, Timely(es)
  PROVE  /\ Timely(Tail(es)) /\ Tail(es) \in Seq(EventRecords)
         /\ \A i \in DOMAIN es : i # 1 => \E j \in DOMAIN Tail(es) : Tail(es)[j] = es[i]
         /\ \A i \in DOMAIN Tail(es) : i + 1 \in DOMAIN es /\ 1 < i + 1 /\ Tail(es)[i] = es[i + 1]
         /\ \A i \in DOMAIN es : i = 1 + 1 => 1 \in DOMAIN Tail(es) /\ Tail(es)[1] = es[i]
         /\ Head(es) = es[1] /\ 1 \in DOMAIN es /\ es[1] \in EventRecords
<1> DEFINE t == Tail(es)
           n == Len(es)
<1>1. /\ n \in Nat /\ n >= 1 /\ DOMAIN es = 1 .. n /\ t \in Seq(EventRecords) /\ DOMAIN t = 1 .. (n - 1)
      /\ \A i \in 1 .. (n - 1) : t[i] = es[i + 1]
      /\ Head(es) = es[1] /\ es[1] \in EventRecords
  OBVIOUS
<1> HIDE DEF t, n
<1>2. ASSUME NEW i \in DOMAIN es, i # 1
      PROVE  \E j \in DOMAIN t : t[j] = es[i] /\ j = i - 1
  <2>1. i - 1 \in DOMAIN t /\ t[i - 1] = es[(i - 1) + 1] /\ (i - 1) + 1 = i
    BY <1>1, <1>2
  <2> QED
    BY <2>1
<1>3. \A i \in DOMAIN t : i + 1 \in DOMAIN es /\ t[i] = es[i + 1] /\ i \in Int
  BY <1>1
<1>4. \A i, j \in DOMAIN t : i < j => t[i].at <= t[j].at
  <2>1. \A i, j \in DOMAIN t : i < j => i + 1 < j + 1
    BY <1>3
  <2> QED
    BY <1>3, <2>1 DEF Timely
<1>5. ASSUME NEW i \in DOMAIN t, t[i].op = "create", Leaves(t[i].pod)
      PROVE  \E j \in DOMAIN t : /\ i < j /\ t[j] = Deletion(t[i].pod)
                                 /\ t[i].pod.created = t[i].pod.deleted => j = i + 1
  <2>1. i + 1 \in DOMAIN es /\ t[i] = es[i + 1] /\ i \in Int
    BY <1>3
  <2>2. PICK j \in DOMAIN es : /\ i + 1 < j /\ es[j] = Deletion(es[i + 1].pod)
                               /\ es[i + 1].pod.created = es[i + 1].pod.deleted => j = i + 1 + 1
    BY <1>5, <2>1 DEF Timely
  <2>3. j # 1 /\ j \in Int
    BY <1>1, <2>1, <2>2
  <2>4. PICK l \in DOMAIN t : t[l] = es[j] /\ l = j - 1
    BY <1>2, <2>3
  <2>5. i < l /\ (t[i].pod.created = t[i].pod.deleted => l = i + 1)
    BY <2>1, <2>2, <2>3, <2>4
  <2> QED
    BY <2>1, <2>2, <2>4, <2>5
<1>6. ASSUME ~Shuffle, NEW i \in DOMAIN t, NEW j \in DOMAIN t, i < j, t[i].op = "create", t[j].op = "delete",
             t[i].at = t[j].at
      PROVE  t[j].pod.created \notin 1 .. (t[j].at - 1)
  <2>1. /\ i + 1 \in DOMAIN es /\ t[i] = es[i + 1] /\ j + 1 \in DOMAIN es /\ t[j] = es[j + 1]
        /\ i + 1 < j + 1
    BY <1>3, <1>6
  <2> QED
    BY <1>6, <2>1 DEF Timely
<1>9. ASSUME ~Shuffle, NEW i \in DOMAIN t, NEW j \in DOMAIN t, i < j, t[i].op = "delete", t[j].op = "create",
             t[i].pod.created = NoDate
      PROVE  t[i].at # t[j].at
  <2>1. /\ i + 1 \in DOMAIN es /\ t[i] = es[i + 1] /\ j + 1 \in DOMAIN es /\ t[j] = es[j + 1]
        /\ i + 1 < j + 1
    BY <1>3, <1>9
  <2> QED
    BY <1>9, <2>1 DEF Timely
<1>7. Timely(t)
  BY <1>4, <1>5, <1>6, <1>9 DEF Timely
<1>8. /\ Timely(t) /\ t \in Seq(EventRecords)
      /\ \A i \in DOMAIN es : i # 1 => \E j \in DOMAIN t : t[j] = es[i]
      /\ \A i \in DOMAIN t : i + 1 \in DOMAIN es /\ 1 < i + 1 /\ t[i] = es[i + 1]
      /\ \A i \in DOMAIN es : i = 1 + 1 => 1 \in DOMAIN t /\ t[1] = es[i]
      /\ Head(es) = es[1] /\ 1 \in DOMAIN es /\ es[1] \in EventRecords
  <2>1. 1 \in DOMAIN es
    BY <1>1
  <2>2. \A i \in DOMAIN t : i + 1 \in DOMAIN es /\ 1 < i + 1 /\ t[i] = es[i + 1]
    BY <1>1
  <2>3. \A i \in DOMAIN es : i = 1 + 1 => 1 \in DOMAIN t /\ t[1] = es[i]
    BY <1>1
  <2> QED
    BY <1>1, <1>2, <1>7, <2>1, <2>2, <2>3
<1> QED
  BY <1>8 DEF t

\* The pods that are there have come, and their time to leave is still to come;
\* of one that leaves when it came, it is next.
There ==
  \A p \in DOMAIN cluster :
    LET pod == cluster[p].pod
    IN /\ pod.name = p /\ ~pod.marked
       /\ Leaves(pod) => \E i \in DOMAIN events :
                           events[i] = Deletion(pod) /\ (pod.created = pod.deleted => i = 1)

OrderInv ==
  /\ stage \in {"import", "daemons", "start", "tuneDown", "tuneUp", "tuned"} => DOMAIN cluster = {}
  /\ stage \in {"start", "tuneDown", "tuneUp", "tuned"} /\ ~Shuffle => DatedInOrder(pods)
  /\ stage = "run" => /\ events \in Seq(EventRecords) /\ Timely(events) /\ There
                      /\ ~Shuffle => Waits(events, pods)

\* The cluster with a pod on a node.
Put(x, n) ==
  [p \in DOMAIN cluster \cup {x.name} |-> IF p = x.name THEN [pod |-> x, node |-> n] ELSE cluster[p]]

LEMMA CreateDoes ==
  ASSUME Create
  PROVE  LET x == Head(events).pod
         IN /\ events # <<>> /\ stage \in {"run", "inflate", "app"} /\ events' = Tail(events)
            /\ Head(events).op = "create" /\ ~x.marked
            /\ UNCHANGED << stage, resources, pods, workload, typical, totals, tuning, inflation, before >>
            /\ \/ cluster' = Absent(x.name) /\ failed' = failed \cup {x}
               \/ /\ x.name \notin DOMAIN cluster /\ failed' = failed
                  /\ \E n \in Feasible(x) : cluster' = Put(x, n)
<1>1. PICK x \in { Head(events).pod } :
        IF x.name \in DOMAIN cluster \/ Feasible(x) = {}
        THEN cluster' = Absent(x.name) /\ failed' = failed \cup {x}
        ELSE (\E n \in Feasible(x) : cluster' = Put(x, n)) /\ failed' = failed
  BY DEF Create, Put
<1>2. x = Head(events).pod
  OBVIOUS
<1>3. \/ cluster' = Absent(x.name) /\ failed' = failed \cup {x}
      \/ /\ x.name \notin DOMAIN cluster /\ failed' = failed
         /\ \E n \in Feasible(x) : cluster' = Put(x, n)
  BY <1>1
<1> QED
  BY <1>2, <1>3 DEF Create, Scheduling

LEMMA OrderDaemons == TypeInv /\ OrderInv /\ RunDaemons => OrderInv'
<1> SUFFICES ASSUME TypeInv, OrderInv, RunDaemons PROVE OrderInv'
  OBVIOUS
<1> DEFINE sets == resources.DaemonSets
           p2 == pods'
<1>1. PICK hash \in [DOMAIN sets -> [Nodes -> Hashes]] :
        LET made == PodsOfDaemonSets(sets, hash)
        IN IF MakeValidPod(made)
           THEN stage' = "start" /\ pods' \in SortClusterPods(pods \o made, Shuffle)
           ELSE stage' = "error"
  BY DEF RunDaemons
<1> DEFINE made == PodsOfDaemonSets(sets, hash)
           s == pods \o made
<1>2. DOMAIN cluster' = {}
  BY DEF RunDaemons, OrderInv
<1>3. ASSUME stage' = "start", ~Shuffle PROVE DatedInOrder(p2)
  <2>1. p2 \in SortClusterPods(s, Shuffle)
    BY <1>1, <1>3
  <2>2. s \in Seq(PodRecords)
    <3>1. sets \in Seq(DaemonSetRecords)
      BY DaemonSetsTyped DEF TypeInv
    <3>2. made \in Seq(PodsAsking(DaemonsAsk(sets)))
      <4> HIDE DEF sets
      <4> QED
        BY <3>1, AllDaemonPods
    <3> HIDE DEF made, sets
    <3>3. made \in Seq(PodRecords)
      BY <3>2, IsPods
    <3> QED
      BY <3>3 DEF TypeInv
  <2> HIDE DEF s, p2
  <2>3. PICK b : /\ Rearranges(b, s, p2)
                 /\ \A i, j \in DOMAIN s : i < j => CreatedAt(p2[i]) <= CreatedAt(p2[j])
    BY <1>3, <2>1, <2>2, ClusterSorted
  <2>4. DOMAIN p2 = DOMAIN s
    BY <2>2, <2>3, RearrangedIn
  <2>5. \A i \in DOMAIN s : p2[i].created \in Int /\ p2[i].created < Now
    <3>1. \A i \in DOMAIN s : p2[i] \in PodRecords
      BY <2>2, <2>3 DEF Rearranges
    <3> QED
      BY <3>1, WorkloadAssumption DEF PodRecords
  <2>6. ASSUME NEW i \in DOMAIN s, NEW j \in DOMAIN s, i < j
        PROVE  /\ p2[i].created # NoDate /\ p2[j].created # NoDate => p2[i].created <= p2[j].created
               /\ p2[i].created = NoDate => p2[j].created = NoDate
    <3>1. CreatedAt(p2[i]) <= CreatedAt(p2[j])
      BY <2>3, <2>6
    <3> QED
      BY <2>5, <3>1, WorkloadAssumption DEF CreatedAt
  <2> QED
    BY <2>4, <2>6 DEF DatedInOrder
<1> HIDE DEF p2
<1>4. stage' \in {"start", "error"}
  BY <1>1
<1> QED
  BY <1>2, <1>3, <1>4 DEF OrderInv, p2

LEMMA OrderTuning == TypeInv /\ OrderInv /\ (BeginTuning \/ tuneDownPods \/ tuneUpPods) => OrderInv'
<1> SUFFICES ASSUME TypeInv, OrderInv, BeginTuning \/ tuneDownPods \/ tuneUpPods PROVE OrderInv'
  OBVIOUS
<1>1. /\ stage \in {"start", "tuneDown", "tuneUp"} /\ stage' \in {"error", "tuned", "tuneDown", "tuneUp"}
      /\ UNCHANGED << cluster, workload >>
  BY Reordered DEF BeginTuning, tuneDownPods, tuneUpPods
<1>2. pods \in Seq(PodRecords)
  BY DEF TypeInv
<1>3. ASSUME ~Shuffle PROVE DatedInOrder(pods')
  <2>1. DatedInOrder(pods)
    BY <1>1, <1>3 DEF OrderInv
  <2>2. CASE pods' = pods
    BY <2>1, <2>2
  <2>3. CASE tuneDownPods /\ pods' # pods
    <3>1. PICK i \in DOMAIN pods : pods' = RemoveAt(pods, i)
      BY <2>3 DEF tuneDownPods, RemovePodsByIndex
    <3> DEFINE n == Len(pods) - 1
               b == [j \in 1 .. n |-> IF j < i THEN j ELSE j + 1]
    <3>2. /\ DOMAIN pods' = 1 .. n
          /\ \A j \in 1 .. n : pods'[j] = pods[b[j]]
      BY <1>2, <3>1, WithoutOne
    <3>3. /\ \A j \in 1 .. n : b[j] \in DOMAIN pods
          /\ \A j, k \in 1 .. n : j < k => b[j] < b[k]
      BY <1>2
    <3> HIDE DEF n, b
    <3> QED
      BY <2>1, <3>2, <3>3 DEF DatedInOrder
  <2>4. CASE tuneUpPods /\ pods' # pods
    <3>1. PICK i \in DOMAIN workload : pods' = Append(pods, Tuned(workload[i], tuning.added))
      BY <2>4 DEF tuneUpPods
    <3> DEFINE w == workload[i]
               q == Tuned(w, tuning.added)
               n == Len(pods)
    <3>2. w \in PodRecords /\ Undated(w) /\ tuning.added \in Nat
      BY IsPods DEF TypeInv
    <3>3. q.created = NoDate
      <4> HIDE DEF w
      <4>1. Undated(q)
        BY <3>2, CopyAsks
      <4> QED
        BY <4>1 DEF Undated
    <3>4. pods' = Append(pods, q)
      BY <3>1
    <3> HIDE DEF q
    <3>5. /\ n \in Nat /\ DOMAIN pods = 1 .. n /\ DOMAIN pods' = 1 .. (n + 1)
          /\ (\A j \in 1 .. n : pods'[j] = pods[j]) /\ pods'[n + 1] = q
      BY <1>2, <3>4
    <3> HIDE DEF n
    <3>6. ASSUME NEW j \in DOMAIN pods', NEW k \in DOMAIN pods', j < k
          PROVE  \/ pods'[k].created = NoDate
                 \/ /\ j \in DOMAIN pods /\ pods'[j] = pods[j]
                    /\ k \in DOMAIN pods /\ pods'[k] = pods[k]
      BY <3>3, <3>5, <3>6
    <3> QED
      BY <2>1, <3>6 DEF DatedInOrder
  <2>5. BeginTuning => pods' = pods
    BY DEF BeginTuning
  <2> QED
    BY <2>2, <2>3, <2>4, <2>5
<1> QED
  BY <1>1, <1>3 DEF OrderInv

LEMMA OrderRun == TypeInv /\ OrderInv /\ RunCluster => OrderInv'
<1> SUFFICES ASSUME TypeInv, OrderInv, RunCluster PROVE OrderInv'
  OBVIOUS
<1>1. /\ stage \in {"start", "tuned"} /\ stage' = "run" /\ events' = Events(pods) /\ UNCHANGED cluster
  BY DEF RunCluster
<1>2. DOMAIN cluster' = {}
  BY <1>1 DEF OrderInv
<1>3. Timely(Events(pods)) /\ Events(pods) \in Seq(EventRecords)
  <2>1. pods \in Seq(PodRecords) /\ (~Shuffle => DatedInOrder(pods))
    BY <1>1 DEF OrderInv, TypeInv
  <2> QED
    BY <2>1, EventsTimely
<1>4. There'
  BY <1>2 DEF There
<1>5. Waits(Events(pods), pods) /\ UNCHANGED pods
  BY EventsWait DEF RunCluster, TypeInv
<1> QED
  BY <1>1, <1>3, <1>4, <1>5 DEF OrderInv

LEMMA OrderSchedule == OrderInv /\ (Marked \/ Create \/ Delete) => OrderInv'
<1> SUFFICES ASSUME OrderInv, Marked \/ Create \/ Delete PROVE OrderInv'
  OBVIOUS
<1>1. /\ stage' = stage /\ UNCHANGED pods /\ events # <<>> /\ events' = Tail(events)
      /\ stage \in {"run", "inflate", "app"}
  BY DEF Marked, Create, Delete, Scheduling
<1> SUFFICES ASSUME stage = "run" PROVE OrderInv'
  BY <1>1 DEF OrderInv
<1> DEFINE e == events[1]
<1>2. events \in Seq(EventRecords) /\ Timely(events) /\ There /\ (~Shuffle => Waits(events, pods))
  BY DEF OrderInv
<1>3. /\ Timely(events') /\ events' \in Seq(EventRecords)
      /\ \A i \in DOMAIN events : i # 1 => \E j \in DOMAIN events' : events'[j] = events[i]
      /\ \A i \in DOMAIN events' : i + 1 \in DOMAIN events /\ 1 < i + 1 /\ events'[i] = events[i + 1]
      /\ \A i \in DOMAIN events : i = 1 + 1 => 1 \in DOMAIN events' /\ events'[1] = events[i]
      /\ Head(events) = e /\ 1 \in DOMAIN events /\ e \in EventRecords
  BY <1>1, <1>2, RestTimely
<1> HIDE DEF e
<1>4. \A q : (\E i \in DOMAIN events : events[i] = Deletion(q)) /\ e # Deletion(q) =>
               \E j \in DOMAIN events' : events'[j] = Deletion(q)
  BY <1>3 DEF e
<1>6. ASSUME ~Shuffle PROVE Waits(events', pods')
  <2> SUFFICES ASSUME NEW k \in DOMAIN events', events'[k].op = "create", NEW i \in DOMAIN pods,
                      pods[i].created = NoDate, pods[i].deleted = events'[k].at, events'[k].at # NoDate
               PROVE  \E m \in DOMAIN events' : events'[m] = Deletion(pods[i])
    BY <1>1 DEF Waits
  <2> DEFINE l == k + 1
             q == pods[i]
  <2>1. l \in DOMAIN events /\ 1 < l /\ events'[k] = events[l]
    BY <1>3
  <2> HIDE DEF l
  <2>2. \E m \in DOMAIN events : events[m] = Deletion(q)
    BY <1>2, <1>6, <2>1 DEF Waits
  <2>3. e # Deletion(q)
    <3> SUFFICES ASSUME e = Deletion(q) PROVE FALSE
      OBVIOUS
    <3>1. e.op = "delete" /\ e.pod = q /\ e.at = q.deleted
      BY DEF Deletion
    <3>2. 1 \in DOMAIN events /\ e = events[1]
      BY <1>3 DEF e
    <3>3. events[1].at # events[l].at
      BY <1>2, <1>6, <2>1, <3>1, <3>2 DEF Timely
    <3> QED
      BY <2>1, <3>1, <3>2, <3>3
  <2> HIDE DEF q
  <2> QED
    BY <1>4, <2>2, <2>3 DEF q
<1>7. ASSUME NEW q, Leaves(q), e # Deletion(q),
             \E i \in DOMAIN events : events[i] = Deletion(q) /\ (q.created = q.deleted => i = 1)
      PROVE  \E j \in DOMAIN events' : events'[j] = Deletion(q) /\ (q.created = q.deleted => j = 1)
  BY <1>4, <1>7 DEF e
<1>5. There'
  <2>1. CASE Marked
    <3>1. e.pod.marked /\ UNCHANGED cluster
      BY <1>3, <2>1 DEF Marked
    <3>2. \A q : e = Deletion(q) => q.marked
      BY <3>1 DEF Deletion
    <3> QED
      BY <1>2, <1>7, <3>1, <3>2 DEF There
  <2>2. CASE Delete
    <3>1. cluster' = Absent(e.pod.name)
      BY <1>3, <2>2 DEF Delete
    <3>2. /\ DOMAIN cluster' = DOMAIN cluster \ {e.pod.name}
          /\ \A p \in DOMAIN cluster' : cluster'[p] = cluster[p]
      BY <3>1 DEF Absent
    <3>3. \A q : e = Deletion(q) => q = e.pod
      BY DEF Deletion
    <3> QED
      BY <1>2, <1>7, <3>2, <3>3 DEF There
  <2>3. CASE Create
    <3> DEFINE x == e.pod
    <3>1. /\ e.op = "create" /\ ~x.marked
          /\ \/ cluster' = Absent(x.name)
             \/ \E n \in Feasible(x) : cluster' = Put(x, n)
      <4>1. e = Head(events)
        BY <1>3
      <4> QED
        BY <2>3, <4>1, CreateDoes
    <3>2. \A q : e # Deletion(q)
      BY <3>1 DEF Deletion
    <3> HIDE DEF x
    <3>3. CASE cluster' = Absent(x.name)
      <4>1. /\ DOMAIN cluster' \subseteq DOMAIN cluster
            /\ \A p \in DOMAIN cluster' : cluster'[p] = cluster[p]
        BY <3>3 DEF Absent
      <4> QED
        BY <1>2, <1>7, <3>2, <4>1 DEF There
    <3>4. CASE cluster' # Absent(x.name)
      <4>1. PICK n : cluster' = [p \in DOMAIN cluster \cup {x.name} |->
                                   IF p = x.name THEN [pod |-> x, node |-> n] ELSE cluster[p]]
        BY <3>1, <3>4 DEF Put
      <4>2. ASSUME NEW p \in DOMAIN cluster', p # x.name
            PROVE  p \in DOMAIN cluster /\ cluster'[p] = cluster[p]
        BY <4>1, <4>2
      <4>3. x.name \in DOMAIN cluster' /\ cluster'[x.name].pod = x
        BY <4>1
      <4>4. Leaves(x) => \E j \in DOMAIN events' :
                           events'[j] = Deletion(x) /\ (x.created = x.deleted => j = 1)
        <5> SUFFICES ASSUME Leaves(x)
                     PROVE  \E j \in DOMAIN events' :
                              events'[j] = Deletion(x) /\ (x.created = x.deleted => j = 1)
          OBVIOUS
        <5>1. PICK j \in DOMAIN events : 1 < j /\ events[j] = Deletion(x) /\ (x.created = x.deleted => j = 1 + 1)
          BY <1>2, <1>3, <3>1 DEF Timely, e, x
        <5>2. CASE x.created = x.deleted
          BY <1>3, <5>1, <5>2
        <5>3. CASE x.created # x.deleted
          BY <1>4, <3>2, <5>1, <5>3
        <5> QED
          BY <5>2, <5>3
      <4>5. ASSUME NEW p \in DOMAIN cluster'
            PROVE  LET pod == cluster'[p].pod
                   IN /\ pod.name = p /\ ~pod.marked
                      /\ Leaves(pod) => \E i \in DOMAIN events' :
                                          events'[i] = Deletion(pod) /\ (pod.created = pod.deleted => i = 1)
        <5>1. CASE p = x.name
          BY <3>1, <4>3, <4>4, <5>1
        <5>2. CASE p # x.name
          BY <1>2, <1>7, <3>2, <4>2, <5>2 DEF There
        <5> QED
          BY <5>1, <5>2
      <4> QED
        BY <4>5 DEF There
    <3> QED
      BY <3>3, <3>4
  <2> QED
    BY <2>1, <2>2, <2>3
<1> QED
  BY <1>1, <1>3, <1>5, <1>6 DEF OrderInv

LEMMA OrderNext == TypeInv /\ OrderInv /\ [Next]_vars => OrderInv'
<1> SUFFICES ASSUME TypeInv, OrderInv, [Next]_vars PROVE OrderInv'
  OBVIOUS
<1>1. CASE UNCHANGED vars
  BY <1>1 DEF vars, OrderInv, There
<1>2. CASE Import
  BY <1>2 DEF Import, OrderInv
<1>3. CASE Return \/ BeginInflation \/ GenerateInflationPod \/ ScheduleInflation \/ CleanUp \/ ScheduleApp
  <2>1. stage' \notin {"import", "daemons", "start", "tuneDown", "tuneUp", "tuned", "run"}
    BY <1>3 DEF Return, BeginInflation, GenerateInflationPod, ScheduleInflation, CleanUp, ScheduleApp
  <2> QED
    BY <2>1 DEF OrderInv
<1>4. CASE Done
  BY <1>1, <1>4 DEF Done
<1> QED
  BY <1>1, <1>2, <1>3, <1>4, OrderDaemons, OrderTuning, OrderRun, OrderSchedule DEF Next

(***************************************************************************)
(* SortClusterPods and syncPod: when a pod is created at its date, of      *)
(* those whose time was over by then just the ones that leave at that very *)
(* moment and have no date of creation are still to leave, whatever dates, *)
(* ties and names the pods have, unless they were shuffled.                *)
(***************************************************************************)
THEOREM FreedFirst == Spec => []RoomIsFreedFirst
<1>1. OrderInv => RoomIsFreedFirst
  <2> SUFFICES ASSUME OrderInv, stage = "run", events # <<>>, ~Shuffle, Head(events).op = "create",
                      Head(events).at # NoDate
               PROVE  LET next == Head(events)
                          Over(pod) == pod.deleted \in 1 .. next.at /\ pod.created <= pod.deleted
                          Late(pod) == pod.created = NoDate /\ pod.deleted = next.at
                      IN /\ \A p \in DOMAIN cluster : Over(cluster[p].pod) => Late(cluster[p].pod)
                         /\ \A i \in DOMAIN pods : Late(pods[i]) => Contains(events, Deletion(pods[i]))
    BY DEF RoomIsFreedFirst
  <2> DEFINE e == events[1]
  <2>1. events \in Seq(EventRecords) /\ Timely(events) /\ There /\ Waits(events, pods)
    BY DEF OrderInv
  <2>2. Head(events) = e /\ 1 \in DOMAIN events /\ DOMAIN events = 1 .. Len(events) /\ Len(events) \in Nat
        /\ \A i \in DOMAIN events : events[i] \in EventRecords
    BY <2>1
  <2> HIDE DEF e
  <2>3. ASSUME NEW q, NEW p \in DOMAIN cluster, q = cluster[p].pod,
               q.deleted \in 1 .. e.at, q.created <= q.deleted
        PROVE  q.created = NoDate /\ q.deleted = e.at
    <3>1. PICK i \in DOMAIN events : events[i] = Deletion(q) /\ (q.created = q.deleted => i = 1)
      <4>1. Leaves(q)
        BY <2>3 DEF Leaves, NoDate
      <4> QED
        BY <2>1, <2>3, <4>1 DEF There
    <3>2. events[i].op = "delete" /\ events[i].at = q.deleted /\ events[i].pod = q
      BY <3>1 DEF Deletion
    <3>3. 1 < i
      <4>1. i # 1
        BY <2>2, <3>2 DEF e
      <4> QED
        BY <2>2, <4>1
    <3>4. e.at \in Int /\ q.deleted \in Int /\ q.created \in Nat
      <4>1. \A x \in EventRecords : x.at \in Int /\ x.pod.created \in Nat
        <5>1. \A x \in PodRecords : x.created \in Nat /\ x.deleted \in Nat
          BY DEF PodRecords
        <5>2. \A x : /\ Creation(x).at = x.created /\ Creation(x).pod = x
                     /\ Deletion(x).at = x.deleted /\ Deletion(x).pod = x
          BY DEF Creation, Deletion
        <5> TAKE x \in EventRecords
        <5>3. PICK y \in PodRecords : x = Creation(y) \/ x = Deletion(y)
          BY DEF EventRecords
        <5>4. x.at \in { y.created, y.deleted } /\ x.pod = y
          BY <5>2, <5>3
        <5> QED
          BY <5>1, <5>4
      <4>2. e \in EventRecords /\ events[i] \in EventRecords
        BY <2>2 DEF e
      <4> QED
        BY <3>2, <4>1, <4>2
    <3>5. e.at <= q.deleted
      BY <2>1, <2>2, <3>2, <3>3 DEF Timely, e
    <3>6. q.deleted = e.at
      BY <2>3, <3>4, <3>5
    <3>7. q.created \notin 1 .. (e.at - 1)
      BY <2>1, <2>2, <3>2, <3>3, <3>6 DEF Timely, e
    <3>8. q.created # q.deleted
      BY <3>1, <3>3
    <3> QED
      BY <2>3, <3>4, <3>6, <3>7, <3>8 DEF NoDate
  <2>4. ASSUME NEW i \in DOMAIN pods, pods[i].created = NoDate, pods[i].deleted = e.at
        PROVE  Contains(events, Deletion(pods[i]))
    <3>1. \E m \in DOMAIN events : events[m] = Deletion(pods[i])
      BY <2>1, <2>2, <2>4 DEF Waits, e
    <3> QED
      BY <2>2, <3>1 DEF Contains
  <2> QED
    BY <2>2, <2>3, <2>4
<1>2. Init => OrderInv
  BY DEF Init, OrderInv
<1> QED
  BY <1>1, <1>2, SimulateTypes, OrderNext, PTL DEF Spec

-----------------------------------------------------------------------------
(***************************************************************************)
(* Where a pod ends up: of a pod whose name no other has, there is one     *)
(* creation, and it is there, has failed or is to come until it is to leave.*)
(***************************************************************************)

\* What is to come are creations and deletions of the pods of s.
EventsFrom(es, s) ==
  \A k \in DOMAIN es : \E i \in DOMAIN s :
    \/ es[k] = Creation(s[i])
    \/ es[k] = Deletion(s[i]) /\ s[i].deleted # NoDate

\* The creation of a pod of a name of its own comes once.
CreatedOnce(es, p) ==
  \A k, l \in DOMAIN es : es[k] = Creation(p) /\ es[l] = Creation(p) => k = l

ToCome(es, p) == \E k \in DOMAIN es : es[k] = Creation(p)

\* A pod of a name of its own is there, has failed or is to come.
Tracked(i) ==
  LET p == pods[i]
  IN /\ CreatedOnce(events, p)
     /\ p \in failed => p.name \notin DOMAIN cluster
     /\ p \in failed /\ ~p.marked => ~ToCome(events, p)
     /\ p.deleted = NoDate => p.name \in DOMAIN cluster \/ p \in failed \/ ToCome(events, p)

EndsInv ==
  /\ stage \in {"import", "daemons", "start", "tuneDown", "tuneUp", "tuned"} => failed = {}
  /\ stage = "rest" => events = <<>>
  /\ stage \in {"run", "rest"} =>
       /\ EventsFrom(events, pods)
       /\ There
       /\ \A p \in DOMAIN cluster : \E i \in DOMAIN pods : cluster[p].pod = pods[i]
       /\ \A p \in failed : \E i \in DOMAIN pods : p = pods[i]
       /\ \A i \in DOMAIN pods : Named(pods, i) = {i} => Tracked(i)

LEMMA EventKinds ==
  \A p, q : /\ Creation(p) # Deletion(q)
            /\ (Creation(p) = Creation(q) => p = q) /\ (Deletion(p) = Deletion(q) => p = q)
            /\ Creation(p).pod = p /\ Creation(p).op = "create" /\ Creation(p).op # "delete"
            /\ Deletion(p).pod = p /\ Deletion(p).op = "delete" /\ Deletion(p).op # "create"
<1> TAKE p, q
<1>1. /\ Creation(p).pod = p /\ Creation(p).op = "create" /\ Deletion(p).pod = p /\ Deletion(p).op = "delete"
      /\ Creation(q).pod = q /\ Deletion(q).pod = q /\ Deletion(q).op = "delete"
  BY DEF Creation, Deletion
<1> QED
  BY <1>1

LEMMA EventsOfPods ==
  ASSUME NEW s \in Seq(PodRecords)
  PROVE  /\ EventsFrom(Events(s), s)
         /\ \A i \in DOMAIN s : ToCome(Events(s), s[i])
         /\ \A i \in DOMAIN s : Named(s, i) = {i} => CreatedOnce(Events(s), s[i])
<1> DEFINE es == Events(s)
           X == Places(s)
<1>1. PICK o : /\ es \in Seq(EventRecords) /\ DOMAIN o = DOMAIN es
               /\ \A i \in DOMAIN o : o[i] \in X /\ es[i] = EventAt(s, o[i])
               /\ \A i, j \in DOMAIN o : o[i] = o[j] => i = j
               /\ \A x \in X : \E i \in DOMAIN o : o[i] = x
               /\ \A i, j \in DOMAIN o : i < j => Sooner(s, o[i], o[j])
  BY EventsAre
<1>2. /\ \A x \in X : /\ x[1] \in DOMAIN s /\ x[2] \in DOMAIN EventsOf(s[x[1]]) /\ x = << x[1], x[2] >>
                      /\ \/ x[2] = 1 /\ EventAt(s, x) = Creation(s[x[1]])
                         \/ x[2] = 2 /\ EventAt(s, x) = Deletion(s[x[1]])
      /\ \A k \in DOMAIN s : \A i \in DOMAIN EventsOf(s[k]) : << k, i >> \in X
  <2>1. DOMAIN s = 1 .. Len(s)
    OBVIOUS
  <2> QED
    BY <2>1, EventPlaces
<1> HIDE DEF es, X
<1>3. ASSUME NEW k \in DOMAIN es
      PROVE  \E i \in DOMAIN s : \/ es[k] = Creation(s[i]) /\ o[k] = << i, 1 >>
                                 \/ es[k] = Deletion(s[i]) /\ s[i].deleted # NoDate
  <2> DEFINE i == o[k][1]
             j == o[k][2]
  <2>1. /\ i \in DOMAIN s /\ j \in DOMAIN EventsOf(s[i]) /\ o[k] = << i, j >>
        /\ \/ j = 1 /\ es[k] = Creation(s[i])
           \/ j = 2 /\ es[k] = Deletion(s[i])
    BY <1>1, <1>2
  <2> HIDE DEF i, j
  <2>2. j = 2 => s[i].deleted # NoDate
    BY <2>1 DEF EventsOf
  <2> QED
    BY <2>1, <2>2
<1>4. EventsFrom(es, s)
  BY <1>3 DEF EventsFrom
<1>5. ASSUME NEW i \in DOMAIN s
      PROVE  ToCome(es, s[i])
  <2>1. 1 \in DOMAIN EventsOf(s[i])
    BY DEF EventsOf
  <2>2. << i, 1 >> \in X
    BY <1>2, <2>1
  <2>3. PICK k \in DOMAIN es : o[k] = << i, 1 >>
    BY <1>1, <2>2
  <2>4. es[k] = Creation(s[i])
    BY <1>1, <1>2, <2>2, <2>3
  <2> QED
    BY <2>4 DEF ToCome
<1>6. ASSUME NEW i \in DOMAIN s, Named(s, i) = {i}, NEW k \in DOMAIN es, NEW l \in DOMAIN es,
             es[k] = Creation(s[i]), es[l] = Creation(s[i])
      PROVE  k = l
  <2>1. \A j \in DOMAIN s : s[j] = s[i] => j = i
    BY <1>6 DEF Named
  <2>2. o[k] = << i, 1 >> /\ o[l] = << i, 1 >>
    BY <1>3, <1>6, <2>1, EventKinds
  <2> QED
    BY <1>1, <2>2
<1> QED
  BY <1>4, <1>5, <1>6 DEF CreatedOnce, es

LEMMA RestIs ==
  ASSUME NEW es \in Seq(EventRecords), es # <<>>
  PROVE  /\ Head(es) = es[1] /\ 1 \in DOMAIN es
         /\ \A s : EventsFrom(es, s) => EventsFrom(Tail(es), s)
         /\ \A p : /\ ToCome(Tail(es), p) => ToCome(es, p)
                   /\ ToCome(es, p) /\ es[1] # Creation(p) => ToCome(Tail(es), p)
                   /\ CreatedOnce(es, p) => CreatedOnce(Tail(es), p)
                   /\ CreatedOnce(es, p) /\ es[1] = Creation(p) => ~ToCome(Tail(es), p)
<1> DEFINE t == Tail(es)
           n == Len(es)
<1>1. /\ n \in Nat /\ n >= 1 /\ DOMAIN es = 1 .. n /\ DOMAIN t = 1 .. (n - 1)
      /\ \A i \in 1 .. (n - 1) : t[i] = es[i + 1]
      /\ Head(es) = es[1]
  OBVIOUS
<1> HIDE DEF t, n
<1>2. /\ \A i \in DOMAIN t : i + 1 \in DOMAIN es /\ t[i] = es[i + 1] /\ i + 1 # 1
      /\ \A i, j \in DOMAIN t : i + 1 = j + 1 => i = j
      /\ \A i \in DOMAIN es : i = 1 \/ (i - 1 \in DOMAIN t /\ t[i - 1] = es[i])
      /\ 1 \in DOMAIN es
  <2>1. \A i \in DOMAIN es : i # 1 => i - 1 \in DOMAIN t /\ (i - 1) + 1 = i
    BY <1>1
  <2>2. \A i \in DOMAIN es : i # 1 => t[i - 1] = es[i]
    <3> TAKE i \in DOMAIN es
    <3> HAVE i # 1
    <3>1. i - 1 \in 1 .. (n - 1) /\ (i - 1) + 1 = i
      BY <1>1, <2>1
    <3>2. t[i - 1] = es[(i - 1) + 1]
      BY <1>1, <3>1
    <3> QED
      BY <3>1, <3>2
  <2>3. /\ \A i \in DOMAIN t : i + 1 \in DOMAIN es /\ t[i] = es[i + 1] /\ i + 1 # 1
        /\ \A i, j \in DOMAIN t : i + 1 = j + 1 => i = j
        /\ 1 \in DOMAIN es
    BY <1>1
  <2> QED
    BY <2>1, <2>2, <2>3
<1>3. \A s : EventsFrom(es, s) => EventsFrom(t, s)
  BY <1>2 DEF EventsFrom
<1>4. ASSUME NEW p
      PROVE  /\ ToCome(t, p) => ToCome(es, p)
             /\ ToCome(es, p) /\ es[1] # Creation(p) => ToCome(t, p)
             /\ CreatedOnce(es, p) => CreatedOnce(t, p)
             /\ CreatedOnce(es, p) /\ es[1] = Creation(p) => ~ToCome(t, p)
  <2>1. ToCome(t, p) => ToCome(es, p)
    BY <1>2 DEF ToCome
  <2>2. ToCome(es, p) /\ es[1] # Creation(p) => ToCome(t, p)
    BY <1>2 DEF ToCome
  <2>3. CreatedOnce(es, p) => CreatedOnce(t, p)
    BY <1>2 DEF CreatedOnce
  <2>4. CreatedOnce(es, p) /\ es[1] = Creation(p) => ~ToCome(t, p)
    BY <1>2 DEF CreatedOnce, ToCome
  <2> QED
    BY <2>1, <2>2, <2>3, <2>4
<1> QED
  BY <1>1, <1>2, <1>3, <1>4 DEF t

LEMMA EndsSchedule == OrderInv /\ OrderInv' /\ EndsInv /\ (Marked \/ Create \/ Delete) => EndsInv'
<1> SUFFICES ASSUME OrderInv, OrderInv', EndsInv, Marked \/ Create \/ Delete PROVE EndsInv'
  OBVIOUS
<1>1. /\ stage' = stage /\ UNCHANGED pods /\ events # <<>> /\ events' = Tail(events)
      /\ stage \in {"run", "inflate", "app"}
  BY DEF Marked, Create, Delete, Scheduling
<1> SUFFICES ASSUME stage = "run" PROVE EndsInv'
  BY <1>1 DEF EndsInv
<1> DEFINE e == events[1]
           x == e.pod
<1>2. /\ events \in Seq(EventRecords) /\ There /\ There' /\ EventsFrom(events, pods)
      /\ \A p \in DOMAIN cluster : \E i \in DOMAIN pods : cluster[p].pod = pods[i]
      /\ \A p \in failed : \E i \in DOMAIN pods : p = pods[i]
      /\ \A i \in DOMAIN pods : Named(pods, i) = {i} => Tracked(i)
  BY <1>1 DEF OrderInv, EndsInv
<1>3. /\ Head(events) = e /\ 1 \in DOMAIN events
      /\ EventsFrom(events', pods)
      /\ \A p : /\ ToCome(events', p) => ToCome(events, p)
                /\ ToCome(events, p) /\ e # Creation(p) => ToCome(events', p)
                /\ CreatedOnce(events, p) => CreatedOnce(events', p)
                /\ CreatedOnce(events, p) /\ e = Creation(p) => ~ToCome(events', p)
  BY <1>1, <1>2, RestIs
<1>4. PICK a \in DOMAIN pods :
        /\ x = pods[a]
        /\ \/ e = Creation(x)
           \/ e = Deletion(x) /\ x.deleted # NoDate
  BY <1>2, <1>3, EventKinds DEF EventsFrom
<1> HIDE DEF e, x
<1>5. /\ e.op = "create" => e = Creation(x)
      /\ e.op = "delete" => e = Deletion(x) /\ x.deleted # NoDate
      /\ \A p : e = Creation(p) => x = p
  BY <1>4, EventKinds
\* What the step does.
<1>6. \/ x.marked /\ cluster' = cluster /\ failed' = failed \cup {x}
      \/ ~x.marked /\ e.op = "create" /\ cluster' = Absent(x.name) /\ failed' = failed \cup {x}
      \/ /\ ~x.marked /\ e.op = "create" /\ failed' = failed
         /\ \E n : cluster' = Put(x, n)
      \/ ~x.marked /\ e.op = "delete" /\ cluster' = Absent(x.name) /\ failed' = failed
  <2>1. Head(events) = e /\ Head(events).pod = x
    BY <1>3 DEF x
  <2>2. CASE Marked
    BY <2>1, <2>2 DEF Marked
  <2>3. CASE Create
    BY <2>1, <2>3, CreateDoes
  <2>4. CASE Delete
    BY <2>1, <2>4 DEF Delete
  <2> QED
    BY <2>2, <2>3, <2>4
<1>7. /\ \A n : cluster' = Absent(n) => /\ DOMAIN cluster' = DOMAIN cluster \ {n}
                                        /\ \A p \in DOMAIN cluster' : cluster'[p] = cluster[p]
      /\ \A n : cluster' = Put(x, n) =>
           /\ DOMAIN cluster' = DOMAIN cluster \cup {x.name} /\ cluster'[x.name].pod = x
           /\ \A p \in DOMAIN cluster' : p # x.name => p \in DOMAIN cluster /\ cluster'[p] = cluster[p]
  BY DEF Absent, Put
<1>8. \A p \in DOMAIN cluster' : \E i \in DOMAIN pods : cluster'[p].pod = pods[i]
  <2> TAKE p \in DOMAIN cluster'
  <2>1. cluster'[p].pod = x \/ (p \in DOMAIN cluster /\ cluster'[p] = cluster[p])
    BY <1>6, <1>7
  <2> QED
    BY <1>2, <1>4, <2>1
<1>9. \A p \in failed' : \E i \in DOMAIN pods : p = pods[i]
  BY <1>2, <1>4, <1>6
<1>10. ASSUME NEW i \in DOMAIN pods, Named(pods, i) = {i}
       PROVE  Tracked(i)'
  <2> DEFINE p == pods[i]
  <2>1. /\ \A j \in DOMAIN pods : pods[j].name = p.name => pods[j] = p
        /\ x.name = p.name => x = p
    <3>1. \A j \in DOMAIN pods : pods[j].name = p.name => j = i
      BY <1>10 DEF Named
    <3> QED
      BY <1>4, <3>1
  <2> HIDE DEF p
  <2>2. /\ CreatedOnce(events, p)
        /\ p \in failed => p.name \notin DOMAIN cluster
        /\ p \in failed /\ ~p.marked => ~ToCome(events, p)
        /\ p.deleted = NoDate => p.name \in DOMAIN cluster \/ p \in failed \/ ToCome(events, p)
    BY <1>2, <1>10 DEF Tracked, p
  <2>3. p.name \in DOMAIN cluster => ~p.marked
    <3> SUFFICES ASSUME p.name \in DOMAIN cluster PROVE ~p.marked
      OBVIOUS
    <3>1. cluster[p.name].pod.name = p.name /\ ~cluster[p.name].pod.marked
      BY <1>2 DEF There
    <3>2. cluster[p.name].pod = p
      BY <1>2, <2>1, <3>1
    <3> QED
      BY <3>1, <3>2
  <2>4. e = Creation(p) => ToCome(events, p)
    BY <1>3 DEF ToCome, e
  <2>5. p \in failed' => p.name \notin DOMAIN cluster'
    <3>1. p \in failed' => p \in failed \/ p = x
      BY <1>6
    <3> QED
      BY <1>5, <1>6, <1>7, <2>1, <2>2, <2>3, <2>4, <3>1
  <2>6. p \in failed' /\ ~p.marked => ~ToCome(events', p)
    BY <1>3, <1>5, <1>6, <2>2
  <2>7. p.deleted = NoDate => p.name \in DOMAIN cluster' \/ p \in failed' \/ ToCome(events', p)
    <3> SUFFICES ASSUME p.deleted = NoDate, p \notin failed' PROVE p.name \in DOMAIN cluster' \/ ToCome(events', p)
      OBVIOUS
    <3>1. p \notin failed
      BY <1>6
    <3>2. CASE ToCome(events, p)
      <4>1. e # Creation(p) => ToCome(events', p)
        BY <1>3, <3>2
      <4>2. e = Creation(p) => p.name \in DOMAIN cluster'
        <5> SUFFICES ASSUME e = Creation(p) PROVE p.name \in DOMAIN cluster'
          OBVIOUS
        <5>1. x = p /\ e.op = "create" /\ e.op # "delete"
          BY <1>5, EventKinds
        <5> QED
          BY <1>6, <1>7, <5>1
      <4> QED
        BY <4>1, <4>2
    <3>3. CASE p.name \in DOMAIN cluster
      <4>1. CASE x.name = p.name
        <5>1. x = p
          BY <2>1, <4>1
        <5> QED
          BY <1>5, <1>6, <1>7, <3>3, <5>1
      <4>2. CASE x.name # p.name
        BY <1>6, <1>7, <3>3, <4>2
      <4> QED
        BY <4>1, <4>2
    <3> QED
      BY <2>2, <3>1, <3>2, <3>3
  <2>8. CreatedOnce(events', p) /\ pods'[i] = p
    BY <1>1, <1>3, <2>2 DEF p
  <2> QED
    BY <2>5, <2>6, <2>7, <2>8 DEF Tracked
<1>11. \A i \in DOMAIN pods' : Named(pods', i) = {i} => Tracked(i)'
  BY <1>1, <1>10 DEF Named
<1> QED
  BY <1>1, <1>2, <1>3, <1>8, <1>9, <1>11 DEF EndsInv

\* A pod of each daemon set on the nodes it may run on, as EveryPodEndsUp says.
DaemonPart(ps, r) ==
  \A d \in DOMAIN r.DaemonSets :
    LET ds   == r.DaemonSets[d]
        runs == { i \in DOMAIN ps : \E h \in Hashes : ps[i].name = Suffixed(ds.name, h) }
    IN /\ { ps[i].only : i \in runs } = { {n} : n \in RunsOn(ds) }
       /\ \A i, j \in runs : ps[i].only = ps[j].only => i = j

LEMMA DaemonsRun ==
  ASSUME NEW r \in Resources, NEW s \in GetValidPodExcludeDaemonSet(r),
         NEW hash \in [DOMAIN r.DaemonSets -> [Nodes -> Hashes]], NEW b, NEW t,
         Rearranges(b, s \o PodsOfDaemonSets(r.DaemonSets, hash), t)
  PROVE  DaemonPart(t, r)
<1> DEFINE sets == r.DaemonSets
           made == PodsOfDaemonSets(sets, hash)
           all == s \o made
           l == Len(s)
           m == Len(made)
<1>1. sets \in Seq(DaemonSetRecords) /\ DOMAIN sets = 1 .. Len(sets)
  <2>1. sets \in Seq(DaemonSetRecords)
    BY DaemonSetsTyped
  <2> QED
    BY <2>1
<1>2. made \in Seq(PodsAsking(DaemonsAsk(sets))) /\ OwnedUpTo(made, sets, hash, Len(sets))
  <2> HIDE DEF sets
  <2> QED
    BY <1>1, AllDaemonPods DEF sets
<1>3. s \in Seq(PodsAsking(Asked(r)))
  <2>1. IsConfiguration(r)
    BY SimulateAssumption
  <2> QED
    BY <2>1, ImportedAsk
<1>4. PICK own \in [DOMAIN made -> DOMAIN sets] :
        /\ \A i \in DOMAIN made : \E n \in RunsOn(sets[own[i]]) : IsDaemonOn(made[i], sets[own[i]], hash[own[i]], n)
        /\ \A i, j \in DOMAIN made : own[i] = own[j] /\ made[i].only = made[j].only => i = j
  <2> HIDE DEF made, sets
  <2> QED
    BY <1>1, <1>2 DEF OwnedUpTo
<1>5. \A d \in DOMAIN sets : \A n \in RunsOn(sets[d]) :
        \E i \in DOMAIN made : IsDaemonOn(made[i], sets[d], hash[d], n)
  <2> HIDE DEF made, sets
  <2> QED
    BY <1>1, <1>2 DEF OwnedUpTo
<1>6. \A d \in DOMAIN sets : /\ \A n \in RunsOn(sets[d]) : hash[d][n] \in Hashes
                             /\ \A h \in Hashes :
                                  /\ \A i \in DOMAIN s : s[i].name # Suffixed(sets[d].name, h)
                                  /\ \A e \in DOMAIN sets, g \in Hashes :
                                       e # d => Suffixed(sets[e].name, g) # Suffixed(sets[d].name, h)
  <2> TAKE d \in DOMAIN sets
  <2>1. \A n \in RunsOn(sets[d]) : n \in Nodes
    <3>1. sets[d] \in DaemonSetRecords
      BY <1>1
    <3> HIDE DEF sets
    <3> QED
      BY <3>1 DEF DaemonSetRecords, RunsOn
  <2>2. hash[d] \in [Nodes -> Hashes]
    OBVIOUS
  <2>3. \A h \in Hashes :
          /\ \A i \in DOMAIN s : s[i].name # Suffixed(sets[d].name, h)
          /\ \A e \in DOMAIN sets \ {d}, g \in Hashes : Suffixed(sets[e].name, g) # Suffixed(sets[d].name, h)
    BY NamesApart, Zenon
  <2> HIDE DEF sets
  <2> QED
    BY <2>1, <2>2, <2>3
<1>7. /\ l \in Nat /\ m \in Nat /\ DOMAIN s = 1 .. l /\ DOMAIN made = 1 .. m /\ DOMAIN all = 1 .. (l + m)
      /\ \A i \in 1 .. l : all[i] = s[i]
      /\ \A i \in 1 .. m : all[l + i] = made[i]
  <2> HIDE DEF made
  <2>1. made \in Seq(PodsAsking(DaemonsAsk(sets))) /\ s \in Seq(PodsAsking(Asked(r)))
    BY <1>2, <1>3
  <2> QED
    BY <2>1
<1>8. /\ b \in [DOMAIN all -> DOMAIN all] /\ DOMAIN t = DOMAIN all
      /\ \A i, j \in DOMAIN all : b[i] = b[j] => i = j
      /\ \A j \in DOMAIN all : \E i \in DOMAIN all : b[i] = j
      /\ \A i \in DOMAIN all : t[i] = all[b[i]]
  <2> HIDE DEF all
  <2> QED
    BY DEF Rearranges, all
<1> HIDE DEF made, sets, all, l, m
<1>9. SUFFICES ASSUME NEW d \in DOMAIN sets
               PROVE  LET ds   == sets[d]
                          runs == { i \in DOMAIN t : \E h \in Hashes : t[i].name = Suffixed(ds.name, h) }
                      IN /\ { t[i].only : i \in runs } = { {n} : n \in RunsOn(ds) }
                         /\ \A i, j \in runs : t[i].only = t[j].only => i = j
  BY DEF DaemonPart, sets
<1> DEFINE ds == sets[d]
           runs == { i \in DOMAIN t : \E h \in Hashes : t[i].name = Suffixed(ds.name, h) }
\* A pod of the daemon set's name is one of its own.
<1>10. ASSUME NEW i \in runs
       PROVE  /\ b[i] - l \in DOMAIN made /\ t[i] = made[b[i] - l] /\ own[b[i] - l] = d
              /\ \E n \in RunsOn(ds) : t[i].only = {n}
  <2> DEFINE j == b[i] - l
  <2>1. i \in DOMAIN all /\ b[i] \in 1 .. (l + m) /\ t[i] = all[b[i]]
    BY <1>7, <1>8
  <2>2. PICK h \in Hashes : t[i].name = Suffixed(ds.name, h)
    OBVIOUS
  <2>3. b[i] \notin 1 .. l
    BY <1>6, <1>7, <2>1, <2>2
  <2>4. j \in DOMAIN made /\ l + j = b[i]
    BY <1>7, <2>1, <2>3
  <2>5. t[i] = made[j]
    <3> HIDE DEF j
    <3> QED
      BY <1>7, <2>1, <2>4
  <2> HIDE DEF j
  <2>6. PICK n \in RunsOn(sets[own[j]]) : IsDaemonOn(made[j], sets[own[j]], hash[own[j]], n)
    BY <1>4, <2>4
  <2>7. own[j] \in DOMAIN sets /\ hash[own[j]][n] \in Hashes
    BY <1>4, <1>6, <2>4, <2>6
  <2>8. own[j] = d
    BY <1>6, <2>2, <2>5, <2>6, <2>7 DEF IsDaemonOn
  <2>9. \E y \in RunsOn(ds) : t[i].only = {y}
    BY <2>5, <2>6, <2>8 DEF IsDaemonOn
  <2> QED
    BY <2>4, <2>5, <2>8, <2>9 DEF j
<1>11. ASSUME NEW n \in RunsOn(ds)
       PROVE  \E i \in runs : t[i].only = {n}
  <2>1. PICK j \in DOMAIN made : IsDaemonOn(made[j], ds, hash[d], n)
    BY <1>5
  <2>2. l + j \in DOMAIN all /\ all[l + j] = made[j]
    BY <1>7
  <2>3. PICK i \in DOMAIN all : b[i] = l + j
    BY <1>8, <2>2
  <2>4. t[i] = made[j] /\ i \in DOMAIN t
    BY <1>8, <2>2, <2>3
  <2>5. hash[d][n] \in Hashes
    BY <1>6
  <2>6. t[i].name = Suffixed(ds.name, hash[d][n]) /\ t[i].only = {n}
    BY <2>1, <2>4 DEF IsDaemonOn
  <2> QED
    BY <2>4, <2>5, <2>6
<1>12. ASSUME NEW i \in runs, NEW j \in runs, t[i].only = t[j].only
       PROVE  i = j
  <2>1. /\ b[i] - l \in DOMAIN made /\ t[i] = made[b[i] - l] /\ own[b[i] - l] = d
        /\ b[j] - l \in DOMAIN made /\ t[j] = made[b[j] - l] /\ own[b[j] - l] = d
    BY <1>10
  <2>2. b[i] - l = b[j] - l
    BY <1>4, <1>12, <2>1
  <2>3. i \in DOMAIN all /\ j \in DOMAIN all /\ b[i] \in Int /\ b[j] \in Int /\ l \in Int
    <3>1. i \in DOMAIN all /\ j \in DOMAIN all
      BY <1>8
    <3>2. b[i] \in 1 .. (l + m) /\ b[j] \in 1 .. (l + m)
      BY <1>7, <1>8, <3>1
    <3> QED
      BY <1>7, <3>1, <3>2
  <2>4. b[i] = b[j]
    BY <2>2, <2>3
  <2> QED
    BY <1>8, <2>3, <2>4
<1>13. { t[i].only : i \in runs } = { {n} : n \in RunsOn(ds) }
  <2>1. \A i \in runs : \E n \in RunsOn(ds) : t[i].only = {n}
    BY <1>10
  <2>2. \A n \in RunsOn(ds) : \E i \in runs : t[i].only = {n}
    BY <1>11
  <2> HIDE DEF runs, ds
  <2> DEFINE A == { t[i].only : i \in runs }
             B == { {n} : n \in RunsOn(ds) }
  <2>3. ASSUME NEW x \in A PROVE x \in B
    <3>1. PICK i \in runs : x = t[i].only
      OBVIOUS
    <3>2. PICK n \in RunsOn(ds) : x = {n}
      BY <2>1, <3>1
    <3> QED
      BY <3>2
  <2>4. ASSUME NEW x \in B PROVE x \in A
    <3>1. PICK n \in RunsOn(ds) : x = {n}
      OBVIOUS
    <3>2. PICK i \in runs : t[i].only = x
      BY <2>2, <3>1
    <3> QED
      BY <3>2
  <2> HIDE DEF A, B
  <2>5. A = B
    BY <2>3, <2>4
  <2> QED
    BY <2>5 DEF A, B
<1> QED
  BY <1>12, <1>13

LEMMA EndsRun == TypeInv /\ OrderInv /\ OrderInv' /\ EndsInv /\ RunCluster => EndsInv'
<1> SUFFICES ASSUME TypeInv, OrderInv, OrderInv', EndsInv, RunCluster PROVE EndsInv'
  OBVIOUS
<1>1. /\ stage \in {"start", "tuned"} /\ stage' = "run" /\ events' = Events(pods)
      /\ UNCHANGED << cluster, pods, failed >>
  BY DEF RunCluster
<1>2. DOMAIN cluster' = {} /\ failed' = {} /\ There'
  BY <1>1 DEF OrderInv, EndsInv
<1>3. /\ EventsFrom(events', pods)
      /\ \A i \in DOMAIN pods : ToCome(events', pods[i])
      /\ \A i \in DOMAIN pods : Named(pods, i) = {i} => CreatedOnce(events', pods[i])
  BY <1>1, EventsOfPods DEF TypeInv
<1>4. ASSUME NEW i \in DOMAIN pods', Named(pods', i) = {i}
      PROVE  Tracked(i)'
  <2>1. i \in DOMAIN pods /\ Named(pods, i) = {i} /\ pods'[i] = pods[i]
    BY <1>1, <1>4 DEF Named
  <2> QED
    BY <1>2, <1>3, <2>1 DEF Tracked
<1> QED
  BY <1>1, <1>2, <1>3, <1>4 DEF EndsInv

LEMMA EndsNext == TypeInv /\ OrderInv /\ OrderInv' /\ EndsInv /\ [Next]_vars => EndsInv'
<1> SUFFICES ASSUME TypeInv, OrderInv, OrderInv', EndsInv, [Next]_vars PROVE EndsInv'
  OBVIOUS
<1>1. ASSUME UNCHANGED << stage, pods, events, cluster, failed >> PROVE EndsInv'
  <2>1. /\ There' = There /\ EventsFrom(events', pods') = EventsFrom(events, pods)
        /\ \A i : Tracked(i)' = Tracked(i) /\ Named(pods', i) = Named(pods, i)
    BY <1>1 DEF There, EventsFrom, Tracked, Named
  <2> QED
    BY <1>1, <2>1 DEF EndsInv
<1>2. CASE Done \/ UNCHANGED vars
  BY <1>1, <1>2 DEF Done, vars
<1>3. ASSUME stage \in {"import", "daemons", "start", "tuneDown", "tuneUp", "tuned"},
             stage' \notin {"run", "rest"}, UNCHANGED failed
      PROVE  EndsInv'
  BY <1>3 DEF EndsInv
<1>4. CASE Import
  BY <1>3, <1>4 DEF Import
<1>5. CASE RunDaemons
  BY <1>3, <1>5 DEF RunDaemons
<1>6. CASE BeginTuning \/ tuneDownPods \/ tuneUpPods
  <2>1. UNCHANGED failed
    BY <1>6 DEF BeginTuning, tuneDownPods, tuneUpPods
  <2> QED
    BY <1>3, <1>6, <2>1, Reordered
<1>7. CASE Return
  <2>1. CASE stage = "run"
    <3>1. stage' = "rest" /\ events = <<>> /\ UNCHANGED << pods, events, cluster, failed >>
      BY <1>7, <2>1 DEF Return
    <3>2. /\ There' = There /\ EventsFrom(events', pods') = EventsFrom(events, pods)
          /\ \A i : Tracked(i)' = Tracked(i) /\ Named(pods', i) = Named(pods, i)
      BY <3>1 DEF There, EventsFrom, Tracked, Named
    <3> QED
      BY <2>1, <3>1, <3>2 DEF EndsInv
  <2>2. CASE stage # "run"
    <3>1. stage' \in {"clean", "done"}
      BY <1>7, <2>2 DEF Return
    <3> QED
      BY <3>1 DEF EndsInv
  <2> QED
    BY <2>1, <2>2
<1>8. CASE BeginInflation \/ GenerateInflationPod \/ ScheduleInflation \/ CleanUp \/ ScheduleApp
  <2>1. stage' \in {"generate", "inflate", "inflated", "app"}
    BY <1>8 DEF BeginInflation, GenerateInflationPod, ScheduleInflation, CleanUp, ScheduleApp
  <2> QED
    BY <2>1 DEF EndsInv
<1> QED
  BY <1>2, <1>4, <1>5, <1>6, <1>7, <1>8, EndsRun, EndsSchedule DEF Next

\* The pods of the daemon sets, as long as nothing was tuned.
DaemonInv ==
  /\ stage = "daemons" => pods \in GetValidPodExcludeDaemonSet(resources)
  /\ stage \in {"tuneDown", "tuneUp"} => tuning.num # 0
  /\ stage = "start" => DaemonPart(pods, resources)
  /\ stage \notin {"import", "daemons", "error"} /\ tuning.num = 0 => DaemonPart(pods, resources)

LEMMA DaemonNext == TypeInv /\ DaemonInv /\ [Next]_vars => DaemonInv'
<1> SUFFICES ASSUME TypeInv, DaemonInv, [Next]_vars PROVE DaemonInv'
  OBVIOUS
<1>1. ASSUME UNCHANGED << pods, resources, tuning >>,
             stage' # stage => /\ stage \notin {"import", "daemons", "error"}
                               /\ stage' \notin {"daemons", "start", "tuneDown", "tuneUp"}
      PROVE  DaemonInv'
  BY <1>1 DEF DaemonInv
<1>2. CASE Import
  BY <1>2 DEF Import, DaemonInv
<1>3. CASE RunDaemons
  <2> DEFINE sets == resources.DaemonSets
             p2 == pods'
  <2>1. PICK hash \in [DOMAIN sets -> [Nodes -> Hashes]] :
          LET made == PodsOfDaemonSets(sets, hash)
          IN IF MakeValidPod(made)
             THEN stage' = "start" /\ pods' \in SortClusterPods(pods \o made, Shuffle)
             ELSE stage' = "error"
    BY <1>3 DEF RunDaemons
  <2> DEFINE made == PodsOfDaemonSets(sets, hash)
             s == pods \o made
  <2>2. CASE MakeValidPod(made)
    <3>1. /\ stage' = "start" /\ p2 \in SortClusterPods(s, Shuffle)
          /\ resources' = resources /\ resources \in Resources /\ pods \in GetValidPodExcludeDaemonSet(resources)
      BY <1>3, <2>1, <2>2 DEF RunDaemons, TypeInv, DaemonInv
    <3>2. s \in Seq(PodRecords)
      <4>1. sets \in Seq(DaemonSetRecords)
        BY <3>1, DaemonSetsTyped
      <4>2. made \in Seq(PodsAsking(DaemonsAsk(sets)))
        <5> HIDE DEF sets
        <5> QED
          BY <4>1, AllDaemonPods
      <4> HIDE DEF made, sets
      <4>3. made \in Seq(PodRecords)
        BY <4>2, IsPods
      <4> QED
        BY <4>3 DEF TypeInv
    <3> HIDE DEF p2
    <3>3. PICK b : Rearranges(b, s, p2)
      <4> HIDE DEF s
      <4> QED
        BY <3>1, <3>2, ClusterSorted
    <3>4. DaemonPart(p2, resources)
      BY <3>1, <3>3, DaemonsRun
    <3> QED
      BY <3>1, <3>4 DEF DaemonInv, p2
  <2>3. CASE ~MakeValidPod(made)
    <3>1. stage' = "error"
      BY <2>1, <2>3
    <3> QED
      BY <3>1 DEF DaemonInv
  <2> QED
    BY <2>2, <2>3
<1>4. CASE BeginTuning
  <2>1. PICK num \in TuneNum :
          /\ tuning' = [num |-> num, added |-> 0]
          /\ stage' \in {"tuneDown", "tuneUp"} => num # 0
          /\ stage' \notin {"daemons", "start"}
    BY <1>4 DEF BeginTuning
  <2>2. stage = "start" /\ UNCHANGED << pods, resources >>
    BY <1>4 DEF BeginTuning
  <2>3. CASE num = 0
    <3>1. DaemonPart(pods, resources)
      BY <2>2 DEF DaemonInv
    <3> QED
      BY <2>1, <2>2, <2>3, <3>1 DEF DaemonInv
  <2>4. CASE num # 0
    BY <2>1, <2>4 DEF DaemonInv
  <2> QED
    BY <2>3, <2>4
<1>5. CASE tuneDownPods \/ tuneUpPods
  <2>1. tuning.num # 0 /\ tuning'.num = tuning.num
    <3>1. tuning.num # 0
      BY <1>5, Reordered DEF DaemonInv
    <3>2. tuning' = tuning \/ tuning' = [tuning EXCEPT !.added = @ + 1]
      BY <1>5 DEF tuneDownPods, tuneUpPods
    <3> QED
      BY <3>1, <3>2 DEF TypeInv
  <2>2. stage' \notin {"daemons", "start"}
    BY <1>5, Reordered
  <2> QED
    BY <2>1, <2>2 DEF DaemonInv
<1>6. CASE GenerateInflationPod
  BY <1>1, <1>6 DEF GenerateInflationPod
<1>7. CASE Rest \/ UNCHANGED vars
  <2>1. stage' # stage => stage' \notin {"start", "tuneDown", "tuneUp"}
    BY <1>7 DEF Rest, RunCluster, Marked, Create, Delete, Return, Scheduling, BeginInflation, ScheduleInflation,
                CleanUp, ScheduleApp, Done, vars
  <2> QED
    BY <1>1, <1>7, <2>1, RestLeaves
<1> QED
  BY <1>2, <1>3, <1>4, <1>5, <1>6, <1>7 DEF Next, Rest

(***************************************************************************)
(* RunCluster and SchedulePods: once the cluster has run, a pod of a name  *)
(* of its own is there, has failed or has left, and not two of these; and  *)
(* each node a daemon set may run on, and no other, has got its pod.       *)
(***************************************************************************)
THEOREM PodsEndUp == Spec => []EveryPodEndsUp
<1>1. OrderInv /\ EndsInv /\ DaemonInv => EveryPodEndsUp
  <2> SUFFICES ASSUME OrderInv, EndsInv, DaemonInv, stage = "rest" PROVE EveryPodEndsUp
    BY DEF EveryPodEndsUp
  <2>1. /\ events = <<>> /\ There
        /\ \A p \in DOMAIN cluster : \E i \in DOMAIN pods : cluster[p].pod = pods[i]
        /\ \A p \in failed : \E i \in DOMAIN pods : p = pods[i]
        /\ \A i \in DOMAIN pods : Named(pods, i) = {i} => Tracked(i)
    BY DEF EndsInv
  <2>2. { cluster[p].pod : p \in DOMAIN cluster } \cup failed \subseteq { pods[i] : i \in DOMAIN pods }
    BY <2>1
  <2>3. ASSUME NEW i \in DOMAIN pods, Named(pods, i) = {i}
        PROVE  LET there == \E p \in DOMAIN cluster : cluster[p].pod = pods[i]
               IN /\ there => ~pods[i].marked /\ pods[i] \notin failed
                  /\ ~there => pods[i] \in failed \/ pods[i].deleted # NoDate
                  /\ pods[i].deleted # NoDate /\ pods[i].deleted >= pods[i].created => ~there
    <3> DEFINE q == pods[i]
               there == \E p \in DOMAIN cluster : cluster[p].pod = q
    <3>1. /\ q \in failed => q.name \notin DOMAIN cluster
          /\ q.deleted = NoDate => q.name \in DOMAIN cluster \/ q \in failed \/ ToCome(events, q)
      BY <2>1, <2>3 DEF Tracked
    <3>2. ~ToCome(events, q) /\ ~ \E k \in DOMAIN events : events[k] = Deletion(q)
      BY <2>1 DEF ToCome
    <3>3. there => q.name \in DOMAIN cluster /\ ~q.marked /\ ~Leaves(q)
      BY <2>1, <3>2 DEF There
    <3>4. q.name \in DOMAIN cluster => there
      <4> SUFFICES ASSUME q.name \in DOMAIN cluster PROVE there
        OBVIOUS
      <4>1. PICK j \in DOMAIN pods : cluster[q.name].pod = pods[j]
        BY <2>1
      <4>2. pods[j].name = q.name
        BY <2>1, <4>1 DEF There
      <4>3. j = i
        BY <2>3, <4>2 DEF Named
      <4> QED
        BY <4>1, <4>3
    <3>5. q.deleted >= q.created => q.created <= q.deleted
      OBVIOUS
    <3> QED
      BY <3>1, <3>2, <3>3, <3>4, <3>5 DEF Leaves
  <2>4. tuning.num = 0 => DaemonPart(pods, resources)
    BY DEF DaemonInv
  <2>5. \A ds : RunsOn(ds) = { n \in ds.tolerates : ds.affinity = {} \/ \E t \in ds.affinity : n \in t.labels }
    BY DEF RunsOn, Runs
  <2> QED
    BY <2>2, <2>3, <2>4, <2>5, Zenon DEF EveryPodEndsUp, DaemonPart
<1>2. Init => OrderInv /\ EndsInv /\ DaemonInv
  BY DEF Init, OrderInv, EndsInv, DaemonInv
<1> QED
  BY <1>1, <1>2, SimulateTypes, OrderNext, EndsNext, DaemonNext, PTL DEF Spec

-----------------------------------------------------------------------------
(***************************************************************************)
(* Inflation: no pod that is there has the name of a copy, so that all that*)
(* is scheduled and then deleted are copies.                               *)
(***************************************************************************)

\* The names of the copies there may be, and of those there are.
CopyNames == { Suffixed(workload[i].name, 50 + k) : i \in DOMAIN workload, k \in 0 .. InflationNum - 1 }
InflationNames == { inflation[i].name : i \in DOMAIN inflation }

\* No pod that comes from elsewhere has the name of a copy.
NoneTaken ==
  /\ \A i \in DOMAIN pods : pods[i].name \notin CopyNames
  /\ \A i \in DOMAIN workload, l \in 0 .. MaxTuned - 1 : Suffixed(workload[i].name, 70 + l) \notin CopyNames
  /\ \A d \in DOMAIN resources.DaemonSets, h \in Hashes :
       Suffixed(resources.DaemonSets[d].name, h) \notin CopyNames

\* What was there before is there as it was, and only copies besides.
Kept ==
  /\ DOMAIN before \subseteq DOMAIN cluster
  /\ DOMAIN cluster \subseteq DOMAIN before \cup InflationNames
  /\ \A p \in DOMAIN before : cluster[p] = before[p]

LeftInv ==
  /\ cluster = [p \in DOMAIN cluster |-> cluster[p]]
  /\ stage \notin {"import", "error"} => NoneTaken
  /\ inflation # <<>> => stage \in {"generate", "inflate", "clean", "inflated"}
  /\ InflationNames \subseteq CopyNames
  /\ stage \in {"generate", "inflate", "clean"} =>
       before = [p \in DOMAIN before |-> before[p]] /\ DOMAIN before \cap CopyNames = {}
  /\ stage = "generate" => cluster = before
  /\ stage = "inflate" =>
       events \in Seq(EventRecords) /\ \A k \in DOMAIN events : events[k].pod.name \in InflationNames
  /\ stage \in {"inflate", "clean"} => Kept
  /\ stage = "inflated" => cluster = before

LEMMA CopyNamesLeft == UNCHANGED workload => CopyNames' = CopyNames
BY DEF CopyNames, InflationNum

LEMMA TakenImport == TypeInv /\ Import /\ stage' = "daemons" => NoneTaken'
<1> SUFFICES ASSUME TypeInv, Import, stage' = "daemons" PROVE NoneTaken'
  OBVIOUS
<1> DEFINE s == pods'
           w == workload'
           r == resources
           m == Inflated(Len(s))
<1>1. s \in GetValidPodExcludeDaemonSet(r) /\ r \in Resources /\ w = SetWorkloadPods(s) /\ resources' = r
  <2>1. MakeValidPod(pods')
    BY DEF Import
  <2> QED
    BY <2>1 DEF Import, TypeInv
<1>2. s \in Seq(PodRecords)
  <2>1. IsConfiguration(r)
    BY <1>1, SimulateAssumption
  <2> HIDE DEF s, r
  <2>2. s \in Seq(PodsAsking(Asked(r)))
    BY <1>1, <2>1, ImportedAsk
  <2> QED
    BY <2>2, IsPods
<1> HIDE DEF s, w
<1>3. Len(w) = Len(s) /\ \A i \in DOMAIN w : \E j \in DOMAIN s : w[i].name = s[j].name
  <2>1. s \in Seq(PodsAsking({ p.res : p \in PodRecords }))
    <3>1. PodRecords \subseteq PodsAsking({ p.res : p \in PodRecords })
      BY DEF PodsAsking
    <3> QED
      BY <1>2, <3>1, SeqOfMore
  <2>2. /\ w \in Seq(PodsAsking({ p.res : p \in PodRecords })) /\ DOMAIN w = DOMAIN s
        /\ \A i \in DOMAIN s : \E j \in DOMAIN s : w[i].name = s[j].name
    BY <1>1, <2>1, WorkloadAsks
  <2> QED
    BY <2>1, <2>2
<1>4. ASSUME NEW i \in DOMAIN s, NEW k \in 0 .. m - 1
      PROVE  LET name == Suffixed(s[i].name, 50 + k)
             IN /\ \A j \in DOMAIN s : /\ s[j].name # name
                                       /\ \A l \in 0 .. MaxTuned - 1 : Suffixed(s[j].name, 70 + l) # name
                /\ \A d \in DOMAIN r.DaemonSets, h \in Hashes : Suffixed(r.DaemonSets[d].name, h) # name
  BY <1>1, CopiesApart, ZenonT(40)
<1> DEFINE C == { Suffixed(w[i].name, 50 + k) : i \in DOMAIN w, k \in 0 .. m - 1 }
<1>5. CopyNames' = C
  BY <1>3 DEF CopyNames, InflationNum, w
<1>6. \A x \in C : \E i \in DOMAIN s, k \in 0 .. m - 1 : x = Suffixed(s[i].name, 50 + k)
  BY <1>3
<1> HIDE DEF C, m
<1>7. \A j \in DOMAIN s : s[j].name \notin C /\ \A l \in 0 .. MaxTuned - 1 : Suffixed(s[j].name, 70 + l) \notin C
  BY <1>4, <1>6
<1>8. \A d \in DOMAIN r.DaemonSets, h \in Hashes : Suffixed(r.DaemonSets[d].name, h) \notin C
  BY <1>4, <1>6
<1>9. \A i \in DOMAIN w, l \in 0 .. MaxTuned - 1 : Suffixed(w[i].name, 70 + l) \notin C
  BY <1>3, <1>7
<1> QED
  BY <1>1, <1>5, <1>7, <1>8, <1>9 DEF NoneTaken, s, w

LEMMA TakenDaemons == TypeInv /\ NoneTaken /\ RunDaemons /\ stage' # "error" => NoneTaken'
<1> SUFFICES ASSUME TypeInv, NoneTaken, RunDaemons, stage' # "error" PROVE NoneTaken'
  OBVIOUS
<1> DEFINE sets == resources.DaemonSets
           p2 == pods'
<1>1. PICK hash \in [DOMAIN sets -> [Nodes -> Hashes]] :
        LET made == PodsOfDaemonSets(sets, hash)
        IN IF MakeValidPod(made)
           THEN stage' = "start" /\ pods' \in SortClusterPods(pods \o made, Shuffle)
           ELSE stage' = "error"
  BY DEF RunDaemons
<1> DEFINE made == PodsOfDaemonSets(sets, hash)
           s == pods \o made
<1>2. p2 \in SortClusterPods(s, Shuffle) /\ UNCHANGED << workload, resources >>
  BY <1>1 DEF RunDaemons
<1>3. CopyNames' = CopyNames
  BY <1>2, CopyNamesLeft
<1>4. sets \in Seq(DaemonSetRecords) /\ DOMAIN sets = 1 .. Len(sets)
  <2>1. sets \in Seq(DaemonSetRecords)
    BY DaemonSetsTyped DEF TypeInv
  <2> QED
    BY <2>1
<1>5. made \in Seq(PodsAsking(DaemonsAsk(sets))) /\ OwnedUpTo(made, sets, hash, Len(sets))
  <2> HIDE DEF sets
  <2> QED
    BY <1>4, AllDaemonPods
<1>6. \A i \in DOMAIN made : made[i].name \notin CopyNames
  <2>1. PICK own \in [DOMAIN made -> DOMAIN sets] :
          \A i \in DOMAIN made : \E n \in RunsOn(sets[own[i]]) : IsDaemonOn(made[i], sets[own[i]], hash[own[i]], n)
    <3> HIDE DEF made, sets
    <3> QED
      BY <1>4, <1>5 DEF OwnedUpTo
  <2>2. \A d \in DOMAIN sets : \A n \in RunsOn(sets[d]) : n \in Nodes
    <3> TAKE d \in DOMAIN sets
    <3>1. sets[d] \in DaemonSetRecords
      BY <1>4
    <3> HIDE DEF sets
    <3> QED
      BY <3>1 DEF DaemonSetRecords, RunsOn
  <2>3. \A d \in DOMAIN sets, h \in Hashes : Suffixed(sets[d].name, h) \notin CopyNames
    BY DEF NoneTaken
  <2> HIDE DEF made, sets
  <2>4. \A d \in DOMAIN sets : \A n \in Nodes : hash[d][n] \in Hashes
    BY DEF sets
  <2> QED
    BY <2>1, <2>2, <2>3, <2>4 DEF IsDaemonOn
<1>7. made \in Seq(PodRecords) /\ pods \in Seq(PodRecords)
  <2> HIDE DEF made, sets
  <2> QED
    BY <1>5, IsPods DEF TypeInv
<1> HIDE DEF made, p2
<1>8. s \in Seq(PodRecords) /\ \A i \in DOMAIN s : s[i].name \notin CopyNames
  <2>1. s \in Seq(PodRecords) /\ \A i \in DOMAIN s : (\E j \in DOMAIN pods : s[i] = pods[j])
                                                     \/ \E j \in DOMAIN made : s[i] = made[j]
    <3> HIDE DEF sets
    <3> QED
      BY <1>7
  <2>2. \A j \in DOMAIN pods : pods[j].name \notin CopyNames
    BY DEF NoneTaken
  <2> HIDE DEF s, sets
  <2> QED
    BY <1>6, <2>1, <2>2
<1> HIDE DEF s
<1>9. PICK b : Rearranges(b, s, p2)
  BY <1>2, <1>8, ClusterSorted
<1>10. \A i \in DOMAIN p2 : p2[i].name \notin CopyNames
  BY <1>8, <1>9 DEF Rearranges
<1> QED
  BY <1>2, <1>3, <1>10 DEF NoneTaken, p2

LEMMA TakenTuning ==
  TypeInv /\ NoneTaken /\ (BeginTuning \/ tuneDownPods \/ tuneUpPods) => NoneTaken'
<1> SUFFICES ASSUME TypeInv, NoneTaken, BeginTuning \/ tuneDownPods \/ tuneUpPods PROVE NoneTaken'
  OBVIOUS
<1>1. UNCHANGED << workload, resources >> /\ CopyNames' = CopyNames
  <2>1. UNCHANGED << workload, resources >>
    BY DEF BeginTuning, tuneDownPods, tuneUpPods
  <2> QED
    BY <2>1, CopyNamesLeft
<1>2. pods \in Seq(PodRecords) /\ \A i \in DOMAIN pods : pods[i].name \notin CopyNames
  BY DEF TypeInv, NoneTaken
<1>3. ASSUME \A i \in DOMAIN pods' : pods'[i].name \notin CopyNames PROVE NoneTaken'
  BY <1>1, <1>3 DEF NoneTaken
<1>4. CASE pods' = pods
  BY <1>2, <1>3, <1>4
<1>5. CASE tuneDownPods /\ pods' # pods
  <2>1. PICK i \in DOMAIN pods : pods' = RemoveAt(pods, i)
    BY <1>5 DEF tuneDownPods, RemovePodsByIndex
  <2>2. /\ DOMAIN pods' = 1 .. (Len(pods) - 1)
        /\ \A j \in 1 .. (Len(pods) - 1) : pods'[j] = pods[IF j < i THEN j ELSE j + 1]
    BY <1>2, <2>1, WithoutOne
  <2>3. \A j \in DOMAIN pods' : \E k \in DOMAIN pods : pods'[j] = pods[k]
    BY <1>2, <2>2
  <2> QED
    BY <1>2, <1>3, <2>3
<1>6. CASE tuneUpPods /\ pods' # pods
  <2>1. PICK i \in DOMAIN workload : tuning.added < MaxTuned /\ pods' = Append(pods, Tuned(workload[i], tuning.added))
    BY <1>6 DEF tuneUpPods
  <2> DEFINE w == workload[i]
             l == tuning.added
             q == Tuned(w, l)
  <2>2. w \in PodRecords /\ l \in 0 .. MaxTuned - 1
    BY <2>1, IsPods, SimulateAssumption DEF TypeInv
  <2>3. q.name \notin CopyNames
    <3>1. Suffixed(w.name, 70 + l) \notin CopyNames
      BY <2>2 DEF NoneTaken
    <3>2. q.name = Suffixed(w.name, 70 + l)
      <4> HIDE DEF w, l
      <4> QED
        BY <2>2 DEF Tuned, PodRecords
    <3> QED
      BY <3>1, <3>2
  <2>4. pods' = Append(pods, q)
    BY <2>1
  <2> HIDE DEF q
  <2>5. \A j \in DOMAIN pods' : pods'[j] = q \/ \E k \in DOMAIN pods : pods'[j] = pods[k]
    BY <1>2, <2>4
  <2> QED
    BY <1>2, <1>3, <2>3, <2>5
<1>7. BeginTuning => pods' = pods
  BY DEF BeginTuning
<1> QED
  BY <1>4, <1>5, <1>6, <1>7


\* What does not touch the names that are taken.
LEMMA TakenLeft == NoneTaken /\ UNCHANGED << pods, workload, resources >> => NoneTaken'
BY CopyNamesLeft DEF NoneTaken

\* The steps before there is an inflation.
LEMMA LeftEarly ==
  TypeInv /\ LeftInv /\ (Import \/ RunDaemons \/ BeginTuning \/ tuneDownPods \/ tuneUpPods \/ RunCluster) => LeftInv'
<1> SUFFICES ASSUME TypeInv, LeftInv,
                    Import \/ RunDaemons \/ BeginTuning \/ tuneDownPods \/ tuneUpPods \/ RunCluster
             PROVE  LeftInv'
  OBVIOUS
<1>1. /\ stage \notin {"generate", "inflate", "clean", "inflated"}
      /\ stage' \notin {"generate", "inflate", "clean", "inflated"}
      /\ UNCHANGED << cluster, inflation >>
  <2>1. CASE BeginTuning \/ tuneDownPods \/ tuneUpPods
    <3>1. UNCHANGED << cluster, inflation >>
      BY <2>1 DEF BeginTuning, tuneDownPods, tuneUpPods
    <3> QED
      BY <2>1, <3>1, Reordered
  <2>2. CASE Import
    BY <2>2 DEF Import
  <2>3. CASE RunDaemons
    <3>1. stage' = "start" \/ stage' = "error"
      BY <2>3 DEF RunDaemons
    <3> QED
      BY <2>3, <3>1 DEF RunDaemons
  <2>4. CASE RunCluster
    BY <2>4 DEF RunCluster
  <2> QED
    BY <2>1, <2>2, <2>3, <2>4
<1>2. inflation = <<>>
  BY <1>1 DEF LeftInv
<1>3. InflationNames' = {}
  BY <1>1, <1>2 DEF InflationNames
<1>4. stage' \notin {"import", "error"} => NoneTaken'
  <2>1. CASE Import
    <3>1. stage' \in {"daemons", "error"}
      BY <2>1 DEF Import
    <3> QED
      BY <2>1, <3>1, TakenImport
  <2>2. CASE ~Import
    <3>1. stage \notin {"import", "error"}
      BY <2>2, Reordered DEF RunDaemons, RunCluster
    <3>2. NoneTaken
      BY <3>1 DEF LeftInv
    <3>3. RunCluster => UNCHANGED << pods, workload, resources >>
      BY DEF RunCluster
    <3> QED
      BY <2>2, <3>2, <3>3, TakenDaemons, TakenTuning, TakenLeft
  <2> QED
    BY <2>1, <2>2
<1>5. cluster' = [p \in DOMAIN cluster' |-> cluster'[p]]
  BY <1>1 DEF LeftInv
<1> QED
  BY <1>1, <1>2, <1>3, <1>4, <1>5 DEF LeftInv

\* A pod comes, goes or fails.
LEMMA LeftSchedule == LeftInv /\ (Marked \/ Create \/ Delete) => LeftInv'
<1> SUFFICES ASSUME LeftInv, Marked \/ Create \/ Delete PROVE LeftInv'
  OBVIOUS
<1>1. /\ UNCHANGED << stage, resources, pods, workload, inflation, before >>
      /\ events # <<>> /\ events' = Tail(events) /\ stage \in {"run", "inflate", "app"}
  BY DEF Marked, Create, Delete, Scheduling
<1>2. /\ CopyNames' = CopyNames /\ InflationNames' = InflationNames
      /\ stage' \notin {"import", "error"} => NoneTaken'
  BY <1>1, CopyNamesLeft, TakenLeft DEF LeftInv, InflationNames
<1> DEFINE x == Head(events).pod
<1>3. \/ cluster' = cluster
      \/ cluster' = Absent(x.name)
      \/ \E n : cluster' = Put(x, n)
  <2>1. CASE Marked
    BY <2>1 DEF Marked
  <2>2. CASE Create
    BY <2>2, CreateDoes
  <2>3. CASE Delete
    BY <2>3 DEF Delete
  <2> QED
    BY <2>1, <2>2, <2>3
<1> HIDE DEF x
<1>4. cluster' = [p \in DOMAIN cluster' |-> cluster'[p]]
  <2>1. \A n : Absent(n) = [p \in DOMAIN Absent(n) |-> Absent(n)[p]]
    BY DEF Absent
  <2>2. \A n : Put(x, n) = [p \in DOMAIN Put(x, n) |-> Put(x, n)[p]]
    BY DEF Put
  <2>3. cluster = [p \in DOMAIN cluster |-> cluster[p]]
    BY DEF LeftInv
  <2> QED
    BY <1>3, <2>1, <2>2, <2>3
<1>5. ASSUME stage = "inflate"
      PROVE  /\ events' \in Seq(EventRecords) /\ \A k \in DOMAIN events' : events'[k].pod.name \in InflationNames
             /\ Kept'
  <2>1. /\ events \in Seq(EventRecords) /\ \A k \in DOMAIN events : events[k].pod.name \in InflationNames
        /\ Kept /\ InflationNames \subseteq CopyNames /\ DOMAIN before \cap CopyNames = {}
    BY <1>5 DEF LeftInv
  <2>2. /\ events' \in Seq(EventRecords) /\ Head(events) = events[1] /\ 1 \in DOMAIN events
        /\ \A k \in DOMAIN events' : \E j \in DOMAIN events : events'[k] = events[j]
    BY <1>1, <2>1
  <2>3. x.name \in InflationNames /\ x.name \notin DOMAIN before
    BY <2>1, <2>2 DEF x
  <2>4. \A k \in DOMAIN events' : events'[k].pod.name \in InflationNames
    BY <2>1, <2>2
  <2>5. /\ DOMAIN before \subseteq DOMAIN cluster
        /\ DOMAIN cluster \subseteq DOMAIN before \cup InflationNames
        /\ \A p \in DOMAIN before : cluster[p] = before[p]
    BY <2>1 DEF Kept
  <2>6. /\ DOMAIN before \subseteq DOMAIN cluster'
        /\ DOMAIN cluster' \subseteq DOMAIN before \cup InflationNames
        /\ \A p \in DOMAIN before : cluster'[p] = before[p]
    <3>1. CASE cluster' = cluster
      BY <2>5, <3>1
    <3>2. CASE cluster' = Absent(x.name)
      BY <2>3, <2>5, <3>2 DEF Absent
    <3>3. CASE \E n : cluster' = Put(x, n)
      BY <2>3, <2>5, <3>3 DEF Put
    <3> QED
      BY <1>3, <3>1, <3>2, <3>3
  <2> QED
    BY <1>1, <1>2, <2>2, <2>4, <2>6 DEF Kept
<1>6. inflation' # <<>> => stage' \in {"generate", "inflate", "clean", "inflated"}
  BY <1>1 DEF LeftInv
<1>7. stage = "inflate" => before = [p \in DOMAIN before |-> before[p]] /\ DOMAIN before \cap CopyNames = {}
  BY DEF LeftInv
<1>8. InflationNames \subseteq CopyNames
  BY DEF LeftInv
<1> QED
  BY <1>1, <1>2, <1>4, <1>5, <1>6, <1>7, <1>8 DEF LeftInv

\* The copies are scheduled.
LEMMA LeftGiven ==
  ASSUME TypeInv, LeftInv, stage = "generate", stage' = "inflate", events' = GivenEvents(inflation),
         UNCHANGED << resources, pods, workload, cluster, inflation, before >>
  PROVE  LeftInv'
<1>1. /\ CopyNames' = CopyNames /\ InflationNames' = InflationNames
      /\ NoneTaken'
  BY CopyNamesLeft, TakenLeft DEF LeftInv, InflationNames
<1>2. inflation \in Seq(PodRecords)
  BY DEF TypeInv
<1> DEFINE e == [k \in DOMAIN inflation |->
                   IF inflation[k].deleted = NoDate THEN Creation(inflation[k]) ELSE Deletion(inflation[k])]
           n == Len(inflation)
<1>3. \A k \in 1 .. n : e[k] \in EventRecords /\ e[k].pod = inflation[k]
  <2> TAKE k \in 1 .. n
  <2>1. inflation[k] \in PodRecords /\ k \in DOMAIN inflation
    BY <1>2
  <2>2. e[k] = Creation(inflation[k]) \/ e[k] = Deletion(inflation[k])
    BY <2>1
  <2> HIDE DEF e
  <2> QED
    BY <2>1, <2>2, EventKinds DEF EventRecords
<1>4. DOMAIN e = 1 .. n /\ n \in Nat /\ DOMAIN inflation = 1 .. n /\ e = [k \in 1 .. n |-> e[k]]
  BY <1>2
<1>5. events' = e
  BY DEF GivenEvents
<1> HIDE DEF e, n
<1>6. e \in Seq(EventRecords)
  <2>1. e \in [1 .. n -> EventRecords]
    BY <1>3, <1>4
  <2> QED
    BY <1>4, <2>1
<1>7. \A k \in DOMAIN events' : events'[k].pod.name \in InflationNames
  BY <1>3, <1>4, <1>5 DEF InflationNames
<1>8. Kept'
  BY <1>1 DEF LeftInv, Kept
<1> QED
  BY <1>1, <1>5, <1>6, <1>7, <1>8 DEF LeftInv

LEMMA LeftGenerate == TypeInv /\ LeftInv /\ (GenerateInflationPod \/ ScheduleInflation) => LeftInv'
<1> SUFFICES ASSUME TypeInv, LeftInv, GenerateInflationPod \/ ScheduleInflation PROVE LeftInv'
  OBVIOUS
<1>1. stage = "generate" /\ UNCHANGED << resources, pods, workload, cluster, before >>
  BY DEF GenerateInflationPod, ScheduleInflation
<1>2. CASE stage' = "inflate"
  <2>1. events' = GivenEvents(inflation) /\ UNCHANGED inflation
    BY <1>1, <1>2 DEF GenerateInflationPod, ScheduleInflation
  <2> QED
    BY <1>1, <1>2, <2>1, LeftGiven
<1>3. CASE stage' # "inflate"
  <2>1. PICK i \in DOMAIN workload :
          /\ stage' = stage /\ Len(inflation) < InflationNum
          /\ inflation' = Append(inflation, Cloned(workload[i], Len(inflation)))
    BY <1>3 DEF GenerateInflationPod, ScheduleInflation
  <2> DEFINE w == workload[i]
             k == Len(inflation)
             q == Cloned(w, k)
  <2>2. w \in PodRecords /\ inflation \in Seq(PodRecords) /\ k \in Nat
    BY <2>1, IsPods DEF TypeInv
  <2>3. k \in 0 .. InflationNum - 1
    <3>1. InflationNum \in Int
      <4>1. Len(workload) \in Nat
        BY DEF TypeInv
      <4> DEFINE m == Len(workload) * InflateNum + InflateDen - 1
      <4>2. m \in Int
        BY <4>1, SimulateAssumption
      <4> HIDE DEF m
      <4>3. m \div InflateDen \in Int
        BY <4>2, SimulateAssumption
      <4>4. InflationNum = m \div InflateDen - Len(workload)
        BY DEF InflationNum, Inflated, m
      <4> QED
        BY <4>1, <4>3, <4>4
    <3> HIDE DEF k
    <3> QED
      BY <2>1, <2>2, <3>1 DEF k
  <2>4. q.name \in CopyNames
    <3>1. q.name = Suffixed(w.name, 50 + k)
      <4> HIDE DEF w, k
      <4> QED
        BY <2>2 DEF Cloned, PodRecords
    <3> QED
      BY <2>1, <2>3, <3>1 DEF CopyNames
  <2>5. inflation' = Append(inflation, q)
    BY <2>1
  <2> HIDE DEF q
  <2>6. \A j \in DOMAIN inflation' : inflation'[j] = q \/ \E l \in DOMAIN inflation : inflation'[j] = inflation[l]
    BY <2>2, <2>5
  <2>7. \A l \in DOMAIN inflation : inflation[l].name \in CopyNames
    BY DEF LeftInv, InflationNames
  <2>8. \A j \in DOMAIN inflation' : inflation'[j].name \in CopyNames
    BY <2>4, <2>6, <2>7
  <2>9. InflationNames' \subseteq CopyNames
    BY <2>8 DEF InflationNames
  <2>10. CopyNames' = CopyNames /\ NoneTaken'
    BY <1>1, CopyNamesLeft, TakenLeft DEF LeftInv
  <2> QED
    BY <1>1, <2>1, <2>9, <2>10 DEF LeftInv
<1> QED
  BY <1>2, <1>3

LEMMA LeftNext == TypeInv /\ EndsInv /\ LeftInv /\ [Next]_vars => LeftInv'
<1> SUFFICES ASSUME TypeInv, EndsInv, LeftInv, [Next]_vars PROVE LeftInv'
  OBVIOUS
\* The steps that change the stage, or nothing.
<1>1. ASSUME UNCHANGED << resources, pods, workload, inflation >>, stage \notin {"import", "error"} \/ stage' = stage
      PROVE  /\ CopyNames' = CopyNames /\ InflationNames' = InflationNames
             /\ stage' \notin {"import", "error"} => NoneTaken'
             /\ InflationNames' \subseteq CopyNames'
  BY <1>1, CopyNamesLeft, TakenLeft DEF LeftInv, InflationNames
<1>2. CASE Done \/ UNCHANGED vars
  <2>1. UNCHANGED vars
    BY <1>2 DEF Done
  <2>2. Kept' = Kept
    BY <2>1 DEF Kept, InflationNames, vars
  <2> QED
    BY <1>1, <2>1, <2>2 DEF LeftInv, vars
<1>3. CASE Return
  <2>1. /\ UNCHANGED << resources, pods, workload, inflation, cluster, before >>
        /\ \/ stage = "run" /\ stage' = "rest"
           \/ stage = "inflate" /\ stage' = "clean"
           \/ stage = "app" /\ stage' = "done"
    BY <1>3 DEF Return
  <2>2. Kept' = Kept
    BY <2>1 DEF Kept, InflationNames
  <2> QED
    BY <1>1, <2>1, <2>2 DEF LeftInv
<1>4. CASE BeginInflation
  <2>1. /\ UNCHANGED << resources, pods, workload, inflation, cluster >>
        /\ stage = "rest" /\ stage' = "generate" /\ before' = cluster
    BY <1>4 DEF BeginInflation
  <2>2. DOMAIN cluster \cap CopyNames = {}
    <3> SUFFICES ASSUME NEW p \in DOMAIN cluster, p \in CopyNames PROVE FALSE
      OBVIOUS
    <3>1. PICK i \in DOMAIN pods : cluster[p].pod = pods[i] /\ cluster[p].pod.name = p
      BY <2>1 DEF EndsInv, There
    <3> QED
      BY <2>1, <3>1 DEF LeftInv, NoneTaken
  <2> QED
    BY <1>1, <2>1, <2>2 DEF LeftInv
<1>5. CASE CleanUp
  <2>1. /\ UNCHANGED << resources, pods, workload, inflation, before >>
        /\ stage = "clean" /\ stage' = "inflated"
        /\ cluster' = [p \in DOMAIN cluster \ InflationNames |-> cluster[p]]
    BY <1>5 DEF CleanUp, InflationNames
  <2>2. DOMAIN cluster \ InflationNames = DOMAIN before
    BY <2>1 DEF LeftInv, Kept
  <2>3. before = [p \in DOMAIN before |-> before[p]] /\ \A p \in DOMAIN before : cluster[p] = before[p]
    BY <2>1 DEF LeftInv, Kept
  <2>4. cluster' = before
    BY <2>1, <2>2, <2>3
  <2> QED
    BY <1>1, <2>1, <2>3, <2>4 DEF LeftInv
<1>6. CASE ScheduleApp
  <2>1. /\ UNCHANGED << resources, pods, workload, inflation, cluster, before >>
        /\ stage = "rest" /\ stage' = "app"
    BY <1>6 DEF ScheduleApp
  <2> QED
    BY <1>1, <2>1 DEF LeftInv
<1> QED
  BY <1>2, <1>3, <1>4, <1>5, <1>6, LeftEarly, LeftSchedule, LeftGenerate DEF Next

(***************************************************************************)
(* RunWorkloadInflationEvaluation: after it the cluster is as it was, for  *)
(* copies are deleted by names that no pod of the cluster has, also when   *)
(* some of them were not scheduled, which deletes by name too.             *)
(***************************************************************************)
THEOREM NothingLeft == Spec => []InflationLeavesNothing
<1>1. LeftInv => InflationLeavesNothing
  BY DEF LeftInv, InflationLeavesNothing
<1>2. Init => OrderInv /\ EndsInv /\ LeftInv
  <2>1. Init => OrderInv /\ EndsInv
    BY DEF Init, OrderInv, EndsInv
  <2>2. Init => LeftInv
    <3> SUFFICES ASSUME Init PROVE LeftInv
      OBVIOUS
    <3>1. cluster = <<>> /\ inflation = <<>> /\ stage = "import"
      BY DEF Init
    <3>2. DOMAIN cluster = {} /\ DOMAIN inflation = {}
      BY <3>1
    <3>3. cluster = [p \in DOMAIN cluster |-> cluster[p]]
      BY <3>1
    <3> QED
      BY <3>1, <3>2, <3>3 DEF LeftInv, InflationNames
  <2> QED
    BY <2>1, <2>2
<1> QED
  BY <1>1, <1>2, SimulateTypes, OrderNext, EndsNext, LeftNext, PTL DEF Spec
=============================================================================
