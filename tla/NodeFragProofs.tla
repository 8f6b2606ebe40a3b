--------------------------- MODULE NodeFragProofs ---------------------------
(***************************************************************************)
(* Facts about what is left of a node and what of it is a fragment, which  *)
(* the proofs about the scheduling cycle and about descheduling share.     *)
(***************************************************************************)
EXTENDS NodeFrag, SumProofs, SequenceTheorems

-----------------------------------------------------------------------------
(* What is left of a node, and what of it is a fragment.                   *)

LEMMA LeftIsSum ==
  \A node : GetTotalMilliGpuLeft(node) = SumOver(node.gpu, DOMAIN node.gpu)
BY DEF GetTotalMilliGpuLeft, FoldSeq, FoldFunction, FoldFunctionOnSet, SumOver, MapThenSumSet, MapThenFoldSet

LEMMA SumOfFunction ==
  \A f : SumFunction(f) = SumOver(f, DOMAIN f)
BY DEF SumFunction, SumFunctionOnSet, FoldFunctionOnSet, SumOver, MapThenSumSet, MapThenFoldSet

\* A node resource has finitely many GPUs, and what is left of it is a number.
LEMMA LeftIsInt ==
  ASSUME NEW node, node.gpu \in Seq(Int)
  PROVE  /\ IsFiniteSet(DOMAIN node.gpu)
         /\ \A i \in DOMAIN node.gpu : node.gpu[i] \in Int
         /\ GetTotalMilliGpuLeft(node) \in Int
<1>1. DOMAIN node.gpu = 1 .. Len(node.gpu) /\ Len(node.gpu) \in Nat
  OBVIOUS
<1>2. IsFiniteSet(DOMAIN node.gpu)
  BY <1>1, FS_Interval
<1>3. \A i \in DOMAIN node.gpu : node.gpu[i] \in Int
  OBVIOUS
<1> QED
  BY <1>2, <1>3, LeftIsSum, SumInt

\* So is the fragment it is to a pod.
LEMMA FragIsInt ==
  ASSUME NEW node, node.gpu \in Seq(Int), NEW pod
  PROVE  FragOf(node, pod) \in Int
<1> DEFINE few == { j \in DOMAIN node.gpu : node.gpu[j] < pod.milli }
           f   == [i \in few |-> node.gpu[i]]
<1>1. IsFiniteSet(few) /\ \A i \in few : f[i] \in Int
  BY LeftIsInt, FS_Subset
<1>2. GetGpuFragMilliByNodeResAndPodRes(node, pod) = SumOver(f, few)
  BY SumOfFunction DEF GetGpuFragMilliByNodeResAndPodRes
<1>3. SumOver(f, few) \in Int
  <2> HIDE DEF f, few
  <2> QED
    BY <1>1, SumInt
<1> QED
  BY <1>2, <1>3, LeftIsInt DEF FragOf

LEMMA KindsFinite == IsFiniteSet(FragTypes) /\ Q3Satisfied \in FragTypes
<1>1. ASSUME NEW x, NEW y PROVE IsFiniteSet({x, y})
  <2>1. {x, y} = {x} \cup {y}
    OBVIOUS
  <2>2. IsFiniteSet({x}) /\ IsFiniteSet({y})
    BY FS_Singleton
  <2> QED
    BY <2>1, <2>2, FS_Union
<1>2. FragTypes = ({Q1LackBoth, Q2LackGpu} \cup {Q3Satisfied, Q4LackCpu})
                    \cup ({XLSatisfied, XRLackCPU} \cup {NoAccess})
  BY DEF FragTypes
<1>3. IsFiniteSet({Q1LackBoth, Q2LackGpu} \cup {Q3Satisfied, Q4LackCpu})
  BY <1>1, FS_Union
<1>4. IsFiniteSet({XLSatisfied, XRLackCPU} \cup {NoAccess})
  BY <1>1, FS_Singleton, FS_Union
<1>5. IsFiniteSet(FragTypes)
  BY <1>2, <1>3, <1>4, FS_Union
<1> QED
  BY <1>5 DEF FragTypes

\* Every pod has a fragment of one kind, which is not that of what satisfies it.
LEMMA FragTypeIn ==
  ASSUME NEW node, NEW pod
  PROVE  FragType(node, pod) \in FragTypes \ {Q3Satisfied}
<1>1. GetNodePodFrag(node, pod) \in FragTypes
  BY DEF GetNodePodFrag, FragTypes
<1>2. Q2LackGpu \in FragTypes \ {Q3Satisfied}
  BY DEF FragTypes, Q2LackGpu, Q3Satisfied
<1> QED
  BY <1>1, <1>2 DEF FragType

(***************************************************************************)
(* The amounts by kind, added up, are what is left of the node once for    *)
(* each typical pod; without the part that satisfies the pods they are the *)
(* measure that sums pod by pod.                                           *)
(***************************************************************************)
LEMMA AmountsAddUp ==
  ASSUME NEW node, node.gpu \in Seq(Int),
         NEW D, IsFiniteSet(DOMAIN D), \A q \in DOMAIN D : D[q] \in Int
  PROVE  LET amount == NodeGpuShareFragAmount(node, D)
             weight == SumFunction([q \in DOMAIN D |-> D[q]])
         IN /\ SumFunction([t \in FragTypes |-> amount[t]]) = weight * GetTotalMilliGpuLeft(node)
            /\ FragAmountSumExceptQ3(amount) = NodeGpuShareFragAmountScoreBasedOnPredict(node, D)
<1> DEFINE Q == DOMAIN D
           T == FragTypes \ {Q3Satisfied}
           l == GetTotalMilliGpuLeft(node)
           a == NodeGpuShareFragAmount(node, D)
           c == [q \in Q |-> FragType(node, q)]
           w == [q \in Q |-> D[q]]
           g == [q \in Q |-> D[q] * FragOf(node, q)]
           h == [q \in Q |-> D[q] * (l - FragOf(node, q))]
           r == [q \in Q |-> D[q] * l]
           all == [t \in FragTypes |-> a[t]]
           rest == [t \in T |-> a[t]]
<1>1. l \in Int /\ \A q \in Q : FragOf(node, q) \in Int /\ D[q] \in Int
  BY LeftIsInt, FragIsInt
<1>2. \A q \in Q : /\ w[q] \in Int /\ g[q] \in Int /\ h[q] \in Int
                   /\ r[q] = g[q] + h[q] /\ r[q] = l * w[q]
  <2> HIDE DEF l
  <2> QED
    BY <1>1
<1>3. SumOver(r, Q) = SumOver(g, Q) + SumOver(h, Q) /\ SumOver(r, Q) = l * SumOver(w, Q)
  <2> HIDE DEF w, g, h, r, l, Q
  <2> QED
    BY <1>1, <1>2, SumPlus, SumTimes DEF Q
<1>4. a[Q3Satisfied] = SumOver(h, Q)
  <2>1. Q3Satisfied \in FragTypes
    BY DEF FragTypes
  <2>2. a[Q3Satisfied] = SumFunction(h)
    BY <2>1 DEF NodeGpuShareFragAmount
  <2> QED
    BY <2>2, SumOfFunction
<1>5. ASSUME NEW t \in T PROVE a[t] = SumOver(g, Fiber(c, Q, t))
  <2> DEFINE F == { p \in Q : FragType(node, p) = t }
             k == [q \in F |-> D[q] * FragOf(node, q)]
  <2>1. a[t] = SumFunction(k)
    BY DEF NodeGpuShareFragAmount
  <2>2. F = Fiber(c, Q, t)
    BY DEF Fiber
  <2>3. IsFiniteSet(F) /\ \A q \in F : k[q] = g[q] /\ k[q] \in Int
    BY <1>2, FS_Subset
  <2>4. SumOver(k, F) = SumOver(g, F)
    <3> HIDE DEF k, g, F
    <3> QED
      BY <2>3, SumSame
  <2>5. DOMAIN k = F
    OBVIOUS
  <2> HIDE DEF k, g, F, a, c
  <2> QED
    BY <2>1, <2>2, <2>4, <2>5, SumOfFunction
<1>6. SumOver(rest, T) = SumOver(g, Q)
  <2>1. IsFiniteSet(T)
    BY KindsFinite, FS_RemoveElement
  <2>2. \A q \in Q : c[q] \in T
    BY FragTypeIn
  <2>3. \A t \in T : rest[t] = SumOver(g, Fiber(c, Q, t))
    BY <1>5
  <2>4. \A q \in Q : c[q] \in T /\ g[q] \in Int
    BY <1>2, <2>2
  <2>5. IsFiniteSet(Q)
    OBVIOUS
  <2> HIDE DEF rest, T, c, g, Q, a
  <2> QED
    BY <2>1, <2>3, <2>4, <2>5, SumFibers
<1>7. SumOver(all, FragTypes) = SumOver(g, Q) + SumOver(h, Q)
  <2>1. IsFiniteSet(FragTypes) /\ Q3Satisfied \in FragTypes
    BY KindsFinite
  <2>2. SumOver(g, Q) \in Int /\ SumOver(h, Q) \in Int
    <3> HIDE DEF g, h
    <3> QED
      BY <1>2, SumInt
  <2>3. \A t \in T : all[t] = rest[t] /\ rest[t] \in Int
    <3>1. ASSUME NEW t \in T PROVE SumOver(g, Fiber(c, Q, t)) \in Int
      <4>1. Fiber(c, Q, t) \in SUBSET Q
        BY DEF Fiber
      <4> HIDE DEF g, c, T
      <4> QED
        BY <1>2, <4>1, FS_Subset, SumInt
    <3> HIDE DEF g, c, a
    <3> QED
      BY <1>5, <3>1
  <2>4. all[Q3Satisfied] = SumOver(h, Q)
    BY <1>4, <2>1
  <2>5. \A t \in FragTypes : all[t] \in Int
    <3> HIDE DEF all, rest, h
    <3> QED
      BY <2>2, <2>3, <2>4
  <2>6. SumOver(all, FragTypes) = all[Q3Satisfied] + SumOver(all, T)
    <3> HIDE DEF all
    <3> QED
      BY <2>1, <2>5, SumWithout
  <2>7. SumOver(all, T) = SumOver(rest, T)
    <3>1. IsFiniteSet(T)
      BY <2>1, FS_RemoveElement
    <3> HIDE DEF all, rest, T
    <3> QED
      BY <2>3, <3>1, SumSame
  <2> HIDE DEF all, rest, g, h, T
  <2> QED
    BY <1>6, <2>2, <2>4, <2>6, <2>7
<1>8. SumOver(w, Q) \in Int
  <2> HIDE DEF w
  <2> QED
    BY <1>2, SumInt
<1>9. SumFunction(w) * l = SumOver(all, FragTypes)
  <2>1. DOMAIN w = Q
    OBVIOUS
  <2> HIDE DEF w, all, g, h, r, l, Q
  <2> QED
    BY <1>1, <1>3, <1>7, <1>8, <2>1, SumOfFunction
<1>10. NodeGpuShareFragAmountScoreBasedOnPredict(node, D) = SumOver(g, Q)
  <2>1. NodeGpuShareFragAmountScoreBasedOnPredict(node, D) = SumFunction(g)
    BY DEF NodeGpuShareFragAmountScoreBasedOnPredict
  <2> QED
    BY <2>1, SumOfFunction
<1>11. FragAmountSumExceptQ3(a) = SumOver(rest, T)
  <2>1. FragAmountSumExceptQ3(a) = SumFunction(rest)
    BY DEF FragAmountSumExceptQ3
  <2> QED
    BY <2>1, SumOfFunction
<1>12. SumFunction(all) = SumOver(all, FragTypes)
  BY SumOfFunction
<1> QED
  BY <1>6, <1>9, <1>10, <1>11, <1>12

-----------------------------------------------------------------------------
(* Numbers, sets and sequences.                                            *)

\* The quotient of a number between two multiples.
LEMMA Quotient ==
  ASSUME NEW x \in Int, NEW y \in Nat \ {0}, NEW q \in Int, q * y <= x, x < (q + 1) * y
  PROVE  x \div y = q
<1> DEFINE d == x \div y
<1>1. d \in Int /\ d * y <= x /\ x < (d + 1) * y
  OBVIOUS
<1>2. d * y < (q + 1) * y /\ q * y < (d + 1) * y
  <2> HIDE DEF d
  <2> QED
    BY <1>1
<1>3. \A a, b \in Int : a * y < b * y => a < b
  OBVIOUS
<1>4. d < q + 1 /\ q < d + 1
  <2> HIDE DEF d
  <2> QED
    BY <1>1, <1>2, <1>3
<1> QED
  BY <1>1, <1>4

\* The GPUs with room for a share are finitely many positions.
LEMMA FitsFinite ==
  ASSUME NEW node \in NodeResources, NEW pod
  PROVE  /\ Fits(node, pod) \in SUBSET Int /\ IsFiniteSet(Fits(node, pod))
         /\ \A i \in Fits(node, pod) : node.gpu[i] \in Int
<1>1. node.gpu \in Seq(Int)
  BY DEF NodeResources
<1>2. Fits(node, pod) \in SUBSET DOMAIN node.gpu /\ DOMAIN node.gpu \subseteq Int
  BY <1>1 DEF Fits
<1> QED
  BY <1>1, <1>2, LeftIsInt, FS_Subset

\* A function of 1 .. n is a sequence of n elements.
LEMMA LenIs ==
  ASSUME NEW n \in Nat, NEW s, s = [k \in 1 .. n |-> s[k]]
  PROVE  s \in Seq({ s[j] : j \in 1 .. n }) /\ Len(s) = n /\ DOMAIN s = 1 .. n
<1> DEFINE R == { s[j] : j \in 1 .. n }
<1>1. s \in [1 .. n -> R]
  OBVIOUS
<1> HIDE DEF R
<1>2. s \in Seq(R)
  BY <1>1, SeqDef
<1>3. Len(s) = n
  BY <1>1, <1>2
<1> QED
  BY <1>1, <1>2, <1>3 DEF R

\* The elements of a set of numbers, in their order.
LEMMA SortByNumber ==
  ASSUME NEW S, IsFiniteSet(S), \A x \in S : x \in Int
  PROVE  /\ Cardinality(S) \in Nat /\ DOMAIN SortBy(S, <) = 1 .. Cardinality(S)
         /\ \A k \in 1 .. Cardinality(S) : SortBy(S, <)[k] \in S
<1> DEFINE R == { u \in S \X S : u[1] < u[2] }
<1>1. IsOrder(R, S) /\ \A x \in S : Below(R, S, x) = { y \in S : y < x }
  BY DEF IsOrder, Below
<1>2. \A k \in 1 .. Cardinality(S) : \E x \in S : Cardinality({ y \in S : y < x }) = k - 1
  <2> HIDE DEF R
  <2> QED
    BY <1>1, RankFound
<1>3. Cardinality(S) \in Nat
  BY FS_CardinalityType
<1> QED
  BY <1>2, <1>3 DEF SortBy

=============================================================================
