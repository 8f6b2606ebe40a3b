------------------------ MODULE PredictWindowProofs -------------------------
(***************************************************************************)
(* Proofs about the windows of CAFGD and FGDPP: for every workload and     *)
(* every size of the windows, the counts follow the pods, top pods are     *)
(* found and recent, no index is out of range, and the memo of the weights *)
(* is what would be computed now.                                          *)
(***************************************************************************)
EXTENDS PredictWindow, SumProofs, SequenceTheorems

-----------------------------------------------------------------------------
(* Sums and counts over the list of a window.                              *)

\* Total is a sum over the kinds a function is defined for.
LEMMA TotalIsSum == \A f : Total(f) = SumOver(f, DOMAIN f)
BY DEF Total, SumOver

\* Min of two numbers.
LEMMA MinOfTwo ==
  \A a, b \in Int : Min({a, b}) = IF a <= b THEN a ELSE b
<1> SUFFICES ASSUME NEW a \in Int, NEW b \in Int
             PROVE  Min({a, b}) = IF a <= b THEN a ELSE b
  OBVIOUS
<1> DEFINE m == IF a <= b THEN a ELSE b
<1>1. m \in {a, b} /\ \A y \in {a, b} : m <= y
  OBVIOUS
<1>2. \A x \in {a, b} : (\A y \in {a, b} : x <= y) => x = m
  OBVIOUS
<1> HIDE DEF m
<1>3. Min({a, b}) = m
  BY <1>1, <1>2 DEF Min
<1> QED
  BY <1>3 DEF m

\* Max of a natural number and one.
LEMMA MaxWithOne ==
  \A a \in Nat : Max({a, 1}) = IF a = 0 THEN 1 ELSE a
<1> SUFFICES ASSUME NEW a \in Nat
             PROVE  Max({a, 1}) = IF a = 0 THEN 1 ELSE a
  OBVIOUS
<1> DEFINE m == IF a = 0 THEN 1 ELSE a
<1>1. m \in {a, 1} /\ \A y \in {a, 1} : m >= y
  OBVIOUS
<1>2. \A x \in {a, 1} : (\A y \in {a, 1} : x >= y) => x = m
  OBVIOUS
<1> HIDE DEF m
<1>3. Max({a, 1}) = m
  BY <1>1, <1>2 DEF Max
<1> QED
  BY <1>3 DEF m

\* One of the numbers grows by one, and so does their sum.
LEMMA SumGrows ==
  ASSUME NEW f, NEW g, NEW S, IsFiniteSet(S), NEW p \in S,
         \A x \in S : f[x] \in Int /\ x # p => g[x] = f[x],
         \A x \in S : f[x] \in Int,
         g[p] = f[p] + 1
  PROVE  SumOver(g, S) = SumOver(f, S) + 1
<1>1. \A x \in S : x # p => g[x] = f[x]
  OBVIOUS
<1>2. \A x \in S : g[x] \in Int
  BY <1>1
<1>3. SumOver(f, S) = f[p] + SumOver(f, S \ {p})
  BY SumWithout
<1>4. SumOver(g, S) = g[p] + SumOver(g, S \ {p})
  BY <1>2, SumWithout
<1> DEFINE r == S \ {p}
<1>5. IsFiniteSet(r) /\ \A x \in r : f[x] = g[x] /\ f[x] \in Int
  BY <1>1, FS_Subset
<1> HIDE DEF r
<1>6. SumOver(f, r) = SumOver(g, r) /\ SumOver(f, r) \in Int
  BY <1>5, SumSame, SumInt
<1> QED
  BY <1>3, <1>4, <1>6 DEF r

\* In a list every position is of one kind: the counts of the kinds add up
\* to the length.
LEMMA OccursAddUp ==
  ASSUME NEW s \in Seq(Kinds), NEW f, \A k \in Kinds : f[k] = Occurs(s, k)
  PROVE  SumOver(f, Kinds) = Len(s)
<1> DEFINE S == 1 .. Len(s)
           one == [i \in S |-> 1]
<1>1. Len(s) \in Nat /\ DOMAIN s = S /\ \A i \in S : s[i] \in Kinds
  OBVIOUS
<1>2. IsFiniteSet(S) /\ Cardinality(S) = Len(s)
  <2>1. \A n \in Nat : IsFiniteSet(1 .. n) /\ Cardinality(1 .. n) = n
    <3> TAKE n \in Nat
    <3>1. IsFiniteSet(1 .. n) /\ Cardinality(1 .. n) = IF 1 > n THEN 0 ELSE n - 1 + 1
      BY FS_Interval
    <3> QED
      BY <3>1
  <2> QED
    BY <1>1, <2>1
<1>3. \A k \in Kinds : f[k] = SumOver(one, Fiber(s, S, k))
  <2> TAKE k \in Kinds
  <2> DEFINE F == Fiber(s, S, k)
  <2>1. IsFiniteSet(F) /\ F \subseteq S
    <3>1. F \subseteq S
      BY DEF Fiber
    <3> QED
      BY <1>2, <3>1, FS_Subset
  <2>2. f[k] = Cardinality(F)
    BY <1>1 DEF Occurs, Fiber
  <2>3. \A i \in F : one[i] = 1
    BY <2>1
  <2> HIDE DEF F, one
  <2>4. SumOver(one, F) = 1 * Cardinality(F)
    <3>1. \A c \in Int : (\A i \in F : one[i] = c) => SumOver(one, F) = c * Cardinality(F)
      BY <2>1, SumConstant
    <3> QED
      BY <2>3, <3>1
  <2>5. Cardinality(F) \in Nat
    BY <2>1, FS_CardinalityType
  <2>6. SumOver(one, F) = f[k]
    BY <2>2, <2>4, <2>5
  <2> QED
    BY <2>6 DEF F
<1>4. SumOver(one, S) = 1 * Cardinality(S)
  <2>1. \A i \in S : one[i] = 1
    OBVIOUS
  <2> HIDE DEF one, S
  <2> QED
    <3>1. \A c \in Int : (\A i \in S : one[i] = c) => SumOver(one, S) = c * Cardinality(S)
      BY <1>2, SumConstant
    <3> QED
      BY <2>1, <3>1
<1>5. SumOver(f, Kinds) = SumOver(one, S)
  <2>1. \A i \in S : s[i] \in Kinds /\ one[i] \in Int
    BY <1>1
  <2> HIDE DEF one, S
  <2> QED
    BY <1>2, <1>3, <2>1, KindsAssumption, SumFibers
<1> QED
  BY <1>1, <1>2, <1>4, <1>5

-----------------------------------------------------------------------------
(* The top kinds.                                                          *)

\* Of finitely many numbers one is the least.
LEMMA LeastIn ==
  ASSUME NEW S, IsFiniteSet(S), S # {}, NEW f, \A x \in S : f[x] \in Int
  PROVE  \E k \in S : \A j \in S : f[j] >= f[k]
<1> DEFINE Upto(k) == { j \in S : f[j] <= f[k] }
           T == { Upto(k) : k \in S }
<1>1. T \in SUBSET SUBSET S /\ T # {}
  OBVIOUS
<1>2. PICK m \in T : \A s \in T : s \subseteq m => s = m
  <2> HIDE DEF T
  <2> QED
    BY <1>1, Smallest
<1>3. PICK k \in S : m = Upto(k)
  BY <1>2
<1>4. ASSUME NEW j \in S, ~(f[j] >= f[k]) PROVE FALSE
  <2>1. f[j] \in Int /\ f[k] \in Int /\ f[j] < f[k]
    BY <1>4
  <2>2. Upto(j) \subseteq m
    BY <1>3, <2>1
  <2>3. Upto(j) = m
    BY <1>2, <2>2
  <2>4. k \in m /\ k \notin Upto(j)
    BY <1>3, <2>1
  <2> QED
    BY <2>3, <2>4
<1> QED
  BY <1>4

(***************************************************************************)
(* When enough has been counted, the loops that collect top kinds find     *)
(* them before the list of kinds ends (genTopK, remakeTopK).               *)
(***************************************************************************)
LEMMA TopsFound ==
  ASSUME NEW count, IsFiniteSet(DOMAIN count), DOMAIN count # {},
         \A k \in DOMAIN count : count[k] \in Nat,
         NEW num \in Nat, NEW den \in Nat, NEW all \in Nat, NEW most \in Nat \ {0},
         den * Total(count) >= num * all,
         NEW top \in Tops(count, num, den, all, most)
  PROVE  /\ DOMAIN top \in (SUBSET DOMAIN count) \ {{}}
         /\ \A k \in DOMAIN top : top[k] = count[k]
         /\ den * Total(top) >= num * all \/ Cardinality(DOMAIN top) = most
<1> DEFINE D == DOMAIN count
           Enough(S) == den * Total([k \in S |-> count[k]]) >= num * all
           Prefix(S) == \A k \in S, j \in D \ S : count[k] >= count[j]
           Stops(S)  == /\ Enough(S) \/ Cardinality(S) = most
                        /\ \E k \in S : /\ \A j \in S : count[j] >= count[k]
                                        /\ S = {k} \/ ~Enough(S \ {k})
           found == { S \in SUBSET D : S # {} /\ Cardinality(S) <= most /\ Prefix(S) /\ Stops(S) }
           Good == { S \in SUBSET D : S # {} /\ Prefix(S) /\ (Enough(S) \/ Cardinality(S) >= most) }
<1>1. \E S \in found : TRUE
  <2>1. D \in Good
    <3>1. SumOver([k \in D |-> count[k]], D) = SumOver(count, D)
      <4>1. \A k \in D : [j \in D |-> count[j]][k] = count[k] /\ [j \in D |-> count[j]][k] \in Int
        OBVIOUS
      <4> QED
        BY <4>1, SumSame
    <3>2. Total([k \in D |-> count[k]]) = Total(count)
      BY <3>1, TotalIsSum
    <3> QED
      BY <3>2
  <2>2. PICK m \in Good : IsFiniteSet(m) /\ \A s \in Good : s \subseteq m => s = m
    <3>1. Good \in SUBSET SUBSET D /\ Good # {} /\ IsFiniteSet(D)
      BY <2>1
    <3> HIDE DEF Good, D
    <3> QED
      BY <3>1, Smallest
  <2>3. m \in SUBSET D /\ m # {} /\ Prefix(m) /\ (Enough(m) \/ Cardinality(m) >= most)
    BY <2>2
  <2>4. PICK k \in m : \A j \in m : count[j] >= count[k]
    <3>1. \A x \in m : count[x] \in Int
      BY <2>3
    <3> QED
      BY <2>2, <2>3, <3>1, LeastIn
  <2> DEFINE r == m \ {k}
  <2>5. Cardinality(m) \in Nat /\ Cardinality(r) = Cardinality(m) - 1
    BY <2>2, <2>4, FS_CardinalityType, FS_RemoveElement
  <2>6. CASE r = {}
    <3>1. m = {k}
      BY <2>4, <2>6
    <3>2. Cardinality(m) = 1
      BY <3>1, FS_Singleton
    <3>3. Cardinality(m) <= most /\ (Enough(m) \/ Cardinality(m) = most)
      <4> HIDE DEF Enough
      <4> QED
        BY <2>3, <3>2
    <3>4. Stops(m)
      <4> HIDE DEF Enough
      <4> QED
        BY <2>4, <3>1, <3>3
    <3> HIDE DEF Enough, Stops, Prefix
    <3> QED
      BY <2>3, <3>3, <3>4
  <2>7. CASE r # {}
    <3>1. r \in SUBSET D /\ r \subseteq m /\ r # m
      BY <2>3, <2>4
    <3>2. Prefix(r)
      BY <2>3, <2>4
    <3>3. r \notin Good
      BY <2>2, <3>1
    <3>4. ~Enough(r) /\ ~(Cardinality(r) >= most)
      <4> HIDE DEF Enough, Prefix
      <4> QED
        BY <2>7, <3>1, <3>2, <3>3
    <3>5. Cardinality(m) <= most /\ (Enough(m) \/ Cardinality(m) = most)
      <4> HIDE DEF Enough, r
      <4> QED
        BY <2>3, <2>5, <3>4
    <3>6. Stops(m)
      <4> HIDE DEF Enough
      <4> QED
        BY <2>4, <3>4, <3>5
    <3> HIDE DEF Enough, Stops, Prefix
    <3> QED
      BY <2>3, <3>5, <3>6
  <2> QED
    BY <2>6, <2>7
<1>2. top \in { [k \in S |-> count[k]] : S \in found }
  <2>1. found # {}
    BY <1>1
  <2>2. Tops(count, num, den, all, most)
          = IF found = {} THEN { Panic } ELSE { [k \in S |-> count[k]] : S \in found }
    BY DEF Tops
  <2> HIDE DEF found
  <2> QED
    BY <2>1, <2>2
<1>3. PICK S \in found : top = [k \in S |-> count[k]]
  <2> HIDE DEF found
  <2> QED
    BY <1>2
<1>4. S \in SUBSET D /\ S # {} /\ (Enough(S) \/ Cardinality(S) = most)
  <2> HIDE DEF Enough, Prefix
  <2> QED
    BY <1>3
<1>5. DOMAIN top = S
  BY <1>3
<1> QED
  BY <1>3, <1>4, <1>5

\* The kinds that were never counted add nothing.
LEMMA CountedTotal ==
  ASSUME NEW count, DOMAIN count = Kinds, \A k \in Kinds : count[k] \in Nat,
         NEW seen \in SUBSET Kinds, \A k \in Kinds \ seen : count[k] = 0
  PROVE  /\ Total(Counted(count, seen)) = Total(count)
         /\ DOMAIN Counted(count, seen) = seen
         /\ \A k \in seen : Counted(count, seen)[k] = count[k]
<1> DEFINE f == Counted(count, seen)
<1>1. DOMAIN f = seen /\ \A k \in seen : f[k] = count[k] /\ f[k] \in Int
  BY DEF Counted
<1> HIDE DEF f
<1>2. SumOver(count, Kinds) = SumOver(f, seen)
  BY <1>1, KindsAssumption, SumFilter
<1> QED
  BY <1>1, <1>2, TotalIsSum DEF f

-----------------------------------------------------------------------------
(* The list of a window.                                                   *)

\* A list has finitely many positions, and as many of a kind as a number tells.
LEMMA OccursNat ==
  ASSUME NEW s \in Seq(Kinds), NEW k
  PROVE  /\ IsFiniteSet({ i \in DOMAIN s : s[i] = k })
         /\ Occurs(s, k) \in Nat
         /\ (\E i \in DOMAIN s : s[i] = k) => Occurs(s, k) > 0
<1> DEFINE F == { i \in DOMAIN s : s[i] = k }
<1>1. DOMAIN s = 1 .. Len(s) /\ Len(s) \in Nat
  OBVIOUS
<1>2. IsFiniteSet(1 .. Len(s))
  <2>1. \A n \in Nat : IsFiniteSet(1 .. n)
    BY FS_Interval
  <2> QED
    BY <1>1, <2>1
<1>3. IsFiniteSet(F)
  BY <1>1, <1>2, FS_Subset
<1>4. Cardinality(F) \in Nat /\ (F # {} => Cardinality(F) # 0)
  BY <1>3, FS_CardinalityType, FS_EmptySet
<1> QED
  BY <1>3, <1>4 DEF Occurs

\* A kind occurs once more when a pod of it is appended.
LEMMA OccursAppend ==
  ASSUME NEW s \in Seq(Kinds), NEW k \in Kinds, NEW j \in Kinds
  PROVE  Occurs(Append(s, k), j) = Occurs(s, j) + (IF j = k THEN 1 ELSE 0)
<1> DEFINE n == Len(s) + 1
           F == { i \in DOMAIN s : s[i] = j }
           G == { i \in DOMAIN Append(s, k) : Append(s, k)[i] = j }
<1>1. /\ Len(s) \in Nat /\ DOMAIN s = 1 .. Len(s) /\ DOMAIN Append(s, k) = 1 .. n
      /\ \A i \in 1 .. Len(s) : Append(s, k)[i] = s[i]
      /\ Append(s, k)[n] = k
  OBVIOUS
<1>2. n \notin F /\ G = IF j = k THEN F \cup {n} ELSE F
  BY <1>1
<1>3. IsFiniteSet(F) /\ Cardinality(F) \in Nat
  BY OccursNat DEF Occurs
<1>4. Cardinality(F \cup {n}) = Cardinality(F) + 1
  <2> HIDE DEF F, n
  <2> QED
    BY <1>2, <1>3, FS_AddElement
<1>5. Occurs(s, j) = Cardinality(F) /\ Occurs(Append(s, k), j) = Cardinality(G)
  BY DEF Occurs
<1> HIDE DEF F, G, n
<1> QED
  BY <1>2, <1>3, <1>4, <1>5

\* The kind of the first pod occurs once less when that pod leaves.
LEMMA OccursTail ==
  ASSUME NEW s \in Seq(Kinds), s # <<>>, NEW j \in Kinds
  PROVE  Occurs(Tail(s), j) = Occurs(s, j) - (IF j = Head(s) THEN 1 ELSE 0)
<1> DEFINE n == Len(s)
           F == { i \in DOMAIN s : s[i] = j }
           R == F \ {1}
           G == { i \in DOMAIN Tail(s) : Tail(s)[i] = j }
<1>1. /\ n \in Nat \ {0} /\ DOMAIN s = 1 .. n /\ DOMAIN Tail(s) = 1 .. (n - 1)
      /\ \A i \in 1 .. (n - 1) : Tail(s)[i] = s[i + 1]
      /\ Head(s) = s[1]
  OBVIOUS
<1>2. 1 \in F <=> j = Head(s)
  BY <1>1
<1>3. IsFiniteSet(F) /\ Cardinality(F) \in Nat
  BY OccursNat DEF Occurs
<1>4. IsFiniteSet(R) /\ Cardinality(R) = Cardinality(F) - (IF j = Head(s) THEN 1 ELSE 0)
  <2>1. IsFiniteSet(R) /\ Cardinality(R) = IF 1 \in F THEN Cardinality(F) - 1 ELSE Cardinality(F)
    <3> HIDE DEF F
    <3> QED
      BY <1>3, FS_RemoveElement
  <2> HIDE DEF F, R
  <2> QED
    BY <1>2, <1>3, <2>1
<1>5. Cardinality(G) = Cardinality(R)
  <2> DEFINE b == [i \in R |-> i - 1]
  <2>1. b \in [R -> G]
    BY <1>1
  <2>2. \A x, y \in R : b[x] = b[y] => x = y
    BY <1>1
  <2>3. \A y \in G : \E x \in R : b[x] = y
    <3> TAKE y \in G
    <3>1. y + 1 \in R /\ b[y + 1] = y
      BY <1>1
    <3> QED
      BY <3>1
  <2> HIDE DEF b, R, G
  <2>4. b \in Bijection(R, G)
    BY <2>1, <2>2, <2>3 DEF Bijection, Injection, Surjection, IsInjective
  <2> QED
    BY <1>4, <2>4, FS_Bijection DEF ExistsBijection
<1> QED
  BY <1>4, <1>5 DEF Occurs

-----------------------------------------------------------------------------
(* When top pods are due.                                                  *)

\* A remainder counts up until it is zero again.
LEMMA ModNext ==
  \A a \in Nat, m \in Nat \ {0} :
    /\ a % m \in 0 .. m - 1
    /\ (a + 1) % m = 0 \/ (a + 1) % m = (a % m) + 1
<1> SUFFICES ASSUME NEW a \in Nat, NEW m \in Nat \ {0}
             PROVE  /\ a % m \in 0 .. m - 1
                    /\ (a + 1) % m = 0 \/ (a + 1) % m = (a % m) + 1
  OBVIOUS
<1> DEFINE q == a \div m
           r == a % m
<1>1. q \in Nat /\ r \in 0 .. m - 1 /\ a = m * q + r
  OBVIOUS
<1>2. CASE r + 1 < m
  OBVIOUS
<1>3. CASE r + 1 = m
  OBVIOUS
<1> QED
  BY <1>1, <1>2, <1>3

\* The sizes of the windows as the provers want them.
LEMMA Sizes ==
  /\ Recent \in Nat \ {0} /\ SmallWinSize \in Nat \ {0} /\ BigWinSize \in Nat \ {0}
  /\ WinSize \in Nat \ {0} /\ WaterDen \in Nat \ {0} /\ WaterNum \in Nat
  /\ Recent <= SmallWinSize /\ SmallWinSize <= BigWinSize /\ BigWinSize % SmallWinSize = 0
  /\ WaterNum <= WaterDen
BY WindowSizes

(***************************************************************************)
(* Top pods that are not due now were made when they were last due: also   *)
(* when the big window has just become full and the rhythm changes (Add).  *)
(***************************************************************************)
LEMMA LastDue ==
  ASSUME NEW a \in Nat, NEW made \in Nat, a = made + (a % Stride(a))
  PROVE  /\ Stride(a + 1) \in Nat \ {0} /\ (a + 1) % Stride(a + 1) \in 0 .. Stride(a + 1) - 1
         /\ (a + 1) % Stride(a + 1) # 0 => a + 1 = made + ((a + 1) % Stride(a + 1))
<1> USE Sizes
<1> DEFINE s == Stride(a)
           t == Stride(a + 1)
<1>1. s \in {SmallWinSize, BigWinSize} /\ t \in {SmallWinSize, BigWinSize}
  BY DEF Stride
<1>2. /\ (a + 1) % t \in 0 .. t - 1 /\ (a % t) \in 0 .. t - 1
      /\ (a + 1) % t = 0 \/ (a + 1) % t = (a % t) + 1
  <2>1. a + 1 \in Nat /\ t \in Nat \ {0}
    BY DEF Stride
  <2> HIDE DEF t
  <2> QED
    BY <1>1, <2>1, ModNext
<1>3. CASE s = t
  <2>1. (a + 1) % t = 0 \/ (a + 1) % t = (a % t) + 1
    BY <1>2
  <2>2. (a % t) \in Nat
    <3> HIDE DEF t
    <3> QED
      BY <1>1, <1>2
  <2> HIDE DEF s, t
  <2>3. a = made + (a % t)
    BY <1>3 DEF s
  <2>4. (a + 1) % t # 0 => a + 1 = made + ((a + 1) % t)
    BY <2>1, <2>2, <2>3
  <2> QED
    BY <1>1, <1>2, <2>4 DEF t
<1>4. CASE s # t
  <2>1. a = BigWinSize /\ s = SmallWinSize /\ t = BigWinSize
    BY <1>4 DEF Stride
  <2>2. made = a
    BY <2>1
  <2>3. (a % t) = 0
    BY <2>1
  <2>4. (a + 1) % t = 0 \/ (a + 1) % t = (a % t) + 1
    BY <1>2
  <2> HIDE DEF s, t
  <2>5. (a + 1) % t # 0 => a + 1 = made + ((a + 1) % t)
    BY <2>2, <2>3, <2>4
  <2> QED
    BY <1>1, <1>2, <2>5 DEF t
<1> QED
  BY <1>3, <1>4

-----------------------------------------------------------------------------
(* CAFGD's window.                                                         *)

\* A list with one pod more, and without its first.
LEMMA AppendTail ==
  /\ \A s \in Seq(Kinds), k \in Kinds :
       /\ Append(s, k) \in Seq(Kinds) /\ Append(s, k) # <<>>
       /\ Len(Append(s, k)) = Len(s) + 1 /\ Len(s) \in Nat
       /\ DOMAIN Append(s, k) = 1 .. Len(Append(s, k)) /\ DOMAIN s = 1 .. Len(s)
       /\ \A i \in 1 .. Len(s) : Append(s, k)[i] = s[i]
       /\ Append(s, k)[Len(Append(s, k))] = k
  /\ \A s \in Seq(Kinds) : s # <<>> =>
       /\ Tail(s) \in Seq(Kinds) /\ Len(Tail(s)) = Len(s) - 1 /\ Head(s) \in Kinds
       /\ DOMAIN Tail(s) = 1 .. Len(Tail(s))
       /\ \A i \in 1 .. Len(Tail(s)) : Tail(s)[i] = s[i + 1]
OBVIOUS

\* One pod more, and when the window is full the oldest less: the counts go
\* with the list (Add).
LEMMA ShiftedCounts ==
  ASSUME Counts(win), NEW k \in Kinds
  PROVE  LET w == Shifted(win, k)
         IN  /\ Counts(w)
             /\ w.arrived = win.arrived + 1 /\ k \in w.seen
             /\ w.top = win.top /\ w.made = win.made
<1> USE Sizes
<1> DEFINE list  == Append(win.list, k)
           count == [win.count EXCEPT ![k] = @ + 1]
           over  == Len(list) > BigWinSize
           w     == Shifted(win, k)
<1>1. /\ list \in Seq(Kinds) /\ Len(list) = Len(win.list) + 1 /\ list # <<>>
      /\ DOMAIN list = 1 .. Len(list) /\ DOMAIN win.list = 1 .. Len(win.list)
      /\ \A i \in 1 .. Len(win.list) : list[i] = win.list[i]
      /\ list[Len(list)] = k
  <2>1. win.list \in Seq(Kinds)
    BY DEF Counts
  <2> QED
    BY <2>1, AppendTail
<1>0. /\ Len(win.list) = IF win.arrived > BigWinSize THEN BigWinSize ELSE win.arrived
      /\ win.arrived \in Nat /\ Len(win.list) \in Nat /\ Len(list) = Len(win.list) + 1
  BY <1>1 DEF Counts
<1>2. /\ w.list = IF over THEN Tail(list) ELSE list
      /\ w.count = IF over THEN [count EXCEPT ![Head(list)] = @ - 1] ELSE count
      /\ w.arrived = win.arrived + 1 /\ w.seen = win.seen \cup {k}
      /\ w.top = win.top /\ w.made = win.made /\ DOMAIN w = Fields
  <2>1. DOMAIN win = Fields
    BY DEF Counts
  <2>2. \A l, c : LET r == [win EXCEPT !.arrived = @ + 1, !.seen = @ \cup {k}, !.list = l, !.count = c]
                  IN  /\ r.list = l /\ r.count = c
                      /\ r.arrived = win.arrived + 1 /\ r.seen = win.seen \cup {k}
                      /\ r.top = win.top /\ r.made = win.made /\ DOMAIN r = Fields
    BY <2>1 DEF Fields
  <2>3. w = [win EXCEPT !.arrived = @ + 1, !.seen = @ \cup {k},
                        !.list  = IF over THEN Tail(list) ELSE list,
                        !.count = IF over THEN [count EXCEPT ![Head(list)] = @ - 1] ELSE count]
    BY DEF Shifted
  <2> HIDE DEF w, list, over, count
  <2> QED
    BY <2>2, <2>3
<1>3. DOMAIN count = Kinds /\ \A j \in Kinds : count[j] = Occurs(list, j)
  <2>1. \A j \in Kinds : Occurs(list, j) = Occurs(win.list, j) + (IF j = k THEN 1 ELSE 0)
    BY OccursAppend DEF Counts
  <2>2. \A j \in Kinds : Occurs(win.list, j) \in Nat
    BY OccursNat DEF Counts
  <2> HIDE DEF list
  <2> QED
    BY <2>1, <2>2 DEF Counts
<1>4. \A i \in 1 .. Len(list) : list[i] \in w.seen
  <2> HIDE DEF list, w, over, count
  <2> TAKE i \in 1 .. Len(list)
  <2>1. i \in 1 .. Len(win.list) \/ i = Len(list)
    BY <1>1
  <2> QED
    BY <1>1, <1>2, <2>1 DEF Counts
<1>5. w.seen \in SUBSET Kinds /\ w.arrived \in Nat /\ k \in w.seen /\ DOMAIN w = Fields
  <2> HIDE DEF w, list, over, count
  <2> QED
    BY <1>2 DEF Counts
<1>6. Counts(w)
  <2>1. CASE over
    <3>1. /\ Tail(list) \in Seq(Kinds) /\ Len(Tail(list)) = Len(list) - 1
          /\ DOMAIN Tail(list) = 1 .. Len(Tail(list))
          /\ \A i \in 1 .. Len(Tail(list)) : Tail(list)[i] = list[i + 1]
          /\ Head(list) \in Kinds
      <4> HIDE DEF list
      <4> QED
        BY <1>1, AppendTail
    <3>2. \A j \in Kinds : Occurs(Tail(list), j) = Occurs(list, j) - (IF j = Head(list) THEN 1 ELSE 0)
      <4> HIDE DEF list
      <4> QED
        BY <1>1, OccursTail
    <3>3. \A j \in Kinds : Occurs(list, j) \in Nat
      <4> HIDE DEF list
      <4> QED
        BY <1>1, OccursNat
    <3>4. w.list = Tail(list) /\ w.count = [count EXCEPT ![Head(list)] = @ - 1]
      BY <1>2, <2>1
    <3>5. DOMAIN w.count = Kinds /\ \A j \in Kinds : w.count[j] = Occurs(w.list, j)
      <4> HIDE DEF w, list, over, count
      <4> QED
        BY <1>3, <3>1, <3>2, <3>3, <3>4
    <3>6. Len(w.list) = BigWinSize /\ w.arrived > BigWinSize
      <4>1. w.arrived = win.arrived + 1 /\ Len(w.list) = Len(list) - 1
        BY <1>2, <3>1, <3>4
      <4> HIDE DEF w, list, count
      <4> QED
        BY <1>0, <2>1, <4>1
    <3>7. \A i \in DOMAIN w.list : w.list[i] \in w.seen
      <4> HIDE DEF w, list, over, count
      <4> QED
        BY <1>1, <1>4, <3>1, <3>4
    <3> HIDE DEF w, list, over, count
    <3> QED
      BY <1>5, <3>1, <3>4, <3>5, <3>6, <3>7 DEF Counts
  <2>2. CASE ~over
    <3>1. w.list = list /\ w.count = count
      BY <1>2, <2>2
    <3>2. Len(w.list) = w.arrived /\ ~(w.arrived > BigWinSize)
      <4>1. w.arrived = win.arrived + 1 /\ Len(w.list) = Len(list)
        BY <1>2, <3>1
      <4> HIDE DEF w, list, count
      <4> QED
        BY <1>0, <2>2, <4>1
    <3> HIDE DEF w, list, over, count
    <3> QED
      BY <1>1, <1>3, <1>4, <1>5, <3>1, <3>2 DEF Counts
  <2> QED
    BY <2>1, <2>2
<1> QED
  BY <1>2, <1>5, <1>6

\* The window after Add of a pod, with its top pods if they are due.
LEMMA TopsOfWindow ==
  ASSUME NEW w, Counts(w), w.seen # {}, NEW top \in genTopK(w)
  PROVE  /\ DOMAIN top \in (SUBSET Kinds) \ {{}}
         /\ \A k \in DOMAIN top : top[k] \in Nat
         /\ \/ WaterDen * Total(top) >= WaterNum * Min({ w.arrived, BigWinSize })
            \/ Cardinality(DOMAIN top) = SmallWinSize
<1> DEFINE count == Counted(w.count, w.seen)
<1>1. \A k \in Kinds : w.count[k] \in Nat
  BY OccursNat DEF Counts
<1>2. \A k \in Kinds \ w.seen : w.count[k] = 0
  <2> TAKE k \in Kinds \ w.seen
  <2>1. w.list \in Seq(Kinds) /\ { i \in DOMAIN w.list : w.list[i] = k } = {}
    BY DEF Counts
  <2> QED
    BY <2>1, FS_EmptySet DEF Counts, Occurs
<1>3. /\ Total(count) = Total(w.count) /\ DOMAIN count = w.seen
      /\ \A k \in w.seen : count[k] = w.count[k]
  <2>1. DOMAIN w.count = Kinds /\ w.seen \in SUBSET Kinds
    BY DEF Counts
  <2> QED
    BY <1>1, <1>2, <2>1, CountedTotal
<1>4. Total(w.count) = Min({ w.arrived, BigWinSize }) /\ Total(w.count) \in Nat
  <2>1. Total(w.count) = Len(w.list)
    BY OccursAddUp, TotalIsSum DEF Counts
  <2>2. \A a \in Int : Min({a, BigWinSize}) = IF a <= BigWinSize THEN a ELSE BigWinSize
    BY MinOfTwo, Sizes
  <2>3. w.arrived \in Nat /\ Len(w.list) = IF w.arrived > BigWinSize THEN BigWinSize ELSE w.arrived
    BY DEF Counts
  <2> QED
    BY <2>1, <2>2, <2>3, Sizes
<1>5. WaterDen * Total(count) >= WaterNum * Total(w.count)
  <2>1. \A t \in Nat : WaterDen * t >= WaterNum * t
    BY Sizes
  <2> QED
    BY <1>3, <1>4, <2>1
<1>6. /\ IsFiniteSet(DOMAIN count) /\ DOMAIN count # {} /\ DOMAIN count \subseteq Kinds
      /\ \A k \in DOMAIN count : count[k] \in Nat
  <2>1. w.seen \in SUBSET Kinds
    BY DEF Counts
  <2> HIDE DEF count
  <2> QED
    BY <1>1, <1>3, <2>1, KindsAssumption, FS_Subset
<1>7. top \in Tops(count, WaterNum, WaterDen, Total(w.count), SmallWinSize)
  BY DEF genTopK
<1> HIDE DEF count
<1>8. /\ DOMAIN top \in (SUBSET DOMAIN count) \ {{}}
      /\ \A k \in DOMAIN top : top[k] = count[k]
      /\ WaterDen * Total(top) >= WaterNum * Total(w.count) \/ Cardinality(DOMAIN top) = SmallWinSize
  BY <1>4, <1>5, <1>6, <1>7, Sizes, TopsFound
<1> QED
  BY <1>4, <1>6, <1>8

\* Add keeps the window's counts, and its top pods recent (Add, genTopK).
LEMMA AddKeeps ==
  ASSUME Counts(win), Covers(win), NEW k \in Kinds, Add(k)
  PROVE  Counts(win)' /\ Covers(win)'
<1>1. PICK w : /\ w = Shifted(win, k)
               /\ IF Due(w) THEN \E top \in genTopK(w) : win' = [w EXCEPT !.top = top, !.made = w.arrived]
                            ELSE win' = w
  BY DEF Add
<1>2. /\ Counts(w) /\ w.arrived = win.arrived + 1 /\ k \in w.seen
      /\ w.top = win.top /\ w.made = win.made
  BY <1>1, ShiftedCounts
<1>3. win.arrived \in Nat /\ win.made \in Nat /\ win.arrived = win.made + (win.arrived % Stride(win.arrived))
  BY DEF Counts, Covers
<1>4. CASE Due(w)
  <2>1. PICK top \in genTopK(w) : win' = [w EXCEPT !.top = top, !.made = w.arrived]
    BY <1>1, <1>4
  <2>2. DOMAIN w = Fields
    BY <1>2 DEF Counts
  <2>3. /\ DOMAIN win' = Fields /\ win'.list = w.list /\ win'.count = w.count /\ win'.seen = w.seen
        /\ win'.arrived = w.arrived /\ win'.top = top /\ win'.made = w.arrived
    BY <2>1, <2>2 DEF Fields
  <2>4. Counts(win)'
    BY <1>2, <2>3 DEF Counts
  <2>5. /\ DOMAIN top \in (SUBSET Kinds) \ {{}}
        /\ \A j \in DOMAIN top : top[j] \in Nat
        /\ \/ WaterDen * Total(top) >= WaterNum * Min({ w.arrived, BigWinSize })
           \/ Cardinality(DOMAIN top) = SmallWinSize
    BY <1>2, <2>1, TopsOfWindow
  <2>6. w.arrived \in Nat /\ w.arrived # 0 /\ w.arrived = w.arrived + (w.arrived % Stride(w.arrived))
    BY <1>2, <1>3, <1>4 DEF Due
  <2>7. PICK v : v = win'
    OBVIOUS
  <2>8. Covers(v)
    BY <2>3, <2>5, <2>6, <2>7 DEF Covers
  <2>9. Covers(win)'
    BY <2>7, <2>8
  <2> QED
    BY <2>4, <2>9
<1>5. CASE ~Due(w)
  <2>1. win' = w
    BY <1>1, <1>5
  <2>2. w.arrived = w.made + (w.arrived % Stride(w.arrived))
    <3>1. \A a, made \in Nat : a = made + (a % Stride(a)) =>
            ((a + 1) % Stride(a + 1) # 0 => a + 1 = made + ((a + 1) % Stride(a + 1)))
      BY LastDue
    <3> QED
      BY <1>2, <1>3, <1>5, <3>1 DEF Due
  <2>3. Covers(w)
    BY <1>2, <2>2 DEF Covers
  <2> QED
    BY <1>2, <2>1, <2>3
<1> QED
  BY <1>4, <1>5

-----------------------------------------------------------------------------
(* FGDPP's window.                                                         *)

\* The window m with one pod more, before its top pods are made anew.
OneMore(m, k) ==
  LET list == Append(m.list, k)
  IN  [m EXCEPT !.count = @ + 1, !.seen = @ \cup {k}, !.map[k] = @ + 1,
                !.list = IF m.count + 1 > WinSize THEN Tail(list) ELSE list]

\* One pod more: every kind's count stands for the pods ever added (Add).
LEMMA AddedOne ==
  ASSUME Added(np), NEW k \in Kinds, NEW n, n = OneMore(np, k)
  PROVE  /\ Added(n)
         /\ n.count = np.count + 1 /\ k \in n.seen
         /\ n.topK = np.topK /\ n.inCount = np.inCount
         /\ \A j \in Kinds : n.map[j] >= np.map[j]
<1> USE Sizes
<1> DEFINE list == Append(np.list, k)
           over == np.count + 1 > WinSize
<1>1. /\ DOMAIN np = TypicalFields /\ np.list \in Seq(Kinds) /\ np.count \in Nat
      /\ Len(np.list) = IF np.count > WinSize THEN WinSize ELSE np.count
      /\ DOMAIN np.map = Kinds /\ \A j \in Kinds : np.map[j] \in Nat
      /\ np.seen \in SUBSET Kinds /\ Total(np.map) = np.count
      /\ \A j \in Kinds \ np.seen : np.map[j] = 0
  BY DEF Added
<1>2. /\ DOMAIN n = TypicalFields
      /\ n.count = np.count + 1 /\ n.seen = np.seen \cup {k}
      /\ n.map = [np.map EXCEPT ![k] = @ + 1]
      /\ n.list = IF over THEN Tail(list) ELSE list
      /\ n.topK = np.topK /\ n.inCount = np.inCount
  <2>1. \A l : LET r == [np EXCEPT !.count = @ + 1, !.seen = @ \cup {k}, !.map[k] = @ + 1, !.list = l]
               IN  /\ DOMAIN r = TypicalFields
                   /\ r.count = np.count + 1 /\ r.seen = np.seen \cup {k}
                   /\ r.map = [np.map EXCEPT ![k] = @ + 1] /\ r.list = l
                   /\ r.topK = np.topK /\ r.inCount = np.inCount
    BY <1>1 DEF TypicalFields
  <2>2. n = [np EXCEPT !.count = @ + 1, !.seen = @ \cup {k}, !.map[k] = @ + 1,
                       !.list = IF over THEN Tail(list) ELSE list]
    BY DEF OneMore
  <2> HIDE DEF list, over
  <2> QED
    BY <2>1, <2>2
<1>3. /\ list \in Seq(Kinds) /\ list # <<>> /\ Len(list) = Len(np.list) + 1
      /\ Tail(list) \in Seq(Kinds) /\ Len(Tail(list)) = Len(list) - 1
  <2>1. list \in Seq(Kinds) /\ list # <<>> /\ Len(list) = Len(np.list) + 1
    BY <1>1, AppendTail
  <2> HIDE DEF list
  <2> QED
    BY <2>1, AppendTail
<1>4. n.list \in Seq(Kinds) /\ Len(n.list) = IF n.count > WinSize THEN WinSize ELSE n.count
  <2> HIDE DEF list
  <2> QED
    BY <1>1, <1>2, <1>3
<1>5. /\ DOMAIN n.map = Kinds
      /\ \A j \in Kinds : n.map[j] = IF j = k THEN np.map[j] + 1 ELSE np.map[j]
  BY <1>1, <1>2
<1>6. \A j \in Kinds : n.map[j] \in Nat /\ n.map[j] >= np.map[j]
  BY <1>1, <1>5
<1>7. SumOver(n.map, Kinds) = SumOver(np.map, Kinds) + 1
  <2>1. /\ \A x \in Kinds : np.map[x] \in Int /\ x # k => n.map[x] = np.map[x]
        /\ \A x \in Kinds : np.map[x] \in Int
        /\ n.map[k] = np.map[k] + 1
    BY <1>1, <1>5
  <2> QED
    BY <2>1, KindsAssumption, SumGrows
<1>8. Total(n.map) = n.count
  BY <1>1, <1>2, <1>5, <1>7, TotalIsSum
<1>9. \A j \in Kinds \ n.seen : n.map[j] = 0
  BY <1>1, <1>2, <1>5
<1>10. Added(n)
  <2>1. n.count \in Nat /\ n.seen \in SUBSET Kinds
    BY <1>1, <1>2
  <2> HIDE DEF list, over
  <2> QED
    BY <1>2, <1>4, <1>5, <1>6, <1>8, <1>9, <2>1, ZenonT(60) DEF Added
<1> QED
  BY <1>2, <1>6, <1>10

(***************************************************************************)
(* Top pods made of the counts as they are: they are found, and stand for  *)
(* half of the pods unless there are as many of them as the window is long *)
(* (remakeTopK).                                                           *)
(***************************************************************************)
LEMMA Remade ==
  ASSUME NEW n, Added(n), n.seen # {}, NEW m \in remakeTopK(n)
  PROVE  Added(m) /\ TopKOf(m)
<1> USE Sizes
<1> DEFINE count == Counted(n.map, n.seen)
           half  == n.count \div 2
<1>1. /\ DOMAIN n = TypicalFields /\ n.count \in Nat /\ n.seen \in SUBSET Kinds
      /\ DOMAIN n.map = Kinds /\ \A j \in Kinds : n.map[j] \in Nat
      /\ Total(n.map) = n.count /\ \A j \in Kinds \ n.seen : n.map[j] = 0
  BY DEF Added
<1>2. PICK top \in Tops(count, 1, 1, half, WinSize) :
             m = [n EXCEPT !.inCount = n.count, !.topK = top]
  BY DEF remakeTopK
<1>3. /\ DOMAIN m = TypicalFields /\ m.list = n.list /\ m.map = n.map /\ m.seen = n.seen
      /\ m.count = n.count /\ m.topK = top /\ m.inCount = n.count
  BY <1>1, <1>2 DEF TypicalFields
<1>4. /\ Total(count) = n.count /\ DOMAIN count = n.seen
      /\ \A j \in n.seen : count[j] = n.map[j] /\ count[j] \in Nat
  BY <1>1, CountedTotal
<1>5. half \in Nat /\ n.count >= half
  BY <1>1
<1>6. IsFiniteSet(n.seen)
  BY <1>1, KindsAssumption, FS_Subset
<1>7. /\ DOMAIN top \in (SUBSET n.seen) \ {{}}
      /\ \A j \in DOMAIN top : top[j] = count[j]
      /\ 1 * Total(top) >= 1 * half \/ Cardinality(DOMAIN top) = WinSize
  <2>1. \A a, b \in Nat : a * Total(count) >= b * half =>
          \A t \in Tops(count, b, a, half, WinSize) :
            /\ DOMAIN t \in (SUBSET n.seen) \ {{}}
            /\ \A j \in DOMAIN t : t[j] = count[j]
            /\ a * Total(t) >= b * half \/ Cardinality(DOMAIN t) = WinSize
    <3>1. /\ IsFiniteSet(DOMAIN count) /\ DOMAIN count # {} /\ half \in Nat /\ WinSize \in Nat \ {0}
          /\ \A j \in DOMAIN count : count[j] \in Nat
      BY <1>4, <1>5, <1>6
    <3>2. \A a, b \in Nat : a * Total(count) >= b * half =>
            \A t \in Tops(count, b, a, half, WinSize) :
              /\ DOMAIN t \in (SUBSET DOMAIN count) \ {{}}
              /\ \A j \in DOMAIN t : t[j] = count[j]
              /\ a * Total(t) >= b * half \/ Cardinality(DOMAIN t) = WinSize
      <4> HIDE DEF count, half
      <4> QED
        BY <3>1, TopsFound
    <3>3. DOMAIN count = n.seen
      BY <1>4
    <3> HIDE DEF count, half
    <3> QED
      BY <3>2, <3>3
  <2>2. 1 * Total(count) >= 1 * half
    <3> HIDE DEF count, half
    <3> QED
      BY <1>1, <1>4, <1>5
  <2> HIDE DEF count, half
  <2> QED
    BY <1>2, <2>1, <2>2
<1>8. \A j \in DOMAIN top : top[j] \in Nat /\ top[j] = n.map[j] /\ j \in Kinds
  <2> HIDE DEF count
  <2> QED
    BY <1>1, <1>4, <1>7
<1>9. Total(top) \in Nat /\ Total(top) <= n.count
  <2>1. DOMAIN top \in SUBSET Kinds /\ IsFiniteSet(DOMAIN top)
    BY <1>1, <1>6, <1>7, FS_Subset
  <2>2. SumOver(top, DOMAIN top) = SumOver(n.map, DOMAIN top)
    BY <1>8, <2>1, SumSame
  <2>3. SumOver(n.map, DOMAIN top) <= SumOver(n.map, Kinds) /\ SumOver(n.map, DOMAIN top) \in Nat
    BY <1>1, <2>1, KindsAssumption, SumNat
  <2> QED
    BY <1>1, <2>2, <2>3, TotalIsSum
<1>10. Added(m)
  BY <1>3 DEF Added
<1>11. Total(top) >= half \/ Cardinality(DOMAIN top) = WinSize
  <2> HIDE DEF half
  <2> QED
    BY <1>5, <1>7, <1>9
<1>12. TopKOf(m)
  <2>1. m.inCount \in Nat /\ m.inCount <= m.count /\ m.count - m.inCount <= WinSize
    BY <1>1, <1>3
  <2>2. DOMAIN m.topK \in SUBSET Kinds
    BY <1>1, <1>3, <1>7
  <2>3. \A j \in DOMAIN m.topK : m.topK[j] \in Nat /\ m.topK[j] <= m.map[j]
    BY <1>3, <1>8
  <2>4. Total(m.topK) <= m.inCount
    BY <1>3, <1>9
  <2>5. Total(m.topK) >= m.inCount \div 2 \/ Cardinality(DOMAIN m.topK) = WinSize
    BY <1>3, <1>11
  <2> QED
    BY <2>1, <2>2, <2>3, <2>4, <2>5 DEF TopKOf
<1> QED
  BY <1>10, <1>12

\* The pod FGDPP adds keeps the counts, and the top pods recent (Add).
LEMMA TypicalAddKeeps ==
  ASSUME Added(np), TopKOf(np), NEW k \in Kinds, TypicalAdd(k)
  PROVE  Added(np)' /\ TopKOf(np)'
<1> DEFINE late(n) == n.count > 5 * WinSize /\ n.count - WinSize > n.inCount
<1>1. PICK n : /\ n = OneMore(np, k)
               /\ IF late(n) THEN np' \in remakeTopK(n) ELSE np' = n
  BY DEF TypicalAdd, OneMore
<1>2. /\ Added(n) /\ n.count = np.count + 1 /\ k \in n.seen
      /\ n.topK = np.topK /\ n.inCount = np.inCount
      /\ \A j \in Kinds : n.map[j] >= np.map[j]
  BY <1>1, AddedOne
<1>3. PICK v : v = np'
  OBVIOUS
<1>4. Added(v) /\ TopKOf(v)
  <2>1. CASE late(n)
    <3>1. v \in remakeTopK(n)
      BY <1>1, <1>3, <2>1
    <3> QED
      BY <1>2, <3>1, Remade
  <2>2. CASE ~late(n)
    <3>1. v = n
      BY <1>1, <1>3, <2>2
    <3>2. \A j \in Kinds : n.map[j] \in Nat /\ np.map[j] \in Nat
      BY <1>2 DEF Added
    <3>3. n.count \in Nat /\ np.count \in Nat
      BY <1>2 DEF Added
    <3>4. /\ n.inCount \in Nat /\ n.inCount <= n.count
          /\ n.count > 5 * WinSize => n.count - n.inCount <= WinSize
      BY <1>2, <2>2, <3>3, Sizes DEF TopKOf
    <3>5. \A j \in DOMAIN n.topK : n.topK[j] \in Nat /\ n.topK[j] <= n.map[j]
      BY <1>2, <3>2 DEF TopKOf
    <3>6. TopKOf(n)
      BY <1>2, <3>4, <3>5 DEF TopKOf
    <3> QED
      BY <1>2, <3>1, <3>6
  <2> QED
    BY <2>1, <2>2
<1> QED
  BY <1>3, <1>4

-----------------------------------------------------------------------------
(* No index is out of range.                                               *)

\* An index out of range is neither no top pods nor the counts of some.
LEMMA NoPanic ==
  /\ Panic # <<>>
  /\ \A top : (\A k \in DOMAIN top : top[k] \in Nat) => top # Panic
<1>1. PICK k \in Kinds : TRUE
  BY KindsAssumption
<1>2. DOMAIN Panic = Kinds /\ Panic[k] = -1
  BY DEF Panic
<1>3. Panic # <<>>
  BY <1>1, <1>2
<1> QED
  BY <1>1, <1>2, <1>3

\* The latest pods that the weights look at (GetNearList, GetPM2).
LEMMA NearList ==
  ASSUME Counts(win), IsReady, NEW near,
         \/ near = SubSeq(GetNearList, SmallWinSize - Recent + 1, SmallWinSize)
         \/ near = GetNearList
  PROVE  near \in Seq(Kinds) /\ Len(near) > 0
<1> USE Sizes
<1>1. win.list \in Seq(Kinds) /\ Len(win.list) >= SmallWinSize
  BY DEF Counts, IsReady
<1> DEFINE l == Len(win.list)
           a == l - SmallWinSize + 1
           g == GetNearList
<1>2. l \in Nat /\ a \in Int /\ a >= 1 /\ \A i \in a .. l : win.list[i] \in Kinds
  BY <1>1
<1>3. g = SubSeq(win.list, a, l)
  BY DEF GetNearList
<1>4. g \in Seq(Kinds) /\ Len(g) = IF a <= l THEN l - a + 1 ELSE 0
  <2> HIDE DEF a, l, g
  <2> QED
    BY <1>2, <1>3, SubSeqProperties
<1>5. Len(g) = SmallWinSize
  <2>1. a <= l /\ l - a + 1 = SmallWinSize
    BY <1>2
  <2> HIDE DEF a, l, g
  <2> QED
    BY <1>4, <2>1
<1>6. CASE near = g
  <2> HIDE DEF g
  <2> QED
    BY <1>4, <1>5, <1>6
<1>7. CASE near = SubSeq(g, SmallWinSize - Recent + 1, SmallWinSize)
  <2> DEFINE b == SmallWinSize - Recent + 1
  <2>1. b \in Int /\ b >= 1 /\ b <= SmallWinSize
    OBVIOUS
  <2>2. \A i \in b .. SmallWinSize : g[i] \in Kinds
    <3> HIDE DEF g, b
    <3> QED
      BY <1>4, <1>5, <2>1
  <2>3. /\ SubSeq(g, b, SmallWinSize) \in Seq(Kinds)
        /\ Len(SubSeq(g, b, SmallWinSize)) = IF b <= SmallWinSize THEN SmallWinSize - b + 1 ELSE 0
    <3> HIDE DEF g, b
    <3> QED
      BY <2>1, <2>2, SubSeqProperties
  <2> HIDE DEF g
  <2> QED
    BY <1>7, <2>3
<1> QED
  BY <1>6, <1>7

\* The weight of the long window, in halves (getTimeWeight).
LEMMA TimeWeights ==
  ASSUME NEW t \in PlanTimes
  PROVE  getTimeWeight(t) \in 0 .. 3
<1>1. t < 500 \/ t > 500000 \/ \E h \in 0 .. 3 : t = 500 * 10^h
  BY PlansAssumption, SMT
<1>2. 0 \in 0 .. 3 /\ 2 \in 0 .. 3
  OBVIOUS
<1>3. CASE t < 500
  BY <1>2, <1>3, SMT DEF getTimeWeight
<1>4. CASE ~(t < 500) /\ t > 500000
  BY <1>2, <1>4, SMT DEF getTimeWeight
<1>5. CASE ~(t < 500) /\ ~(t > 500000)
  <2>1. \E h \in 0 .. 3 : t = 500 * 10^h
    BY <1>1, <1>5, SMT
  <2>2. (CHOOSE h \in 0 .. 3 : t = 500 * 10^h) \in 0 .. 3
    BY <2>1, Zenon
  <2> QED
    BY <1>5, <2>2, SMT DEF getTimeWeight
<1> QED
  BY <1>3, <1>4, <1>5, SMT

\* Products of natural numbers are natural numbers.
LEMMA Product == \A a, b \in Nat : a * b \in Nat
OBVIOUS

\* The factors of a product may be grouped.
LEMMA Grouped == \A a, b, c, d \in Int : /\ d * a * b * c = d * a * (b * c)
                                         /\ (d * b) * c = d * (b * c)
                                         /\ b * (d * c) = (d * b) * c
                                         /\ b * a * c = a * (b * c)
OBVIOUS

\* A ready window has top pods, made not longer ago than they may (Add).
LEMMA ReadyMade ==
  ASSUME Counts(win), Covers(win), IsReady
  PROVE  win.made > 0 /\ win.arrived - win.made < Stride(win.arrived)
<1> USE Sizes
<1> DEFINE a == win.arrived
           s == Stride(a)
<1>1. /\ a \in Nat /\ win.made \in Nat /\ a = win.made + (a % s)
      /\ Len(win.list) = (IF a > BigWinSize THEN BigWinSize ELSE a)
      /\ Len(win.list) >= SmallWinSize
  BY DEF Counts, Covers, IsReady
<1>2. s = (IF a > BigWinSize THEN BigWinSize ELSE SmallWinSize) /\ s \in Nat \ {0}
  BY DEF Stride
<1>3. (a % s) \in 0 .. s - 1
  <2> HIDE DEF a, s
  <2> QED
    BY <1>1, <1>2, ModNext
<1>4. a >= s
  <2> HIDE DEF a, s
  <2> QED
    BY <1>1, <1>2
<1>5. win.made > 0 /\ a - win.made < s
  <2> HIDE DEF a, s
  <2> QED
    BY <1>1, <1>2, <1>3, <1>4
<1> QED
  BY <1>5

(***************************************************************************)
(* The weights of a ready window are not an index out of range: not all    *)
(* kinds can weigh -1, for with the weights of the top pods, which are the *)
(* greater part, they add up to no less than nothing (GetPM2).             *)
(***************************************************************************)
LEMMA WeightsFound ==
  ASSUME Counts(win), Covers(win), IsReady, NEW t \in PlanTimes
  PROVE  Weights(t) # Panic
<1> DEFINE near == IF t < 500 THEN SubSeq(GetNearList, SmallWinSize - Recent + 1, SmallWinSize)
                   ELSE GetNearList
           w       == getTimeWeight(t)
           Top(k)  == IF k \in DOMAIN win.top THEN win.top[k] ELSE 0
           Near(k) == 3 * Occurs(near, k) - (IF near[1] = k THEN 2 ELSE 0)
           T       == Total(win.top)
           l       == Len(near)
<1>1. near \in Seq(Kinds) /\ l \in Nat \ {0}
  <2>1. near \in Seq(Kinds) /\ Len(near) > 0
    <3>1. near = SubSeq(GetNearList, SmallWinSize - Recent + 1, SmallWinSize) \/ near = GetNearList
      OBVIOUS
    <3> HIDE DEF near
    <3> QED
      BY <3>1, NearList
  <2> HIDE DEF near
  <2> QED
    BY <2>1
<1>2. w \in 0 .. 3
  BY TimeWeights
<1>3. /\ DOMAIN win.top \in SUBSET Kinds /\ \A k \in DOMAIN win.top : win.top[k] \in Nat
      /\ T \in Nat /\ SumOver([k \in Kinds |-> Top(k)], Kinds) = T
  <2>1. DOMAIN win.top \in SUBSET Kinds /\ \A k \in DOMAIN win.top : win.top[k] \in Nat
    BY ReadyMade DEF Covers
  <2>2. IsFiniteSet(DOMAIN win.top)
    BY <2>1, KindsAssumption, FS_Subset
  <2>3. SumOver(win.top, DOMAIN win.top) \in Nat
    BY <2>1, <2>2, SumNat
  <2>4. SumOver([k \in Kinds |-> Top(k)], Kinds) = SumOver(win.top, DOMAIN win.top)
    <3> DEFINE g == [k \in Kinds |-> Top(k)]
    <3>1. /\ \A k \in DOMAIN win.top : win.top[k] \in Int /\ g[k] = win.top[k]
          /\ \A k \in Kinds \ DOMAIN win.top : g[k] = 0
      BY <2>1
    <3> HIDE DEF g
    <3>2. SumOver(g, Kinds) = SumOver(win.top, DOMAIN win.top)
      BY <2>1, <3>1, KindsAssumption, SumFilter
    <3> QED
      BY <3>2 DEF g
  <2> QED
    BY <2>1, <2>3, <2>4, TotalIsSum
<1>4. \A k \in Kinds : /\ Top(k) \in Nat /\ Occurs(near, k) \in Nat
                       /\ Near(k) \in Nat /\ Near(k) <= 3 * Occurs(near, k)
  <2> TAKE k \in Kinds
  <2>1. Occurs(near, k) \in Nat /\ ((\E i \in DOMAIN near : near[i] = k) => Occurs(near, k) > 0)
    <3> HIDE DEF near
    <3> QED
      BY <1>1, OccursNat
  <2>2. 1 \in DOMAIN near
    <3> HIDE DEF near
    <3> QED
      BY <1>1 DEF l
  <2>3. Top(k) \in Nat
    BY <1>3
  <2> HIDE DEF near, Top
  <2> QED
    BY <2>1, <2>2, <2>3
<1> SUFFICES ASSUME Weights(t) = Panic PROVE FALSE
  OBVIOUS
<1>5. \A k \in Kinds : 2 * w * l * Top(k) + T * (2 - w) * Near(k) = -1
  <2>1. Weights(t) = [k \in DOMAIN win.top \cup Range(near) |-> 2 * w * l * Top(k) + T * (2 - w) * Near(k)]
    BY DEF Weights
  <2>2. DOMAIN Weights(t) = Kinds /\ \A k \in Kinds : Weights(t)[k] = -1
    BY DEF Panic
  <2> HIDE DEF near, w, Top, Near, T, l
  <2> QED
    BY <2>1, <2>2
<1> HIDE DEF near, w, Top, Near, T, l
<1>6. PICK p \in Kinds : TRUE
  BY KindsAssumption
<1>7. l * Top(p) \in Nat /\ T * Near(p) \in Nat
  BY <1>1, <1>3, <1>4, Product
<1>8. CASE w \in 0 .. 2
  <2>1. 2 * w * l * Top(p) = 2 * w * (l * Top(p)) /\ T * (2 - w) * Near(p) = (2 - w) * (T * Near(p))
    <3>1. {2, w, 2 - w, l, T, Top(p), Near(p)} \subseteq Int
      BY <1>1, <1>3, <1>4, <1>8
    <3> QED
      BY <3>1, Grouped
  <2>2. 2 * w * (l * Top(p)) + (2 - w) * (T * Near(p)) = -1
    BY <1>5, <2>1
  <2> DEFINE a == l * Top(p)
             b == T * Near(p)
  <2> HIDE DEF a, b
  <2>3. a \in Nat /\ b \in Nat /\ 2 * w * a + (2 - w) * b = -1
    BY <1>7, <2>2 DEF a, b
  <2>4. w = 0 \/ w = 1 \/ w = 2
    BY <1>8
  <2> QED
    BY <2>3, <2>4
<1>9. CASE w = 3
  <2> DEFINE f == [k \in Kinds |-> (6 * l) * Top(k)]
             g == [k \in Kinds |-> (3 * T) * Occurs(near, k)]
             tops == [k \in Kinds |-> Top(k)]
             occ == [k \in Kinds |-> Occurs(near, k)]
  <2>1. \A k \in Kinds : f[k] \in Int /\ g[k] \in Int /\ f[k] <= g[k]
    <3> TAKE k \in Kinds
    <3>1. 6 * l * Top(k) - T * Near(k) = -1
      BY <1>1, <1>3, <1>4, <1>5, <1>9
    <3>2. T * Near(k) <= T * (3 * Occurs(near, k))
      <4>1. \A a, b, c \in Nat : b <= c => a * b <= a * c
        OBVIOUS
      <4>2. 3 * Occurs(near, k) \in Nat
        BY <1>4
      <4> QED
        BY <1>3, <1>4, <4>1, <4>2
    <3>3. {6, 3, l, T, Top(k), Near(k), Occurs(near, k)} \subseteq Int
      BY <1>1, <1>3, <1>4
    <3>4. (6 * l) * Top(k) <= T * Near(k)
      BY <3>1, <3>3
    <3>5. T * (3 * Occurs(near, k)) = (3 * T) * Occurs(near, k)
      BY <3>3, Grouped
    <3> QED
      BY <3>2, <3>3, <3>4, <3>5
  <2>2. T # 0
    <3>1. 6 * l * Top(p) - T * Near(p) = -1
      BY <1>1, <1>3, <1>4, <1>5, <1>9
    <3>2. T = 0 => T * Near(p) = 0
      BY <1>3, <1>4
    <3>3. 6 * l * Top(p) = 6 * (l * Top(p))
      BY <1>1, <1>4
    <3> QED
      BY <1>7, <3>1, <3>2, <3>3
  <2>3. SumOver(f, Kinds) <= SumOver(g, Kinds)
    <3> HIDE DEF f, g
    <3> QED
      BY <2>1, KindsAssumption, SumMonotone
  <2>4. SumOver(f, Kinds) = (6 * l) * T
    <3>1. \A k \in Kinds : tops[k] \in Int /\ f[k] = (6 * l) * tops[k]
      BY <1>4
    <3>2. 6 * l \in Int /\ SumOver(tops, Kinds) = T
      BY <1>1, <1>3
    <3> DEFINE c == 6 * l
    <3>3. c \in Int /\ \A k \in Kinds : tops[k] \in Int /\ f[k] = c * tops[k]
      BY <3>1, <3>2
    <3> HIDE DEF f, tops, c
    <3>4. SumOver(f, Kinds) = c * SumOver(tops, Kinds)
      BY <3>3, KindsAssumption, SumTimes
    <3> QED
      BY <3>2, <3>4 DEF c
  <2>5. SumOver(g, Kinds) = (3 * T) * l
    <3>1. SumOver(occ, Kinds) = l
      <4>1. \A k \in Kinds : occ[k] = Occurs(near, k)
        OBVIOUS
      <4> HIDE DEF occ
      <4> QED
        BY <1>1, <4>1, OccursAddUp DEF l
    <3> DEFINE c == 3 * T
    <3>2. c \in Int /\ \A k \in Kinds : occ[k] \in Int /\ g[k] = c * occ[k]
      BY <1>3, <1>4
    <3> HIDE DEF g, occ, c
    <3>3. SumOver(g, Kinds) = c * SumOver(occ, Kinds)
      BY <3>2, KindsAssumption, SumTimes
    <3> QED
      BY <3>1, <3>3 DEF c
  <2>6. l * T \in Nat /\ l * T > 0
    BY <1>1, <1>3, <2>2
  <2>7. (6 * l) * T = 6 * (l * T) /\ (3 * T) * l = 3 * (l * T)
    BY <1>1, <1>3
  <2> HIDE DEF f, g
  <2> QED
    BY <2>3, <2>4, <2>5, <2>6, <2>7
<1> QED
  BY <1>2, <1>8, <1>9

-----------------------------------------------------------------------------
(* The weights of FGDPP.                                                   *)

\* The recency weights of a window of l pods, in units of one part in l.
Recency(l) == [i \in 1 .. l |-> l + 2 * (i - 1)]

\* They add up to l * (2 * l - 1): the first and the last make 4 * l - 2
\* together, and so do the second and the last but one.
LEMMA RecencySum ==
  ASSUME NEW l \in Nat
  PROVE  SumOver(Recency(l), 1 .. l) \in Nat /\ 2 * SumOver(Recency(l), 1 .. l) = (4 * l - 2) * l
<1> DEFINE S == 1 .. l
           g == Recency(l)
           r == [i \in S |-> g[l + 1 - i]]
           b == [i \in S |-> l + 1 - i]
           h == [i \in S |-> 4 * l - 2]
<1>1. IsFiniteSet(S) /\ Cardinality(S) = l
  <2>1. IsFiniteSet(1 .. l) /\ Cardinality(1 .. l) = IF 1 > l THEN 0 ELSE l - 1 + 1
    BY FS_Interval
  <2> QED
    BY <2>1
<1>2. \A i \in S : g[i] = l + 2 * (i - 1) /\ g[i] \in Nat
  BY DEF Recency
<1>3. /\ b \in [S -> S] /\ \A x, y \in S : b[x] = b[y] => x = y
      /\ \A i \in S : r[i] = g[b[i]] /\ g[i] = r[b[i]] /\ r[i] \in Nat
  BY <1>2
<1>4. \A i \in S : h[i] = g[i] + r[i] /\ h[i] = 4 * l - 2 /\ 4 * l - 2 \in Int
  BY <1>2, <1>3
<1> HIDE DEF S, g, r, b, h
<1>5. SumOver(r, S) = SumOver(g, S) /\ SumOver(g, S) \in Nat
  <2>1. SumOver(r, S) <= SumOver(g, S)
    BY <1>1, <1>2, <1>3, SumInjection
  <2>2. SumOver(g, S) <= SumOver(r, S)
    BY <1>1, <1>2, <1>3, SumInjection
  <2>3. SumOver(r, S) \in Nat /\ SumOver(g, S) \in Nat
    BY <1>1, <1>2, <1>3, SumNat
  <2> QED
    BY <2>1, <2>2, <2>3
<1>6. SumOver(h, S) = SumOver(g, S) + SumOver(r, S)
  BY <1>1, <1>2, <1>3, <1>4, SumPlus
<1>7. SumOver(h, S) = (4 * l - 2) * l
  <2> DEFINE c == 4 * l - 2
  <2>1. c \in Int /\ \A i \in S : h[i] = c
    BY <1>4
  <2> HIDE DEF c
  <2>2. SumOver(h, S) = c * Cardinality(S)
    BY <1>1, <2>1, SumConstant
  <2> QED
    BY <1>1, <2>2 DEF c
<1> QED
  BY <1>5, <1>6, <1>7 DEF S, g

(***************************************************************************)
(* The weights of FGDPP never sum to more than one: 0.7 for the top pods   *)
(* and 0.3 for the window when there are both, and 1 for the window when   *)
(* there is only that; the recency weights are a little less               *)
(* (PreNodeGpuShareFragAmountPP).                                          *)
(***************************************************************************)
LEMMA PreWeightsBounded ==
  ASSUME Added(np), TopKOf(np)
  PROVE  Total(PreWeights) <= 20 * Len(np.list) * Len(np.list) * Max({ np.inCount, 1 })
<1> DEFINE l       == Len(np.list)
           S       == 1 .. l
           D       == DOMAIN np.topK \cup Range(np.list)
           c       == np.inCount
           near(k) == Total([i \in { j \in 1 .. l : np.list[j] = k } |-> l + 2 * (i - 1)])
           topK(k) == IF k \in DOMAIN np.topK THEN np.topK[k] ELSE 0
           nears   == [k \in D |-> near(k)]
           tops    == [k \in D |-> topK(k)]
           N       == SumOver(nears, D)
           T       == SumOver(tops, D)
<1>1. /\ np.list \in Seq(Kinds) /\ l \in Nat /\ DOMAIN np.list = S
      /\ \A i \in S : np.list[i] \in D
      /\ c \in Nat /\ DOMAIN np.topK \in SUBSET Kinds
      /\ \A k \in DOMAIN np.topK : np.topK[k] \in Nat
      /\ Total(np.topK) <= c
  <2>1. np.list \in Seq(Kinds)
    BY DEF Added
  <2>2. l \in Nat /\ DOMAIN np.list = S
    BY <2>1
  <2>3. \A i \in S : np.list[i] \in D
    BY <2>2 DEF Range
  <2> QED
    BY <2>1, <2>2, <2>3 DEF TopKOf
<1>2. D \in SUBSET Kinds /\ IsFiniteSet(D)
  <2>1. Range(np.list) \in SUBSET Kinds
    BY <1>1 DEF Range
  <2>2. D \in SUBSET Kinds
    BY <1>1, <2>1
  <2> HIDE DEF D
  <2> QED
    BY <2>2, KindsAssumption, FS_Subset
<1>3. IsFiniteSet(S)
  <2>1. \A n \in Nat : IsFiniteSet(1 .. n)
    BY FS_Interval
  <2> QED
    BY <1>1, <2>1
<1>4. \A i \in S : Recency(l)[i] = l + 2 * (i - 1) /\ Recency(l)[i] \in Nat
  <2>1. \A n \in Nat : \A i \in 1 .. n : Recency(n)[i] = n + 2 * (i - 1) /\ Recency(n)[i] \in Nat
    BY DEF Recency
  <2> HIDE DEF l
  <2> QED
    BY <1>1, <2>1
<1>5. \A k \in D : nears[k] = SumOver(Recency(l), Fiber(np.list, S, k)) /\ nears[k] \in Nat
  <2> TAKE k \in D
  <2> DEFINE F == Fiber(np.list, S, k)
             u == [i \in F |-> l + 2 * (i - 1)]
  <2>1. F = { j \in 1 .. l : np.list[j] = k } /\ F \in SUBSET S
    BY DEF Fiber
  <2>2. near(k) = Total(u)
    BY <2>1
  <2>3. DOMAIN u = F /\ \A i \in F : Recency(l)[i] = u[i] /\ u[i] \in Nat
    BY <1>4, <2>1
  <2>4. IsFiniteSet(F)
    <3> HIDE DEF F, S
    <3> QED
      BY <1>3, <2>1, FS_Subset
  <2>5. nears[k] = near(k)
    OBVIOUS
  <2> HIDE DEF F, u, near, nears, S, D, l
  <2>6. SumOver(Recency(l), F) = SumOver(u, F) /\ SumOver(u, F) \in Nat
    <3>1. \A i \in F : Recency(l)[i] = u[i] /\ Recency(l)[i] \in Int /\ u[i] \in Nat
      BY <2>3
    <3> QED
      BY <2>4, <3>1, SumSame, SumNat
  <2>7. Total(u) = SumOver(u, F)
    BY <2>3, TotalIsSum
  <2> QED
    BY <2>2, <2>5, <2>6, <2>7 DEF F
<1>6. N \in Nat /\ 2 * N = (4 * l - 2) * l
  <2>1. SumOver(nears, D) = SumOver(Recency(l), S)
    <3> HIDE DEF nears, D, S, l
    <3>1. \A i \in S : np.list[i] \in D /\ Recency(l)[i] \in Int
      BY <1>1, <1>4
    <3> QED
      BY <1>2, <1>3, <1>5, <3>1, SumFibers
  <2>2. \A n \in Nat : SumOver(Recency(n), 1 .. n) \in Nat /\ 2 * SumOver(Recency(n), 1 .. n) = (4 * n - 2) * n
    BY RecencySum
  <2>3. SumOver(Recency(l), S) \in Nat /\ 2 * SumOver(Recency(l), S) = (4 * l - 2) * l
    <3> HIDE DEF l
    <3> QED
      BY <1>1, <2>2
  <2> HIDE DEF nears, D, S, l
  <2> QED
    BY <2>1, <2>3
<1>7. T \in Nat /\ T <= c
  <2>1. \A k \in D : tops[k] \in Nat
    BY <1>1
  <2>2. /\ DOMAIN np.topK \in SUBSET D
        /\ \A k \in DOMAIN np.topK : np.topK[k] \in Int /\ tops[k] = np.topK[k]
        /\ \A k \in D \ DOMAIN np.topK : tops[k] = 0
    BY <1>1
  <2> HIDE DEF tops, D, c
  <2>3. SumOver(tops, D) = SumOver(np.topK, DOMAIN np.topK)
    BY <1>2, <2>2, SumFilter
  <2>4. SumOver(tops, D) \in Nat
    BY <1>2, <2>1, SumNat
  <2> QED
    BY <1>1, <2>3, <2>4, TotalIsSum
<1>8. \A k \in D : nears[k] \in Int /\ tops[k] \in Int
  <2>1. \A k \in D : tops[k] \in Nat
    BY <1>1
  <2> HIDE DEF nears, tops, D
  <2> QED
    BY <1>5, <2>1
<1>9. /\ DOMAIN PreWeights = D
      /\ \A k \in D : PreWeights[k] = IF c = 0 THEN 10 * nears[k]
                                      ELSE 14 * l * l * tops[k] + 3 * c * nears[k]
  <2>1. PreWeights = [k \in D |-> IF c = 0 THEN 10 * near(k) ELSE 14 * l * l * topK(k) + 3 * c * near(k)]
    BY DEF PreWeights
  <2>2. \A k \in D : nears[k] = near(k) /\ tops[k] = topK(k)
    OBVIOUS
  <2> HIDE DEF near, topK, nears, tops, D, c, l
  <2> QED
    BY <2>1, <2>2
<1>10. Total(PreWeights) = SumOver(PreWeights, D)
  BY <1>9, TotalIsSum
<1>11. Max({ c, 1 }) = IF c = 0 THEN 1 ELSE c
  BY <1>1, MaxWithOne
<1> HIDE DEF l, S, D, c, near, topK, nears, tops
<1>12. \A a \in Int : \A f : (\A k \in D : f[k] = a * nears[k]) => SumOver(f, D) = a * N
  BY <1>2, <1>8, SumTimes
<1>13. \A a \in Int : \A f : (\A k \in D : f[k] = a * tops[k]) => SumOver(f, D) = a * T
  BY <1>2, <1>8, SumTimes
<1> HIDE DEF N, T
<1>14. CASE c = 0
  <2>1. SumOver(PreWeights, D) = 10 * N
    <3>1. \A k \in D : PreWeights[k] = 10 * nears[k]
      BY <1>9, <1>14
    <3> QED
      BY <1>12, <3>1
  <2>2. 10 * N <= 20 * l * l
    BY <1>1, <1>6
  <2>3. 20 * l * l * 1 = 20 * l * l
    BY <1>1
  <2> QED
    BY <1>10, <1>11, <1>14, <2>1, <2>2, <2>3 DEF l, c
<1>15. CASE c # 0
  <2> DEFINE a == 14 * l * l
             b == 3 * c
             f == [k \in D |-> a * tops[k]]
             g == [k \in D |-> b * nears[k]]
  <2>1. a \in Int /\ b \in Int
    BY <1>1
  <2>2. \A k \in D : f[k] \in Int /\ g[k] \in Int /\ PreWeights[k] = f[k] + g[k]
    <3>1. \A k \in D : PreWeights[k] = a * tops[k] + b * nears[k]
      BY <1>9, <1>15
    <3> HIDE DEF a, b
    <3> QED
      BY <1>8, <2>1, <3>1
  <2>3. SumOver(f, D) = a * T /\ SumOver(g, D) = b * N
    <3>1. (\A k \in D : f[k] = a * tops[k]) /\ (\A k \in D : g[k] = b * nears[k])
      OBVIOUS
    <3> HIDE DEF a, b, f, g
    <3> QED
      BY <1>12, <1>13, <2>1, <3>1
  <2>4. SumOver(PreWeights, D) = SumOver(f, D) + SumOver(g, D)
    <3> HIDE DEF a, b, f, g
    <3> QED
      BY <1>2, <2>2, SumPlus
  <2>5. a * T <= a * c
    <3>1. a \in Nat /\ T \in Nat /\ c \in Nat /\ T <= c
      BY <1>1, <1>7
    <3> HIDE DEF a
    <3>2. \A x, y, z \in Nat : y <= z => x * y <= x * z
      OBVIOUS
    <3> QED
      BY <3>1, <3>2
  <2>6. b * N <= b * (2 * l * l)
    <3>1. b \in Nat /\ N \in Nat /\ 2 * l * l \in Nat /\ N <= 2 * l * l
      BY <1>1, <1>6
    <3> HIDE DEF b
    <3>2. \A x, y, z \in Nat : y <= z => x * y <= x * z
      OBVIOUS
    <3> QED
      BY <3>1, <3>2
  <2>7. a * c + b * (2 * l * l) = 20 * l * l * c
    BY <1>1
  <2>8. {a * T, b * N, a * c, b * (2 * l * l)} \subseteq Int
    BY <1>1, <1>6, <1>7
  <2> HIDE DEF a, b
  <2>9. SumOver(PreWeights, D) <= 20 * l * l * c
    BY <2>3, <2>4, <2>5, <2>6, <2>7, <2>8
  <2> QED
    BY <1>10, <1>11, <1>15, <2>9 DEF l, c
<1> QED
  BY <1>14, <1>15

-----------------------------------------------------------------------------
(* The invariant.                                                          *)

\* Nothing has been counted and no top pods have been made yet.
LEMMA WindowInit == Init => WindowInv
<1> SUFFICES ASSUME Init PROVE WindowInv
  OBVIOUS
<1> USE Sizes
<1>1. /\ DOMAIN win = Fields /\ win.list = <<>> /\ win.count = Zero /\ win.seen = {}
      /\ win.arrived = 0 /\ win.top = <<>> /\ win.made = 0
  BY DEF Init, Fields
<1>2. /\ DOMAIN np = TypicalFields /\ np.list = <<>> /\ np.map = Zero /\ np.seen = {}
      /\ np.count = 0 /\ np.topK = <<>> /\ np.inCount = 0
  BY DEF Init, TypicalFields
<1>3. /\ <<>> \in Seq(Kinds) /\ Len(<<>>) = 0 /\ DOMAIN <<>> = {}
      /\ DOMAIN Zero = Kinds /\ \A k \in Kinds : Zero[k] = 0
  BY DEF Zero
<1>4. \A k \in Kinds : Occurs(<<>>, k) = 0
  <2>1. \A k : { i \in DOMAIN <<>> : <<>>[i] = k } = {}
    BY <1>3
  <2> QED
    BY <2>1, FS_EmptySet DEF Occurs
<1>5. Total(Zero) = 0 /\ Total(<<>>) = 0
  <2>1. \A c \in Int : (\A k \in Kinds : Zero[k] = c) => SumOver(Zero, Kinds) = c * Cardinality(Kinds)
    BY KindsAssumption, SumConstant
  <2>2. Cardinality(Kinds) \in Nat
    BY KindsAssumption, FS_CardinalityType
  <2>3. SumOver(Zero, Kinds) = 0
    <3>1. SumOver(Zero, Kinds) = 0 * Cardinality(Kinds)
      BY <1>3, <2>1
    <3> QED
      BY <2>2, <3>1
  <2>4. SumOver(<<>>, {}) = 0
    BY SumNothing
  <2> QED
    BY <1>3, <2>3, <2>4, TotalIsSum
<1>6. Counts(win)
  BY <1>1, <1>3, <1>4 DEF Counts
<1>7. Covers(win)
  <2>1. Stride(0) \in Nat \ {0} /\ 0 % Stride(0) = 0
    BY DEF Stride
  <2> QED
    BY <1>1, <2>1 DEF Covers
<1>8. Added(np)
  BY <1>2, <1>3, <1>5 DEF Added
<1>9. TopKOf(np)
  BY <1>2, <1>3, <1>5 DEF TopKOf
<1>10. /\ DOMAIN cycle = {"pods", "kind", "plan", "todo"}
       /\ cycle.kind \in Kinds /\ cycle.todo = 0 /\ pm = <<>>
  <2>1. (CHOOSE k \in Kinds : TRUE) \in Kinds
    BY KindsAssumption
  <2> QED
    BY <2>1 DEF Init
<1> QED
  BY <1>6, <1>7, <1>8, <1>9, <1>10 DEF WindowInv, MemoInv

\* A pod arrives: the memo of the pod before is dropped with it.
LEMMA ArriveKeeps ==
  ASSUME WindowInv, NEW k \in Kinds, NEW planTime \in PlanTimes, NEW nodes \in 0 .. MaxNodes,
         Arrive(k, planTime, nodes)
  PROVE  WindowInv'
<1>1. /\ DOMAIN cycle' = {"pods", "kind", "plan", "todo"}
      /\ cycle'.kind = k /\ cycle'.plan = planTime /\ cycle'.todo = nodes /\ cycle'.todo \in Nat
  BY BoundsAssumption, SMT DEF Arrive
<1>2. np' = np /\ Added(np)' /\ TopKOf(np)'
  BY DEF Arrive, WindowInv
<1>3. CASE policy = "CAFGD"
  <2>1. Add(k)
    BY <1>3 DEF Arrive
  <2>2. Counts(win)' /\ Covers(win)'
    BY <2>1, AddKeeps DEF WindowInv
  <2>3. pm' = <<>>
    BY <2>1 DEF Add
  <2> QED
    BY <1>1, <1>2, <2>2, <2>3 DEF WindowInv, MemoInv
<1>4. CASE policy # "CAFGD"
  <2>1. win' = win /\ pm' = pm
    BY <1>4 DEF Arrive
  <2>2. pm = <<>>
    BY <1>4 DEF WindowInv, MemoInv
  <2>3. Counts(win)' /\ Covers(win)'
    BY <2>1 DEF WindowInv
  <2> QED
    BY <1>1, <1>2, <2>1, <2>2, <2>3 DEF WindowInv, MemoInv
<1> QED
  BY <1>3, <1>4

\* One node less to score.
LEMMA OneNodeLess ==
  ASSUME WindowInv, cycle.todo > 0, cycle' = [cycle EXCEPT !.todo = @ - 1]
  PROVE  /\ DOMAIN cycle' = {"pods", "kind", "plan", "todo"}
         /\ cycle'.kind = cycle.kind /\ cycle'.plan = cycle.plan /\ cycle'.todo \in Nat
         /\ cycle.kind \in Kinds /\ cycle.plan \in PlanTimes
BY DEF WindowInv

\* CAFGD scores a node: the memo is made of the window as it is.
LEMMA ScoreCAFGDKeeps ==
  ASSUME WindowInv, ScoreCAFGD
  PROVE  WindowInv'
<1>1. /\ DOMAIN cycle' = {"pods", "kind", "plan", "todo"}
      /\ cycle'.kind = cycle.kind /\ cycle'.plan = cycle.plan /\ cycle'.todo \in Nat
      /\ cycle.kind \in Kinds /\ cycle.plan \in PlanTimes
  BY OneNodeLess DEF ScoreCAFGD
<1>2. policy = "CAFGD" /\ policy' = policy /\ win' = win /\ np' = np
  BY DEF ScoreCAFGD
<1>3. Counts(win)' /\ Covers(win)' /\ Added(np)' /\ TopKOf(np)'
  BY <1>2 DEF WindowInv
<1>4. Counts(win) /\ Covers(win) /\ MemoInv
  BY DEF WindowInv
<1>5. IsReady' = IsReady /\ \A t : Weights(t)' = Weights(t)
  BY <1>2 DEF IsReady, Weights, GetNearList
<1>6. pm' = <<>> \/ (IsReady /\ pm' = Weights(cycle.plan))
  <2>1. CASE IsReady /\ pm = <<>>
    <3>1. win.top # Panic
      <4>1. \A k \in DOMAIN win.top : win.top[k] \in Nat
        BY <1>4, <2>1, ReadyMade DEF Covers
      <4> QED
        BY <4>1, NoPanic
    <3>2. ~(Len(win.list) < SmallWinSize)
      <4>1. Len(win.list) >= SmallWinSize /\ Len(win.list) \in Nat /\ SmallWinSize \in Nat
        BY <1>4, <2>1, Sizes DEF IsReady, Counts
      <4> QED
        BY <4>1
    <3> QED
      BY <2>1, <3>1, <3>2 DEF ScoreCAFGD
  <2>2. CASE ~(IsReady /\ pm = <<>>)
    <3>1. pm' = pm
      BY <2>2 DEF ScoreCAFGD
    <3> QED
      BY <1>4, <3>1 DEF MemoInv
  <2> QED
    BY <2>1, <2>2
<1>7. MemoInv'
  <2>1. CASE pm' = <<>>
    BY <2>1 DEF MemoInv
  <2>2. CASE IsReady /\ pm' = Weights(cycle.plan)
    <3>1. Weights(cycle.plan)' = Weights(cycle.plan)
      BY <1>1, <1>2 DEF Weights, GetNearList
    <3> QED
      BY <1>1, <1>2, <1>5, <2>2, <3>1 DEF MemoInv
  <2> QED
    BY <1>6, <2>1, <2>2
<1> QED
  BY <1>1, <1>3, <1>7 DEF WindowInv

\* FGDPP scores a node, and adds the pod once more.
LEMMA ScoreFGDPPKeeps ==
  ASSUME WindowInv, ScoreFGDPP
  PROVE  WindowInv'
<1>1. /\ DOMAIN cycle' = {"pods", "kind", "plan", "todo"}
      /\ cycle'.kind = cycle.kind /\ cycle'.plan = cycle.plan /\ cycle'.todo \in Nat
      /\ cycle.kind \in Kinds /\ cycle.plan \in PlanTimes
  BY OneNodeLess DEF ScoreFGDPP
<1>2. policy = "FGDPP" /\ win' = win /\ pm' = pm /\ TypicalAdd(cycle.kind)
  BY DEF ScoreFGDPP
<1>3. Added(np)' /\ TopKOf(np)'
  BY <1>1, <1>2, TypicalAddKeeps DEF WindowInv
<1>4. Counts(win)' /\ Covers(win)'
  BY <1>2 DEF WindowInv
<1>5. pm' = <<>>
  BY <1>2 DEF WindowInv, MemoInv
<1> QED
  BY <1>1, <1>3, <1>4, <1>5 DEF WindowInv, MemoInv

\* Every step keeps the invariant.
LEMMA WindowStep == WindowInv /\ [Next]_vars => WindowInv'
<1> SUFFICES ASSUME WindowInv, [Next]_vars PROVE WindowInv'
  OBVIOUS
<1>1. ASSUME NEW k \in Kinds, NEW planTime \in PlanTimes, NEW nodes \in 0 .. MaxNodes,
             Arrive(k, planTime, nodes)
      PROVE  WindowInv'
  BY <1>1, ArriveKeeps
<1>2. CASE ScoreCAFGD
  BY <1>2, ScoreCAFGDKeeps
<1>3. CASE ScoreFGDPP
  BY <1>3, ScoreFGDPPKeeps
<1>4. CASE UNCHANGED vars
  <2>1. win' = win /\ pm' = pm /\ np' = np /\ cycle' = cycle /\ policy' = policy
    BY <1>4 DEF vars
  <2>2. Weights(cycle.plan)' = Weights(cycle.plan) /\ IsReady' = IsReady
    BY <2>1 DEF Weights, IsReady, GetNearList
  <2> QED
    BY <2>1, <2>2 DEF WindowInv, MemoInv
<1> QED
  BY <1>1, <1>2, <1>3, <1>4 DEF Next, Done

(***************************************************************************)
(* In every state the counts go with the lists, the top pods are those of  *)
(* the last time they were due, and the memo of the weights is nil or of   *)
(* the window as it is now (PredictPod and NewTypicalPodMap).              *)
(***************************************************************************)
THEOREM WindowInvariant == Spec => []WindowInv
BY WindowInit, WindowStep, PTL DEF Spec

(***************************************************************************)
(* What arrives and what leaves CAFGD's window are counted with the same   *)
(* kind, and the window holds the latest pods up to its size (Add).        *)
(***************************************************************************)
THEOREM CountsFollowPods == Spec => []WindowCounts
<1>1. WindowInv => WindowCounts
  <2> SUFFICES ASSUME WindowInv PROVE WindowCounts
    OBVIOUS
  <2>1. /\ win.arrived \in Nat /\ \A k \in Kinds : win.count[k] = Occurs(win.list, k)
        /\ Len(win.list) = IF win.arrived > BigWinSize THEN BigWinSize ELSE win.arrived
    BY DEF WindowInv, Counts
  <2>2. \A a \in Int : Min({a, BigWinSize}) = IF a <= BigWinSize THEN a ELSE BigWinSize
    BY MinOfTwo, Sizes
  <2> QED
    BY <2>1, <2>2, Sizes DEF WindowCounts
<1> QED
  BY <1>1, WindowInvariant, PTL

(***************************************************************************)
(* A ready window has top pods that are recent and reach the water mark,   *)
(* for every workload and every size of the windows, and neither making    *)
(* them nor computing the weights runs out of a list (genTopK, GetPM2).    *)
(***************************************************************************)
THEOREM TopsCover == Spec => []TopCovers
<1>1. WindowInv => TopCovers
  <2> SUFFICES ASSUME WindowInv PROVE TopCovers
    OBVIOUS
  <2>1. Counts(win) /\ Covers(win) /\ MemoInv
    BY DEF WindowInv
  <2>2. win.top # Panic
    <3>1. win.top = <<>> \/ \A k \in DOMAIN win.top : win.top[k] \in Nat
      BY <2>1 DEF Covers
    <3> QED
      BY <3>1, NoPanic
  <2>3. pm # Panic
    BY <2>1, NoPanic, WeightsFound DEF MemoInv
  <2>4. ASSUME IsReady
        PROVE  /\ win.made > 0
               /\ win.arrived - win.made < Stride(win.arrived)
               /\ \/ WaterDen * Total(win.top) >= WaterNum * Min({ win.made, BigWinSize })
                  \/ Cardinality(DOMAIN win.top) = SmallWinSize
    <3>1. win.made > 0 /\ win.arrived - win.made < Stride(win.arrived)
      BY <2>1, <2>4, ReadyMade
    <3>2. win.made # 0
      BY <2>1, <3>1 DEF Covers
    <3> QED
      BY <2>1, <3>1, <3>2 DEF Covers
  <2> QED
    BY <2>2, <2>3, <2>4 DEF TopCovers
<1> QED
  BY <1>1, WindowInvariant, PTL

(***************************************************************************)
(* The memo, which is not keyed by the plan time, always answers with the  *)
(* weights of the pod being scored (GetPM2, Add).                          *)
(***************************************************************************)
THEOREM MemoIsCurrent == Spec => []MemoCurrent
<1>1. WindowInv => MemoCurrent
  BY DEF WindowInv, MemoInv, MemoCurrent
<1> QED
  BY <1>1, WindowInvariant, PTL

(***************************************************************************)
(* FGDPP's top pods are found, are at most one window old and stand for    *)
(* half of the pods seen, and its weights never sum to more than one       *)
(* (remakeTopK, PreNodeGpuShareFragAmountPP).                              *)
(***************************************************************************)
THEOREM TopKIsFresh == Spec => []TopKFresh
<1>1. WindowInv => TopKFresh
  <2> SUFFICES ASSUME WindowInv PROVE TopKFresh
    OBVIOUS
  <2>1. Added(np) /\ TopKOf(np)
    BY DEF WindowInv
  <2>2. np.topK # Panic
    BY <2>1, NoPanic DEF TopKOf
  <2>3. ASSUME np.count > 5 * WinSize
        PROVE  /\ np.count - np.inCount <= WinSize
               /\ \/ Total(np.topK) >= np.inCount \div 2
                  \/ Cardinality(DOMAIN np.topK) = WinSize
               /\ \A k \in DOMAIN np.topK : np.topK[k] <= np.map[k]
    <3>1. np.count - np.inCount <= WinSize
      BY <2>1, <2>3 DEF TopKOf
    <3>2. np.inCount > 0
      BY <2>1, <2>3, <3>1, Sizes DEF Added, TopKOf
    <3> QED
      BY <2>1, <3>1, <3>2 DEF TopKOf
  <2> QED
    BY <2>1, <2>2, <2>3, PreWeightsBounded DEF TopKFresh
<1> QED
  BY <1>1, WindowInvariant, PTL
=============================================================================
