----------------------------- MODULE SumProofs ------------------------------
(***************************************************************************)
(* Facts about the sums over finite sets that the models count resources   *)
(* with (MapThenSumSet): a sum does not depend on the order it is made in; *)
(* about order in a finite set, by which the models select; and about      *)
(* folds in a given order.  Each proof looks at a smallest set for which   *)
(* the fact would fail.                                                    *)
(***************************************************************************)
EXTENDS Integers, FiniteSetsExt, FiniteSetTheorems, WellFoundedInduction, TLAPS

\* The sum of f[x] for all x of S.
SumOver(f, S) == MapThenSumSet(LAMBDA x : f[x], S)

-----------------------------------------------------------------------------
(* The recursive function behind a sum.                                    *)

First(s) == CHOOSE x \in s : TRUE

\* g adds up f over the subsets of S, one first element after another.
AddsUp(f, S, g) ==
  g = [s \in SUBSET S |-> IF s = {} THEN 0 ELSE f[First(s)] + g[s \ {First(s)}]]

\* Among finite sets some one has no other of them as a subset.
LEMMA Smallest ==
  ASSUME NEW S, IsFiniteSet(S), NEW T \in SUBSET SUBSET S, T # {}
  PROVE  \E m \in T : IsFiniteSet(m) /\ \A s \in T : s \subseteq m => s = m
<1>1. \A s \in SUBSET S : IsFiniteSet(s)
  BY FS_Subset
<1>2. T \subseteq FiniteSubsetsOf(S)
  BY <1>1 DEF FiniteSubsetsOf
<1>3. PICK m \in T : \A s \in T : ~(<<s, m>> \in StrictSubsetOrdering(S))
  BY <1>2, FS_StrictSubsetOrderingWellFounded, WFMin
<1> QED
  BY <1>1, <1>3 DEF StrictSubsetOrdering

\* The first element of a set is in it.
LEMMA FirstIn ==
  ASSUME NEW s, s # {}
  PROVE  First(s) \in s
BY DEF First

\* There is one way to add up.
LEMMA AddsUpOnce ==
  ASSUME NEW f, NEW S, NEW T, NEW g, NEW h, IsFiniteSet(S),
         AddsUp(f, S, g), AddsUp(f, T, h), NEW s \in SUBSET S, s \in SUBSET T
  PROVE  g[s] = h[s]
<1> DEFINE Bad == { t \in SUBSET S : t \subseteq T /\ g[t] # h[t] }
<1> SUFFICES ASSUME Bad # {} PROVE FALSE
  OBVIOUS
<1>0. Bad \in SUBSET SUBSET S
  OBVIOUS
<1>1. PICK m \in Bad : \A t \in Bad : t \subseteq m => t = m
  <2> HIDE DEF Bad
  <2> QED
    BY <1>0, Smallest
<1> DEFINE r == m \ {First(m)}
<1>2. /\ g[m] = IF m = {} THEN 0 ELSE f[First(m)] + g[r]
      /\ h[m] = IF m = {} THEN 0 ELSE f[First(m)] + h[r]
  BY <1>1 DEF AddsUp
<1>3. m # {}
  BY <1>1, <1>2
<1>4. r \subseteq m /\ r # m /\ r \in SUBSET S /\ r \subseteq T
  BY <1>1, <1>3, FirstIn
<1>5. g[r] = h[r]
  BY <1>1, <1>4
<1> QED
  BY <1>1, <1>2, <1>3, <1>5

\* Any finite set can be added up.
LEMMA AddsUpAlways ==
  ASSUME NEW f, NEW S, IsFiniteSet(S)
  PROVE  \E g : AddsUp(f, S, g)
<1> DEFINE Bad == { t \in SUBSET S : ~ \E g : AddsUp(f, t, g) }
<1> SUFFICES ASSUME Bad # {} PROVE FALSE
  OBVIOUS
<1>0. Bad \in SUBSET SUBSET S
  OBVIOUS
<1>1. PICK m \in Bad : \A t \in Bad : t \subseteq m => t = m
  <2> HIDE DEF Bad
  <2> QED
    BY <1>0, Smallest
<1>2. \A t \in SUBSET m : t # m => \E g : AddsUp(f, t, g)
  BY <1>1
<1> DEFINE G(t) == CHOOSE g : AddsUp(f, t, g)
           h == [s \in SUBSET m |-> IF s = {} THEN 0
                                    ELSE f[First(s)] + G(s \ {First(s)})[s \ {First(s)}]]
<1>3. \A t \in SUBSET m : t # m => AddsUp(f, t, G(t))
  BY <1>2
<1>4. ASSUME NEW t \in SUBSET m, t # m
      PROVE  h[t] = G(t)[t]
  <2> DEFINE r == t \ {First(t)}
  <2>1. AddsUp(f, t, G(t)) /\ IsFiniteSet(t)
    BY <1>3, <1>4, FS_Subset
  <2>2. G(t)[t] = IF t = {} THEN 0 ELSE f[First(t)] + G(t)[r]
    BY <2>1 DEF AddsUp
  <2>3. CASE t = {}
    BY <2>2, <2>3
  <2>4. CASE t # {}
    <3>1. r \in SUBSET t /\ r \in SUBSET m /\ r # m
      BY <1>4
    <3>2. AddsUp(f, r, G(r))
      BY <1>3, <3>1
    <3>3. G(t)[r] = G(r)[r]
      BY <2>1, <3>1, <3>2, AddsUpOnce
    <3> QED
      BY <2>2, <2>4, <3>3
  <2> QED
    BY <2>3, <2>4
<1>5. AddsUp(f, m, h)
  <2>1. ASSUME NEW s \in SUBSET m, s # {}
        PROVE  G(s \ {First(s)})[s \ {First(s)}] = h[s \ {First(s)}]
    <3>1. s \ {First(s)} \in SUBSET m /\ s \ {First(s)} # m
      BY <2>1, FirstIn
    <3> QED
      BY <1>4, <3>1
  <2>2. \A s \in SUBSET m :
          h[s] = IF s = {} THEN 0 ELSE f[First(s)] + G(s \ {First(s)})[s \ {First(s)}]
    OBVIOUS
  <2>3. h = [s \in SUBSET m |-> h[s]]
    OBVIOUS
  <2> HIDE DEF h
  <2>4. \A s \in SUBSET m : h[s] = IF s = {} THEN 0 ELSE f[First(s)] + h[s \ {First(s)}]
    BY <2>1, <2>2
  <2> QED
    BY <2>3, <2>4 DEF AddsUp
<1> QED
  BY <1>1, <1>5

(***************************************************************************)
(* The recursion equation of a sum.                                        *)
(***************************************************************************)
LEMMA SumRecursion ==
  ASSUME NEW f, NEW S, IsFiniteSet(S)
  PROVE  SumOver(f, S) = IF S = {} THEN 0
                         ELSE f[First(S)] + SumOver(f, S \ {First(S)})
<1> DEFINE it(s) == CHOOSE g : AddsUp(f, s, g)
<1>1. ASSUME NEW s, IsFiniteSet(s)
      PROVE  AddsUp(f, s, it(s)) /\ SumOver(f, s) = it(s)[s]
  <2>1. AddsUp(f, s, it(s))
    BY <1>1, AddsUpAlways
  <2>2. SumOver(f, s) = it(s)[s]
    BY DEF SumOver, MapThenSumSet, MapThenFoldSet, AddsUp, First
  <2> QED
    BY <2>1, <2>2
<1> DEFINE r == S \ {First(S)}
<1>2. AddsUp(f, S, it(S)) /\ SumOver(f, S) = it(S)[S]
  BY <1>1
<1>3. IsFiniteSet(r) /\ r \in SUBSET S
  BY FS_Subset
<1>4. AddsUp(f, r, it(r)) /\ SumOver(f, r) = it(r)[r]
  BY <1>1, <1>3
<1>5. it(S)[r] = it(r)[r]
  BY <1>2, <1>3, <1>4, AddsUpOnce
<1>6. it(S)[S] = IF S = {} THEN 0 ELSE f[First(S)] + it(S)[r]
  BY <1>2 DEF AddsUp
<1> QED
  BY <1>2, <1>4, <1>5, <1>6

-----------------------------------------------------------------------------
(* What follows from it.                                                   *)

\* The sum over no elements.
LEMMA SumNothing == \A f : SumOver(f, {}) = 0
BY SumRecursion, FS_EmptySet

\* Sums of integers are integers.
LEMMA SumInt ==
  ASSUME NEW f, NEW S, IsFiniteSet(S), \A x \in S : f[x] \in Int
  PROVE  SumOver(f, S) \in Int
<1> DEFINE Bad == { t \in SUBSET S : SumOver(f, t) \notin Int }
<1> SUFFICES ASSUME Bad # {} PROVE FALSE
  OBVIOUS
<1>0. Bad \in SUBSET SUBSET S
  OBVIOUS
<1>1. PICK m \in Bad : IsFiniteSet(m) /\ \A t \in Bad : t \subseteq m => t = m
  <2> HIDE DEF Bad
  <2> QED
    BY <1>0, Smallest
<1>2. SumOver(f, m) = IF m = {} THEN 0 ELSE f[First(m)] + SumOver(f, m \ {First(m)})
  BY <1>1, SumRecursion
<1>3. m # {}
  BY <1>1, <1>2
<1>4. First(m) \in m /\ SumOver(f, m \ {First(m)}) \in Int
  BY <1>1, <1>3, FirstIn
<1> QED
  BY <1>1, <1>2, <1>3, <1>4

\* Any element may be taken out of a sum first.
LEMMA SumWithout ==
  ASSUME NEW f, NEW S, IsFiniteSet(S), \A x \in S : f[x] \in Int, NEW p \in S
  PROVE  SumOver(f, S) = f[p] + SumOver(f, S \ {p})
<1> DEFINE Bad == { t \in SUBSET S : \E x \in t : SumOver(f, t) # f[x] + SumOver(f, t \ {x}) }
<1> SUFFICES ASSUME Bad # {} PROVE FALSE
  OBVIOUS
<1>0. Bad \in SUBSET SUBSET S
  OBVIOUS
<1>1. PICK m \in Bad : IsFiniteSet(m) /\ \A t \in Bad : t \subseteq m => t = m
  <2> HIDE DEF Bad
  <2> QED
    BY <1>0, Smallest
<1>2. PICK x \in m : SumOver(f, m) # f[x] + SumOver(f, m \ {x})
  BY <1>1
<1> DEFINE y == First(m)
<1>3. y \in m /\ SumOver(f, m) = f[y] + SumOver(f, m \ {y})
  BY <1>1, <1>2, SumRecursion, FirstIn
<1>4. x # y
  BY <1>2, <1>3
<1>5. /\ SumOver(f, m \ {y}) = f[x] + SumOver(f, (m \ {y}) \ {x})
      /\ SumOver(f, m \ {x}) = f[y] + SumOver(f, (m \ {x}) \ {y})
  <2>1. m \ {y} \notin Bad /\ m \ {x} \notin Bad
    BY <1>1, <1>2, <1>3
  <2> QED
    BY <2>1, <1>1, <1>2, <1>3, <1>4
<1>6. (m \ {y}) \ {x} = (m \ {x}) \ {y}
  OBVIOUS
<1>7. SumOver(f, (m \ {x}) \ {y}) \in Int /\ f[x] \in Int /\ f[y] \in Int
  <2>1. IsFiniteSet((m \ {x}) \ {y}) /\ m \subseteq S
    BY <1>1, FS_Subset
  <2> QED
    BY <2>1, <1>2, <1>3, SumInt
<1> HIDE DEF y
<1> QED
  BY <1>2, <1>3, <1>5, <1>6, <1>7

\* One element more.
LEMMA SumAdd ==
  ASSUME NEW f, NEW S, IsFiniteSet(S), NEW p, p \notin S, \A x \in S \cup {p} : f[x] \in Int
  PROVE  SumOver(f, S \cup {p}) = SumOver(f, S) + f[p]
<1>1. IsFiniteSet(S \cup {p}) /\ (S \cup {p}) \ {p} = S
  BY FS_AddElement
<1>2. SumOver(f, S \cup {p}) = f[p] + SumOver(f, (S \cup {p}) \ {p})
  <2>1. p \in S \cup {p}
    OBVIOUS
  <2> DEFINE T == S \cup {p}
  <2> HIDE DEF T
  <2>2. SumOver(f, T) = f[p] + SumOver(f, T \ {p})
    BY <1>1, <2>1, SumWithout DEF T
  <2> QED
    BY <2>2 DEF T
<1>3. SumOver(f, S) \in Int /\ f[p] \in Int
  BY SumInt
<1>4. SumOver(f, S \cup {p}) = f[p] + SumOver(f, S)
  BY <1>1, <1>2, Zenon
<1> QED
  BY <1>3, <1>4

\* A sum of larger numbers is larger.
LEMMA SumMonotone ==
  ASSUME NEW f, NEW g, NEW S, IsFiniteSet(S),
         \A x \in S : f[x] \in Int /\ g[x] \in Int /\ f[x] <= g[x]
  PROVE  SumOver(f, S) <= SumOver(g, S)
<1> DEFINE Bad == { t \in SUBSET S : ~(SumOver(f, t) <= SumOver(g, t)) }
<1> SUFFICES ASSUME Bad # {} PROVE FALSE
  OBVIOUS
<1>0. Bad \in SUBSET SUBSET S
  OBVIOUS
<1>1. PICK m \in Bad : IsFiniteSet(m) /\ \A t \in Bad : t \subseteq m => t = m
  <2> HIDE DEF Bad
  <2> QED
    BY <1>0, Smallest
<1>2. m # {}
  <2>1. ~(SumOver(f, m) <= SumOver(g, m))
    BY <1>1
  <2> QED
    BY <2>1, SumNothing
<1> DEFINE y == First(m)
<1>3. /\ y \in m
      /\ SumOver(f, m) = f[y] + SumOver(f, m \ {y})
      /\ SumOver(g, m) = g[y] + SumOver(g, m \ {y})
  BY <1>1, <1>2, SumRecursion, FirstIn
<1>4. SumOver(f, m \ {y}) <= SumOver(g, m \ {y})
  BY <1>1, <1>3
<1>5. SumOver(f, m \ {y}) \in Int /\ SumOver(g, m \ {y}) \in Int
  <2>1. IsFiniteSet(m \ {y}) /\ m \ {y} \subseteq S
    BY <1>1, FS_Subset
  <2> QED
    BY <2>1, SumInt
<1> HIDE DEF y
<1> QED
  BY <1>1, <1>3, <1>4, <1>5

\* A sum depends on the numbers it is made of, and on nothing else.
LEMMA SumSame ==
  ASSUME NEW f, NEW g, NEW S, IsFiniteSet(S), \A x \in S : f[x] = g[x] /\ f[x] \in Int
  PROVE  SumOver(f, S) = SumOver(g, S)
<1>1. SumOver(f, S) <= SumOver(g, S) /\ SumOver(g, S) <= SumOver(f, S)
  BY SumMonotone
<1> QED
  BY <1>1, SumInt

\* A sum of natural numbers is one, and the sum over a part of a set is no larger.
LEMMA SumNat ==
  ASSUME NEW f, NEW S, IsFiniteSet(S), \A x \in S : f[x] \in Nat
  PROVE  SumOver(f, S) \in Nat /\ \A T \in SUBSET S : SumOver(f, T) <= SumOver(f, S)
<1>1. \A T \in SUBSET S : IsFiniteSet(T) /\ SumOver(f, T) \in Int
  BY FS_Subset, SumInt
<1>2. ASSUME NEW T \in SUBSET S
      PROVE  SumOver(f, T) <= SumOver(f, S)
  <2> DEFINE Bad == { t \in SUBSET S : T \subseteq t /\ ~(SumOver(f, T) <= SumOver(f, t)) }
  <2> SUFFICES ASSUME Bad # {} PROVE FALSE
    OBVIOUS
  <2>0. Bad \in SUBSET SUBSET S
    OBVIOUS
  <2>1. PICK m \in Bad : IsFiniteSet(m) /\ \A t \in Bad : t \subseteq m => t = m
    <3> HIDE DEF Bad
    <3> QED
      BY <2>0, Smallest
  <2>2. PICK y \in m : y \notin T
    <3>1. T # m
      BY <1>1, <2>1
    <3> QED
      BY <2>1, <3>1
  <2>3. SumOver(f, m) = f[y] + SumOver(f, m \ {y})
    <3>1. \A x \in m : f[x] \in Int
      BY <2>1
    <3> QED
      BY <2>1, <2>2, <3>1, SumWithout
  <2>4. SumOver(f, T) <= SumOver(f, m \ {y})
    BY <2>1, <2>2
  <2>5. /\ f[y] \in Nat /\ SumOver(f, m) \in Int
        /\ SumOver(f, m \ {y}) \in Int /\ SumOver(f, T) \in Int
    BY <1>1, <2>1, <2>2
  <2> QED
    BY <2>1, <2>3, <2>4, <2>5
<1>3. SumOver(f, {}) <= SumOver(f, S)
  BY <1>2
<1> QED
  BY <1>1, <1>2, <1>3, SumNothing

\* Whatever adds up f over S gives the sum.
LEMMA SumIs ==
  ASSUME NEW f, NEW S, IsFiniteSet(S), NEW g, AddsUp(f, S, g)
  PROVE  SumOver(f, S) = g[S]
<1> DEFINE it == CHOOSE h : AddsUp(f, S, h)
<1>1. AddsUp(f, S, it)
  BY AddsUpAlways
<1>2. SumOver(f, S) = it[S]
  BY DEF SumOver, MapThenSumSet, MapThenFoldSet, AddsUp, First
<1> HIDE DEF it
<1>3. it[S] = g[S]
  BY <1>1, AddsUpOnce
<1> QED
  BY <1>2, <1>3

\* A sum is that of a part and that of the rest.
LEMMA SumPart ==
  ASSUME NEW f, NEW S, IsFiniteSet(S), \A x \in S : f[x] \in Int, NEW T \in SUBSET S
  PROVE  SumOver(f, S) = SumOver(f, T) + SumOver(f, S \ T)
<1> DEFINE Bad == { t \in SUBSET S : SumOver(f, t) # SumOver(f, t \cap T) + SumOver(f, t \ T) }
<1>0. Bad \in SUBSET SUBSET S
  OBVIOUS
<1>1. ASSUME Bad # {} PROVE FALSE
  <2>1. PICK m \in Bad : IsFiniteSet(m) /\ \A t \in Bad : t \subseteq m => t = m
    <3> HIDE DEF Bad
    <3> QED
      BY <1>0, <1>1, Smallest
  <2>2. m # {}
    <3>1. SumOver(f, m) # SumOver(f, m \cap T) + SumOver(f, m \ T)
      BY <2>1
    <3>2. {} \cap T = {} /\ {} \ T = {}
      OBVIOUS
    <3> QED
      BY <3>1, <3>2, SumNothing
  <2>3. PICK y \in m : TRUE
    BY <2>2
  <2> DEFINE r == m \ {y}
  <2>4. SumOver(f, m) = f[y] + SumOver(f, r)
    <3>1. \A x \in m : f[x] \in Int
      BY <2>1
    <3> QED
      BY <2>1, <2>3, <3>1, SumWithout
  <2>5. SumOver(f, r) = SumOver(f, r \cap T) + SumOver(f, r \ T)
    <3>1. r \in SUBSET S /\ r \subseteq m /\ r # m
      BY <2>1, <2>3
    <3>2. r \notin Bad
      BY <2>1, <3>1
    <3> QED
      BY <3>1, <3>2
  <2>6. /\ \A t \in SUBSET S : IsFiniteSet(t) /\ SumOver(f, t) \in Int
        /\ f[y] \in Int /\ m \in SUBSET S /\ r \in SUBSET S
        /\ r \cap T \in SUBSET S /\ r \ T \in SUBSET S
        /\ m \cap T \in SUBSET S /\ m \ T \in SUBSET S
    <3>1. \A t \in SUBSET S : IsFiniteSet(t) /\ SumOver(f, t) \in Int
      BY FS_Subset, SumInt
    <3> QED
      BY <2>1, <2>3, <3>1
  <2>7. CASE y \in T
    <3>1. m \ T = r \ T /\ (m \cap T) \ {y} = r \cap T /\ y \in m \cap T
      BY <2>3, <2>7
    <3>2. SumOver(f, m \cap T) = f[y] + SumOver(f, (m \cap T) \ {y})
      <4> DEFINE u == m \cap T
      <4>1. IsFiniteSet(u) /\ \A x \in u : f[x] \in Int
        BY <2>6
      <4> HIDE DEF u
      <4> QED
        BY <3>1, <4>1, SumWithout DEF u
    <3>3. SumOver(f, m) = SumOver(f, m \cap T) + SumOver(f, m \ T)
      <4>1. SumOver(f, m \cap T) = f[y] + SumOver(f, r \cap T)
        BY <3>1, <3>2
      <4>2. SumOver(f, m \ T) = SumOver(f, r \ T)
        BY <3>1
      <4>3. SumOver(f, r \cap T) \in Int /\ SumOver(f, r \ T) \in Int /\ f[y] \in Int
        BY <2>6
      <4> HIDE DEF r
      <4> QED
        BY <2>4, <2>5, <4>1, <4>2, <4>3
    <3> QED
      BY <2>1, <3>3
  <2>8. CASE y \notin T
    <3>1. m \cap T = r \cap T /\ (m \ T) \ {y} = r \ T /\ y \in m \ T
      BY <2>3, <2>8
    <3>2. SumOver(f, m \ T) = f[y] + SumOver(f, (m \ T) \ {y})
      <4> DEFINE u == m \ T
      <4>1. IsFiniteSet(u) /\ \A x \in u : f[x] \in Int
        BY <2>6
      <4> HIDE DEF u
      <4> QED
        BY <3>1, <4>1, SumWithout DEF u
    <3>3. SumOver(f, m) = SumOver(f, m \cap T) + SumOver(f, m \ T)
      <4>1. SumOver(f, m \ T) = f[y] + SumOver(f, r \ T)
        BY <3>1, <3>2
      <4>2. SumOver(f, m \cap T) = SumOver(f, r \cap T)
        BY <3>1
      <4>3. SumOver(f, r \cap T) \in Int /\ SumOver(f, r \ T) \in Int /\ f[y] \in Int
        BY <2>6
      <4> HIDE DEF r
      <4> QED
        BY <2>4, <2>5, <4>1, <4>2, <4>3
    <3> QED
      BY <2>1, <3>3
  <2> QED
    BY <2>7, <2>8
<1>2. S \notin Bad
  BY <1>1
<1>3. S \cap T = T
  OBVIOUS
<1> QED
  BY <1>2, <1>3

\* Two sums over one set are the sum of the sums.
LEMMA SumPlus ==
  ASSUME NEW f, NEW g, NEW h, NEW S, IsFiniteSet(S),
         \A x \in S : f[x] \in Int /\ g[x] \in Int /\ h[x] = f[x] + g[x]
  PROVE  SumOver(h, S) = SumOver(f, S) + SumOver(g, S)
<1> DEFINE Bad == { t \in SUBSET S : SumOver(h, t) # SumOver(f, t) + SumOver(g, t) }
<1> SUFFICES ASSUME Bad # {} PROVE FALSE
  OBVIOUS
<1>0. Bad \in SUBSET SUBSET S
  OBVIOUS
<1>1. PICK m \in Bad : IsFiniteSet(m) /\ \A t \in Bad : t \subseteq m => t = m
  <2> HIDE DEF Bad
  <2> QED
    BY <1>0, Smallest
<1>2. m # {}
  <2>1. SumOver(h, m) # SumOver(f, m) + SumOver(g, m)
    BY <1>1
  <2>2. SumOver(f, {}) = 0 /\ SumOver(g, {}) = 0 /\ SumOver(h, {}) = 0
    BY SumNothing
  <2>3. ASSUME m = {} PROVE FALSE
    <3>1. SumOver(h, {}) # SumOver(f, {}) + SumOver(g, {})
      BY <2>1, <2>3, Zenon
    <3>2. 0 # 0 + 0
      BY <2>2, <3>1, Zenon
    <3> QED
      BY <3>2
  <2> QED
    BY <2>3
<1> DEFINE y == First(m)
<1>3. /\ y \in m
      /\ SumOver(f, m) = f[y] + SumOver(f, m \ {y})
      /\ SumOver(g, m) = g[y] + SumOver(g, m \ {y})
      /\ SumOver(h, m) = h[y] + SumOver(h, m \ {y})
  BY <1>1, <1>2, SumRecursion, FirstIn
<1>4. SumOver(h, m \ {y}) = SumOver(f, m \ {y}) + SumOver(g, m \ {y})
  <2>1. m \ {y} \in SUBSET S /\ m \ {y} \subseteq m /\ m \ {y} # m
    BY <1>1, <1>3
  <2>2. m \ {y} \notin Bad
    BY <1>1, <2>1
  <2> QED
    BY <2>1, <2>2
<1>5. /\ SumOver(f, m \ {y}) \in Int /\ SumOver(g, m \ {y}) \in Int
      /\ f[y] \in Int /\ g[y] \in Int /\ h[y] = f[y] + g[y]
  <2>1. IsFiniteSet(m \ {y}) /\ m \ {y} \subseteq S /\ m \subseteq S
    BY <1>1, FS_Subset
  <2> QED
    BY <1>3, <2>1, SumInt
<1>6. SumOver(h, m) # SumOver(f, m) + SumOver(g, m)
  BY <1>1
<1> HIDE DEF y, Bad
<1> QED
  BY <1>3, <1>4, <1>5, <1>6

\* A sum in which every number is multiplied.
LEMMA SumTimes ==
  ASSUME NEW f, NEW h, NEW c \in Int, NEW S, IsFiniteSet(S),
         \A x \in S : f[x] \in Int /\ h[x] = c * f[x]
  PROVE  SumOver(h, S) = c * SumOver(f, S)
<1> DEFINE Bad == { t \in SUBSET S : SumOver(h, t) # c * SumOver(f, t) }
<1> SUFFICES ASSUME Bad # {} PROVE FALSE
  OBVIOUS
<1>0. Bad \in SUBSET SUBSET S
  OBVIOUS
<1>1. PICK m \in Bad : IsFiniteSet(m) /\ \A t \in Bad : t \subseteq m => t = m
  <2> HIDE DEF Bad
  <2> QED
    BY <1>0, Smallest
<1>2. m # {}
  <2>1. SumOver(h, m) # c * SumOver(f, m)
    BY <1>1
  <2>2. c * 0 = 0
    OBVIOUS
  <2> QED
    BY <2>1, <2>2, SumNothing
<1> DEFINE y == First(m)
<1>3. /\ y \in m
      /\ SumOver(f, m) = f[y] + SumOver(f, m \ {y})
      /\ SumOver(h, m) = h[y] + SumOver(h, m \ {y})
  BY <1>1, <1>2, SumRecursion, FirstIn
<1>4. SumOver(h, m \ {y}) = c * SumOver(f, m \ {y})
  <2>1. m \ {y} \in SUBSET S /\ m \ {y} \subseteq m /\ m \ {y} # m
    BY <1>1, <1>3
  <2>2. m \ {y} \notin Bad
    BY <1>1, <2>1
  <2> QED
    BY <2>1, <2>2
<1>5. SumOver(f, m \ {y}) \in Int /\ f[y] \in Int /\ h[y] = c * f[y]
  <2>1. IsFiniteSet(m \ {y}) /\ m \ {y} \subseteq S /\ m \subseteq S
    BY <1>1, FS_Subset
  <2> QED
    BY <1>3, <2>1, SumInt
<1>6. SumOver(h, m) # c * SumOver(f, m)
  BY <1>1
<1>7. \A a, b \in Int : c * (a + b) = c * a + c * b
  OBVIOUS
<1> HIDE DEF y, Bad
<1> QED
  BY <1>3, <1>4, <1>5, <1>6, <1>7

\* A sum in which all numbers are the same.
LEMMA SumConstant ==
  ASSUME NEW f, NEW c \in Int, NEW S, IsFiniteSet(S), \A x \in S : f[x] = c
  PROVE  SumOver(f, S) = c * Cardinality(S)
<1> DEFINE Bad == { t \in SUBSET S : SumOver(f, t) # c * Cardinality(t) }
<1> SUFFICES ASSUME Bad # {} PROVE FALSE
  OBVIOUS
<1>0. Bad \in SUBSET SUBSET S
  OBVIOUS
<1>1. PICK m \in Bad : IsFiniteSet(m) /\ \A t \in Bad : t \subseteq m => t = m
  <2> HIDE DEF Bad
  <2> QED
    BY <1>0, Smallest
<1>2. m # {}
  <2>1. SumOver(f, m) # c * Cardinality(m)
    BY <1>1
  <2>2. c * 0 = 0 /\ Cardinality({}) = 0
    BY FS_EmptySet
  <2> QED
    BY <2>1, <2>2, SumNothing
<1> DEFINE y == First(m)
<1>3. y \in m /\ SumOver(f, m) = f[y] + SumOver(f, m \ {y})
  BY <1>1, <1>2, SumRecursion, FirstIn
<1>4. SumOver(f, m \ {y}) = c * Cardinality(m \ {y})
  <2>1. m \ {y} \in SUBSET S /\ m \ {y} \subseteq m /\ m \ {y} # m
    BY <1>1, <1>3
  <2>2. m \ {y} \notin Bad
    BY <1>1, <2>1
  <2> QED
    BY <2>1, <2>2
<1>5. /\ Cardinality(m \ {y}) = Cardinality(m) - 1
      /\ Cardinality(m) \in Nat /\ f[y] = c
  BY <1>1, <1>3, FS_RemoveElement, FS_CardinalityType
<1>6. SumOver(f, m) # c * Cardinality(m)
  BY <1>1
<1>7. \A a \in Int : c + c * (a - 1) = c * a
  OBVIOUS
<1> HIDE DEF y, Bad
<1> QED
  BY <1>3, <1>4, <1>5, <1>6, <1>7

\* A sum over a part of S is one over S with nothing counted for the rest.
LEMMA SumFilter ==
  ASSUME NEW f, NEW g, NEW S, NEW T \in SUBSET S, IsFiniteSet(S),
         \A x \in T : f[x] \in Int /\ g[x] = f[x],
         \A x \in S \ T : g[x] = 0
  PROVE  SumOver(g, S) = SumOver(f, T)
<1> DEFINE u == S \ T
<1>1. /\ IsFiniteSet(T) /\ IsFiniteSet(u)
      /\ \A x \in S : g[x] \in Int
      /\ \A x \in u : g[x] = 0
  BY FS_Subset
<1>2. SumOver(g, S) = SumOver(g, T) + SumOver(g, u)
  BY <1>1, SumPart
<1> HIDE DEF u
<1>3. SumOver(g, T) = SumOver(f, T) /\ SumOver(g, T) \in Int
  <2>1. \A x \in T : g[x] = f[x] /\ g[x] \in Int
    OBVIOUS
  <2> QED
    BY <1>1, <2>1, SumSame, SumInt
<1>4. SumOver(g, u) = 0
  <2>1. SumOver(g, u) = 0 * Cardinality(u)
    BY <1>1, SumConstant
  <2> QED
    BY <1>1, <2>1, FS_CardinalityType
<1> QED
  BY <1>2, <1>3, <1>4

\* Of two sums, the one whose every number has a larger one of its own in
\* the other is no larger.
LEMMA SumInjection ==
  ASSUME NEW f, NEW g, NEW S, NEW T, NEW b \in [S -> T], IsFiniteSet(S), IsFiniteSet(T),
         \A x, y \in S : b[x] = b[y] => x = y,
         \A x \in T : g[x] \in Nat,
         \A x \in S : f[x] \in Int /\ f[x] <= g[b[x]]
  PROVE  SumOver(f, S) <= SumOver(g, T)
<1> DEFINE Img(t) == { b[x] : x \in t }
           Bad == { t \in SUBSET S : ~(SumOver(f, t) <= SumOver(g, Img(t))) }
<1>0. Bad \in SUBSET SUBSET S
  OBVIOUS
<1>i. \A t \in SUBSET S : /\ Img(t) \in SUBSET T /\ IsFiniteSet(Img(t))
                          /\ IsFiniteSet(t)
                          /\ SumOver(f, t) \in Int /\ SumOver(g, Img(t)) \in Int
  <2> TAKE t \in SUBSET S
  <2>1. Img(t) \in SUBSET T
    OBVIOUS
  <2> HIDE DEF Img
  <2>2. IsFiniteSet(Img(t)) /\ IsFiniteSet(t)
    BY <2>1, FS_Subset
  <2> QED
    BY <2>1, <2>2, SumInt
<1>1. ASSUME Bad # {} PROVE FALSE
  <2>1. PICK m \in Bad : IsFiniteSet(m) /\ \A t \in Bad : t \subseteq m => t = m
    <3> HIDE DEF Bad
    <3> QED
      BY <1>0, <1>1, Smallest
  <2>2. m # {}
    <3>1. ~(SumOver(f, m) <= SumOver(g, Img(m)))
      BY <2>1
    <3>2. m = {} => Img(m) = {}
      OBVIOUS
    <3>3. SumOver(f, {}) = 0 /\ SumOver(g, {}) = 0
      BY SumNothing
    <3> HIDE DEF Img, Bad
    <3> QED
      BY <3>1, <3>2, <3>3
  <2>3. PICK y \in m : TRUE
    BY <2>2
  <2> DEFINE r == m \ {y}
  <2>4. m \in SUBSET S /\ r \in SUBSET S /\ r \subseteq m /\ r # m /\ y \in S
    BY <2>1, <2>3
  <2>5. SumOver(f, m) = f[y] + SumOver(f, r)
    <3>1. \A x \in m : f[x] \in Int
      BY <2>4
    <3> QED
      BY <2>1, <2>3, <3>1, SumWithout
  <2>6. SumOver(f, r) <= SumOver(g, Img(r))
    BY <2>1, <2>4
  <2>7. SumOver(g, Img(m)) = g[b[y]] + SumOver(g, Img(r))
    <3>1. Img(m) \ {b[y]} = Img(r) /\ b[y] \in Img(m)
      BY <2>3, <2>4
    <3>2. IsFiniteSet(Img(m)) /\ \A x \in Img(m) : g[x] \in Int
      <4>1. Img(m) \subseteq T /\ IsFiniteSet(Img(m))
        BY <1>i, <2>4
      <4> HIDE DEF Img
      <4> QED
        BY <4>1
    <3> HIDE DEF Img
    <3>3. SumOver(g, Img(m)) = g[b[y]] + SumOver(g, Img(m) \ {b[y]})
      BY <3>1, <3>2, SumWithout
    <3> QED
      BY <3>1, <3>3
  <2>8. /\ f[y] \in Int /\ g[b[y]] \in Int /\ f[y] <= g[b[y]]
        /\ SumOver(f, r) \in Int /\ SumOver(g, Img(r)) \in Int
        /\ ~(SumOver(f, m) <= SumOver(g, Img(m)))
    <3>1. SumOver(f, r) \in Int /\ SumOver(g, Img(r)) \in Int
      BY <1>i, <2>4
    <3>2. b[y] \in T
      BY <2>4
    <3> QED
      BY <2>1, <2>4, <3>1, <3>2
  <2> HIDE DEF Img, r, Bad
  <2> QED
    BY <2>5, <2>6, <2>7, <2>8
<1>2. SumOver(f, S) <= SumOver(g, Img(S))
  <2>1. S \notin Bad
    BY <1>1
  <2> QED
    BY <2>1
<1>3. SumOver(g, Img(S)) <= SumOver(g, T)
  BY <1>i, SumNat
<1>4. SumOver(f, S) \in Int /\ SumOver(g, Img(S)) \in Int /\ SumOver(g, T) \in Int
  BY <1>i, SumInt
<1> HIDE DEF Img
<1> QED
  BY <1>2, <1>3, <1>4

\* The elements of S that have the key t.
Fiber(c, S, t) == { i \in S : c[i] = t }

\* Numbers grouped by a key and added up group by group give their sum.
LEMMA SumFibers ==
  ASSUME NEW S, NEW T, NEW c, NEW g, NEW h, IsFiniteSet(S), IsFiniteSet(T),
         \A i \in S : c[i] \in T /\ g[i] \in Int,
         \A t \in T : h[t] = SumOver(g, Fiber(c, S, t))
  PROVE  SumOver(h, T) = SumOver(g, S)
<1> DEFINE Of(t) == { i \in S : c[i] \in t }
           Bad == { t \in SUBSET T : SumOver(h, t) # SumOver(g, Of(t)) }
<1>0. Bad \in SUBSET SUBSET T
  OBVIOUS
<1>i. \A t \in SUBSET T : Of(t) \in SUBSET S /\ IsFiniteSet(Of(t)) /\ SumOver(g, Of(t)) \in Int
  <2> TAKE t \in SUBSET T
  <2>1. Of(t) \in SUBSET S
    OBVIOUS
  <2> HIDE DEF Of
  <2>2. IsFiniteSet(Of(t))
    BY <2>1, FS_Subset
  <2> QED
    BY <2>1, <2>2, SumInt
<1>j. \A t \in T : h[t] = SumOver(g, Of({t})) /\ h[t] \in Int
  <2> TAKE t \in T
  <2>1. Of({t}) = Fiber(c, S, t)
    BY DEF Fiber
  <2>2. SumOver(g, Of({t})) \in Int
    BY <1>i
  <2> QED
    BY <2>1, <2>2
<1>1. ASSUME Bad # {} PROVE FALSE
  <2>1. PICK m \in Bad : IsFiniteSet(m) /\ \A t \in Bad : t \subseteq m => t = m
    <3> HIDE DEF Bad
    <3> QED
      BY <1>0, <1>1, Smallest
  <2>2. m # {}
    <3>1. SumOver(h, m) # SumOver(g, Of(m))
      BY <2>1
    <3>2. m = {} => Of(m) = {}
      OBVIOUS
    <3>3. SumOver(h, {}) = 0 /\ SumOver(g, {}) = 0
      BY SumNothing
    <3> HIDE DEF Of, Bad
    <3> QED
      BY <3>1, <3>2, <3>3
  <2>3. PICK y \in m : TRUE
    BY <2>2
  <2> DEFINE r == m \ {y}
  <2>4. m \in SUBSET T /\ r \in SUBSET T /\ r \subseteq m /\ r # m /\ y \in T
    BY <2>1, <2>3
  <2>5. SumOver(h, m) = h[y] + SumOver(h, r)
    <3>1. \A x \in m : h[x] \in Int
      BY <1>j, <2>4
    <3> QED
      BY <2>1, <2>3, <3>1, SumWithout
  <2>6. SumOver(h, r) = SumOver(g, Of(r))
    BY <2>1, <2>4
  <2>7. SumOver(g, Of(m)) = SumOver(g, Of({y})) + SumOver(g, Of(r))
    <3>1. Of({y}) \in SUBSET Of(m) /\ Of(m) \ Of({y}) = Of(r)
      BY <2>3, <2>4
    <3>2. IsFiniteSet(Of(m)) /\ \A i \in Of(m) : g[i] \in Int
      BY <1>i, <2>4
    <3> HIDE DEF Of
    <3>3. SumOver(g, Of(m)) = SumOver(g, Of({y})) + SumOver(g, Of(m) \ Of({y}))
      <4> DEFINE a == Of(m)
                 b == Of({y})
      <4>1. b \in SUBSET a /\ IsFiniteSet(a) /\ \A i \in a : g[i] \in Int
        BY <3>1, <3>2
      <4> HIDE DEF a, b
      <4>2. SumOver(g, a) = SumOver(g, b) + SumOver(g, a \ b)
        BY <4>1, SumPart
      <4> QED
        BY <4>2 DEF a, b
    <3> QED
      BY <3>1, <3>3
  <2>8. h[y] = SumOver(g, Of({y})) /\ SumOver(h, m) # SumOver(g, Of(m))
    BY <1>j, <2>1, <2>4
  <2> HIDE DEF Of, r, Bad
  <2> QED
    BY <2>5, <2>6, <2>7, <2>8
<1>2. T \notin Bad
  BY <1>1
<1>3. Of(T) = S
  OBVIOUS
<1> QED
  BY <1>2, <1>3

\* The sum of one number.
LEMMA SumSingle ==
  ASSUME NEW f, NEW x, f[x] \in Int
  PROVE  SumOver(f, {x}) = f[x]
<1> DEFINE S == {x}
<1>1. IsFiniteSet(S) /\ \A y \in S : f[y] \in Int
  BY FS_Singleton
<1>2. x \in S /\ S \ {x} = {}
  OBVIOUS
<1> HIDE DEF S
<1>3. SumOver(f, S) = f[x] + SumOver(f, S \ {x})
  BY <1>1, <1>2, SumWithout
<1>4. SumOver(f, S) = f[x] + 0
  BY <1>2, <1>3, SumNothing
<1> QED
  BY <1>4 DEF S

\* A sum may be taken over other names for the same numbers.
LEMMA SumRenamed ==
  ASSUME NEW S, NEW T, NEW b \in [S -> T], NEW f, NEW g, IsFiniteSet(S), IsFiniteSet(T),
         \A x, y \in S : b[x] = b[y] => x = y,
         \A t \in T : \E x \in S : b[x] = t,
         \A x \in S : f[x] \in Int /\ g[b[x]] = f[x]
  PROVE  SumOver(f, S) = SumOver(g, T)
<1>1. ASSUME NEW t \in T
      PROVE  g[t] = SumOver(f, Fiber(b, S, t))
  <2>1. PICK x \in S : b[x] = t
    OBVIOUS
  <2>2. Fiber(b, S, t) = {x}
    BY <2>1 DEF Fiber
  <2>3. SumOver(f, {x}) = f[x]
    BY SumSingle
  <2> QED
    BY <2>1, <2>2, <2>3
<1> QED
  BY <1>1, SumFibers

-----------------------------------------------------------------------------
(* Order.  In a finite set in which of any two elements one is before the  *)
(* other, the number of elements before one tells which it is.             *)

IsOrder(R, S) ==
  /\ \A x \in S : <<x, x>> \notin R
  /\ \A x, y, z \in S : <<x, y>> \in R /\ <<y, z>> \in R => <<x, z>> \in R
  /\ \A x, y \in S : x # y => <<x, y>> \in R \/ <<y, x>> \in R

Below(R, S, x) == { y \in S : <<y, x>> \in R }

\* What is before x is fewer than all, and fewer than what is before a later one.
LEMMA BelowGrows ==
  ASSUME NEW S, IsFiniteSet(S), NEW R, IsOrder(R, S), NEW x \in S
  PROVE  /\ Cardinality(Below(R, S, x)) \in 0 .. Cardinality(S) - 1
         /\ \A y \in S : <<x, y>> \in R =>
              Cardinality(Below(R, S, x)) < Cardinality(Below(R, S, y))
<1>1. \A z \in S : Below(R, S, z) \in SUBSET S /\ z \notin Below(R, S, z)
  BY DEF Below, IsOrder
<1>2. \A T \in SUBSET S : IsFiniteSet(T) /\ Cardinality(T) \in Nat
  BY FS_Subset, FS_CardinalityType
<1>3. \A T, U \in SUBSET S : T \subseteq U /\ T # U => Cardinality(T) < Cardinality(U)
  BY <1>2, FS_Subset
<1>4. Cardinality(Below(R, S, x)) < Cardinality(S)
  BY <1>1, <1>3
<1>5. ASSUME NEW y \in S, <<x, y>> \in R
      PROVE  Cardinality(Below(R, S, x)) < Cardinality(Below(R, S, y))
  <2>1. Below(R, S, x) \subseteq Below(R, S, y)
    BY <1>5 DEF Below, IsOrder
  <2>2. x \in Below(R, S, y)
    BY <1>5 DEF Below
  <2> QED
    BY <1>1, <1>3, <2>1, <2>2
<1> QED
  BY <1>1, <1>2, <1>4, <1>5

\* There is one element for each number, and no other.
LEMMA RankFound ==
  ASSUME NEW S, IsFiniteSet(S), NEW R, IsOrder(R, S)
  PROVE  /\ \A k \in 1 .. Cardinality(S) : \E x \in S : Cardinality(Below(R, S, x)) = k - 1
         /\ \A x, y \in S : Cardinality(Below(R, S, x)) = Cardinality(Below(R, S, y)) => x = y
<1> DEFINE n    == Cardinality(S)
           rank == [x \in S |-> Cardinality(Below(R, S, x)) + 1]
<1>1. n \in Nat
  BY FS_CardinalityType
<1>2. rank \in [S -> 1 .. n]
  <2>1. \A x \in S : Cardinality(Below(R, S, x)) \in 0 .. n - 1
    BY BelowGrows
  <2> HIDE DEF n
  <2> QED
    BY <1>1, <2>1
<1>3. \A x, y \in S : Cardinality(Below(R, S, x)) = Cardinality(Below(R, S, y)) => x = y
  <2> SUFFICES ASSUME NEW x \in S, NEW y \in S, x # y
               PROVE  Cardinality(Below(R, S, x)) # Cardinality(Below(R, S, y))
    OBVIOUS
  <2>1. Cardinality(Below(R, S, x)) \in Int /\ Cardinality(Below(R, S, y)) \in Int
    BY <1>1, BelowGrows
  <2>2. <<x, y>> \in R \/ <<y, x>> \in R
    BY DEF IsOrder
  <2> QED
    BY <2>1, <2>2, BelowGrows
<1>4. rank \in Injection(S, 1 .. n)
  <2>1. \A x, y \in S : rank[x] = rank[y] => x = y
    <3>1. \A x \in S : Cardinality(Below(R, S, x)) \in Int
      BY <1>1, BelowGrows
    <3> QED
      BY <1>3, <3>1
  <2> HIDE DEF rank
  <2> QED
    BY <1>2, <2>1 DEF Injection, IsInjective
<1>5. IsFiniteSet(1 .. n) /\ Cardinality(1 .. n) = n
  <2>1. IsFiniteSet(1 .. n) /\ Cardinality(1 .. n) = IF 1 > n THEN 0 ELSE n - 1 + 1
    BY <1>1, FS_Interval
  <2> HIDE DEF n
  <2> QED
    BY <1>1, <2>1
<1>6. rank \in Surjection(S, 1 .. n)
  <2> HIDE DEF rank
  <2> QED
    BY <1>4, <1>5, FS_Injection
<1>7. ASSUME NEW k \in 1 .. n PROVE \E x \in S : Cardinality(Below(R, S, x)) = k - 1
  <2>1. PICK x \in S : rank[x] = k
    <3> HIDE DEF rank
    <3> QED
      BY <1>6 DEF Surjection
  <2>2. Cardinality(Below(R, S, x)) \in Int
    BY <1>1, BelowGrows
  <2> QED
    BY <2>1, <2>2
<1> QED
  BY <1>3, <1>7

\* As many elements as one asks for have fewer than that before them.
LEMMA FirstOfOrder ==
  ASSUME NEW S, IsFiniteSet(S), NEW R, IsOrder(R, S), NEW m \in Nat
  PROVE  LET T == { x \in S : Cardinality(Below(R, S, x)) < m }
         IN IsFiniteSet(T) /\ Cardinality(T) = IF m <= Cardinality(S) THEN m ELSE Cardinality(S)
<1> DEFINE n    == Cardinality(S)
           l    == IF m <= n THEN m ELSE n
           T    == { x \in S : Cardinality(Below(R, S, x)) < m }
           rank == [x \in T |-> Cardinality(Below(R, S, x)) + 1]
<1>1. n \in Nat /\ \A x \in S : Cardinality(Below(R, S, x)) \in 0 .. n - 1
  BY FS_CardinalityType, BelowGrows
<1>2. IsFiniteSet(T)
  <2>1. T \in SUBSET S
    OBVIOUS
  <2> HIDE DEF T
  <2> QED
    BY <2>1, FS_Subset
<1>3. rank \in [T -> 1 .. l] /\ l \in Nat
  <2> HIDE DEF n
  <2> QED
    BY <1>1
<1>4. \A x, y \in T : rank[x] = rank[y] => x = y
  <2>1. \A x, y \in S : Cardinality(Below(R, S, x)) = Cardinality(Below(R, S, y)) => x = y
    BY RankFound
  <2>2. \A x \in T : x \in S /\ Cardinality(Below(R, S, x)) \in Int
    BY <1>1
  <2> HIDE DEF n
  <2> QED
    BY <2>1, <2>2
<1>5. \A k \in 1 .. l : \E x \in T : rank[x] = k
  <2> TAKE k \in 1 .. l
  <2>1. k \in 1 .. n
    <3> HIDE DEF n
    <3> QED
      BY <1>1
  <2>2. PICK x \in S : Cardinality(Below(R, S, x)) = k - 1
    BY <2>1, RankFound
  <2>3. x \in T
    <3> HIDE DEF n
    <3> QED
      BY <1>1, <2>2
  <2> QED
    BY <2>2, <2>3
<1>6. rank \in Bijection(T, 1 .. l)
  <2> HIDE DEF rank, T, l
  <2> QED
    BY <1>3, <1>4, <1>5 DEF Bijection, Injection, Surjection, IsInjective
<1>7. Cardinality(1 .. l) = Cardinality(T)
  <2>1. ExistsBijection(T, 1 .. l)
    BY <1>6 DEF ExistsBijection
  <2> HIDE DEF T, l
  <2> QED
    BY <1>2, <2>1, FS_Bijection
<1>8. Cardinality(1 .. l) = l
  <2>1. l \in Int /\ 1 \in Int
    BY <1>3
  <2> HIDE DEF l
  <2>2. Cardinality(1 .. l) = IF 1 > l THEN 0 ELSE l - 1 + 1
    BY <2>1, FS_Interval
  <2> QED
    BY <1>3, <2>2
<1> QED
  BY <1>2, <1>7, <1>8, Zenon

\* Among finitely many positions with a value there is a first best one.
LEMMA FirstBestFound ==
  ASSUME NEW S, IsFiniteSet(S), S # {}, NEW v, \A i \in S : i \in Int /\ v[i] \in Int
  PROVE  \E i \in S : \A j \in S : v[j] < v[i] \/ (v[j] = v[i] /\ i <= j)
<1> DEFINE R == { u \in S \X S : v[u[2]] < v[u[1]] \/ (v[u[2]] = v[u[1]] /\ u[1] < u[2]) }
<1>1. IsOrder(R, S)
  BY DEF IsOrder
<1>2. Cardinality(S) \in Nat /\ Cardinality(S) # 0
  BY FS_CardinalityType, FS_EmptySet
<1>3. PICK i \in S : Cardinality(Below(R, S, i)) = 1 - 1
  <2>1. 1 \in 1 .. Cardinality(S)
    BY <1>2
  <2> HIDE DEF R
  <2> QED
    BY <1>1, <2>1, RankFound
<1>4. Below(R, S, i) = {}
  <2>1. Below(R, S, i) \in SUBSET S
    BY DEF Below
  <2> HIDE DEF R
  <2> QED
    BY <1>3, <2>1, FS_Subset, FS_EmptySet
<1>5. \A j \in S : j # i => <<i, j>> \in R
  BY <1>1, <1>4 DEF IsOrder, Below
<1>6. ASSUME NEW j \in S PROVE v[j] < v[i] \/ (v[j] = v[i] /\ i <= j)
  <2>1. CASE j = i
    BY <2>1
  <2>2. CASE j # i
    <3> DEFINE u == <<i, j>>
    <3>1. u \in R
      BY <1>5, <2>2
    <3>2. u[1] = i /\ u[2] = j
      OBVIOUS
    <3>3. v[u[2]] < v[u[1]] \/ (v[u[2]] = v[u[1]] /\ u[1] < u[2])
      BY <3>1
    <3> HIDE DEF u
    <3> QED
      BY <3>2, <3>3
  <2> QED
    BY <2>1, <2>2
<1> QED
  BY <1>6

\* A finite set of numbers has a largest one.
LEMMA MaxIn ==
  ASSUME NEW S, IsFiniteSet(S), S # {}, \A i \in S : i \in Int
  PROVE  Max(S) \in S /\ \A i \in S : i <= Max(S)
<1> DEFINE id == [i \in S |-> i]
<1>1. \A i \in S : i \in Int /\ id[i] \in Int
  OBVIOUS
<1>2. PICK i \in S : \A j \in S : id[j] < id[i] \/ (id[j] = id[i] /\ i <= j)
  <2> HIDE DEF id
  <2> QED
    BY <1>1, FirstBestFound
<1>3. \A j \in S : i >= j
  BY <1>2
<1>4. Max(S) \in S /\ \A j \in S : Max(S) >= j
  BY <1>3 DEF Max
<1> QED
  BY <1>4

\* A set of natural numbers has a least one.
LEMMA LeastNumber ==
  ASSUME NEW T \in SUBSET Nat, T # {}
  PROVE  \E m \in T : \A t \in T : m <= t
<1>1. PICK x \in T : TRUE
  OBVIOUS
<1> DEFINE F == { t \in T : t <= x }
           Bad == { 0 .. t : t \in F }
           I == 0 .. x
<1>2. IsFiniteSet(I)
  BY FS_Interval
<1>3. Bad \in SUBSET SUBSET I /\ Bad # {}
  BY <1>1
<1>4. PICK m \in Bad : \A s \in Bad : s \subseteq m => s = m
  <2> HIDE DEF Bad, I
  <2> QED
    BY <1>2, <1>3, Smallest
<1>5. PICK t \in F : m = 0 .. t
  BY <1>4
<1>6. ASSUME NEW u \in T, u < t PROVE FALSE
  <2>1. 0 .. u \in Bad /\ 0 .. u \subseteq m
    BY <1>5, <1>6
  <2>2. 0 .. u = 0 .. t
    BY <1>4, <1>5, <2>1
  <2>3. t \in 0 .. t /\ t \notin 0 .. u
    BY <1>5, <1>6
  <2> QED
    BY <2>2, <2>3
<1> QED
  BY <1>5, <1>6

-----------------------------------------------------------------------------
(* Folds.  A fold with op, which takes the elements of a set one after     *)
(* another as pick says, is a recursive function too.                      *)

FoldsUp(base, op, pick, S, g) ==
  g = [s \in SUBSET S |-> IF s = {} THEN base ELSE op[<< pick[s], g[s \ {pick[s]}] >>]]

LEMMA FoldsUpOnce ==
  ASSUME NEW base, NEW op, NEW pick, NEW S, NEW T, NEW g, NEW h, IsFiniteSet(S),
         \A s \in SUBSET S : s # {} => pick[s] \in s,
         FoldsUp(base, op, pick, S, g), FoldsUp(base, op, pick, T, h),
         NEW s \in SUBSET S, s \in SUBSET T
  PROVE  g[s] = h[s]
<1> DEFINE Bad == { t \in SUBSET S : t \subseteq T /\ g[t] # h[t] }
<1> SUFFICES ASSUME Bad # {} PROVE FALSE
  OBVIOUS
<1>0. Bad \in SUBSET SUBSET S
  OBVIOUS
<1>1. PICK m \in Bad : \A t \in Bad : t \subseteq m => t = m
  <2> HIDE DEF Bad
  <2> QED
    BY <1>0, Smallest
<1> DEFINE r == m \ {pick[m]}
<1>2. /\ g[m] = IF m = {} THEN base ELSE op[<< pick[m], g[r] >>]
      /\ h[m] = IF m = {} THEN base ELSE op[<< pick[m], h[r] >>]
  BY <1>1 DEF FoldsUp
<1>3. m # {}
  BY <1>1, <1>2
<1>4. r \subseteq m /\ r # m /\ r \in SUBSET S /\ r \subseteq T
  BY <1>1, <1>3
<1>5. g[r] = h[r]
  BY <1>1, <1>4
<1> QED
  BY <1>1, <1>2, <1>3, <1>5

LEMMA FoldsUpAlways ==
  ASSUME NEW base, NEW op, NEW pick, NEW S, IsFiniteSet(S),
         \A s \in SUBSET S : s # {} => pick[s] \in s
  PROVE  \E g : FoldsUp(base, op, pick, S, g)
<1> DEFINE Folded(t, g) == FoldsUp(base, op, pick, t, g)
           Bad == { t \in SUBSET S : ~ \E g : Folded(t, g) }
<1> SUFFICES ASSUME Bad # {} PROVE FALSE
  OBVIOUS
<1>0. Bad \in SUBSET SUBSET S
  OBVIOUS
<1>1. PICK m \in Bad : \A t \in Bad : t \subseteq m => t = m
  <2> HIDE DEF Bad
  <2> QED
    BY <1>0, Smallest
<1>2. \A t \in SUBSET m : t # m => \E g : Folded(t, g)
  BY <1>1
<1> DEFINE G(t) == CHOOSE g : Folded(t, g)
           Less1(s) == s \ {pick[s]}
           h == [s \in SUBSET m |-> IF s = {} THEN base
                                    ELSE op[<< pick[s], G(Less1(s))[Less1(s)] >>]]
<1>3. \A t \in SUBSET m : t # m => Folded(t, G(t))
  BY <1>2
<1>4. ASSUME NEW t \in SUBSET m, t # m
      PROVE  h[t] = G(t)[t]
  <2> DEFINE r == t \ {pick[t]}
  <2>1. Folded(t, G(t)) /\ IsFiniteSet(t) /\ \A s \in SUBSET t : s # {} => pick[s] \in s
    BY <1>1, <1>3, <1>4, FS_Subset
  <2>2. G(t)[t] = IF t = {} THEN base ELSE op[<< pick[t], G(t)[r] >>]
    BY <2>1 DEF FoldsUp
  <2>3. CASE t = {}
    BY <2>2, <2>3
  <2>4. CASE t # {}
    <3>1. r \in SUBSET t /\ r \in SUBSET m /\ r # m
      BY <1>4
    <3>2. Folded(r, G(r))
      BY <1>3, <3>1
    <3>3. G(t)[r] = G(r)[r]
      <4> HIDE DEF G, r
      <4> QED
        BY <2>1, <3>1, <3>2, FoldsUpOnce
    <3> QED
      BY <2>2, <2>4, <3>3
  <2> QED
    BY <2>3, <2>4
<1>5. Folded(m, h)
  <2>1. ASSUME NEW s \in SUBSET m, s # {}
        PROVE  G(Less1(s))[Less1(s)] = h[Less1(s)]
    <3>1. Less1(s) \in SUBSET m /\ Less1(s) # m
      BY <1>1, <2>1
    <3> QED
      BY <1>4, <3>1
  <2>2. \A s \in SUBSET m :
          h[s] = IF s = {} THEN base ELSE op[<< pick[s], G(Less1(s))[Less1(s)] >>]
    OBVIOUS
  <2>3. h = [s \in SUBSET m |-> h[s]]
    OBVIOUS
  <2> HIDE DEF h, G
  <2>4. \A s \in SUBSET m : h[s] = IF s = {} THEN base ELSE op[<< pick[s], h[Less1(s)] >>]
    BY <2>1, <2>2
  <2> QED
    BY <2>3, <2>4 DEF FoldsUp
<1> QED
  BY <1>1, <1>5

\* What a fold returns is in a set that its operation does not leave.
LEMMA FoldStays ==
  ASSUME NEW base, NEW op, NEW pick, NEW S, NEW g, IsFiniteSet(S),
         \A s \in SUBSET S : s # {} => pick[s] \in s,
         FoldsUp(base, op, pick, S, g),
         NEW V, base \in V, \A x \in S, v \in V : op[<<x, v>>] \in V
  PROVE  \A s \in SUBSET S : g[s] \in V
<1> DEFINE Bad == { s \in SUBSET S : g[s] \notin V }
<1> SUFFICES ASSUME Bad # {} PROVE FALSE
  OBVIOUS
<1>0. Bad \in SUBSET SUBSET S
  OBVIOUS
<1>1. PICK m \in Bad : \A t \in Bad : t \subseteq m => t = m
  <2> HIDE DEF Bad
  <2> QED
    BY <1>0, Smallest
<1> DEFINE r == m \ {pick[m]}
<1>2. g[m] = IF m = {} THEN base ELSE op[<< pick[m], g[r] >>]
  BY <1>1 DEF FoldsUp
<1>3. m # {}
  BY <1>1, <1>2
<1>4. r \subseteq m /\ r # m /\ r \in SUBSET S /\ pick[m] \in S
  BY <1>1, <1>3
<1>5. g[r] \in V
  BY <1>1, <1>4
<1> QED
  BY <1>1, <1>2, <1>3, <1>4, <1>5

\* FoldLeft over a sequence of n elements: g[1 .. k] is the result of the first
\* k of them, op[<<k, v>>] that of element k after v.
FoldsLeft(base, op, n, g) ==
  g = [s \in SUBSET (1 .. n) |-> IF s = {} THEN base ELSE op[<< Max(s), g[s \ {Max(s)}] >>]]

LEMMA UpToFinite == \A n \in Nat : IsFiniteSet(1 .. n)
BY FS_Interval

\* Such a fold is one that takes the largest element last.
LEMMA FoldsLeftUp ==
  ASSUME NEW n \in Nat
  PROVE  \E pick : /\ \A s \in SUBSET (1 .. n) : s # {} => pick[s] \in s
                   /\ \A base, op, g : FoldsLeft(base, op, n, g) <=> FoldsUp(base, op, pick, 1 .. n, g)
<1> DEFINE D    == 1 .. n
           pick == [s \in SUBSET D |-> Max(s)]
<1>1. IsFiniteSet(D) /\ D \subseteq Int
  BY UpToFinite
<1>2. \A s \in SUBSET D : pick[s] = Max(s) /\ (s # {} => Max(s) \in s)
  <2> TAKE s \in SUBSET D
  <2>1. IsFiniteSet(s) /\ \A i \in s : i \in Int
    <3> HIDE DEF D
    <3> QED
      BY <1>1, FS_Subset
  <2> QED
    BY <2>1, MaxIn
<1>3. ASSUME NEW base, NEW op, NEW g
      PROVE  FoldsLeft(base, op, n, g) <=> FoldsUp(base, op, pick, D, g)
  <2>1. [s \in SUBSET D |-> IF s = {} THEN base ELSE op[<< Max(s), g[s \ {Max(s)}] >>]]
          = [s \in SUBSET D |-> IF s = {} THEN base ELSE op[<< pick[s], g[s \ {pick[s]}] >>]]
    <3> HIDE DEF pick, D
    <3> QED
      BY <1>2
  <2> QED
    BY <2>1 DEF FoldsLeft, FoldsUp
<1> HIDE DEF pick
<1> QED
  BY <1>2, <1>3

\* There is a fold for every operation, and it does not leave a set that the
\* operation does not leave.
LEMMA FoldsLeftAlways ==
  ASSUME NEW n \in Nat, NEW base, NEW op
  PROVE  \E g : FoldsLeft(base, op, n, g)
<1>1. IsFiniteSet(1 .. n)
  BY UpToFinite
<1> QED
  BY <1>1, FoldsLeftUp, FoldsUpAlways

LEMMA FoldsLeftStays ==
  ASSUME NEW n \in Nat, NEW base, NEW op, NEW g, FoldsLeft(base, op, n, g),
         NEW V, base \in V, \A x \in 1 .. n, v \in V : op[<<x, v>>] \in V
  PROVE  \A s \in SUBSET (1 .. n) : g[s] \in V
<1>1. IsFiniteSet(1 .. n)
  BY UpToFinite
<1> DEFINE D == 1 .. n
<1>2. PICK pick : /\ \A s \in SUBSET D : s # {} => pick[s] \in s
                  /\ \A b, o, h : FoldsLeft(b, o, n, h) <=> FoldsUp(b, o, pick, D, h)
  BY FoldsLeftUp
<1>3. FoldsUp(base, op, pick, D, g) /\ IsFiniteSet(D) /\ \A x \in D, v \in V : op[<<x, v>>] \in V
  BY <1>1, <1>2
<1> HIDE DEF D
<1>4. \A s \in SUBSET D : g[s] \in V
  BY <1>2, <1>3, FoldStays
<1> QED
  BY <1>4 DEF D

\* Of the first k elements it is the last.
LEMMA MaxUpTo ==
  ASSUME NEW n \in Nat, NEW k \in 1 .. n
  PROVE  1 .. k \in SUBSET (1 .. n) /\ Max(1 .. k) = k /\ (1 .. k) \ {k} = 1 .. (k - 1)
<1>1. 1 .. k \in SUBSET (1 .. n) /\ k \in 1 .. k /\ (1 .. k) \ {k} = 1 .. (k - 1) /\ k \in Nat
  OBVIOUS
<1>2. IsFiniteSet(1 .. k)
  BY <1>1, UpToFinite
<1> DEFINE K == 1 .. k
<1>3. K # {} /\ \A i \in K : i \in Int /\ i <= k
  BY <1>1
<1>4. Max(K) \in K /\ \A i \in K : i <= Max(K)
  <2> HIDE DEF K
  <2> QED
    BY <1>2, <1>3, MaxIn DEF K
<1>5. k \in K
  BY <1>1
<1> HIDE DEF K
<1>6. Max(K) \in Int /\ Max(K) <= k /\ k <= Max(K)
  BY <1>3, <1>4, <1>5
<1>7. \A m \in Int : m <= k /\ k <= m => m = k
  BY <1>1
<1>8. Max(K) = k
  BY <1>6, <1>7
<1> QED
  BY <1>1, <1>8 DEF K

\* There is a fold of an operation that does not leave V, and it does not either.
LEMMA FoldExists ==
  ASSUME NEW n \in Nat, NEW V, NEW base \in V, NEW op, \A x \in 1 .. n, v \in V : op[<<x, v>>] \in V
  PROVE  \E g : /\ g = [s \in SUBSET (1 .. n) |-> IF s = {} THEN base ELSE op[<< Max(s), g[s \ {Max(s)}] >>]]
                /\ \A s \in SUBSET (1 .. n) : g[s] \in V /\ (s # {} => Max(s) \in 1 .. n)
<1> DEFINE D == 1 .. n
<1>1. IsFiniteSet(D) /\ \A i \in D : i \in Int
  BY UpToFinite
<1>2. \A s \in SUBSET D : s # {} => Max(s) \in D
  <2> HIDE DEF D
  <2> QED
    BY <1>1, FS_Subset, MaxIn
<1>3. PICK g : FoldsLeft(base, op, n, g)
  BY FoldsLeftAlways
<1>4. \A s \in SUBSET D : g[s] \in V
  BY <1>3, FoldsLeftStays
<1>5. g = [s \in SUBSET D |-> IF s = {} THEN base ELSE op[<< Max(s), g[s \ {Max(s)}] >>]]
  BY <1>3 DEF FoldsLeft
<1> QED
  BY <1>2, <1>4, <1>5

\* What an operation does, one element after the other.
FoldSteps(base, op, n, V, t) ==
  t \in [0 .. n -> V] /\ t[0] = base /\ \A k \in 1 .. n : t[k] = op[<< k, t[k - 1] >>]

LEMMA FoldRun ==
  ASSUME NEW n \in Nat, NEW base, NEW op, NEW g, FoldsLeft(base, op, n, g),
         NEW V, base \in V, \A x \in 1 .. n, v \in V : op[<<x, v>>] \in V
  PROVE  \E t : FoldSteps(base, op, n, V, t) /\ t[n] = g[1 .. n]
<1> DEFINE D == 1 .. n
           t == [k \in 0 .. n |-> g[1 .. k]]
<1>1. g = [s \in SUBSET D |-> IF s = {} THEN base ELSE op[<< Max(s), g[s \ {Max(s)}] >>]]
  BY DEF FoldsLeft
<1>2. \A s \in SUBSET D : g[s] \in V
  BY FoldsLeftStays
<1>3. ASSUME NEW k \in D PROVE t[k] = op[<< k, t[k - 1] >>]
  <2>1. 1 .. k \in SUBSET D /\ Max(1 .. k) = k /\ (1 .. k) \ {k} = 1 .. (k - 1) /\ k \in 1 .. k
    BY MaxUpTo
  <2>2. k \in 0 .. n /\ k - 1 \in 0 .. n
    OBVIOUS
  <2>3. t[k] = g[1 .. k] /\ t[k - 1] = g[1 .. (k - 1)]
    BY <2>2
  <2> HIDE DEF D, t
  <2>4. g[1 .. k] = op[<< k, g[1 .. (k - 1)] >>]
    BY <1>1, <2>1
  <2> QED
    BY <2>3, <2>4
<1>4. t[0] = base
  <2>1. 1 .. 0 = {} /\ 0 \in 0 .. n
    OBVIOUS
  <2>2. g[{}] = base
    BY <1>1
  <2> QED
    BY <2>1, <2>2
<1>5. t \in [0 .. n -> V] /\ t[n] = g[1 .. n]
  <2>1. \A k \in 0 .. n : 1 .. k \in SUBSET D
    OBVIOUS
  <2> QED
    BY <1>2, <2>1
<1> HIDE DEF t, D
<1>6. \A k \in D : t[k] = op[<< k, t[k - 1] >>]
  BY <1>3
<1> QED
  BY <1>4, <1>5, <1>6 DEF D, FoldSteps

\* Induction up to n.
LEMMA UpToAll ==
  ASSUME NEW n \in Nat, NEW S \in SUBSET (0 .. n), 0 \in S, \A k \in 1 .. n : k - 1 \in S => k \in S
  PROVE  \A k \in 0 .. n : k \in S
<1> DEFINE Bad == { k \in 0 .. n : k \notin S }
<1> SUFFICES ASSUME Bad # {} PROVE FALSE
  OBVIOUS
<1>1. Bad \in SUBSET Nat
  OBVIOUS
<1>2. PICK m \in Bad : \A t \in Bad : m <= t
  <2> HIDE DEF Bad
  <2> QED
    BY <1>1, LeastNumber
<1>3. m \in 1 .. n /\ m - 1 \in 0 .. n /\ m - 1 < m
  BY <1>2
<1>4. m - 1 \in S
  BY <1>2, <1>3
<1> QED
  BY <1>2, <1>3, <1>4

-----------------------------------------------------------------------------
(* Tables.  Row x of the table f is the function f[x].                     *)

\* g has the sums of the rows.
RowSums(f, A, B, g) == \A x \in A : g[x] = SumOver(f[x], B)

\* A table added up row by row.
LEMMA SumPairs ==
  ASSUME NEW A, NEW B, NEW f, NEW g, RowSums(f, A, B, g), IsFiniteSet(A), IsFiniteSet(B), NEW w,
         \A x \in A, y \in B : f[x][y] \in Int /\ w[<<x, y>>] = f[x][y]
  PROVE  SumOver(g, A) = SumOver(w, A \X B)
<1> DEFINE S == A \X B
           c == [u \in S |-> u[1]]
<1>1. IsFiniteSet(S)
  BY FS_Product
<1>2. \A u \in S : c[u] \in A /\ w[u] \in Int
  OBVIOUS
<1>3. ASSUME NEW x \in A
      PROVE  g[x] = SumOver(w, Fiber(c, S, x))
  <2> DEFINE T == Fiber(c, S, x)
             b == [y \in B |-> <<x, y>>]
             row == f[x]
  <2>1. T = { <<x, y>> : y \in B }
    BY DEF Fiber
  <2>2. /\ b \in [B -> T] /\ \A y, z \in B : b[y] = b[z] => y = z
        /\ \A t \in T : \E y \in B : b[y] = t
    BY <2>1
  <2>3. IsFiniteSet(T)
    <3>1. T \in SUBSET S
      BY DEF Fiber
    <3> QED
      BY <1>1, <3>1, FS_Subset
  <2>4. \A y \in B : row[y] \in Int /\ w[b[y]] = row[y]
    OBVIOUS
  <2> HIDE DEF T, b, row
  <2>5. SumOver(row, B) = SumOver(w, T)
    BY <2>2, <2>3, <2>4, SumRenamed
  <2> QED
    BY <2>5 DEF T, row, RowSums
<1> HIDE DEF S, c
<1>4. SumOver(g, A) = SumOver(w, S)
  BY ONLY IsFiniteSet(A), <1>1, <1>2, <1>3, SumFibers
<1> QED
  BY <1>4 DEF S

\* A table added up row by row or column by column.
LEMMA SumSwap ==
  ASSUME NEW A, NEW B, NEW f, NEW c, NEW g, NEW h, RowSums(f, A, B, g), RowSums(c, B, A, h),
         IsFiniteSet(A), IsFiniteSet(B),
         \A x \in A, y \in B : f[x][y] \in Int /\ c[y][x] = f[x][y]
  PROVE  SumOver(g, A) = SumOver(h, B)
<1> DEFINE S == A \X B
           T == B \X A
           w == [u \in S |-> f[u[1]][u[2]]]
           v == [u \in T |-> f[u[2]][u[1]]]
           b == [u \in S |-> << u[2], u[1] >>]
<1>1. IsFiniteSet(S) /\ IsFiniteSet(T)
  BY FS_Product
<1>2. SumOver(g, A) = SumOver(w, S)
  <2>1. \A x \in A, y \in B : f[x][y] \in Int /\ w[<<x, y>>] = f[x][y]
    OBVIOUS
  <2> HIDE DEF w
  <2> QED
    BY <2>1, SumPairs
<1>3. SumOver(h, B) = SumOver(v, T)
  <2>1. \A y \in B, x \in A : c[y][x] \in Int /\ v[<<y, x>>] = c[y][x]
    OBVIOUS
  <2> HIDE DEF v
  <2> QED
    BY <2>1, SumPairs
<1>4. SumOver(w, S) = SumOver(v, T)
  <2>1. /\ b \in [S -> T] /\ \A x, y \in S : b[x] = b[y] => x = y
        /\ \A t \in T : \E x \in S : b[x] = t
    <3>1. \A t \in T : << t[2], t[1] >> \in S /\ b[<< t[2], t[1] >>] = t
      OBVIOUS
    <3>2. \A u \in S : b[u] \in T /\ b[u][1] = u[2] /\ b[u][2] = u[1] /\ u = << u[1], u[2] >>
      OBVIOUS
    <3>3. \A x, y \in S : b[x] = b[y] => x = y
      <4> HIDE DEF b, S, T
      <4> QED
        BY <3>2
    <3>4. b = [u \in S |-> b[u]]
      OBVIOUS
    <3> HIDE DEF b, S, T
    <3>5. b \in [S -> T]
      BY <3>2, <3>4
    <3>6. \A t \in T : \E x \in S : b[x] = t
      BY <3>1
    <3> QED
      BY <3>3, <3>5, <3>6
  <2>2. \A u \in S : w[u] \in Int /\ v[b[u]] = w[u]
    OBVIOUS
  <2> HIDE DEF S, T, w, v, b
  <2> QED
    BY <1>1, <2>1, <2>2, SumRenamed
<1> QED
  BY <1>2, <1>3, <1>4

\* Ones added up count.
LEMMA CountIs ==
  ASSUME NEW S, IsFiniteSet(S), NEW T \in SUBSET S, NEW f,
         \A x \in T : f[x] = 1, \A x \in S \ T : f[x] = 0
  PROVE  SumOver(f, S) = Cardinality(T)
<1>1. IsFiniteSet(T)
  BY FS_Subset
<1>2. SumOver(f, T) = 1 * Cardinality(T)
  BY <1>1, SumConstant
<1>3. SumOver(f, S) = SumOver(f, T)
  <2>1. \A x \in T : f[x] \in Int /\ f[x] = f[x]
    OBVIOUS
  <2> QED
    BY <2>1, SumFilter
<1> QED
  BY <1>1, <1>2, <1>3, FS_CardinalityType

(***************************************************************************)
(* A sum of natural numbers, one element more or less.                     *)
(***************************************************************************)
LEMMA SumOneLess ==
  ASSUME NEW f, NEW P, IsFiniteSet(P), \A y \in P : f[y] \in Nat, NEW S \in SUBSET P, NEW x
  PROVE  /\ SumOver(f, S) \in Nat /\ SumOver(f, S \ {x}) \in Nat
         /\ SumOver(f, S \ {x}) <= SumOver(f, S)
<1> DEFINE T == S \ {x}
<1>1. T \in SUBSET S
  OBVIOUS
<1> HIDE DEF T
<1>2. IsFiniteSet(S) /\ IsFiniteSet(T) /\ (\A y \in S : f[y] \in Nat) /\ \A y \in T : f[y] \in Nat
  BY <1>1, FS_Subset
<1>3. SumOver(f, S) \in Nat /\ SumOver(f, T) \in Nat /\ SumOver(f, T) <= SumOver(f, S)
  BY <1>1, <1>2, SumNat
<1> QED
  BY <1>3 DEF T

LEMMA SumByElement ==
  ASSUME NEW f, NEW P, IsFiniteSet(P), \A x \in P : f[x] \in Nat
  PROVE  /\ SumOver(f, {}) = 0
         /\ \A S \in SUBSET P :
              /\ SumOver(f, S) \in Nat
              /\ \A x \in P \ S : SumOver(f, S \cup {x}) = SumOver(f, S) + f[x]
<1>1. SumOver(f, {}) = 0
  BY SumNothing
<1>2. \A S \in SUBSET P : IsFiniteSet(S) /\ SumOver(f, S) \in Nat
  BY FS_Subset, SumNat
<1>3. ASSUME NEW S \in SUBSET P, NEW x \in P, x \notin S
      PROVE  SumOver(f, S \cup {x}) = SumOver(f, S) + f[x]
  <2>1. IsFiniteSet(S) /\ \A y \in S \cup {x} : f[y] \in Int
    BY <1>2
  <2> QED
    BY <1>3, <2>1, SumAdd
<1> QED
  BY <1>1, <1>2, <1>3

=============================================================================
