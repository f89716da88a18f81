----------------------------- MODULE SumTheorems ----------------------------
(***************************************************************************)
(* What the sums of the models are: SumFunctionOnSet of module Functions   *)
(* over a finite set of integers.  The operator adds one chosen element at *)
(* a time; the lemmas say that any element may be taken first, so that one *)
(* changed summand changes the sum by as much.                             *)
(***************************************************************************)
EXTENDS Functions, Integers, FiniteSetTheorems, WellFoundedInduction, TLAPS

Pick(s) == CHOOSE x \in s : TRUE

\* g is the table of partial sums of f over the subsets of S.
Table(g, f, S) ==
    g = [s \in SUBSET S |-> IF s = {} THEN 0 ELSE f[Pick(s)] + g[s \ {Pick(s)}]]

\* The library's sum is an entry of such a table.
LEMMA SumByTable ==
    ASSUME NEW f, NEW S
    PROVE  SumFunctionOnSet(f, S) = (CHOOSE g : Table(g, f, S))[S]
BY DEF SumFunctionOnSet, FoldFunctionOnSet, MapThenFoldSet, Table, Pick

\* Among sets of subsets of a finite set there is always a smallest one: this
\* is how the proofs below reason by induction.
LEMMA SmallestSet ==
    ASSUME NEW S, IsFiniteSet(S), NEW T, T \subseteq SUBSET S, T # {}
    PROVE  \E s \in T : \A u \in T : u \subseteq s => u = s
<1>1. IsWellFoundedOn(StrictSubsetOrdering(S), FiniteSubsetsOf(S))
  BY FS_StrictSubsetOrderingWellFounded
<1>2. T \subseteq FiniteSubsetsOf(S)
  BY FS_Subset DEF FiniteSubsetsOf
<1>3. PICK s \in T : \A u \in T : <<u, s>> \notin StrictSubsetOrdering(S)
  BY <1>1, <1>2, WFMin
<1> QED BY <1>3 DEF StrictSubsetOrdering

\* The chosen element is one.
LEMMA PickIsMember ==
    ASSUME NEW s, s # {}
    PROVE  Pick(s) \in s
BY DEF Pick

\* What the table says of one subset.
LEMMA TableAt ==
    ASSUME NEW f, NEW S, NEW g, Table(g, f, S), NEW s \in SUBSET S
    PROVE  g[s] = IF s = {} THEN 0 ELSE f[Pick(s)] + g[s \ {Pick(s)}]
BY DEF Table

\* Two tables agree where both are defined.
LEMMA TableUnique ==
    ASSUME NEW f, NEW S, IsFiniteSet(S), NEW g, Table(g, f, S),
           NEW R, R \subseteq S, NEW h, Table(h, f, R)
    PROVE  \A s \in SUBSET R : g[s] = h[s]
<1> DEFINE Differ == {s \in SUBSET R : g[s] # h[s]}
<1> SUFFICES ASSUME Differ # {} PROVE FALSE
  OBVIOUS
<1>1. IsFiniteSet(R) /\ Differ \subseteq SUBSET R
  BY FS_Subset
<1>2. PICK s \in Differ : \A u \in Differ : u \subseteq s => u = s
  <2> HIDE DEF Differ
  <2> QED BY <1>1, SmallestSet
<1>3. s \in SUBSET R /\ s \in SUBSET S /\ g[s] # h[s]
  OBVIOUS
<1>4. s # {}
  <2>1. s = {} => g[s] = 0 /\ h[s] = 0
    BY <1>3 DEF Table
  <2> QED BY <1>3, <2>1
<1>5. s \ {Pick(s)} \notin Differ /\ s \ {Pick(s)} \in SUBSET R
  BY <1>2, <1>3, <1>4, PickIsMember
<1>6. g[s \ {Pick(s)}] = h[s \ {Pick(s)}]
  BY <1>5
<1> QED BY <1>3, <1>4, <1>6, TableAt

\* There is a table: the smallest subset without one could be given one.
LEMMA TableExists ==
    ASSUME NEW f, NEW S, IsFiniteSet(S)
    PROVE  \E g : Table(g, f, S)
<1> DEFINE Without == {s \in SUBSET S : \A g : ~Table(g, f, s)}
           T(s) == CHOOSE g : Table(g, f, s)
           V(s) == IF s = {} THEN 0 ELSE f[Pick(s)] + T(s \ {Pick(s)})[s \ {Pick(s)}]
<1> SUFFICES ASSUME Without # {} PROVE FALSE
  OBVIOUS
<1>1. PICK s \in Without : \A u \in Without : u \subseteq s => u = s
  <2>1. Without \subseteq SUBSET S
    OBVIOUS
  <2> HIDE DEF Without
  <2> QED BY <2>1, SmallestSet
<1>2. \A u \in SUBSET S : IsFiniteSet(u)
  BY FS_Subset
<1>3. \A u \in SUBSET s : u # s => Table(T(u), f, u)
  BY <1>1
<1>4. ASSUME NEW u \in SUBSET s, u # s
      PROVE  T(u)[u] = V(u)
  <2> HIDE DEF T
  <2>1. Table(T(u), f, u)
    BY <1>3, <1>4
  <2>2. CASE u = {}
    BY <2>1, <2>2, TableAt
  <2>3. CASE u # {}
    <3> DEFINE w == u \ {Pick(u)}
    <3>1. w \in SUBSET u /\ w \in SUBSET s /\ w # s
      BY <1>4, <2>3, PickIsMember
    <3>2. Table(T(w), f, w)
      BY <1>3, <3>1
    <3>3. T(u)[w] = T(w)[w]
      <4>1. IsFiniteSet(u) /\ w \subseteq u /\ w \in SUBSET w
        BY <1>2, <3>1
      <4> HIDE DEF w
      <4> QED BY <2>1, <3>2, <4>1, TableUnique
    <3>4. T(u)[u] = f[Pick(u)] + T(u)[w]
      BY <2>1, <2>3, TableAt
    <3> QED BY <2>3, <3>3, <3>4
  <2> QED BY <2>2, <2>3
<1>5. Table([u \in SUBSET s |-> V(u)], f, s)
  <2> DEFINE g == [u \in SUBSET s |-> V(u)]
  <2> HIDE DEF T
  <2> SUFFICES ASSUME NEW u \in SUBSET s
               PROVE  V(u) = IF u = {} THEN 0 ELSE f[Pick(u)] + g[u \ {Pick(u)}]
    BY DEF Table
  <2>1. CASE u = {}
    BY <2>1
  <2>2. CASE u # {}
    <3>1. u \ {Pick(u)} \in SUBSET s /\ u \ {Pick(u)} # s
      BY <2>2, PickIsMember
    <3>2. T(u \ {Pick(u)})[u \ {Pick(u)}] = V(u \ {Pick(u)})
      BY <1>4, <3>1
    <3>3. g[u \ {Pick(u)}] = V(u \ {Pick(u)})
      BY <3>1
    <3> HIDE DEF V, g
    <3>4. V(u) = f[Pick(u)] + T(u \ {Pick(u)})[u \ {Pick(u)}]
      BY <2>2 DEF V
    <3> QED BY <2>2, <3>2, <3>3, <3>4
  <2> QED BY <2>1, <2>2
<1> QED BY <1>1, <1>5

\* The sum adds the element its operator happens to choose.
LEMMA SumStep ==
    ASSUME NEW f, NEW S, IsFiniteSet(S)
    PROVE  SumFunctionOnSet(f, S) =
              IF S = {} THEN 0 ELSE f[Pick(S)] + SumFunctionOnSet(f, S \ {Pick(S)})
<1> DEFINE T(s) == CHOOSE g : Table(g, f, s)
<1>1. \A s \in SUBSET S : Table(T(s), f, s) /\ SumFunctionOnSet(f, s) = T(s)[s]
  BY TableExists, SumByTable, FS_Subset
<1> HIDE DEF T
<1>2. S \in SUBSET S /\ S \ {Pick(S)} \in SUBSET S
  OBVIOUS
<1>3. T(S)[S \ {Pick(S)}] = T(S \ {Pick(S)})[S \ {Pick(S)}]
  <2>1. S \ {Pick(S)} \subseteq S /\ S \ {Pick(S)} \in SUBSET (S \ {Pick(S)})
    OBVIOUS
  <2> QED BY <1>1, <1>2, <2>1, TableUnique
<1> QED BY <1>1, <1>2, <1>3, TableAt

\* Nothing adds up to nothing.
LEMMA SumOfNone == \A f : SumFunctionOnSet(f, {}) = 0
BY SumStep, FS_EmptySet

-----------------------------------------------------------------------------
\* A sum of integers is one.
LEMMA SumInt ==
    ASSUME NEW f, NEW S, IsFiniteSet(S), \A x \in S : f[x] \in Int
    PROVE  \A s \in SUBSET S : SumFunctionOnSet(f, s) \in Int
<1> DEFINE Bad == {s \in SUBSET S : SumFunctionOnSet(f, s) \notin Int}
<1> SUFFICES ASSUME Bad # {} PROVE FALSE
  OBVIOUS
<1>1. PICK s \in Bad : \A u \in Bad : u \subseteq s => u = s
  <2>1. Bad \subseteq SUBSET S
    OBVIOUS
  <2> HIDE DEF Bad
  <2> QED BY <2>1, SmallestSet
<1>2. IsFiniteSet(s) /\ s \in SUBSET S /\ SumFunctionOnSet(f, s) \notin Int
  BY FS_Subset
<1>3. s # {} /\ Pick(s) \in s
  <2>1. s # {}
    BY <1>2, SumOfNone
  <2> QED BY <2>1, PickIsMember
<1>4. SumFunctionOnSet(f, s \ {Pick(s)}) \in Int
  BY <1>1, <1>3
<1>5. SumFunctionOnSet(f, s) = f[Pick(s)] + SumFunctionOnSet(f, s \ {Pick(s)})
  BY <1>2, <1>3, SumStep
<1>6. f[Pick(s)] \in Int
  BY <1>2, <1>3
<1> HIDE DEF Bad
<1> QED BY <1>2, <1>4, <1>5, <1>6

\* Any element may be taken out first.
LEMMA SumRemove ==
    ASSUME NEW f, NEW S, IsFiniteSet(S), \A x \in S : f[x] \in Int, NEW x \in S
    PROVE  SumFunctionOnSet(f, S) = f[x] + SumFunctionOnSet(f, S \ {x})
<1> DEFINE Sum(s) == SumFunctionOnSet(f, s)
           Bad == {s \in SUBSET S : \E y \in s : Sum(s) # f[y] + Sum(s \ {y})}
<1> SUFFICES ASSUME Bad # {} PROVE FALSE
  OBVIOUS
<1>1. PICK s \in Bad : \A u \in Bad : u \subseteq s => u = s
  <2>1. Bad \subseteq SUBSET S
    OBVIOUS
  <2> HIDE DEF Bad
  <2> QED BY <2>1, SmallestSet
<1>2. PICK y \in s : Sum(s) # f[y] + Sum(s \ {y})
  OBVIOUS
<1>3. \A u \in SUBSET s : u # s => \A z \in u : Sum(u) = f[z] + Sum(u \ {z})
  BY <1>1
<1>4. \A u \in SUBSET s : IsFiniteSet(u) /\ Sum(u) \in Int
  BY FS_Subset, SumInt
<1>5. \A z \in s : f[z] \in Int
  OBVIOUS
<1> DEFINE p == Pick(s)
<1>6. p \in s
  BY <1>2, PickIsMember
<1> HIDE DEF Sum, Bad, p
<1>7. Sum(s) = f[p] + Sum(s \ {p})
  BY <1>2, <1>4, SumStep DEF Sum, p
<1>8. CASE p = y
  BY <1>2, <1>7, <1>8
<1>9. CASE p # y
  <2> DEFINE rest == Sum((s \ {y}) \ {p})
  <2>1. Sum(s \ {p}) = f[y] + rest
    <3>1. (s \ {p}) \ {y} = (s \ {y}) \ {p}
      OBVIOUS
    <3>2. Sum(s \ {p}) = f[y] + Sum((s \ {p}) \ {y})
      BY <1>2, <1>3, <1>6, <1>9
    <3> QED BY <3>1, <3>2
  <2>2. Sum(s \ {y}) = f[p] + rest
    BY <1>2, <1>3, <1>6, <1>9
  <2>3. rest \in Int /\ f[p] \in Int /\ f[y] \in Int
    BY <1>2, <1>4, <1>5, <1>6
  <2> HIDE DEF rest
  <2>4. Sum(s) = f[p] + (f[y] + rest)
    BY <1>7, <2>1
  <2>5. Sum(s) # f[y] + (f[p] + rest)
    BY <1>2, <2>2
  <2> QED BY <2>3, <2>4, <2>5
<1> QED BY <1>8, <1>9

\* The sum depends on the summands alone.
LEMMA SumCongruence ==
    ASSUME NEW f, NEW g, NEW S, IsFiniteSet(S), \A x \in S : f[x] = g[x]
    PROVE  SumFunctionOnSet(f, S) = SumFunctionOnSet(g, S)
<1> DEFINE Bad == {s \in SUBSET S : SumFunctionOnSet(f, s) # SumFunctionOnSet(g, s)}
<1> SUFFICES ASSUME Bad # {} PROVE FALSE
  OBVIOUS
<1>1. PICK s \in Bad : \A u \in Bad : u \subseteq s => u = s
  <2>1. Bad \subseteq SUBSET S
    OBVIOUS
  <2> HIDE DEF Bad
  <2> QED BY <2>1, SmallestSet
<1>2. IsFiniteSet(s) /\ s \in SUBSET S /\ SumFunctionOnSet(f, s) # SumFunctionOnSet(g, s)
  BY FS_Subset
<1>3. s # {} /\ Pick(s) \in s
  <2>1. s # {}
    BY <1>2, SumOfNone
  <2> QED BY <2>1, PickIsMember
<1>4. SumFunctionOnSet(f, s \ {Pick(s)}) = SumFunctionOnSet(g, s \ {Pick(s)})
  BY <1>1, <1>3
<1>5. f[Pick(s)] = g[Pick(s)]
  BY <1>2, <1>3
<1> HIDE DEF Bad
<1> QED BY <1>2, <1>3, <1>4, <1>5, SumStep

\* Summands that are not negative add up to no less than each of them.
LEMMA SumNat ==
    ASSUME NEW f, NEW S, IsFiniteSet(S), \A x \in S : f[x] \in Nat
    PROVE  /\ SumFunctionOnSet(f, S) \in Nat
           /\ \A x \in S : f[x] <= SumFunctionOnSet(f, S)
<1> DEFINE Bad == {s \in SUBSET S : SumFunctionOnSet(f, s) \notin Nat}
<1>1. Bad = {}
  <2> SUFFICES ASSUME Bad # {} PROVE FALSE
    OBVIOUS
  <2>1. PICK s \in Bad : \A u \in Bad : u \subseteq s => u = s
    <3>1. Bad \subseteq SUBSET S
      OBVIOUS
    <3> HIDE DEF Bad
    <3> QED BY <3>1, SmallestSet
  <2>2. IsFiniteSet(s) /\ s \in SUBSET S /\ SumFunctionOnSet(f, s) \notin Nat
    BY FS_Subset
  <2>3. s # {} /\ Pick(s) \in s
    <3>1. s # {}
      BY <2>2, SumOfNone
    <3> QED BY <3>1, PickIsMember
  <2>4. SumFunctionOnSet(f, s \ {Pick(s)}) \in Nat
    BY <2>1, <2>3
  <2>5. SumFunctionOnSet(f, s) = f[Pick(s)] + SumFunctionOnSet(f, s \ {Pick(s)})
    BY <2>2, <2>3, SumStep
  <2>6. f[Pick(s)] \in Nat
    BY <2>2, <2>3
  <2> HIDE DEF Bad
  <2> QED BY <2>2, <2>4, <2>5, <2>6
<1>2. \A s \in SUBSET S : SumFunctionOnSet(f, s) \in Nat
  BY <1>1
<1> HIDE DEF Bad
<1>3. ASSUME NEW x \in S
      PROVE  f[x] <= SumFunctionOnSet(f, S)
  <2>1. SumFunctionOnSet(f, S) = f[x] + SumFunctionOnSet(f, S \ {x})
    BY SumRemove
  <2>2. SumFunctionOnSet(f, S \ {x}) \in Nat /\ f[x] \in Nat
    BY <1>2
  <2> QED BY <2>1, <2>2
<1> QED BY <1>2, <1>3

\* Zeros add up to zero.
LEMMA SumZero ==
    ASSUME NEW f, NEW S, IsFiniteSet(S), \A x \in S : f[x] = 0
    PROVE  SumFunctionOnSet(f, S) = 0
<1> DEFINE Bad == {s \in SUBSET S : SumFunctionOnSet(f, s) # 0}
<1> SUFFICES ASSUME Bad # {} PROVE FALSE
  OBVIOUS
<1>1. PICK s \in Bad : \A u \in Bad : u \subseteq s => u = s
  <2>1. Bad \subseteq SUBSET S
    OBVIOUS
  <2> HIDE DEF Bad
  <2> QED BY <2>1, SmallestSet
<1>2. IsFiniteSet(s) /\ s \in SUBSET S /\ SumFunctionOnSet(f, s) # 0
  BY FS_Subset
<1>3. s # {} /\ Pick(s) \in s
  <2>1. s # {}
    BY <1>2, SumOfNone
  <2> QED BY <2>1, PickIsMember
<1>4. SumFunctionOnSet(f, s \ {Pick(s)}) = 0 /\ f[Pick(s)] = 0
  BY <1>1, <1>3
<1> HIDE DEF Bad
<1> QED BY <1>2, <1>3, <1>4, SumStep

\* One changed summand changes the sum by as much.
LEMMA SumChange ==
    ASSUME NEW f, NEW g, NEW S, IsFiniteSet(S), \A x \in S : f[x] \in Int /\ g[x] \in Int,
           NEW y \in S, \A x \in S \ {y} : f[x] = g[x]
    PROVE  /\ SumFunctionOnSet(f, S) \in Int
           /\ SumFunctionOnSet(g, S) = SumFunctionOnSet(f, S) - f[y] + g[y]
<1>1. SumFunctionOnSet(f, S) = f[y] + SumFunctionOnSet(f, S \ {y})
  BY SumRemove
<1>2. SumFunctionOnSet(g, S) = g[y] + SumFunctionOnSet(g, S \ {y})
  BY SumRemove
<1>3. SumFunctionOnSet(f, S \ {y}) = SumFunctionOnSet(g, S \ {y})
  <2>1. IsFiniteSet(S \ {y})
    BY FS_RemoveElement
  <2> QED BY <2>1, SumCongruence
<1>4. SumFunctionOnSet(f, S \ {y}) \in Int /\ f[y] \in Int /\ g[y] \in Int
  BY SumInt
<1> QED BY <1>1, <1>2, <1>3, <1>4
\* The sum of sums.
LEMMA SumAdd ==
    ASSUME NEW f, NEW g, NEW h, NEW S, IsFiniteSet(S),
           \A x \in S : f[x] \in Int /\ g[x] \in Int /\ h[x] = f[x] + g[x]
    PROVE  SumFunctionOnSet(h, S) = SumFunctionOnSet(f, S) + SumFunctionOnSet(g, S)
<1> DEFINE Bad == {s \in SUBSET S : SumFunctionOnSet(h, s) # SumFunctionOnSet(f, s) + SumFunctionOnSet(g, s)}
<1> SUFFICES ASSUME Bad # {} PROVE FALSE
  OBVIOUS
<1>1. PICK s \in Bad : \A u \in Bad : u \subseteq s => u = s
  <2>1. Bad \subseteq SUBSET S
    OBVIOUS
  <2> HIDE DEF Bad
  <2> QED BY <2>1, SmallestSet
<1>2. /\ IsFiniteSet(s) /\ s \in SUBSET S
      /\ SumFunctionOnSet(h, s) # SumFunctionOnSet(f, s) + SumFunctionOnSet(g, s)
  BY FS_Subset
<1>3. s # {} /\ Pick(s) \in s
  <2>1. s # {}
    <3>1. /\ SumFunctionOnSet(f, {}) = 0
          /\ SumFunctionOnSet(g, {}) = 0
          /\ SumFunctionOnSet(h, {}) = 0
      BY SumOfNone
    <3> HIDE DEF Bad
    <3> QED BY <1>2, <3>1
  <2> QED BY <2>1, PickIsMember
<1>4. SumFunctionOnSet(h, s \ {Pick(s)}) =
         SumFunctionOnSet(f, s \ {Pick(s)}) + SumFunctionOnSet(g, s \ {Pick(s)})
  BY <1>1, <1>3
<1>5. /\ SumFunctionOnSet(h, s) = h[Pick(s)] + SumFunctionOnSet(h, s \ {Pick(s)})
      /\ SumFunctionOnSet(f, s) = f[Pick(s)] + SumFunctionOnSet(f, s \ {Pick(s)})
      /\ SumFunctionOnSet(g, s) = g[Pick(s)] + SumFunctionOnSet(g, s \ {Pick(s)})
  BY <1>2, <1>3, SumStep
<1>6. /\ f[Pick(s)] \in Int /\ g[Pick(s)] \in Int /\ h[Pick(s)] = f[Pick(s)] + g[Pick(s)]
      /\ SumFunctionOnSet(f, s \ {Pick(s)}) \in Int /\ SumFunctionOnSet(g, s \ {Pick(s)}) \in Int
  <2>1. s \ {Pick(s)} \in SUBSET S
    BY <1>2
  <2> QED BY <1>2, <1>3, <2>1, SumInt
<1> HIDE DEF Bad
<1> QED BY <1>2, <1>4, <1>5, <1>6

\* Where there is nothing to add the set does not matter.
LEMMA SumSupport ==
    ASSUME NEW f, NEW S, IsFiniteSet(S), \A x \in S : f[x] \in Int,
           NEW R, R \subseteq S, \A x \in S \ R : f[x] = 0
    PROVE  SumFunctionOnSet(f, S) = SumFunctionOnSet(f, R)
<1> DEFINE Bad == {s \in SUBSET S : R \subseteq s /\ SumFunctionOnSet(f, s) # SumFunctionOnSet(f, R)}
<1> SUFFICES ASSUME Bad # {} PROVE FALSE
  OBVIOUS
<1>1. PICK s \in Bad : \A u \in Bad : u \subseteq s => u = s
  <2>1. Bad \subseteq SUBSET S
    OBVIOUS
  <2> HIDE DEF Bad
  <2> QED BY <2>1, SmallestSet
<1>2. IsFiniteSet(s) /\ s \in SUBSET S /\ R \subseteq s
      /\ SumFunctionOnSet(f, s) # SumFunctionOnSet(f, R)
  BY FS_Subset
<1>3. PICK x \in s : x \notin R
  BY <1>2
<1>4. SumFunctionOnSet(f, s) = f[x] + SumFunctionOnSet(f, s \ {x})
  <2>1. \A y \in s : f[y] \in Int
    BY <1>2
  <2> QED BY <1>2, <2>1, SumRemove
<1>5. SumFunctionOnSet(f, s \ {x}) = SumFunctionOnSet(f, R)
  BY <1>1, <1>2, <1>3
<1>6. f[x] = 0 /\ SumFunctionOnSet(f, s \ {x}) \in Int
  <2>1. s \ {x} \in SUBSET S
    BY <1>2
  <2> QED BY <1>2, <1>3, <2>1, SumInt
<1> HIDE DEF Bad
<1> QED BY <1>2, <1>4, <1>5, <1>6

\* A sum of one.
LEMMA SumOfOne ==
    ASSUME NEW f, NEW x, f[x] \in Int
    PROVE  SumFunctionOnSet(f, {x}) = f[x]
<1>1. SumFunctionOnSet(f, {x}) = f[x] + SumFunctionOnSet(f, {x} \ {x})
  <2>1. IsFiniteSet({x}) /\ x \in {x} /\ \A y \in {x} : f[y] \in Int
    BY FS_Singleton
  <2> QED BY <2>1, SumRemove
<1>2. {x} \ {x} = {}
  OBVIOUS
<1> QED BY <1>1, <1>2, SumOfNone

\* Larger summands, larger sum.
LEMMA SumMonotone ==
    ASSUME NEW f, NEW g, NEW S, IsFiniteSet(S),
           \A x \in S : f[x] \in Int /\ g[x] \in Int /\ f[x] <= g[x]
    PROVE  SumFunctionOnSet(f, S) <= SumFunctionOnSet(g, S)
<1> DEFINE d == [x \in S |-> g[x] - f[x]]
<1>1. \A x \in S : d[x] \in Nat
  OBVIOUS
<1>2. SumFunctionOnSet(g, S) = SumFunctionOnSet(f, S) + SumFunctionOnSet(d, S)
  <2>1. \A x \in S : f[x] \in Int /\ d[x] \in Int /\ g[x] = f[x] + d[x]
    OBVIOUS
  <2> HIDE DEF d
  <2> QED BY <2>1, SumAdd
<1> HIDE DEF d
<1>3. SumFunctionOnSet(d, S) \in Nat
  BY <1>1, SumNat
<1>4. SumFunctionOnSet(f, S) \in Int
  BY SumInt
<1> QED BY <1>2, <1>3, <1>4

\* Among numbers there is a least one.
LEMMA LeastNumber ==
    ASSUME NEW S, S \subseteq Nat, S # {}
    PROVE  \E n \in S : \A m \in S : n <= m
<1>1. PICK n \in S : \A m \in S : <<m, n>> \notin OpToRel(<, Nat)
  BY NatLessThanWellFounded, WFMin
<1>2. \A m \in S : ~(m < n)
  BY <1>1 DEF OpToRel
<1> QED BY <1>2
=============================================================================
