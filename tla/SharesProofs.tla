---------------------------- MODULE SharesProofs ----------------------------
(***************************************************************************)
(* Sums over finite sets, and with them the conservation of the shares     *)
(* (Shares), for every database of runs.                                   *)
(***************************************************************************)
EXTENDS Shares, FiniteSetTheorems, WellFoundedInduction, TLAPS

-----------------------------------------------------------------------------
(* SumFunctionOnSet, from its recursive definition.  Induction is done by  *)
(* a smallest counterexample.                                              *)

Pick(s) == CHOOSE x \in s : TRUE

\* The two additions: of numbers, and of fractions.
Zero(fractions) == IF fractions THEN <<0, 1>> ELSE 0
Add(fractions, u, v) == IF fractions THEN Plus(u, v) ELSE u + v

IsTable(g, m, f, S) ==
    g = [s \in SUBSET S |-> IF s = {} THEN Zero(m)
                           ELSE Add(m, f[Pick(s)], g[s \ {Pick(s)}])]

Table(m, f, S) == CHOOSE g : IsTable(g, m, f, S)

LEMMA SumIsTable == ASSUME NEW f, NEW S PROVE SumFunctionOnSet(f, S) = Table(FALSE, f, S)[S]
  BY DEF SumFunctionOnSet, FoldFunctionOnSet, MapThenFoldSet, Table, IsTable, Pick, Add, Zero

LEMMA FractionsAreTable == ASSUME NEW f, NEW S PROVE PlusAll(f, S) = Table(TRUE, f, S)[S]
  BY DEF PlusAll, FoldFunctionOnSet, MapThenFoldSet, Table, IsTable, Pick, Add, Zero

\* Of the subsets of a finite set with some property one is smallest.
LEMMA Smallest ==
    ASSUME NEW S, IsFiniteSet(S), NEW T \in SUBSET (SUBSET S), T # {}
    PROVE  \E U \in T : \A V \in SUBSET U : V # U => V \notin T
  <1>1. FiniteSubsetsOf(S) = SUBSET S
    BY FS_FiniteSubsetsOfFinite
  <1>2. IsWellFoundedOn(StrictSubsetOrdering(S), SUBSET S)
    BY <1>1, FS_StrictSubsetOrderingWellFounded
  <1>3. PICK U \in T : \A V \in T : ~ (<<V, U>> \in StrictSubsetOrdering(S))
    BY <1>2, WFMin
  <1>4. ASSUME NEW V \in SUBSET U, V # U, V \in T PROVE FALSE
    <2>1. <<V, U>> \in StrictSubsetOrdering(S)
      BY <1>4 DEF StrictSubsetOrdering
    <2> QED BY <1>3, <1>4, <2>1
  <1> QED BY <1>3, <1>4

LEMMA PickIsOne == ASSUME NEW s, s # {} PROVE Pick(s) \in s
  BY DEF Pick

LEMMA TableRows ==
    ASSUME NEW g, NEW m, NEW f, NEW S, IsTable(g, m, f, S)
    PROVE  /\ g[{}] = Zero(m)
           /\ \A s \in SUBSET S : s # {} => g[s] = Add(m, f[Pick(s)], g[s \ {Pick(s)}])
  <1> DEFINE row(s) == IF s = {} THEN Zero(m) ELSE Add(m, f[Pick(s)], g[s \ {Pick(s)}])
  <1>1. g = [s \in SUBSET S |-> row(s)]
    BY DEF IsTable
  <1>2. \A s \in SUBSET S : g[s] = row(s)
    <2> HIDE DEF row
    <2> QED BY <1>1
  <1> QED BY <1>2

LEMMA TableUnique ==
    ASSUME NEW m, NEW f, NEW S, NEW U, NEW g, NEW h, IsTable(g, m, f, S), IsTable(h, m, f, U),
           NEW s, s \subseteq S, s \subseteq U, IsFiniteSet(s)
    PROVE  g[s] = h[s]
  <1> DEFINE Bad == {t \in SUBSET s : g[t] # h[t]}
  <1>1. SUFFICES ASSUME Bad # {} PROVE FALSE
    OBVIOUS
  <1>2. PICK t \in Bad : \A v \in SUBSET t : v # t => v \notin Bad
    <2>1. Bad \in SUBSET (SUBSET s)
      OBVIOUS
    <2> HIDE DEF Bad
    <2> QED BY <1>1, <2>1, Smallest
  <1>3. t \in SUBSET S /\ t \in SUBSET U
    OBVIOUS
  <1>4. CASE t = {}
    BY <1>4, TableRows
  <1>5. CASE t # {}
    <2> DEFINE v == t \ {Pick(t)}
    <2>1. v \in SUBSET t /\ v # t
      BY <1>5, PickIsOne
    <2>2. g[v] = h[v]
      BY <1>2, <2>1
    <2>3. g[t] = Add(m, f[Pick(t)], g[v]) /\ h[t] = Add(m, f[Pick(t)], h[v])
      BY <1>3, <1>5, TableRows
    <2> QED BY <2>2, <2>3
  <1> QED BY <1>4, <1>5

LEMMA TableExists ==
    ASSUME NEW m, NEW f, NEW S, IsFiniteSet(S)
    PROVE  IsTable(Table(m, f, S), m, f, S)
  <1> DEFINE Bad == {U \in SUBSET S : ~ IsTable(Table(m, f, U), m, f, U)}
  <1>1. SUFFICES ASSUME Bad # {} PROVE FALSE
    OBVIOUS
  <1>2. PICK U \in Bad : \A V \in SUBSET U : V # U => V \notin Bad
    <2>1. Bad \in SUBSET (SUBSET S)
      OBVIOUS
    <2> HIDE DEF Bad
    <2> QED BY <1>1, <2>1, Smallest
  <1>3. \A V \in SUBSET U : V # U => IsTable(Table(m, f, V), m, f, V)
    BY <1>2
  <1>4. \A V \in SUBSET U : IsFiniteSet(V)
    BY FS_Subset
  <1> DEFINE rest(s) == s \ {Pick(s)}
             row(s) == IF s = {} THEN Zero(m) ELSE Add(m, f[Pick(s)], Table(m, f, rest(s))[rest(s)])
             g == [s \in SUBSET U |-> row(s)]
  <1>5. ASSUME NEW s \in SUBSET U, s # {}
        PROVE  g[rest(s)] = Table(m, f, rest(s))[rest(s)]
    <2> DEFINE r == rest(s)
    <2>1. r \in SUBSET U /\ r # U
      BY <1>5, PickIsOne
    <2>2. IsTable(Table(m, f, r), m, f, r)
      BY <1>3, <2>1
    <2>3. g[r] = row(r)
      BY <2>1
    <2>4. CASE r = {}
      <3>1. Table(m, f, r)[{}] = Zero(m)
        BY <2>2, TableRows
      <3> QED BY <2>3, <2>4, <3>1
    <2>5. CASE r # {}
      <3> DEFINE q == rest(r)
      <3>1. q \in SUBSET r /\ q # r /\ q \in SUBSET U /\ q # U
        BY <2>1, <2>5, PickIsOne
      <3>2. IsTable(Table(m, f, q), m, f, q) /\ IsFiniteSet(q)
        BY <1>3, <1>4, <3>1
      <3>3. Table(m, f, r)[r] = Add(m, f[Pick(r)], Table(m, f, r)[q])
        <4>1. r \in SUBSET r
          OBVIOUS
        <4> HIDE DEF r
        <4> QED BY <2>2, <2>5, <4>1, TableRows
      <3>4. Table(m, f, r)[q] = Table(m, f, q)[q]
        <4> HIDE DEF r, q
        <4> QED BY <2>2, <3>1, <3>2, TableUnique
      <3> QED BY <2>3, <2>5, <3>3, <3>4
    <2> QED BY <2>4, <2>5
  <1>6. \A s \in SUBSET U : row(s) = IF s = {} THEN Zero(m) ELSE Add(m, f[Pick(s)], g[s \ {Pick(s)}])
    <2> HIDE DEF g
    <2> QED BY <1>5
  <1>7. g = [s \in SUBSET U |-> IF s = {} THEN Zero(m) ELSE Add(m, f[Pick(s)], g[s \ {Pick(s)}])]
    BY <1>6
  <1>8. \E h : IsTable(h, m, f, U)
    <2> HIDE DEF g
    <2> QED BY <1>7 DEF IsTable
  <1>9. IsTable(Table(m, f, U), m, f, U)
    BY <1>8 DEF Table
  <1> QED BY <1>2, <1>9

LEMMA TablePicks ==
    ASSUME NEW m, NEW f, NEW S, IsFiniteSet(S)
    PROVE  /\ S = {} => Table(m, f, S)[S] = Zero(m)
           /\ S # {} => LET r == S \ {Pick(S)}
                       IN Table(m, f, S)[S] = Add(m, f[Pick(S)], Table(m, f, r)[r])
  <1>1. IsTable(Table(m, f, S), m, f, S)
    BY TableExists
  <1>2. CASE S = {}
    BY <1>1, <1>2, TableRows
  <1>3. CASE S # {}
    <2> DEFINE r == S \ {Pick(S)}
    <2>1. IsFiniteSet(r) /\ r \subseteq S /\ S \in SUBSET S
      BY FS_Subset
    <2>2. IsTable(Table(m, f, r), m, f, r)
      BY <2>1, TableExists
    <2>3. Table(m, f, S)[S] = Add(m, f[Pick(S)], Table(m, f, S)[r])
      BY <1>1, <1>3, <2>1, TableRows
    <2>4. Table(m, f, S)[r] = Table(m, f, r)[r]
      <3> HIDE DEF r
      <3> QED BY <1>1, <2>1, <2>2, TableUnique
    <2> QED BY <1>3, <2>3, <2>4
  <1> QED BY <1>2, <1>3

\* A sum over a finite set, by one of its elements.
LEMMA SumPicks ==
    ASSUME NEW f, NEW S, IsFiniteSet(S)
    PROVE  /\ S = {} => SumFunctionOnSet(f, S) = 0
           /\ S # {} => SumFunctionOnSet(f, S)
                          = f[Pick(S)] + SumFunctionOnSet(f, S \ {Pick(S)})
  <1>1. /\ S = {} => Table(FALSE, f, S)[S] = Zero(FALSE)
        /\ S # {} => Table(FALSE, f, S)[S] = Add(FALSE, f[Pick(S)],
                         Table(FALSE, f, S \ {Pick(S)})[S \ {Pick(S)}])
    BY TablePicks
  <1> QED BY <1>1, SumIsTable DEF Zero, Add

LEMMA FractionsPick ==
    ASSUME NEW f, NEW S, IsFiniteSet(S)
    PROVE  /\ S = {} => PlusAll(f, S) = <<0, 1>>
           /\ S # {} => PlusAll(f, S) = Plus(f[Pick(S)], PlusAll(f, S \ {Pick(S)}))
  <1>1. /\ S = {} => Table(TRUE, f, S)[S] = Zero(TRUE)
        /\ S # {} => Table(TRUE, f, S)[S] = Add(TRUE, f[Pick(S)],
                         Table(TRUE, f, S \ {Pick(S)})[S \ {Pick(S)}])
    BY TablePicks
  <1> QED BY <1>1, FractionsAreTable DEF Zero, Add

-----------------------------------------------------------------------------
(* Sums of numbers.                                                        *)

LEMMA SumType ==
    ASSUME NEW f, NEW S, IsFiniteSet(S), \A x \in S : f[x] \in Int
    PROVE  SumFunctionOnSet(f, S) \in Int
  <1> DEFINE Bad == {U \in SUBSET S : SumFunctionOnSet(f, U) \notin Int}
  <1>1. SUFFICES ASSUME Bad # {} PROVE FALSE
    OBVIOUS
  <1>2. PICK U \in Bad : \A V \in SUBSET U : V # U => V \notin Bad
    <2>1. Bad \in SUBSET (SUBSET S)
      OBVIOUS
    <2> HIDE DEF Bad
    <2> QED BY <1>1, <2>1, Smallest
  <1>3. IsFiniteSet(U) /\ U \in SUBSET S
    BY FS_Subset
  <1>4. CASE U = {}
    <2>1. SumFunctionOnSet(f, U) = 0
      BY <1>3, <1>4, SumPicks
    <2> QED BY <1>2, <2>1
  <1>5. CASE U # {}
    <2>1. Pick(U) \in U /\ U \ {Pick(U)} # U
      BY <1>5, PickIsOne
    <2>2. SumFunctionOnSet(f, U \ {Pick(U)}) \in Int
      BY <1>2, <2>1
    <2>3. SumFunctionOnSet(f, U) = f[Pick(U)] + SumFunctionOnSet(f, U \ {Pick(U)})
      BY <1>3, <1>5, SumPicks
    <2> QED BY <1>3, <2>1, <2>2, <2>3
  <1> QED BY <1>4, <1>5

LEMMA SumEmpty == ASSUME NEW f PROVE SumFunctionOnSet(f, {}) = 0
  BY SumPicks, FS_EmptySet

\* The element a sum is taken apart by does not matter.
LEMMA SumRemove ==
    ASSUME NEW f, NEW S, IsFiniteSet(S), \A x \in S : f[x] \in Int, NEW x \in S
    PROVE  SumFunctionOnSet(f, S) = f[x] + SumFunctionOnSet(f, S \ {x})
  <1> DEFINE Sum(U) == SumFunctionOnSet(f, U)
             Bad == {U \in SUBSET S : \E y \in U : Sum(U) # f[y] + Sum(U \ {y})}
  <1>1. SUFFICES ASSUME Bad # {} PROVE FALSE
    OBVIOUS
  <1>2. PICK U \in Bad : \A V \in SUBSET U : V # U => V \notin Bad
    <2>1. Bad \in SUBSET (SUBSET S)
      OBVIOUS
    <2> HIDE DEF Bad
    <2> QED BY <1>1, <2>1, Smallest
  <1>3. PICK y \in U : Sum(U) # f[y] + Sum(U \ {y})
    BY <1>2
  <1>4. \A V \in SUBSET U : V # U => \A z \in V : Sum(V) = f[z] + Sum(V \ {z})
    BY <1>2
  <1>5. \A V \in SUBSET U : IsFiniteSet(V) /\ Sum(V) \in Int
    <2>1. \A V \in SUBSET U : IsFiniteSet(V)
      BY FS_Subset
    <2> QED BY <2>1, SumType
  <1> DEFINE p == Pick(U)
  <1>6. p \in U /\ Sum(U) = f[p] + Sum(U \ {p})
    BY <1>3, <1>5, SumPicks, PickIsOne
  <1>7. f[p] \in Int /\ f[y] \in Int
    BY <1>3, <1>6
  <1> HIDE DEF Bad, Sum, p
  <1>8. CASE p = y
    BY <1>3, <1>6, <1>8
  <1>9. CASE p # y
    <2> DEFINE r == Sum((U \ {p}) \ {y})
    <2>1. Sum(U \ {p}) = f[y] + r
      BY <1>3, <1>4, <1>6, <1>9
    <2>2. Sum(U \ {y}) = f[p] + Sum((U \ {y}) \ {p})
      BY <1>3, <1>4, <1>6, <1>9
    <2>3. (U \ {y}) \ {p} = (U \ {p}) \ {y}
      OBVIOUS
    <2>4. r \in Int
      BY <1>5
    <2>5. Sum(U \ {y}) = f[p] + r
      BY <2>2, <2>3
    <2> HIDE DEF r
    <2>6. Sum(U) = f[p] + (f[y] + r)
      BY <1>6, <2>1
    <2>7. Sum(U) = f[y] + (f[p] + r)
      BY <1>7, <2>4, <2>6
    <2> QED BY <1>3, <2>5, <2>7
  <1> QED BY <1>8, <1>9

\* Sums of multiples are multiples of sums, and the sum of sums the sum.
LEMMA SumLinear ==
    ASSUME NEW S, IsFiniteSet(S), NEW f, NEW g, NEW h, NEW c \in Int, NEW d \in Int,
           \A x \in S : f[x] \in Int /\ g[x] \in Int /\ h[x] = c * f[x] + d * g[x]
    PROVE  SumFunctionOnSet(h, S) = c * SumFunctionOnSet(f, S) + d * SumFunctionOnSet(g, S)
  <1> DEFINE F(U) == SumFunctionOnSet(f, U)
             G(U) == SumFunctionOnSet(g, U)
             H(U) == SumFunctionOnSet(h, U)
  <1> DEFINE Bad == {U \in SUBSET S : H(U) # c * F(U) + d * G(U)}
  <1>1. SUFFICES ASSUME Bad # {} PROVE FALSE
    OBVIOUS
  <1>2. PICK U \in Bad : \A V \in SUBSET U : V # U => V \notin Bad
    <2>1. Bad \in SUBSET (SUBSET S)
      OBVIOUS
    <2> HIDE DEF Bad
    <2> QED BY <1>1, <2>1, Smallest
  <1>3. U \in SUBSET S /\ H(U) # c * F(U) + d * G(U)
        /\ \A V \in SUBSET U : V # U => H(V) = c * F(V) + d * G(V)
    BY <1>2
  <1>4. \A V \in SUBSET U : IsFiniteSet(V)
    BY <1>3, FS_Subset
  <1>5. \A V \in SUBSET U : F(V) \in Int /\ G(V) \in Int
    BY <1>3, <1>4, SumType
  <1>6. CASE U = {}
    <2>1. F(U) = 0 /\ G(U) = 0 /\ H(U) = 0
      BY <1>6, SumEmpty
    <2> HIDE DEF F, G, H
    <2> QED BY <1>3, <2>1
  <1>7. CASE U # {}
    <2> DEFINE p == Pick(U)
               V == U \ {p}
    <2>1. p \in U /\ V \in SUBSET U /\ V # U
      BY <1>7, PickIsOne
    <2>2. F(U) = f[p] + F(V) /\ G(U) = g[p] + G(V) /\ H(U) = h[p] + H(V)
      BY <1>4, <1>7, SumPicks
    <2>3. f[p] \in Int /\ g[p] \in Int /\ h[p] = c * f[p] + d * g[p]
      BY <1>3, <2>1
    <2>4. H(V) = c * F(V) + d * G(V) /\ F(V) \in Int /\ G(V) \in Int
      BY <1>3, <1>5, <2>1
    <2>5. \A i, j, k, l \in Int :
            (c * i + d * j) + (c * k + d * l) = c * (i + k) + d * (j + l)
      OBVIOUS
    <2> HIDE DEF F, G, H, p, V, Bad
    <2>6. H(U) = c * F(U) + d * G(U)
      BY <2>2, <2>3, <2>4, <2>5
    <2> QED BY <1>3, <2>6
  <1> QED BY <1>6, <1>7

LEMMA SumSame ==
    ASSUME NEW S, IsFiniteSet(S), NEW f, NEW g, \A x \in S : f[x] \in Int /\ g[x] = f[x]
    PROVE  SumFunctionOnSet(g, S) = SumFunctionOnSet(f, S)
  <1>1. \A x \in S : f[x] \in Int /\ f[x] \in Int /\ g[x] = 1 * f[x] + 0 * f[x]
    OBVIOUS
  <1>2. SumFunctionOnSet(g, S) = 1 * SumFunctionOnSet(f, S) + 0 * SumFunctionOnSet(f, S)
    BY <1>1, SumLinear
  <1>3. SumFunctionOnSet(f, S) \in Int
    BY SumType
  <1> QED BY <1>2, <1>3

LEMMA SumZero ==
    ASSUME NEW S, IsFiniteSet(S), NEW f, \A x \in S : f[x] = 0
    PROVE  SumFunctionOnSet(f, S) = 0
  <1>1. \A x \in S : f[x] \in Int /\ f[x] = 0 * f[x] + 0 * f[x]
    OBVIOUS
  <1>2. SumFunctionOnSet(f, S) \in Int
    BY SumType
  <1>3. \A c, d \in Int : (\A x \in S : f[x] = c * f[x] + d * f[x])
          => SumFunctionOnSet(f, S) = c * SumFunctionOnSet(f, S) + d * SumFunctionOnSet(f, S)
    BY <1>1, SumLinear
  <1>4. SumFunctionOnSet(f, S) = 0 * SumFunctionOnSet(f, S) + 0 * SumFunctionOnSet(f, S)
    BY <1>1, <1>3
  <1> QED BY <1>2, <1>4

\* Of natural numbers none is greater than the sum.
LEMMA SumBounds ==
    ASSUME NEW S, IsFiniteSet(S), NEW f, \A x \in S : f[x] \in Nat
    PROVE  /\ SumFunctionOnSet(f, S) \in Nat
           /\ \A x \in S : f[x] <= SumFunctionOnSet(f, S)
  <1>1. ASSUME NEW T \in SUBSET S PROVE SumFunctionOnSet(f, T) \in Nat
    <2> DEFINE Bad == {U \in SUBSET T : SumFunctionOnSet(f, U) \notin Nat}
    <2>1. SUFFICES ASSUME Bad # {} PROVE FALSE
      OBVIOUS
    <2>2. PICK U \in Bad : \A V \in SUBSET U : V # U => V \notin Bad
      <3>1. Bad \in SUBSET (SUBSET T)
        OBVIOUS
      <3> HIDE DEF Bad
      <3> QED BY <2>1, <3>1, Smallest
    <2>3. IsFiniteSet(T) /\ U \in SUBSET T /\ SumFunctionOnSet(f, U) \notin Nat
      BY <2>2, FS_Subset
    <2>4. IsFiniteSet(U)
      BY <2>3, FS_Subset
    <2>5. U # {}
      <3>1. SumFunctionOnSet(f, {}) \in Nat
        BY SumEmpty
      <3> QED BY <2>3, <3>1
    <2>6. SumFunctionOnSet(f, U) = f[Pick(U)] + SumFunctionOnSet(f, U \ {Pick(U)})
      BY <2>4, <2>5, SumPicks
    <2>7. Pick(U) \in S /\ SumFunctionOnSet(f, U \ {Pick(U)}) \in Nat
      BY <2>2, <2>5, PickIsOne
    <2> QED BY <2>3, <2>6, <2>7
  <1>2. ASSUME NEW x \in S PROVE f[x] <= SumFunctionOnSet(f, S)
    <2>1. SumFunctionOnSet(f, S) = f[x] + SumFunctionOnSet(f, S \ {x})
      BY SumRemove
    <2>2. SumFunctionOnSet(f, S \ {x}) \in Nat
      BY <1>1
    <2> QED BY <2>1, <2>2
  <1> QED BY <1>1, <1>2

LEMMA SumOnes ==
    ASSUME NEW S, IsFiniteSet(S), NEW f, \A x \in S : f[x] = 1
    PROVE  SumFunctionOnSet(f, S) = Cardinality(S)
  <1> DEFINE Bad == {U \in SUBSET S : SumFunctionOnSet(f, U) # Cardinality(U)}
  <1>1. SUFFICES ASSUME Bad # {} PROVE FALSE
    OBVIOUS
  <1>2. PICK U \in Bad : \A V \in SUBSET U : V # U => V \notin Bad
    <2>1. Bad \in SUBSET (SUBSET S)
      OBVIOUS
    <2> HIDE DEF Bad
    <2> QED BY <1>1, <2>1, Smallest
  <1>3. IsFiniteSet(U) /\ Cardinality(U) \in Nat
    BY FS_Subset, FS_CardinalityType
  <1>4. U # {}
    BY <1>2, SumEmpty, FS_EmptySet
  <1>5. Pick(U) \in U
    BY <1>4, PickIsOne
  <1>6. SumFunctionOnSet(f, U) = f[Pick(U)] + SumFunctionOnSet(f, U \ {Pick(U)})
    BY <1>3, <1>4, SumPicks
  <1>7. Cardinality(U \ {Pick(U)}) = Cardinality(U) - 1
    BY <1>3, <1>5, FS_RemoveElement
  <1>8. SumFunctionOnSet(f, U \ {Pick(U)}) = Cardinality(U \ {Pick(U)})
    BY <1>2, <1>5
  <1>9. f[Pick(U)] = 1
    BY <1>5
  <1> QED BY <1>2, <1>3, <1>6, <1>7, <1>8, <1>9

LEMMA SumJoin ==
    ASSUME NEW S, IsFiniteSet(S), NEW T, IsFiniteSet(T), S \cap T = {},
           NEW f, \A x \in S \cup T : f[x] \in Int
    PROVE  SumFunctionOnSet(f, S \cup T) = SumFunctionOnSet(f, S) + SumFunctionOnSet(f, T)
  <1> DEFINE Sum(U) == SumFunctionOnSet(f, U)
  <1> DEFINE Bad == {U \in SUBSET T : Sum(S \cup U) # Sum(S) + Sum(U)}
  <1>1. SUFFICES ASSUME Bad # {} PROVE FALSE
    OBVIOUS
  <1>2. PICK U \in Bad : \A V \in SUBSET U : V # U => V \notin Bad
    <2>1. Bad \in SUBSET (SUBSET T)
      OBVIOUS
    <2> HIDE DEF Bad
    <2> QED BY <1>1, <2>1, Smallest
  <1>3. U \in SUBSET T /\ Sum(S \cup U) # Sum(S) + Sum(U)
        /\ \A V \in SUBSET U : V # U => Sum(S \cup V) = Sum(S) + Sum(V)
    BY <1>2
  <1>4. IsFiniteSet(U) /\ IsFiniteSet(S \cup U)
    BY <1>3, FS_Subset, FS_Union
  <1>5. Sum(S) \in Int
    BY SumType
  <1>6. CASE U = {}
    <2>1. S \cup U = S
      BY <1>6
    <2>2. Sum(U) = 0 /\ Sum(S \cup U) = Sum(S)
      BY <1>6, <2>1, SumEmpty
    <2> HIDE DEF Sum
    <2> QED BY <1>3, <1>5, <2>2
  <1>7. CASE U # {}
    <2> DEFINE p == Pick(U)
               V == U \ {p}
    <2>1. p \in U /\ V \in SUBSET U /\ V # U
      BY <1>7, PickIsOne
    <2>2. Sum(U) = f[p] + Sum(V)
      BY <1>4, <1>7, SumPicks
    <2>3. (S \cup U) \ {p} = S \cup V
      BY <1>3, <2>1
    <2>4. Sum(S \cup U) = f[p] + Sum((S \cup U) \ {p})
      <3>1. p \in S \cup U /\ \A x \in S \cup U : f[x] \in Int
        BY <1>3, <2>1
      <3> QED BY <1>4, <3>1, SumRemove
    <2>5. Sum(V) \in Int /\ f[p] \in Int
      <3>1. IsFiniteSet(V) /\ \A x \in V : f[x] \in Int
        BY <1>3, <1>4, <2>1, FS_Subset
      <3> QED BY <1>3, <2>1, <3>1, SumType
    <2>6. Sum(S \cup V) = Sum(S) + Sum(V)
      BY <1>3, <2>1
    <2> HIDE DEF Sum, p, V
    <2>7. Sum(S \cup U) = f[p] + Sum(S \cup V)
      BY <2>3, <2>4
    <2> QED BY <1>3, <1>5, <2>2, <2>5, <2>6, <2>7
  <1> QED BY <1>6, <1>7

\* A sum is the sum of the sums of its parts.
LEMMA SumParts ==
    ASSUME NEW S, IsFiniteSet(S), NEW K, IsFiniteSet(K), NEW key \in [S -> K],
           NEW f, \A x \in S : f[x] \in Int
    PROVE  SumFunctionOnSet([k \in K |-> SumFunctionOnSet(f, {x \in S : key[x] = k})], K)
             = SumFunctionOnSet(f, S)
  <1> DEFINE Of(L) == {x \in S : key[x] \in L}
             g == [k \in K |-> SumFunctionOnSet(f, {x \in S : key[x] = k})]
  <1> DEFINE Bad == {U \in SUBSET K : SumFunctionOnSet(g, U) # SumFunctionOnSet(f, Of(U))}
  <1>1. SUFFICES ASSUME Bad # {} PROVE FALSE
    <2>1. Of(K) = S
      OBVIOUS
    <2>2. SUFFICES SumFunctionOnSet(g, K) = SumFunctionOnSet(f, Of(K))
      BY <2>1
    <2> QED OBVIOUS
  <1>2. PICK U \in Bad : \A V \in SUBSET U : V # U => V \notin Bad
    <2>1. Bad \in SUBSET (SUBSET K)
      OBVIOUS
    <2> HIDE DEF Bad
    <2> QED BY <1>1, <2>1, Smallest
  <1>3. /\ U \in SUBSET K /\ SumFunctionOnSet(g, U) # SumFunctionOnSet(f, Of(U))
        /\ \A V \in SUBSET U : V # U => SumFunctionOnSet(g, V) = SumFunctionOnSet(f, Of(V))
    BY <1>2
  <1>4. IsFiniteSet(U)
    BY <1>3, FS_Subset
  <1>5. U # {}
    <2>1. U = {} => Of(U) = {}
      OBVIOUS
    <2> QED BY <1>3, <2>1, SumEmpty
  <1> DEFINE p == Pick(U)
             V == U \ {p}
             P == {x \in S : key[x] = p}
  <1>6. p \in U /\ V \in SUBSET U /\ V # U /\ p \in K
    BY <1>3, <1>5, PickIsOne
  <1>7. SumFunctionOnSet(g, U) = g[p] + SumFunctionOnSet(g, V)
    BY <1>4, <1>5, SumPicks
  <1>8. Of(U) = P \cup Of(V) /\ P \cap Of(V) = {}
    BY <1>6
  <1>9. IsFiniteSet(P) /\ IsFiniteSet(Of(V)) /\ P \cup Of(V) \subseteq S
    BY FS_Subset
  <1>10. SumFunctionOnSet(f, Of(U)) = SumFunctionOnSet(f, P) + SumFunctionOnSet(f, Of(V))
    <2> HIDE DEF Of, P, V, p
    <2>1. \A x \in P \cup Of(V) : f[x] \in Int
      BY <1>9
    <2> QED BY <1>8, <1>9, <2>1, SumJoin
  <1>11. g[p] = SumFunctionOnSet(f, P)
    BY <1>6
  <1>12. SumFunctionOnSet(g, V) = SumFunctionOnSet(f, Of(V))
    BY <1>3, <1>6
  <1> HIDE DEF Bad, Of, g, p, V, P
  <1> QED BY <1>3, <1>7, <1>10, <1>11, <1>12

\* The sum of a row of a table of two dimensions.
LEMMA SumRow ==
    ASSUME NEW S, IsFiniteSet(S), NEW a, NEW f, \A q \in S : f[<<a, q>>] \in Int
    PROVE  SumFunctionOnSet(f, {a} \X S) = SumFunctionOnSet([q \in S |-> f[<<a, q>>]], S)
  <1> DEFINE g == [q \in S |-> f[<<a, q>>]]
  <1> DEFINE Bad == {U \in SUBSET S : SumFunctionOnSet(f, {a} \X U) # SumFunctionOnSet(g, U)}
  <1>1. SUFFICES ASSUME Bad # {} PROVE FALSE
    OBVIOUS
  <1>2. PICK U \in Bad : \A V \in SUBSET U : V # U => V \notin Bad
    <2>1. Bad \in SUBSET (SUBSET S)
      OBVIOUS
    <2> HIDE DEF Bad
    <2> QED BY <1>1, <2>1, Smallest
  <1>3. /\ U \in SUBSET S /\ SumFunctionOnSet(f, {a} \X U) # SumFunctionOnSet(g, U)
        /\ \A V \in SUBSET U : V # U => SumFunctionOnSet(f, {a} \X V) = SumFunctionOnSet(g, V)
    BY <1>2
  <1>4. IsFiniteSet(U) /\ IsFiniteSet({a} \X U)
    BY <1>3, FS_Subset, FS_Product, FS_Singleton
  <1>5. U # {}
    <2>1. U = {} => {a} \X U = {}
      OBVIOUS
    <2> QED BY <1>3, <2>1, SumEmpty
  <1> DEFINE p == Pick(U)
             V == U \ {p}
  <1>6. p \in U /\ V \in SUBSET U /\ V # U /\ p \in S
    BY <1>3, <1>5, PickIsOne
  <1>7. SumFunctionOnSet(g, U) = g[p] + SumFunctionOnSet(g, V)
    BY <1>4, <1>5, SumPicks
  <1>8. ({a} \X U) \ {<<a, p>>} = {a} \X V
    BY <1>6
  <1>9. SumFunctionOnSet(f, {a} \X U) = f[<<a, p>>] + SumFunctionOnSet(f, ({a} \X U) \ {<<a, p>>})
    <2>1. <<a, p>> \in {a} \X U /\ \A x \in {a} \X U : f[x] \in Int
      BY <1>3, <1>6
    <2> HIDE DEF p
    <2> QED BY <1>4, <2>1, SumRemove
  <1>10. g[p] = f[<<a, p>>]
    BY <1>6
  <1>11. SumFunctionOnSet(f, {a} \X V) = SumFunctionOnSet(g, V)
    BY <1>3, <1>6
  <1> HIDE DEF Bad, g, p, V
  <1> QED BY <1>3, <1>7, <1>8, <1>9, <1>10, <1>11

-----------------------------------------------------------------------------
(* Sums of fractions.                                                      *)

IsFraction(u) == u = <<u[1], u[2]>> /\ u[1] \in Int /\ u[2] \in Int /\ u[2] # 0

LEMMA PlusFractions ==
    ASSUME NEW u, NEW v, IsFraction(u), IsFraction(v),
           NEW M \in Int, NEW c \in Int, NEW d \in Int,
           u[1] * M = u[2] * c, v[1] * M = v[2] * d
    PROVE  LET w == Plus(u, v) IN IsFraction(w) /\ w[1] * M = w[2] * (c + d)
  <1> DEFINE a == u[1]  b == u[2]  x == v[1]  y == v[2]  w == Plus(u, v)
  <1>1. a \in Int /\ b \in Int /\ x \in Int /\ y \in Int /\ b # 0 /\ y # 0
    BY DEF IsFraction
  <1>2. w = <<a * y + x * b, b * y>> /\ w[1] = a * y + x * b /\ w[2] = b * y
    BY DEF Plus
  <1>3. a * M = b * c /\ x * M = y * d
    OBVIOUS
  <1> HIDE DEF a, b, x, y, w
  <1>4. a * y + x * b \in Int /\ b * y \in Int /\ b * y # 0
    BY <1>1
  <1>5. (a * y + x * b) * M = y * (a * M) + b * (x * M)
    BY <1>1
  <1>6. y * (b * c) + b * (y * d) = (b * y) * (c + d)
    BY <1>1
  <1>7. (a * y + x * b) * M = (b * y) * (c + d)
    BY <1>3, <1>5, <1>6
  <1>8. IsFraction(w) /\ w[1] * M = w[2] * (c + d)
    BY <1>2, <1>4, <1>7 DEF IsFraction
  <1> QED BY <1>8 DEF w

\* Fractions c[k] / M add up to the fraction of the sum.
LEMMA FractionSum ==
    ASSUME NEW S, IsFiniteSet(S), NEW f, NEW c, NEW M \in Int,
           \A k \in S : IsFraction(f[k]) /\ c[k] \in Int /\ f[k][1] * M = f[k][2] * c[k]
    PROVE  LET u == PlusAll(f, S)
           IN IsFraction(u) /\ u[1] * M = u[2] * SumFunctionOnSet(c, S)
  <1> DEFINE Fine(u, s) == IsFraction(u) /\ u[1] * M = u[2] * s
             Bad == {U \in SUBSET S : ~ Fine(PlusAll(f, U), SumFunctionOnSet(c, U))}
  <1>1. SUFFICES ASSUME Bad # {} PROVE FALSE
    OBVIOUS
  <1>2. PICK U \in Bad : \A V \in SUBSET U : V # U => V \notin Bad
    <2>1. Bad \in SUBSET (SUBSET S)
      OBVIOUS
    <2> HIDE DEF Bad
    <2> QED BY <1>1, <2>1, Smallest
  <1>3. /\ U \in SUBSET S /\ ~ Fine(PlusAll(f, U), SumFunctionOnSet(c, U))
        /\ \A V \in SUBSET U : V # U => Fine(PlusAll(f, V), SumFunctionOnSet(c, V))
    BY <1>2
  <1>4. IsFiniteSet(U)
    BY <1>3, FS_Subset
  <1>5. CASE U = {}
    <2>1. PlusAll(f, U) = <<0, 1>> /\ SumFunctionOnSet(c, U) = 0
      BY <1>4, <1>5, FractionsPick, SumPicks
    <2>2. Fine(<<0, 1>>, 0)
      BY DEF IsFraction
    <2> QED BY <1>3, <2>1, <2>2
  <1>6. CASE U # {}
    <2> DEFINE p == Pick(U)
               V == U \ {p}
               u == PlusAll(f, V)
               s == SumFunctionOnSet(c, V)
    <2>1. p \in U /\ V \in SUBSET U /\ V # U
      BY <1>6, PickIsOne
    <2>2. PlusAll(f, U) = Plus(f[p], u) /\ SumFunctionOnSet(c, U) = c[p] + s
      BY <1>4, <1>6, FractionsPick, SumPicks
    <2>3. IsFraction(u) /\ u[1] * M = u[2] * s
      BY <1>3, <2>1
    <2>4. s \in Int
      <3>1. IsFiniteSet(V) /\ \A x \in V : c[x] \in Int
        BY <1>3, <1>4, <2>1, FS_Subset
      <3> QED BY <3>1, SumType
    <2>5. IsFraction(f[p]) /\ c[p] \in Int /\ f[p][1] * M = f[p][2] * c[p]
      BY <1>3, <2>1
    <2> HIDE DEF p, V, u, s, Bad
    <2>6. IsFraction(Plus(f[p], u)) /\ Plus(f[p], u)[1] * M = Plus(f[p], u)[2] * (c[p] + s)
      BY <2>3, <2>4, <2>5, PlusFractions
    <2> QED BY <1>3, <2>2, <2>6
  <1> QED BY <1>5, <1>6

\* Finitely many numbers that are not 0 have a common multiple that is not.
LEMMA CommonMultiple ==
    ASSUME NEW S, IsFiniteSet(S), NEW q, \A a \in S : q[a] \in Int /\ q[a] # 0
    PROVE  \E L \in Int : L # 0 /\ \A a \in S : \E e \in Int : L = q[a] * e
  <1> DEFINE Multiple(L, U) == L # 0 /\ \A a \in U : \E e \in Int : L = q[a] * e
             Bad == {U \in SUBSET S : ~ \E L \in Int : Multiple(L, U)}
  <1>1. SUFFICES ASSUME Bad # {} PROVE FALSE
    OBVIOUS
  <1>2. PICK U \in Bad : \A V \in SUBSET U : V # U => V \notin Bad
    <2>1. Bad \in SUBSET (SUBSET S)
      OBVIOUS
    <2> HIDE DEF Bad
    <2> QED BY <1>1, <2>1, Smallest
  <1>3. /\ U \in SUBSET S /\ ~ \E L \in Int : Multiple(L, U)
        /\ \A V \in SUBSET U : V # U => \E L \in Int : Multiple(L, V)
    BY <1>2
  <1>4. U # {}
    <2>1. Multiple(1, {})
      OBVIOUS
    <2> QED BY <1>3, <2>1
  <1> DEFINE p == Pick(U)
             V == U \ {p}
  <1>5. p \in U /\ V \in SUBSET U /\ V # U
    BY <1>4, PickIsOne
  <1>6. PICK L \in Int : Multiple(L, V)
    BY <1>3, <1>5
  <1>7. q[p] \in Int /\ q[p] # 0 /\ L # 0
    BY <1>3, <1>5, <1>6
  <1>8. q[p] * L \in Int /\ q[p] * L # 0
    BY <1>7
  <1>9. ASSUME NEW a \in U PROVE \E e \in Int : q[p] * L = q[a] * e
    <2>1. CASE a = p
      BY <1>6, <2>1
    <2>2. CASE a # p
      <3>1. PICK e \in Int : L = q[a] * e
        BY <1>6, <2>2
      <3>2. q[a] \in Int
        BY <1>3
      <3>3. \A i, j, k \in Int : i * (j * k) = j * (i * k) /\ i * k \in Int
        OBVIOUS
      <3>4. q[p] * L = q[a] * (q[p] * e) /\ q[p] * e \in Int
        BY <1>7, <3>1, <3>2, <3>3
      <3> QED BY <3>4
    <2> QED BY <2>1, <2>2
  <1>10. Multiple(q[p] * L, U)
    BY <1>8, <1>9
  <1> QED BY <1>3, <1>8, <1>10

-----------------------------------------------------------------------------
(* The overlap of runs with clock ranges.                                  *)

SharesTypes == runs \in [Runs -> RunRows] /\ lo \in Hours /\ hi \in Hours /\ lo < hi

Rows == Projects \cup {None}

LEMMA RunEnds ==
    ASSUME SharesAssumption, SharesTypes, NEW r \in Runs
    PROVE  /\ runs[r].start \in Hours \cup {None} /\ runs[r].end \in Hours \cup {None}
           /\ KeyOf(r) \in ShareKeys /\ runs[r].agent \in Agents
           /\ Dated(r) => /\ runs[r].start \in Nat /\ runs[r].end \in Nat
                          /\ runs[r].start < runs[r].end
  BY DEF SharesAssumption, SharesTypes, RunRows, Dated, KeyOf, ShareKeys, Hours

LEMMA OverlapIsHours ==
    ASSUME SharesAssumption, SharesTypes, NEW r \in Runs, Dated(r), NEW a \in Int, NEW b \in Int
    PROVE  Overlap(r, a, b) \in Nat
  BY RunEnds DEF Overlap, Most, Least

\* Where a range is cut in two, so is the overlap, within any bounds.
LEMMA OverlapCut ==
    ASSUME SharesAssumption, SharesTypes, NEW r \in Runs, Dated(r),
           NEW a \in Int, NEW b \in Int, NEW c \in Int, a <= c, c <= b
    PROVE  /\ Overlap(r, a, b) = Overlap(r, a, c) + Overlap(r, c, b)
           /\ Overlap(r, Most(DayStart, a), Least(DayEnd, b))
                = Overlap(r, Most(DayStart, a), Least(DayEnd, c))
                  + Overlap(r, Most(DayStart, c), Least(DayEnd, b))
  <1> DEFINE s == runs[r].start
             e == runs[r].end
             C(x, y) == Most(0, Least(e, y) - Most(s, x))
  <1>1. s \in Nat /\ e \in Nat /\ s < e
    BY RunEnds
  <1>2. DayStart \in Nat /\ DayEnd \in Nat /\ DayStart < DayEnd
    BY DEF SharesAssumption
  <1>3. \A x, y : Overlap(r, x, y) = C(x, y)
    BY DEF Overlap
  <1> HIDE DEF s, e
  <1>4. C(a, b) = C(a, c) + C(c, b)
    BY <1>1 DEF Most, Least
  <1>5. C(Most(DayStart, a), Least(DayEnd, b))
          = C(Most(DayStart, a), Least(DayEnd, c)) + C(Most(DayStart, c), Least(DayEnd, b))
    BY <1>1, <1>2 DEF Most, Least
  <1> QED BY <1>3, <1>4, <1>5

\* The sets of runs and of keys the sums run over.
LEMMA Sets ==
    ASSUME SharesAssumption, SharesTypes
    PROVE  /\ IsFiniteSet(Rows) /\ IsFiniteSet(ShareKeys) /\ IsFiniteSet(Agents) /\ None \in Rows
           /\ ShareKeys = Agents \X Rows
           /\ IsFiniteSet(OnDay) /\ OnDay \subseteq Runs /\ \A r \in OnDay : Dated(r)
           /\ \A k : IsFiniteSet({r \in OnDay : KeyOf(r) = k})
           /\ \A k : IsFiniteSet({r \in Runs : KeyOf(r) = k /\ (r \in OnDay \/ Anchored(r))})
  <1>1. IsFiniteSet(Rows) /\ None \in Rows
    BY FS_AddElement DEF SharesAssumption, Rows
  <1>2. ShareKeys = Agents \X Rows
    BY DEF ShareKeys, Rows
  <1>3. IsFiniteSet(Agents) /\ IsFiniteSet(ShareKeys)
    BY <1>1, <1>2, FS_Product DEF SharesAssumption
  <1>4. IsFiniteSet(Runs)
    BY DEF SharesAssumption
  <1>5. OnDay \subseteq Runs /\ \A r \in OnDay : Dated(r)
    BY DEF OnDay
  <1>6. IsFiniteSet(OnDay)
    BY <1>4, <1>5, FS_Subset
  <1>7. \A k : IsFiniteSet({r \in OnDay : KeyOf(r) = k})
    BY <1>6, FS_Subset
  <1>8. \A k : IsFiniteSet({r \in Runs : KeyOf(r) = k /\ (r \in OnDay \/ Anchored(r))})
    BY <1>4, FS_Subset
  <1> QED BY <1>1, <1>2, <1>3, <1>5, <1>6, <1>7, <1>8

HoursOf(S, x, y) == SumFunctionOnSet([r \in S |-> Overlap(r, x, y)], S)
HoursOfDay(S, x, y) == HoursOf(S, Most(DayStart, x), Least(DayEnd, y))

\* Sums of hours over dated runs: they are hours, and they add up.
LEMMA HoursCut ==
    ASSUME SharesAssumption, SharesTypes, NEW S, IsFiniteSet(S), S \subseteq Runs,
           \A r \in S : Dated(r),
           NEW a \in Int, NEW b \in Int, NEW c \in Int, a <= c, c <= b
    PROVE  /\ HoursOf(S, a, b) = HoursOf(S, a, c) + HoursOf(S, c, b)
           /\ HoursOf(S, a, b) \in Nat /\ HoursOf(S, a, c) \in Nat /\ HoursOf(S, c, b) \in Nat
           /\ HoursOfDay(S, a, b) = HoursOfDay(S, a, c) + HoursOfDay(S, c, b)
           /\ HoursOfDay(S, a, b) \in Nat /\ HoursOfDay(S, a, c) \in Nat
           /\ HoursOfDay(S, c, b) \in Nat
  <1> DEFINE F(x, y) == [r \in S |-> Overlap(r, x, y)]
             H(x, y) == SumFunctionOnSet(F(x, y), S)
             D(x, y) == H(Most(DayStart, x), Least(DayEnd, y))
  <1>1. DayStart \in Int /\ DayEnd \in Int
    BY DEF SharesAssumption
  <1>2. \A x, y \in Int : H(x, y) \in Nat
    <2> TAKE x, y \in Int
    <2>1. \A r \in S : F(x, y)[r] \in Nat
      BY OverlapIsHours
    <2> HIDE DEF F
    <2> QED BY <2>1, SumBounds
  <1>3. \A x, y \in Int : Most(x, y) \in Int /\ Least(x, y) \in Int
    BY DEF Most, Least
  <1>4. ASSUME NEW x \in Int, NEW y \in Int, NEW u \in Int, NEW v \in Int, NEW w \in Int, NEW z \in Int,
               \A r \in S : Overlap(r, x, y) = Overlap(r, u, v) + Overlap(r, w, z)
        PROVE  H(x, y) = H(u, v) + H(w, z)
    <2> DEFINE f == F(u, v)  g == F(w, z)  h == F(x, y)
    <2>1. \A r \in S : f[r] \in Int /\ g[r] \in Int /\ h[r] = 1 * f[r] + 1 * g[r]
      <3> TAKE r \in S
      <3>1. Overlap(r, u, v) \in Nat /\ Overlap(r, w, z) \in Nat
        BY OverlapIsHours
      <3> QED BY <1>4, <3>1
    <2> HIDE DEF f, g, h
    <2>2. SumFunctionOnSet(h, S) = 1 * SumFunctionOnSet(f, S) + 1 * SumFunctionOnSet(g, S)
      BY <2>1, SumLinear
    <2>3. SumFunctionOnSet(f, S) \in Int /\ SumFunctionOnSet(g, S) \in Int
      BY <2>1, SumType
    <2>4. SumFunctionOnSet(h, S) = SumFunctionOnSet(f, S) + SumFunctionOnSet(g, S)
      BY <2>2, <2>3
    <2> QED BY <2>4 DEF f, g, h
  <1> HIDE DEF H
  <1>5. H(a, b) = H(a, c) + H(c, b)
    BY <1>4, OverlapCut
  <1>6. D(a, b) = D(a, c) + D(c, b)
    <2>1. \A r \in S : Overlap(r, Most(DayStart, a), Least(DayEnd, b))
                = Overlap(r, Most(DayStart, a), Least(DayEnd, c))
                  + Overlap(r, Most(DayStart, c), Least(DayEnd, b))
      BY OverlapCut
    <2>2. /\ Most(DayStart, a) \in Int /\ Most(DayStart, c) \in Int
          /\ Least(DayEnd, b) \in Int /\ Least(DayEnd, c) \in Int
      BY <1>1, <1>3
    <2> QED BY <1>4, <2>1, <2>2
  <1>7. H(a, b) \in Nat /\ H(a, c) \in Nat /\ H(c, b) \in Nat
    BY <1>2
  <1>8. D(a, b) \in Nat /\ D(a, c) \in Nat /\ D(c, b) \in Nat
    BY <1>1, <1>2, <1>3
  <1>9. \A x, y : HoursOf(S, x, y) = H(x, y) /\ HoursOfDay(S, x, y) = D(x, y)
    BY DEF H, HoursOf, HoursOfDay
  <1> QED BY <1>5, <1>6, <1>7, <1>8, <1>9

\* The selected hours of a key are hours, they add up, and beyond the day
\* nothing more is selected.
LEMMA SelectedCut ==
    ASSUME SharesAssumption, SharesTypes, NEW k,
           NEW a \in Int, NEW b \in Int, NEW c \in Int, a <= c, c <= b
    PROVE  /\ SelectedHours(k, a, b) = SelectedHours(k, a, c) + SelectedHours(k, c, b)
           /\ SelectedHours(k, a, b) \in Nat /\ SelectedHours(k, a, c) \in Nat
           /\ SelectedHours(k, c, b) \in Nat
  <1> DEFINE S == {r \in OnDay : KeyOf(r) = k}
  <1>1. \A x, y : SelectedHours(k, x, y) = HoursOfDay(S, x, y)
    BY DEF SelectedHours, Total, HoursOf, HoursOfDay
  <1>2. IsFiniteSet(S) /\ S \subseteq Runs /\ \A r \in S : Dated(r)
    BY Sets
  <1>3. /\ HoursOfDay(S, a, b) = HoursOfDay(S, a, c) + HoursOfDay(S, c, b)
        /\ HoursOfDay(S, a, b) \in Nat /\ HoursOfDay(S, a, c) \in Nat
        /\ HoursOfDay(S, c, b) \in Nat
    <2> HIDE DEF S
    <2> QED BY <1>2, HoursCut, Zenon
  <1> QED BY <1>1, <1>3

LEMMA SelectedOfDay ==
    ASSUME SharesAssumption, NEW k, NEW a \in Int, NEW b \in Int, a <= DayStart, b >= DayEnd
    PROVE  SelectedHours(k, a, b) = SelectedHours(k, DayStart, DayEnd)
  <1>1. DayStart \in Int /\ DayEnd \in Int
    BY DEF SharesAssumption
  <1>2. /\ Most(DayStart, a) = DayStart /\ Most(DayStart, DayStart) = DayStart
        /\ Least(DayEnd, b) = DayEnd /\ Least(DayEnd, DayEnd) = DayEnd
    BY <1>1 DEF Most, Least
  <1> QED BY <1>2 DEF SelectedHours

DayHours(k) == SelectedHours(k, DayStart, DayEnd)

LEMMA DayHoursType ==
    ASSUME SharesAssumption, SharesTypes, NEW k PROVE DayHours(k) \in Nat
  <1>1. DayStart \in Int /\ DayEnd \in Int /\ DayStart <= DayEnd /\ DayEnd <= DayEnd
    BY DEF SharesAssumption
  <1> QED BY <1>1, SelectedCut DEF DayHours

\* The hours of the day are those of its keys.
LEMMA FullIsKeys ==
    ASSUME SharesAssumption, SharesTypes
    PROVE  FullHours = SumFunctionOnSet([k \in ShareKeys |-> DayHours(k)], ShareKeys) /\ FullHours \in Nat
  <1> DEFINE f == [r \in OnDay |-> Overlap(r, DayStart, DayEnd)]
             key == [r \in OnDay |-> KeyOf(r)]
             P(k) == {r \in OnDay : key[r] = k}
             Q(k) == {r \in OnDay : KeyOf(r) = k}
  <1>1. DayStart \in Int /\ DayEnd \in Int
    BY DEF SharesAssumption
  <1>2. Most(DayStart, DayStart) = DayStart /\ Least(DayEnd, DayEnd) = DayEnd
    BY <1>1 DEF Most, Least
  <1>3. \A r \in OnDay : f[r] \in Nat
    BY <1>1, Sets, OverlapIsHours
  <1>4. key \in [OnDay -> ShareKeys]
    BY Sets, RunEnds
  <1>5. FullHours = SumFunctionOnSet(f, OnDay)
    BY DEF FullHours, Total
  <1>6. ASSUME NEW k \in ShareKeys PROVE DayHours(k) = SumFunctionOnSet(f, P(k))
    <2> DEFINE g == [r \in Q(k) |-> Overlap(r, DayStart, DayEnd)]
    <2>1. DayHours(k) = SumFunctionOnSet(g, Q(k))
      BY <1>2 DEF DayHours, SelectedHours, Total
    <2>2. P(k) = Q(k) /\ IsFiniteSet(Q(k))
      BY Sets
    <2>3. \A r \in Q(k) : f[r] \in Int /\ g[r] = f[r]
      BY <1>3
    <2>4. SumFunctionOnSet(g, Q(k)) = SumFunctionOnSet(f, Q(k))
      <3> HIDE DEF f, g, Q
      <3> QED BY <2>2, <2>3, SumSame
    <2> QED BY <2>1, <2>2, <2>4
  <1>7. SumFunctionOnSet([k \in ShareKeys |-> SumFunctionOnSet(f, P(k))], ShareKeys) = SumFunctionOnSet(f, OnDay)
    <2>1. IsFiniteSet(OnDay) /\ IsFiniteSet(ShareKeys)
      BY Sets
    <2>2. \A r \in OnDay : f[r] \in Int
      BY <1>3
    <2> HIDE DEF f, key
    <2> QED BY <1>4, <2>1, <2>2, SumParts
  <1>8. [k \in ShareKeys |-> DayHours(k)] = [k \in ShareKeys |-> SumFunctionOnSet(f, P(k))]
    BY <1>6
  <1>9. SumFunctionOnSet(f, OnDay) \in Nat
    <2> HIDE DEF f
    <2> QED BY <1>3, Sets, SumBounds
  <1> QED BY <1>5, <1>7, <1>8, <1>9

\* Sums over the keys are sums over the agents of sums over their projects.
LEMMA KeySums ==
    ASSUME SharesAssumption, SharesTypes, NEW g, \A k \in ShareKeys : g[k] \in Int
    PROVE  SumFunctionOnSet(g, ShareKeys) = SumFunctionOnSet(
             [a \in Agents |-> SumFunctionOnSet([p \in Rows |-> g[<<a, p>>]], Rows)], Agents)
  <1> DEFINE key == [k \in ShareKeys |-> k[1]]
             P(a) == {k \in ShareKeys : key[k] = a}
  <1>1. IsFiniteSet(ShareKeys) /\ IsFiniteSet(Agents) /\ IsFiniteSet(Rows) /\ ShareKeys = Agents \X Rows
    BY Sets
  <1>2. key \in [ShareKeys -> Agents]
    BY <1>1
  <1>3. SumFunctionOnSet([a \in Agents |-> SumFunctionOnSet(g, P(a))], Agents)
          = SumFunctionOnSet(g, ShareKeys)
    <2> HIDE DEF key
    <2> QED BY <1>1, <1>2, SumParts
  <1>4. ASSUME NEW a \in Agents
        PROVE  SumFunctionOnSet(g, P(a)) = SumFunctionOnSet([p \in Rows |-> g[<<a, p>>]], Rows)
    <2>1. P(a) = {a} \X Rows
      BY <1>1
    <2>2. \A p \in Rows : g[<<a, p>>] \in Int
      BY <1>1
    <2>3. SumFunctionOnSet(g, {a} \X Rows) = SumFunctionOnSet([p \in Rows |-> g[<<a, p>>]], Rows)
      BY <1>1, <2>2, SumRow
    <2> QED BY <2>1, <2>3
  <1> QED BY <1>3, <1>4

\* What an agent has on the day, by its projects.
LEMMA AgentSums ==
    ASSUME SharesAssumption, SharesTypes, NEW a \in Agents
    PROVE  /\ AgentHours(a) = SumFunctionOnSet([p \in Rows |-> DayHours(<<a, p>>)], Rows)
           /\ AgentHours(a) \in Nat /\ AgentCount(a) \in Nat
           /\ \A p \in Rows : DayHours(<<a, p>>) <= AgentHours(a)
  <1> DEFINE P == {k \in ShareKeys : k[1] = a}
             h == [k \in P |-> DayHours(k)]
             g == [p \in Rows |-> DayHours(<<a, p>>)]
             n == [k \in P |-> CountOf(k)]
  <1>1. IsFiniteSet(ShareKeys) /\ IsFiniteSet(Rows) /\ ShareKeys = Agents \X Rows
    BY Sets
  <1>2. P = {a} \X Rows /\ IsFiniteSet(P)
    BY <1>1, FS_Subset
  <1>3. AgentHours(a) = SumFunctionOnSet(h, P) /\ AgentCount(a) = SumFunctionOnSet(n, P)
    BY DEF AgentHours, AgentCount, Total, DayHours
  <1>4. \A p \in Rows : h[<<a, p>>] = g[p] /\ g[p] \in Nat
    BY <1>2, DayHoursType
  <1>5. SumFunctionOnSet(h, P) = SumFunctionOnSet([p \in Rows |-> h[<<a, p>>]], Rows)
    <2>1. \A p \in Rows : h[<<a, p>>] \in Int
      BY <1>4
    <2>2. SumFunctionOnSet(h, {a} \X Rows) = SumFunctionOnSet([p \in Rows |-> h[<<a, p>>]], Rows)
      <3> HIDE DEF h
      <3> QED BY <1>1, <2>1, SumRow
    <2> QED BY <1>2, <2>2
  <1>6. [p \in Rows |-> h[<<a, p>>]] = g
    BY <1>4
  <1>7. SumFunctionOnSet(g, Rows) \in Nat /\ \A p \in Rows : g[p] <= SumFunctionOnSet(g, Rows)
    <2>1. \A p \in Rows : g[p] \in Nat
      BY <1>4
    <2> HIDE DEF g
    <2> QED BY <1>1, <2>1, SumBounds
  <1>8. \A k \in P : n[k] \in Nat
    BY Sets, FS_CardinalityType DEF CountOf
  <1>9. SumFunctionOnSet(n, P) \in Nat
    <2> HIDE DEF n
    <2> QED BY <1>2, <1>8, SumBounds
  <1> QED BY <1>3, <1>5, <1>6, <1>7, <1>9

\* The sum over the keys of the hours is the sum over the agents of theirs.
LEMMA FullIsAgents ==
    ASSUME SharesAssumption, SharesTypes
    PROVE  FullHours = SumFunctionOnSet([a \in Agents |-> AgentHours(a)], Agents)
  <1> DEFINE g == [k \in ShareKeys |-> DayHours(k)]
  <1>1. \A k \in ShareKeys : g[k] \in Int
    BY DayHoursType
  <1>2. \A a \in Agents : [p \in Rows |-> g[<<a, p>>]] = [p \in Rows |-> DayHours(<<a, p>>)]
    BY Sets
  <1>3. FullHours = SumFunctionOnSet(
             [a \in Agents |-> SumFunctionOnSet([p \in Rows |-> g[<<a, p>>]], Rows)], Agents)
    <2>1. FullHours = SumFunctionOnSet(g, ShareKeys)
      BY FullIsKeys
    <2> HIDE DEF g
    <2> QED BY <1>1, <2>1, KeySums
  <1>4. \A a \in Agents : SumFunctionOnSet([p \in Rows |-> g[<<a, p>>]], Rows) = AgentHours(a)
    BY <1>2, AgentSums
  <1> QED BY <1>3, <1>4

\* A project has hours of an agent only if it has counted runs of the agent.
LEMMA NoRunsNoHours ==
    ASSUME SharesAssumption, SharesTypes, NEW k, ~ (CountOf(k) > 0)
    PROVE  DayHours(k) = 0
  <1> DEFINE C == {r \in Runs : KeyOf(r) = k /\ (r \in OnDay \/ Anchored(r))}
             S == {r \in OnDay : KeyOf(r) = k}
  <1>1. CountOf(k) = Cardinality(C) /\ IsFiniteSet(C)
    BY Sets DEF CountOf
  <1>2. C = {}
    <2>1. Cardinality(C) \in Nat
      BY <1>1, FS_CardinalityType
    <2>2. Cardinality(C) = 0
      BY <1>1, <2>1
    <2> QED BY <1>1, <2>2, FS_EmptySet
  <1>3. S = {}
    BY <1>2, Sets
  <1>4. \E f : DayHours(k) = SumFunctionOnSet(f, S)
    BY DEF DayHours, SelectedHours, Total
  <1> QED BY <1>3, <1>4, SumEmpty

-----------------------------------------------------------------------------
(* Clock ranges.                                                           *)

\* Fractions of one whole add up with their numerators.
LEMMA OneWhole ==
    ASSUME NEW n \in Int, NEW x \in Int, NEW y \in Int, NEW d \in Int, n = x + y
    PROVE  Equal(<<n, d>>, Plus(<<x, d>>, <<y, d>>))
  <1>1. \A i, j, k \in Int : (i + j) * (k * k) = (i * k + j * k) * k
    OBVIOUS
  <1>2. n * (d * d) = (x * d + y * d) * d
    BY <1>1
  <1> QED BY <1>2 DEF Equal, Plus

LEMMA NoShares == Equal(<<0, 1>>, Plus(<<0, 1>>, <<0, 1>>))
  BY OneWhole

\* What the pieces of a range sum to: issue fractions, working hours.
LEMMA RangeCut ==
    ASSUME SharesAssumption, SharesTypes, NEW cut \in lo..hi
    PROVE  /\ Equal(IssueFraction(lo, hi), Plus(IssueFraction(lo, cut), IssueFraction(cut, hi)))
           /\ \A a \in Agents : WorkHours(a, lo, hi) = WorkHours(a, lo, cut) + WorkHours(a, cut, hi)
  <1>1. lo \in Int /\ hi \in Int /\ cut \in Int /\ lo <= cut /\ cut <= hi
    BY DEF SharesTypes, SharesAssumption, Hours
  <1>3. Equal(IssueFraction(lo, hi), Plus(IssueFraction(lo, cut), IssueFraction(cut, hi)))
    <2> DEFINE S == {r \in Runs : Dated(r)}
               total == SumFunctionOnSet([r \in S |-> runs[r].end - runs[r].start], S)
    <2>1. \A x, y : IssueFraction(x, y) = IF total = 0 THEN <<0, 1>> ELSE <<HoursOf(S, x, y), total>>
      BY DEF IssueFraction, Total, HoursOf
    <2>2. IsFiniteSet(S) /\ S \subseteq Runs /\ \A r \in S : Dated(r)
      BY FS_Subset DEF SharesAssumption
    <2>3. total \in Int
      <3> DEFINE f == [r \in S |-> runs[r].end - runs[r].start]
      <3>1. \A r \in S : f[r] \in Int
        BY RunEnds
      <3> HIDE DEF f
      <3>2. SumFunctionOnSet(f, S) \in Int
        BY <2>2, <3>1, SumType
      <3> QED BY <3>2 DEF f
    <2>4. /\ HoursOf(S, lo, hi) = HoursOf(S, lo, cut) + HoursOf(S, cut, hi)
          /\ HoursOf(S, lo, hi) \in Int /\ HoursOf(S, lo, cut) \in Int /\ HoursOf(S, cut, hi) \in Int
      <3>1. /\ HoursOf(S, lo, hi) = HoursOf(S, lo, cut) + HoursOf(S, cut, hi)
            /\ HoursOf(S, lo, hi) \in Nat /\ HoursOf(S, lo, cut) \in Nat /\ HoursOf(S, cut, hi) \in Nat
        <4> HIDE DEF S
        <4> QED BY <1>1, <2>2, HoursCut, Zenon
      <3> HIDE DEF S
      <3> QED BY <3>1
    <2> HIDE DEF S, total
    <2>5. CASE total = 0
      BY <2>1, <2>5, NoShares
    <2>6. CASE total # 0
      <3>1. Equal(<<HoursOf(S, lo, hi), total>>,
                  Plus(<<HoursOf(S, lo, cut), total>>, <<HoursOf(S, cut, hi), total>>))
        BY <2>3, <2>4, OneWhole
      <3> QED BY <2>1, <2>6, <3>1
    <2> QED BY <2>5, <2>6
  <1>4. ASSUME NEW a \in Agents
        PROVE  WorkHours(a, lo, hi) = WorkHours(a, lo, cut) + WorkHours(a, cut, hi)
    <2> DEFINE S == {r \in Runs : Dated(r) /\ runs[r].agent = a}
    <2>1. \A x, y : WorkHours(a, x, y) = HoursOf(S, x, y)
      BY DEF WorkHours, Total, HoursOf
    <2>2. IsFiniteSet(S) /\ S \subseteq Runs /\ \A r \in S : Dated(r)
      BY FS_Subset DEF SharesAssumption
    <2>3. HoursOf(S, lo, hi) = HoursOf(S, lo, cut) + HoursOf(S, cut, hi)
      <3> HIDE DEF S
      <3> QED BY <1>1, <2>2, HoursCut, Zenon
    <2> QED BY <2>1, <2>3
  <1> QED BY <1>3, <1>4

-----------------------------------------------------------------------------
(* Whole dates.                                                            *)

\* The weights of a set of alternatives have one denominator, their sum.
LEMMA WeightsAddUp ==
    ASSUME NEW S, IsFiniteSet(S), S # {}, NEW hours, NEW counts,
           \A k \in S : hours[k] \in Nat /\ counts[k] \in Nat
    PROVE  \E d \in Nat \ {0} : \E n :
              /\ \A k \in S : n[k] \in Nat /\ Weight(S, hours, counts, k) = <<n[k], d>>
              /\ SumFunctionOnSet(n, S) = d
  <1> DEFINE h == SumFunctionOnSet(hours, S)
             c == SumFunctionOnSet(counts, S)
  <1>1. h \in Nat /\ c \in Nat
    BY SumBounds
  <1>2. \A k : Weight(S, hours, counts, k) =
           IF h > 0 THEN <<hours[k], h>> ELSE IF c > 0 THEN <<counts[k], c>> ELSE <<1, Cardinality(S)>>
    BY DEF Weight
  <1>3. CASE h > 0
    <2>1. h \in Nat \ {0}
      BY <1>1, <1>3
    <2>2. \A k \in S : hours[k] \in Nat /\ Weight(S, hours, counts, k) = <<hours[k], h>>
      BY <1>2, <1>3
    <2> QED BY <2>1, <2>2
  <1>4. CASE ~ (h > 0) /\ c > 0
    <2>1. c \in Nat \ {0}
      BY <1>1, <1>4
    <2>2. \A k \in S : counts[k] \in Nat /\ Weight(S, hours, counts, k) = <<counts[k], c>>
      BY <1>2, <1>4
    <2> QED BY <2>1, <2>2
  <1>5. CASE ~ (h > 0) /\ ~ (c > 0)
    <2> DEFINE n == [k \in S |-> 1]
               d == Cardinality(S)
    <2>1. d \in Nat \ {0}
      BY FS_CardinalityType, FS_EmptySet
    <2>2. \A k \in S : n[k] = 1
      OBVIOUS
    <2>3. \A k \in S : n[k] \in Nat /\ Weight(S, hours, counts, k) = <<n[k], d>>
      BY <1>2, <1>5
    <2>4. SumFunctionOnSet(n, S) = d
      <3> HIDE DEF n
      <3> QED BY <2>2, SumOnes
    <2> HIDE DEF n, d
    <2> QED BY <2>1, <2>3, <2>4
  <1> QED BY <1>3, <1>4, <1>5

\* A sum over more alternatives, those beyond S counting nothing.
LEMMA SumOutside ==
    ASSUME NEW T, IsFiniteSet(T), NEW S \in SUBSET T, NEW f, \A x \in T : f[x] \in Int,
           \A x \in T \ S : f[x] = 0
    PROVE  SumFunctionOnSet(f, T) = SumFunctionOnSet(f, S)
  <1> DEFINE R == T \ S
  <1>0. S \cup R = T
    OBVIOUS
  <1>1. IsFiniteSet(S) /\ IsFiniteSet(R) /\ S \cap R = {}
    BY FS_Subset
  <1>2. /\ \A x \in S \cup R : f[x] \in Int
        /\ \A x \in S : f[x] \in Int
        /\ \A x \in R : f[x] = 0
    OBVIOUS
  <1> HIDE DEF R
  <1>3. SumFunctionOnSet(f, R) = 0
    BY <1>1, <1>2, SumZero
  <1>4. SumFunctionOnSet(f, S) \in Int
    BY <1>1, <1>2, SumType
  <1>5. SumFunctionOnSet(f, S \cup R) = SumFunctionOnSet(f, S) + SumFunctionOnSet(f, R)
    BY <1>1, <1>2, SumJoin
  <1> QED BY <1>0, <1>3, <1>4, <1>5

\* The share of an agent is the same fraction of one whole for all agents.
LEMMA AgentSplit ==
    ASSUME SharesAssumption, SharesTypes
    PROVE  \E d \in Nat \ {0} : \E n :
              /\ \A a \in Agents : n[a] \in Nat /\ AgentShare(a) = <<n[a], d>>
              /\ SumFunctionOnSet(n, Agents) = d
  <1> DEFINE h == [x \in Agents |-> AgentHours(x)]
             c == [x \in Agents |-> AgentCount(x)]
  <1>1. \A a \in Agents : h[a] \in Nat /\ c[a] \in Nat
    BY AgentSums
  <1>2. \A a : AgentShare(a) = Weight(Agents, h, c, a)
    BY DEF AgentShare
  <1>3. IsFiniteSet(Agents) /\ Agents # {}
    BY DEF SharesAssumption
  <1> HIDE DEF h, c
  <1>4. \E d \in Nat \ {0} : \E n :
              /\ \A a \in Agents : n[a] \in Nat /\ Weight(Agents, h, c, a) = <<n[a], d>>
              /\ SumFunctionOnSet(n, Agents) = d
    BY <1>1, <1>3, WeightsAddUp
  <1> QED BY <1>2, <1>4

\* Of an agent's share, n[p] / d goes to project p.
Split(a, d, n) ==
    /\ d \in Int /\ d # 0
    /\ \A p \in Rows : /\ n[p] \in Int /\ IsFraction(ProjectShare(a, p))
                       /\ ProjectShare(a, p)[1] * d = ProjectShare(a, p)[2] * n[p]
    /\ SumFunctionOnSet(n, Rows) = d

LEMMA ProjectSplit ==
    ASSUME SharesAssumption, SharesTypes, NEW a \in Agents
    PROVE  \E d, n : Split(a, d, n)
  <1> DEFINE P == ProjectsOf(a)
  <1>1. IsFiniteSet(Rows) /\ None \in Rows /\ P \in SUBSET Rows /\ IsFiniteSet(P)
    <2>1. IsFiniteSet(Rows) /\ None \in Rows
      BY Sets
    <2>2. P \in SUBSET Rows
      BY DEF ProjectsOf, Rows
    <2> QED BY <2>1, <2>2, FS_Subset
  <1>2. CASE P = {}
    <2> DEFINE n == [p \in Rows |-> IF p = None THEN 1 ELSE 0]
    <2>1. \A p \in Rows : ProjectShare(a, p) = <<n[p], 1>> /\ n[p] \in Int
      BY <1>2 DEF ProjectShare
    <2>2. \A p \in Rows : /\ n[p] \in Int /\ IsFraction(ProjectShare(a, p))
                          /\ ProjectShare(a, p)[1] * 1 = ProjectShare(a, p)[2] * n[p]
      <3> HIDE DEF n
      <3> QED BY <2>1 DEF IsFraction
    <2>3. SumFunctionOnSet(n, Rows) = 1
      <3> DEFINE R == Rows \ {None}
      <3>1. IsFiniteSet(R) /\ \A x \in R : n[x] = 0
        BY <1>1, FS_Subset
      <3>2. n[None] = 1
        BY <1>1
      <3>3. \A x \in Rows : n[x] \in Int
        OBVIOUS
      <3> HIDE DEF n
      <3>4. SumFunctionOnSet(n, Rows) = n[None] + SumFunctionOnSet(n, R)
        BY <1>1, <3>3, SumRemove
      <3> HIDE DEF R
      <3>5. SumFunctionOnSet(n, R) = 0
        BY <3>1, SumZero
      <3> QED BY <3>2, <3>4, <3>5
    <2> HIDE DEF n
    <2>4. Split(a, 1, n)
      BY <2>2, <2>3 DEF Split
    <2> QED BY <2>4
  <1>3. CASE P # {}
    <2> DEFINE h == [q \in P |-> SelectedHours(<<a, q>>, DayStart, DayEnd)]
               c == [q \in P |-> CountOf(<<a, q>>)]
    <2>1. \A p \in P : h[p] \in Nat /\ c[p] \in Nat
      BY DayHoursType, Sets, FS_CardinalityType DEF DayHours, CountOf
    <2>2. \A p : ProjectShare(a, p) = IF p \notin P THEN <<0, 1>> ELSE Weight(P, h, c, p)
      BY <1>3 DEF ProjectShare
    <2> HIDE DEF P, h, c
    <2>0. PICK d \in Nat \ {0} : \E m :
              /\ \A p \in P : m[p] \in Nat /\ Weight(P, h, c, p) = <<m[p], d>>
              /\ SumFunctionOnSet(m, P) = d
      BY <1>1, <1>3, <2>1, WeightsAddUp
    <2>3. PICK m : /\ \A p \in P : m[p] \in Nat /\ Weight(P, h, c, p) = <<m[p], d>>
                   /\ SumFunctionOnSet(m, P) = d
      BY <2>0
    <2> DEFINE n == [p \in Rows |-> IF p \in P THEN m[p] ELSE 0]
    <2>4. /\ \A p \in Rows : n[p] \in Int
          /\ \A p \in P : n[p] = m[p] /\ m[p] \in Int
          /\ \A p \in Rows \ P : n[p] = 0
      BY <1>1, <2>3
    <2> HIDE DEF n
    <2>5. SumFunctionOnSet(n, Rows) = d
      <3>1. SumFunctionOnSet(n, Rows) = SumFunctionOnSet(n, P)
        BY <1>1, <2>4, SumOutside
      <3>2. SumFunctionOnSet(n, P) = SumFunctionOnSet(m, P)
        BY <1>1, <2>4, SumSame
      <3> QED BY <2>3, <3>1, <3>2
    <2>6. ASSUME NEW p \in Rows
          PROVE  /\ n[p] \in Int /\ IsFraction(ProjectShare(a, p))
                 /\ ProjectShare(a, p)[1] * d = ProjectShare(a, p)[2] * n[p]
      <3>1. CASE p \in P
        <4>1. ProjectShare(a, p) = <<m[p], d>> /\ n[p] = m[p] /\ m[p] \in Int
          BY <2>2, <2>3, <2>4, <3>1
        <4>2. m[p] * d = d * n[p] /\ d \in Int /\ d # 0
          BY <4>1
        <4> QED BY <4>1, <4>2 DEF IsFraction
      <3>2. CASE p \notin P
        <4>1. ProjectShare(a, p) = <<0, 1>> /\ n[p] = 0
          BY <2>2, <2>4, <3>2
        <4> QED BY <4>1 DEF IsFraction
      <3> QED BY <3>1, <3>2
    <2>7. Split(a, d, n)
      BY <2>5, <2>6 DEF Split
    <2> QED BY <2>7
  <1> QED BY <1>2, <1>3

\* A day is conserved: over the common denominator M of all shares their
\* numerators add up to M.
LEMMA DayAddsUp ==
    ASSUME SharesAssumption, SharesTypes
    PROVE  Equal(One, PlusAll([k \in ShareKeys |-> DateShare(k[1], k[2])], ShareKeys))
  <1>0. PICK D \in Nat \ {0} : \E n :
              /\ \A a \in Agents : n[a] \in Nat /\ AgentShare(a) = <<n[a], D>>
              /\ SumFunctionOnSet(n, Agents) = D
    BY AgentSplit
  <1>1. PICK n : /\ \A a \in Agents : n[a] \in Nat /\ AgentShare(a) = <<n[a], D>>
                 /\ SumFunctionOnSet(n, Agents) = D
    BY <1>0
  <1> DEFINE den == [a \in Agents |-> CHOOSE d : \E m : Split(a, d, m)]
             num == [a \in Agents |-> CHOOSE m : Split(a, den[a], m)]
  <1>2. \A a \in Agents : Split(a, den[a], num[a])
    <2> TAKE a \in Agents
    <2>1. \E m : Split(a, den[a], m)
      BY ProjectSplit
    <2> HIDE DEF den
    <2> QED BY <2>1
  <1> HIDE DEF den, num
  <1>3. \A a \in Agents : den[a] \in Int /\ den[a] # 0
    BY <1>2 DEF Split
  <1>4. IsFiniteSet(Agents) /\ IsFiniteSet(Rows) /\ IsFiniteSet(ShareKeys) /\ ShareKeys = Agents \X Rows
    BY Sets
  <1>5. PICK L \in Int : L # 0 /\ \A a \in Agents : \E e \in Int : L = den[a] * e
    BY <1>3, <1>4, CommonMultiple
  <1> DEFINE e == [a \in Agents |-> CHOOSE i \in Int : L = den[a] * i]
             M == D * L
             w == [a \in Agents |-> n[a] * e[a]]
             c == [k \in ShareKeys |-> w[k[1]] * num[k[1]][k[2]]]
             f == [k \in ShareKeys |-> DateShare(k[1], k[2])]
  <1>6. \A a \in Agents : e[a] \in Int /\ L = den[a] * e[a]
    BY <1>5
  <1> HIDE DEF e
  <1>7. \A a \in Agents : w[a] \in Int /\ n[a] \in Int
    BY <1>1, <1>6
  <1>8. ASSUME NEW k \in ShareKeys
        PROVE  IsFraction(f[k]) /\ c[k] \in Int /\ f[k][1] * M = f[k][2] * c[k]
    <2> DEFINE a == k[1]  p == k[2]  s == ProjectShare(a, p)
               na == n[a]  ea == e[a]  da == den[a]  x == s[1]  y == s[2]  z == num[a][p]
    <2>1. a \in Agents /\ p \in Rows
      BY <1>4
    <2>2. IsFraction(s) /\ z \in Int /\ x * da = y * z
      BY <1>2, <2>1 DEF Split
    <2>3. AgentShare(a) = <<na, D>> /\ na \in Int /\ D \in Int /\ D # 0
      BY <1>1, <2>1
    <2>4. f[k] = <<na * x, D * y>>
      BY <2>3 DEF DateShare
    <2>5. c[k] = (na * ea) * z /\ L = da * ea /\ ea \in Int /\ da \in Int
      BY <1>3, <1>6, <2>1
    <2>6. x \in Int /\ y \in Int /\ y # 0
      BY <2>2 DEF IsFraction
    <2>7. M = D * L
      OBVIOUS
    <2> HIDE DEF a, p, s, na, ea, da, x, y, z, f, c, M
    <2>8. (na * x) * (D * (da * ea)) = (na * (D * ea)) * (x * da)
      BY <2>3, <2>5, <2>6
    <2>9. (na * (D * ea)) * (y * z) = (D * y) * ((na * ea) * z)
      BY <2>2, <2>3, <2>5, <2>6
    <2>10. (na * x) * M = (D * y) * c[k]
      BY <2>2, <2>5, <2>7, <2>8, <2>9
    <2>11. na * x \in Int /\ D * y \in Int /\ D * y # 0 /\ c[k] \in Int
      BY <2>2, <2>3, <2>5, <2>6
    <2> QED BY <2>4, <2>10, <2>11 DEF IsFraction
  <1>9. SumFunctionOnSet(c, ShareKeys) = M
    <2> DEFINE g == [a \in Agents |-> SumFunctionOnSet([p \in Rows |-> c[<<a, p>>]], Rows)]
    <2>1. ASSUME NEW a \in Agents PROVE g[a] = n[a] * L
      <3> DEFINE r == [p \in Rows |-> c[<<a, p>>]]
                 m == num[a]
                 wa == w[a]
      <3>1. \A p \in Rows : m[p] \in Int /\ r[p] = wa * m[p] + 0 * m[p]
        <4> TAKE p \in Rows
        <4>1. m[p] \in Int /\ wa \in Int
          BY <1>2, <1>7 DEF Split
        <4>2. r[p] = wa * m[p]
          BY <1>4
        <4> HIDE DEF m, r, wa
        <4> QED BY <4>1, <4>2
      <3>2. SumFunctionOnSet(m, Rows) = den[a] /\ wa \in Int
        BY <1>2, <1>7 DEF Split
      <3>3. g[a] = SumFunctionOnSet(r, Rows)
        OBVIOUS
      <3>4. wa = n[a] * e[a] /\ L = den[a] * e[a] /\ e[a] \in Int /\ den[a] \in Int /\ n[a] \in Int
        BY <1>3, <1>6, <1>7
      <3> HIDE DEF r, m, wa, g, w
      <3>5. SumFunctionOnSet(r, Rows)
              = wa * SumFunctionOnSet(m, Rows) + 0 * SumFunctionOnSet(m, Rows)
        BY <1>4, <3>1, <3>2, SumLinear
      <3>6. g[a] = wa * den[a]
        BY <3>2, <3>3, <3>4, <3>5
      <3>7. \A i, j, k \in Int : (i * j) * k = i * (k * j)
        OBVIOUS
      <3> QED BY <3>4, <3>6, <3>7
    <2>2. SumFunctionOnSet(c, ShareKeys) = SumFunctionOnSet(g, Agents)
      <3>1. \A k \in ShareKeys : c[k] \in Int
        BY <1>8
      <3> HIDE DEF c
      <3> QED BY <3>1, KeySums
    <2> HIDE DEF g, c
    <2>3. \A a \in Agents : n[a] \in Int /\ g[a] = L * n[a] + 0 * n[a]
      <3> TAKE a \in Agents
      <3>1. n[a] \in Int /\ g[a] = n[a] * L
        BY <1>7, <2>1
      <3> QED BY <3>1
    <2>4. SumFunctionOnSet(g, Agents)
            = L * SumFunctionOnSet(n, Agents) + 0 * SumFunctionOnSet(n, Agents)
      <3>1. \A a \in Agents : n[a] \in Int /\ n[a] \in Int /\ g[a] = L * n[a] + 0 * n[a]
        BY <2>3
      <3>2. L \in Int /\ 0 \in Int
        BY <1>5
      <3>3. IsFiniteSet(Agents)
        BY <1>4
      <3>4. ASSUME NEW i \in Int, NEW j \in Int, \A a \in Agents : g[a] = i * n[a] + j * n[a]
            PROVE  SumFunctionOnSet(g, Agents)
                     = i * SumFunctionOnSet(n, Agents) + j * SumFunctionOnSet(n, Agents)
        <4>1. \A a \in Agents : n[a] \in Int /\ n[a] \in Int /\ g[a] = i * n[a] + j * n[a]
          BY <3>1, <3>4
        <4> QED BY <3>3, <4>1, SumLinear
      <3> QED BY <3>1, <3>2, <3>4
    <2>5. L * D + 0 * D = D * L
      OBVIOUS
    <2> QED BY <1>1, <2>2, <2>4, <2>5
  <1>10. M \in Int /\ M # 0
    BY <1>1, <1>5
  <1> DEFINE u == PlusAll(f, ShareKeys)
  <1> HIDE DEF f, c, M
  <1>11. IsFraction(u) /\ u[1] * M = u[2] * SumFunctionOnSet(c, ShareKeys)
    BY <1>4, <1>8, <1>10, FractionSum, ZenonT(40)
  <1>12. u[1] = u[2]
    <2>1. u[1] * M = u[2] * M /\ u[1] \in Int /\ u[2] \in Int
      BY <1>9, <1>11 DEF IsFraction
    <2> DEFINE i == u[1]  j == u[2]
    <2>2. i * M = j * M /\ i \in Int /\ j \in Int
      BY <2>1
    <2> HIDE DEF u, i, j
    <2>3. (i - j) * M = i * M - j * M
      BY <1>10, <2>2
    <2>4. i - j \in Int /\ (i - j) * M = 0
      BY <1>10, <2>2, <2>3
    <2>5. \A p, q \in Int : p * q = 0 => p = 0 \/ q = 0
      OBVIOUS
    <2>6. i - j = 0
      BY <1>10, <2>4, <2>5
    <2>7. i = j
      BY <2>2, <2>6
    <2> QED BY <2>7 DEF i, j
  <1>13. Equal(One, u)
    <2>1. u[1] \in Int /\ u[2] \in Int
      BY <1>11 DEF IsFraction
    <2> HIDE DEF u
    <2> QED BY <1>12, <2>1 DEF Equal, One
  <1> QED BY <1>13 DEF f

\* What a date's share is where the day has dated runs: the hours of the key
\* over the hours of the day.
LEMMA DateIsHours ==
    ASSUME SharesAssumption, SharesTypes, FullHours > 0, NEW k \in ShareKeys
    PROVE  Equal(<<DayHours(k), FullHours>>, DateShare(k[1], k[2]))
  <1> DEFINE a == k[1]  p == k[2]  F == FullHours  h == AgentHours(a)  s == DayHours(k)
             P == ProjectsOf(a)
             w == ProjectShare(a, p)
  <1>1. a \in Agents /\ p \in Rows /\ k = <<a, p>>
    BY Sets
  <1>2. F \in Nat /\ F > 0
    BY FullIsKeys
  <1>3. AgentShare(a) = <<h, F>>
    <2> DEFINE hours == [x \in Agents |-> AgentHours(x)]
    <2>1. F = SumFunctionOnSet(hours, Agents)
      BY FullIsAgents
    <2>2. hours[a] = h
      BY <1>1
    <2> HIDE DEF hours, h, F
    <2>3. AgentShare(a) = Weight(Agents, hours, [x \in Agents |-> AgentCount(x)], a)
      BY DEF AgentShare, hours
    <2>4. \A counts : Weight(Agents, hours, counts, a) = <<hours[a], F>>
      BY <1>2, <2>1 DEF Weight
    <2> QED BY <2>2, <2>3, <2>4
  <1>4. h \in Nat /\ s \in Nat /\ s <= h
    BY <1>1, AgentSums, DayHoursType
  <1>5. DateShare(a, p) = <<h * w[1], F * w[2]>>
    BY <1>3 DEF DateShare
  <1>6. SUFFICES s * (F * w[2]) = (h * w[1]) * F
    BY <1>5 DEF Equal
  <1>7. CASE p \notin P
    <2>1. s = 0
      <3>1. ~ (CountOf(k) > 0)
        BY <1>1, <1>7 DEF ProjectsOf, Rows
      <3> QED BY <3>1, NoRunsNoHours
    <2>2. CASE P # {}
      <3>1. w = <<0, 1>>
        BY <1>7, <2>2 DEF ProjectShare
      <3> HIDE DEF s, F, h, w
      <3> QED BY <1>2, <1>4, <2>1, <3>1
    <2>3. CASE P = {}
      <3>1. \A q \in Rows : DayHours(<<a, q>>) = 0
        <4> TAKE q \in Rows
        <4>1. ~ (CountOf(<<a, q>>) > 0)
          BY <2>3 DEF ProjectsOf, Rows
        <4> QED BY <4>1, NoRunsNoHours
      <3>2. h = 0
        <4> DEFINE g == [q \in Rows |-> DayHours(<<a, q>>)]
        <4>1. \A q \in Rows : g[q] = 0
          BY <3>1
        <4>2. h = SumFunctionOnSet(g, Rows) /\ IsFiniteSet(Rows)
          BY <1>1, AgentSums, Sets
        <4> HIDE DEF g, h
        <4> QED BY <4>1, <4>2, SumZero
      <3>3. w[1] \in Int /\ w[2] \in Int
        BY <2>3 DEF ProjectShare
      <3> HIDE DEF s, F, h, w
      <3> QED BY <1>2, <2>1, <3>2, <3>3
    <2> QED BY <2>2, <2>3
  <1>8. CASE p \in P
    <2> DEFINE hours == [q \in P |-> SelectedHours(<<a, q>>, DayStart, DayEnd)]
               g == [q \in Rows |-> DayHours(<<a, q>>)]
    <2>1. P \in SUBSET Rows /\ IsFiniteSet(Rows) /\ IsFiniteSet(P)
      <3>1. P \in SUBSET Rows
        BY DEF ProjectsOf, Rows
      <3> QED BY <3>1, Sets, FS_Subset
    <2>2. /\ \A q \in Rows : g[q] \in Int
          /\ \A q \in P : hours[q] = g[q] /\ g[q] \in Int
          /\ \A q \in Rows \ P : g[q] = 0
      <3>1. \A q \in Rows : g[q] \in Int
        BY DayHoursType
      <3>2. \A q \in P : hours[q] = g[q]
        BY <2>1 DEF DayHours
      <3>3. \A q \in Rows \ P : g[q] = 0
        <4> TAKE q \in Rows \ P
        <4>1. ~ (CountOf(<<a, q>>) > 0)
          BY DEF ProjectsOf, Rows
        <4> QED BY <4>1, NoRunsNoHours
      <3> QED BY <2>1, <3>1, <3>2, <3>3
    <2>3. h = SumFunctionOnSet(g, Rows)
      BY <1>1, AgentSums
    <2>4. hours[p] = s
      BY <1>1, <1>8 DEF DayHours
    <2>5. SumFunctionOnSet(hours, P) = h
      <3> HIDE DEF hours, g, h, P
      <3>1. SumFunctionOnSet(g, Rows) = SumFunctionOnSet(g, P)
        BY <2>1, <2>2, SumOutside
      <3>2. SumFunctionOnSet(hours, P) = SumFunctionOnSet(g, P)
        BY <2>1, <2>2, SumSame
      <3> QED BY <2>3, <3>1, <3>2
    <2>6. \E counts : w = Weight(P, hours, counts, p)
      BY <1>8 DEF ProjectShare
    <2>7. w = IF h > 0 THEN <<s, h>> ELSE <<w[1], w[2]>>
      <3>1. \A counts : h > 0 => Weight(P, hours, counts, p) = <<hours[p], h>>
        <4> HIDE DEF hours, h, P
        <4> QED BY <2>5 DEF Weight
      <3>2. \A counts : Weight(P, hours, counts, p)
               = <<Weight(P, hours, counts, p)[1], Weight(P, hours, counts, p)[2]>>
        <4> HIDE DEF hours, P
        <4> QED BY DEF Weight
      <3> HIDE DEF hours, h, P, w, s
      <3> QED BY <2>4, <2>6, <3>1, <3>2
    <2>8. w[1] \in Int /\ w[2] \in Int
      <3>1. PICK d, n : Split(a, d, n)
        BY <1>1, ProjectSplit
      <3> QED BY <1>1, <3>1 DEF Split, IsFraction
    <2>9. CASE h > 0
      <3>1. w[1] = s /\ w[2] = h
        BY <2>7, <2>9
      <3> HIDE DEF s, F, h, w
      <3>2. \A i, j, l \in Int : i * (j * l) = (l * i) * j
        OBVIOUS
      <3> QED BY <1>2, <1>4, <3>1, <3>2
    <2>10. CASE ~ (h > 0)
      <3>1. h = 0 /\ s = 0
        BY <1>4, <2>10
      <3> HIDE DEF s, F, h, w
      <3> QED BY <1>2, <2>8, <3>1
    <2> QED BY <2>9, <2>10
  <1> QED BY <1>7, <1>8

-----------------------------------------------------------------------------
(* Selected ranges, of dates or of the clock.                              *)

\* The bounds of a range of whole dates that covers the day are outside of it.
LEMMA DatesCover ==
    ASSUME SharesAssumption, NEW a \in Int, NEW b \in Int, ~ IsClockRange(a, b), Covers(a, b)
    PROVE  a <= DayStart /\ b >= DayEnd
  BY DEF SharesAssumption, IsClockRange, Covers

\* Outside the day nothing is selected.
LEMMA NothingOutside ==
    ASSUME SharesAssumption, SharesTypes, NEW k, NEW a \in Int, NEW b \in Int, ~ Covers(a, b)
    PROVE  SelectedHours(k, a, b) = 0
  <1> DEFINE S == {r \in OnDay : KeyOf(r) = k}
             x == Most(DayStart, a)
             y == Least(DayEnd, b)
             f == [r \in S |-> Overlap(r, x, y)]
  <1>1. DayStart \in Int /\ DayEnd \in Int /\ DayStart < DayEnd
    BY DEF SharesAssumption
  <1>2. x \in Int /\ y \in Int /\ y <= x
    BY <1>1 DEF Covers, Most, Least
  <1>3. IsFiniteSet(S) /\ S \subseteq Runs /\ \A r \in S : Dated(r)
    BY Sets
  <1> HIDE DEF x, y
  <1>4. \A r \in S : f[r] = 0
    <2> TAKE r \in S
    <2>1. runs[r].start \in Nat /\ runs[r].end \in Nat
      BY <1>3, RunEnds
    <2> QED BY <1>2, <2>1 DEF Overlap, Most, Least
  <1>5. SelectedHours(k, a, b) = SumFunctionOnSet(f, S)
    BY DEF SelectedHours, Total, x, y
  <1> HIDE DEF f, S
  <1> QED BY <1>3, <1>4, <1>5, SumZero

\* The shares of dates are fractions.
LEMMA DateShareType ==
    ASSUME SharesAssumption, SharesTypes, NEW k \in ShareKeys
    PROVE  IsFraction(DateShare(k[1], k[2]))
  <1> DEFINE a == k[1]  p == k[2]
  <1>1. a \in Agents /\ p \in Rows
    BY Sets
  <1> HIDE DEF a, p
  <1>2. PICK D \in Nat \ {0} : \E n :
              /\ \A x \in Agents : n[x] \in Nat /\ AgentShare(x) = <<n[x], D>>
              /\ SumFunctionOnSet(n, Agents) = D
    BY AgentSplit
  <1>3. PICK n : \A x \in Agents : n[x] \in Nat /\ AgentShare(x) = <<n[x], D>>
    BY <1>2
  <1>4. PICK d, m : Split(a, d, m)
    BY <1>1, ProjectSplit
  <1> DEFINE i == n[a]  u == ProjectShare(a, p)  x == u[1]  y == u[2]
  <1>5. i \in Int /\ AgentShare(a) = <<i, D>> /\ D \in Int /\ D # 0
    BY <1>1, <1>3
  <1>6. x \in Int /\ y \in Int /\ y # 0
    BY <1>1, <1>4 DEF Split, IsFraction
  <1>7. DateShare(a, p) = <<i * x, D * y>>
    BY <1>5 DEF DateShare
  <1> HIDE DEF i, u, x, y
  <1>8. i * x \in Int /\ D * y \in Int /\ D * y # 0
    BY <1>5, <1>6
  <1>9. IsFraction(DateShare(a, p))
    BY <1>7, <1>8 DEF IsFraction
  <1> QED BY <1>9 DEF a, p

\* Where the day has dated runs, a share is that of the selected hours in the
\* hours of the day, whether dates are selected or a clock range.
LEMMA ShareIsHours ==
    ASSUME SharesAssumption, SharesTypes, FullHours > 0, NEW k \in ShareKeys,
           NEW a \in Int, NEW b \in Int, a < b
    PROVE  /\ IsFraction(Share(k, a, b)) /\ SelectedHours(k, a, b) \in Int
           /\ Share(k, a, b)[1] * FullHours = Share(k, a, b)[2] * SelectedHours(k, a, b)
  <1> DEFINE F == FullHours  s == SelectedHours(k, a, b)  u == Share(k, a, b)
  <1>1. F \in Int /\ F # 0
    BY FullIsKeys
  <1>2. s \in Int
    <2>1. a <= b /\ b <= b
      OBVIOUS
    <2> QED BY <2>1, SelectedCut
  <1>3. CASE ~ Covers(a, b)
    <2>1. s = 0 /\ u = <<0, 1>>
      BY <1>3, NothingOutside DEF Share
    <2> HIDE DEF s, u, F
    <2>2. IsFraction(u) /\ u[1] * F = u[2] * s
      BY <1>1, <2>1 DEF IsFraction
    <2> QED BY <1>2, <2>2 DEF s, u, F
  <1>4. CASE Covers(a, b) /\ IsClockRange(a, b)
    <2>1. u = <<s, F>>
      BY <1>1, <1>4 DEF Share, RangeShare
    <2> HIDE DEF s, u, F
    <2>2. IsFraction(u) /\ u[1] * F = u[2] * s
      BY <1>1, <1>2, <2>1 DEF IsFraction
    <2> QED BY <1>2, <2>2 DEF s, u, F
  <1>5. CASE Covers(a, b) /\ ~ IsClockRange(a, b)
    <2> DEFINE D == DateShare(k[1], k[2])
    <2>1. u = D
      BY <1>5 DEF Share
    <2>2. s = DayHours(k)
      BY <1>5, DatesCover, SelectedOfDay DEF DayHours
    <2>3. IsFraction(D)
      BY DateShareType
    <2>4. DayHours(k) * D[2] = D[1] * F
      <3>1. Equal(<<DayHours(k), F>>, D)
        BY DateIsHours
      <3> HIDE DEF F, D
      <3> QED BY <3>1 DEF Equal
    <2> HIDE DEF s, u, F, D
    <2>5. IsFraction(u) /\ u[1] * F = u[2] * s
      BY <1>1, <1>2, <2>1, <2>2, <2>3, <2>4 DEF IsFraction
    <2> QED BY <1>2, <2>5 DEF s, u, F
  <1> QED BY <1>3, <1>4, <1>5

\* Fractions of one whole, however they are written.
LEMMA FractionsAdd ==
    ASSUME NEW u, NEW v, NEW w, IsFraction(u), IsFraction(v), IsFraction(w),
           NEW M \in Int, M # 0, NEW n \in Int, NEW x \in Int, NEW y \in Int, n = x + y,
           u[1] * M = u[2] * n, v[1] * M = v[2] * x, w[1] * M = w[2] * y
    PROVE  Equal(u, Plus(v, w))
  <1> DEFINE z == Plus(v, w)
  <1>1. IsFraction(z) /\ z[1] * M = z[2] * n
    BY PlusFractions
  <1> DEFINE a == u[1]  b == u[2]  c == z[1]  d == z[2]
  <1>2. a \in Int /\ b \in Int /\ c \in Int /\ d \in Int
    BY <1>1 DEF IsFraction
  <1>3. a * M = b * n /\ c * M = d * n
    BY <1>1
  <1> HIDE DEF z, a, b, c, d
  <1>4. \A i, j, k \in Int : (i * j) * k = j * (i * k) /\ i * j \in Int
    OBVIOUS
  <1>5. (a * d) * M = d * (b * n) /\ (c * b) * M = b * (d * n)
    BY <1>2, <1>3, <1>4
  <1>6. d * (b * n) = b * (d * n)
    BY <1>2
  <1> DEFINE i == a * d  j == c * b
  <1>7. i \in Int /\ j \in Int /\ i * M = j * M
    BY <1>2, <1>4, <1>5, <1>6
  <1> HIDE DEF i, j
  <1>8. (i - j) * M = 0 /\ i - j \in Int
    BY <1>7
  <1>9. \A p, q \in Int : p * q = 0 => p = 0 \/ q = 0
    OBVIOUS
  <1>10. i - j = 0
    BY <1>8, <1>9
  <1>11. i = j
    BY <1>7, <1>10
  <1>12. a * d = c * b
    BY <1>11 DEF i, j
  <1> QED BY <1>12 DEF Equal, a, b, c, d, z

\* One part of a range covers the day, and the other does not.
LEMMA OnePart ==
    ASSUME NEW u, IsFraction(u)
    PROVE  Equal(u, Plus(<<0, 1>>, u)) /\ Equal(u, Plus(u, <<0, 1>>))
  <1> DEFINE a == u[1]  b == u[2]
  <1>1. a \in Int /\ b \in Int
    BY DEF IsFraction
  <1>2. /\ Plus(<<0, 1>>, u) = <<0 * b + a * 1, 1 * b>>
        /\ Plus(u, <<0, 1>>) = <<a * 1 + 0 * b, b * 1>>
    BY DEF Plus
  <1> HIDE DEF a, b
  <1>3. a * (1 * b) = (0 * b + a * 1) * b /\ a * (b * 1) = (a * 1 + 0 * b) * b
    BY <1>1
  <1> QED BY <1>2, <1>3 DEF Equal, a, b

\* The shares of a range that is cut in two.
LEMMA ShareCut ==
    ASSUME SharesAssumption, SharesTypes, NEW cut \in (lo + 1)..(hi - 1), NEW k \in ShareKeys,
           FullHours > 0 \/ OneKind(lo, cut, hi)
    PROVE  Equal(Share(k, lo, hi), Plus(Share(k, lo, cut), Share(k, cut, hi)))
  <1>1. lo \in Int /\ hi \in Int /\ cut \in Int /\ lo < cut /\ cut < hi /\ lo < hi
    BY DEF SharesTypes, SharesAssumption, Hours
  <1>2. FullHours \in Nat
    BY FullIsKeys
  <1>3. CASE FullHours > 0
    <2> DEFINE u == Share(k, lo, hi)  v == Share(k, lo, cut)  w == Share(k, cut, hi)
               n == SelectedHours(k, lo, hi)  x == SelectedHours(k, lo, cut)
               y == SelectedHours(k, cut, hi)  F == FullHours
    <2>1. IsFraction(u) /\ n \in Int /\ u[1] * F = u[2] * n
      BY <1>1, <1>3, ShareIsHours
    <2>2. IsFraction(v) /\ x \in Int /\ v[1] * F = v[2] * x
      BY <1>1, <1>3, ShareIsHours
    <2>3. IsFraction(w) /\ y \in Int /\ w[1] * F = w[2] * y
      BY <1>1, <1>3, ShareIsHours
    <2>4. n = x + y
      BY <1>1, SelectedCut
    <2>5. F \in Int /\ F # 0
      BY <1>2, <1>3
    <2> HIDE DEF u, v, w, n, x, y, F
    <2>6. Equal(u, Plus(v, w))
      BY <2>1, <2>2, <2>3, <2>4, <2>5, FractionsAdd
    <2> QED BY <2>6 DEF u, v, w
  <1>4. CASE FullHours = 0 /\ IsClockRange(lo, hi) /\ OneKind(lo, cut, hi)
    <2>1. IsClockRange(lo, cut) /\ IsClockRange(cut, hi)
      BY <1>4 DEF OneKind
    <2>2. Share(k, lo, hi) = <<0, 1>> /\ Share(k, lo, cut) = <<0, 1>> /\ Share(k, cut, hi) = <<0, 1>>
      BY <1>4, <2>1 DEF Share, RangeShare
    <2> QED BY <2>2, NoShares
  <1>5. CASE FullHours = 0 /\ ~ IsClockRange(lo, hi) /\ OneKind(lo, cut, hi)
    <2> DEFINE D == DateShare(k[1], k[2])
    <2>1. ~ IsClockRange(lo, cut) /\ ~ IsClockRange(cut, hi)
      BY <1>5 DEF OneKind
    <2>2. \A a, b : ~ IsClockRange(a, b) =>
             Share(k, a, b) = IF Covers(a, b) THEN D ELSE <<0, 1>>
      BY DEF Share
    <2>3. IsFraction(D)
      BY DateShareType
    <2>4. DayStart \in Int /\ DayEnd \in Int /\ DayStart < DayEnd
      BY DEF SharesAssumption
    <2> HIDE DEF D
    <2>5. CASE ~ Covers(lo, hi)
      <3>1. ~ Covers(lo, cut) /\ ~ Covers(cut, hi)
        BY <1>1, <2>4, <2>5 DEF Covers
      <3> QED BY <1>5, <2>1, <2>2, <2>5, <3>1, NoShares
    <2>6. CASE Covers(lo, hi)
      <3>1. lo <= DayStart /\ hi >= DayEnd
        BY <1>1, <1>5, <2>6, DatesCover
      <3>2. cut \in Midnights
        BY <2>1 DEF IsClockRange
      <3>3. CASE cut <= DayStart
        <4>1. ~ Covers(lo, cut) /\ Covers(cut, hi)
          BY <1>1, <2>4, <3>1, <3>3 DEF Covers
        <4> QED BY <1>5, <2>1, <2>2, <2>3, <2>6, <4>1, OnePart
      <3>4. CASE cut >= DayEnd
        <4>1. Covers(lo, cut) /\ ~ Covers(cut, hi)
          BY <1>1, <2>4, <3>1, <3>4 DEF Covers
        <4> QED BY <1>5, <2>1, <2>2, <2>3, <2>6, <4>1, OnePart
      <3> QED BY <3>2, <3>3, <3>4 DEF SharesAssumption
    <2> QED BY <2>5, <2>6
  <1> QED BY <1>2, <1>3, <1>4, <1>5

LEMMA DaysAreConserved == SharesAssumption /\ SharesTypes => DayConserved
  <1> SUFFICES ASSUME SharesAssumption, SharesTypes, ~ IsClockRange(lo, hi)
               PROVE  Equal(IF Covers(lo, hi) THEN One ELSE <<0, 1>>,
                            PlusAll([k \in ShareKeys |-> Share(k, lo, hi)], ShareKeys))
    BY DEF DayConserved
  <1> DEFINE f == [k \in ShareKeys |-> Share(k, lo, hi)]
             u == PlusAll(f, ShareKeys)
  <1>1. CASE Covers(lo, hi)
    <2>1. f = [k \in ShareKeys |-> DateShare(k[1], k[2])]
      BY <1>1 DEF Share
    <2> HIDE DEF f
    <2>2. Equal(One, u)
      BY <2>1, DayAddsUp
    <2> QED BY <1>1, <2>2 DEF f
  <1>2. CASE ~ Covers(lo, hi)
    <2> DEFINE c == [k \in ShareKeys |-> 0]
    <2>1. \A k \in ShareKeys : f[k] = <<0, 1>> /\ c[k] = 0
      BY <1>2 DEF Share
    <2> HIDE DEF f, c
    <2>2. \A k \in ShareKeys : IsFraction(f[k]) /\ c[k] \in Int /\ f[k][1] * 1 = f[k][2] * c[k]
      BY <2>1 DEF IsFraction
    <2>3. IsFiniteSet(ShareKeys) /\ 1 \in Int
      BY Sets
    <2>4. IsFraction(u) /\ u[1] * 1 = u[2] * SumFunctionOnSet(c, ShareKeys)
      BY <2>2, <2>3, FractionSum, ZenonT(40)
    <2>5. SumFunctionOnSet(c, ShareKeys) = 0
      BY <2>1, <2>3, SumZero
    <2>6. u[1] \in Int /\ u[2] \in Int /\ u[1] * 1 = u[2] * 0
      BY <2>4, <2>5 DEF IsFraction
    <2> HIDE DEF u
    <2>7. Equal(<<0, 1>>, u)
      BY <2>6 DEF Equal
    <2> QED BY <1>2, <2>7 DEF f, u
  <1> QED BY <1>1, <1>2

-----------------------------------------------------------------------------
SharesAdding == DayConserved /\ RangesAdd

LEMMA SharesInitially == SharesAssumption /\ ShaInit => SharesTypes
  BY DEF SharesAssumption, ShaInit, SharesTypes, Hours

LEMMA SharesStep == SharesAssumption /\ SharesTypes /\ [ShaNext]_shaVars => SharesTypes'
  <1> SUFFICES ASSUME SharesAssumption, SharesTypes, [ShaNext]_shaVars PROVE SharesTypes'
    OBVIOUS
  <1>1. ASSUME NEW a \in Hours, NEW b \in Hours, Select(a, b) PROVE SharesTypes'
    BY <1>1 DEF Select, SharesTypes, RunRows, Hours
  <1>2. CASE UNCHANGED shaVars
    BY <1>2 DEF shaVars, SharesTypes
  <1> QED BY <1>1, <1>2 DEF ShaNext

\* Whatever runs are stored and whatever is selected, the shares add up.
LEMMA SharesAddUp == SharesAssumption /\ SharesTypes => SharesAdding
  <1> SUFFICES ASSUME SharesAssumption, SharesTypes PROVE SharesAdding
    OBVIOUS
  <1>1. DayConserved
    BY DaysAreConserved
  <1>2. \A cut \in (lo + 1)..(hi - 1) : cut \in lo..hi
    BY DEF SharesTypes, SharesAssumption, Hours
  <1>3. RangesAdd
    BY <1>2, ShareCut, RangeCut DEF RangesAdd
  <1> QED BY <1>1, <1>3 DEF SharesAdding

=============================================================================
