-------------------------------- MODULE Sums --------------------------------
(***************************************************************************)
(* Sums over finite sets, as the models write them: SumFunctionOnSet for a *)
(* function (Total), MapThenSumSet for an expression.  Both are recursive  *)
(* functions over the subsets of a set.  Nothing is assumed of them here:  *)
(* that the recursion has a solution, and that the order in which elements *)
(* are added does not matter, is proved by looking at a smallest set for   *)
(* which it would be false.                                                *)
(***************************************************************************)
EXTENDS Integers, FiniteSets, Functions, TLAPS, FiniteSetTheorems,
        WellFoundedInduction

\* The element a sum takes out of s first.
SumFirst(s) == CHOOSE x \in s : TRUE

\* One round of the recursion over the subsets of T.
SumRound(g, f, T) ==
  [s \in SUBSET T |-> IF s = {} THEN 0 ELSE f[SumFirst(s)] + g[s \ {SumFirst(s)}]]

SumTable(f, T) == CHOOSE g : g = SumRound(g, f, T)

\* The library's operator is an entry of the table.
LEMMA SumIsEntry ==
  ASSUME NEW f, NEW S
  PROVE  SumFunctionOnSet(f, S) = SumTable(f, S)[S]
BY Zenon DEF SumFunctionOnSet, FoldFunctionOnSet, MapThenFoldSet, SumTable, SumRound, SumFirst

\* A collection of subsets of a finite set has a smallest member.
LEMMA SmallestSubset ==
  ASSUME NEW S, IsFiniteSet(S), NEW Q, Q \subseteq SUBSET S, Q # {}
  PROVE  \E T \in Q : \A U \in Q : U \subseteq T => U = T
<1>1. IsWellFoundedOn(StrictSubsetOrdering(S), SUBSET S)
  BY FS_StrictSubsetOrderingWellFounded, FS_FiniteSubsetsOfFinite
<1>2. PICK T \in Q : \A U \in Q : ~(<<U, T>> \in StrictSubsetOrdering(S))
  BY <1>1, WFMin, Zenon
<1> QED
  BY <1>2 DEF StrictSubsetOrdering

\* Two tables agree where both have an entry.
LEMMA TablesAgree ==
  ASSUME NEW S, IsFiniteSet(S), NEW T \in SUBSET S, NEW U \in SUBSET S, NEW f, NEW g, NEW h,
         g = SumRound(g, f, T), h = SumRound(h, f, U),
         NEW s, s \subseteq T, s \subseteq U
  PROVE  g[s] = h[s]
<1> DEFINE Bad == {r \in SUBSET S : r \subseteq T /\ r \subseteq U /\ g[r] # h[r]}
<1>1. SUFFICES ASSUME Bad # {} PROVE FALSE
  BY DEF Bad
<1>2. PICK r \in Bad : \A q \in Bad : q \subseteq r => q = r
  <2>1. Bad \subseteq SUBSET S
    OBVIOUS
  <2> HIDE DEF Bad
  <2> QED BY <1>1, <2>1, SmallestSubset
<1>3. r # {}
  BY DEF SumRound
<1> DEFINE x == SumFirst(r)
<1>4. x \in r
  BY <1>3 DEF SumFirst
<1> HIDE DEF x
<1>5. r \ {x} \in SUBSET S /\ r \ {x} \subseteq T /\ r \ {x} \subseteq U /\ r \ {x} # r
  BY <1>4
<1>6. g[r \ {x}] = h[r \ {x}]
  BY <1>2, <1>5
<1>7. g[r] = f[x] + g[r \ {x}] /\ h[r] = f[x] + h[r \ {x}]
  BY <1>3 DEF SumRound, x
<1> QED
  BY <1>6, <1>7

\* The recursion has a solution on every finite set.
LEMMA TableExists ==
  ASSUME NEW S, IsFiniteSet(S), NEW f
  PROVE  SumTable(f, S) = SumRound(SumTable(f, S), f, S)
<1> DEFINE Bad == {T \in SUBSET S : SumTable(f, T) # SumRound(SumTable(f, T), f, T)}
<1>1. SUFFICES ASSUME Bad # {} PROVE FALSE
  <2> S \in SUBSET S
    OBVIOUS
  <2> QED BY DEF Bad
<1>2. PICK T \in Bad : \A U \in Bad : U \subseteq T => U = T
  <2>1. Bad \subseteq SUBSET S
    OBVIOUS
  <2> HIDE DEF Bad
  <2> QED BY <1>1, <2>1, SmallestSubset
<1>3. \A U \in SUBSET T : U # T => SumTable(f, U) = SumRound(SumTable(f, U), f, U)
  BY <1>2
<1> DEFINE entry == [U \in SUBSET T |-> SumTable(f, U)[U]]
           x == SumFirst(T)
           g == [s \in SUBSET T |->
                   IF s # T THEN entry[s] ELSE IF T = {} THEN 0 ELSE f[x] + entry[T \ {x}]]
<1>4. \A s \in SUBSET T : s # T => g[s] = SumRound(g, f, T)[s]
  <2> SUFFICES ASSUME NEW s \in SUBSET T, s # T PROVE g[s] = SumRound(g, f, T)[s]
    OBVIOUS
  <2> DEFINE y == SumFirst(s)
             h == SumTable(f, s)
  <2>1. h = SumRound(h, f, s)
    BY <1>3
  <2>2. CASE s = {}
    <3> HIDE DEF h
    <3>1. h[s] = 0
      BY <2>1, <2>2 DEF SumRound
    <3> QED
      BY <3>1, <2>2 DEF SumRound, h
  <2>3. CASE s # {}
    <3>1. y \in s
      BY <2>3 DEF SumFirst
    <3> HIDE DEF y
    <3>2. s \ {y} \in SUBSET T /\ s \ {y} # T /\ s \ {y} \subseteq s
      BY <3>1
    <3> DEFINE k == SumTable(f, s \ {y})
    <3>3. k = SumRound(k, f, s \ {y})
      BY <3>2, <1>3
    <3> HIDE DEF h, k
    <3>4. h[s \ {y}] = k[s \ {y}]
      <4>1. IsFiniteSet(T)
        BY <1>2, FS_Subset
      <4> QED
        BY <4>1, <2>1, <3>2, <3>3, TablesAgree
    <3>5. h[s] = f[y] + h[s \ {y}]
      BY <2>1, <2>3 DEF SumRound, y
    <3>6. g[s \ {y}] = k[s \ {y}] /\ g[s] = h[s]
      BY <3>2 DEF h, k
    <3>7. SumRound(g, f, T)[s] = f[y] + g[s \ {y}]
      BY <2>3 DEF SumRound, y
    <3> QED
      BY <3>4, <3>5, <3>6, <3>7
  <2> QED
    BY <2>2, <2>3
<1>5. g[T] = SumRound(g, f, T)[T]
  <2>1. CASE T = {}
    BY <2>1 DEF SumRound
  <2>2. CASE T # {}
    <3>1. x \in T
      BY <2>2 DEF SumFirst
    <3>2. g[T \ {x}] = entry[T \ {x}]
      BY <3>1
    <3> QED
      BY <2>2, <3>2 DEF SumRound
  <2> QED
    BY <2>1, <2>2
<1>6. g = SumRound(g, f, T)
  <2> DEFINE r == SumRound(g, f, T)
  <2>1. \A s \in SUBSET T : g[s] = r[s]
    BY <1>4, <1>5
  <2>2. r = [s \in SUBSET T |-> r[s]]
    BY DEF SumRound
  <2>3. g = [s \in SUBSET T |-> g[s]]
    OBVIOUS
  <2> HIDE DEF g, r
  <2>4. g = r
    BY <2>1, <2>2, <2>3
  <2> QED
    BY <2>4 DEF r
<1> HIDE DEF g
<1>7. SumTable(f, T) = SumRound(SumTable(f, T), f, T)
  BY <1>6 DEF SumTable
<1> QED
  BY <1>2, <1>7

-----------------------------------------------------------------------------
(* What is used of sums.                                                   *)

LEMMA SumOfNone ==
  ASSUME NEW f
  PROVE  SumFunctionOnSet(f, {}) = 0
<1>1. SumFunctionOnSet(f, {}) = SumTable(f, {})[{}]
  BY SumIsEntry
<1>2. SumTable(f, {}) = SumRound(SumTable(f, {}), f, {})
  BY TableExists, FS_EmptySet
<1>3. SumRound(SumTable(f, {}), f, {})[{}] = 0
  BY DEF SumRound
<1> QED
  BY <1>1, <1>2, <1>3

\* The sum over a part of S may be read from the table of S.
LEMMA SumIsEntryOf ==
  ASSUME NEW S, IsFiniteSet(S), NEW T \in SUBSET S, NEW f
  PROVE  SumFunctionOnSet(f, T) = SumTable(f, S)[T]
<1> DEFINE g == SumTable(f, S)
           h == SumTable(f, T)
<1>1. IsFiniteSet(T)
  BY FS_Subset
<1>2. g = SumRound(g, f, S) /\ h = SumRound(h, f, T)
  BY <1>1, TableExists
<1> HIDE DEF g, h
<1>3. S \in SUBSET S /\ T \subseteq S /\ T \subseteq T
  OBVIOUS
<1>4. h[T] = g[T]
  BY <1>2, <1>3, TablesAgree
<1> QED
  BY <1>4, SumIsEntry DEF g, h

\* Terms that are integers have an integer sum.
LEMMA SumInt ==
  ASSUME NEW S, IsFiniteSet(S), NEW f, \A x \in S : f[x] \in Int
  PROVE  SumFunctionOnSet(f, S) \in Int
<1> DEFINE Bad == {T \in SUBSET S : SumFunctionOnSet(f, T) \notin Int}
<1>1. SUFFICES ASSUME Bad # {} PROVE FALSE
  <2> S \in SUBSET S
    OBVIOUS
  <2> QED BY DEF Bad
<1>2. PICK T \in Bad : \A U \in Bad : U \subseteq T => U = T
  <2>1. Bad \subseteq SUBSET S
    OBVIOUS
  <2> HIDE DEF Bad
  <2> QED BY <1>1, <2>1, SmallestSubset
<1>3. T # {}
  BY <1>2, SumOfNone
<1> DEFINE x == SumFirst(T)
           g == SumTable(f, S)
<1>4. x \in T
  BY <1>3 DEF SumFirst
<1>5. g = SumRound(g, f, S)
  BY TableExists
<1> HIDE DEF g
<1>6. g[T] = f[x] + g[T \ {x}]
  BY <1>2, <1>3, <1>5 DEF SumRound
<1> HIDE DEF x
<1>7. T \in SUBSET S /\ T \ {x} \in SUBSET S /\ T \ {x} \subseteq T /\ T \ {x} # T
  BY <1>2, <1>4
<1>8. SumFunctionOnSet(f, T \ {x}) \in Int
  BY <1>2, <1>7
<1>9. SumFunctionOnSet(f, T) = f[x] + SumFunctionOnSet(f, T \ {x})
  BY <1>6, <1>7, SumIsEntryOf DEF g
<1> QED
  BY <1>2, <1>4, <1>7, <1>8, <1>9

\* Any element may be taken out first.
LEMMA SumTakeOut ==
  ASSUME NEW S, IsFiniteSet(S), NEW f, \A x \in S : f[x] \in Int, NEW z \in S
  PROVE  SumFunctionOnSet(f, S) = f[z] + SumFunctionOnSet(f, S \ {z})
<1> DEFINE Sum(T) == SumFunctionOnSet(f, T)
           Bad == {T \in SUBSET S : \E y \in T : Sum(T) # f[y] + Sum(T \ {y})}
<1>1. SUFFICES ASSUME Bad # {} PROVE FALSE
  <2> S \in SUBSET S
    OBVIOUS
  <2> QED BY DEF Bad
<1>2. PICK T \in Bad : \A U \in Bad : U \subseteq T => U = T
  <2>1. Bad \subseteq SUBSET S
    OBVIOUS
  <2> HIDE DEF Bad
  <2> QED BY <1>1, <2>1, SmallestSubset
<1>3. PICK y \in T : Sum(T) # f[y] + Sum(T \ {y})
  BY <1>2
<1> DEFINE x == SumFirst(T)
           g == SumTable(f, S)
<1>4. x \in T
  BY <1>3 DEF SumFirst
<1>5. g = SumRound(g, f, S)
  BY TableExists
<1> HIDE DEF g
<1>6. g[T] = f[x] + g[T \ {x}]
  BY <1>2, <1>3, <1>5 DEF SumRound
<1> HIDE DEF x
<1>7. T \in SUBSET S /\ T \ {x} \in SUBSET S
  BY <1>2
<1>8. Sum(T) = f[x] + Sum(T \ {x})
  BY <1>6, <1>7, SumIsEntryOf DEF g
<1>9. x # y
  BY <1>3, <1>8
<1>10. Sum(T \ {x}) = f[y] + Sum((T \ {x}) \ {y})
  <2>1. y \in T \ {x} /\ T \ {x} \subseteq T /\ T \ {x} # T
    BY <1>9, <1>4
  <2> QED
    BY <2>1, <1>2, <1>7
<1>11. Sum(T \ {y}) = f[x] + Sum((T \ {y}) \ {x})
  <2>1. x \in T \ {y} /\ T \ {y} \subseteq T /\ T \ {y} # T /\ T \ {y} \in SUBSET S
    BY <1>9, <1>4, <1>7
  <2> QED
    BY <2>1, <1>2
<1>12. (T \ {x}) \ {y} = (T \ {y}) \ {x}
  OBVIOUS
<1>13. Sum((T \ {x}) \ {y}) \in Int
  <2>1. IsFiniteSet((T \ {x}) \ {y})
    BY <1>7, FS_Subset, (T \ {x}) \ {y} \in SUBSET S
  <2> QED
    BY <2>1, <1>7, SumInt
<1>14. f[x] \in Int /\ f[y] \in Int
  BY <1>3, <1>4, <1>7
<1> DEFINE rest == Sum((T \ {x}) \ {y})
<1>15. rest \in Int /\ Sum(T) = f[x] + (f[y] + rest) /\ Sum(T \ {y}) = f[x] + rest
  BY <1>8, <1>10, <1>11, <1>12, <1>13
<1> HIDE DEF Sum, Bad, rest
<1> QED
  BY <1>3, <1>14, <1>15

\* Sums of terms that add up add up.
LEMMA SumAdd ==
  ASSUME NEW S, IsFiniteSet(S), NEW f, NEW g, NEW h,
         \A x \in S : f[x] \in Int /\ g[x] \in Int /\ h[x] = f[x] + g[x]
  PROVE  SumFunctionOnSet(h, S) = SumFunctionOnSet(f, S) + SumFunctionOnSet(g, S)
<1> DEFINE F(T) == SumFunctionOnSet(f, T)
           G(T) == SumFunctionOnSet(g, T)
           H(T) == SumFunctionOnSet(h, T)
           Bad == {T \in SUBSET S : H(T) # F(T) + G(T)}
<1>1. SUFFICES ASSUME Bad # {} PROVE FALSE
  <2> S \in SUBSET S
    OBVIOUS
  <2> QED BY DEF Bad
<1>2. PICK T \in Bad : \A U \in Bad : U \subseteq T => U = T
  <2>1. Bad \subseteq SUBSET S
    OBVIOUS
  <2> HIDE DEF Bad
  <2> QED BY <1>1, <2>1, SmallestSubset
<1>3. F({}) = 0 /\ G({}) = 0 /\ H({}) = 0
  BY SumOfNone
<1>4. T \in SUBSET S /\ IsFiniteSet(T) /\ H(T) # F(T) + G(T)
  BY <1>2, FS_Subset
<1>5. PICK x \in T : TRUE
  <2>1. T = {} => F(T) = 0 /\ G(T) = 0 /\ H(T) = 0
    BY <1>3, Zenon
  <2> HIDE DEF F, G, H, Bad
  <2> QED BY <2>1, <1>4
<1> DEFINE R == T \ {x}
<1>6. R \in SUBSET S /\ R \subseteq T /\ R # T /\ IsFiniteSet(R)
  BY <1>4, <1>5, FS_Subset
<1>7. H(R) = F(R) + G(R)
  BY <1>2, <1>6
<1>8. F(R) \in Int /\ G(R) \in Int
  BY <1>6, SumInt
<1>9. f[x] \in Int /\ g[x] \in Int /\ h[x] = f[x] + g[x]
  BY <1>4, <1>5
<1>10. \A y \in T : f[y] \in Int /\ g[y] \in Int /\ h[y] \in Int
  BY <1>4
<1>11. F(T) = f[x] + F(R) /\ G(T) = g[x] + G(R) /\ H(T) = h[x] + H(R)
  BY <1>4, <1>10, SumTakeOut
<1> HIDE DEF F, G, H, R, Bad
<1> QED
  BY <1>4, <1>7, <1>8, <1>9, <1>11

\* Larger terms have a larger sum.
LEMMA SumMonotone ==
  ASSUME NEW S, IsFiniteSet(S), NEW f, NEW h,
         \A x \in S : f[x] \in Int /\ h[x] \in Int /\ f[x] <= h[x]
  PROVE  SumFunctionOnSet(f, S) <= SumFunctionOnSet(h, S)
<1> DEFINE F(T) == SumFunctionOnSet(f, T)
           H(T) == SumFunctionOnSet(h, T)
           Bad == {T \in SUBSET S : ~(F(T) <= H(T))}
<1>1. SUFFICES ASSUME Bad # {} PROVE FALSE
  <2> S \in SUBSET S
    OBVIOUS
  <2> QED BY DEF Bad
<1>2. PICK T \in Bad : \A U \in Bad : U \subseteq T => U = T
  <2>1. Bad \subseteq SUBSET S
    OBVIOUS
  <2> HIDE DEF Bad
  <2> QED BY <1>1, <2>1, SmallestSubset
<1>3. F({}) = 0 /\ H({}) = 0
  BY SumOfNone
<1>4. T \in SUBSET S /\ IsFiniteSet(T) /\ ~(F(T) <= H(T))
  BY <1>2, FS_Subset
<1>5. PICK x \in T : TRUE
  <2> HIDE DEF F, H
  <2> QED BY <1>3, <1>4
<1> DEFINE R == T \ {x}
<1>6. R \in SUBSET S /\ R \subseteq T /\ R # T /\ IsFiniteSet(R)
  BY <1>4, <1>5, FS_Subset
<1>7. F(R) <= H(R)
  BY <1>2, <1>6
<1>8. F(R) \in Int /\ H(R) \in Int
  BY <1>6, SumInt
<1>9. f[x] \in Int /\ h[x] \in Int /\ f[x] <= h[x]
  BY <1>4, <1>5
<1>10. \A y \in T : f[y] \in Int /\ h[y] \in Int
  BY <1>4
<1>11. F(T) = f[x] + F(R) /\ H(T) = h[x] + H(R)
  BY <1>4, <1>10, SumTakeOut
<1> HIDE DEF F, H, R, Bad
<1> QED
  BY <1>4, <1>7, <1>8, <1>9, <1>11

\* Equal terms have equal sums, whatever the functions are elsewhere.
LEMMA SumSame ==
  ASSUME NEW S, IsFiniteSet(S), NEW f, NEW h, \A x \in S : f[x] \in Int /\ f[x] = h[x]
  PROVE  SumFunctionOnSet(f, S) = SumFunctionOnSet(h, S)
<1>1. \A x \in S : h[x] \in Int
  OBVIOUS
<1>2. SumFunctionOnSet(f, S) \in Int /\ SumFunctionOnSet(h, S) \in Int
  BY <1>1, SumInt
<1>3. \A x \in S : f[x] <= h[x] /\ h[x] <= f[x]
  OBVIOUS
<1>4. SumFunctionOnSet(f, S) <= SumFunctionOnSet(h, S)
  BY <1>1, <1>3, SumMonotone
<1>5. SumFunctionOnSet(h, S) <= SumFunctionOnSet(f, S)
  BY <1>1, <1>3, SumMonotone
<1> QED
  BY <1>2, <1>4, <1>5

\* Terms that are all zero add up to zero.
LEMMA SumZero ==
  ASSUME NEW S, IsFiniteSet(S), NEW f, \A x \in S : f[x] = 0
  PROVE  SumFunctionOnSet(f, S) = 0
<1>1. \A x \in S : f[x] \in Int /\ f[x] = f[x] + f[x]
  OBVIOUS
<1>2. SumFunctionOnSet(f, S) \in Int
  BY <1>1, SumInt
<1>3. SumFunctionOnSet(f, S) = SumFunctionOnSet(f, S) + SumFunctionOnSet(f, S)
  BY <1>1, SumAdd
<1> QED
  <2> DEFINE s == SumFunctionOnSet(f, S)
  <2>1. s \in Int /\ s = s + s
    BY <1>2, <1>3
  <2> HIDE DEF s
  <2>2. s = 0
    BY ONLY <2>1
  <2> QED
    BY <2>2 DEF s

\* Terms that are not negative have a sum that is at least each of them.
LEMMA SumNat ==
  ASSUME NEW S, IsFiniteSet(S), NEW f, \A x \in S : f[x] \in Nat
  PROVE  /\ SumFunctionOnSet(f, S) \in Nat
         /\ \A x \in S : f[x] <= SumFunctionOnSet(f, S)
<1> DEFINE zero == [x \in S |-> 0]
<1>1. \A T \in SUBSET S : IsFiniteSet(T) /\ SumFunctionOnSet(f, T) \in Nat
  <2> SUFFICES ASSUME NEW T \in SUBSET S
               PROVE  IsFiniteSet(T) /\ SumFunctionOnSet(f, T) \in Nat
    OBVIOUS
  <2>1. IsFiniteSet(T)
    BY FS_Subset
  <2>2. SumFunctionOnSet(zero, T) = 0
    BY <2>1, SumZero
  <2>3. \A x \in T : zero[x] \in Int /\ f[x] \in Int /\ zero[x] <= f[x]
    OBVIOUS
  <2> HIDE DEF zero
  <2>4. SumFunctionOnSet(zero, T) <= SumFunctionOnSet(f, T)
    BY <2>1, <2>3, SumMonotone
  <2>5. SumFunctionOnSet(f, T) \in Int
    BY <2>1, <2>3, SumInt
  <2> QED
    BY <2>1, <2>2, <2>4, <2>5
<1>2. ASSUME NEW x \in S PROVE f[x] <= SumFunctionOnSet(f, S)
  <2>1. SumFunctionOnSet(f, S) = f[x] + SumFunctionOnSet(f, S \ {x})
    BY SumTakeOut
  <2>2. SumFunctionOnSet(f, S \ {x}) \in Nat
    BY <1>1
  <2> QED
    BY <2>1, <2>2
<1>3. S \in SUBSET S
  OBVIOUS
<1> QED
  BY <1>1, <1>2, <1>3

\* A sum over two parts.
LEMMA SumUnion ==
  ASSUME NEW S, IsFiniteSet(S), NEW U, IsFiniteSet(U), S \cap U = {},
         NEW f, \A x \in S \cup U : f[x] \in Int
  PROVE  SumFunctionOnSet(f, S \cup U) = SumFunctionOnSet(f, S) + SumFunctionOnSet(f, U)
<1> DEFINE F(T) == SumFunctionOnSet(f, T)
           Bad == {T \in SUBSET S : F(T \cup U) # F(T) + F(U)}
<1>1. SUFFICES ASSUME Bad # {} PROVE FALSE
  <2> S \in SUBSET S
    OBVIOUS
  <2> QED BY DEF Bad
<1>2. PICK T \in Bad : \A V \in Bad : V \subseteq T => V = T
  <2>1. Bad \subseteq SUBSET S
    OBVIOUS
  <2> HIDE DEF Bad
  <2> QED BY <1>1, <2>1, SmallestSubset
<1>3. T \in SUBSET S /\ IsFiniteSet(T) /\ F(T \cup U) # F(T) + F(U)
  BY <1>2, FS_Subset
<1>4. F(U) \in Int
  BY SumInt
<1>5. T # {}
  <2>1. {} \cup U = U /\ F({}) = 0
    BY SumOfNone
  <2>2. T = {} => F(T \cup U) = F(U) /\ F(T) = 0
    BY <2>1, Zenon
  <2> HIDE DEF F, Bad
  <2> QED BY <2>2, <1>3, <1>4
<1>6. PICK x \in T : TRUE
  BY <1>5
<1> DEFINE R == T \ {x}
<1>7. R \in SUBSET S /\ R \subseteq T /\ R # T /\ IsFiniteSet(R)
  BY <1>3, <1>6, FS_Subset
<1>8. F(R \cup U) = F(R) + F(U)
  BY <1>2, <1>7
<1>9. F(T) = f[x] + F(R) /\ f[x] \in Int
  BY <1>3, <1>6, SumTakeOut
<1>10. F(T \cup U) = f[x] + F(R \cup U)
  <2>1. IsFiniteSet(T \cup U) /\ x \in T \cup U /\ \A y \in T \cup U : f[y] \in Int
    BY <1>3, <1>6, FS_Union
  <2>2. (T \cup U) \ {x} = R \cup U
    BY <1>3, <1>6
  <2> QED
    BY <2>1, <2>2, SumTakeOut
<1>11. F(R) \in Int
  BY <1>7, SumInt
<1> HIDE DEF F, R, Bad
<1> QED
  BY <1>3, <1>4, <1>8, <1>9, <1>10, <1>11

\* Terms that are zero may be left out.
LEMMA SumPart ==
  ASSUME NEW S, IsFiniteSet(S), NEW T \in SUBSET S, NEW f,
         \A x \in T : f[x] \in Int, \A x \in S \ T : f[x] = 0
  PROVE  SumFunctionOnSet(f, S) = SumFunctionOnSet(f, T)
<1>1. IsFiniteSet(T) /\ IsFiniteSet(S \ T)
  BY FS_Subset, S \ T \in SUBSET S
<1>2. T \cap (S \ T) = {} /\ T \cup (S \ T) = S /\ \A x \in S : f[x] \in Int
  OBVIOUS
<1>3. SumFunctionOnSet(f, S) = SumFunctionOnSet(f, T) + SumFunctionOnSet(f, S \ T)
  BY <1>1, <1>2, SumUnion
<1>4. SumFunctionOnSet(f, S \ T) = 0
  BY <1>1, SumZero
<1>5. SumFunctionOnSet(f, T) \in Int
  BY <1>1, SumInt
<1> QED
  BY <1>3, <1>4, <1>5

\* One more element.
LEMMA SumPlus ==
  ASSUME NEW S, IsFiniteSet(S), NEW z, z \notin S, NEW f, f[z] \in Int,
         \A x \in S : f[x] \in Int
  PROVE  SumFunctionOnSet(f, S \cup {z}) = SumFunctionOnSet(f, S) + f[z]
<1>1. IsFiniteSet(S \cup {z}) /\ (S \cup {z}) \ {z} = S
  BY FS_AddElement
<1>2. SumFunctionOnSet(f, S \cup {z}) = f[z] + SumFunctionOnSet(f, S)
  BY <1>1, SumTakeOut
<1>3. SumFunctionOnSet(f, S) \in Int
  BY SumInt
<1> QED
  BY <1>2, <1>3

\* A change of one term changes the sum by as much.
LEMMA SumChange ==
  ASSUME NEW S, IsFiniteSet(S), NEW f, NEW h, NEW z \in S, h[z] \in Int,
         \A x \in S : f[x] \in Int, \A x \in S : x # z => h[x] = f[x]
  PROVE  SumFunctionOnSet(h, S) = SumFunctionOnSet(f, S) + (h[z] - f[z])
<1>1. IsFiniteSet(S \ {z}) /\ f[z] \in Int /\ \A x \in S : h[x] \in Int
  BY FS_RemoveElement
<1>2. SumFunctionOnSet(f, S) = f[z] + SumFunctionOnSet(f, S \ {z})
  BY SumTakeOut
<1>3. SumFunctionOnSet(h, S) = h[z] + SumFunctionOnSet(h, S \ {z})
  BY <1>1, SumTakeOut
<1>4. SumFunctionOnSet(f, S \ {z}) = SumFunctionOnSet(h, S \ {z})
  BY <1>1, SumSame
<1>5. SumFunctionOnSet(f, S \ {z}) \in Int
  BY <1>1, SumInt
<1> QED
  BY <1>1, <1>2, <1>3, <1>4, <1>5

\* The terms may be renamed, two of them never to the same name.
LEMMA SumRenamed ==
  ASSUME NEW S, IsFiniteSet(S), NEW f, NEW h, NEW m,
         \A x \in S : f[x] \in Int /\ h[m[x]] = f[x],
         \A x, y \in S : m[x] = m[y] => x = y,
         NEW C, C = {m[x] : x \in S}
  PROVE  IsFiniteSet(C) /\ SumFunctionOnSet(h, C) = SumFunctionOnSet(f, S)
<1> DEFINE I(T) == {m[x] : x \in T}
           Good(T) == IsFiniteSet(I(T)) /\ SumFunctionOnSet(h, I(T)) = SumFunctionOnSet(f, T)
           Bad == {T \in SUBSET S : ~Good(T)}
<1>1. SUFFICES ASSUME Bad # {} PROVE FALSE
  <2> S \in SUBSET S
    OBVIOUS
  <2> QED BY DEF Bad
<1>2. PICK T \in Bad : \A U \in Bad : U \subseteq T => U = T
  <2>1. Bad \subseteq SUBSET S
    OBVIOUS
  <2> HIDE DEF Bad
  <2> QED BY <1>1, <2>1, SmallestSubset
<1>3. T \in SUBSET S /\ IsFiniteSet(T)
  BY <1>2, FS_Subset
<1>4. PICK x \in T : TRUE
  <2>1. SUFFICES ASSUME T = {} PROVE FALSE
    OBVIOUS
  <2>2. I(T) = {}
    BY <2>1
  <2>3. SumFunctionOnSet(h, I(T)) = 0 /\ SumFunctionOnSet(f, T) = 0 /\ IsFiniteSet(I(T))
    BY <2>1, <2>2, SumOfNone, FS_EmptySet, Zenon
  <2> QED
    BY <2>3, <1>2
<1> DEFINE R == T \ {x}
<1>5. R \in SUBSET S /\ R \subseteq T /\ R # T /\ IsFiniteSet(R)
  BY <1>3, <1>4, FS_Subset
<1>6. IsFiniteSet(I(R)) /\ SumFunctionOnSet(h, I(R)) = SumFunctionOnSet(f, R)
  BY <1>2, <1>5
<1>7. I(T) = I(R) \cup {m[x]} /\ m[x] \notin I(R)
  BY <1>3, <1>4
<1>8. IsFiniteSet(I(T))
  <2> HIDE DEF I, R
  <2> QED BY <1>6, <1>7, FS_AddElement
<1>9. \A y \in I(R) : h[y] \in Int
  BY <1>5
<1>10. h[m[x]] = f[x] /\ f[x] \in Int
  BY <1>3, <1>4
<1>11. SumFunctionOnSet(h, I(T)) = SumFunctionOnSet(h, I(R)) + f[x]
  <2> DEFINE V == I(R)
             z == m[x]
  <2>1. V \cup {z} = I(T) /\ IsFiniteSet(V) /\ z \notin V /\ (\A y \in V : h[y] \in Int)
        /\ h[z] \in Int /\ h[z] = f[x]
    BY <1>6, <1>7, <1>9, <1>10
  <2> HIDE DEF V, z, I
  <2>2. SumFunctionOnSet(h, V \cup {z}) = SumFunctionOnSet(h, V) + h[z]
    BY ONLY <2>1, SumPlus, Zenon
  <2> QED
    BY <2>1, <2>2 DEF V
<1>12. SumFunctionOnSet(f, T) = f[x] + SumFunctionOnSet(f, R)
  BY <1>3, <1>4, SumTakeOut
<1>13. SumFunctionOnSet(f, R) \in Int
  BY <1>3, <1>5, SumInt
<1>14. ~Good(T)
  BY <1>2
<1>15. SumFunctionOnSet(h, I(T)) = SumFunctionOnSet(f, T)
  <2> HIDE DEF I, R, Good, Bad
  <2> QED
    BY <1>6, <1>10, <1>11, <1>12, <1>13
<1> QED
  BY <1>8, <1>14, <1>15

\* The numbers of S, moved by L.
Shifted(L, S) == {L + n : n \in S}

\* The terms may be those of the numbers L + n.
LEMMA SumShifted ==
  ASSUME NEW S, IsFiniteSet(S), S \subseteq Int, NEW L \in Int, NEW f, NEW h,
         \A n \in S : f[n] \in Int /\ h[L + n] = f[n]
  PROVE  /\ IsFiniteSet(Shifted(L, S))
         /\ SumFunctionOnSet(h, Shifted(L, S)) = SumFunctionOnSet(f, S)
<1> DEFINE m == [n \in S |-> L + n]
           C == Shifted(L, S)
<1>1. \A n \in S : m[n] = L + n
  OBVIOUS
<1> HIDE DEF m
<1>2. \A n \in S : f[n] \in Int /\ h[m[n]] = f[n]
  BY <1>1
<1>3. ASSUME NEW n \in S, NEW k \in S, m[n] = m[k]
      PROVE  n = k
  <2>1. n \in Int /\ k \in Int /\ L + n = L + k
    BY <1>1, <1>3
  <2> QED
    BY <2>1
<1>4. \A n, k \in S : m[n] = m[k] => n = k
  BY <1>3
<1>5. C = {m[n] : n \in S}
  BY <1>1 DEF Shifted
<1> HIDE DEF C
<1>6. IsFiniteSet(C) /\ SumFunctionOnSet(h, C) = SumFunctionOnSet(f, S)
  BY ONLY <1>2, <1>4, <1>5, SumRenamed, IsFiniteSet(S)
<1> QED
  BY <1>6 DEF C

\* Equal terms add up to as many times one of them.
LEMMA SumConstant ==
  ASSUME NEW S, IsFiniteSet(S), NEW c \in Int, NEW f, \A x \in S : f[x] = c
  PROVE  Cardinality(S) \in Nat /\ SumFunctionOnSet(f, S) = c * Cardinality(S)
<1> DEFINE F(T) == SumFunctionOnSet(f, T)
           Bad == {T \in SUBSET S : F(T) # c * Cardinality(T)}
<1>0. Cardinality(S) \in Nat
  BY FS_CardinalityType
<1>1. SUFFICES ASSUME Bad # {} PROVE FALSE
  <2> S \in SUBSET S
    OBVIOUS
  <2> QED BY <1>0 DEF Bad
<1>2. PICK T \in Bad : \A U \in Bad : U \subseteq T => U = T
  <2>1. Bad \subseteq SUBSET S
    OBVIOUS
  <2> HIDE DEF Bad
  <2> QED BY <1>1, <2>1, SmallestSubset
<1>3. T \in SUBSET S /\ IsFiniteSet(T) /\ F(T) # c * Cardinality(T)
  BY <1>2, FS_Subset
<1>4. T # {}
  <2>1. F({}) = 0 /\ Cardinality({}) = 0
    BY SumOfNone, FS_EmptySet
  <2>2. T = {} => F(T) = 0 /\ Cardinality(T) = 0
    BY <2>1, Zenon
  <2> HIDE DEF F, Bad
  <2> QED
    BY <1>3, <2>2
<1>5. PICK x \in T : TRUE
  BY <1>4
<1> DEFINE R == T \ {x}
           n == Cardinality(R)
<1>6. R \in SUBSET S /\ R \subseteq T /\ R # T /\ IsFiniteSet(R)
  BY <1>3, <1>5, FS_Subset
<1>7. F(R) = c * n
  BY <1>2, <1>6
<1>8. F(T) = c + F(R)
  BY <1>3, <1>5, SumTakeOut
<1>9. n \in Nat /\ Cardinality(T) = n + 1
  <2>1. n \in Nat
    BY <1>6, FS_CardinalityType
  <2>2. n = Cardinality(T) - 1 /\ Cardinality(T) \in Nat
    BY <1>3, <1>5, FS_RemoveElement, FS_CardinalityType
  <2> QED
    BY <2>1, <2>2
<1> HIDE DEF F, R, n, Bad
<1>10. c * (n + 1) = c + c * n
  BY <1>9
<1> QED
  BY <1>3, <1>7, <1>8, <1>9, <1>10

\* A factor of all terms is one of their sum.
LEMMA SumTimes ==
  ASSUME NEW S, IsFiniteSet(S), NEW c \in Int, NEW f, NEW h,
         \A x \in S : f[x] \in Int /\ h[x] = c * f[x]
  PROVE  SumFunctionOnSet(h, S) = c * SumFunctionOnSet(f, S)
<1> DEFINE F(T) == SumFunctionOnSet(f, T)
           H(T) == SumFunctionOnSet(h, T)
           Bad == {T \in SUBSET S : H(T) # c * F(T)}
<1>1. SUFFICES ASSUME Bad # {} PROVE FALSE
  <2> S \in SUBSET S
    OBVIOUS
  <2> QED BY DEF Bad
<1>2. PICK T \in Bad : \A U \in Bad : U \subseteq T => U = T
  <2>1. Bad \subseteq SUBSET S
    OBVIOUS
  <2> HIDE DEF Bad
  <2> QED BY <1>1, <2>1, SmallestSubset
<1>3. T \in SUBSET S /\ IsFiniteSet(T) /\ H(T) # c * F(T)
  BY <1>2, FS_Subset
<1>4. T # {}
  <2>1. F({}) = 0 /\ H({}) = 0
    BY SumOfNone
  <2>2. T = {} => F(T) = 0 /\ H(T) = 0
    BY <2>1, Zenon
  <2> HIDE DEF F, H, Bad
  <2> QED
    BY <1>3, <2>2
<1>5. PICK x \in T : TRUE
  BY <1>4
<1> DEFINE R == T \ {x}
<1>6. R \in SUBSET S /\ R \subseteq T /\ R # T /\ IsFiniteSet(R)
  BY <1>3, <1>5, FS_Subset
<1>7. H(R) = c * F(R)
  BY <1>2, <1>6
<1>8. f[x] \in Int /\ h[x] = c * f[x] /\ c * f[x] \in Int
  BY <1>3, <1>5
<1>9. F(T) = f[x] + F(R)
  BY <1>3, <1>5, SumTakeOut
<1>10. H(T) = h[x] + H(R)
  <2>1. \A y \in T : h[y] \in Int
    <3> SUFFICES ASSUME NEW y \in T PROVE h[y] \in Int
      OBVIOUS
    <3>1. f[y] \in Int /\ h[y] = c * f[y]
      BY <1>3
    <3> QED
      BY <3>1
  <2> QED
    BY <1>3, <1>5, <2>1, SumTakeOut
<1>11. F(R) \in Int
  BY <1>3, <1>6, SumInt
<1> DEFINE u == f[x]
           v == F(R)
<1>12. c * (u + v) = c * u + c * v
  <2>1. u \in Int /\ v \in Int
    BY <1>8, <1>11
  <2> HIDE DEF u, v
  <2> QED
    BY <2>1
<1> HIDE DEF F, H, R, Bad
<1> QED
  BY <1>3, <1>7, <1>8, <1>9, <1>10, <1>11, <1>12

\* Of n places in a row, each taken once, those below k are k.
LEMMA FirstPlaces ==
  ASSUME NEW S, IsFiniteSet(S), NEW r, \A x \in S : r[x] \in 0 .. Cardinality(S) - 1,
         \A x, y \in S : r[x] = r[y] => x = y, NEW k \in 0 .. Cardinality(S),
         NEW Low, Low = {x \in S : r[x] < k}
  PROVE  Cardinality(Low) = k
<1> DEFINE n == Cardinality(S)
           f == [x \in S |-> r[x]]
           g == [x \in Low |-> r[x]]
<1>1. n \in Nat /\ k \in Nat /\ k <= n
  BY FS_CardinalityType
<1>2. IsFiniteSet(0 .. n - 1) /\ Cardinality(0 .. n - 1) = n
  <2>1. 0 \in Int /\ n - 1 \in Int /\ (IF 0 > n - 1 THEN 0 ELSE (n - 1) - 0 + 1) = n
    BY <1>1
  <2> HIDE DEF n
  <2> QED
    BY <2>1, FS_Interval
<1>3. f \in Injection(S, 0 .. n - 1)
  BY DEF Injection, IsInjective
<1> HIDE DEF n
<1>4. f \in Surjection(S, 0 .. n - 1)
  BY <1>2, <1>3, FS_Injection DEF n
<1>5. IsFiniteSet(0 .. k - 1) /\ Cardinality(0 .. k - 1) = k
  BY <1>1, FS_Interval
<1>6. g \in Injection(Low, 0 .. k - 1)
  BY <1>1 DEF Injection, IsInjective, n
<1>7. g \in Surjection(Low, 0 .. k - 1)
  <2> SUFFICES ASSUME NEW i \in 0 .. k - 1 PROVE \E x \in Low : g[x] = i
    BY <1>6 DEF Surjection, Injection
  <2>1. i \in 0 .. n - 1 /\ i < k
    BY <1>1
  <2>2. PICK x \in S : f[x] = i
    BY <1>4, <2>1 DEF Surjection
  <2> QED
    BY <2>1, <2>2
<1> HIDE DEF g
<1>8. Cardinality(Low) = Cardinality(0 .. k - 1)
  BY <1>5, <1>6, <1>7, FS_Injection
<1> QED
  BY <1>5, <1>8
=============================================================================
