------------------------- MODULE PointLedgerProofs -------------------------
(***************************************************************************)
(* Theorems about PointLedger, for every finite set of trips, purchases,   *)
(* invitations and adjustments, every set of sessions, and any number of   *)
(* lots and days.                                                          *)
(*                                                                         *)
(* The balance, the lots and the ledger are compared through sums, so the  *)
(* module begins with what a sum over a finite set is, however its         *)
(* elements are taken.  The inductions it needs are over sets: of the      *)
(* numbers, or of the subsets of a finite set, for which a statement has   *)
(* been shown.                                                             *)
(***************************************************************************)
EXTENDS PointLedger, FiniteSetTheorems, WellFoundedInduction, TLAPS

-----------------------------------------------------------------------------
(* Induction, stated with the set of what has been shown in the place of a *)
(* predicate.                                                              *)

LEMMA LeastNumber ==
  ASSUME NEW T, T \subseteq Nat, T # {}
  PROVE  \E n \in T : \A m \in T : n <= m
<1>1. PICK n \in T : \A m \in T : ~(<<m, n>> \in OpToRel(<, Nat))
  BY NatLessThanWellFounded, WFMin
<1>2. \A m \in T : ~(m < n)
  BY <1>1 DEF OpToRel
<1> QED BY <1>2

LEMMA CountingUp ==
  ASSUME NEW P, 0 \in P, \A n \in Nat : n \in P => n + 1 \in P
  PROVE  Nat \subseteq P
<1> SUFFICES ASSUME Nat \ P # {} PROVE FALSE
  OBVIOUS
<1>1. PICK n \in Nat \ P : \A m \in Nat \ P : n <= m
  BY LeastNumber
<1>2. n - 1 \in Nat /\ n - 1 \in P
  BY <1>1
<1> QED BY <1>2, <1>1

\* What holds of the empty set and is kept when an element is added holds of
\* every finite set.
LEMMA AddingElements ==
  ASSUME NEW S, IsFiniteSet(S), NEW P, {} \in P,
         \A U \in SUBSET S : \A x \in S \ U : U \in P => U \cup {x} \in P
  PROVE  S \in P
<1> DEFINE Q == {n \in Nat : \A U \in SUBSET S : Cardinality(U) = n => U \in P}
<1>1. \A U \in SUBSET S : IsFiniteSet(U) /\ Cardinality(U) \in Nat
  BY FS_Subset, FS_CardinalityType
<1>2. 0 \in Q
  BY <1>1, FS_EmptySet
<1>3. ASSUME NEW n \in Nat, n \in Q PROVE n + 1 \in Q
  <2> SUFFICES ASSUME NEW U \in SUBSET S, Cardinality(U) = n + 1 PROVE U \in P
    BY <1>3
  <2>1. PICK x \in U : TRUE
    BY <1>1, FS_EmptySet
  <2>2. Cardinality(U \ {x}) = n
    <3>1. Cardinality(U \ {x}) = Cardinality(U) - 1
      BY <1>1, FS_RemoveElement
    <3> QED BY <3>1
  <2>3. U \ {x} \in P
    BY <1>3, <2>2
  <2>4. (U \ {x}) \cup {x} = U
    OBVIOUS
  <2> QED BY <2>3, <2>4
<1> HIDE DEF Q
<1>4. Nat \subseteq Q
  BY <1>2, <1>3, CountingUp
<1> QED BY <1>1, <1>4 DEF Q

-----------------------------------------------------------------------------
(* Sums.                                                                   *)

Pick(s) == CHOOSE x \in s : TRUE

\* g holds the sum of f over each subset of S, added up in the order in which
\* Pick takes the elements away.
Adds(f, S, g) ==
  g = [s \in SUBSET S |-> IF s = {} THEN 0 ELSE f[Pick(s)] + g[s \ {Pick(s)}]]

Integral(f, S) == \A x \in S : f[x] \in Int
Agree(f, h, S) == \A x \in S : f[x] = h[x]

LEMMA SumUnfolded ==
  ASSUME NEW f, NEW S
  PROVE  Total(f, S) = (CHOOSE g : Adds(f, S, g))[S]
BY DEF Total, SumFunctionOnSet, FoldFunctionOnSet, MapThenFoldSet, Adds, Pick

LEMMA PickMember ==
  ASSUME NEW S, S # {}
  PROVE  Pick(S) \in S
BY DEF Pick

LEMMA AddsExists ==
  ASSUME NEW S, IsFiniteSet(S), NEW f, Integral(f, S)
  PROVE  \E g : Adds(f, S, g)
<1> DEFINE Value(g, s) == IF s = {} THEN 0 ELSE f[Pick(s)] + g[s \ {Pick(s)}]
           Upto(g, n) ==
             \A s \in SUBSET S : Cardinality(s) <= n => g[s] = Value(g, s)
           P == {n \in Nat : \E g \in [SUBSET S -> Int] : Upto(g, n)}
<1>1. \A s \in SUBSET S : IsFiniteSet(s) /\ Cardinality(s) \in Nat
  BY FS_Subset, FS_CardinalityType
<1>2. 0 \in P
  <2> DEFINE g0 == [s \in SUBSET S |-> 0]
  <2>1. Upto(g0, 0)
    BY <1>1, FS_EmptySet
  <2>2. g0 \in [SUBSET S -> Int]
    OBVIOUS
  <2> HIDE DEF g0
  <2>3. \E g \in [SUBSET S -> Int] : Upto(g, 0)
    BY <2>1, <2>2
  <2> HIDE DEF Upto
  <2> QED BY <2>3
<1>3. ASSUME NEW n \in Nat, n \in P PROVE n + 1 \in P
  <2>1. PICK g \in [SUBSET S -> Int] : Upto(g, n)
    BY <1>3
  <2> DEFINE h == [s \in SUBSET S |->
                     IF Cardinality(s) = n + 1 THEN Value(g, s) ELSE g[s]]
  <2>2. \A s \in SUBSET S : s # {} =>
          /\ Pick(s) \in S /\ f[Pick(s)] \in Int /\ s \ {Pick(s)} \in SUBSET S
          /\ Cardinality(s \ {Pick(s)}) = Cardinality(s) - 1
    BY <1>1, PickMember, FS_RemoveElement DEF Integral
  <2>3. h \in [SUBSET S -> Int]
    BY <2>2
  <2>4. ASSUME NEW s \in SUBSET S, Cardinality(s) <= n + 1 PROVE h[s] = Value(h, s)
    <3>1. CASE s = {}
      BY <3>1, <1>1, <2>1, FS_EmptySet
    <3>2. CASE s # {}
      <4>1. /\ s \ {Pick(s)} \in SUBSET S /\ Cardinality(s) \in Nat
            /\ Cardinality(s \ {Pick(s)}) # n + 1
        BY <2>2, <2>4, <3>2, <1>1
      <4>2. h[s \ {Pick(s)}] = g[s \ {Pick(s)}]
        BY <4>1
      <4>3. Value(h, s) = Value(g, s)
        BY <4>2
      <4>4. CASE Cardinality(s) = n + 1
        BY <4>3, <4>4
      <4>5. CASE Cardinality(s) # n + 1
        BY <4>1, <4>3, <4>5, <2>1, <2>4
      <4> QED BY <4>4, <4>5
    <3> QED BY <3>1, <3>2
  <2> HIDE DEF h
  <2>5. Upto(h, n + 1)
    BY <2>4
  <2>6. \E k \in [SUBSET S -> Int] : Upto(k, n + 1)
    BY <2>3, <2>5
  <2> HIDE DEF Upto
  <2> QED BY <2>6
<1> HIDE DEF P
<1>4. Nat \subseteq P
  BY <1>2, <1>3, CountingUp
<1>5. PICK g \in [SUBSET S -> Int] : Upto(g, Cardinality(S))
  BY <1>1, <1>4 DEF P
<1>6. \A s \in SUBSET S : g[s] = Value(g, s)
  BY <1>1, <1>5, FS_Subset
<1>7. Adds(f, S, g)
  BY <1>6 DEF Adds
<1> QED BY <1>7

\* Two such functions agree on a set on which the summands do.
LEMMA AddsAgree ==
  ASSUME NEW S, NEW T, NEW U, IsFiniteSet(U), U \subseteq S, U \subseteq T,
         NEW f, NEW h, Agree(f, h, U),
         NEW g, Adds(f, S, g), NEW k, Adds(h, T, k)
  PROVE  g[U] = k[U]
<1> DEFINE P == {n \in Nat : \A s \in SUBSET U : Cardinality(s) = n => g[s] = k[s]}
<1>1. \A s \in SUBSET U : IsFiniteSet(s) /\ Cardinality(s) \in Nat
  BY FS_Subset, FS_CardinalityType
<1>2. \A s \in SUBSET U :
        /\ g[s] = IF s = {} THEN 0 ELSE f[Pick(s)] + g[s \ {Pick(s)}]
        /\ k[s] = IF s = {} THEN 0 ELSE h[Pick(s)] + k[s \ {Pick(s)}]
  BY DEF Adds
<1>3. 0 \in P
  BY <1>1, <1>2, FS_EmptySet
<1>4. ASSUME NEW n \in Nat, n \in P PROVE n + 1 \in P
  <2> SUFFICES ASSUME NEW s \in SUBSET U, Cardinality(s) = n + 1 PROVE g[s] = k[s]
    BY <1>4
  <2>1. s # {} /\ Pick(s) \in s
    BY <1>1, FS_EmptySet, PickMember
  <2>2. s \ {Pick(s)} \in SUBSET U /\ Cardinality(s \ {Pick(s)}) = n
    <3>1. Cardinality(s \ {Pick(s)}) = Cardinality(s) - 1
      BY <1>1, <2>1, FS_RemoveElement
    <3> QED BY <3>1
  <2>3. g[s \ {Pick(s)}] = k[s \ {Pick(s)}] /\ f[Pick(s)] = h[Pick(s)]
    BY <1>4, <2>1, <2>2 DEF Agree
  <2> QED BY <1>2, <2>1, <2>3
<1> HIDE DEF P
<1>5. Nat \subseteq P
  BY <1>3, <1>4, CountingUp
<1> QED BY <1>1, <1>5 DEF P

LEMMA SumIsAdded ==
  ASSUME NEW S, IsFiniteSet(S), NEW f, Integral(f, S)
  PROVE  \E g : Adds(f, S, g) /\ Total(f, S) = g[S]
<1> DEFINE g == CHOOSE k : Adds(f, S, k)
<1>1. Adds(f, S, g)
  BY AddsExists
<1>2. Total(f, S) = g[S]
  BY SumUnfolded
<1> QED BY <1>1, <1>2

\* Equal summands have equal sums.
LEMMA SumEqual ==
  ASSUME NEW S, IsFiniteSet(S), NEW f, NEW h, Integral(f, S),
         \A x \in S : f[x] = h[x]
  PROVE  Total(f, S) = Total(h, S)
<1>1. Integral(h, S)
  BY DEF Integral
<1>2. PICK g : Adds(f, S, g) /\ Total(f, S) = g[S]
  BY SumIsAdded
<1>3. PICK k : Adds(h, S, k) /\ Total(h, S) = k[S]
  BY <1>1, SumIsAdded
<1>4. g[S] = k[S]
  <2>1. Agree(f, h, S)
    BY DEF Agree
  <2> QED BY <2>1, <1>2, <1>3, AddsAgree
<1> QED BY <1>2, <1>3, <1>4

LEMMA SumEmpty ==
  ASSUME NEW f
  PROVE  Total(f, {}) = 0
<1>1. PICK g : Adds(f, {}, g) /\ Total(f, {}) = g[{}]
  BY SumIsAdded, FS_EmptySet DEF Integral
<1> QED BY <1>1 DEF Adds

LEMMA SumPicked ==
  ASSUME NEW S, IsFiniteSet(S), S # {}, NEW f, Integral(f, S)
  PROVE  Total(f, S) = f[Pick(S)] + Total(f, S \ {Pick(S)})
<1> DEFINE T == S \ {Pick(S)}
<1>1. IsFiniteSet(T) /\ Integral(f, T)
  BY FS_RemoveElement DEF Integral
<1>2. PICK g : Adds(f, S, g) /\ Total(f, S) = g[S]
  BY SumIsAdded
<1>3. PICK k : Adds(f, T, k) /\ Total(f, T) = k[T]
  BY <1>1, SumIsAdded
<1>4. g[S] = f[Pick(S)] + g[T]
  BY <1>2 DEF Adds
<1>5. g[T] = k[T]
  <2>1. Agree(f, f, T)
    BY DEF Agree
  <2> QED BY <2>1, <1>1, <1>2, <1>3, AddsAgree
<1> QED BY <1>2, <1>3, <1>4, <1>5

\* A sum of integers is one, and any element may be taken out of it.
LEMMA SumRemoves ==
  ASSUME NEW S, IsFiniteSet(S), NEW f, Integral(f, S)
  PROVE  /\ Total(f, S) \in Int
         /\ \A x \in S : Total(f, S) = f[x] + Total(f, S \ {x})
<1> DEFINE Fine(U) == /\ Total(f, U) \in Int
                      /\ \A x \in U : Total(f, U) = f[x] + Total(f, U \ {x})
           P == {n \in Nat : \A U \in SUBSET S : Cardinality(U) <= n => Fine(U)}
<1>1. \A U \in SUBSET S : IsFiniteSet(U) /\ Cardinality(U) \in Nat /\ Integral(f, U)
  BY FS_Subset, FS_CardinalityType DEF Integral
<1>2. 0 \in P
  BY <1>1, FS_EmptySet, SumEmpty
<1>3. ASSUME NEW n \in Nat, n \in P PROVE n + 1 \in P
  <2> SUFFICES ASSUME NEW U \in SUBSET S, Cardinality(U) <= n + 1, U # {}
               PROVE  Fine(U)
    BY <1>3, SumEmpty
  <2> DEFINE c == Pick(U)
  <2>1. U # {} /\ c \in U /\ c \in S
    BY <1>1, FS_EmptySet, PickMember
  <2>2. \A x \in U : U \ {x} \in SUBSET S /\ Cardinality(U \ {x}) <= n
    <3>1. \A x \in U : Cardinality(U \ {x}) = Cardinality(U) - 1
      BY <1>1, FS_RemoveElement
    <3> QED BY <3>1, <1>1
  <2>3. \A x \in U : Fine(U \ {x})
    BY <1>3, <2>2
  <2>4. Total(f, U) = f[c] + Total(f, U \ {c}) /\ \A x \in U : f[x] \in Int
    BY <1>1, <2>1, SumPicked DEF Integral
  <2> HIDE DEF c
  <2>5. Total(f, U) \in Int
    BY <2>1, <2>3, <2>4
  <2>6. ASSUME NEW x \in U, x # c PROVE Total(f, U) = f[x] + Total(f, U \ {x})
    <3>1. Total(f, U \ {c}) = f[x] + Total(f, (U \ {c}) \ {x})
      BY <2>1, <2>3, <2>6
    <3>2. Total(f, U \ {x}) = f[c] + Total(f, (U \ {x}) \ {c})
      BY <2>1, <2>3, <2>6
    <3>3. (U \ {c}) \ {x} = (U \ {x}) \ {c}
      OBVIOUS
    <3>4. Total(f, (U \ {c}) \ {x}) \in Int
      <4>1. (U \ {c}) \ {x} \in SUBSET S /\ IsFiniteSet(U \ {c})
        BY <1>1
      <4>2. Cardinality((U \ {c}) \ {x}) <= Cardinality(U \ {c})
        BY <4>1, FS_Subset
      <4>3. Cardinality((U \ {c}) \ {x}) <= n
        BY <4>1, <4>2, <2>1, <2>2, <1>1
      <4> QED BY <4>1, <4>3, <1>3
    <3>5. /\ f[x] \in Int /\ f[c] \in Int
          /\ Total(f, U \ {c}) \in Int /\ Total(f, U \ {x}) \in Int
      BY <2>1, <2>3, <2>4
    <3>6. PICK r : r = Total(f, (U \ {c}) \ {x})
      OBVIOUS
    <3>7. Total(f, U \ {c}) = f[x] + r /\ Total(f, U \ {x}) = f[c] + r
      BY <3>1, <3>2, <3>3, <3>6
    <3> QED BY <3>4, <3>5, <3>6, <3>7, <2>4
  <2> QED BY <2>4, <2>5, <2>6
<1> HIDE DEF P
<1>4. Nat \subseteq P
  BY <1>2, <1>3, CountingUp
<1>5. Fine(S)
  BY <1>1, <1>4 DEF P
<1> QED BY <1>5

LEMMA SumType ==
  ASSUME NEW S, IsFiniteSet(S), NEW f, Integral(f, S)
  PROVE  Total(f, S) \in Int
BY SumRemoves

LEMMA SumInserts ==
  ASSUME NEW S, IsFiniteSet(S), NEW x, x \notin S, NEW f, Integral(f, S \cup {x})
  PROVE  Total(f, S \cup {x}) = f[x] + Total(f, S)
<1>1. IsFiniteSet(S \cup {x})
  BY FS_AddElement
<1>2. Total(f, S \cup {x}) = f[x] + Total(f, (S \cup {x}) \ {x})
  BY <1>1, SumRemoves
<1>3. (S \cup {x}) \ {x} = S
  OBVIOUS
<1> QED BY <1>2, <1>3

\* One summand changes.
LEMMA SumChanges ==
  ASSUME NEW S, IsFiniteSet(S), NEW x \in S, NEW f, NEW h,
         Integral(f, S), Integral(h, S), Agree(f, h, S \ {x})
  PROVE  Total(h, S) = Total(f, S) - f[x] + h[x]
<1>1. IsFiniteSet(S \ {x}) /\ Integral(f, S \ {x})
  BY FS_RemoveElement DEF Integral
<1>2. Total(f, S \ {x}) = Total(h, S \ {x}) /\ Total(f, S \ {x}) \in Int
  BY <1>1, SumEqual, SumType DEF Agree
<1>3. /\ Total(f, S) = f[x] + Total(f, S \ {x})
      /\ Total(h, S) = h[x] + Total(h, S \ {x})
  BY SumRemoves
<1>4. f[x] \in Int /\ h[x] \in Int
  BY DEF Integral
<1> QED BY <1>2, <1>3, <1>4

\* Sums are added summand by summand.
LEMMA SumAdds ==
  ASSUME NEW S, IsFiniteSet(S), NEW f, NEW g, NEW h, Integral(f, S), Integral(g, S),
         \A x \in S : h[x] = f[x] + g[x]
  PROVE  Total(h, S) = Total(f, S) + Total(g, S)
<1> DEFINE P == {U \in SUBSET S : Total(h, U) = Total(f, U) + Total(g, U)}
<1>1. {} \in P
  BY SumEmpty
<1>2. ASSUME NEW U \in SUBSET S, NEW x \in S \ U, U \in P
      PROVE  U \cup {x} \in P
  <2>1. IsFiniteSet(U)
    BY FS_Subset
  <2>2. /\ Integral(f, U) /\ Integral(g, U) /\ Integral(h, U)
        /\ Integral(f, U \cup {x}) /\ Integral(g, U \cup {x}) /\ Integral(h, U \cup {x})
        /\ f[x] \in Int /\ g[x] \in Int /\ h[x] = f[x] + g[x]
    BY DEF Integral
  <2>3. /\ Total(f, U) \in Int /\ Total(g, U) \in Int /\ Total(h, U) \in Int
        /\ Total(f, U \cup {x}) = f[x] + Total(f, U)
        /\ Total(g, U \cup {x}) = g[x] + Total(g, U)
        /\ Total(h, U \cup {x}) = h[x] + Total(h, U)
    BY <2>1, <2>2, SumType, SumInserts
  <2>4. Total(h, U) = Total(f, U) + Total(g, U)
    BY <1>2
  <2>5. Total(h, U \cup {x}) = Total(f, U \cup {x}) + Total(g, U \cup {x})
    BY <2>2, <2>3, <2>4
  <2> QED BY <2>5
<1> HIDE DEF P
<1>3. S \in P
  BY <1>1, <1>2, AddingElements
<1> QED BY <1>3 DEF P

\* Smaller summands have a smaller sum.
LEMMA SumGrows ==
  ASSUME NEW S, IsFiniteSet(S), NEW f, NEW h, Integral(f, S), Integral(h, S),
         \A x \in S : f[x] <= h[x]
  PROVE  Total(f, S) <= Total(h, S)
<1> DEFINE P == {U \in SUBSET S : Total(f, U) <= Total(h, U)}
<1>1. {} \in P
  BY SumEmpty
<1>2. ASSUME NEW U \in SUBSET S, NEW x \in S \ U, U \in P
      PROVE  U \cup {x} \in P
  <2>1. IsFiniteSet(U)
    BY FS_Subset
  <2>2. /\ Integral(f, U) /\ Integral(h, U)
        /\ Integral(f, U \cup {x}) /\ Integral(h, U \cup {x})
        /\ f[x] \in Int /\ h[x] \in Int /\ f[x] <= h[x]
    BY DEF Integral
  <2>3. /\ Total(f, U) \in Int /\ Total(h, U) \in Int
        /\ Total(f, U \cup {x}) = f[x] + Total(f, U)
        /\ Total(h, U \cup {x}) = h[x] + Total(h, U)
    BY <2>1, <2>2, SumType, SumInserts
  <2>4. Total(f, U) <= Total(h, U)
    BY <1>2
  <2>5. Total(f, U \cup {x}) <= Total(h, U \cup {x})
    BY <2>2, <2>3, <2>4
  <2> QED BY <2>5
<1> HIDE DEF P
<1>3. S \in P
  BY <1>1, <1>2, AddingElements
<1> QED BY <1>3 DEF P

\* Summing over a part is summing over all with 0 for the rest.
LEMMA SumOfPart ==
  ASSUME NEW S, IsFiniteSet(S), NEW T, T \subseteq S, NEW f, NEW h, Integral(f, S),
         \A x \in S : h[x] = IF x \in T THEN f[x] ELSE 0
  PROVE  Total(h, S) = Total(f, T)
<1> DEFINE P == {U \in SUBSET S : Total(h, U) = Total(f, U \cap T)}
<1>1. {} \in P
  <2>1. {} \cap T = {}
    OBVIOUS
  <2> QED BY <2>1, SumEmpty
<1>2. ASSUME NEW U \in SUBSET S, NEW x \in S \ U, U \in P
      PROVE  U \cup {x} \in P
  <2>1. IsFiniteSet(U) /\ IsFiniteSet(U \cap T)
    BY FS_Subset
  <2>2. /\ Integral(h, U) /\ Integral(h, U \cup {x})
        /\ Integral(f, U \cap T) /\ f[x] \in Int /\ h[x] \in Int
        /\ Integral(f, (U \cap T) \cup {x})
    BY DEF Integral
  <2>3. /\ Total(h, U \cup {x}) = h[x] + Total(h, U)
        /\ Total(f, (U \cap T) \cup {x}) = f[x] + Total(f, U \cap T)
        /\ Total(h, U) \in Int
    BY <2>1, <2>2, SumInserts, SumType
  <2>4. Total(h, U) = Total(f, U \cap T)
    BY <1>2
  <2>5. CASE x \in T
    <3>1. (U \cup {x}) \cap T = (U \cap T) \cup {x} /\ h[x] = f[x]
      BY <2>5
    <3> QED BY <3>1, <2>3, <2>4
  <2>6. CASE x \notin T
    <3>1. (U \cup {x}) \cap T = U \cap T /\ h[x] = 0
      BY <2>6
    <3>2. Total(h, U \cup {x}) = Total(h, U)
      BY <3>1, <2>3
    <3>3. Total(h, U \cup {x}) = Total(f, (U \cup {x}) \cap T)
      BY <3>1, <3>2, <2>4
    <3> QED BY <3>3
  <2> QED BY <2>5, <2>6
<1> HIDE DEF P
<1>3. S \in P
  BY <1>1, <1>2, AddingElements
<1>4. S \cap T = T
  OBVIOUS
<1> QED BY <1>3, <1>4 DEF P

LEMMA SumZero ==
  ASSUME NEW S, IsFiniteSet(S), NEW f, \A x \in S : f[x] = 0
  PROVE  Total(f, S) = 0
<1>1. Integral(f, S) /\ \A x \in S : f[x] = IF x \in {} THEN f[x] ELSE 0
  BY DEF Integral
<1>2. Total(f, S) = Total(f, {})
  BY <1>1, SumOfPart
<1> QED BY <1>2, SumEmpty

LEMMA SumNatural ==
  ASSUME NEW S, IsFiniteSet(S), NEW f, \A x \in S : f[x] \in Nat
  PROVE  /\ Total(f, S) \in Nat
         /\ \A x \in S : f[x] <= Total(f, S)
<1> DEFINE P == {U \in SUBSET S : Total(f, U) \in Nat}
<1>1. {} \in P
  BY SumEmpty
<1>2. ASSUME NEW U \in SUBSET S, NEW x \in S \ U, U \in P
      PROVE  U \cup {x} \in P
  <2>1. IsFiniteSet(U) /\ Integral(f, U \cup {x}) /\ f[x] \in Nat
    BY FS_Subset DEF Integral
  <2>2. Total(f, U \cup {x}) = f[x] + Total(f, U) /\ Total(f, U) \in Nat
    BY <1>2, <2>1, SumInserts
  <2> QED BY <2>1, <2>2
<1>3. ASSUME NEW U \in SUBSET S PROVE U \in P
  <2>1. IsFiniteSet(U)
    BY FS_Subset
  <2>2. \A V \in SUBSET U : \A x \in U \ V : V \in P => V \cup {x} \in P
    <3>1. SUBSET U \subseteq SUBSET S
      OBVIOUS
    <3> HIDE DEF P
    <3> QED BY <1>2, <3>1
  <2> HIDE DEF P
  <2> QED BY <1>1, <2>1, <2>2, AddingElements
<1>4. ASSUME NEW x \in S PROVE f[x] <= Total(f, S)
  <2>1. Total(f, S) = f[x] + Total(f, S \ {x})
    BY SumRemoves DEF Integral
  <2>2. Total(f, S \ {x}) \in Nat
    BY <1>3
  <2> QED BY <2>1, <2>2
<1> QED BY <1>3, <1>4

-----------------------------------------------------------------------------
(* What a used expiry key means.                                           *)

Columns == {"src", "orig", "rem", "exp", "status"}

\* The shape of the lots, whatever amounts they hold.
LotRows(L) ==
  /\ L = [l \in Lots |-> L[l]]
  /\ \A l \in Lots : DOMAIN L[l] = Columns

Rows ==
  /\ ledger = [k \in Keys |-> ledger[k]]
  /\ \A t \in Trips : ledger[Trip(t)] \in {0, -Cost}
  /\ LotRows(lots)
  /\ made \in Nat

\* A lot that was not opened yet is not there, and no expense drew on it.
OpenedLots ==
  /\ \A l \in Lots : lots[l].status # "absent" => l <= made
  /\ taken = [k \in Spends |-> taken[k]]
  /\ \A k \in Spends, l \in Lots : taken[k][l] # 0 => l <= made

\* An expiry row names a lot that was opened and is not active any more, as long
\* as no refund has put points back.
ExpiredLots ==
  (\A t \in Trips : ~find_ledger(Refund(t))) =>
    \A l \in Lots : find_ledger(Expiry(l)) => l <= made /\ lots[l].status # "active"

ExpiryInv == Rows /\ OpenedLots /\ ExpiredLots

-----------------------------------------------------------------------------
(* Keys and lots.                                                          *)

LEMMA Numbers ==
  /\ Cost \in Nat \ {0} /\ MaxLots \in Nat /\ Lots \subseteq Nat
  /\ \A n \in Nat : n < MaxLots => n + 1 \in Lots
BY AmountsAssumption DEF Lots

LEMMA KeysApart ==
  /\ \A t \in Trips : Trip(t) \in Keys /\ Refund(t) \in Keys
  /\ \A l \in Lots : Expiry(l) \in Keys
  /\ \A t, u : Trip(t) # Refund(u)
  /\ \A t, l : Trip(t) # Expiry(l) /\ Refund(t) # Expiry(l)
  /\ \A t : Trip(t) # Opening /\ Refund(t) # Opening /\ Expiry(t) # Opening
  /\ \A l, m : Expiry(l) = Expiry(m) => l = m
  /\ \A t, u : Trip(t) = Trip(u) => t = u
  /\ \A t, u : Refund(t) = Refund(u) => t = u
BY DEF Keys, Spends, Trip, Refund, Expiry, Opening

\* A set of bounded numbers has a greatest one.
LEMMA GreatestNumber ==
  ASSUME NEW N \in Nat, NEW S, S \subseteq 0..N, S # {}
  PROVE  \E n \in S : \A m \in S : n >= m
<1> DEFINE T == {N - n : n \in S}
<1>1. T \subseteq Nat /\ T # {}
  <2>1. \A n \in S : N - n \in Nat
    OBVIOUS
  <2>2. PICK n \in S : TRUE
    OBVIOUS
  <2>3. N - n \in T
    OBVIOUS
  <2> QED BY <2>1, <2>3
<1>2. PICK x \in T : \A y \in T : x <= y
  <2> HIDE DEF T
  <2> QED BY <1>1, LeastNumber
<1>3. PICK n \in S : x = N - n
  OBVIOUS
<1>4. \A m \in S : N - n <= N - m
  BY <1>2, <1>3
<1>5. ASSUME NEW m \in S PROVE n >= m
  <2>1. n \in Nat /\ m \in Nat /\ N - n <= N - m
    BY <1>4
  <2> QED BY <2>1
<1> QED BY <1>5

\* A set of lots has a largest id.
LEMMA LargestLot ==
  ASSUME NEW S, S \subseteq Lots, S # {}
  PROVE  Max(S) \in S
<1>1. MaxLots \in Nat /\ S \subseteq 0..MaxLots
  BY Numbers DEF Lots
<1>2. PICK l \in S : \A m \in S : l >= m
  BY <1>1, GreatestNumber
<1> QED BY <1>2 DEF Max

-----------------------------------------------------------------------------
(* What the operations do to the lots and the rows.                        *)

\* A lot is opened under the next id and a row written that is neither a trip,
\* a refund nor an expiry.
LEMMA CreditKeeps ==
  ASSUME ExpiryInv, NEW balance, NEW k, NEW amount,
         \A x : k # Trip(x) /\ k # Refund(x) /\ k # Expiry(x),
         credit_locked(balance, k, amount)
  PROVE  ExpiryInv'
<1>1. /\ made \in Nat /\ made < MaxLots /\ made + 1 \in Lots
      /\ made' = made + 1
      /\ ledger' = [ledger EXCEPT ![k] = amount]
      /\ lots' = [lots EXCEPT ![made + 1] = OpenLot(k, amount, now + ValidDays)]
  BY Numbers DEF credit_locked, ExpiryInv, Rows
<1>2. \A j \in Keys : j # k => ledger'[j] = ledger[j]
  BY <1>1 DEF ExpiryInv, Rows
<1>3. \A l \in Lots : l # made + 1 => lots'[l] = lots[l]
  BY <1>1 DEF ExpiryInv, Rows, LotRows
<1>4. LotRows(lots')
  <2>1. DOMAIN OpenLot(k, amount, now + ValidDays) = Columns
    BY DEF OpenLot, Columns
  <2> QED BY <1>1, <2>1 DEF ExpiryInv, Rows, LotRows
<1>5. Rows'
  BY <1>1, <1>2, <1>4, KeysApart DEF ExpiryInv, Rows
<1>6. OpenedLots'
  BY <1>1, <1>3, Numbers DEF ExpiryInv, OpenedLots, credit_locked
<1>7. ExpiredLots'
  BY <1>1, <1>2, <1>3, Numbers, KeysApart DEF ExpiryInv, ExpiredLots, find_ledger
<1> QED BY <1>5, <1>6, <1>7 DEF ExpiryInv

LEMMA DueLots ==
  ASSUME ExpiryInv
  PROVE  /\ Due \subseteq Lots
         /\ \A l \in Due : lots[l].status = "active" /\ l <= made
         /\ Due # {} => Max(Due) \in Due /\ LapseKey = Expiry(Max(Due))
                        /\ LapseKey \in Keys
<1>1. Due \subseteq Lots /\ \A l \in Due : lots[l].status = "active"
  BY DEF Due, Live
<1>2. \A l \in Due : l <= made
  BY <1>1 DEF ExpiryInv, OpenedLots
<1> QED BY <1>1, <1>2, LargestLot, KeysApart DEF LapseKey

\* Expiry empties the due lots and writes the row of the largest.
LEMMA ExpiryKeeps ==
  ASSUME ExpiryInv, NEW balance, NEW L, L = expired_lots, NEW B,
         B = IF Due # {} THEN Lapsed(balance) ELSE ledger
  PROVE  /\ LotRows(L)
         /\ B = [k \in Keys |-> B[k]]
         /\ \A t \in Trips : B[Trip(t)] = ledger[Trip(t)]
                             /\ B[Refund(t)] = ledger[Refund(t)]
         /\ \A l \in Lots : L[l].status # "absent" => l <= made
         /\ \A l \in Lots : L[l].status = "active" => lots[l].status = "active"
         /\ \A l \in Lots : B[Expiry(l)] # ledger[Expiry(l)] =>
              l <= made /\ L[l].status = "expired"
<1>1. /\ L = [l \in Lots |-> L[l]]
      /\ \A l \in Lots : DOMAIN L[l] = Columns
      /\ \A l \in Due : L[l].status = "expired"
      /\ \A l \in Lots : l \notin Due => L[l] = lots[l]
  BY DueLots DEF expired_lots, ExpiryInv, Rows, LotRows, Columns
<1>2. CASE Due = {}
  BY <1>1, <1>2 DEF ExpiryInv, Rows, LotRows, OpenedLots
<1>3. CASE Due # {}
  <2>1. /\ B = [ledger EXCEPT ![LapseKey] = -Lapse(balance)]
        /\ LapseKey = Expiry(Max(Due)) /\ Max(Due) \in Due
    BY <1>3, DueLots DEF Lapsed
  <2>2. /\ B = [k \in Keys |-> B[k]]
        /\ \A k \in Keys : k # LapseKey => B[k] = ledger[k]
    BY <2>1 DEF ExpiryInv, Rows
  <2>3. \A l \in Lots : B[Expiry(l)] # ledger[Expiry(l)] => l = Max(Due)
    BY <2>1, <2>2, KeysApart
  <2>4. \A t \in Trips : B[Trip(t)] = ledger[Trip(t)]
                         /\ B[Refund(t)] = ledger[Refund(t)]
    BY <2>1, <2>2, KeysApart
  <2> QED BY <1>1, <2>1, <2>2, <2>3, <2>4, DueLots
          DEF ExpiryInv, OpenedLots, LotRows
<1> QED BY <1>2, <1>3

\* A debit draws on lots it does not open or reactivate.
LEMMA DrawnLots ==
  ASSUME NEW L, LotRows(L), NEW amount
  PROVE  /\ LotRows(drawn(L, amount))
         /\ \A l \in Lots : \/ drawn(L, amount)[l].status = L[l].status
                            \/ /\ drawn(L, amount)[l].status = "consumed"
                               /\ L[l].status = "active"
<1>1. \A l \in Lots : Draw(L, amount, l) > 0 => L[l].status = "active"
  BY DEF Draw, Usable, Live
<1> QED BY <1>1 DEF LotRows, drawn, Columns

LEMMA DebitKeeps ==
  ASSUME ExpiryInv, NEW balance, NEW seen, NEW k \in Spends, NEW amount,
         \A x : k # Refund(x) /\ k # Expiry(x),
         \A t \in Trips : k = Trip(t) => amount = Cost,
         debit_locked(balance, seen, k, amount)
  PROVE  ExpiryInv'
<1> DEFINE before == balance - Lapse(balance)
           missing0 == Missing(before, seen)
           book0 == IF Due # {} THEN Lapsed(balance) ELSE ledger
<1>1. PICK missing : missing = missing0
  OBVIOUS
<1>2. PICK L : L = expired_lots
  OBVIOUS
<1>3. PICK B : B = book0
  OBVIOUS
<1>4. PICK M : M = IF missing > 0
                   THEN [L EXCEPT ![made + 1] = OpenLot(Opening, missing, Never)]
                   ELSE L
  OBVIOUS
<1>5. PICK C : C = IF missing > 0 THEN [B EXCEPT ![Opening] = missing] ELSE B
  OBVIOUS
<1>6. /\ missing > 0 => made < MaxLots
      /\ ledger' = [C EXCEPT ![k] = -amount]
      /\ lots' = drawn(M, amount)
      /\ made' = IF missing > 0 THEN made + 1 ELSE made
      /\ taken' = [taken EXCEPT ![k] = [l \in Lots |-> Draw(M, amount, l)]]
      /\ k \in Keys
  BY <1>1, <1>2, <1>3, <1>4, <1>5 DEF debit_locked, _ensure_lot_coverage, Keys
<1> HIDE DEF book0, missing0
<1>7. /\ LotRows(L)
      /\ B = [j \in Keys |-> B[j]]
      /\ \A t \in Trips : B[Trip(t)] = ledger[Trip(t)]
                          /\ B[Refund(t)] = ledger[Refund(t)]
      /\ \A l \in Lots : L[l].status # "absent" => l <= made
      /\ \A l \in Lots : L[l].status = "active" => lots[l].status = "active"
      /\ \A l \in Lots : B[Expiry(l)] # ledger[Expiry(l)] =>
           l <= made /\ L[l].status = "expired"
  BY <1>2, <1>3, ExpiryKeeps DEF book0
<1>8. /\ made \in Nat /\ made' \in Nat /\ made <= made'
      /\ missing > 0 => made' = made + 1 /\ made + 1 \in Lots
  BY <1>6, Numbers DEF ExpiryInv, Rows
<1>9. /\ LotRows(M)
      /\ \A l \in Lots : M[l] = L[l] \/ (missing > 0 /\ l = made + 1)
  <2>1. DOMAIN OpenLot(Opening, missing, Never) = Columns
    BY DEF OpenLot, Columns
  <2>2. CASE missing > 0
    BY <1>4, <1>7, <1>8, <2>1, <2>2 DEF LotRows
  <2>3. CASE ~(missing > 0)
    BY <1>4, <1>7, <2>3
  <2> QED BY <2>2, <2>3
<1>10. /\ C = [j \in Keys |-> C[j]]
       /\ \A j \in Keys : j # Opening => C[j] = B[j]
  BY <1>5, <1>7
<1>11. /\ ledger' = [j \in Keys |-> ledger'[j]]
       /\ \A j \in Keys : j # k /\ j # Opening => ledger'[j] = B[j]
       /\ ledger'[k] = -amount
  BY <1>6, <1>10
<1>12. /\ LotRows(lots')
       /\ \A l \in Lots : \/ lots'[l].status = M[l].status
                          \/ lots'[l].status = "consumed" /\ M[l].status = "active"
  BY <1>6, <1>9, DrawnLots
<1>13. Rows'
  <2>1. \A t \in Trips : ledger'[Trip(t)] \in {0, -Cost}
    BY <1>7, <1>11, KeysApart DEF ExpiryInv, Rows
  <2> QED BY <2>1, <1>8, <1>11, <1>12 DEF Rows
<1>14. OpenedLots'
  <2>1. \A l \in Lots : M[l].status # "absent" => l <= made'
    BY <1>7, <1>8, <1>9, Numbers
  <2>2. \A l \in Lots : lots'[l].status # "absent" => l <= made'
    BY <2>1, <1>12
  <2>3. \A l \in Lots : Draw(M, amount, l) # 0 => M[l].status = "active"
    BY DEF Draw, Usable, Live
  <2>4. /\ taken' = [j \in Spends |-> taken'[j]]
        /\ \A j \in Spends : j # k => taken'[j] = taken[j]
        /\ \A l \in Lots : taken'[k][l] = Draw(M, amount, l)
    BY <1>6 DEF ExpiryInv, OpenedLots
  <2>5. \A j \in Spends, l \in Lots : taken'[j][l] # 0 => l <= made'
    BY <2>1, <2>3, <2>4, <1>8, Numbers DEF ExpiryInv, OpenedLots
  <2> QED BY <2>2, <2>4, <2>5 DEF OpenedLots
<1>15. ExpiredLots'
  <2>1. \A t \in Trips : ledger'[Refund(t)] = ledger[Refund(t)]
    BY <1>7, <1>11, KeysApart
  <2>2. \A l \in Lots : ledger'[Expiry(l)] = B[Expiry(l)]
    BY <1>11, KeysApart
  <2>3. ASSUME \A t \in Trips : ledger[Refund(t)] = 0, NEW l \in Lots,
               B[Expiry(l)] # 0
        PROVE  l <= made /\ L[l].status # "active"
    BY <2>3, <1>7 DEF ExpiryInv, ExpiredLots, find_ledger
  <2>4. ASSUME NEW l \in Lots, l <= made, L[l].status # "active"
        PROVE  l <= made' /\ lots'[l].status # "active"
    BY <2>4, <1>8, <1>9, <1>12, Numbers
  <2> QED BY <2>1, <2>2, <2>3, <2>4 DEF ExpiredLots, find_ledger
<1> QED BY <1>13, <1>14, <1>15 DEF ExpiryInv

LEMMA RefundKeeps ==
  ASSUME ExpiryInv, NEW balance, NEW t \in Trips, refund_locked(balance, t)
  PROVE  ExpiryInv'
<1>1. /\ ledger[Trip(t)] # 0 /\ made' = made
      /\ ledger' = [ledger EXCEPT ![Refund(t)] = -ledger[Trip(t)]]
  BY DEF refund_locked, find_ledger
<1>2. ledger[Trip(t)] = -Cost /\ -ledger[Trip(t)] = Cost /\ Cost # 0
  BY <1>1, Numbers DEF ExpiryInv, Rows
<1>3. /\ ledger' = [k \in Keys |-> ledger'[k]] /\ ledger'[Refund(t)] # 0
      /\ \A k \in Keys : k # Refund(t) => ledger'[k] = ledger[k]
  BY <1>1, <1>2, KeysApart DEF ExpiryInv, Rows
<1>4. /\ LotRows(lots')
      /\ \A l \in Lots : taken[Trip(t)][l] = 0 => lots'[l] = lots[l]
  BY DEF refund_locked, ExpiryInv, Rows, LotRows, Columns
<1>5. Rows'
  BY <1>1, <1>3, <1>4, KeysApart DEF ExpiryInv, Rows
<1>6. Trip(t) \in Spends
  BY DEF Spends
<1>7. OpenedLots'
  <2>1. taken' = [taken EXCEPT ![Trip(t)] = [l \in Lots |-> 0]]
    BY DEF refund_locked
  <2> QED BY <2>1, <1>1, <1>4, <1>6 DEF ExpiryInv, OpenedLots
<1>8. ExpiredLots'
  BY <1>3 DEF ExpiredLots, find_ledger
<1> QED BY <1>5, <1>7, <1>8 DEF ExpiryInv

LEMMA RevocationKeeps ==
  ASSUME ExpiryInv, NEW p \in Purchases, revoke_credit_locked(p)
  PROVE  ExpiryInv'
<1>0. PICK l \in Lots :
        LET amount == Min({lots[l].rem, points}) IN
        /\ lots[l].status # "absent"
        /\ ledger' = [ledger EXCEPT ![Revocation(p)] = -amount]
        /\ lots' = [lots EXCEPT
                      ![l].rem = @ - amount,
                      ![l].status = IF amount \in {0, lots[l].rem}
                                    THEN "revoked" ELSE @]
        /\ UNCHANGED <<made, taken>>
  BY DEF revoke_credit_locked
<1>1. PICK amount :
        /\ lots[l].status # "absent"
        /\ ledger' = [ledger EXCEPT ![Revocation(p)] = -amount]
        /\ lots' = [lots EXCEPT
                      ![l].rem = @ - amount,
                      ![l].status = IF amount \in {0, lots[l].rem}
                                    THEN "revoked" ELSE @]
        /\ UNCHANGED <<made, taken>>
  BY <1>0
<1>2. /\ LotRows(lots')
      /\ \A m \in Lots : m # l => lots'[m] = lots[m]
      /\ lots'[l].status \in {"revoked", lots[l].status}
  BY <1>1 DEF ExpiryInv, Rows, LotRows, Columns
<1>3. /\ Revocation(p) \in Keys
      /\ \A x : Revocation(p) # Trip(x) /\ Revocation(p) # Refund(x)
               /\ Revocation(p) # Expiry(x)
  BY DEF Keys, Revocation, Trip, Refund, Expiry
<1>4. /\ ledger' = [k \in Keys |-> ledger'[k]]
      /\ \A k \in Keys : k # Revocation(p) => ledger'[k] = ledger[k]
  BY <1>1, <1>3 DEF ExpiryInv, Rows
<1>5. Rows'
  BY <1>1, <1>2, <1>3, <1>4, KeysApart DEF ExpiryInv, Rows
<1>6. OpenedLots'
  BY <1>1, <1>2 DEF ExpiryInv, OpenedLots
<1>7. ExpiredLots'
  BY <1>1, <1>2, <1>3, <1>4, KeysApart DEF ExpiryInv, ExpiredLots, find_ledger
<1> QED BY <1>5, <1>6, <1>7 DEF ExpiryInv

\* The invitation page only expires.
LEMMA DashboardKeeps ==
  ASSUME ExpiryInv, NEW s \in Sessions, invite_dashboard(s)
  PROVE  ExpiryInv'
<1>1. /\ Due # {} /\ lots' = expired_lots /\ ledger' = Lapsed(req[s].points)
      /\ UNCHANGED <<made, taken>>
  BY DEF invite_dashboard, expire_due_locked
<1>2. /\ LotRows(lots')
      /\ ledger' = [k \in Keys |-> ledger'[k]]
      /\ \A t \in Trips : ledger'[Trip(t)] = ledger[Trip(t)]
                          /\ ledger'[Refund(t)] = ledger[Refund(t)]
      /\ \A l \in Lots : lots'[l].status # "absent" => l <= made
      /\ \A l \in Lots : lots'[l].status = "active" => lots[l].status = "active"
      /\ \A l \in Lots : ledger'[Expiry(l)] # ledger[Expiry(l)] =>
           l <= made /\ lots'[l].status = "expired"
  BY <1>1, ExpiryKeeps
<1>3. Rows'
  BY <1>1, <1>2 DEF ExpiryInv, Rows
<1>4. OpenedLots'
  BY <1>1, <1>2 DEF ExpiryInv, OpenedLots
<1>5. ExpiredLots'
  BY <1>1, <1>2 DEF ExpiryInv, ExpiredLots, find_ledger
<1> QED BY <1>3, <1>4, <1>5 DEF ExpiryInv

-----------------------------------------------------------------------------
(* The theorem.                                                            *)

LEMMA ExpiryStep ==
  ASSUME ExpiryInv, [Next]_vars
  PROVE  ExpiryInv'
<1>1. CASE UNCHANGED <<ledger, lots, made, taken>>
  BY <1>1 DEF ExpiryInv, Rows, OpenedLots, ExpiredLots, find_ledger
<1>2. ASSUME NEW s \in Sessions, study_check_in(s)
      PROVE  ExpiryInv'
  <2>1. credit_locked(req[s].points, CheckIn(now), Score)
    BY <1>2 DEF study_check_in
  <2>2. \A x : CheckIn(now) # Trip(x) /\ CheckIn(now) # Refund(x)
              /\ CheckIn(now) # Expiry(x)
    BY DEF CheckIn, Trip, Refund, Expiry
  <2> QED BY <2>1, <2>2, CreditKeeps
<1>3. ASSUME NEW p \in Purchases, NEW balance,
             credit_locked(balance, Purchase(p), Score)
      PROVE  ExpiryInv'
  <2>1. /\ Purchase(p) \in Keys
        /\ \A x : Purchase(p) # Trip(x) /\ Purchase(p) # Refund(x)
                 /\ Purchase(p) # Expiry(x)
    BY DEF Keys, Purchase, Trip, Refund, Expiry
  <2> QED BY <1>3, <2>1, CreditKeeps
<1>4. ASSUME NEW i \in Invites, NEW s \in Sessions, invite_reward(s, i)
      PROVE  ExpiryInv'
  <2>1. /\ Invite(i) \in Keys
        /\ \A x : Invite(i) # Trip(x) /\ Invite(i) # Refund(x)
                 /\ Invite(i) # Expiry(x)
    BY DEF Keys, Invite, Trip, Refund, Expiry
  <2> QED BY <1>4, <2>1, CreditKeeps DEF invite_reward
<1>5. ASSUME NEW s \in Sessions, NEW t \in Trips, exchange_travel_route(s, t)
      PROVE  ExpiryInv'
  <2>1. Trip(t) \in Spends /\ \A x : Trip(t) # Refund(x) /\ Trip(t) # Expiry(x)
    BY DEF Spends, Trip, Refund, Expiry
  <2> QED BY <1>5, <2>1, DebitKeeps DEF exchange_travel_route
<1>6. ASSUME NEW a \in Adjusts, adjust_user_points(a)
      PROVE  ExpiryInv'
  <2>1. /\ Adjustment(a) \in Spends /\ Adjustment(a) \in Keys
        /\ \A x : Adjustment(a) # Trip(x) /\ Adjustment(a) # Refund(x)
                 /\ Adjustment(a) # Expiry(x)
    BY DEF Keys, Spends, Adjustment, Trip, Refund, Expiry
  <2>2. CASE credit_locked(points, Adjustment(a), Adjust)
    BY <2>1, <2>2, CreditKeeps
  <2>3. CASE debit_locked(points, lots, Adjustment(a), Adjust)
    BY <2>1, <2>3, DebitKeeps
  <2> QED BY <1>6, <2>2, <2>3 DEF adjust_user_points
<1>7. ASSUME NEW t \in Trips, NEW balance, refund_locked(balance, t)
      PROVE  ExpiryInv'
  BY <1>7, RefundKeeps
<1> QED BY <1>1, <1>2, <1>3, <1>4, <1>5, <1>6, <1>7, RevocationKeeps, DashboardKeeps
     DEF Next, vars, Tick, Load, Read, Abandon, pay_with_balance, mark_paid,
         cancel_my_travel_order, admin_cancel_travel_order, refund_order

\* The expiry of points fails on a used key only after a cancelled trip has put
\* points back into a lot: until then the largest due lot was never the largest
\* of an earlier expiry, whatever balances stale sessions wrote.
THEOREM ExpiryIsBlockedByRefundsOnly == Spec => []ExpiryBlockedOnlyAfterRefund
<1>1. Init => ExpiryInv
  <2> SUFFICES ASSUME Init PROVE ExpiryInv
    OBVIOUS
  <2>1. Rows
    BY KeysApart DEF Init, Rows, LotRows, NoLot, Columns
  <2>2. OpenedLots
    BY DEF Init, OpenedLots, NoLot
  <2>3. ExpiredLots
    BY KeysApart DEF Init, ExpiredLots, find_ledger
  <2> QED BY <2>1, <2>2, <2>3 DEF ExpiryInv
<1>2. ExpiryInv => ExpiryBlockedOnlyAfterRefund
  <2> SUFFICES ASSUME ExpiryInv, Due # {}, find_ledger(LapseKey),
                      \A t \in Trips : ~find_ledger(Refund(t))
               PROVE  FALSE
    BY DEF ExpiryBlockedOnlyAfterRefund
  <2>1. /\ Max(Due) \in Lots /\ lots[Max(Due)].status = "active"
        /\ find_ledger(Expiry(Max(Due)))
    BY DueLots
  <2> QED BY <2>1 DEF ExpiryInv, ExpiredLots
<1> QED BY <1>1, <1>2, ExpiryStep, PTL DEF Spec

-----------------------------------------------------------------------------
(* What lots hold.                                                         *)

LEMMA Amounts ==
  /\ Legacy \in Nat /\ Cost \in Nat \ {0} /\ Score \in Nat \ {0}
  /\ Adjust \in Nat \ {0} /\ ValidDays \in Nat \ {0}
  /\ LastDay \in Nat /\ MaxLots \in Nat /\ Never \in Nat
  /\ \A d \in Days : d \in Nat /\ d + ValidDays \in 0..Never
BY AmountsAssumption DEF Never, Days

LEMMA LotsFinite == IsFiniteSet(Lots)
BY Numbers, FS_Interval DEF Lots

LEMMA TaggedFinite ==
  ASSUME NEW S, IsFiniteSet(S), NEW tag
  PROVE  IsFiniteSet({<<tag, x>> : x \in S})
<1> DEFINE f == [x \in S |-> <<tag, x>>]
           T == {<<tag, x>> : x \in S}
<1>1. f \in Surjection(S, T)
  BY DEF Surjection
<1> QED BY <1>1, FS_Surjection

LEMMA KeysFinite == IsFiniteSet(Spends) /\ IsFiniteSet(Keys)
<1>1. /\ IsFiniteSet(Trips) /\ IsFiniteSet(Purchases) /\ IsFiniteSet(Invites)
      /\ IsFiniteSet(Adjusts)
  BY EventsAssumption
<1>2. IsFiniteSet(Days) /\ IsFiniteSet(Lots) /\ IsFiniteSet({Opening})
  <2>1. IsFiniteSet(Days)
    <3>1. 0 \in Int /\ LastDay \in Int
      BY Amounts
    <3> QED BY <3>1, FS_Interval DEF Days
  <2>2. IsFiniteSet({Opening})
    BY FS_Singleton
  <2> QED BY <2>1, <2>2, LotsFinite
<1>3. /\ IsFiniteSet({Trip(t) : t \in Trips}) /\ IsFiniteSet({Refund(t) : t \in Trips})
      /\ IsFiniteSet({Adjustment(a) : a \in Adjusts})
      /\ IsFiniteSet({CheckIn(d) : d \in Days})
      /\ IsFiniteSet({Purchase(p) : p \in Purchases})
      /\ IsFiniteSet({Revocation(p) : p \in Purchases})
      /\ IsFiniteSet({Invite(i) : i \in Invites})
      /\ IsFiniteSet({Expiry(l) : l \in Lots})
  BY <1>1, <1>2, TaggedFinite
     DEF Trip, Refund, Adjustment, CheckIn, Purchase, Revocation, Invite, Expiry
<1>4. IsFiniteSet(Spends)
  BY <1>3, FS_Union DEF Spends
<1>5. IsFiniteSet(Keys)
  <2>1. IsFiniteSet({Opening} \cup Spends \cup {CheckIn(d) : d \in Days})
    BY <1>2, <1>3, <1>4, FS_Union
  <2>2. IsFiniteSet({Opening} \cup Spends \cup {CheckIn(d) : d \in Days}
                      \cup {Refund(t) : t \in Trips}
                      \cup {Purchase(p) : p \in Purchases})
    BY <2>1, <1>3, FS_Union
  <2>3. IsFiniteSet({Opening} \cup Spends \cup {CheckIn(d) : d \in Days}
                      \cup {Refund(t) : t \in Trips}
                      \cup {Purchase(p) : p \in Purchases}
                      \cup {Revocation(p) : p \in Purchases}
                      \cup {Invite(i) : i \in Invites})
    BY <2>2, <1>3, FS_Union
  <2> QED BY <2>3, <1>3, FS_Union DEF Keys
<1> QED BY <1>4, <1>5

\* What remains in each lot, and in the lots of S alone.
Rem(L) == [l \in Lots |-> L[l].rem]
RemOf(L, S) == [l \in Lots |-> IF l \in S THEN L[l].rem ELSE 0]

LEMMA RemFacts ==
  ASSUME NEW L \in [Lots -> Lot]
  PROVE  /\ \A l \in Lots : Rem(L)[l] = L[l].rem /\ L[l].rem \in Nat /\ Rem(L)[l] \in Nat
         /\ \A S \in SUBSET Lots : Integral(Rem(L), S) /\ Integral(RemOf(L, S), Lots)
         /\ \A S : \A l \in Lots : RemOf(L, S)[l] = IF l \in S THEN Rem(L)[l] ELSE 0
         /\ \A S \in SUBSET Lots : Held(L, S) = Total(Rem(L), S) /\ IsFiniteSet(S)
<1>1. \A l \in Lots : L[l].rem \in Nat
  BY DEF Lot
<1>2. \A l \in Lots : Rem(L)[l] = L[l].rem
  BY DEF Rem
<1>3. \A S : \A l \in Lots : RemOf(L, S)[l] = IF l \in S THEN Rem(L)[l] ELSE 0
  BY DEF RemOf, Rem
<1>4. \A S \in SUBSET Lots : Integral(Rem(L), S) /\ Integral(RemOf(L, S), Lots)
  BY <1>1, <1>2, <1>3 DEF Integral
<1>5. \A S \in SUBSET Lots : Held(L, S) = Total(Rem(L), S) /\ IsFiniteSet(S)
  BY LotsFinite, FS_Subset DEF Held, Rem
<1> QED BY <1>1, <1>2, <1>3, <1>4, <1>5

LEMMA HeldPart ==
  ASSUME NEW L \in [Lots -> Lot], NEW S \in SUBSET Lots
  PROVE  Held(L, S) = Total(RemOf(L, S), Lots)
<1>1. Integral(Rem(L), Lots) /\ S \subseteq Lots
  BY RemFacts
<1>2. Total(RemOf(L, S), Lots) = Total(Rem(L), S)
  BY <1>1, RemFacts, LotsFinite, SumOfPart
<1> QED BY <1>2, RemFacts

LEMMA HeldNat ==
  ASSUME NEW L \in [Lots -> Lot], NEW S \in SUBSET Lots
  PROVE  /\ Held(L, S) \in Nat
         /\ \A l \in S : L[l].rem <= Held(L, S)
         /\ Held(L, S) <= Held(L, Lots)
<1>1. /\ IsFiniteSet(S) /\ \A l \in S : Rem(L)[l] \in Nat
      /\ Held(L, S) = Total(Rem(L), S)
  BY RemFacts
<1>2. Total(Rem(L), S) \in Nat /\ \A l \in S : Rem(L)[l] <= Total(Rem(L), S)
  BY <1>1, SumNatural
<1>3. Total(RemOf(L, S), Lots) <= Total(Rem(L), Lots)
  <2>1. \A l \in Lots : RemOf(L, S)[l] <= Rem(L)[l]
    BY RemFacts
  <2> QED BY <2>1, RemFacts, LotsFinite, SumGrows
<1> QED BY <1>1, <1>2, <1>3, RemFacts, HeldPart

\* The lots of a set and the others.
LEMMA HeldSplit ==
  ASSUME NEW L \in [Lots -> Lot], NEW S \in SUBSET Lots, NEW T \in SUBSET Lots,
         S \cap T = {}
  PROVE  Held(L, S \cup T) = Held(L, S) + Held(L, T)
<1> DEFINE U == S \cup T
<1>1. \A l \in Lots : RemOf(L, U)[l] = RemOf(L, S)[l] + RemOf(L, T)[l]
  BY RemFacts
<1>2. Total(RemOf(L, U), Lots) = Total(RemOf(L, S), Lots) + Total(RemOf(L, T), Lots)
  BY <1>1, RemFacts, LotsFinite, SumAdds
<1> QED BY <1>2, HeldPart

LEMMA HeldEmpty ==
  ASSUME NEW L
  PROVE  Held(L, {}) = 0
BY SumEmpty DEF Held

\* Lots that hold nothing do not count.
LEMMA HeldElsewhere ==
  ASSUME NEW L \in [Lots -> Lot], NEW S \in SUBSET Lots,
         \A l \in Lots \ S : L[l].rem = 0
  PROVE  Held(L, S) = Held(L, Lots)
<1>1. \A l \in Lots : RemOf(L, S)[l] = Rem(L)[l]
  BY RemFacts
<1>2. Total(RemOf(L, S), Lots) = Total(Rem(L), Lots)
  BY <1>1, RemFacts, LotsFinite, SumEqual
<1> QED BY <1>2, RemFacts, HeldPart

\* Every lot gets the amount d[l] more.
LEMMA HeldMoved ==
  ASSUME NEW L \in [Lots -> Lot], NEW M \in [Lots -> Lot], NEW d,
         \A l \in Lots : d[l] \in Int /\ M[l].rem = L[l].rem + d[l]
  PROVE  Held(M, Lots) = Held(L, Lots) + Total(d, Lots)
<1>1. Integral(d, Lots) /\ \A l \in Lots : Rem(M)[l] = Rem(L)[l] + d[l]
  BY RemFacts DEF Integral
<1>2. Total(Rem(M), Lots) = Total(Rem(L), Lots) + Total(d, Lots)
  BY <1>1, RemFacts, LotsFinite, SumAdds
<1> QED BY <1>2, RemFacts

\* One lot changes.
LEMMA HeldChanged ==
  ASSUME NEW L \in [Lots -> Lot], NEW M \in [Lots -> Lot], NEW l \in Lots,
         \A m \in Lots \ {l} : M[m].rem = L[m].rem
  PROVE  Held(M, Lots) = Held(L, Lots) - L[l].rem + M[l].rem
<1>1. Agree(Rem(L), Rem(M), Lots \ {l})
  BY RemFacts DEF Agree
<1>2. Total(Rem(M), Lots) = Total(Rem(L), Lots) - Rem(L)[l] + Rem(M)[l]
  BY <1>1, RemFacts, LotsFinite, SumChanges
<1> QED BY <1>2, RemFacts

-----------------------------------------------------------------------------
(* The greedy draw takes the whole amount, when the usable lots hold it.   *)

LEMMA TheLesser ==
  ASSUME NEW a \in Int, NEW b \in Int
  PROVE  Min({a, b}) = IF a <= b THEN a ELSE b
<1>1. CASE a <= b
  <2>1. a \in {a, b} /\ \A x \in {a, b} : a <= x
    BY <1>1
  <2>2. \A y \in {a, b} : (\A x \in {a, b} : y <= x) => y = a
    BY <1>1
  <2> QED BY <1>1, <2>1, <2>2 DEF Min
<1>2. CASE ~(a <= b)
  <2>1. b \in {a, b} /\ \A x \in {a, b} : b <= x
    BY <1>2
  <2>2. \A y \in {a, b} : (\A x \in {a, b} : y <= x) => y = b
    BY <1>2
  <2> QED BY <1>2, <2>1, <2>2 DEF Min
<1> QED BY <1>1, <1>2

LEMMA TheGreater ==
  ASSUME NEW a \in Int, NEW b \in Int
  PROVE  Max({a, b}) = IF a >= b THEN a ELSE b
<1>1. CASE a >= b
  <2>1. a \in {a, b} /\ \A x \in {a, b} : a >= x
    BY <1>1
  <2>2. \A y \in {a, b} : (\A x \in {a, b} : y >= x) => y = a
    BY <1>1
  <2> QED BY <1>1, <2>1, <2>2 DEF Max
<1>2. CASE ~(a >= b)
  <2>1. b \in {a, b} /\ \A x \in {a, b} : b >= x
    BY <1>2
  <2>2. \A y \in {a, b} : (\A x \in {a, b} : y >= x) => y = b
    BY <1>2
  <2> QED BY <1>2, <2>1, <2>2 DEF Max
<1> QED BY <1>1, <1>2

\* What a debit takes from each lot.
Draws(L, amount) == [l \in Lots |-> Draw(L, amount, l)]

\* The usable lots that expire before lot l.
Ahead(L, l) == {m \in Usable(L) : Before(L, m, l)}

LEMMA UsableLots ==
  ASSUME NEW L
  PROVE  /\ Usable(L) \subseteq Live(L) /\ Live(L) \subseteq Lots
         /\ Usable(L) \subseteq Lots /\ \A l : Ahead(L, l) \in SUBSET Lots
BY DEF Usable, Live, Ahead

LEMMA DrawOne ==
  ASSUME NEW L \in [Lots -> Lot], NEW amount \in Nat, NEW l \in Lots
  PROVE  /\ l \notin Usable(L) => Draw(L, amount, l) = 0
         /\ l \in Usable(L) =>
              Draw(L, amount, l) =
                IF amount <= Held(L, Ahead(L, l)) THEN 0
                ELSE IF L[l].rem <= amount - Held(L, Ahead(L, l)) THEN L[l].rem
                ELSE amount - Held(L, Ahead(L, l))
         /\ Draw(L, amount, l) \in Nat /\ Draw(L, amount, l) <= L[l].rem
<1>1. L[l].rem \in Nat
  BY RemFacts
<1>2. CASE l \notin Usable(L)
  BY <1>1, <1>2 DEF Draw
<1>3. CASE l \in Usable(L)
  <2>1. PICK h : h = Held(L, Ahead(L, l))
    OBVIOUS
  <2>2. h \in Nat /\ amount - h \in Int
    BY <2>1, HeldNat, UsableLots
  <2>3. Draw(L, amount, l) = Min({L[l].rem, Max({0, amount - h})})
    BY <1>3, <2>1 DEF Draw, Ahead
  <2>4. Max({0, amount - h}) = IF 0 >= amount - h THEN 0 ELSE amount - h
    BY <2>2, TheGreater
  <2>5. PICK g \in Nat : g = Max({0, amount - h})
    BY <2>2, <2>4
  <2>6. Draw(L, amount, l) = IF L[l].rem <= g THEN L[l].rem ELSE g
    BY <1>1, <2>3, <2>5, TheLesser
  <2> QED BY <1>1, <1>3, <2>1, <2>2, <2>4, <2>5, <2>6
<1> QED BY <1>2, <1>3

LEMMA DrawsFacts ==
  ASSUME NEW L \in [Lots -> Lot], NEW amount \in Nat
  PROVE  /\ Draws(L, amount) \in [Lots -> Nat]
         /\ \A l \in Lots : Draws(L, amount)[l] = Draw(L, amount, l)
         /\ \A S \in SUBSET Lots : Integral(Draws(L, amount), S)
<1>1. \A l \in Lots : Draws(L, amount)[l] = Draw(L, amount, l)
  BY DEF Draws
<1>2. Draws(L, amount) \in [Lots -> Nat]
  BY DrawOne DEF Draws
<1>3. \A S \in SUBSET Lots : Integral(Draws(L, amount), S)
  BY <1>2 DEF Integral
<1> QED BY <1>1, <1>2, <1>3

\* Before orders the lots, and a set of lots has one that expires last.
LEMMA BeforeOrders ==
  ASSUME NEW L \in [Lots -> Lot], NEW l \in Lots, NEW m \in Lots
  PROVE  /\ ~Before(L, l, l)
         /\ Before(L, l, m) => ~Before(L, m, l)
<1>1. l \in Nat /\ m \in Nat /\ L[l].exp \in Nat /\ L[m].exp \in Nat
  BY Numbers, Amounts DEF Lot
<1> QED BY <1>1 DEF Before

LEMMA LastLot ==
  ASSUME NEW L \in [Lots -> Lot], NEW S \in SUBSET Lots, S # {}
  PROVE  \E m \in S : \A l \in S : l = m \/ Before(L, l, m)
<1> DEFINE E == {L[l].exp : l \in S}
<1>1. E \subseteq 0..Never /\ E # {} /\ Never \in Nat
  BY Amounts DEF Lot
<1>2. PICK e \in E : \A x \in E : e >= x
  <2> HIDE DEF E
  <2> QED BY <1>1, GreatestNumber
<1> DEFINE F == {l \in S : L[l].exp = e}
<1>3. F # {} /\ F \subseteq 0..MaxLots /\ MaxLots \in Nat
  <2>1. PICK l \in S : L[l].exp = e
    BY <1>2
  <2>2. Lots \subseteq 0..MaxLots /\ MaxLots \in Nat
    BY Numbers DEF Lots
  <2> QED BY <2>1, <2>2
<1>4. PICK m \in F : \A x \in F : m >= x
  <2> HIDE DEF F
  <2> QED BY <1>3, GreatestNumber
<1>5. ASSUME NEW l \in S PROVE l = m \/ Before(L, l, m)
  <2>0. L[l].exp \in E /\ L[l].exp \in Nat /\ e \in Nat
    BY <1>1, <1>2
  <2>1. m \in S /\ L[m].exp = e /\ m \in Nat /\ l \in Nat
    BY <1>4, Numbers
  <2>2. L[l].exp <= e
    BY <1>2, <2>0
  <2>3. L[l].exp = e => l <= m
    BY <1>4, <2>1
  <2> QED BY <2>0, <2>1, <2>2, <2>3 DEF Before
<1> QED BY <1>4, <1>5

\* What the loop has taken from a set of usable lots it went through, in the
\* order of their expiry.
LEMMA DrawnFromPrefix ==
  ASSUME NEW L \in [Lots -> Lot], NEW amount \in Nat, NEW S \in SUBSET Usable(L),
         \A x \in Usable(L), y \in S : Before(L, x, y) => x \in S
  PROVE  Total(Draws(L, amount), S)
           = IF amount <= Held(L, S) THEN amount ELSE Held(L, S)
<1> DEFINE D == Draws(L, amount)
           U == Usable(L)
           Prefix(T) == \A x \in U, y \in T : Before(L, x, y) => x \in T
           Right(T) == Total(D, T) = IF amount <= Held(L, T) THEN amount ELSE Held(L, T)
           P == {n \in Nat : \A T \in SUBSET U :
                               Cardinality(T) = n /\ Prefix(T) => Right(T)}
<1>1. U \subseteq Lots /\ \A T \in SUBSET U : T \in SUBSET Lots
  BY UsableLots
<1>2. \A T \in SUBSET U : IsFiniteSet(T) /\ Cardinality(T) \in Nat
  BY <1>1, RemFacts, FS_CardinalityType
<1>3. 0 \in P
  <2> SUFFICES ASSUME NEW T \in SUBSET U, Cardinality(T) = 0 PROVE Right(T)
    OBVIOUS
  <2>1. T = {}
    BY <1>2, FS_EmptySet
  <2> QED BY <2>1, SumEmpty, HeldEmpty
<1>4. ASSUME NEW n \in Nat, n \in P PROVE n + 1 \in P
  <2> SUFFICES ASSUME NEW T \in SUBSET U, Cardinality(T) = n + 1, Prefix(T)
               PROVE  Right(T)
    OBVIOUS
  <2>1. T # {}
    BY FS_EmptySet
  <2>2. PICK m \in T : \A l \in T : l = m \/ Before(L, l, m)
    BY <1>1, <2>1, LastLot
  <2>3. PICK V \in SUBSET U : V = T \ {m}
    OBVIOUS
  <2>4. Cardinality(V) = n
    <3>1. Cardinality(V) = Cardinality(T) - 1
      BY <1>2, <2>3, FS_RemoveElement
    <3> QED BY <3>1
  <2>5. V = Ahead(L, m)
    <3>1. \A x \in U : Before(L, x, m) => x \in V
      BY <1>1, <2>3, BeforeOrders
    <3>2. \A x \in V : x \in U /\ Before(L, x, m)
      BY <2>2, <2>3
    <3> QED BY <3>1, <3>2 DEF Ahead
  <2>6. Prefix(V)
    <3> SUFFICES ASSUME NEW x \in U, NEW y \in V, Before(L, x, y) PROVE x \in V
      OBVIOUS
    <3>1. x \in T /\ y \in T /\ Before(L, y, m)
      BY <2>2, <2>3
    <3>2. x # m
      BY <1>1, <3>1, BeforeOrders
    <3> QED BY <2>3, <3>1, <3>2
  <2>7. Right(V)
    BY <1>4, <2>4, <2>6
  <2>8. /\ Total(D, T) = D[m] + Total(D, V)
        /\ Total(D, V) \in Int
    BY <1>1, <1>2, <2>3, DrawsFacts, SumRemoves
  <2>9. Held(L, T) = L[m].rem + Held(L, V)
    <3>1. /\ Total(Rem(L), T) = Rem(L)[m] + Total(Rem(L), V)
      BY <1>1, <1>2, <2>3, RemFacts, SumRemoves
    <3> QED BY <1>1, <3>1, RemFacts
  <2>10. Held(L, V) \in Nat /\ L[m].rem \in Nat
    BY <1>1, HeldNat, RemFacts
  <2>11. D[m] = IF amount <= Held(L, V) THEN 0
                ELSE IF L[m].rem <= amount - Held(L, V) THEN L[m].rem
                ELSE amount - Held(L, V)
    BY <1>1, <2>5, DrawsFacts, DrawOne
  <2>12. PICK d \in Int : d = D[m]
    BY <2>10, <2>11
  <2> HIDE DEF D
  <2> QED BY <2>7, <2>8, <2>9, <2>10, <2>11, <2>12
<1>5. Nat \subseteq P
  <2> HIDE DEF P
  <2> QED BY <1>3, <1>4, CountingUp
<1>6. Cardinality(S) \in P
  BY <1>2, <1>5
<1> QED BY <1>6

\* The draws add up to the amount: the shortage check of debit_locked is exact.
LEMMA DrawsAddUp ==
  ASSUME NEW L \in [Lots -> Lot], NEW amount \in Nat, Held(L, Usable(L)) >= amount
  PROVE  Total(Draws(L, amount), Lots) = amount
<1> DEFINE D == Draws(L, amount)
           U == Usable(L)
<1>1. Total(D, U) = IF amount <= Held(L, U) THEN amount ELSE Held(L, U)
  BY DrawnFromPrefix
<1>2. \A l \in Lots : D[l] = IF l \in U THEN D[l] ELSE 0
  BY DrawsFacts, DrawOne
<1>3. Integral(D, Lots) /\ U \subseteq Lots
  BY DrawsFacts, UsableLots
<1>4. Total(D, Lots) = Total(D, U)
  <2> HIDE DEF D, U
  <2> QED BY <1>2, <1>3, LotsFinite, SumOfPart
<1>5. Held(L, U) \in Nat
  BY <1>3, HeldNat
<1> QED BY <1>1, <1>4, <1>5

-----------------------------------------------------------------------------
(* The inductive invariant of the sums.                                    *)

AccountType ==
  /\ points \in Nat
  /\ ledger \in [Keys -> Int]
  /\ lots \in [Lots -> Lot]
  /\ made \in 0..MaxLots
  /\ taken \in [Spends -> [Lots -> Nat]]
  /\ now \in Days

SessionType ==
  /\ req \in [Sessions -> Loaded \cup Reading \cup {Closed}]
  /\ stale \in BOOLEAN

\* A lot that was not opened yet holds nothing, and no expense drew on it.
Unused ==
  \A l \in Lots : l > made => /\ lots[l].rem = 0
                              /\ \A k \in Spends : taken[k][l] = 0

\* Allocations belong to an expense that was booked, and those of a trip make
\* up its price until a refund restores them.
Allocated ==
  /\ \A k \in Spends, l \in Lots : ledger[k] = 0 => taken[k][l] = 0
  /\ \A t \in Trips : ledger[Trip(t)] \in {0, -Cost}
  /\ \A t \in Trips : ledger[Trip(t)] # 0 /\ ledger[Refund(t)] = 0 =>
                        Total(taken[Trip(t)], Lots) = Cost

AccountInv ==
  AccountType /\ Unused /\ Allocated /\ LotNeverOverspent /\ LotsBackedByLedger

\* Historical points no opening row covers yet.
Unopened == IF ledger[Opening] # 0 THEN 0 ELSE Legacy

\* Only active lots hold points; balance, lots and ledger agree.
Books ==
  /\ \A l \in Lots : lots[l].status # "active" => lots[l].rem = 0
  /\ points = Held(lots, Lots) + Unopened
  /\ points = BookSum + Unopened

PointsInv == AccountInv /\ SessionType /\ (~stale => Books)

-----------------------------------------------------------------------------
(* Rows and allocations.                                                   *)

LEMMA SpendKeys ==
  /\ Opening \in Keys /\ Opening \notin Spends /\ Spends \subseteq Keys
  /\ \A t \in Trips : Trip(t) \in Spends
  /\ \A x : Refund(x) \notin Spends /\ Expiry(x) \notin Spends
            /\ CheckIn(x) \notin Spends /\ Purchase(x) \notin Spends
            /\ Revocation(x) \notin Spends /\ Invite(x) \notin Spends
BY DEF Keys, Spends, Opening, Trip, Adjustment, Refund, Expiry, CheckIn, Purchase,
       Revocation, Invite

\* C is the book B with the row of key k set to v.
Writes(B, k, v, C) == C = [B EXCEPT ![k] = v]

\* A row is written under a key that was free.
LEMMA RowWritten ==
  ASSUME NEW B \in [Keys -> Int], NEW k \in Keys, B[k] = 0, NEW v \in Int,
         NEW C, Writes(B, k, v, C)
  PROVE  /\ C \in [Keys -> Int]
         /\ C[k] = v
         /\ \A j \in Keys : j # k => C[j] = B[j]
         /\ Total(B, Keys) \in Int
         /\ Total(C, Keys) = Total(B, Keys) + v
<1>1. /\ C \in [Keys -> Int] /\ C[k] = v
      /\ \A j \in Keys : j # k => C[j] = B[j]
  BY DEF Writes
<1>2. Integral(B, Keys) /\ Integral(C, Keys)
  BY <1>1 DEF Integral
<1>3. Agree(B, C, Keys \ {k})
  BY <1>1 DEF Agree
<1>4. Total(C, Keys) = Total(B, Keys) - B[k] + C[k]
  BY <1>2, <1>3, KeysFinite, SumChanges
<1>5. Total(B, Keys) \in Int
  BY <1>2, KeysFinite, SumType
<1> QED BY <1>1, <1>4, <1>5

\* What the expenses took from lot l.
Taken(T, l) == [k \in Spends |-> T[k][l]]

LEMMA OutstandingIs ==
  /\ \A l : Outstanding(l) = Total(Taken(taken, l), Spends)
  /\ \A l : Outstanding(l)' = Total(Taken(taken', l), Spends)
BY DEF Outstanding, Taken

LEMMA TakenNatural ==
  ASSUME NEW T \in [Spends -> [Lots -> Nat]], NEW l \in Lots
  PROVE  Total(Taken(T, l), Spends) \in Nat
<1>1. \A k \in Spends : Taken(T, l)[k] \in Nat
  BY DEF Taken
<1> QED BY <1>1, KeysFinite, SumNatural

LEMMA TakenChanged ==
  ASSUME NEW T \in [Spends -> [Lots -> Nat]], NEW k \in Spends,
         NEW a \in [Lots -> Nat], NEW U, Writes(T, k, a, U), NEW l \in Lots
  PROVE  Total(Taken(U, l), Spends) = Total(Taken(T, l), Spends) - T[k][l] + a[l]
<1>0. /\ U \in [Spends -> [Lots -> Nat]] /\ U[k] = a
      /\ \A j \in Spends : j # k => U[j] = T[j]
  BY DEF Writes
<1>1. \A j \in Spends : /\ Taken(T, l)[j] = T[j][l] /\ Taken(U, l)[j] = U[j][l]
                        /\ Taken(T, l)[j] \in Int /\ Taken(U, l)[j] \in Int
  BY <1>0 DEF Taken
<1>2. Integral(Taken(T, l), Spends) /\ Integral(Taken(U, l), Spends)
  BY <1>1 DEF Integral
<1>3. Agree(Taken(T, l), Taken(U, l), Spends \ {k})
  BY <1>0, <1>1 DEF Agree
<1>4. Total(Taken(U, l), Spends)
        = Total(Taken(T, l), Spends) - Taken(T, l)[k] + Taken(U, l)[k]
  BY <1>2, <1>3, KeysFinite, SumChanges
<1> QED BY <1>0, <1>1, <1>4

-----------------------------------------------------------------------------
(* Credits.                                                                *)

LEMMA NewLot ==
  ASSUME NEW k \in Keys, NEW amount \in Nat, NEW exp \in 0..Never
  PROVE  /\ OpenLot(k, amount, exp) \in Lot
         /\ OpenLot(k, amount, exp).rem = amount
         /\ OpenLot(k, amount, exp).orig = amount
         /\ OpenLot(k, amount, exp).exp = exp
         /\ OpenLot(k, amount, exp).status = "active"
BY DEF OpenLot, Lot

\* M are the lots L with a new lot under id n.
Opens(L, n, k, amount, exp, M) == M = [L EXCEPT ![n] = OpenLot(k, amount, exp)]

\* A lot is opened under an id that held nothing.
LEMMA LotOpened ==
  ASSUME NEW L \in [Lots -> Lot], NEW n \in Lots, L[n].rem = 0,
         NEW k \in Keys, NEW amount \in Nat, NEW exp \in 0..Never,
         NEW M, Opens(L, n, k, amount, exp, M)
  PROVE  /\ M \in [Lots -> Lot]
         /\ \A l \in Lots : l # n => M[l] = L[l]
         /\ M[n].rem = amount /\ M[n].orig = amount /\ M[n].exp = exp
         /\ M[n].status = "active"
         /\ Held(M, Lots) = Held(L, Lots) + amount
<1>1. /\ M \in [Lots -> Lot]
      /\ \A l \in Lots : l # n => M[l] = L[l]
      /\ M[n] = OpenLot(k, amount, exp)
  BY NewLot DEF Opens
<1>2. \A l \in Lots \ {n} : M[l].rem = L[l].rem
  BY <1>1
<1>3. Held(M, Lots) = Held(L, Lots) - L[n].rem + M[n].rem
  BY <1>1, <1>2, HeldChanged
<1>4. Held(L, Lots) \in Nat
  BY HeldNat
<1> QED BY <1>1, <1>3, <1>4, NewLot

LEMMA CreditBooks ==
  ASSUME AccountInv, NEW balance \in Nat, NEW k \in Keys, k # Opening,
         \A x : k # Trip(x) /\ k # Refund(x), NEW amount \in Nat \ {0},
         credit_locked(balance, k, amount)
  PROVE  AccountInv' /\ (Books /\ balance = points => Books')
<1>1. /\ points \in Nat /\ ledger \in [Keys -> Int] /\ lots \in [Lots -> Lot]
      /\ made \in Nat /\ taken \in [Spends -> [Lots -> Nat]] /\ now \in Days
  BY Numbers DEF AccountInv, AccountType
<1>2. /\ ledger[k] = 0 /\ made < MaxLots /\ points' = balance + amount
      /\ ledger' = [ledger EXCEPT ![k] = amount]
      /\ lots' = [lots EXCEPT ![made + 1] = OpenLot(k, amount, now + ValidDays)]
      /\ made' = made + 1 /\ taken' = taken /\ now' = now
  BY DEF credit_locked, find_ledger
<1>3. /\ made + 1 \in Lots /\ lots[made + 1].rem = 0
      /\ \A j \in Spends : taken[j][made + 1] = 0
  BY <1>1, <1>2, Numbers DEF AccountInv, Unused
<1>4. now + ValidDays \in 0..Never
  BY <1>1, Amounts
<1>5. /\ lots' \in [Lots -> Lot]
      /\ \A l \in Lots : l # made + 1 => lots'[l] = lots[l]
      /\ lots'[made + 1].rem = amount /\ lots'[made + 1].orig = amount
      /\ lots'[made + 1].status = "active"
      /\ Held(lots', Lots) = Held(lots, Lots) + amount
  <2>1. Opens(lots, made + 1, k, amount, now + ValidDays, lots')
    BY <1>2 DEF Opens
  <2> QED BY <1>1, <1>3, <1>4, <2>1, LotOpened
<1>6. /\ ledger' \in [Keys -> Int] /\ ledger'[k] = amount
      /\ \A j \in Keys : j # k => ledger'[j] = ledger[j]
      /\ Total(ledger, Keys) \in Int
      /\ Total(ledger', Keys) = Total(ledger, Keys) + amount
  <2>1. Writes(ledger, k, amount, ledger') /\ amount \in Int
    BY <1>2 DEF Writes
  <2> QED BY <1>1, <1>2, <2>1, RowWritten
<1>7. AccountType'
  <2>1. points' \in Nat /\ made' \in 0..MaxLots
    BY <1>1, <1>2, Numbers
  <2> QED BY <1>1, <1>2, <1>5, <1>6, <2>1 DEF AccountType
<1>8. Unused'
  <2>1. \A l \in Lots : l > made + 1 => l > made /\ l # made + 1
    BY <1>1, Numbers
  <2> QED BY <1>2, <1>5, <2>1 DEF AccountInv, Unused
<1>9. Allocated'
  <2>1. \A t \in Trips : /\ ledger'[Trip(t)] = ledger[Trip(t)]
                         /\ ledger'[Refund(t)] = ledger[Refund(t)]
    BY <1>6, KeysApart
  <2>2. \A j \in Spends : ledger'[j] = 0 => ledger[j] = 0
    BY <1>6, SpendKeys
  <2> QED BY <1>2, <2>1, <2>2 DEF AccountInv, Allocated
<1>10. LotNeverOverspent'
  <2>1. \A l \in Lots : Outstanding(l)' = Outstanding(l)
    BY <1>2, OutstandingIs
  <2>2. Outstanding(made + 1) = 0
    <3>1. \A j \in Spends : Taken(taken, made + 1)[j] = 0
      BY <1>3 DEF Taken
    <3> QED BY <3>1, KeysFinite, SumZero, OutstandingIs
  <2>3. \A l \in Lots : lots'[l].rem + Outstanding(l)' <= lots'[l].orig
    BY <1>5, <2>1, <2>2 DEF AccountInv, LotNeverOverspent
  <2> QED BY <2>3 DEF LotNeverOverspent
<1>11. LotsBackedByLedger'
  <2>1. Held(lots, Lots) \in Nat
    BY <1>1, HeldNat
  <2>2. Held(lots', Lots) <= Total(ledger', Keys)
    BY <1>5, <1>6, <2>1 DEF AccountInv, LotsBackedByLedger, BookSum
  <2>3. points' >= 0
    BY <1>2
  <2> QED BY <2>2, <2>3 DEF LotsBackedByLedger, BookSum
<1>12. ASSUME Books, balance = points PROVE Books'
  <2>1. Unopened' = Unopened
    BY <1>6, SpendKeys DEF Unopened
  <2>2. \A l \in Lots : lots'[l].status # "active" => lots'[l].rem = 0
    BY <1>5, <1>12 DEF Books
  <2>3. Held(lots, Lots) \in Nat /\ Unopened \in Nat
    BY <1>1, HeldNat, Amounts DEF Unopened
  <2>4. /\ points' = Held(lots', Lots) + Unopened'
        /\ points' = Total(ledger', Keys) + Unopened'
    BY <1>2, <1>5, <1>6, <1>12, <2>1, <2>3 DEF Books, BookSum
  <2> QED BY <2>2, <2>4 DEF Books, BookSum
<1> QED BY <1>7, <1>8, <1>9, <1>10, <1>11, <1>12 DEF AccountInv

-----------------------------------------------------------------------------
(* Expiry.                                                                 *)

LEMMA ExpiredHeld ==
  ASSUME lots \in [Lots -> Lot]
  PROVE  /\ expired_lots \in [Lots -> Lot]
         /\ \A l \in Due : /\ expired_lots[l].rem = 0
                           /\ expired_lots[l].orig = lots[l].orig
                           /\ expired_lots[l].status = "expired"
         /\ \A l \in Lots : l \notin Due => expired_lots[l] = lots[l]
         /\ Held(expired_lots, Lots) = Held(lots, Lots) - Held(lots, Due)
<1>1. Due \in SUBSET Lots
  BY DEF Due, Live
<1>2. \A l \in Lots : l \notin Due => expired_lots[l] = lots[l]
  BY DEF expired_lots
<1>3. \A l \in Due : /\ expired_lots[l].rem = 0
                     /\ expired_lots[l].orig = lots[l].orig
                     /\ expired_lots[l].status = "expired"
  BY <1>1 DEF expired_lots, Lot
<1>4. expired_lots \in [Lots -> Lot]
  BY <1>1 DEF expired_lots, Lot
<1> DEFINE R == Lots \ Due
<1>5. Held(expired_lots, Lots) = Held(lots, R)
  <2>1. \A l \in Lots : RemOf(lots, R)[l] = Rem(expired_lots)[l]
    BY <1>2, <1>3, <1>4, RemFacts
  <2>2. R \in SUBSET Lots
    OBVIOUS
  <2> HIDE DEF R
  <2>3. Integral(RemOf(lots, R), Lots)
    BY <2>2, RemFacts
  <2>4. Total(RemOf(lots, R), Lots) = Total(Rem(expired_lots), Lots)
    BY <2>1, <2>3, LotsFinite, SumEqual
  <2>5. Held(expired_lots, Lots) = Total(Rem(expired_lots), Lots)
    BY <1>4, RemFacts
  <2> QED BY <2>2, <2>4, <2>5, HeldPart
<1>6. Held(lots, Lots) = Held(lots, Due) + Held(lots, R)
  <2>1. Due \cup R = Lots /\ Due \cap R = {} /\ R \in SUBSET Lots
    BY <1>1
  <2>2. Held(lots, Due \cup R) = Held(lots, Due) + Held(lots, R)
    BY <1>1, <2>1, HeldSplit
  <2> QED BY <2>1, <2>2
<1>7. Held(lots, Due) \in Nat /\ Held(lots, R) \in Nat
  BY <1>1, HeldNat
<1> QED BY <1>2, <1>3, <1>4, <1>5, <1>6, <1>7

LEMMA LapseFacts ==
  ASSUME lots \in [Lots -> Lot], NEW balance \in Nat
  PROVE  /\ Held(lots, Due) \in Nat /\ Held(lots, Due) <= Held(lots, Lots)
         /\ Lapse(balance) \in Nat
         /\ Lapse(balance) <= balance /\ Lapse(balance) <= Held(lots, Due)
         /\ Held(lots, Due) <= balance => Lapse(balance) = Held(lots, Due)
         /\ Due = {} => Lapse(balance) = 0
<1>1. Due \in SUBSET Lots
  BY DEF Due, Live
<1>2. Held(lots, Due) \in Nat /\ Held(lots, Due) <= Held(lots, Lots)
  BY <1>1, HeldNat
<1>3. Lapse(balance) = IF Held(lots, Due) <= balance THEN Held(lots, Due) ELSE balance
  BY <1>2, TheLesser DEF Lapse
<1>4. Due = {} => Held(lots, Due) = 0
  BY HeldEmpty
<1> QED BY <1>2, <1>3, <1>4

\* The expiry row, when there is one.
LEMMA ExpiryBooked ==
  ASSUME AccountType, NEW balance \in Nat,
         Due # {} => expire_due_locked(balance),
         NEW B, B = IF Due # {} THEN Lapsed(balance) ELSE ledger
  PROVE  /\ B \in [Keys -> Int]
         /\ \A k \in Keys : (\A x : k # Expiry(x)) => B[k] = ledger[k]
         /\ Total(ledger, Keys) \in Int
         /\ Total(B, Keys) = Total(ledger, Keys) - Lapse(balance)
<1>1. ledger \in [Keys -> Int] /\ lots \in [Lots -> Lot]
  BY DEF AccountType
<1>2. Lapse(balance) \in Nat
  BY <1>1, LapseFacts
<1>3. Total(ledger, Keys) \in Int
  <2>1. Integral(ledger, Keys)
    BY <1>1 DEF Integral
  <2> QED BY <2>1, KeysFinite, SumType
<1>4. CASE Due = {}
  <2>1. Lapse(balance) = 0 /\ B = ledger
    BY <1>1, <1>4, LapseFacts
  <2> QED BY <1>1, <1>3, <2>1
<1>5. CASE Due # {}
  <2>1. LapseKey \in Keys /\ \E x : LapseKey = Expiry(x)
    <3>1. Due \subseteq Lots
      BY DEF Due, Live
    <3> QED BY <1>5, <3>1, LargestLot, KeysApart DEF LapseKey
  <2>2. ledger[LapseKey] = 0
    BY <1>5 DEF expire_due_locked, find_ledger
  <2>3. Writes(ledger, LapseKey, -Lapse(balance), B) /\ -Lapse(balance) \in Int
    BY <1>2, <1>5 DEF Writes, Lapsed
  <2>4. /\ B \in [Keys -> Int]
        /\ \A j \in Keys : j # LapseKey => B[j] = ledger[j]
        /\ Total(B, Keys) = Total(ledger, Keys) + (-Lapse(balance))
    BY <1>1, <2>1, <2>2, <2>3, RowWritten
  <2> QED BY <1>2, <1>3, <2>1, <2>4
<1> QED BY <1>4, <1>5

\* Lots that only lose points are not overspent.
LEMMA RemShrinks ==
  ASSUME AccountInv, taken' = taken, lots' \in [Lots -> Lot],
         \A l \in Lots : lots'[l].rem <= lots[l].rem /\ lots'[l].orig = lots[l].orig
  PROVE  LotNeverOverspent'
<1>1. \A l \in Lots : Outstanding(l)' = Outstanding(l) /\ Outstanding(l) \in Nat
  BY OutstandingIs, TakenNatural DEF AccountInv, AccountType
<1>2. \A l \in Lots : lots[l].rem \in Nat /\ lots'[l].rem \in Nat /\ lots[l].orig \in Nat
  BY DEF AccountInv, AccountType, Lot
<1>3. \A l \in Lots : lots'[l].rem + Outstanding(l)' <= lots'[l].orig
  BY <1>1, <1>2 DEF AccountInv, LotNeverOverspent
<1> QED BY <1>3 DEF LotNeverOverspent

LEMMA ExpiryKeysApart ==
  /\ \A t \in Trips : \A x : Trip(t) # Expiry(x) /\ Refund(t) # Expiry(x)
  /\ \A k \in Spends : \A x : k # Expiry(x)
  /\ \A x : Opening # Expiry(x)
BY SpendKeys, KeysApart

LEMMA DashboardBooks ==
  ASSUME AccountInv, NEW s \in Sessions, NEW balance \in Nat, balance = req[s].points,
         invite_dashboard(s)
  PROVE  AccountInv' /\ (Books /\ balance = points => Books')
<1>1. /\ points \in Nat /\ ledger \in [Keys -> Int] /\ lots \in [Lots -> Lot]
      /\ made \in 0..MaxLots /\ taken \in [Spends -> [Lots -> Nat]] /\ now \in Days
      /\ AccountType
  BY DEF AccountInv, AccountType
<1>2. /\ Due # {} /\ expire_due_locked(balance)
      /\ points' = balance - Lapse(balance) /\ ledger' = Lapsed(balance)
      /\ lots' = expired_lots /\ made' = made /\ taken' = taken /\ now' = now
  BY DEF invite_dashboard, expire_due_locked
<1>3. /\ lots' \in [Lots -> Lot]
      /\ \A l \in Due : lots'[l].rem = 0 /\ lots'[l].orig = lots[l].orig
      /\ \A l \in Lots : l \notin Due => lots'[l] = lots[l]
      /\ Held(lots', Lots) = Held(lots, Lots) - Held(lots, Due)
  BY <1>1, <1>2, ExpiredHeld
<1>4. /\ ledger' \in [Keys -> Int]
      /\ \A k \in Keys : (\A x : k # Expiry(x)) => ledger'[k] = ledger[k]
      /\ Total(ledger, Keys) \in Int
      /\ Total(ledger', Keys) = Total(ledger, Keys) - Lapse(balance)
  BY <1>1, <1>2, ExpiryBooked
<1>5. /\ Held(lots, Due) \in Nat /\ Held(lots, Due) <= Held(lots, Lots)
      /\ Lapse(balance) \in Nat
      /\ Lapse(balance) <= balance /\ Lapse(balance) <= Held(lots, Due)
      /\ Held(lots, Due) <= balance => Lapse(balance) = Held(lots, Due)
  BY <1>1, LapseFacts
<1>6. Held(lots, Lots) \in Nat
  BY <1>1, HeldNat
<1>7. AccountType'
  <2>1. points' \in Nat
    BY <1>2, <1>5
  <2> QED BY <1>1, <1>2, <1>3, <1>4, <2>1 DEF AccountType
<1>8. Unused'
  BY <1>2, <1>3 DEF AccountInv, Unused
<1>9. Allocated'
  <2>1. \A t \in Trips : /\ ledger'[Trip(t)] = ledger[Trip(t)]
                         /\ ledger'[Refund(t)] = ledger[Refund(t)]
    BY <1>4, KeysApart, ExpiryKeysApart
  <2>2. \A j \in Spends : ledger'[j] = ledger[j]
    BY <1>4, SpendKeys, ExpiryKeysApart
  <2> QED BY <1>2, <2>1, <2>2 DEF AccountInv, Allocated
<1>10. LotNeverOverspent'
  <2>1. \A l \in Lots : lots'[l].rem <= lots[l].rem /\ lots'[l].orig = lots[l].orig
    BY <1>1, <1>3, RemFacts
  <2> QED BY <1>2, <1>3, <2>1, RemShrinks
<1>11. LotsBackedByLedger'
  <2>1. Held(lots', Lots) <= Total(ledger', Keys)
    BY <1>3, <1>4, <1>5, <1>6 DEF AccountInv, LotsBackedByLedger, BookSum
  <2>2. points' >= 0
    BY <1>2, <1>5
  <2> QED BY <2>1, <2>2 DEF LotsBackedByLedger, BookSum
<1>12. ASSUME Books, balance = points PROVE Books'
  <2>1. Unopened' = Unopened
    BY <1>4, SpendKeys, ExpiryKeysApart DEF Unopened
  <2>2. \A l \in Lots : lots'[l].status # "active" => lots'[l].rem = 0
    BY <1>3, <1>12 DEF Books
  <2>3. Unopened \in Nat
    BY Amounts DEF Unopened
  <2>4. Lapse(balance) = Held(lots, Due)
    BY <1>5, <1>6, <1>12, <2>3 DEF Books
  <2>5. /\ points' = Held(lots', Lots) + Unopened'
        /\ points' = Total(ledger', Keys) + Unopened'
    BY <1>2, <1>3, <1>4, <1>5, <1>6, <1>12, <2>1, <2>3, <2>4 DEF Books, BookSum
  <2> QED BY <2>2, <2>5 DEF Books, BookSum
<1> QED BY <1>7, <1>8, <1>9, <1>10, <1>11, <1>12 DEF AccountInv

-----------------------------------------------------------------------------
(* Refunds and revocations.                                                *)

\* M are the lots after a refund of what `back` took from them.
Restores(back, M) ==
  M = [l \in Lots |->
         IF back[l] = 0 THEN lots[l]
         ELSE [lots[l] EXCEPT !.rem = @ + back[l], !.status = "active",
                              !.exp = IF @ <= now THEN now + ValidDays ELSE @]]

LEMMA RefundedLots ==
  ASSUME lots \in [Lots -> Lot], now \in Days, NEW back \in [Lots -> Nat], NEW M,
         Restores(back, M)
  PROVE  /\ M \in [Lots -> Lot]
         /\ \A l \in Lots : /\ M[l].rem = lots[l].rem + back[l]
                            /\ M[l].orig = lots[l].orig
                            /\ M[l] = lots[l] \/ M[l].status = "active"
         /\ Held(M, Lots) = Held(lots, Lots) + Total(back, Lots)
<1>1. ASSUME NEW l \in Lots
      PROVE  /\ M[l] \in Lot /\ M[l].rem = lots[l].rem + back[l]
             /\ M[l].orig = lots[l].orig
             /\ M[l] = lots[l] \/ M[l].status = "active"
  <2>1. /\ lots[l] \in Lot /\ lots[l].rem \in Nat /\ back[l] \in Nat
        /\ lots[l].exp \in 0..Never
    BY DEF Lot
  <2>2. CASE back[l] = 0
    <3>1. M[l] = lots[l]
      BY <2>2 DEF Restores
    <3> QED BY <2>1, <2>2, <3>1
  <2>3. CASE back[l] # 0
    <3>1. PICK e : e = IF lots[l].exp <= now THEN now + ValidDays ELSE lots[l].exp
      OBVIOUS
    <3>2. e \in 0..Never
      BY <2>1, <3>1, Amounts
    <3>3. PICK r \in Nat : r = lots[l].rem + back[l]
      BY <2>1
    <3>4. M[l] = [lots[l] EXCEPT !.rem = r, !.status = "active", !.exp = e]
      BY <2>1, <2>3, <3>1, <3>3 DEF Lot, Restores
    <3> QED BY <2>1, <3>2, <3>3, <3>4 DEF Lot
  <2> QED BY <2>2, <2>3
<1>2. M \in [Lots -> Lot]
  BY <1>1 DEF Restores
<1>3. \A l \in Lots : back[l] \in Int /\ M[l].rem = lots[l].rem + back[l]
  BY <1>1
<1>4. Held(M, Lots) = Held(lots, Lots) + Total(back, Lots)
  BY <1>2, <1>3, HeldMoved
<1> QED BY <1>1, <1>2, <1>4

LEMMA RefundBooks ==
  ASSUME AccountInv, NEW balance \in Nat, NEW t \in Trips, refund_locked(balance, t)
  PROVE  AccountInv' /\ (Books /\ balance = points => Books')
<1>1. /\ points \in Nat /\ ledger \in [Keys -> Int] /\ lots \in [Lots -> Lot]
      /\ made \in 0..MaxLots /\ taken \in [Spends -> [Lots -> Nat]] /\ now \in Days
      /\ Trip(t) \in Spends /\ Trip(t) \in Keys /\ Refund(t) \in Keys
  BY SpendKeys, KeysApart DEF AccountInv, AccountType
<1>2. PICK back : back = taken[Trip(t)]
  OBVIOUS
<1>3. /\ ledger[Trip(t)] # 0 /\ ledger[Refund(t)] = 0
      /\ points' = balance - ledger[Trip(t)]
      /\ ledger' = [ledger EXCEPT ![Refund(t)] = -ledger[Trip(t)]]
      /\ Restores(back, lots')
      /\ taken' = [taken EXCEPT ![Trip(t)] = [l \in Lots |-> 0]]
      /\ made' = made /\ now' = now
  BY <1>2 DEF refund_locked, find_ledger, Restores
<1>4. /\ ledger[Trip(t)] = -Cost /\ -ledger[Trip(t)] = Cost /\ Cost \in Nat \ {0}
      /\ points' = balance + Cost
  <2>1. ledger[Trip(t)] = -Cost
    BY <1>3 DEF AccountInv, Allocated
  <2>2. Cost \in Nat \ {0}
    BY Amounts
  <2>3. -(-Cost) = Cost /\ balance - (-Cost) = balance + Cost
    BY <2>2
  <2> QED BY <1>3, <2>1, <2>2, <2>3
<1>5. back \in [Lots -> Nat] /\ Total(back, Lots) = Cost
  BY <1>1, <1>2, <1>3 DEF AccountInv, Allocated
<1>6. /\ lots' \in [Lots -> Lot]
      /\ \A l \in Lots : /\ lots'[l].rem = lots[l].rem + back[l]
                         /\ lots'[l].orig = lots[l].orig
                         /\ lots'[l] = lots[l] \/ lots'[l].status = "active"
      /\ Held(lots', Lots) = Held(lots, Lots) + Cost
  <2>1. /\ lots' \in [Lots -> Lot]
        /\ \A l \in Lots : /\ lots'[l].rem = lots[l].rem + back[l]
                           /\ lots'[l].orig = lots[l].orig
                           /\ lots'[l] = lots[l] \/ lots'[l].status = "active"
        /\ Held(lots', Lots) = Held(lots, Lots) + Total(back, Lots)
    BY <1>1, <1>3, <1>5, RefundedLots
  <2> QED BY <1>5, <2>1
<1>7. /\ ledger' \in [Keys -> Int] /\ ledger'[Refund(t)] = Cost
      /\ \A j \in Keys : j # Refund(t) => ledger'[j] = ledger[j]
      /\ Total(ledger, Keys) \in Int
      /\ Total(ledger', Keys) = Total(ledger, Keys) + Cost
  <2>0. PICK c : c = -ledger[Trip(t)]
    OBVIOUS
  <2>1. Writes(ledger, Refund(t), c, ledger')
    BY <1>3, <2>0 DEF Writes
  <2>2. c = Cost /\ Cost \in Int
    BY <1>4, <2>0
  <2>3. Writes(ledger, Refund(t), Cost, ledger')
    BY <2>1, <2>2
  <2> QED BY <1>1, <1>3, <2>2, <2>3, RowWritten
<1>8. /\ taken' \in [Spends -> [Lots -> Nat]]
      /\ \A l \in Lots : taken'[Trip(t)][l] = 0
      /\ \A k \in Spends : k # Trip(t) => taken'[k] = taken[k]
  BY <1>1, <1>3
<1>9. Held(lots, Lots) \in Nat
  BY <1>1, HeldNat
<1>10. AccountType'
  <2>1. points' \in Nat
    BY <1>4
  <2> QED BY <1>1, <1>3, <1>6, <1>7, <1>8, <2>1 DEF AccountType
<1>11. Unused'
  <2>1. ASSUME NEW l \in Lots, l > made
        PROVE  lots'[l].rem = 0 /\ \A k \in Spends : taken'[k][l] = 0
    <3>1. lots[l].rem = 0 /\ \A k \in Spends : taken[k][l] = 0
      BY <2>1 DEF AccountInv, Unused
    <3> QED BY <1>1, <1>2, <1>6, <1>8, <3>1
  <2> QED BY <1>3, <2>1 DEF Unused
<1>12. Allocated'
  <2>1. \A u \in Trips : /\ ledger'[Trip(u)] = ledger[Trip(u)]
                         /\ u # t => /\ ledger'[Refund(u)] = ledger[Refund(u)]
                                     /\ taken'[Trip(u)] = taken[Trip(u)]
    BY <1>7, <1>8, KeysApart, SpendKeys
  <2>2. \A k \in Spends : ledger'[k] = ledger[k]
    BY <1>7, SpendKeys
  <2>3. \A k \in Spends, l \in Lots : ledger'[k] = 0 => taken'[k][l] = 0
    BY <1>8, <2>2 DEF AccountInv, Allocated
  <2>4. ledger'[Refund(t)] # 0
    BY <1>4, <1>7
  <2>5. \A u \in Trips : ledger'[Trip(u)] # 0 /\ ledger'[Refund(u)] = 0 =>
                           Total(taken'[Trip(u)], Lots) = Cost
    BY <2>1, <2>4 DEF AccountInv, Allocated
  <2> QED BY <2>1, <2>3, <2>5 DEF AccountInv, Allocated
<1>13. LotNeverOverspent'
  <2>1. ASSUME NEW l \in Lots
        PROVE  lots'[l].rem + Outstanding(l)' <= lots'[l].orig
    <3>1. Writes(taken, Trip(t), [m \in Lots |-> 0], taken')
      BY <1>3 DEF Writes
    <3>2. PICK zero \in [Lots -> Nat] : zero = [m \in Lots |-> 0]
      OBVIOUS
    <3>3. Total(Taken(taken', l), Spends)
            = Total(Taken(taken, l), Spends) - taken[Trip(t)][l] + zero[l]
      BY <1>1, <3>1, <3>2, TakenChanged
    <3>4. Outstanding(l) \in Nat /\ zero[l] = 0 /\ taken[Trip(t)][l] = back[l]
          /\ back[l] \in Nat /\ lots[l].rem \in Nat
      BY <1>1, <1>2, <1>5, <3>2, TakenNatural, OutstandingIs, RemFacts
    <3>5. Outstanding(l)' = Outstanding(l) - back[l]
      BY <3>3, <3>4, OutstandingIs
    <3>6. lots[l].rem + Outstanding(l) <= lots[l].orig
      BY DEF AccountInv, LotNeverOverspent
    <3> QED BY <1>6, <3>4, <3>5, <3>6
  <2> QED BY <2>1 DEF LotNeverOverspent
<1>14. LotsBackedByLedger'
  <2>1. Held(lots', Lots) <= Total(ledger', Keys)
    BY <1>4, <1>6, <1>7, <1>9 DEF AccountInv, LotsBackedByLedger, BookSum
  <2>2. points' >= 0
    BY <1>4
  <2> QED BY <2>1, <2>2 DEF LotsBackedByLedger, BookSum
<1>15. ASSUME Books, balance = points PROVE Books'
  <2>1. Unopened' = Unopened
    BY <1>7, SpendKeys, KeysApart DEF Unopened
  <2>2. \A l \in Lots : lots'[l].status # "active" => lots'[l].rem = 0
    BY <1>6, <1>15 DEF Books
  <2>3. Unopened \in Nat
    BY Amounts DEF Unopened
  <2>4. /\ points' = Held(lots', Lots) + Unopened'
        /\ points' = Total(ledger', Keys) + Unopened'
    BY <1>4, <1>6, <1>7, <1>9, <1>15, <2>1, <2>3 DEF Books, BookSum
  <2> QED BY <2>2, <2>4 DEF Books, BookSum
<1> QED BY <1>10, <1>11, <1>12, <1>13, <1>14, <1>15 DEF AccountInv

LEMMA RevocationBooks ==
  ASSUME AccountInv, NEW p \in Purchases, revoke_credit_locked(p)
  PROVE  AccountInv' /\ (Books => Books')
<1>1. /\ points \in Nat /\ ledger \in [Keys -> Int] /\ lots \in [Lots -> Lot]
      /\ made \in 0..MaxLots /\ taken \in [Spends -> [Lots -> Nat]] /\ now \in Days
  BY DEF AccountInv, AccountType
<1>2. PICK l \in Lots :
        LET amount == Min({lots[l].rem, points}) IN
        /\ ledger[Revocation(p)] = 0
        /\ points' = points - amount
        /\ ledger' = [ledger EXCEPT ![Revocation(p)] = -amount]
        /\ lots' = [lots EXCEPT
                      ![l].rem = @ - amount,
                      ![l].status = IF amount \in {0, lots[l].rem}
                                    THEN "revoked" ELSE @]
        /\ UNCHANGED <<made, taken, now>>
  BY DEF revoke_credit_locked, find_ledger
<1>3. PICK amount : amount = Min({lots[l].rem, points})
  OBVIOUS
<1>4. /\ ledger[Revocation(p)] = 0
      /\ points' = points - amount
      /\ ledger' = [ledger EXCEPT ![Revocation(p)] = -amount]
      /\ lots' = [lots EXCEPT
                    ![l].rem = @ - amount,
                    ![l].status = IF amount \in {0, lots[l].rem}
                                  THEN "revoked" ELSE @]
      /\ made' = made /\ taken' = taken /\ now' = now
  BY <1>2, <1>3
<1>5. /\ lots[l] \in Lot /\ lots[l].rem \in Nat
      /\ amount = IF lots[l].rem <= points THEN lots[l].rem ELSE points
  BY <1>1, <1>3, RemFacts, TheLesser
<1>6. amount \in Nat /\ amount <= lots[l].rem /\ amount <= points
      /\ (lots[l].rem <= points => amount = lots[l].rem)
  BY <1>1, <1>5
<1>7. /\ lots' \in [Lots -> Lot]
      /\ \A m \in Lots : m # l => lots'[m] = lots[m]
      /\ lots'[l].rem = lots[l].rem - amount /\ lots'[l].orig = lots[l].orig
  <2>1. lots[l].rem - amount \in Nat
    BY <1>5, <1>6
  <2> QED BY <1>1, <1>4, <1>5, <2>1 DEF Lot
<1>8. Held(lots', Lots) = Held(lots, Lots) - amount
  <2>1. Held(lots', Lots) = Held(lots, Lots) - lots[l].rem + lots'[l].rem
    BY <1>1, <1>7, HeldChanged
  <2>2. Held(lots, Lots) \in Nat
    BY <1>1, HeldNat
  <2> QED BY <1>5, <1>6, <1>7, <2>1, <2>2
<1>9. /\ Revocation(p) \in Keys /\ Revocation(p) \notin Spends
      /\ Revocation(p) # Opening
      /\ \A x : Revocation(p) # Trip(x) /\ Revocation(p) # Refund(x)
  BY DEF Keys, Spends, Opening, Revocation, Trip, Adjustment, Refund
<1>10. /\ ledger' \in [Keys -> Int]
       /\ \A j \in Keys : j # Revocation(p) => ledger'[j] = ledger[j]
       /\ Total(ledger, Keys) \in Int
       /\ Total(ledger', Keys) = Total(ledger, Keys) + (-amount)
  <2>1. Writes(ledger, Revocation(p), -amount, ledger') /\ -amount \in Int
    BY <1>4, <1>6 DEF Writes
  <2> QED BY <1>1, <1>4, <1>9, <2>1, RowWritten
<1>11. Held(lots, Lots) \in Nat /\ lots[l].rem <= Held(lots, Lots)
  BY <1>1, HeldNat
<1>12. AccountType'
  <2>1. points' \in Nat
    BY <1>1, <1>4, <1>6
  <2> QED BY <1>1, <1>4, <1>7, <1>10, <2>1 DEF AccountType
<1>13. Unused'
  <2>1. ASSUME NEW m \in Lots, lots[m].rem = 0 PROVE lots'[m].rem = 0
    BY <1>5, <1>6, <1>7, <2>1
  <2> QED BY <1>4, <2>1 DEF AccountInv, Unused
<1>14. Allocated'
  <2>1. \A u \in Trips : /\ ledger'[Trip(u)] = ledger[Trip(u)]
                         /\ ledger'[Refund(u)] = ledger[Refund(u)]
    BY <1>9, <1>10, KeysApart
  <2>2. \A k \in Spends : ledger'[k] = ledger[k]
    BY <1>9, <1>10, SpendKeys
  <2> QED BY <1>4, <2>1, <2>2 DEF AccountInv, Allocated
<1>15. LotNeverOverspent'
  <2>1. \A m \in Lots : lots'[m].rem <= lots[m].rem /\ lots'[m].orig = lots[m].orig
    BY <1>1, <1>5, <1>6, <1>7, RemFacts
  <2> QED BY <1>4, <1>7, <2>1, RemShrinks
<1>16. LotsBackedByLedger'
  <2>1. Held(lots', Lots) <= Total(ledger', Keys)
    BY <1>6, <1>8, <1>10, <1>11 DEF AccountInv, LotsBackedByLedger, BookSum
  <2>2. points' >= 0
    BY <1>1, <1>4, <1>6
  <2> QED BY <2>1, <2>2 DEF LotsBackedByLedger, BookSum
<1>17. ASSUME Books PROVE Books'
  <2>1. Unopened' = Unopened /\ Unopened \in Nat
    BY <1>9, <1>10, SpendKeys, Amounts DEF Unopened
  <2>2. amount = lots[l].rem
    BY <1>1, <1>5, <1>6, <1>11, <1>17, <2>1 DEF Books
  <2>3. \A m \in Lots : lots'[m].status # "active" => lots'[m].rem = 0
    BY <1>5, <1>7, <1>17, <2>2 DEF Books
  <2>4. /\ points' = Held(lots', Lots) + Unopened'
        /\ points' = Total(ledger', Keys) + Unopened'
    BY <1>4, <1>6, <1>8, <1>10, <1>11, <1>17, <2>1 DEF Books, BookSum
  <2> QED BY <2>3, <2>4 DEF Books, BookSum
<1> QED BY <1>12, <1>13, <1>14, <1>15, <1>16, <1>17 DEF AccountInv

-----------------------------------------------------------------------------
(* Debits: expiry, coverage, draw.                                         *)

LEMMA DrawnHeld ==
  ASSUME NEW L \in [Lots -> Lot], NEW amount \in Nat, Held(L, Usable(L)) >= amount,
         NEW N, N = drawn(L, amount)
  PROVE  /\ N \in [Lots -> Lot]
         /\ \A l \in Lots : /\ N[l].rem = L[l].rem - Draw(L, amount, l)
                            /\ N[l].orig = L[l].orig
                            /\ N[l].status = L[l].status \/ N[l].rem = 0
         /\ Held(N, Lots) = Held(L, Lots) - amount
<1>1. ASSUME NEW l \in Lots
      PROVE  /\ N[l] \in Lot /\ N[l].rem = L[l].rem - Draw(L, amount, l)
             /\ N[l].orig = L[l].orig
             /\ N[l].status = L[l].status \/ N[l].rem = 0
  <2>1. PICK d : d = Draw(L, amount, l)
    OBVIOUS
  <2>2. d \in Nat /\ d <= L[l].rem /\ L[l].rem \in Nat /\ L[l] \in Lot
    BY <2>1, DrawOne, RemFacts
  <2>3. PICK r \in Nat : r = L[l].rem - d
    BY <2>2
  <2>4. PICK st : st = IF d > 0 /\ L[l].rem = d THEN "consumed" ELSE L[l].status
    OBVIOUS
  <2>5. N[l] = [L[l] EXCEPT !.rem = L[l].rem - d,
                            !.status = IF d > 0 /\ L[l].rem = d
                                       THEN "consumed" ELSE L[l].status]
    BY <2>1, <2>2 DEF drawn, Lot
  <2>6. N[l] = [L[l] EXCEPT !.rem = r, !.status = st]
    BY <2>3, <2>4, <2>5
  <2>7. st \in {"absent", "active", "consumed", "expired", "revoked"}
        /\ (st = L[l].status \/ r = 0)
    BY <2>2, <2>3, <2>4 DEF Lot
  <2> QED BY <2>1, <2>2, <2>3, <2>6, <2>7 DEF Lot
<1>2. N \in [Lots -> Lot]
  BY <1>1 DEF drawn
<1>3. \A l \in Lots : /\ Draws(L, amount)[l] \in Int
                      /\ L[l].rem = N[l].rem + Draws(L, amount)[l]
  <2>1. \A l \in Lots : /\ Draws(L, amount)[l] = Draw(L, amount, l)
                        /\ Draw(L, amount, l) \in Nat /\ L[l].rem \in Nat
    BY DrawsFacts, DrawOne, RemFacts
  <2> QED BY <1>1, <2>1
<1>4. Held(L, Lots) = Held(N, Lots) + Total(Draws(L, amount), Lots)
  BY <1>2, <1>3, HeldMoved
<1>5. Total(Draws(L, amount), Lots) = amount
  BY DrawsAddUp
<1>6. Held(N, Lots) \in Nat
  BY <1>2, HeldNat
<1> QED BY <1>1, <1>2, <1>4, <1>5, <1>6

\* The due lots and the usable ones are all that hold points, while the books
\* balance.
LEMMA DueAndUsable ==
  ASSUME AccountType, Books
  PROVE  /\ Held(lots, Lots) = Held(lots, Due) + Held(lots, Usable(lots))
         /\ Held(lots, Due) \in Nat /\ Held(lots, Usable(lots)) \in Nat
<1> DEFINE D == Due
           U == Usable(lots)
<1>1. lots \in [Lots -> Lot]
  BY DEF AccountType
<1>2. D \in SUBSET Lots /\ U \in SUBSET Lots
  BY DEF Due, Usable, Live
<1>3. D \cap U = {} /\ \A l \in Lots \ (D \cup U) : lots[l].rem = 0
  <2>1. \A l \in Lots : lots[l].exp \in Nat /\ now \in Nat /\ lots[l].rem \in Nat
    BY Amounts DEF AccountType, Lot
  <2>2. \A l \in Lots : ~(lots[l].exp <= now /\ lots[l].exp > now)
    BY <2>1
  <2>3. ASSUME NEW l \in Lots, l \notin D, l \notin U PROVE lots[l].rem = 0
    BY <2>1, <2>3 DEF Books, Due, Usable, Live
  <2> QED BY <1>2, <2>2, <2>3 DEF Due, Usable
<1>4. Held(lots, D \cup U) = Held(lots, D) + Held(lots, U)
  BY <1>1, <1>2, <1>3, HeldSplit
<1>5. Held(lots, D \cup U) = Held(lots, Lots)
  BY <1>1, <1>2, <1>3, HeldElsewhere
<1> QED BY <1>1, <1>2, <1>4, <1>5, HeldNat

LEMMA DebitBooks ==
  ASSUME AccountInv, NEW balance \in Nat, NEW seen \in [Lots -> Lot],
         NEW k \in Spends, NEW amount \in Nat \ {0},
         \A t \in Trips : k = Trip(t) => amount = Cost,
         debit_locked(balance, seen, k, amount)
  PROVE  /\ AccountInv'
         /\ Books /\ balance = points
            /\ Held(seen, Usable(seen)) = Held(lots, Usable(lots)) => Books'
<1> DEFINE before0 == balance - Lapse(balance)
           missing0 == Missing(before0, seen)
           book0 == IF Due # {} THEN Lapsed(balance) ELSE ledger
<1>1. /\ points \in Nat /\ ledger \in [Keys -> Int] /\ lots \in [Lots -> Lot]
      /\ made \in 0..MaxLots /\ made \in Nat
      /\ taken \in [Spends -> [Lots -> Nat]] /\ now \in Days
      /\ AccountType /\ k \in Keys /\ k # Opening
  BY Numbers, SpendKeys DEF AccountInv, AccountType
<1>2. PICK missing : missing = missing0
  OBVIOUS
<1>3. PICK L : L = expired_lots
  OBVIOUS
<1>4. PICK B : B = book0
  OBVIOUS
<1>5. PICK M : M = IF missing > 0
                   THEN [L EXCEPT ![made + 1] = OpenLot(Opening, missing, Never)]
                   ELSE L
  OBVIOUS
<1>6. PICK C : C = IF missing > 0 THEN [B EXCEPT ![Opening] = missing] ELSE B
  OBVIOUS
<1>7. /\ ledger[k] = 0
      /\ Due # {} => expire_due_locked(balance)
      /\ before0 >= amount
      /\ missing > 0 => ledger[Opening] = 0 /\ made < MaxLots
      /\ Held(M, Usable(M)) >= amount
      /\ points' = before0 - amount
      /\ ledger' = [C EXCEPT ![k] = -amount]
      /\ lots' = drawn(M, amount)
      /\ made' = IF missing > 0 THEN made + 1 ELSE made
      /\ taken' = [taken EXCEPT ![k] = Draws(M, amount)]
      /\ now' = now
  BY <1>2, <1>3, <1>4, <1>5, <1>6
     DEF debit_locked, _ensure_lot_coverage, find_ledger, Draws
<1>8. PICK before : before = before0
  OBVIOUS
<1>9. missing = before - Held(seen, Usable(seen))
  BY <1>2, <1>8 DEF Missing
<1> HIDE DEF book0, missing0, before0
<1>10. Held(seen, Usable(seen)) \in Nat
  BY UsableLots, HeldNat
<1>11. /\ Held(lots, Due) \in Nat /\ Held(lots, Due) <= Held(lots, Lots)
       /\ Lapse(balance) \in Nat
       /\ Lapse(balance) <= balance /\ Lapse(balance) <= Held(lots, Due)
       /\ Held(lots, Due) <= balance => Lapse(balance) = Held(lots, Due)
       /\ before = balance - Lapse(balance)
  BY <1>1, <1>8, LapseFacts DEF before0
<1>12. before \in Nat /\ missing \in Int /\ before - amount \in Nat
       /\ points' = before - amount
  BY <1>7, <1>8, <1>9, <1>10, <1>11
<1>13. PICK gain \in Nat : gain = IF missing > 0 THEN missing ELSE 0
  BY <1>12
<1>14. /\ L \in [Lots -> Lot]
       /\ \A l \in Lots : \/ L[l] = lots[l]
                          \/ L[l].rem = 0 /\ L[l].orig = lots[l].orig
       /\ Held(L, Lots) = Held(lots, Lots) - Held(lots, Due)
  BY <1>1, <1>3, ExpiredHeld
<1>15. /\ B \in [Keys -> Int]
       /\ \A j \in Keys : (\A x : j # Expiry(x)) => B[j] = ledger[j]
       /\ Total(ledger, Keys) \in Int
       /\ Total(B, Keys) = Total(ledger, Keys) - Lapse(balance)
  <2>1. B = IF Due # {} THEN Lapsed(balance) ELSE ledger
    BY <1>4 DEF book0
  <2> QED BY <1>1, <1>7, <2>1, ExpiryBooked
<1>16. /\ missing > 0 => made + 1 \in Lots /\ lots[made + 1].rem = 0
                         /\ L[made + 1].rem = 0
                         /\ \A j \in Spends : taken[j][made + 1] = 0
       /\ made' \in 0..MaxLots /\ made <= made'
  <2>1. ASSUME missing > 0
        PROVE  made + 1 \in Lots /\ lots[made + 1].rem = 0
               /\ \A j \in Spends : taken[j][made + 1] = 0
    BY <1>1, <1>7, <2>1, Numbers DEF AccountInv, Unused
  <2>2. made' \in 0..MaxLots /\ made <= made'
    BY <1>1, <1>7, Numbers
  <2> QED BY <1>14, <2>1, <2>2
<1>17. /\ M \in [Lots -> Lot]
       /\ \A l \in Lots : \/ M[l] = L[l]
                          \/ /\ missing > 0 /\ l = made + 1
                             /\ M[l].rem = M[l].orig /\ M[l].status = "active"
       /\ Held(M, Lots) = Held(L, Lots) + gain
  <2>1. CASE missing > 0
    <3>1. Opens(L, made + 1, Opening, missing, Never, M)
      BY <1>5, <2>1 DEF Opens
    <3>2. /\ made + 1 \in Lots /\ L[made + 1].rem = 0 /\ Opening \in Keys
          /\ missing \in Nat /\ Never \in 0..Never
      BY <1>12, <1>16, <2>1, SpendKeys, Amounts
    <3>3. /\ M \in [Lots -> Lot]
          /\ \A l \in Lots : l # made + 1 => M[l] = L[l]
          /\ M[made + 1].rem = missing /\ M[made + 1].orig = missing
          /\ M[made + 1].status = "active"
          /\ Held(M, Lots) = Held(L, Lots) + missing
      BY <1>14, <3>1, <3>2, LotOpened
    <3> QED BY <1>13, <2>1, <3>3
  <2>2. CASE ~(missing > 0)
    <3>1. M = L /\ gain = 0
      BY <1>5, <1>13, <2>2
    <3>2. Held(L, Lots) \in Nat
      BY <1>14, HeldNat
    <3> QED BY <1>14, <3>1, <3>2
  <2> QED BY <2>1, <2>2
<1>18. /\ C \in [Keys -> Int]
       /\ \A j \in Keys : j # Opening => C[j] = B[j]
       /\ C[Opening] = IF missing > 0 THEN missing ELSE ledger[Opening]
       /\ Total(C, Keys) = Total(B, Keys) + gain
  <2>1. Opening \in Keys /\ B[Opening] = ledger[Opening]
    BY <1>15, SpendKeys, ExpiryKeysApart
  <2>2. CASE missing > 0
    <3>1. Writes(B, Opening, missing, C) /\ B[Opening] = 0
      BY <1>6, <1>7, <2>1, <2>2 DEF Writes
    <3>2. /\ C \in [Keys -> Int] /\ C[Opening] = missing
          /\ \A j \in Keys : j # Opening => C[j] = B[j]
          /\ Total(C, Keys) = Total(B, Keys) + missing
      BY <1>12, <1>15, <2>1, <3>1, RowWritten
    <3> QED BY <1>13, <2>2, <3>2
  <2>3. CASE ~(missing > 0)
    <3>1. C = B /\ gain = 0
      BY <1>6, <1>13, <2>3
    <3>2. Total(B, Keys) \in Int
      BY <1>11, <1>15
    <3> QED BY <1>15, <2>1, <2>3, <3>1, <3>2
  <2> QED BY <2>2, <2>3
<1>19. /\ ledger' \in [Keys -> Int] /\ ledger'[k] = -amount
       /\ \A j \in Keys : j # k => ledger'[j] = C[j]
       /\ Total(ledger', Keys) = Total(C, Keys) + (-amount)
  <2>1. Writes(C, k, -amount, ledger') /\ -amount \in Int
    BY <1>7 DEF Writes
  <2>2. C[k] = 0
    BY <1>1, <1>7, <1>15, <1>18, ExpiryKeysApart
  <2> QED BY <1>1, <1>18, <2>1, <2>2, RowWritten
<1>20. /\ lots' \in [Lots -> Lot]
       /\ \A l \in Lots : /\ lots'[l].rem = M[l].rem - Draw(M, amount, l)
                          /\ lots'[l].orig = M[l].orig
                          /\ lots'[l].status = M[l].status \/ lots'[l].rem = 0
       /\ Held(lots', Lots) = Held(M, Lots) - amount
  BY <1>7, <1>17, DrawnHeld
<1>21. /\ Draws(M, amount) \in [Lots -> Nat]
       /\ \A l \in Lots : /\ Draws(M, amount)[l] = Draw(M, amount, l)
                          /\ Draw(M, amount, l) \in Nat
                          /\ Draw(M, amount, l) <= M[l].rem /\ M[l].rem \in Nat
       /\ Total(Draws(M, amount), Lots) = amount
  <2>1. Draws(M, amount) \in [Lots -> Nat]
        /\ \A l \in Lots : Draws(M, amount)[l] = Draw(M, amount, l)
    BY <1>17, DrawsFacts
  <2>2. \A l \in Lots : /\ Draw(M, amount, l) \in Nat
                        /\ Draw(M, amount, l) <= M[l].rem /\ M[l].rem \in Nat
    BY <1>17, DrawOne, RemFacts
  <2>3. Total(Draws(M, amount), Lots) = amount
    BY <1>7, <1>17, DrawsAddUp
  <2> QED BY <2>1, <2>2, <2>3
<1>22. /\ taken' \in [Spends -> [Lots -> Nat]] /\ taken'[k] = Draws(M, amount)
       /\ \A j \in Spends : j # k => taken'[j] = taken[j]
  BY <1>1, <1>7, <1>21
<1>23. /\ Held(lots, Lots) \in Nat
       /\ Held(lots', Lots) = Held(lots, Lots) - Held(lots, Due) + gain - amount
       /\ Total(ledger', Keys) = Total(ledger, Keys) - Lapse(balance) + gain - amount
  <2>1. Held(lots, Lots) \in Nat
    BY <1>1, HeldNat
  <2>2. /\ Held(L, Lots) = Held(lots, Lots) - Held(lots, Due)
        /\ Held(M, Lots) = Held(L, Lots) + gain
        /\ Held(lots', Lots) = Held(M, Lots) - amount
    BY <1>14, <1>17, <1>20
  <2>3. /\ Total(B, Keys) = Total(ledger, Keys) - Lapse(balance)
        /\ Total(C, Keys) = Total(B, Keys) + gain
        /\ Total(ledger', Keys) = Total(C, Keys) + (-amount)
    BY <1>15, <1>18, <1>19
  <2>4. /\ Held(lots, Due) \in Nat /\ Lapse(balance) \in Nat
        /\ Total(ledger, Keys) \in Int
    BY <1>11, <1>15
  <2>5. Held(lots', Lots) = Held(lots, Lots) - Held(lots, Due) + gain - amount
    BY <2>1, <2>2, <2>4
  <2>6. Total(ledger', Keys) = Total(ledger, Keys) - Lapse(balance) + gain - amount
    BY <2>3, <2>4
  <2> QED BY <2>1, <2>5, <2>6
<1>24. AccountType'
  BY <1>1, <1>7, <1>12, <1>16, <1>19, <1>20, <1>22 DEF AccountType
<1>25. Unused'
  <2>1. ASSUME NEW l \in Lots, l > made'
        PROVE  lots'[l].rem = 0 /\ \A j \in Spends : taken'[j][l] = 0
    <3>1. l > made /\ (missing > 0 => l # made + 1)
      BY <1>1, <1>7, <1>16, <2>1, Numbers
    <3>2. lots[l].rem = 0 /\ \A j \in Spends : taken[j][l] = 0
      BY <3>1 DEF AccountInv, Unused
    <3>3. M[l].rem = 0
      BY <1>14, <1>17, <3>1, <3>2
    <3>4. Draw(M, amount, l) = 0
      BY <1>21, <3>3
    <3> QED BY <1>20, <1>21, <1>22, <3>2, <3>3, <3>4
  <2> QED BY <2>1 DEF Unused
<1>26. \A j \in Spends : j # k => ledger'[j] = ledger[j]
  BY <1>15, <1>18, <1>19, SpendKeys, ExpiryKeysApart
<1>27. Allocated'
  <2>1. \A t \in Trips : ledger'[Refund(t)] = ledger[Refund(t)]
    BY <1>15, <1>18, <1>19, KeysApart, SpendKeys, ExpiryKeysApart
  <2>2. ledger'[k] # 0
    BY <1>19
  <2>3. \A j \in Spends, l \in Lots : ledger'[j] = 0 => taken'[j][l] = 0
    BY <1>22, <1>26, <2>2 DEF AccountInv, Allocated
  <2>4. \A t \in Trips : ledger'[Trip(t)] \in {0, -Cost}
    BY <1>19, <1>26, SpendKeys DEF AccountInv, Allocated
  <2>5. ASSUME NEW t \in Trips, ledger'[Trip(t)] # 0, ledger'[Refund(t)] = 0
        PROVE  Total(taken'[Trip(t)], Lots) = Cost
    <3>1. CASE k = Trip(t)
      BY <1>21, <1>22, <3>1
    <3>2. CASE k # Trip(t)
      BY <1>22, <1>26, <2>1, <2>5, <3>2, SpendKeys DEF AccountInv, Allocated
    <3> QED BY <3>1, <3>2
  <2> QED BY <2>3, <2>4, <2>5 DEF Allocated
<1>28. LotNeverOverspent'
  <2>1. ASSUME NEW l \in Lots
        PROVE  lots'[l].rem + Outstanding(l)' <= lots'[l].orig
    <3>1. Writes(taken, k, Draws(M, amount), taken')
      BY <1>7 DEF Writes
    <3>2. Total(Taken(taken', l), Spends)
            = Total(Taken(taken, l), Spends) - taken[k][l] + Draws(M, amount)[l]
      BY <1>1, <1>21, <3>1, TakenChanged
    <3>3. taken[k][l] = 0 /\ Outstanding(l) \in Nat
      BY <1>1, <1>7, TakenNatural, OutstandingIs DEF AccountInv, Allocated
    <3>4. Outstanding(l)' = Outstanding(l) + Draw(M, amount, l)
      BY <1>21, <3>2, <3>3, OutstandingIs
    <3>5. M[l].rem + Outstanding(l) <= M[l].orig
      <4>1. lots[l].rem + Outstanding(l) <= lots[l].orig
        BY DEF AccountInv, LotNeverOverspent
      <4>2. lots[l].rem \in Nat /\ lots[l].orig \in Nat
        BY <1>1 DEF Lot
      <4>3. L[l].rem + Outstanding(l) <= L[l].orig
        BY <1>14, <3>3, <4>1, <4>2
      <4>4. CASE missing > 0 /\ l = made + 1
        <5>1. \A j \in Spends : Taken(taken, l)[j] = 0
          BY <1>16, <4>4 DEF Taken
        <5>2. Outstanding(l) = 0
          BY <5>1, KeysFinite, SumZero, OutstandingIs
        <5> QED BY <1>17, <1>21, <4>3, <5>2
      <4> QED BY <1>17, <4>3, <4>4
    <3>6. lots'[l].rem = M[l].rem - Draw(M, amount, l) /\ lots'[l].orig = M[l].orig
          /\ Draw(M, amount, l) \in Nat /\ M[l].rem \in Nat
      BY <1>20, <1>21
    <3> QED BY <3>3, <3>4, <3>5, <3>6
  <2> QED BY <2>1 DEF LotNeverOverspent
<1>29. LotsBackedByLedger'
  <2>1. Held(lots', Lots) <= Total(ledger', Keys)
    BY <1>11, <1>15, <1>23 DEF AccountInv, LotsBackedByLedger, BookSum
  <2>2. points' >= 0
    BY <1>12
  <2> QED BY <2>1, <2>2 DEF LotsBackedByLedger, BookSum
<1>30. ASSUME Books, balance = points,
              Held(seen, Usable(seen)) = Held(lots, Usable(lots))
       PROVE  Books'
  <2>1. Unopened \in Nat
    BY Amounts DEF Unopened
  <2>2. /\ Held(lots, Lots) = Held(lots, Due) + Held(lots, Usable(lots))
        /\ Held(lots, Usable(lots)) \in Nat
    BY <1>1, <1>30, DueAndUsable
  <2>3. points = Held(lots, Lots) + Unopened /\ points = Total(ledger, Keys) + Unopened
    BY <1>30 DEF Books, BookSum
  <2>4. Lapse(balance) = Held(lots, Due)
    BY <1>11, <1>23, <1>30, <2>1, <2>3
  <2>5. missing = Unopened
    BY <1>9, <1>11, <1>30, <2>1, <2>2, <2>3, <2>4
  <2>6. gain = Unopened
    BY <1>13, <2>1, <2>5
  <2>7. Unopened' = 0
    <3>1. ledger'[Opening] = C[Opening]
      BY <1>1, <1>19, SpendKeys
    <3>2. CASE missing > 0
      BY <1>18, <3>1, <3>2 DEF Unopened
    <3>3. CASE ~(missing > 0)
      <4>1. Unopened = 0 /\ ledger'[Opening] = ledger[Opening]
        BY <1>18, <2>1, <2>5, <3>1, <3>3
      <4> QED BY <4>1 DEF Unopened
    <3> QED BY <3>2, <3>3
  <2>8. \A l \in Lots : lots'[l].status # "active" => lots'[l].rem = 0
    <3>1. \A l \in Lots : L[l].status # "active" => L[l].rem = 0
      BY <1>14, <1>30 DEF Books
    <3>2. \A l \in Lots : M[l].status # "active" => M[l].rem = 0
      BY <1>17, <3>1
    <3>3. \A l \in Lots : M[l].rem = 0 => lots'[l].rem = 0
      BY <1>20, <1>21
    <3> QED BY <1>20, <3>2, <3>3
  <2>9. /\ points' = Held(lots', Lots) + 0
        /\ points' = Total(ledger', Keys) + 0
    BY <1>11, <1>12, <1>15, <1>23, <1>30, <2>1, <2>3, <2>4, <2>6
  <2> QED BY <2>7, <2>8, <2>9 DEF Books, BookSum
<1> QED BY <1>24, <1>25, <1>27, <1>28, <1>29, <1>30 DEF AccountInv

-----------------------------------------------------------------------------
(* The theorems about the sums.                                            *)

\* A session's step that commits a balance: it closes the session, and the
\* history variable says whether that balance was stale.
LEMMA SessionCloses ==
  ASSUME SessionType, NEW s \in Sessions, req' = [req EXCEPT ![s] = Closed],
         stale' \in BOOLEAN
  PROVE  SessionType'
<1>1. req' \in [Sessions -> Loaded \cup Reading \cup {Closed}]
  BY DEF SessionType
<1> QED BY <1>1 DEF SessionType

LEMMA DoneCloses ==
  ASSUME SessionType, NEW s \in Sessions, Done(s)
  PROVE  SessionType' /\ (~stale' => ~stale /\ req[s].points = points)
<1>1. req' = [req EXCEPT ![s] = Closed] /\ stale' = (stale \/ req[s].points # points)
  BY DEF Done
<1>2. stale' \in BOOLEAN /\ (~stale' => ~stale /\ req[s].points = points)
  BY <1>1 DEF SessionType
<1> QED BY <1>1, <1>2, SessionCloses

LEMMA HeldObjects ==
  ASSUME SessionType, NEW s \in Sessions
  PROVE  /\ req[s].pc = "loaded" => req[s].points \in Nat
         /\ req[s].pc = "reading" => req[s].points \in Nat /\ req[s].lots \in [Lots -> Lot]
<1>1. req[s] \in Loaded \/ req[s] \in Reading \/ req[s] = Closed
  BY DEF SessionType
<1>2. ASSUME req[s] \in Loaded PROVE req[s].pc = "loaded" /\ req[s].points \in Nat
  BY <1>2 DEF Loaded
<1>3. ASSUME req[s] \in Reading
      PROVE  req[s].pc = "reading" /\ req[s].points \in Nat /\ req[s].lots \in [Lots -> Lot]
  BY <1>3 DEF Reading
<1>4. ASSUME req[s] = Closed PROVE req[s].pc = "closed"
  BY <1>4 DEF Closed
<1> QED BY <1>1, <1>2, <1>3, <1>4

\* A session credits the account object it holds.
LEMMA SessionCredit ==
  ASSUME PointsInv, NEW s \in Sessions, NEW k \in Keys, k # Opening,
         \A x : k # Trip(x) /\ k # Refund(x), req[s].pc = "loaded",
         credit_locked(req[s].points, k, Score), Done(s)
  PROVE  PointsInv'
<1>1. req[s].points \in Nat
  BY HeldObjects DEF PointsInv
<1>2. Score \in Nat \ {0}
  BY Amounts
<1>3. AccountInv' /\ (Books /\ req[s].points = points => Books')
  BY <1>1, <1>2, CreditBooks DEF PointsInv
<1>4. SessionType' /\ (~stale' => ~stale /\ req[s].points = points)
  BY DoneCloses DEF PointsInv
<1> QED BY <1>3, <1>4 DEF PointsInv

\* A handler that locks the account first leaves the sessions alone.
LEMMA LockedFirst ==
  ASSUME PointsInv, AccountInv', Books => Books', UNCHANGED <<req, stale>>
  PROVE  PointsInv'
<1>1. SessionType'
  BY DEF PointsInv, SessionType
<1> QED BY <1>1 DEF PointsInv

LEMMA CreditKeys ==
  /\ \A d \in Days : CheckIn(d) \in Keys /\ CheckIn(d) # Opening
                     /\ \A x : CheckIn(d) # Trip(x) /\ CheckIn(d) # Refund(x)
  /\ \A p \in Purchases : Purchase(p) \in Keys /\ Purchase(p) # Opening
                          /\ \A x : Purchase(p) # Trip(x) /\ Purchase(p) # Refund(x)
  /\ \A i \in Invites : Invite(i) \in Keys /\ Invite(i) # Opening
                        /\ \A x : Invite(i) # Trip(x) /\ Invite(i) # Refund(x)
  /\ \A a \in Adjusts : /\ Adjustment(a) \in Keys /\ Adjustment(a) # Opening
                        /\ Adjustment(a) \in Spends
                        /\ \A x : Adjustment(a) # Trip(x) /\ Adjustment(a) # Refund(x)
BY DEF Keys, Spends, Opening, CheckIn, Purchase, Invite, Adjustment, Trip, Refund

LEMMA SessionStep ==
  ASSUME PointsInv, NEW s \in Sessions, Load(s) \/ Read(s) \/ Abandon(s)
  PROVE  PointsInv'
<1>1. UNCHANGED <<points, ledger, lots, made, taken, now, stale>>
  BY DEF Load, Read, Abandon
<1>2. AccountInv' /\ (Books => Books')
  BY <1>1 DEF PointsInv, AccountInv, AccountType, Unused, Allocated, LotNeverOverspent,
              LotsBackedByLedger, Outstanding, BookSum, Books, Unopened
<1>3. SessionType'
  <2>1. points \in Nat /\ lots \in [Lots -> Lot]
    BY DEF PointsInv, AccountInv, AccountType
  <2>2. CASE Load(s)
    <3>1. [pc |-> "loaded", points |-> points] \in Loaded
      BY <2>1 DEF Loaded
    <3> QED BY <1>1, <2>2, <3>1 DEF PointsInv, SessionType, Load
  <2>3. CASE Read(s)
    <3>1. req[s].points \in Nat
      BY <2>3, HeldObjects DEF PointsInv, Read
    <3>2. [pc |-> "reading", points |-> req[s].points, lots |-> lots] \in Reading
      BY <2>1, <3>1 DEF Reading
    <3> QED BY <1>1, <2>3, <3>2 DEF PointsInv, SessionType, Read
  <2>4. CASE Abandon(s)
    BY <1>1, <2>4 DEF PointsInv, SessionType, Abandon
  <2> QED BY <2>2, <2>3, <2>4
<1> QED BY <1>1, <1>2, <1>3 DEF PointsInv

LEMMA ExchangeStep ==
  ASSUME PointsInv, NEW s \in Sessions, NEW t \in Trips, exchange_travel_route(s, t)
  PROVE  PointsInv'
<1>1. /\ req[s].pc = "reading"
      /\ debit_locked(req[s].points, req[s].lots, Trip(t), Cost)
      /\ req' = [req EXCEPT ![s] = Closed]
      /\ stale' = (stale \/ req[s].points # points
                         \/ Held(req[s].lots, Usable(req[s].lots))
                              # Held(lots, Usable(lots)))
  BY DEF exchange_travel_route
<1>2. req[s].points \in Nat /\ req[s].lots \in [Lots -> Lot]
  BY <1>1, HeldObjects DEF PointsInv
<1>3. Trip(t) \in Spends /\ Cost \in Nat \ {0}
  BY SpendKeys, Amounts
<1>4. /\ AccountInv'
      /\ Books /\ req[s].points = points
         /\ Held(req[s].lots, Usable(req[s].lots)) = Held(lots, Usable(lots)) => Books'
  BY <1>1, <1>2, <1>3, DebitBooks DEF PointsInv
<1>5. /\ stale' \in BOOLEAN
      /\ ~stale' => /\ ~stale /\ req[s].points = points
                    /\ Held(req[s].lots, Usable(req[s].lots)) = Held(lots, Usable(lots))
  BY <1>1 DEF PointsInv, SessionType
<1>6. SessionType'
  BY <1>1, <1>5, SessionCloses DEF PointsInv
<1> QED BY <1>4, <1>5, <1>6 DEF PointsInv

LEMMA AdjustStep ==
  ASSUME PointsInv, NEW a \in Adjusts, adjust_user_points(a)
  PROVE  PointsInv'
<1>1. /\ points \in Nat /\ lots \in [Lots -> Lot] /\ Adjust \in Nat \ {0}
  BY Amounts DEF PointsInv, AccountInv, AccountType
<1>2. /\ Adjustment(a) \in Keys /\ Adjustment(a) # Opening /\ Adjustment(a) \in Spends
      /\ \A x : Adjustment(a) # Trip(x) /\ Adjustment(a) # Refund(x)
  BY CreditKeys
<1>3. CASE credit_locked(points, Adjustment(a), Adjust)
  <2>1. AccountInv' /\ (Books => Books')
    BY <1>1, <1>2, <1>3, CreditBooks DEF PointsInv
  <2> QED BY <2>1, LockedFirst DEF adjust_user_points
<1>4. CASE debit_locked(points, lots, Adjustment(a), Adjust)
  <2>1. AccountInv' /\ (Books => Books')
    BY <1>1, <1>2, <1>4, DebitBooks DEF PointsInv
  <2> QED BY <2>1, LockedFirst DEF adjust_user_points
<1> QED BY <1>3, <1>4 DEF adjust_user_points

LEMMA PointsStep ==
  ASSUME PointsInv, [Next]_vars
  PROVE  PointsInv'
<1>0. points \in Nat /\ now \in Days /\ AccountInv /\ Score \in Nat \ {0}
  BY Amounts DEF PointsInv, AccountInv, AccountType
<1>1. CASE UNCHANGED vars
  BY <1>1 DEF vars, PointsInv, AccountInv, AccountType, SessionType, Unused, Allocated,
              LotNeverOverspent, LotsBackedByLedger, Outstanding, BookSum, Books, Unopened
<1>2. CASE Tick
  <2>1. now' \in Days
    BY <1>0, <1>2, Amounts DEF Tick, Days
  <2>2. UNCHANGED <<points, ledger, lots, made, taken, req, stale>>
    BY <1>2 DEF Tick
  <2> QED BY <2>1, <2>2
          DEF PointsInv, AccountInv, AccountType, SessionType, Unused, Allocated,
              LotNeverOverspent, LotsBackedByLedger, Outstanding, BookSum, Books, Unopened
<1>3. ASSUME NEW s \in Sessions, study_check_in(s) PROVE PointsInv'
  BY <1>0, <1>3, CreditKeys, SessionCredit DEF study_check_in
<1>4. ASSUME NEW s \in Sessions, NEW p \in Purchases, pay_with_balance(s, p)
      PROVE  PointsInv'
  BY <1>4, CreditKeys, SessionCredit DEF pay_with_balance
<1>5. ASSUME NEW s \in Sessions, NEW i \in Invites, invite_reward(s, i)
      PROVE  PointsInv'
  BY <1>5, CreditKeys, SessionCredit DEF invite_reward
<1>6. ASSUME NEW s \in Sessions, invite_dashboard(s) PROVE PointsInv'
  <2>1. req[s].points \in Nat
    BY <1>6, HeldObjects DEF PointsInv, invite_dashboard
  <2>2. AccountInv' /\ (Books /\ req[s].points = points => Books')
    BY <1>0, <1>6, <2>1, DashboardBooks
  <2>3. SessionType' /\ (~stale' => ~stale /\ req[s].points = points)
    BY <1>6, DoneCloses DEF PointsInv, invite_dashboard
  <2> QED BY <2>2, <2>3 DEF PointsInv
<1>7. ASSUME NEW s \in Sessions, NEW t \in Trips, cancel_my_travel_order(s, t)
      PROVE  PointsInv'
  <2>1. req[s].points \in Nat /\ refund_locked(req[s].points, t)
    BY <1>7, HeldObjects DEF PointsInv, cancel_my_travel_order
  <2>2. AccountInv' /\ (Books /\ req[s].points = points => Books')
    BY <1>0, <2>1, RefundBooks
  <2>3. SessionType' /\ (~stale' => ~stale /\ req[s].points = points)
    BY <1>7, DoneCloses DEF PointsInv, cancel_my_travel_order
  <2> QED BY <2>2, <2>3 DEF PointsInv
<1>8. ASSUME NEW p \in Purchases, mark_paid(p) PROVE PointsInv'
  <2>1. credit_locked(points, Purchase(p), Score) /\ UNCHANGED <<req, stale>>
    BY <1>8 DEF mark_paid
  <2>2. AccountInv' /\ (Books => Books')
    BY <1>0, <2>1, CreditKeys, CreditBooks
  <2> QED BY <2>1, <2>2, LockedFirst
<1>9. ASSUME NEW p \in Purchases, refund_order(p) PROVE PointsInv'
  <2>1. revoke_credit_locked(p) /\ UNCHANGED <<req, stale>>
    BY <1>9 DEF refund_order
  <2>2. AccountInv' /\ (Books => Books')
    BY <1>0, <2>1, RevocationBooks
  <2> QED BY <2>1, <2>2, LockedFirst
<1>10. ASSUME NEW t \in Trips, admin_cancel_travel_order(t) PROVE PointsInv'
  <2>1. refund_locked(points, t) /\ UNCHANGED <<req, stale>>
    BY <1>10 DEF admin_cancel_travel_order
  <2>2. AccountInv' /\ (Books => Books')
    BY <1>0, <2>1, RefundBooks
  <2> QED BY <2>1, <2>2, LockedFirst
<1> QED BY <1>1, <1>2, <1>3, <1>4, <1>5, <1>6, <1>7, <1>8, <1>9, <1>10,
           SessionStep, ExchangeStep, AdjustStep
        DEF Next

LEMMA PointsInit == Init => PointsInv
<1> SUFFICES ASSUME Init PROVE PointsInv
  OBVIOUS
<1>1. NoLot \in Lot /\ NoLot.rem = 0 /\ NoLot.orig = 0
  BY Amounts, SpendKeys DEF NoLot, Lot
<1>2. AccountType
  <2>1. points \in Nat /\ made \in 0..MaxLots /\ now \in Days
    BY Amounts DEF Init, Days
  <2>2. ledger \in [Keys -> Int] /\ taken \in [Spends -> [Lots -> Nat]]
    BY DEF Init
  <2>3. lots \in [Lots -> Lot]
    BY <1>1 DEF Init
  <2> QED BY <2>1, <2>2, <2>3 DEF AccountType
<1>3. SessionType
  BY DEF Init, SessionType
<1>4. \A l \in Lots : lots[l].rem = 0 /\ lots[l].orig = 0
  BY <1>1 DEF Init
<1>5. /\ \A k \in Spends, l \in Lots : taken[k][l] = 0
      /\ \A k \in Keys : ledger[k] = 0
  BY DEF Init
<1>6. Unused /\ Allocated
  BY <1>4, <1>5, KeysApart DEF Unused, Allocated
<1>7. LotNeverOverspent
  <2>1. ASSUME NEW l \in Lots PROVE Outstanding(l) = 0
    <3>1. \A k \in Spends : Taken(taken, l)[k] = 0
      BY <1>5 DEF Taken
    <3> QED BY <3>1, KeysFinite, SumZero, OutstandingIs
  <2> QED BY <1>4, <2>1 DEF LotNeverOverspent
<1>8. Held(lots, Lots) = 0 /\ BookSum = 0
  <2>1. \A l \in Lots : Rem(lots)[l] = 0
    BY <1>4 DEF Rem
  <2>2. Total(Rem(lots), Lots) = 0
    BY <2>1, LotsFinite, SumZero
  <2>3. Total(ledger, Keys) = 0
    BY <1>5, KeysFinite, SumZero
  <2> QED BY <2>2, <2>3 DEF Held, Rem, BookSum
<1>9. LotsBackedByLedger /\ Books
  <2>1. points = Legacy /\ Legacy \in Nat
    BY Amounts DEF Init
  <2>2. Unopened = Legacy
    BY <1>5, SpendKeys DEF Unopened
  <2> QED BY <1>4, <1>8, <2>1, <2>2 DEF LotsBackedByLedger, Books
<1> QED BY <1>2, <1>3, <1>6, <1>7, <1>9 DEF PointsInv, AccountInv

LEMMA PointsAlways == Spec => []PointsInv
BY PointsInit, PointsStep, PTL DEF Spec

\* The balance, the rows, the lots and the allocations keep their types: in
\* particular no stale session makes a balance or a lot negative, and no lot
\* expires after the last date the calendar allows.
THEOREM PointsTyped == Spec => []TypeOK
<1>1. PointsInv => TypeOK
  BY DEF PointsInv, AccountInv, AccountType, SessionType, TypeOK
<1> QED BY <1>1, PointsAlways, PTL

\* For every account history, what remains in a lot and what unrestored
\* allocations took from it never exceed what was credited to it.
THEOREM LotsAreNeverOverspent == Spec => []LotNeverOverspent
<1>1. PointsInv => LotNeverOverspent
  BY DEF PointsInv, AccountInv
<1> QED BY <1>1, PointsAlways, PTL

\* For every account history, stale writes included, lots hold no more than
\* the ledger accounts for, and the balance is not negative.
THEOREM LotsAreBacked == Spec => []LotsBackedByLedger
<1>1. PointsInv => LotsBackedByLedger
  BY DEF PointsInv, AccountInv
<1> QED BY <1>1, PointsAlways, PTL

\* Until a session commits a balance that had changed under it, the balance,
\* the lots and the ledger agree, the historical points not yet opened apart.
THEOREM BooksBalance == Spec => []BooksBalanceUntilStaleWrite
<1>1. PointsInv => BooksBalanceUntilStaleWrite
  <2> SUFFICES ASSUME PointsInv, ~stale PROVE BooksBalanceUntilStaleWrite
    BY DEF BooksBalanceUntilStaleWrite
  <2>1. Books /\ lots \in [Lots -> Lot]
    BY DEF PointsInv, AccountInv, AccountType
  <2>2. Live(lots) \in SUBSET Lots /\ \A l \in Lots \ Live(lots) : lots[l].rem = 0
    BY <2>1, RemFacts DEF Live, Books
  <2>3. Held(lots, Live(lots)) = Held(lots, Lots)
    BY <2>1, <2>2, HeldElsewhere
  <2> QED BY <2>1, <2>3 DEF Books, Unopened, BooksBalanceUntilStaleWrite, find_ledger
<1> QED BY <1>1, PointsAlways, PTL
=============================================================================
