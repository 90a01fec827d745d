------------------------------ MODULE OrderSums ------------------------------
(***************************************************************************)
(* Sums of amounts over finite sets of rows, as CountReservedRefundAmount  *)
(* and the ledgers take them: what adding, leaving out or changing a row   *)
(* does to the sum. The fold is a recursive function over subsets; every   *)
(* proof takes a smallest counterexample.                                  *)
(***************************************************************************)
EXTENDS Naturals, FiniteSets, FiniteSetsExt, FiniteSetTheorems, WellFoundedInduction, TLAPS

\* The sum of the amounts of the rows f has for S.
Amounts(f, S) == MapThenSumSet(LAMBDA r : f[r].amount, S)

\* The row the fold takes out first.
First(s) == CHOOSE x \in s : TRUE

\* g is the fold that sums f over the subsets of S.
IsFold(g, f, S) ==
  g = [s \in SUBSET S |->
         IF s = {} THEN 0
         ELSE f[First(s)].amount + g[s \ {First(s)}]]

\* A set of natural numbers that is not empty has a least element.
LEMMA LeastElement ==
  ASSUME NEW T \in SUBSET Nat, T # {}
  PROVE  \E n \in T : \A m \in T : n <= m
<1> DEFINE Less == OpToRel(<, Nat)
<1>1. IsWellFoundedOn(Less, Nat)
  BY NatLessThanWellFounded
<1>2. \A m, n \in Nat : <<m, n>> \in Less <=> m < n
  BY DEF OpToRel
<1> HIDE DEF Less
<1>3. \E n \in T : \A m \in T : ~ (<<m, n>> \in Less)
  BY <1>1, WFMin
<1>4. PICK n \in T : \A m \in T : ~ (<<m, n>> \in Less)
  BY <1>3
<1>5. ASSUME NEW m \in T
      PROVE  n <= m
  <2>1. ~ (m < n)
    BY <1>2, <1>4
  <2>2. QED
    BY <2>1
<1>6. QED
  BY <1>5

\* If some subset of a finite set is bad, one is that loses its badness with
\* any element.
LEMMA SmallestBad ==
  ASSUME NEW S, IsFiniteSet(S), NEW Bad \in SUBSET SUBSET S, Bad # {}
  PROVE  \E s \in Bad : IsFiniteSet(s) /\ \A x \in s : s \ {x} \notin Bad
<1> DEFINE Sizes == {n \in Nat : \E s \in Bad : Cardinality(s) = n}
<1>1. \A s \in SUBSET S : IsFiniteSet(s) /\ Cardinality(s) \in Nat
  BY FS_Subset, FS_CardinalityType
<1>2. Sizes \in SUBSET Nat /\ Sizes # {}
  BY <1>1
<1>3. PICK n \in Sizes : \A m \in Sizes : n <= m
  BY <1>2, LeastElement
<1>4. PICK s \in Bad : Cardinality(s) = n
  BY <1>3
<1>5. ASSUME NEW x \in s
      PROVE  s \ {x} \notin Bad
  <2>1. Cardinality(s \ {x}) = Cardinality(s) - 1
    BY <1>1, FS_RemoveElement
  <2>2. Cardinality(s \ {x}) \in Nat
    BY <1>1
  <2>3. SUFFICES ASSUME s \ {x} \in Bad
                 PROVE  FALSE
    OBVIOUS
  <2>4. n <= Cardinality(s \ {x})
    BY <1>3, <2>2, <2>3
  <2>5. QED
    BY <1>1, <1>4, <2>1, <2>2, <2>4
<1>6. QED
  BY <1>1, <1>5

\* The sum is the value of a fold, if there is one.
LEMMA AmountsUnfold ==
  ASSUME NEW f, NEW S
  PROVE  Amounts(f, S) = (CHOOSE g : IsFold(g, f, S))[S]
  BY DEF Amounts, IsFold, First, MapThenSumSet, MapThenFoldSet

\* What a fold says of a subset.
LEMMA FoldValue ==
  ASSUME NEW g, NEW f, NEW S, IsFold(g, f, S), NEW s \in SUBSET S
  PROVE  g[s] = IF s = {} THEN 0
                ELSE f[First(s)].amount + g[s \ {First(s)}]
  BY DEF IsFold

\* Two folds of rows with equal amounts agree on what both have.
LEMMA FoldsAgree ==
  ASSUME NEW g, NEW h, NEW e, NEW f, NEW S, NEW T, IsFold(g, e, S), IsFold(h, f, T),
         NEW R \in SUBSET S, R \in SUBSET T, IsFiniteSet(R),
         \A r \in R : e[r].amount = f[r].amount
  PROVE  g[R] = h[R]
<1> DEFINE Bad == {s \in SUBSET R : g[s] # h[s]}
<1>1. SUFFICES ASSUME Bad # {}
               PROVE  FALSE
  OBVIOUS
<1>2. PICK s \in SUBSET R : g[s] # h[s] /\ \A x \in s : g[s \ {x}] = h[s \ {x}]
  <2>1. PICK s \in Bad : \A x \in s : s \ {x} \notin Bad
    BY <1>1, SmallestBad
  <2>2. \A x \in s : s \ {x} \in SUBSET R
    OBVIOUS
  <2>3. QED
    BY <2>1, <2>2
<1> HIDE DEF Bad
<1> DEFINE c == First(s)
<1>3. /\ g[s] = IF s = {} THEN 0 ELSE e[c].amount + g[s \ {c}]
      /\ h[s] = IF s = {} THEN 0 ELSE f[c].amount + h[s \ {c}]
  <2>1. s \in SUBSET S /\ s \in SUBSET T
    OBVIOUS
  <2>2. g[s] = IF s = {} THEN 0 ELSE e[c].amount + g[s \ {c}]
    BY <2>1, FoldValue
  <2>3. h[s] = IF s = {} THEN 0 ELSE f[c].amount + h[s \ {c}]
    BY <2>1, FoldValue
  <2>4. QED
    BY <2>2, <2>3
<1>4. s # {}
  BY <1>2, <1>3
<1>5. c \in s
  BY <1>4 DEF First
<1> HIDE DEF c
<1>6. g[s \ {c}] = h[s \ {c}]
  BY <1>2, <1>5
<1>7. e[c].amount = f[c].amount
  BY <1>5
<1>8. QED
  BY <1>2, <1>3, <1>4, <1>6, <1>7

\* Folds over finite sets exist.
LEMMA FoldExists ==
  ASSUME NEW f, NEW S, IsFiniteSet(S)
  PROVE  \E g : IsFold(g, f, S)
<1> DEFINE Bad == {s \in SUBSET S : ~ \E g : IsFold(g, f, s)}
<1>1. SUFFICES ASSUME Bad # {}
               PROVE  FALSE
  BY DEF Bad
<1>2. PICK s \in Bad : IsFiniteSet(s) /\ \A x \in s : s \ {x} \notin Bad
  BY <1>1, SmallestBad
<1> DEFINE Fold(t) == CHOOSE g : IsFold(g, f, t)
           whole == [t \in SUBSET s |-> IF t = {} THEN 0
                      ELSE f[First(t)].amount + Fold(t \ {First(t)})[t \ {First(t)}]]
\* A subset that lacks an element of s is within a set that has a fold, which
\* is also one for the subset.
<1>3. ASSUME NEW t \in SUBSET s, t # s
      PROVE  IsFold(Fold(t), f, t)
  <2>1. PICK x \in s : x \notin t
    BY <1>3
  <2>2. PICK g : IsFold(g, f, s \ {x})
    BY <1>2
  <2>3. t \in SUBSET (s \ {x})
    BY <2>1
  <2>4. IsFold([u \in SUBSET t |-> g[u]], f, t)
    <3>1. ASSUME NEW u \in SUBSET t
          PROVE  g[u] = IF u = {} THEN 0
                        ELSE f[First(u)].amount + [v \in SUBSET t |-> g[v]][u \ {First(u)}]
      <4>1. u \in SUBSET (s \ {x}) /\ u \ {First(u)} \in SUBSET t
        BY <2>3
      <4>2. g[u] = IF u = {} THEN 0 ELSE f[First(u)].amount + g[u \ {First(u)}]
        BY <2>2, <4>1, FoldValue
      <4>3. [v \in SUBSET t |-> g[v]][u \ {First(u)}] = g[u \ {First(u)}]
        BY <4>1
      <4>4. QED
        BY <4>2, <4>3
    <3>2. QED
      BY <3>1 DEF IsFold
  <2>5. QED
    BY <2>4
<1>4. ASSUME NEW t \in SUBSET s, t # s
      PROVE  whole[t] = Fold(t)[t]
  <2>1. IsFold(Fold(t), f, t) /\ t \in SUBSET t
    BY <1>3, <1>4
  <2>2. Fold(t)[t] = IF t = {} THEN 0 ELSE f[First(t)].amount + Fold(t)[t \ {First(t)}]
    <3> HIDE DEF Fold
    <3>1. QED
      BY <2>1, FoldValue
  <2>3. ASSUME t # {}
        PROVE  Fold(t \ {First(t)})[t \ {First(t)}] = Fold(t)[t \ {First(t)}]
    <3>1. First(t) \in t
      BY <2>3 DEF First
    <3> DEFINE u == t \ {First(t)}
    <3>2. u \in SUBSET s /\ u # s /\ u \in SUBSET t /\ u \in SUBSET u
      BY <3>1
    <3>3. IsFold(Fold(u), f, u)
      BY <1>3, <3>2
    <3>4. IsFiniteSet(u)
      BY <1>2, <3>2, FS_Subset
    <3> HIDE DEF u, Fold
    <3>5. Fold(u)[u] = Fold(t)[u]
      BY <2>1, <3>2, <3>3, <3>4, FoldsAgree
    <3>6. QED
      BY <3>5 DEF u
  <2>4. whole[t] = IF t = {} THEN 0 ELSE f[First(t)].amount + Fold(t \ {First(t)})[t \ {First(t)}]
    OBVIOUS
  <2>5. QED
    BY <2>2, <2>3, <2>4
<1>5. IsFold(whole, f, s)
  <2>1. ASSUME NEW t \in SUBSET s, t # {}
        PROVE  whole[t \ {First(t)}] = Fold(t \ {First(t)})[t \ {First(t)}]
    <3>1. First(t) \in t
      BY <2>1 DEF First
    <3>2. t \ {First(t)} \in SUBSET s /\ t \ {First(t)} # s
      BY <3>1
    <3>3. QED
      BY <1>4, <3>2
  <2>2. ASSUME NEW t \in SUBSET s
        PROVE  whole[t] = IF t = {} THEN 0 ELSE f[First(t)].amount + whole[t \ {First(t)}]
    <3>1. whole[t] = IF t = {} THEN 0 ELSE f[First(t)].amount + Fold(t \ {First(t)})[t \ {First(t)}]
      OBVIOUS
    <3>2. t # {} => whole[t \ {First(t)}] = Fold(t \ {First(t)})[t \ {First(t)}]
      BY <2>1
    <3> HIDE DEF whole, Fold
    <3>3. QED
      BY <3>1, <3>2
  <2>3. whole = [t \in SUBSET s |-> whole[t]]
    OBVIOUS
  <2> HIDE DEF whole
  <2>4. [t \in SUBSET s |-> whole[t]]
          = [t \in SUBSET s |-> IF t = {} THEN 0 ELSE f[First(t)].amount + whole[t \ {First(t)}]]
    BY <2>2
  <2>5. whole = [t \in SUBSET s |-> IF t = {} THEN 0 ELSE f[First(t)].amount + whole[t \ {First(t)}]]
    BY <2>3, <2>4
  <2>6. QED
    BY <2>5 DEF IsFold
<1>6. QED
  BY <1>2, <1>5

\* The sum over a finite set and any of its subsets, from one fold.
LEMMA AmountsFold ==
  ASSUME NEW f, NEW S, IsFiniteSet(S), NEW T, IsFiniteSet(T), S \in SUBSET T,
         NEW g, IsFold(g, f, T)
  PROVE  Amounts(f, S) = g[S]
<1>1. IsFold(CHOOSE h : IsFold(h, f, S), f, S)
  BY FoldExists
<1>2. S \in SUBSET S
  OBVIOUS
<1>3. (CHOOSE h : IsFold(h, f, S))[S] = g[S]
  BY <1>1, <1>2, FoldsAgree
<1>4. QED
  BY <1>3, AmountsUnfold

\* No row, no amount.
LEMMA AmountsEmpty ==
  ASSUME NEW f
  PROVE  Amounts(f, {}) = 0
<1>1. PICK g : IsFold(g, f, {})
  BY FoldExists, FS_EmptySet
<1>2. g[{}] = 0
  BY <1>1, FoldValue
<1>3. QED
  BY <1>1, <1>2, AmountsFold, FS_EmptySet

\* Rows with equal amounts have equal sums.
LEMMA AmountsSame ==
  ASSUME NEW e, NEW f, NEW S, IsFiniteSet(S), \A x \in S : e[x].amount = f[x].amount
  PROVE  Amounts(e, S) = Amounts(f, S)
<1>1. PICK g : IsFold(g, e, S)
  BY FoldExists
<1>2. PICK h : IsFold(h, f, S)
  BY FoldExists
<1>3. S \in SUBSET S
  OBVIOUS
<1>4. g[S] = h[S]
  BY <1>1, <1>2, <1>3, FoldsAgree
<1>5. QED
  BY <1>1, <1>2, <1>3, <1>4, AmountsFold

\* The sum of a set that is not empty begins with the row the fold chooses.
LEMMA AmountsChosen ==
  ASSUME NEW f, NEW S, IsFiniteSet(S), S # {}
  PROVE  \E c \in S : Amounts(f, S) = f[c].amount + Amounts(f, S \ {c})
<1> DEFINE c == First(S)
<1>1. c \in S
  BY DEF First
<1>2. PICK g : IsFold(g, f, S)
  BY FoldExists
<1>3. g[S] = f[c].amount + g[S \ {c}]
  BY <1>2, FoldValue
<1> HIDE DEF c
<1>4. IsFiniteSet(S \ {c}) /\ S \ {c} \in SUBSET S /\ S \in SUBSET S
  BY FS_RemoveElement
<1>5. Amounts(f, S) = g[S] /\ Amounts(f, S \ {c}) = g[S \ {c}]
  BY <1>2, <1>4, AmountsFold
<1>6. QED
  BY <1>1, <1>3, <1>5

\* The sum of natural amounts is natural.
LEMMA AmountsType ==
  ASSUME NEW f, NEW S, IsFiniteSet(S), \A x \in S : f[x].amount \in Nat
  PROVE  Amounts(f, S) \in Nat
<1> DEFINE Bad == {s \in SUBSET S : Amounts(f, s) \notin Nat}
<1>1. SUFFICES ASSUME Bad # {}
               PROVE  FALSE
  OBVIOUS
<1>2. PICK s \in Bad : IsFiniteSet(s) /\ \A x \in s : s \ {x} \notin Bad
  BY <1>1, SmallestBad
<1>3. s # {}
  BY AmountsEmpty
<1>4. PICK c \in s : Amounts(f, s) = f[c].amount + Amounts(f, s \ {c})
  BY <1>2, <1>3, AmountsChosen
<1>5. Amounts(f, s \ {c}) \in Nat
  BY <1>2
<1>6. QED
  BY <1>4, <1>5

\* Any row may be taken out of the sum first.
LEMMA AmountsRow ==
  ASSUME NEW f, NEW S, IsFiniteSet(S), \A x \in S : f[x].amount \in Nat, NEW r \in S
  PROVE  Amounts(f, S) = f[r].amount + Amounts(f, S \ {r})
<1> DEFINE Bad == {s \in SUBSET S :
                     \E x \in s : Amounts(f, s) # f[x].amount + Amounts(f, s \ {x})}
<1>1. SUFFICES ASSUME Bad # {}
               PROVE  FALSE
  OBVIOUS
<1>2. PICK s \in Bad : IsFiniteSet(s) /\ \A x \in s : s \ {x} \notin Bad
  BY <1>1, SmallestBad
<1>3. PICK x \in s : Amounts(f, s) # f[x].amount + Amounts(f, s \ {x})
  OBVIOUS
<1>4. PICK c \in s : Amounts(f, s) = f[c].amount + Amounts(f, s \ {c})
  BY <1>2, AmountsChosen
<1>5. x # c
  BY <1>3, <1>4
<1> DEFINE Without(y) == s \ {y}
<1>6. ASSUME NEW y \in s, NEW z \in Without(y)
      PROVE  Amounts(f, Without(y)) = f[z].amount + Amounts(f, Without(y) \ {z})
  <2>1. Without(y) \in SUBSET S /\ Without(y) \notin Bad
    BY <1>2
  <2> HIDE DEF Without
  <2>2. QED
    BY <2>1
<1>7. /\ Amounts(f, s \ {c}) = f[x].amount + Amounts(f, (s \ {c}) \ {x})
      /\ Amounts(f, s \ {x}) = f[c].amount + Amounts(f, (s \ {x}) \ {c})
  BY <1>5, <1>6
<1>8. (s \ {x}) \ {c} = (s \ {c}) \ {x}
  BY Zenon
<1>9. Amounts(f, (s \ {c}) \ {x}) \in Nat
  <2>1. IsFiniteSet(s \ {c})
    BY <1>2, FS_RemoveElement
  <2>2. IsFiniteSet((s \ {c}) \ {x})
    BY <2>1, FS_RemoveElement
  <2>3. \A y \in (s \ {c}) \ {x} : f[y].amount \in Nat
    OBVIOUS
  <2>4. QED
    BY <2>2, <2>3, AmountsType
<1>10. f[x].amount \in Nat /\ f[c].amount \in Nat
  OBVIOUS
<1>11. QED
  <2>1. Amounts(f, s) = f[c].amount + (f[x].amount + Amounts(f, (s \ {c}) \ {x}))
    BY <1>4, <1>7
  <2>2. Amounts(f, s \ {x}) = f[c].amount + Amounts(f, (s \ {c}) \ {x})
    BY <1>7, <1>8
  <2>3. \A i, j, k \in Nat : i + (j + k) = j + (i + k)
    OBVIOUS
  <2>4. f[c].amount + (f[x].amount + Amounts(f, (s \ {c}) \ {x}))
          = f[x].amount + (f[c].amount + Amounts(f, (s \ {c}) \ {x}))
    BY <1>9, <1>10, <2>3
  <2>5. QED
    BY <1>3, <2>1, <2>2, <2>4

\* A new row adds its amount.
LEMMA AmountsAdd ==
  ASSUME NEW f, NEW S, IsFiniteSet(S), NEW r, r \notin S,
         \A x \in S \union {r} : f[x].amount \in Nat
  PROVE  Amounts(f, S \union {r}) = f[r].amount + Amounts(f, S)
<1>1. IsFiniteSet(S \union {r})
  BY FS_AddElement
<1>2. (S \union {r}) \ {r} = S
  OBVIOUS
<1>3. QED
  BY <1>1, <1>2, AmountsRow

\* Fewer rows have no greater sum.
LEMMA AmountsMonotone ==
  ASSUME NEW f, NEW S, IsFiniteSet(S), \A x \in S : f[x].amount \in Nat, NEW T \in SUBSET S
  PROVE  Amounts(f, T) <= Amounts(f, S)
<1> DEFINE Bad == {s \in SUBSET S : T \subseteq s /\ ~(Amounts(f, T) <= Amounts(f, s))}
<1>1. SUFFICES ASSUME Bad # {}
               PROVE  FALSE
  OBVIOUS
<1>2. PICK s \in Bad : IsFiniteSet(s) /\ \A x \in s : s \ {x} \notin Bad
  <2>1. Bad \in SUBSET SUBSET S
    OBVIOUS
  <2> HIDE DEF Bad
  <2>2. QED
    BY <1>1, <2>1, SmallestBad
<1>3. Amounts(f, T) \in Nat
  BY FS_Subset, AmountsType
<1>4. s # T
  BY <1>3
<1>5. PICK x \in s : x \notin T
  BY <1>4
<1>6. Amounts(f, T) <= Amounts(f, s \ {x})
  BY <1>2, <1>5
<1>7. Amounts(f, s \ {x}) \in Nat
  BY <1>2, FS_RemoveElement, AmountsType
<1>8. Amounts(f, s) = f[x].amount + Amounts(f, s \ {x})
  BY <1>2, AmountsRow
<1>9. QED
  BY <1>3, <1>6, <1>7, <1>8
=============================================================================
