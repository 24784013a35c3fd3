------------------------- MODULE RankFusion_proofs -------------------------
(***************************************************************************)
(* Proofs about RankFusion, for any articles, any number of lists of any   *)
(* length and any size: the result is a best prefix of the articles by the *)
(* definition of reciprocal rank fusion, it respects what every list       *)
(* prefers, and it interleaves lists that do not meet.                     *)
(*                                                                         *)
(* That definition is a fold, a recursive function over the subsets of a   *)
(* finite set. That it has a solution (FoldExists), and only one           *)
(* (FoldUnique), and that any element may be the last one (FoldAny), is    *)
(* shown by a least counterexample: the orders of the natural numbers and  *)
(* of the finite sets are well founded. So a sum of shares is that of one  *)
(* place less and a share (SumOfOneMore), and as the unit is a multiple of *)
(* the product of any two divisors, a better rank has more (ShareFalls).   *)
(*                                                                         *)
(* The result is not inductive, as it is made in one step from the scores. *)
(* ScoreInv says what a score is while the loop runs, and PrefInv, of the  *)
(* lists that are done with, that what all of them prefer is ahead.        *)
(***************************************************************************)
EXTENDS RankFusion, FiniteSetTheorems, SequenceTheorems,
        WellFoundedInduction, TLAPS

---------------------------------------------------------------------------
(* Folds of a finite set with an operation whose order does not matter.    *)

Picked(s) == CHOOSE x \in s : TRUE

\* f folds the weights w of the subsets of T with the operation o, from b.
IsFold(f, T, w, o, b) ==
  f = [s \in SUBSET T |-> IF s = {} THEN b ELSE o[<<w[Picked(s)], f[s \ {Picked(s)}]>>]]

LessThan == {s \in Nat \X Nat : s[1] < s[2]}

\* The order of the natural numbers is well founded.
LEMMA LessThanWellFounded == IsWellFoundedOn(LessThan, Nat)
  BY NatLessThanWellFounded DEF OpToRel, LessThan

\* What is picked is an element.
LEMMA PickedIn == ASSUME NEW s, s # {} PROVE Picked(s) \in s
  BY DEF Picked

\* Folds up to a cardinality.
FoldsUpTo(f, T, w, o, b, n) ==
  \A s \in SUBSET T : Cardinality(s) <= n =>
    f[s] = IF s = {} THEN b ELSE o[<<w[Picked(s)], f[s \ {Picked(s)}]>>]

\* A recursion up to a cardinality goes one further.
LEMMA FoldsFurther ==
  ASSUME NEW T, IsFiniteSet(T), NEW w, NEW o, NEW b, NEW n \in Nat,
         \E f : FoldsUpTo(f, T, w, o, b, n)
  PROVE  \E f : FoldsUpTo(f, T, w, o, b, n + 1)
<1>1. PICK f : FoldsUpTo(f, T, w, o, b, n)
  OBVIOUS
<1> DEFINE g == [s \in SUBSET T |-> IF Cardinality(s) <= n THEN f[s]
                                    ELSE o[<<w[Picked(s)], f[s \ {Picked(s)}]>>]]
<1>2. ASSUME NEW s \in SUBSET T, Cardinality(s) <= n + 1
      PROVE  g[s] = IF s = {} THEN b ELSE o[<<w[Picked(s)], g[s \ {Picked(s)}]>>]
  <2>1. CASE s = {}
    <3>1. Cardinality(s) = 0
      BY <2>1, FS_EmptySet
    <3> QED
      BY <1>1, <2>1, <3>1 DEF FoldsUpTo
  <2>2. CASE s # {}
    <3> DEFINE r == s \ {Picked(s)}
    <3>1. r \in SUBSET T /\ Cardinality(r) = Cardinality(s) - 1 /\ Cardinality(s) \in Nat
      BY <2>2, PickedIn, FS_Subset, FS_RemoveElement, FS_CardinalityType
    <3>2. Cardinality(r) <= n
      BY <1>2, <3>1
    <3>3. g[r] = f[r]
      BY <3>1, <3>2
    <3>4. g[s] = o[<<w[Picked(s)], f[r]>>]
      <4>1. CASE Cardinality(s) <= n
        BY <1>1, <2>2, <4>1 DEF FoldsUpTo
      <4>2. CASE ~(Cardinality(s) <= n)
        BY <4>2
      <4> QED
        BY <4>1, <4>2
    <3> HIDE DEF g
    <3> QED
      BY <2>2, <3>3, <3>4
  <2> QED
    BY <2>1, <2>2
<1> HIDE DEF g
<1>3. FoldsUpTo(g, T, w, o, b, n + 1)
  BY <1>2 DEF FoldsUpTo
<1> QED
  BY <1>3

\* A recursion over the subsets of a finite set has a solution.
LEMMA FoldExists ==
  ASSUME NEW T, IsFiniteSet(T), NEW w, NEW o, NEW b
  PROVE  \E f : IsFold(f, T, w, o, b)
<1> DEFINE Bad == {n \in Nat : ~\E f : FoldsUpTo(f, T, w, o, b, n)}
<1>1. 0 \notin Bad
  <2> DEFINE f == [s \in SUBSET T |-> b]
  <2>1. ASSUME NEW s \in SUBSET T, Cardinality(s) <= 0 PROVE s = {}
    BY <2>1, FS_Subset, FS_CardinalityType, FS_EmptySet
  <2>2. FoldsUpTo(f, T, w, o, b, 0)
    BY <2>1 DEF FoldsUpTo
  <2> QED
    BY <2>2
<1>2. Bad = {}
  <2>1. SUFFICES ASSUME Bad # {} PROVE FALSE
    OBVIOUS
  <2>2. PICK n \in Bad : \A m \in Bad : ~ (<<m, n>> \in LessThan)
    BY <2>1, LessThanWellFounded, WFMin
  <2>3. n \in Nat /\ n # 0 /\ n - 1 \in Nat /\ n - 1 \notin Bad
    <3>1. n \in Nat /\ n # 0
      BY <1>1, <2>2
    <3>2. n - 1 \in Nat /\ <<n - 1, n>> \in LessThan
      BY <3>1 DEF LessThan
    <3> HIDE DEF Bad
    <3> QED
      BY <2>2, <3>1, <3>2
  <2>4. \E f : FoldsUpTo(f, T, w, o, b, (n - 1) + 1)
    BY <2>3, FoldsFurther
  <2>5. (n - 1) + 1 = n
    BY <2>3
  <2> QED
    BY <2>2, <2>4, <2>5
<1>3. Cardinality(T) \in Nat
  BY FS_CardinalityType
<1>4. PICK f : FoldsUpTo(f, T, w, o, b, Cardinality(T))
  BY <1>2, <1>3
<1> DEFINE g == [s \in SUBSET T |-> f[s]]
<1>5. ASSUME NEW s \in SUBSET T
      PROVE  g[s] = IF s = {} THEN b ELSE o[<<w[Picked(s)], g[s \ {Picked(s)}]>>]
  <2>1. Cardinality(s) <= Cardinality(T)
    BY FS_Subset
  <2>2. g[s \ {Picked(s)}] = f[s \ {Picked(s)}] /\ g[s] = f[s]
    OBVIOUS
  <2> HIDE DEF g
  <2> QED
    BY <1>4, <2>1, <2>2 DEF FoldsUpTo
<1>6. g = [s \in SUBSET T |-> g[s]]
  OBVIOUS
<1> HIDE DEF g
<1>7. IsFold(g, T, w, o, b)
  BY <1>5, <1>6 DEF IsFold
<1> QED
  BY <1>7

Foldable(T, V, w, o, b) == IsFiniteSet(T) /\ (\A x \in T : w[x] \in V) /\ o \in [V \X V -> V] /\ b \in V

\* What a fold is of a subset.
LEMMA FoldStep ==
  ASSUME NEW T, NEW w, NEW o, NEW b, NEW f, IsFold(f, T, w, o, b), NEW s \in SUBSET T
  PROVE  f[s] = IF s = {} THEN b ELSE o[<<w[Picked(s)], f[s \ {Picked(s)}]>>]
  BY Zenon DEF IsFold

\* Of a subset with an element.
LEMMA FoldPick ==
  ASSUME NEW T, NEW w, NEW o, NEW b, NEW f, IsFold(f, T, w, o, b), NEW s \in SUBSET T, s # {}
  PROVE  f[s] = o[<<w[Picked(s)], f[s \ {Picked(s)}]>>]
  BY FoldStep

\* Of the empty set.
LEMMA FoldEmpty ==
  ASSUME NEW T, NEW w, NEW o, NEW b, NEW f, IsFold(f, T, w, o, b)
  PROVE  f[{}] = b
<1>1. \A s \in SUBSET T : f[s] = IF s = {} THEN b ELSE o[<<w[Picked(s)], f[s \ {Picked(s)}]>>]
  BY FoldStep
<1>2. {} \in SUBSET T
  OBVIOUS
<1> QED
  BY <1>1, <1>2, Zenon

\* A least one of the subsets of a finite set.
LEMMA LeastSubset ==
  ASSUME NEW T, IsFiniteSet(T), NEW Bad \in SUBSET (SUBSET T), Bad # {}
  PROVE  \E s \in Bad : \A x \in s : s \ {x} \notin Bad
<1>1. Bad \subseteq FiniteSubsetsOf(T)
  BY FS_FiniteSubsetsOfFinite
<1>2. PICK s \in Bad : \A r \in Bad : ~ (<<r, s>> \in StrictSubsetOrdering(T))
  BY <1>1, FS_StrictSubsetOrderingWellFounded, WFMin
<1>3. \A x \in s : <<s \ {x}, s>> \in StrictSubsetOrdering(T)
  BY DEF StrictSubsetOrdering
<1> QED
  BY <1>2, <1>3

\* Two folds of the same weights are the same.
LEMMA FoldUnique ==
  ASSUME NEW T, NEW U, NEW S \in SUBSET T, S \in SUBSET U, IsFiniteSet(S), NEW o, NEW b,
         NEW w, NEW v, \A x \in S : w[x] = v[x],
         NEW f, IsFold(f, T, w, o, b), NEW g, IsFold(g, U, v, o, b)
  PROVE  f[S] = g[S]
<1> DEFINE Bad == {s \in SUBSET S : f[s] # g[s]}
<1>1. SUFFICES ASSUME Bad # {} PROVE FALSE
  OBVIOUS
<1>2. PICK s \in Bad : \A x \in s : s \ {x} \notin Bad
  BY <1>1, LeastSubset
<1>3. s \in SUBSET T /\ s \in SUBSET U
  OBVIOUS
<1>4. CASE s = {}
  <2>1. f[{}] = b /\ g[{}] = b
    BY FoldEmpty
  <2> QED
    BY <1>4, <2>1
<1>5. CASE s # {}
  <2>1. Picked(s) \in s
    BY <1>5, PickedIn
  <2>2. f[s \ {Picked(s)}] = g[s \ {Picked(s)}] /\ w[Picked(s)] = v[Picked(s)]
    BY <1>2, <2>1
  <2>3. f[s] = o[<<w[Picked(s)], f[s \ {Picked(s)}]>>] /\ g[s] = o[<<v[Picked(s)], g[s \ {Picked(s)}]>>]
    BY <1>3, <1>5, FoldStep
  <2> QED
    BY <2>2, <2>3
<1> QED
  BY <1>4, <1>5

\* A fold stays among the values.
LEMMA FoldType ==
  ASSUME NEW T, NEW V, NEW w, NEW o, NEW b, Foldable(T, V, w, o, b), NEW f, IsFold(f, T, w, o, b),
         NEW S \in SUBSET T
  PROVE  f[S] \in V
<1> DEFINE Bad == {s \in SUBSET T : f[s] \notin V}
<1>1. SUFFICES ASSUME Bad # {} PROVE FALSE
  OBVIOUS
<1>2. PICK s \in Bad : \A x \in s : s \ {x} \notin Bad
  BY <1>1, LeastSubset DEF Foldable
<1>3. CASE s = {}
  <2>1. f[{}] = b
    BY FoldEmpty
  <2> QED
    BY <1>3, <2>1 DEF Foldable
<1>4. CASE s # {}
  <2>1. Picked(s) \in s
    BY <1>4, PickedIn
  <2>2. f[s \ {Picked(s)}] \in V /\ w[Picked(s)] \in V
    BY <1>2, <2>1 DEF Foldable
  <2>3. f[s] = o[<<w[Picked(s)], f[s \ {Picked(s)}]>>]
    BY <1>4, FoldStep
  <2> QED
    BY <2>2, <2>3 DEF Foldable
<1> QED
  BY <1>3, <1>4

\* Where any two weights may change places, any element may come last.
LEMMA FoldAny ==
  ASSUME NEW T, NEW V, NEW w, NEW o, NEW b, Foldable(T, V, w, o, b), NEW f, IsFold(f, T, w, o, b),
         \A x, y, z \in V : o[<<x, o[<<y, z>>]>>] = o[<<y, o[<<x, z>>]>>],
         NEW S \in SUBSET T, NEW e \in S
  PROVE  f[S] = o[<<w[e], f[S \ {e}]>>]
<1> DEFINE Bad == {s \in SUBSET T : \E x \in s : f[s] # o[<<w[x], f[s \ {x}]>>]}
<1>1. SUFFICES ASSUME Bad # {} PROVE FALSE
  OBVIOUS
<1>2. PICK s \in Bad : \A x \in s : s \ {x} \notin Bad
  BY <1>1, LeastSubset DEF Foldable
<1>3. PICK x \in s : f[s] # o[<<w[x], f[s \ {x}]>>]
  BY <1>2
<1>4. PICK p : p = Picked(s)
  OBVIOUS
<1>5. p \in s /\ f[s] = o[<<w[p], f[s \ {p}]>>]
  BY <1>3, <1>4, PickedIn, FoldStep
<1>6. x # p
  BY <1>3, <1>5
<1>7. f[s \ {p}] = o[<<w[x], f[(s \ {p}) \ {x}]>>] /\ f[s \ {x}] = o[<<w[p], f[(s \ {x}) \ {p}]>>]
  <2>1. s \ {p} \notin Bad /\ s \ {x} \notin Bad /\ s \ {p} \in SUBSET T /\ s \ {x} \in SUBSET T
    BY <1>2, <1>5
  <2>2. x \in s \ {p} /\ p \in s \ {x}
    BY <1>5, <1>6
  <2> QED
    BY <2>1, <2>2
<1>8. (s \ {p}) \ {x} = (s \ {x}) \ {p}
  OBVIOUS
<1>9. w[x] \in V /\ w[p] \in V /\ f[(s \ {x}) \ {p}] \in V
  <2>1. (s \ {x}) \ {p} \in SUBSET T
    OBVIOUS
  <2>2. f[(s \ {x}) \ {p}] \in V
    BY <2>1, FoldType
  <2> QED
    BY <1>5, <2>2 DEF Foldable
<1> DEFINE z == f[(s \ {x}) \ {p}]
<1>10. o[<<w[x], o[<<w[p], z>>]>>] = o[<<w[p], o[<<w[x], z>>]>>]
  BY <1>9
<1> HIDE DEF Bad
<1>11. f[s] = o[<<w[p], o[<<w[x], z>>]>>]
  BY <1>5, <1>7, <1>8
<1>12. o[<<w[x], f[s \ {x}]>>] = o[<<w[x], o[<<w[p], z>>]>>]
  BY <1>7
<1> QED
  BY <1>3, <1>10, <1>11, <1>12

---------------------------------------------------------------------------
(* The shares of the ranks.                                                *)

Add == [p \in Nat \X Nat |-> p[1] + p[2]]

Times == [p \in (Nat \ {0}) \X (Nat \ {0}) |-> p[1] * p[2]]

Identity(w, T) == w = [x \in T |-> x]

\* Factors can be multiplied.
LEMMA ProductFoldable ==
  ASSUME NEW T \in SUBSET (Nat \ {0}), IsFiniteSet(T), NEW w, Identity(w, T)
  PROVE  Foldable(T, Nat \ {0}, w, Times, 1)
<1> DEFINE V == Nat \ {0}
<1>1. \A p \in V \X V : p[1] * p[2] \in V
  OBVIOUS
<1>2. Times \in [V \X V -> V]
  BY <1>1 DEF Times
<1> QED
  BY <1>2 DEF Foldable, Identity

\* What the operation gives.
LEMMA TimesIs == ASSUME NEW a \in Nat \ {0}, NEW b \in Nat \ {0} PROVE Times[<<a, b>>] = a * b
  BY DEF Times

Multiplies(g, T) == \A s \in SUBSET T : g[s] = IF s = {} THEN 1 ELSE Picked(s) * g[s \ {Picked(s)}]

\* A fold with it multiplies.
LEMMA ProductStep ==
  ASSUME NEW T, T \subseteq Nat \ {0}, IsFiniteSet(T), NEW w, Identity(w, T),
         NEW g, IsFold(g, T, w, Times, 1)
  PROVE  Multiplies(g, T)
<1> SUFFICES ASSUME NEW s \in SUBSET T
             PROVE  g[s] = IF s = {} THEN 1 ELSE Picked(s) * g[s \ {Picked(s)}]
  BY DEF Multiplies
<1>1. CASE s = {}
  <2>1. g[{}] = 1
    BY FoldEmpty
  <2> QED
    BY <1>1, <2>1
<1>2. CASE s # {}
  <2>1. Picked(s) \in s /\ s \ {Picked(s)} \in SUBSET T
    BY <1>2, PickedIn
  <2>2. w[Picked(s)] = Picked(s) /\ Picked(s) \in Nat \ {0}
    BY <2>1 DEF Identity
  <2>3. g[s \ {Picked(s)}] \in Nat \ {0}
    BY <2>1, ProductFoldable, FoldType
  <2>4. g[s] = Times[<<w[Picked(s)], g[s \ {Picked(s)}]>>]
    BY ONLY <1>2, IsFold(g, T, w, Times, 1), FoldPick
  <2>5. Times[<<Picked(s), g[s \ {Picked(s)}]>>] = Picked(s) * g[s \ {Picked(s)}]
    BY <2>2, <2>3, TimesIs
  <2> QED
    BY <1>2, <2>2, <2>4, <2>5
<1> QED
  BY <1>1, <1>2

\* ProductSet is such a fold.
LEMMA ProductIsFold ==
  ASSUME NEW T, T \subseteq Nat \ {0}, IsFiniteSet(T)
  PROVE  \E w, f : Identity(w, T) /\ IsFold(f, T, w, Times, 1) /\ ProductSet(T) = f[T]
<1> DEFINE Rec(f) == [s \in SUBSET T |-> IF s = {} THEN 1 ELSE (CHOOSE x \in s : TRUE) * f[s \ {CHOOSE x \in s : TRUE}]]
           iter == CHOOSE f : f = Rec(f)
<1>0. PICK w : Identity(w, T)
  BY DEF Identity
<1>1. ProductSet(T) = iter[T]
  BY DEF ProductSet, FoldSet, MapThenFoldSet
<1>3. PICK g : IsFold(g, T, w, Times, 1)
  BY FoldExists
<1>4. ASSUME NEW s \in SUBSET T
      PROVE  g[s] = Rec(g)[s]
  <2>0. Multiplies(g, T)
    BY <1>0, <1>3, ProductStep
  <2>1. g[s] = IF s = {} THEN 1 ELSE Picked(s) * g[s \ {Picked(s)}]
    BY <1>4, <2>0 DEF Multiplies
  <2> QED
    BY <2>1 DEF Picked
<1>5. g = Rec(g)
  <2>1. g = [s \in SUBSET T |-> g[s]]
    BY <1>3 DEF IsFold
  <2> QED
    BY <1>4, <2>1
<1>6. iter = Rec(iter)
  BY <1>5
<1>7. ASSUME NEW s \in SUBSET T
      PROVE  /\ iter[s] = IF s = {} THEN 1 ELSE Picked(s) * iter[s \ {Picked(s)}]
             /\ g[s] = IF s = {} THEN 1 ELSE Picked(s) * g[s \ {Picked(s)}]
  <2>1. iter[s] = Rec(iter)[s] /\ g[s] = Rec(g)[s]
    BY <1>5, <1>6
  <2> HIDE DEF iter
  <2> QED
    BY <2>1 DEF Picked
<1> HIDE DEF iter
<1>8. iter[T] = g[T]
  <2> DEFINE Bad == {s \in SUBSET T : iter[s] # g[s]}
  <2>1. SUFFICES ASSUME Bad # {} PROVE FALSE
    OBVIOUS
  <2>2. PICK s \in Bad : \A x \in s : s \ {x} \notin Bad
    BY <2>1, LeastSubset
  <2>3. s # {} => iter[s \ {Picked(s)}] = g[s \ {Picked(s)}]
    BY <2>2, PickedIn
  <2> QED
    BY <1>7, <2>2, <2>3
<1> QED
  BY <1>0, <1>1, <1>3, <1>8

\* Two factors may change places.
LEMMA TimesCommute ==
  \A a, b, c \in Nat \ {0} : Times[<<a, Times[<<b, c>>]>>] = Times[<<b, Times[<<a, c>>]>>]
<1>1. SUFFICES ASSUME NEW a \in Nat \ {0}, NEW b \in Nat \ {0}, NEW c \in Nat \ {0}
               PROVE  Times[<<a, Times[<<b, c>>]>>] = Times[<<b, Times[<<a, c>>]>>]
  OBVIOUS
<1>2. b * c \in Nat \ {0} /\ a * c \in Nat \ {0}
  OBVIOUS
<1>3. Times[<<b, c>>] = b * c /\ Times[<<a, c>>] = a * c
  BY TimesIs
<1>4. Times[<<a, b * c>>] = a * (b * c) /\ Times[<<b, a * c>>] = b * (a * c)
  BY <1>2, TimesIs
<1>5. a * (b * c) = b * (a * c)
  OBVIOUS
<1> QED
  BY <1>3, <1>4, <1>5

\* The product of two of the factors, and of the others.
LEMMA ProductOfTwo ==
  ASSUME NEW T, T \subseteq Nat \ {0}, IsFiniteSet(T), NEW x \in T, NEW y \in T, x # y
  PROVE  \E m \in Nat \ {0} : ProductSet(T) = x * (y * m)
<1>2. PICK w, f : Identity(w, T) /\ IsFold(f, T, w, Times, 1) /\ ProductSet(T) = f[T]
  BY ProductIsFold
<1>3. Foldable(T, Nat \ {0}, w, Times, 1)
  BY <1>2, ProductFoldable
<1>5. f[T] = Times[<<w[x], f[T \ {x}]>>]
  BY ONLY <1>2, <1>3, TimesCommute, x \in T, FoldAny
<1>6. f[T \ {x}] = Times[<<w[y], f[(T \ {x}) \ {y}]>>]
  <2>1. y \in T \ {x} /\ T \ {x} \in SUBSET T
    OBVIOUS
  <2> QED
    BY ONLY <1>2, <1>3, TimesCommute, <2>1, FoldAny
<1>7. f[(T \ {x}) \ {y}] \in Nat \ {0}
  <2>1. (T \ {x}) \ {y} \in SUBSET T
    OBVIOUS
  <2> QED
    BY ONLY <1>2, <1>3, <2>1, FoldType
<1> DEFINE m == f[(T \ {x}) \ {y}]
<1>8. w[x] = x /\ w[y] = y /\ x \in Nat \ {0} /\ y \in Nat \ {0}
  BY <1>2 DEF Identity
<1>9. f[T \ {x}] = y * m /\ y * m \in Nat \ {0}
  BY <1>6, <1>7, <1>8, TimesIs
<1>10. f[T] = x * (y * m)
  BY <1>5, <1>8, <1>9, TimesIs
<1> QED
  BY <1>2, <1>7, <1>10

\* The product of one of the factors, and of the others.
LEMMA ProductOfOne ==
  ASSUME NEW T, T \subseteq Nat \ {0}, IsFiniteSet(T), NEW x \in T
  PROVE  \E m \in Nat \ {0} : ProductSet(T) = x * m
<1>2. PICK w, f : Identity(w, T) /\ IsFold(f, T, w, Times, 1) /\ ProductSet(T) = f[T]
  BY ProductIsFold
<1>3. Foldable(T, Nat \ {0}, w, Times, 1)
  BY <1>2, ProductFoldable
<1>4. f[T] = Times[<<w[x], f[T \ {x}]>>]
  BY ONLY <1>2, <1>3, TimesCommute, x \in T, FoldAny
<1>5. f[T \ {x}] \in Nat \ {0}
  <2>1. T \ {x} \in SUBSET T
    OBVIOUS
  <2> QED
    BY ONLY <1>2, <1>3, <2>1, FoldType
<1>6. w[x] = x /\ x \in Nat \ {0}
  BY <1>2 DEF Identity
<1>7. f[T] = x * f[T \ {x}]
  BY <1>4, <1>5, <1>6, TimesIs
<1> QED
  BY <1>2, <1>5, <1>7

\* A product is divided by a factor of it.
LEMMA DivOfProduct ==
  ASSUME NEW a \in Nat \ {0}, NEW q \in Nat \ {0}
  PROVE  (a * q) \div a = q
  OBVIOUS

\* The factors of the unit.
LEMMA Ranks == {K + r : r \in 1 .. MaxLen} \subseteq Nat \ {0} /\ IsFiniteSet({K + r : r \in 1 .. MaxLen})
<1>1. MaxLen \in Nat
  BY ConstantsAssumption
<1>2. {K + r : r \in 1 .. MaxLen} = (K + 1) .. (K + MaxLen)
  BY <1>1 DEF K
<1>3. IsFiniteSet((K + 1) .. (K + MaxLen))
  BY <1>1, FS_Interval DEF K
<1>4. IsFiniteSet({K + r : r \in 1 .. MaxLen})
  BY ONLY <1>2, <1>3, Zenon
<1>5. {K + r : r \in 1 .. MaxLen} \subseteq Nat \ {0}
  BY <1>1 DEF K
<1> QED
  BY <1>4, <1>5

\* A share is never zero.
LEMMA ShareType == ASSUME NEW r \in 1 .. MaxLen PROVE Share(r) \in Nat \ {0}
<1>1. K + r \in {K + q : q \in 1 .. MaxLen} /\ K + r \in Nat \ {0}
  BY ConstantsAssumption DEF K
<1>2. PICK m \in Nat \ {0} : Unit = (K + r) * m
  BY <1>1, Ranks, ProductOfOne DEF Unit
<1>3. ((K + r) * m) \div (K + r) = m
  BY <1>1, DivOfProduct
<1> QED
  BY <1>2, <1>3 DEF Share

\* A better rank has the larger share.
LEMMA ShareFalls ==
  ASSUME NEW i \in 1 .. MaxLen, NEW j \in 1 .. MaxLen, i < j
  PROVE  Share(j) < Share(i)
<1>1. /\ K + i \in {K + q : q \in 1 .. MaxLen} /\ K + i \in Nat \ {0}
      /\ K + j \in {K + q : q \in 1 .. MaxLen} /\ K + j \in Nat \ {0} /\ K + i < K + j
  BY ConstantsAssumption DEF K
<1>2. PICK m \in Nat \ {0} : Unit = (K + i) * ((K + j) * m)
  <2>1. PICK T : T = {K + q : q \in 1 .. MaxLen}
    OBVIOUS
  <2>2. T \subseteq Nat \ {0} /\ IsFiniteSet(T) /\ K + i \in T /\ K + j \in T /\ Unit = ProductSet(T)
    BY <1>1, <2>1, Ranks DEF Unit
  <2>3. K + i # K + j
    BY <1>1
  <2>4. PICK x, y : x = K + i /\ y = K + j
    OBVIOUS
  <2>5. T \subseteq Nat \ {0} /\ IsFiniteSet(T) /\ x \in T /\ y \in T /\ x # y /\ Unit = ProductSet(T)
    BY <2>2, <2>3, <2>4
  <2>6. \E m \in Nat \ {0} : ProductSet(T) = x * (y * m)
    BY ONLY <2>5, ProductOfTwo
  <2> QED
    BY <2>4, <2>5, <2>6
<1>3. Unit = (K + j) * ((K + i) * m)
  <2>1. \A a, b, c \in Nat : a * (b * c) = b * (a * c)
    OBVIOUS
  <2> QED
    BY <1>1, <1>2, <2>1
<1>4. (K + i) * m \in Nat \ {0} /\ (K + j) * m \in Nat \ {0}
  BY <1>1
<1>5. Share(i) = (K + j) * m /\ Share(j) = (K + i) * m
  BY <1>1, <1>2, <1>3, <1>4, DivOfProduct DEF Share
<1>6. (K + i) * m < (K + j) * m
  BY <1>1
<1> QED
  BY <1>5, <1>6

Place == Nat \X (1 .. MaxLen)

SumOf(S) == MapThenSumSet(LAMBDA lr : Share(lr[2]), S)

Weights(w, S) == \A x \in S : w[x] = Share(x[2])

Sums(f, S) == \A s \in SUBSET S : f[s] = IF s = {} THEN 0 ELSE Share(Picked(s)[2]) + f[s \ {Picked(s)}]

\* What the operation gives.
LEMMA AddIs == ASSUME NEW a \in Nat, NEW b \in Nat PROVE Add[<<a, b>>] = a + b
  BY DEF Add

\* Two summands may change places.
LEMMA AddCommutes == \A a, b, c \in Nat : Add[<<a, Add[<<b, c>>]>>] = Add[<<b, Add[<<a, c>>]>>]
<1>1. SUFFICES ASSUME NEW a \in Nat, NEW b \in Nat, NEW c \in Nat
               PROVE  Add[<<a, Add[<<b, c>>]>>] = Add[<<b, Add[<<a, c>>]>>]
  OBVIOUS
<1>2. Add[<<b, c>>] = b + c /\ Add[<<a, c>>] = a + c
  BY AddIs
<1>3. Add[<<a, b + c>>] = a + (b + c) /\ Add[<<b, a + c>>] = b + (a + c)
  BY AddIs
<1> QED
  BY <1>2, <1>3

\* Shares can be added.
LEMMA SharesFoldable ==
  ASSUME NEW S, S \subseteq Place, IsFiniteSet(S), NEW w, Weights(w, S)
  PROVE  Foldable(S, Nat, w, Add, 0)
<1>1. ASSUME NEW x \in S PROVE w[x] \in Nat
  <2>1. x[2] \in 1 .. MaxLen
    BY DEF Place
  <2> QED
    BY <1>1, <2>1, ShareType DEF Weights
<1>2. Add \in [Nat \X Nat -> Nat]
  BY DEF Add
<1> QED
  BY <1>1, <1>2 DEF Foldable

\* A fold with it adds.
LEMMA SumStep ==
  ASSUME NEW S, S \subseteq Place, IsFiniteSet(S), NEW w, Weights(w, S), NEW f, IsFold(f, S, w, Add, 0)
  PROVE  Sums(f, S)
<1> SUFFICES ASSUME NEW s \in SUBSET S
             PROVE  f[s] = IF s = {} THEN 0 ELSE Share(Picked(s)[2]) + f[s \ {Picked(s)}]
  BY DEF Sums
<1>1. CASE s = {}
  <2>1. f[{}] = 0
    BY FoldEmpty
  <2> QED
    BY <1>1, <2>1
<1>2. CASE s # {}
  <2>1. Picked(s) \in s /\ s \ {Picked(s)} \in SUBSET S
    BY <1>2, PickedIn
  <2>2. Foldable(S, Nat, w, Add, 0)
    BY SharesFoldable
  <2>3. w[Picked(s)] = Share(Picked(s)[2]) /\ w[Picked(s)] \in Nat
    BY <2>1, <2>2 DEF Weights, Foldable
  <2>4. f[s \ {Picked(s)}] \in Nat
    BY <2>1, <2>2, FoldType
  <2>5. f[s] = Add[<<w[Picked(s)], f[s \ {Picked(s)}]>>]
    BY ONLY <1>2, IsFold(f, S, w, Add, 0), FoldPick
  <2> QED
    BY <1>2, <2>3, <2>4, <2>5, AddIs
<1> QED
  BY <1>1, <1>2

\* A sum of shares is any such fold.
LEMMA SumIsFold ==
  ASSUME NEW S, S \subseteq Place, IsFiniteSet(S), NEW w, Weights(w, S), NEW f, IsFold(f, S, w, Add, 0)
  PROVE  SumOf(S) = f[S]
<1> DEFINE Rec(h) == [s \in SUBSET S |-> IF s = {} THEN 0
                                         ELSE Share((CHOOSE x \in s : TRUE)[2]) + h[s \ {CHOOSE x \in s : TRUE}]]
           iter == CHOOSE h : h = Rec(h)
<1>1. SumOf(S) = iter[S]
  BY DEF SumOf, MapThenSumSet, MapThenFoldSet
<1>2. Sums(f, S)
  BY SumStep
<1>3. ASSUME NEW s \in SUBSET S
      PROVE  f[s] = Rec(f)[s]
  BY <1>2 DEF Sums, Picked
<1>4. f = Rec(f)
  <2>1. f = [s \in SUBSET S |-> f[s]]
    BY DEF IsFold
  <2> QED
    BY <1>3, <2>1
<1>5. iter = Rec(iter)
  BY <1>4
<1>6. Sums(iter, S)
  <2>1. ASSUME NEW s \in SUBSET S PROVE iter[s] = Rec(iter)[s]
    BY <1>5
  <2> HIDE DEF iter
  <2> QED
    BY <2>1 DEF Sums, Picked
<1> HIDE DEF iter
<1>7. iter[S] = f[S]
  <2> DEFINE Bad == {s \in SUBSET S : iter[s] # f[s]}
  <2>1. SUFFICES ASSUME Bad # {} PROVE FALSE
    OBVIOUS
  <2>2. PICK s \in Bad : \A x \in s : s \ {x} \notin Bad
    BY <2>1, LeastSubset
  <2>3. s # {} => iter[s \ {Picked(s)}] = f[s \ {Picked(s)}]
    BY <2>2, PickedIn
  <2> QED
    BY <1>2, <1>6, <2>2, <2>3 DEF Sums
<1> QED
  BY <1>1, <1>7

\* There is one.
LEMMA SumFold ==
  ASSUME NEW S, S \subseteq Place, IsFiniteSet(S)
  PROVE  \E w, f : Weights(w, S) /\ IsFold(f, S, w, Add, 0) /\ SumOf(S) = f[S]
<1> DEFINE w == [x \in S |-> Share(x[2])]
<1>1. Weights(w, S)
  BY DEF Weights
<1> HIDE DEF w
<1>2. PICK f : IsFold(f, S, w, Add, 0)
  BY FoldExists
<1> QED
  BY <1>1, <1>2, SumIsFold

\* The sum of the shares of no place.
LEMMA SumOfNone == SumOf({}) = 0
<1>1. {} \subseteq Place /\ IsFiniteSet({})
  BY FS_EmptySet
<1>2. PICK w, f : Weights(w, {}) /\ IsFold(f, {}, w, Add, 0) /\ SumOf({}) = f[{}]
  BY <1>1, SumFold
<1> QED
  BY <1>2, FoldEmpty

\* A sum of shares is a number.
LEMMA SumType ==
  ASSUME NEW S, S \subseteq Place, IsFiniteSet(S)
  PROVE  SumOf(S) \in Nat
<1>1. PICK w, f : Weights(w, S) /\ IsFold(f, S, w, Add, 0) /\ SumOf(S) = f[S]
  BY SumFold
<1>2. Foldable(S, Nat, w, Add, 0)
  BY <1>1, SharesFoldable
<1> QED
  BY <1>1, <1>2, FoldType

\* The sum of the shares of one place more.
LEMMA SumOfOneMore ==
  ASSUME NEW S, S \subseteq Place, IsFiniteSet(S), NEW e \in Place, e \notin S
  PROVE  SumOf(S \cup {e}) = SumOf(S) + Share(e[2])
<1>1. PICK T : T = S \cup {e}
  OBVIOUS
<1>2. T \subseteq Place /\ IsFiniteSet(T) /\ e \in T /\ T \ {e} = S
  BY <1>1, FS_AddElement
<1>3. PICK w, f : Weights(w, T) /\ IsFold(f, T, w, Add, 0) /\ SumOf(T) = f[T]
  BY <1>2, SumFold
<1>4. PICK v, g : Weights(v, S) /\ IsFold(g, S, v, Add, 0) /\ SumOf(S) = g[S]
  BY SumFold
<1>5. Foldable(T, Nat, w, Add, 0)
  BY <1>2, <1>3, SharesFoldable
<1>6. f[T] = Add[<<w[e], f[T \ {e}]>>]
  <2>1. T \in SUBSET T /\ e \in T
    BY <1>2
  <2>2. IsFold(f, T, w, Add, 0)
    BY <1>3
  <2> QED
    BY ONLY <1>5, <2>1, <2>2, AddCommutes, FoldAny
<1>7. f[S] = g[S]
  <2>1. \A x \in S : w[x] = v[x]
    BY <1>1, <1>3, <1>4 DEF Weights
  <2>2. S \in SUBSET T /\ S \in SUBSET S
    BY <1>1
  <2> QED
    BY ONLY <1>3, <1>4, <2>1, <2>2, IsFiniteSet(S), FoldUnique
<1>8. w[e] = Share(e[2]) /\ w[e] \in Nat
  BY <1>2, <1>3, <1>5 DEF Weights, Foldable
<1>9. SumOf(S) \in Nat
  BY SumType
<1>10. f[T] = w[e] + g[S]
  BY <1>2, <1>4, <1>6, <1>7, <1>8, <1>9, AddIs
<1> QED
  BY <1>1, <1>3, <1>4, <1>8, <1>9, <1>10

---------------------------------------------------------------------------
(* The lists and the scores.                                               *)

TypeInv ==
  /\ itemsList \in [1 .. NumLists -> Lists]
  /\ size \in 0 .. MaxSize
  /\ list \in 1 .. NumLists + 1
  /\ rank \in Nat \ {0}
  /\ list <= NumLists => rank <= Len(itemsList[list]) + 1
  /\ list > NumLists => rank = 1
  /\ score \in [Item -> Nat]
  /\ done \in BOOLEAN
  /\ done => list > NumLists

\* A list is a sequence of distinct articles.
LEMMA ListFacts ==
  ASSUME NEW s \in Lists
  PROVE  /\ s \in Seq(Item) /\ Len(s) \in 0 .. MaxLen /\ DOMAIN s = 1 .. Len(s)
         /\ \A i, j \in 1 .. Len(s) : s[i] = s[j] => i = j
         /\ \A i \in 1 .. Len(s) : s[i] \in Item
<1>1. PICK n \in 0 .. MaxLen : s \in [1 .. n -> Item] /\ \A i, j \in 1 .. n : s[i] = s[j] => i = j
  BY DEF Lists
<1>2. n \in Nat /\ s \in Seq(Item) /\ Len(s) = n
  BY <1>1, ConstantsAssumption
<1> QED
  BY <1>1, <1>2

\* The places of x in the lists.
Places(x) == UNION {{<<l, r>> : r \in RankIn(l, x)} : l \in 1 .. NumLists}

\* The places are finitely many, and hold the article.
LEMMA ThePlaces ==
  ASSUME TypeInv, NEW x
  PROVE  /\ Places(x) \subseteq Place /\ IsFiniteSet(Places(x))
         /\ \A p : p \in Places(x) <=>
              \E l \in 1 .. NumLists : \E r \in 1 .. Len(itemsList[l]) : p = <<l, r>> /\ itemsList[l][r] = x
<1>1. NumLists \in Nat /\ MaxLen \in Nat
  BY ConstantsAssumption
<1>2. \A l \in 1 .. NumLists : DOMAIN itemsList[l] = 1 .. Len(itemsList[l]) /\ Len(itemsList[l]) \in 0 .. MaxLen
  BY ListFacts DEF TypeInv
<1>3. \A l \in 1 .. NumLists : RankIn(l, x) = {r \in 1 .. Len(itemsList[l]) : itemsList[l][r] = x}
  BY <1>2 DEF RankIn
<1>4. ASSUME NEW p
      PROVE  p \in Places(x) <=>
              \E l \in 1 .. NumLists : \E r \in 1 .. Len(itemsList[l]) : p = <<l, r>> /\ itemsList[l][r] = x
  BY <1>3 DEF Places
<1>5. Places(x) \subseteq (1 .. NumLists) \X (1 .. MaxLen)
  <2>1. SUFFICES ASSUME NEW p \in Places(x) PROVE p \in (1 .. NumLists) \X (1 .. MaxLen)
    OBVIOUS
  <2>2. PICK l \in 1 .. NumLists : \E r \in 1 .. Len(itemsList[l]) : p = <<l, r>>
    BY <1>4
  <2>3. PICK r \in 1 .. Len(itemsList[l]) : p = <<l, r>>
    BY <2>2
  <2>4. r \in 1 .. MaxLen
    BY <1>1, <1>2
  <2> QED
    BY <2>3, <2>4
<1>6. IsFiniteSet((1 .. NumLists) \X (1 .. MaxLen))
  <2>1. IsFiniteSet(1 .. NumLists) /\ IsFiniteSet(1 .. MaxLen)
    BY <1>1, FS_Interval
  <2> QED
    BY <2>1, FS_Product
<1>7. IsFiniteSet(Places(x))
  BY <1>5, <1>6, FS_Subset
<1>8. Places(x) \subseteq Place
  BY <1>1, <1>5 DEF Place
<1> QED
  BY <1>4, <1>7, <1>8

\* The places looked at so far.
Looked == {p \in Nat \X Nat : p[1] < list \/ (p[1] = list /\ p[2] < rank)}

\* A score is the sum over the places of the article looked at.
ScoreInv == \A x \in Item : score[x] = SumOf(Places(x) \cap Looked)

\* The types hold at the start.
LEMMA TypeInit == Init => TypeInv
<1> SUFFICES ASSUME Init PROVE TypeInv
  OBVIOUS
<1>1. NumLists \in Nat \ {0}
  BY ConstantsAssumption
<1>2. Len(itemsList[1]) \in Nat
  BY <1>1, ListFacts DEF Init
<1> QED
  <2>1. itemsList \in [1 .. NumLists -> Lists] /\ size \in 0 .. MaxSize
    BY DEF Init
  <2>2. list = 1 /\ rank = 1 /\ list \in 1 .. NumLists + 1 /\ ~ (list > NumLists)
    BY <1>1 DEF Init
  <2>3. rank <= Len(itemsList[list]) + 1
    BY <1>2, <2>2
  <2>4. score \in [Item -> Nat]
    BY DEF Init
  <2>5. done \in BOOLEAN /\ ~done
    BY DEF Init
  <2>6. rank \in Nat \ {0}
    BY <2>2
  <2> QED
    BY <2>1, <2>2, <2>3, <2>4, <2>5, <2>6 DEF TypeInv

\* Every step keeps the types.
LEMMA TypeStep == TypeInv /\ [Next]_vars => TypeInv'
<1> SUFFICES ASSUME TypeInv, [Next]_vars PROVE TypeInv'
  OBVIOUS
<1>1. NumLists \in Nat \ {0}
  BY ConstantsAssumption
<1>2. \A l \in 1 .. NumLists : Len(itemsList[l]) \in 0 .. MaxLen
  BY ListFacts DEF TypeInv
<1>3. CASE NextList
  <2>1. list + 1 \in 1 .. NumLists + 1
    BY <1>1, <1>3 DEF NextList, TypeInv
  <2>2. list + 1 <= NumLists => Len(itemsList[list + 1]) \in Nat
    BY <1>1, <1>2, <2>1
  <2> QED
    BY <1>1, <1>3, <2>1, <2>2 DEF NextList, TypeInv
<1>4. CASE NextCandidate
  <2>1. list \in 1 .. NumLists /\ rank \in 1 .. Len(itemsList[list]) /\ rank \in 1 .. MaxLen
    <3>1. list \in 1 .. NumLists
      BY <1>1, <1>4 DEF NextCandidate, TypeInv
    <3>2. Len(itemsList[list]) \in 0 .. MaxLen
      BY <1>2, <3>1
    <3>3. rank <= Len(itemsList[list]) /\ rank \in Nat \ {0} /\ MaxLen \in Nat
      BY <1>4, ConstantsAssumption DEF NextCandidate, TypeInv
    <3> QED
      BY <3>1, <3>2, <3>3
  <2>2. itemsList[list][rank] \in Item
    BY <2>1, ListFacts DEF TypeInv
  <2>3. Share(rank) \in Nat
    BY <2>1, ShareType
  <2>4. score' \in [Item -> Nat]
    BY <1>4, <2>2, <2>3 DEF NextCandidate, TypeInv
  <2>5. rank + 1 <= Len(itemsList[list]) + 1 /\ rank + 1 \in Nat \ {0} /\ ~ (list > NumLists)
    BY <1>1, <1>2, <2>1
  <2> QED
    BY <1>4, <2>1, <2>4, <2>5 DEF NextCandidate, TypeInv
<1>5. CASE SortAndCut
  BY <1>5 DEF SortAndCut, TypeInv
<1>6. CASE UNCHANGED vars
  BY <1>6 DEF vars, TypeInv
<1> QED
  BY <1>3, <1>4, <1>5, <1>6 DEF Next

\* At the start nothing has been looked at.
LEMMA ScoreInit == Init => ScoreInv
<1> SUFFICES ASSUME Init, NEW x \in Item PROVE score[x] = SumOf(Places(x) \cap Looked)
  BY DEF ScoreInv
<1>1. TypeInv
  BY TypeInit
<1>2. ASSUME NEW p \in Places(x) PROVE p \notin Looked
  <2>1. p \in Place /\ p[1] \in 1 .. NumLists
    BY <1>1, ThePlaces
  <2> QED
    BY <2>1 DEF Looked, Init, Place
<1>3. Places(x) \cap Looked = {}
  BY <1>2
<1> QED
  BY <1>3, SumOfNone DEF Init

\* A candidate adds its place to those looked at, and its share to its score.
LEMMA ScoreStep == TypeInv /\ ScoreInv /\ [Next]_vars => ScoreInv'
<1> SUFFICES ASSUME TypeInv, ScoreInv, [Next]_vars, NEW x \in Item
             PROVE  score'[x] = SumOf(Places(x)' \cap Looked')
  BY DEF ScoreInv
<1>1. NumLists \in Nat \ {0} /\ MaxLen \in Nat
  BY ConstantsAssumption
<1>2. itemsList' = itemsList
  BY DEF Next, NextList, NextCandidate, SortAndCut, vars
<1>3. Places(x)' = Places(x)
  BY <1>2 DEF Places, RankIn
<1>4. \A l \in 1 .. NumLists : Len(itemsList[l]) \in 0 .. MaxLen
  BY ListFacts DEF TypeInv
<1>5. CASE NextList
  <2>1. ASSUME NEW p \in Places(x) PROVE p \in Looked' <=> p \in Looked
    <3>0. PICK l \in 1 .. NumLists : \E r \in 1 .. Len(itemsList[l]) : p = <<l, r>>
      BY ThePlaces
    <3>1. PICK r \in 1 .. Len(itemsList[l]) : p = <<l, r>>
      BY <3>0
    <3>2. l \in Nat /\ r \in Nat \ {0} /\ list \in Nat /\ rank \in Nat
      BY <1>1, <1>4 DEF TypeInv
    <3>3. l = list => r < rank
      BY <1>4, <1>5, <3>1, <3>2 DEF NextList
    <3>4. list' = list + 1 /\ rank' = 1
      BY <1>5 DEF NextList
    <3> QED
      BY <3>1, <3>2, <3>3, <3>4 DEF Looked
  <2>2. Places(x) \cap Looked' = Places(x) \cap Looked
    BY <2>1
  <2> QED
    BY <1>3, <1>5, <2>2 DEF NextList, ScoreInv
<1>6. CASE NextCandidate
  <2>1. list \in 1 .. NumLists /\ rank \in 1 .. Len(itemsList[list]) /\ rank \in 1 .. MaxLen
    BY <1>1, <1>4, <1>6 DEF NextCandidate, TypeInv
  <2> DEFINE e == <<list, rank>>
  <2>2. \A p : p \in Looked' <=> p \in Looked \/ p = e
    BY <1>1, <1>6, <2>1 DEF NextCandidate, Looked
  <2>3. e \notin Looked
    BY <2>1 DEF Looked
  <2>4. CASE x = itemsList[list][rank]
    <3>1. e \in Places(x)
      BY <2>1, <2>4, ThePlaces
    <3>2. Places(x) \cap Looked' = (Places(x) \cap Looked) \cup {e}
      BY <2>2, <3>1
    <3>3. PICK S : S = Places(x) \cap Looked
      OBVIOUS
    <3>4. S \subseteq Place /\ IsFiniteSet(S) /\ e \in Place /\ e \notin S
      <4>1. Places(x) \subseteq Place /\ IsFiniteSet(Places(x))
        BY ThePlaces
      <4> QED
        BY <2>3, <3>1, <3>3, <4>1, FS_Subset
    <3>5. SumOf(S \cup {e}) = SumOf(S) + Share(e[2])
      BY ONLY <3>4, SumOfOneMore
    <3>6. score'[x] = score[x] + Share(rank)
      BY <1>6, <2>4 DEF NextCandidate, TypeInv
    <3>7. score[x] = SumOf(S)
      BY <3>3 DEF ScoreInv
    <3> QED
      BY <1>3, <3>2, <3>3, <3>5, <3>6, <3>7
  <2>5. CASE x # itemsList[list][rank]
    <3>1. e \notin Places(x)
      BY <2>5, ThePlaces
    <3>2. Places(x) \cap Looked' = Places(x) \cap Looked
      BY <2>2, <3>1
    <3>3. score'[x] = score[x]
      BY <1>6, <2>5 DEF NextCandidate, TypeInv
    <3> QED
      BY <1>3, <3>2, <3>3 DEF ScoreInv
  <2> QED
    BY <2>4, <2>5
<1>7. CASE SortAndCut
  <2>1. Looked' = Looked /\ score' = score
    BY <1>7 DEF SortAndCut, Looked
  <2> QED
    BY <1>3, <2>1 DEF ScoreInv
<1>8. CASE UNCHANGED vars
  <2>1. Looked' = Looked /\ score' = score
    BY <1>8 DEF vars, Looked
  <2> QED
    BY <1>3, <2>1 DEF ScoreInv
<1> QED
  BY <1>5, <1>6, <1>7, <1>8 DEF Next

---------------------------------------------------------------------------
(* The result.                                                             *)

\* The result is a prefix of an order that the stable sort may leave.
DoneInv == done => \E s \in SortedSlices : result = SubSeq(s, 1, Min({size, Len(s)}))

\* The result is set once, from scores that are final.
LEMMA DoneStep == TypeInv /\ DoneInv /\ [Next]_vars => DoneInv'
<1> SUFFICES ASSUME TypeInv, DoneInv, [Next]_vars PROVE DoneInv'
  OBVIOUS
<1>1. CASE NextList
  <2>1. ~done'
    BY <1>1, ConstantsAssumption DEF NextList, TypeInv
  <2> QED
    BY <2>1 DEF DoneInv
<1>2. CASE NextCandidate
  <2>1. ~done'
    BY <1>2, ConstantsAssumption DEF NextCandidate, TypeInv
  <2> QED
    BY <2>1 DEF DoneInv
<1>3. CASE SortAndCut
  <2>1. SortedSlices' = SortedSlices /\ size' = size
    BY <1>3 DEF SortAndCut, SortedSlices, Found
  <2>2. \E s \in SortedSlices : result' = SubSeq(s, 1, Min({size, Len(s)}))
    BY <1>3 DEF SortAndCut
  <2> QED
    BY <2>1, <2>2 DEF DoneInv
<1>4. CASE UNCHANGED vars
  <2>1. SortedSlices' = SortedSlices /\ size' = size /\ result' = result /\ done' = done
    BY <1>4 DEF vars, SortedSlices, Found
  <2> QED
    BY <2>1 DEF DoneInv
<1> QED
  BY <1>1, <1>2, <1>3, <1>4 DEF Next

\* The smaller one of two numbers.
LEMMA MinOfTwo ==
  ASSUME NEW a \in Nat, NEW b \in Nat
  PROVE  Min({a, b}) = IF a <= b THEN a ELSE b
<1>1. \E x \in {a, b} : \A y \in {a, b} : x <= y
  OBVIOUS
<1>2. PICK m : m = Min({a, b}) /\ m \in {a, b} /\ \A y \in {a, b} : m <= y
  BY <1>1 DEF Min
<1> QED
  BY <1>2

\* The prefix of a sequence.
LEMMA PrefixOf ==
  ASSUME NEW T, NEW s \in Seq(T), NEW m \in 0 .. Len(s), NEW r, r = SubSeq(s, 1, m)
  PROVE  Len(r) = m /\ DOMAIN r = 1 .. m /\ \A i \in 1 .. m : r[i] = s[i]
<1>1. 1 \in 1 .. Len(s) + 1 /\ m \in 1 - 1 .. Len(s) /\ m - 1 + 1 = m
  OBVIOUS
<1>2. /\ SubSeq(s, 1, m) \in Seq(T)
      /\ Len(SubSeq(s, 1, m)) = IF 1 <= m THEN m - 1 + 1 ELSE 0
      /\ \A i \in 1 .. m - 1 + 1 : SubSeq(s, 1, m)[i] = s[1 + i - 1]
  BY <1>1, SubSeqProperties
<1>3. Len(r) = m /\ r \in Seq(T)
  BY <1>1, <1>2
<1>4. \A i \in 1 .. m : r[i] = s[i]
  BY <1>1, <1>2
<1> QED
  BY <1>3, <1>4

\* The result is the first m of the n articles found, which s puts in order.
IsResult(s, n, m) ==
  /\ n \in Nat /\ n = Cardinality(Found) /\ m = Min({size, n}) /\ m \in 0 .. n
  /\ s \in [1 .. n -> Found]
  /\ \A x \in Found : \E i \in 1 .. n : s[i] = x
  /\ \A i, j \in 1 .. n : i < j => score[s[i]] >= score[s[j]]
  /\ \A i, j \in 1 .. n : s[i] = s[j] => i = j
  /\ Len(result) = m /\ DOMAIN result = 1 .. m /\ \A i \in 1 .. m : result[i] = s[i]

\* The positions of the result are positions of the order.
LEMMA ResultFacts ==
  ASSUME NEW s, NEW n, NEW m, IsResult(s, n, m)
  PROVE  /\ m \in Nat /\ n \in Nat /\ m <= n /\ Len(result) = m /\ DOMAIN result = 1 .. m
         /\ \A i \in 1 .. m : result[i] = s[i] /\ i \in 1 .. n
         /\ \A i \in 1 .. n : s[i] \in Found
<1>1. n \in Nat /\ m \in 0 .. n
  BY DEF IsResult
<1>2. m \in Nat /\ n \in Nat /\ m <= n /\ \A i \in 1 .. m : i \in 1 .. n
  BY <1>1
<1>3. s \in [1 .. n -> Found]
  BY DEF IsResult
<1>4. Len(result) = m /\ DOMAIN result = 1 .. m
  BY DEF IsResult
<1>5. \A i \in 1 .. m : result[i] = s[i]
  BY DEF IsResult
<1> QED
  BY <1>2, <1>3, <1>4, <1>5

\* The order names every article found once.
LEMMA TheResult ==
  ASSUME TypeInv, DoneInv, done, IsFiniteSet(Found)
  PROVE  \E s, n, m : IsResult(s, n, m)
<1>1. PICK n : n = Cardinality(Found) /\ n \in Nat
  BY FS_CardinalityType
<1>2. PICK s : s \in SortedSlices /\ result = SubSeq(s, 1, Min({size, Len(s)}))
  BY DEF DoneInv
<1>3. /\ s \in [1 .. n -> Found]
      /\ \A x \in Found : \E i \in 1 .. n : s[i] = x
      /\ \A i, j \in 1 .. n : i < j => score[s[i]] >= score[s[j]]
  BY <1>1, <1>2 DEF SortedSlices
<1>4. s \in Seq(Found) /\ Len(s) = n
  BY <1>1, <1>3
<1>5. size \in Nat
  BY ConstantsAssumption DEF TypeInv
<1>6. PICK m : m = Min({size, n}) /\ m \in 0 .. n
  BY <1>1, <1>5, MinOfTwo
<1>7. result = SubSeq(s, 1, m)
  BY <1>2, <1>4, <1>6
<1>8. Len(result) = m /\ DOMAIN result = 1 .. m /\ \A i \in 1 .. m : result[i] = s[i]
  <2>1. m \in 0 .. Len(s)
    BY <1>4, <1>6
  <2> QED
    BY ONLY <1>4, <2>1, <1>7, PrefixOf
<1>9. \A i, j \in 1 .. n : s[i] = s[j] => i = j
  <2>1. IsFiniteSet(1 .. n) /\ Cardinality(1 .. n) = Cardinality(Found)
    BY <1>1, FS_Interval
  <2>2. s \in Surjection(1 .. n, Found)
    BY <1>3 DEF Surjection
  <2>3. s \in Injection(1 .. n, Found)
    BY <2>1, <2>2, FS_SurjSameCardinalityImpliesInj
  <2> QED
    BY <2>3 DEF Injection, IsInjective
<1>10. IsResult(s, n, m)
  BY <1>1, <1>3, <1>6, <1>8, <1>9 DEF IsResult
<1> QED
  BY <1>10

\* An article of a higher score than one of the result comes before it.
LEMMA HigherComesFirst ==
  ASSUME TypeInv, DoneInv, done, IsFiniteSet(Found),
         NEW x \in Item, NEW y \in Item, score[x] > score[y], InResult(y)
  PROVE  InResult(x) /\ Position(x) < Position(y)
<1>1. PICK s, n, m : IsResult(s, n, m)
  BY TheResult
<1>2. m \in Nat /\ n \in Nat /\ m <= n /\ DOMAIN result = 1 .. m /\ \A i \in 1 .. m : result[i] = s[i]
  BY <1>1, ResultFacts
<1>3. PICK j \in 1 .. m : result[j] = y
  BY <1>2 DEF InResult
<1>4. x \in Found
  BY DEF Found, TypeInv
<1>5. PICK i \in 1 .. n : s[i] = x
  BY <1>1, <1>4 DEF IsResult
<1>6. j \in 1 .. n /\ s[j] = y
  BY <1>2, <1>3
<1>7. score[x] \in Nat /\ score[y] \in Nat /\ score[x] # score[y]
  BY DEF TypeInv
<1>8. i < j
  <2>1. j < i => score[y] >= score[x]
    BY <1>1, <1>5, <1>6 DEF IsResult
  <2>2. i # j
    BY <1>5, <1>6, <1>7
  <2> QED
    BY <1>7, <2>1, <2>2
<1>9. i \in 1 .. m /\ result[i] = x
  BY <1>2, <1>3, <1>5, <1>8
<1>10. ASSUME NEW q \in 1 .. m, NEW r \in 1 .. m, result[q] = result[r] PROVE q = r
  <2>1. q \in 1 .. n /\ r \in 1 .. n /\ s[q] = s[r]
    BY <1>2, <1>10
  <2> QED
    BY <1>1, <2>1 DEF IsResult
<1>11. Position(x) = i
  BY <1>2, <1>9, <1>10 DEF Position
<1>12. Position(y) = j
  BY <1>2, <1>3, <1>10 DEF Position
<1> QED
  BY <1>2, <1>8, <1>9, <1>11, <1>12 DEF InResult

---------------------------------------------------------------------------
(* When the result is returned, every place has been looked at.            *)

\* The scores are those of the definition.
LEMMA ScoreIsRRFScore ==
  ASSUME TypeInv, ScoreInv, done, NEW x \in Item
  PROVE  score[x] = RRFScore(x)
<1>1. ASSUME NEW p \in Places(x) PROVE p \in Looked
  <2>1. PICK l \in 1 .. NumLists : \E r \in 1 .. Len(itemsList[l]) : p = <<l, r>>
    BY ThePlaces
  <2>2. PICK r \in 1 .. Len(itemsList[l]) : p = <<l, r>>
    BY <2>1
  <2>3. l \in Nat /\ r \in Nat /\ l < list
    <3>1. Len(itemsList[l]) \in Nat
      BY ListFacts DEF TypeInv
    <3> QED
      BY <3>1, ConstantsAssumption DEF TypeInv
  <2> QED
    BY <2>2, <2>3 DEF Looked
<1>2. Places(x) \cap Looked = Places(x)
  BY <1>1
<1>3. RRFScore(x) = SumOf(Places(x))
  BY DEF RRFScore, SumOf, Places
<1> QED
  BY <1>2, <1>3 DEF ScoreInv

\* The sum of the shares of some place is not zero.
LEMMA SumOfSome ==
  ASSUME NEW S, S \subseteq Place, IsFiniteSet(S), S # {}
  PROVE  SumOf(S) \in Nat \ {0}
<1>1. PICK e : e \in S
  OBVIOUS
<1>2. PICK T : T = S \ {e}
  OBVIOUS
<1>3. T \subseteq Place /\ IsFiniteSet(T) /\ e \in Place /\ e \notin T
  BY <1>1, <1>2, FS_Subset
<1>4. SumOf(T \cup {e}) = SumOf(T) + Share(e[2])
  BY ONLY <1>3, SumOfOneMore
<1>5. T \cup {e} = S
  BY <1>1, <1>2
<1>6. SumOf(T) \in Nat
  BY <1>3, SumType
<1>7. Share(e[2]) \in Nat \ {0}
  BY <1>3, ShareType DEF Place
<1> QED
  BY <1>4, <1>5, <1>6, <1>7

\* So the articles found are those of the lists.
LEMMA FoundAreInSomeList ==
  ASSUME TypeInv, ScoreInv, done
  PROVE  Found = {x \in Item : InSomeList(x)}
<1>1. ASSUME NEW x \in Item PROVE score[x] > 0 <=> InSomeList(x)
  <2>1. InSomeList(x) <=> Places(x) # {}
    <3>1. \A l \in 1 .. NumLists : \A r \in RankIn(l, x) : <<l, r>> \in Places(x)
      BY DEF Places
    <3>2. \A p \in Places(x) : \E l \in 1 .. NumLists : \E r \in RankIn(l, x) : p = <<l, r>>
      BY DEF Places
    <3> QED
      BY <3>1, <3>2 DEF InSomeList
  <2>2. score[x] = SumOf(Places(x))
    <3>1. RRFScore(x) = SumOf(Places(x))
      BY DEF RRFScore, SumOf, Places
    <3> QED
      BY <3>1, ScoreIsRRFScore
  <2>3. CASE Places(x) = {}
    BY <2>1, <2>2, <2>3, SumOfNone
  <2>4. CASE Places(x) # {}
    <3>1. SumOf(Places(x)) \in Nat \ {0}
      BY <2>4, ThePlaces, SumOfSome
    <3> QED
      BY <2>1, <2>2, <2>4, <3>1
  <2> QED
    BY <2>3, <2>4
<1> QED
  BY <1>1 DEF Found

\* They are finitely many, for any set of articles.
LEMMA FoundIsFinite ==
  ASSUME TypeInv, ScoreInv, done
  PROVE  IsFiniteSet(Found)
<1>1. NumLists \in Nat /\ MaxLen \in Nat
  BY ConstantsAssumption
<1> DEFINE P == {p \in (1 .. NumLists) \X (1 .. MaxLen) : p[2] <= Len(itemsList[p[1]])}
           f == [p \in P |-> itemsList[p[1]][p[2]]]
<1>2. IsFiniteSet(P)
  <2>1. IsFiniteSet(1 .. NumLists) /\ IsFiniteSet(1 .. MaxLen)
    BY <1>1, FS_Interval
  <2>2. IsFiniteSet((1 .. NumLists) \X (1 .. MaxLen))
    BY <2>1, FS_Product
  <2> QED
    BY <2>2, FS_Subset
<1>3. ASSUME NEW p \in P
      PROVE  f[p] \in Found
  <2>1. p[1] \in 1 .. NumLists /\ p[2] \in 1 .. Len(itemsList[p[1]])
    <3>1. p[1] \in 1 .. NumLists /\ p[2] \in 1 .. MaxLen /\ p[2] <= Len(itemsList[p[1]])
      OBVIOUS
    <3>2. Len(itemsList[p[1]]) \in Nat
      BY <3>1, ListFacts DEF TypeInv
    <3> QED
      BY <1>1, <3>1, <3>2
  <2>2. f[p] \in Item /\ p[2] \in RankIn(p[1], f[p])
    BY <2>1, ListFacts DEF TypeInv, RankIn
  <2>3. InSomeList(f[p])
    BY <2>1, <2>2 DEF InSomeList
  <2> QED
    BY <2>2, <2>3, FoundAreInSomeList
<1>4. ASSUME NEW x \in Found
      PROVE  \E p \in P : f[p] = x
  <2>1. InSomeList(x)
    BY FoundAreInSomeList
  <2>2. PICK l \in 1 .. NumLists : RankIn(l, x) # {}
    BY <2>1 DEF InSomeList
  <2>3. PICK r : r \in RankIn(l, x)
    BY <2>2
  <2>4. r \in 1 .. Len(itemsList[l]) /\ itemsList[l][r] = x /\ Len(itemsList[l]) \in 0 .. MaxLen
    BY <2>3, ListFacts DEF RankIn, TypeInv
  <2>5. <<l, r>> \in P
    BY <1>1, <2>4
  <2> QED
    BY <2>4, <2>5
<1>5. f \in Surjection(P, Found)
  <2>1. f \in [P -> Found]
    BY <1>3
  <2> HIDE DEF P, f
  <2> QED
    BY <1>4, <2>1 DEF Surjection
<1> HIDE DEF P, f
<1> QED
  BY <1>2, <1>5, FS_Surjection

\* The result is a best prefix.
LEMMA FusionOfLists ==
  ASSUME TypeInv, ScoreInv, DoneInv
  PROVE  ResultIsRankFusion
<1> SUFFICES ASSUME done
    PROVE  /\ Len(result) = Min({size, Cardinality({x \in Item : InSomeList(x)})})
           /\ \A i, j \in DOMAIN result :
                i < j => result[i] # result[j] /\ RRFScore(result[i]) >= RRFScore(result[j])
           /\ \A x \in Item : InSomeList(x) /\ ~InResult(x) =>
                \A i \in DOMAIN result : RRFScore(result[i]) >= RRFScore(x)
  BY DEF ResultIsRankFusion
<1>1. PICK s, n, m : IsResult(s, n, m)
  BY FoundIsFinite, TheResult
<1>2. /\ m \in Nat /\ n \in Nat /\ m <= n /\ Len(result) = m /\ DOMAIN result = 1 .. m
      /\ \A i \in 1 .. m : result[i] = s[i] /\ i \in 1 .. n
      /\ \A i \in 1 .. n : s[i] \in Item
  BY <1>1, ResultFacts DEF Found
<1>3. Len(result) = Min({size, Cardinality({x \in Item : InSomeList(x)})})
  BY <1>1, FoundAreInSomeList DEF IsResult
<1>4. ASSUME NEW i \in DOMAIN result, NEW j \in DOMAIN result, i < j
      PROVE  result[i] # result[j] /\ RRFScore(result[i]) >= RRFScore(result[j])
  <2>1. i \in 1 .. n /\ j \in 1 .. n /\ i # j /\ result[i] = s[i] /\ result[j] = s[j]
    BY <1>2, <1>4
  <2>2. s[i] # s[j] /\ score[s[i]] >= score[s[j]]
    BY <1>1, <1>4, <2>1 DEF IsResult
  <2>3. s[i] \in Item /\ s[j] \in Item
    BY <1>2, <2>1
  <2> QED
    BY <2>1, <2>2, <2>3, ScoreIsRRFScore
<1>5. ASSUME NEW x \in Item, InSomeList(x), ~InResult(x), NEW i \in DOMAIN result
      PROVE  RRFScore(result[i]) >= RRFScore(x)
  <2>1. x \in Found
    BY <1>5, FoundAreInSomeList
  <2>2. PICK j \in 1 .. n : s[j] = x
    BY <1>1, <2>1 DEF IsResult
  <2>3. i \in 1 .. n /\ i \in 1 .. m /\ result[i] = s[i] /\ s[i] \in Item
    BY <1>2
  <2>4. j \notin 1 .. m
    BY <1>2, <1>5, <2>2 DEF InResult
  <2>5. i < j
    BY <1>2, <2>2, <2>3, <2>4
  <2>6. score[s[i]] >= score[x]
    BY <1>1, <2>2, <2>3, <2>5 DEF IsResult
  <2> QED
    BY <2>3, <2>6, ScoreIsRRFScore
<1> QED
  BY <1>3, <1>4, <1>5

---------------------------------------------------------------------------
(* Lists that agree.                                                       *)

\* The places of x in the lists that are done with, and what they are worth.
Before(x) == {p \in Places(x) : p[1] < list}

Past(x) == SumOf(Before(x))

Preferred(x, y) == \A l \in 1 .. NumLists : Better(l, x, y)

Met(y) == \E l \in 1 .. NumLists : l < list /\ RankIn(l, y) # {}

\* What every list prefers is ahead as soon as a list had the other one.
PrefInv ==
  \A x, y \in Item : Preferred(x, y) => Past(x) >= Past(y) /\ (Met(y) => Past(x) > Past(y))

\* The places done with are places.
LEMMA BeforeFacts ==
  ASSUME TypeInv, NEW x
  PROVE  Before(x) \subseteq Place /\ IsFiniteSet(Before(x)) /\ Past(x) \in Nat
<1>1. Before(x) \subseteq Place /\ IsFiniteSet(Before(x))
  <2>1. Before(x) \subseteq Places(x)
    BY DEF Before
  <2>2. Places(x) \subseteq Place /\ IsFiniteSet(Places(x))
    BY ThePlaces
  <2> QED
    BY <2>1, <2>2, FS_Subset
<1>2. Past(x) \in Nat
  BY <1>1, SumType DEF Past
<1> QED
  BY <1>1, <1>2

\* An article has one rank in a list.
LEMMA RankFacts ==
  ASSUME TypeInv, NEW l \in 1 .. NumLists, NEW x, NEW r \in RankIn(l, x)
  PROVE  /\ r \in 1 .. Len(itemsList[l]) /\ r \in 1 .. MaxLen /\ itemsList[l][r] = x /\ x \in Item
         /\ <<l, r>> \in Places(x) /\ \A q \in RankIn(l, x) : q = r
<1>1. itemsList[l] \in Lists /\ MaxLen \in Nat
  BY ConstantsAssumption DEF TypeInv
<1>2. /\ DOMAIN itemsList[l] = 1 .. Len(itemsList[l]) /\ Len(itemsList[l]) \in 0 .. MaxLen
      /\ \A i \in 1 .. Len(itemsList[l]) : itemsList[l][i] \in Item
      /\ \A i, j \in 1 .. Len(itemsList[l]) : itemsList[l][i] = itemsList[l][j] => i = j
  BY <1>1, ListFacts
<1>3. r \in 1 .. Len(itemsList[l]) /\ itemsList[l][r] = x
  BY <1>2 DEF RankIn
<1>4. r \in 1 .. MaxLen /\ x \in Item
  BY <1>1, <1>2, <1>3
<1>5. <<l, r>> \in Places(x)
  BY DEF Places
<1>6. \A q \in RankIn(l, x) : q = r
  BY <1>2, <1>3 DEF RankIn
<1> QED
  BY <1>3, <1>4, <1>5, <1>6

\* What the end of a list adds.
LEMMA PastGrows ==
  ASSUME TypeInv, NextList, NEW x
  PROVE  /\ Places(x)' = Places(x)
         /\ RankIn(list, x) = {} => Past(x)' = Past(x)
         /\ \A r \in RankIn(list, x) : Past(x)' = Past(x) + Share(r)
<1>1. list \in 1 .. NumLists /\ list' = list + 1 /\ itemsList' = itemsList
  BY ConstantsAssumption DEF NextList, TypeInv
<1>2. Places(x)' = Places(x)
  BY <1>1 DEF Places, RankIn
<1>3. \A p \in Places(x) : \E l \in 1 .. NumLists : \E r \in RankIn(l, x) : p = <<l, r>>
  BY DEF Places
<1>4. \A p \in Places(x) : p[1] \in Nat /\ (p[1] < list + 1 <=> p[1] < list \/ p[1] = list)
  <2>1. NumLists \in Nat
    BY ConstantsAssumption
  <2> QED
    BY <1>1, <1>3, <2>1
<1>5. Before(x)' = {p \in Places(x) : p[1] < list + 1}
  BY <1>1, <1>2 DEF Before
<1>6. ASSUME RankIn(list, x) = {} PROVE Past(x)' = Past(x)
  <2>1. \A p \in Places(x) : p[1] # list
    BY <1>3, <1>6
  <2>2. Before(x)' = Before(x)
    BY <1>4, <1>5, <2>1 DEF Before
  <2> QED
    BY <2>2 DEF Past
<1>7. ASSUME NEW r \in RankIn(list, x) PROVE Past(x)' = Past(x) + Share(r)
  <2> DEFINE e == <<list, r>>
  <2>1. e \in Places(x) /\ \A q \in RankIn(list, x) : q = r
    BY <1>1, RankFacts
  <2>2. \A p \in Places(x) : p[1] = list <=> p = e
    BY <1>3, <2>1
  <2>3. Before(x)' = Before(x) \cup {e}
    BY <1>4, <1>5, <2>1, <2>2 DEF Before
  <2>4. e \notin Before(x)
    BY <1>1 DEF Before
  <2>5. PICK S : S = Before(x)
    OBVIOUS
  <2>6. S \subseteq Place /\ IsFiniteSet(S) /\ e \in Place /\ e \notin S
    BY <2>1, <2>4, <2>5, BeforeFacts, ThePlaces
  <2>7. SumOf(S \cup {e}) = SumOf(S) + Share(e[2])
    BY ONLY <2>6, SumOfOneMore
  <2> QED
    BY <2>3, <2>5, <2>7 DEF Past
<1> QED
  BY <1>2, <1>6, <1>7

\* At the start no list is done with.
LEMMA PrefInit == Init => PrefInv
<1> SUFFICES ASSUME Init, NEW x \in Item, NEW y \in Item
             PROVE  Past(x) >= Past(y) /\ ~Met(y)
  BY DEF PrefInv
<1>1. TypeInv
  BY TypeInit
<1>2. ASSUME NEW z PROVE Past(z) = 0
  <2>1. \A p \in Places(z) : p[1] \in 1 .. NumLists
    BY DEF Places
  <2>2. Before(z) = {}
    BY <2>1, ConstantsAssumption DEF Before, Init
  <2> QED
    BY <2>2, SumOfNone DEF Past
<1>3. ~Met(y)
  BY ConstantsAssumption DEF Met, Init
<1> QED
  BY <1>2, <1>3

\* The end of a list adds more to what the list prefers.
LEMMA PrefStep == TypeInv /\ PrefInv /\ [Next]_vars => PrefInv'
<1> SUFFICES ASSUME TypeInv, PrefInv, [Next]_vars PROVE PrefInv'
  OBVIOUS
<1>1. CASE NextList
  <2>1. list \in 1 .. NumLists /\ list' = list + 1 /\ itemsList' = itemsList
    BY <1>1, ConstantsAssumption DEF NextList, TypeInv
  <2>2. SUFFICES ASSUME NEW x \in Item, NEW y \in Item, Preferred(x, y)
                 PROVE  Past(x)' >= Past(y)' /\ (Met(y)' => Past(x)' > Past(y)')
    <3>1. \A x, y \in Item : Preferred(x, y)' <=> Preferred(x, y)
      BY <2>1 DEF Preferred, Better, RankIn
    <3> QED
      BY <3>1 DEF PrefInv
  <2>3. Past(x) \in Nat /\ Past(y) \in Nat
    BY BeforeFacts
  <2>4. Past(x) >= Past(y) /\ (Met(y) => Past(x) > Past(y))
    BY <2>2 DEF PrefInv
  <2>5. Past(x)' >= Past(x) /\ Past(x)' \in Nat
    <3>1. CASE RankIn(list, x) = {}
      BY <1>1, <2>3, <3>1, PastGrows
    <3>2. CASE RankIn(list, x) # {}
      <4>1. PICK i : i \in RankIn(list, x)
        BY <3>2
      <4>2. Share(i) \in Nat
        BY <2>1, <4>1, RankFacts, ShareType
      <4>3. Past(x)' = Past(x) + Share(i)
        BY <1>1, <4>1, PastGrows
      <4> QED
        BY <2>3, <4>2, <4>3
    <3> QED
      BY <3>1, <3>2
  <2>6. CASE RankIn(list, y) = {}
    <3>1. Past(y)' = Past(y)
      BY <1>1, <2>6, PastGrows
    <3>2. Met(y)' => Met(y)
      <4>1. SUFFICES ASSUME Met(y)' PROVE Met(y)
        OBVIOUS
      <4>2. PICK l \in 1 .. NumLists : l < list + 1 /\ RankIn(l, y) # {}
        BY <2>1, <4>1 DEF Met, RankIn
      <4>3. l # list
        BY <2>6, <4>2
      <4>4. l < list
        BY <2>1, <4>2, <4>3, ConstantsAssumption
      <4> QED
        BY <4>2, <4>4 DEF Met
    <3> QED
      BY <2>3, <2>4, <2>5, <3>1, <3>2
  <2>7. CASE RankIn(list, y) # {}
    <3>1. PICK j : j \in RankIn(list, y)
      BY <2>7
    <3>2. PICK i : i \in RankIn(list, x) /\ i < j
      BY <2>1, <2>2, <3>1 DEF Preferred, Better
    <3>3. i \in 1 .. MaxLen /\ j \in 1 .. MaxLen
      BY <2>1, <3>1, <3>2, RankFacts
    <3>4. Share(j) < Share(i) /\ Share(i) \in Nat /\ Share(j) \in Nat
      BY <3>2, <3>3, ShareFalls, ShareType
    <3>5. Past(x)' = Past(x) + Share(i) /\ Past(y)' = Past(y) + Share(j)
      BY <1>1, <3>1, <3>2, PastGrows
    <3> QED
      BY <2>3, <2>4, <3>4, <3>5
  <2> QED
    BY <2>6, <2>7
<1>2. ASSUME list' = list, itemsList' = itemsList PROVE PrefInv'
  <2>1. PrefInv' <=> PrefInv
    BY <1>2 DEF PrefInv, Preferred, Better, Met, Past, Before, Places, RankIn
  <2> QED
    BY <2>1
<1> QED
  BY <1>1, <1>2 DEF Next, NextCandidate, SortAndCut, vars

\* At the end all lists are done with.
LEMMA PastIsScore ==
  ASSUME TypeInv, ScoreInv, done, NEW x \in Item
  PROVE  Past(x) = score[x] /\ (InSomeList(x) => Met(x))
<1>1. \A l \in 1 .. NumLists : l < list
  BY ConstantsAssumption DEF TypeInv
<1>2. \A p \in Places(x) : p[1] \in 1 .. NumLists
  BY DEF Places
<1>3. Before(x) = Places(x)
  BY <1>1, <1>2 DEF Before
<1>4. RRFScore(x) = SumOf(Places(x))
  BY DEF RRFScore, SumOf, Places
<1>5. InSomeList(x) => Met(x)
  BY <1>1 DEF InSomeList, Met
<1> QED
  BY <1>3, <1>4, <1>5, ScoreIsRRFScore DEF Past

\* What every list prefers comes first.
LEMMA PreferredFirst ==
  ASSUME TypeInv, ScoreInv, DoneInv, PrefInv
  PROVE  PreferredComesFirst
<1> SUFFICES ASSUME done, NEW x \in Item, NEW y \in Item, InSomeList(y), Preferred(x, y), InResult(y)
             PROVE  InResult(x) /\ Position(x) < Position(y)
  BY DEF PreferredComesFirst, Preferred
<1>1. score[x] > score[y]
  BY PastIsScore DEF PrefInv
<1> QED
  BY <1>1, FoundIsFinite, HigherComesFirst

---------------------------------------------------------------------------
(* Lists that do not meet.                                                 *)

\* A set of at most one element.
LEMMA AtMostOne ==
  ASSUME NEW S, IsFiniteSet(S), Cardinality(S) <= 1, NEW a \in S, NEW b \in S
  PROVE  a = b
<1>1. PICK T : T = S \ {a}
  OBVIOUS
<1>2. IsFiniteSet(T) /\ Cardinality(T) = Cardinality(S) - 1 /\ Cardinality(S) \in Nat
  BY <1>1, FS_RemoveElement, FS_CardinalityType
<1>3. Cardinality(T) = 0
  BY <1>2, FS_CardinalityType
<1>4. T = {}
  BY <1>2, <1>3, FS_EmptySet
<1> QED
  BY <1>1, <1>4

\* An article of one list scores the share of its rank.
LEMMA ScoreOfOne ==
  ASSUME TypeInv, ScoreInv, done, Disjoint,
         NEW l \in 1 .. NumLists, NEW i \in DOMAIN itemsList[l]
  PROVE  itemsList[l][i] \in Item /\ i \in 1 .. MaxLen /\ score[itemsList[l][i]] = Share(i)
<1>1. PICK x : x = itemsList[l][i]
  OBVIOUS
<1>2. i \in RankIn(l, x)
  BY <1>1 DEF RankIn
<1>3. x \in Item /\ i \in 1 .. MaxLen /\ <<l, i>> \in Places(x) /\ \A q \in RankIn(l, x) : q = i
  BY <1>2, RankFacts
<1>4. \A m \in 1 .. NumLists : RankIn(m, x) # {} => m = l
  <2>1. PICK S : S = {m \in 1 .. NumLists : RankIn(m, x) # {}}
    OBVIOUS
  <2>2. IsFiniteSet(1 .. NumLists)
    BY FS_Interval, ConstantsAssumption
  <2>3. IsFiniteSet(S) /\ Cardinality(S) <= 1 /\ l \in S
    BY <1>2, <1>3, <2>1, <2>2, FS_Subset DEF Disjoint
  <2> QED
    BY <2>1, <2>3, AtMostOne
<1> DEFINE e == <<l, i>>
<1>5. \A p \in Places(x) : p = e
  BY <1>3, <1>4 DEF Places
<1>6. Places(x) = {} \cup {e}
  BY <1>3, <1>5
<1>7. SumOf({} \cup {e}) = SumOf({}) + Share(e[2])
  <2>1. {} \subseteq Place /\ IsFiniteSet({}) /\ e \in Place /\ e \notin {}
    BY <1>3, ThePlaces, FS_EmptySet
  <2> QED
    BY ONLY <2>1, SumOfOneMore
<1>8. Share(i) \in Nat
  BY <1>3, ShareType
<1>9. SumOf(Places(x)) = Share(i)
  BY <1>6, <1>7, <1>8, SumOfNone
<1>10. RRFScore(x) = SumOf(Places(x))
  BY DEF RRFScore, SumOf, Places
<1> QED
  BY <1>1, <1>3, <1>9, <1>10, ScoreIsRRFScore

\* So lists that do not meet are interleaved.
LEMMA DisjointInterleave ==
  ASSUME TypeInv, ScoreInv, DoneInv
  PROVE  DisjointListsInterleave
<1> SUFFICES ASSUME done, Disjoint, NEW l \in 1 .. NumLists, NEW m \in 1 .. NumLists,
                    NEW i \in DOMAIN itemsList[l], NEW j \in DOMAIN itemsList[m],
                    i < j, InResult(itemsList[m][j])
             PROVE  /\ InResult(itemsList[l][i])
                    /\ Position(itemsList[l][i]) < Position(itemsList[m][j])
  BY DEF DisjointListsInterleave
<1>1. /\ itemsList[l][i] \in Item /\ i \in 1 .. MaxLen /\ score[itemsList[l][i]] = Share(i)
      /\ itemsList[m][j] \in Item /\ j \in 1 .. MaxLen /\ score[itemsList[m][j]] = Share(j)
  BY ScoreOfOne
<1>2. Share(j) < Share(i) /\ Share(i) \in Nat /\ Share(j) \in Nat
  BY <1>1, ShareFalls, ShareType
<1>3. score[itemsList[l][i]] > score[itemsList[m][j]]
  BY <1>1, <1>2
<1> QED
  BY <1>1, <1>3, FoundIsFinite, HigherComesFirst

---------------------------------------------------------------------------
(* The theorems.                                                           *)

FusionInv == TypeInv /\ ScoreInv /\ DoneInv /\ PrefInv

\* In every state of the loop a score is the sum of the shares of the ranks
\* looked at, the result is a prefix of a sorted slice, and what all lists
\* prefer is ahead.
THEOREM FusionInvariant == Spec => []FusionInv
<1>1. Init => FusionInv
  <2>1. Init => DoneInv
    BY DEF Init, DoneInv
  <2> QED
    BY <2>1, TypeInit, ScoreInit, PrefInit DEF FusionInv
<1>2. FusionInv /\ [Next]_vars => FusionInv'
  BY TypeStep, ScoreStep, DoneStep, PrefStep DEF FusionInv
<1> QED
  BY <1>1, <1>2, PTL DEF Spec

\* RRF.Aggregate returns a best prefix of the articles ordered by the
\* definition of reciprocal rank fusion, whatever the lists and the size.
THEOREM FusionIsRankFusion == Spec => []ResultIsRankFusion
<1>1. FusionInv => ResultIsRankFusion
  BY FusionOfLists DEF FusionInv
<1> QED
  BY <1>1, FusionInvariant, PTL

\* RRF.Aggregate never puts an article before one that every list prefers,
\* and interleaves lists that have no article in common.
THEOREM FusionKeepsToTheLists == Spec => []FusionRespectsLists
<1>1. FusionInv => FusionRespectsLists
  BY PreferredFirst, DisjointInterleave DEF FusionInv, FusionRespectsLists
<1> QED
  BY <1>1, FusionInvariant, PTL
=============================================================================
