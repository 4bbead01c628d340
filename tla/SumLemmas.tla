------------------------------ MODULE SumLemmas ------------------------------
(***************************************************************************)
(* Facts about the sums the models are built from: SumFunction(f) of the   *)
(* community module Functions and MapThenSumSet(op, S) of FiniteSetsExt.   *)
(* Both are MapThenFoldSet(+, 0, ...), a fold that picks the element to    *)
(* add with CHOOSE, defined as a recursive function over SUBSET S.         *)
(*                                                                         *)
(* The lemmas speak of MapThenSumSet(LAMBDA x : g[x], S) for a function g, *)
(* so that they can be cited for any g: the provers do not instantiate a   *)
(* lemma's operator parameters.  Induction over finite sets is done by     *)
(* hand, from the well-foundedness of the strict subset ordering.          *)
(***************************************************************************)
EXTENDS Integers, FiniteSets, FiniteSetsExt, Functions, FiniteSetTheorems,
        WellFoundedInduction, TLAPS

\* One step of the fold: 0 for {}, else the chosen element's term plus the
\* fold of the rest.
SumStep(g, it, s) ==
    IF s = {} THEN 0 ELSE LET x == CHOOSE x \in s : TRUE IN g[x] + it[s \ {x}]

\* it is the recursive function the fold over S is defined as.
IsSumFn(g, S, it) == it = [s \in SUBSET S |-> SumStep(g, it, s)]

\* The sum of g over S, as the models write it.
Sum(g, S) == MapThenSumSet(LAMBDA x : g[x], S)

\* The sum is the value at S of the function the fold chooses.
LEMMA SumUnfold ==
    ASSUME NEW g, NEW S
    PROVE  Sum(g, S) = (CHOOSE it : IsSumFn(g, S, it))[S]
BY DEF Sum, MapThenSumSet, MapThenFoldSet, IsSumFn, SumStep

\* A nonempty family of subsets of a finite set has a minimal member.
LEMMA MinimalSubset ==
    ASSUME NEW S, IsFiniteSet(S), NEW Bad
    PROVE  (SUBSET S) \ Bad # {} =>
           \E T \in (SUBSET S) \ Bad :
              \A y \in (SUBSET S) \ Bad : ~(<<y, T>> \in StrictSubsetOrdering(S))
<1>1. IsWellFoundedOn(StrictSubsetOrdering(S), SUBSET S)
  BY FS_StrictSubsetOrderingWellFounded, FS_FiniteSubsetsOfFinite
<1>2. QED
  BY <1>1, WFMin

(***************************************************************************)
(* Induction over the subsets of a finite set S: a set Good that contains  *)
(* every subset of S whose strict subsets are all in Good contains every   *)
(* subset of S.                                                            *)
(***************************************************************************)
LEMMA SubsetInduction ==
    ASSUME NEW S, IsFiniteSet(S), NEW Good,
           \A T \in SUBSET S : (\A U \in SUBSET T : U # T => U \in Good) => T \in Good
    PROVE  SUBSET S \subseteq Good
<1>2. (SUBSET S) \ Good # {} =>
      \E T \in (SUBSET S) \ Good :
         \A y \in (SUBSET S) \ Good : ~(<<y, T>> \in StrictSubsetOrdering(S))
  BY MinimalSubset
<1>3. SUFFICES ASSUME (SUBSET S) \ Good # {} PROVE FALSE
  OBVIOUS
<1>4. PICK T \in (SUBSET S) \ Good :
         \A y \in (SUBSET S) \ Good : ~(<<y, T>> \in StrictSubsetOrdering(S))
  BY <1>2, <1>3
<1>5. \A U \in SUBSET T : U # T => U \in Good
  BY <1>4 DEF StrictSubsetOrdering
<1>6. QED
  BY <1>4, <1>5
\* Every value of the fold's function over a set of integers is an integer.
LEMMA SumFnInt ==
    ASSUME NEW g, NEW S, IsFiniteSet(S), \A x \in S : g[x] \in Int,
           NEW it, IsSumFn(g, S, it)
    PROVE  \A s \in SUBSET S : it[s] \in Int
<1>1. \A T \in SUBSET S : (\A U \in SUBSET T : U # T => U \in {s \in SUBSET S : it[s] \in Int})
                          => T \in {s \in SUBSET S : it[s] \in Int}
  <2> SUFFICES ASSUME NEW T \in SUBSET S,
                      \A U \in SUBSET T : U # T => U \in {s \in SUBSET S : it[s] \in Int}
               PROVE  it[T] \in Int
    OBVIOUS
  <2>1. CASE T = {}
    BY <2>1 DEF IsSumFn, SumStep
  <2>2. CASE T # {}
    <3>1. (CHOOSE x \in T : TRUE) \in T
      BY <2>2
    <3>2. it[T \ {CHOOSE x \in T : TRUE}] \in Int
      BY <3>1
    <3>3. it[T] = g[CHOOSE x \in T : TRUE] + it[T \ {CHOOSE x \in T : TRUE}]
      BY <2>2 DEF IsSumFn, SumStep
    <3>4. QED
      BY <3>1, <3>2, <3>3
  <2>3. QED
    BY <2>1, <2>2
<1>5. PICK Good : Good = {s \in SUBSET S : it[s] \in Int}
  OBVIOUS
<1>6. \A Y \in SUBSET S : (\A Z \in SUBSET Y : Z # Y => Z \in Good) => Y \in Good
  BY <1>1, <1>5
<1>7. SUBSET S \subseteq Good
  BY <1>6, SubsetInduction
<1>2. QED
  BY <1>5, <1>7

(***************************************************************************)
(* The fold does not depend on the element CHOOSE picks: for every element *)
(* c of a subset s, it[s] is g[c] plus it of the rest.  Induction: with d  *)
(* the chosen element of s and c another, both s \ {d} and s \ {c} are    *)
(* strict subsets, and removing c then d or d then c leaves the same set.  *)
(***************************************************************************)
LEMMA SumFnRemove ==
    ASSUME NEW g, NEW S, IsFiniteSet(S), \A x \in S : g[x] \in Int,
           NEW it, IsSumFn(g, S, it)
    PROVE  \A s \in SUBSET S : \A c \in s : it[s] = g[c] + it[s \ {c}]
<1>1. \A s \in SUBSET S : it[s] \in Int
  BY SumFnInt
<1>2. \A T \in SUBSET S :
         (\A U \in SUBSET T : U # T =>
             U \in {s \in SUBSET S : \A c \in s : it[s] = g[c] + it[s \ {c}]})
         => T \in {s \in SUBSET S : \A c \in s : it[s] = g[c] + it[s \ {c}]}
  <2> SUFFICES ASSUME NEW T \in SUBSET S,
                      \A U \in SUBSET T : U # T =>
                         U \in {s \in SUBSET S : \A c \in s : it[s] = g[c] + it[s \ {c}]},
                      NEW c \in T
               PROVE  it[T] = g[c] + it[T \ {c}]
    OBVIOUS
  <2>0. PICK d : d = CHOOSE x \in T : TRUE
    OBVIOUS
  <2>1. d \in T
    BY <2>0
  <2>2. it[T] = g[d] + it[T \ {d}]
    BY <2>0, <2>1 DEF IsSumFn, SumStep
  <2>3. CASE c = d
    BY <2>2, <2>3
  <2>4. CASE c # d
    <3>1. it[T \ {d}] = g[c] + it[(T \ {d}) \ {c}]
      BY <2>1, <2>4
    <3>2. it[T \ {c}] = g[d] + it[(T \ {c}) \ {d}]
      BY <2>1, <2>4
    <3>3. (T \ {d}) \ {c} = (T \ {c}) \ {d}
      OBVIOUS
    <3>4. /\ g[c] \in Int /\ g[d] \in Int
          /\ it[(T \ {c}) \ {d}] \in Int
      BY <1>1, <2>1
    <3>5. it[(T \ {d}) \ {c}] = it[(T \ {c}) \ {d}]
      BY <3>3, Zenon
    <3>6. QED
      BY <2>2, <3>1, <3>2, <3>4, <3>5
  <2>5. QED
    BY <2>3, <2>4
<1>5. PICK Good : Good = {s \in SUBSET S : \A c \in s : it[s] = g[c] + it[s \ {c}]}
  OBVIOUS
<1>6. \A Y \in SUBSET S : (\A Z \in SUBSET Y : Z # Y => Z \in Good) => Y \in Good
  BY <1>2, <1>5
<1>7. SUBSET S \subseteq Good
  BY <1>6, SubsetInduction
<1>3. QED
  BY <1>5, <1>7

\* Two folds of g, over S and over a subset T of S, agree on the subsets of T.
LEMMA SumFnAgree ==
    ASSUME NEW g, NEW S, IsFiniteSet(S), NEW it1, IsSumFn(g, S, it1),
           NEW T \in SUBSET S, NEW it2, IsSumFn(g, T, it2)
    PROVE  \A s \in SUBSET T : it1[s] = it2[s]
<1>1. IsFiniteSet(T)
  BY FS_Subset
<1>2. \A U \in SUBSET T :
         (\A V \in SUBSET U : V # U => V \in {s \in SUBSET T : it1[s] = it2[s]})
         => U \in {s \in SUBSET T : it1[s] = it2[s]}
  <2> SUFFICES ASSUME NEW U \in SUBSET T,
                      \A V \in SUBSET U : V # U => V \in {s \in SUBSET T : it1[s] = it2[s]}
               PROVE  it1[U] = it2[U]
    OBVIOUS
  <2>1. CASE U = {}
    BY <2>1 DEF IsSumFn, SumStep
  <2>2. CASE U # {}
    <3>1. (CHOOSE x \in U : TRUE) \in U
      BY <2>2
    <3>2. it1[U \ {CHOOSE x \in U : TRUE}] = it2[U \ {CHOOSE x \in U : TRUE}]
      BY <3>1
    <3>3. it1[U] = g[CHOOSE x \in U : TRUE] + it1[U \ {CHOOSE x \in U : TRUE}]
      BY <2>2 DEF IsSumFn, SumStep
    <3>4. it2[U] = g[CHOOSE x \in U : TRUE] + it2[U \ {CHOOSE x \in U : TRUE}]
      BY <2>2 DEF IsSumFn, SumStep
    <3>5. QED
      BY <3>2, <3>3, <3>4
  <2>3. QED
    BY <2>1, <2>2
<1>5. PICK Good : Good = {s \in SUBSET T : it1[s] = it2[s]}
  OBVIOUS
<1>6. \A Y \in SUBSET T : (\A Z \in SUBSET Y : Z # Y => Z \in Good) => Y \in Good
  BY <1>2, <1>5
<1>7. SUBSET T \subseteq Good
  BY <1>1, <1>6, SubsetInduction
<1>3. QED
  BY <1>5, <1>7
(***************************************************************************)
(* The recursive function the fold is defined as exists for every finite   *)
(* set of integers.  Induction: from the function it for T \ {x}, the      *)
(* function h with h[s] = g[x] + it[s \ {x}] when x \in s, else it[s],     *)
(* satisfies the fold's equation over T, by SumFnRemove for it.            *)
(***************************************************************************)
LEMMA SumFnExists ==
    ASSUME NEW g, NEW S, IsFiniteSet(S), \A x \in S : g[x] \in Int
    PROVE  \E it : IsSumFn(g, S, it)
<1>1. \A T \in SUBSET S :
         (\A U \in SUBSET T : U # T => U \in {s \in SUBSET S : \E it : IsSumFn(g, s, it)})
         => T \in {s \in SUBSET S : \E it : IsSumFn(g, s, it)}
  <2> SUFFICES ASSUME NEW T \in SUBSET S,
                      \A U \in SUBSET T : U # T =>
                         U \in {s \in SUBSET S : \E it : IsSumFn(g, s, it)}
               PROVE  \E it : IsSumFn(g, T, it)
    OBVIOUS
  <2>1. CASE T = {}
    <3>1. IsSumFn(g, T, [s \in SUBSET T |-> 0])
      BY <2>1 DEF IsSumFn, SumStep
    <3>2. QED
      BY <3>1
  <2>2. CASE T # {}
    <3>1. PICK e \in T : TRUE
      BY <2>2
    <3>2. PICK it : IsSumFn(g, T \ {e}, it)
      OBVIOUS
    <3>3. PICK Rest : Rest = T \ {e}
      OBVIOUS
    <3>10. IsFiniteSet(Rest) /\ (\A y \in Rest : g[y] \in Int) /\ IsSumFn(g, Rest, it)
      BY <3>2, <3>3, FS_Subset
    <3>4. \A s \in SUBSET (T \ {e}) : \A c \in s : it[s] = g[c] + it[s \ {c}]
      <4>1. SUFFICES ASSUME NEW s0 \in SUBSET Rest, NEW c0 \in s0
                     PROVE  it[s0] = g[c0] + it[s0 \ {c0}]
        BY <3>3
      <4>2. QED
        BY <3>10, SumFnRemove
    <3>5. \A s \in SUBSET (T \ {e}) : it[s] \in Int
      <4>1. \A s \in SUBSET Rest : it[s] \in Int
        BY <3>10, SumFnInt
      <4>2. QED
        BY <3>3, <4>1
    <3>6. PICK h \in [SUBSET T -> Int] :
            \A s \in SUBSET T : h[s] = IF e \in s THEN g[e] + it[s \ {e}] ELSE it[s]
      <4>1. [s \in SUBSET T |-> IF e \in s THEN g[e] + it[s \ {e}] ELSE it[s]]
              \in [SUBSET T -> Int]
        BY <3>5
      <4>2. QED
        BY <4>1
    <3>7. ASSUME NEW s \in SUBSET T PROVE h[s] = SumStep(g, h, s)
      <4>1. CASE s = {}
        BY <3>6, <4>1, <3>2 DEF IsSumFn, SumStep
      <4>2. CASE s # {} /\ e \notin s
        <5>1. (CHOOSE y \in s : TRUE) \in s /\ s \in SUBSET (T \ {e})
          BY <4>2
        <5>2. it[s] = g[CHOOSE y \in s : TRUE] + it[s \ {CHOOSE y \in s : TRUE}]
          BY <3>2, <4>2, <5>1 DEF IsSumFn, SumStep
        <5>3. h[s \ {CHOOSE y \in s : TRUE}] = it[s \ {CHOOSE y \in s : TRUE}]
          BY <3>6, <4>2
        <5>4. QED
          BY <3>6, <4>2, <5>2, <5>3 DEF SumStep
      <4>3. CASE e \in s /\ e = CHOOSE y \in s : TRUE
        <5>1. h[s \ {e}] = it[s \ {e}]
          BY <3>6
        <5>2. QED
          BY <3>6, <4>3, <5>1 DEF SumStep
      <4>4. CASE e \in s /\ e # CHOOSE y \in s : TRUE
        <5> d == CHOOSE y \in s : TRUE
        <5>1. d \in s \ {e} /\ s \ {e} \in SUBSET (T \ {e})
          BY <4>4
        <5>2. it[s \ {e}] = g[d] + it[(s \ {e}) \ {d}]
          BY <3>4, <5>1
        <5>3. h[s \ {d}] = g[e] + it[(s \ {d}) \ {e}]
          BY <3>6, <4>4
        <5>4. (s \ {e}) \ {d} = (s \ {d}) \ {e}
          OBVIOUS
        <5>5. g[e] \in Int /\ g[d] \in Int /\ it[(s \ {e}) \ {d}] \in Int
          BY <3>5, <5>1
        <5>6. h[s] = g[e] + it[s \ {e}]
          BY <3>6, <4>4
        <5>7. QED
          BY <4>4, <5>2, <5>3, <5>4, <5>5, <5>6 DEF SumStep
      <4>5. QED
        BY <4>1, <4>2, <4>3, <4>4
    <3>8. IsSumFn(g, T, h)
      BY <3>6, <3>7 DEF IsSumFn
    <3>9. QED
      BY <3>8
  <2>3. QED
    BY <2>1, <2>2
<1>5. PICK Good : Good = {s \in SUBSET S : \E it : IsSumFn(g, s, it)}
  OBVIOUS
<1>6. \A Y \in SUBSET S : (\A Z \in SUBSET Y : Z # Y => Z \in Good) => Y \in Good
  BY <1>1, <1>5
<1>7. SUBSET S \subseteq Good
  BY <1>6, SubsetInduction
<1>2. QED
  BY <1>5, <1>7
-----------------------------------------------------------------------------
(***************************************************************************)
(* The facts the proofs of the models cite.                               *)
(***************************************************************************)

\* The fold over a finite set of integers satisfies its equation.
LEMMA SumFnChosen ==
    ASSUME NEW g, NEW S, IsFiniteSet(S), \A x \in S : g[x] \in Int
    PROVE  IsSumFn(g, S, CHOOSE it : IsSumFn(g, S, it))
BY SumFnExists

-----------------------------------------------------------------------------
(* Arithmetic the sums are used with.                                      *)

\* Multiplying an inequality by a natural keeps it.
LEMMA MulLeq ==
    ASSUME NEW a \in Nat, NEW b \in Int, NEW c \in Int, b <= c
    PROVE  a * b <= a * c
OBVIOUS

\* The quotient by a positive divisor, times the divisor, is at most the
\* dividend.
LEMMA DivFacts ==
    ASSUME NEW n \in Nat, NEW d \in Nat \ {0}
    PROVE  /\ n \div d \in Nat
           /\ d * (n \div d) <= n
OBVIOUS

\* A positive factor can be cancelled from both sides of an inequality.
LEMMA MulCancel ==
    ASSUME NEW d \in Nat \ {0}, NEW x \in Int, NEW y \in Int, d * x <= d * y
    PROVE  x <= y
OBVIOUS

\* A dividend of at most m * d gives a quotient of at most m.
LEMMA DivBelow ==
    ASSUME NEW n \in Nat, NEW d \in Nat \ {0}, NEW m \in Nat, n <= m * d
    PROVE  n \div d <= m
OBVIOUS

\* Floor division by a positive divisor is monotone in the dividend.
LEMMA DivMono ==
    ASSUME NEW n1 \in Nat, NEW n2 \in Nat, NEW d \in Nat \ {0}, n1 <= n2
    PROVE  n1 \div d <= n2 \div d
OBVIOUS

-----------------------------------------------------------------------------
LEMMA SumEmpty ==
    ASSUME NEW g
    PROVE  Sum(g, {}) = 0
<1>1. (\A x \in {} : g[x] \in Int) /\ IsFiniteSet({})
  BY FS_EmptySet
<1>2. IsSumFn(g, {}, CHOOSE it : IsSumFn(g, {}, it))
  BY <1>1, SumFnChosen
<1>3. QED
  BY <1>2, SumUnfold DEF IsSumFn, SumStep

\* A sum of integers is an integer.
LEMMA SumInt ==
    ASSUME NEW g, NEW S, IsFiniteSet(S), \A x \in S : g[x] \in Int
    PROVE  Sum(g, S) \in Int
BY SumFnChosen, SumFnInt, SumUnfold

\* Taking any element out of the sum.
LEMMA SumRemove ==
    ASSUME NEW g, NEW S, IsFiniteSet(S), \A x \in S : g[x] \in Int, NEW c \in S
    PROVE  Sum(g, S) = g[c] + Sum(g, S \ {c})
<1>1. IsFiniteSet(S \ {c})
  BY FS_RemoveElement
<1>2. IsSumFn(g, S, CHOOSE it : IsSumFn(g, S, it))
  BY SumFnChosen
<1>3. IsSumFn(g, S \ {c}, CHOOSE it : IsSumFn(g, S \ {c}, it))
  BY <1>1, SumFnChosen
<1>4. (CHOOSE it : IsSumFn(g, S, it))[S]
        = g[c] + (CHOOSE it : IsSumFn(g, S, it))[S \ {c}]
  BY <1>2, SumFnRemove
<1>5. (CHOOSE it : IsSumFn(g, S, it))[S \ {c}]
        = (CHOOSE it : IsSumFn(g, S \ {c}, it))[S \ {c}]
  BY <1>1, <1>2, <1>3, SumFnAgree
<1>6. QED
  BY <1>4, <1>5, SumUnfold

\* Adding an element that is not yet in the set.
LEMMA SumAdd ==
    ASSUME NEW g, NEW S, IsFiniteSet(S), NEW c, c \notin S,
           \A x \in S \cup {c} : g[x] \in Int
    PROVE  Sum(g, S \cup {c}) = g[c] + Sum(g, S)
<1>1. IsFiniteSet(S \cup {c}) /\ (S \cup {c}) \ {c} = S
  BY FS_AddElement
<1>2. QED
  BY <1>1, SumRemove

(***************************************************************************)
(* Sums compare as their terms do: equal terms give equal sums, smaller    *)
(* terms a smaller sum.  Both by induction with SumRemove.                 *)
(***************************************************************************)
LEMMA SumMonotone ==
    ASSUME NEW g, NEW h, NEW S, IsFiniteSet(S),
           \A x \in S : g[x] \in Int /\ h[x] \in Int /\ g[x] <= h[x]
    PROVE  Sum(g, S) <= Sum(h, S)
<1>1. \A T \in SUBSET S :
         (\A U \in SUBSET T : U # T => U \in {s \in SUBSET S : Sum(g, s) <= Sum(h, s)})
         => T \in {s \in SUBSET S : Sum(g, s) <= Sum(h, s)}
  <2> SUFFICES ASSUME NEW T \in SUBSET S,
                      \A U \in SUBSET T : U # T =>
                         U \in {s \in SUBSET S : Sum(g, s) <= Sum(h, s)}
               PROVE  Sum(g, T) <= Sum(h, T)
    OBVIOUS
  <2>1. IsFiniteSet(T)
    BY FS_Subset
  <2>2. CASE T = {}
    BY <2>2, SumEmpty
  <2>3. CASE T # {}
    <3>1. PICK c \in T : TRUE
      BY <2>3
    <3>2. Sum(g, T) = g[c] + Sum(g, T \ {c}) /\ Sum(h, T) = h[c] + Sum(h, T \ {c})
      BY <2>1, SumRemove
    <3>3. IsFiniteSet(T \ {c})
      BY <2>1, FS_Subset
    <3>4. Sum(g, T \ {c}) \in Int /\ Sum(h, T \ {c}) \in Int
      BY <3>3, SumInt
    <3>5. Sum(g, T \ {c}) <= Sum(h, T \ {c})
      OBVIOUS
    <3>6. QED
      BY <3>2, <3>4, <3>5
  <2>4. QED
    BY <2>2, <2>3
<1>5. PICK Good : Good = {s \in SUBSET S : Sum(g, s) <= Sum(h, s)}
  OBVIOUS
<1>6. \A Y \in SUBSET S : (\A Z \in SUBSET Y : Z # Y => Z \in Good) => Y \in Good
  BY <1>1, <1>5
<1>7. SUBSET S \subseteq Good
  BY <1>6, SubsetInduction
<1>2. QED
  BY <1>5, <1>7

LEMMA SumCongruent ==
    ASSUME NEW g, NEW h, NEW S, IsFiniteSet(S),
           \A x \in S : g[x] \in Int /\ g[x] = h[x]
    PROVE  Sum(g, S) = Sum(h, S)
<1>1. Sum(g, S) <= Sum(h, S) /\ Sum(h, S) <= Sum(g, S)
  BY SumMonotone
<1>2. QED
  BY <1>1, SumInt
\* A sum of naturals is a natural.
LEMMA SumNat ==
    ASSUME NEW g, NEW S, IsFiniteSet(S), \A x \in S : g[x] \in Nat
    PROVE  Sum(g, S) \in Nat
<1>1. \A T \in SUBSET S :
         (\A U \in SUBSET T : U # T => U \in {s \in SUBSET S : Sum(g, s) \in Nat})
         => T \in {s \in SUBSET S : Sum(g, s) \in Nat}
  <2> SUFFICES ASSUME NEW T \in SUBSET S,
                      \A U \in SUBSET T : U # T => U \in {s \in SUBSET S : Sum(g, s) \in Nat}
               PROVE  Sum(g, T) \in Nat
    OBVIOUS
  <2>1. IsFiniteSet(T)
    BY FS_Subset
  <2>2. CASE T = {}
    BY <2>2, SumEmpty
  <2>3. CASE T # {}
    <3>1. PICK c \in T : TRUE
      BY <2>3
    <3>2. Sum(g, T) = g[c] + Sum(g, T \ {c})
      BY <2>1, SumRemove
    <3>3. Sum(g, T \ {c}) \in Nat
      OBVIOUS
    <3>4. QED
      BY <3>2, <3>3
  <2>4. QED
    BY <2>2, <2>3
<1>5. PICK Good : Good = {s \in SUBSET S : Sum(g, s) \in Nat}
  OBVIOUS
<1>6. \A Y \in SUBSET S : (\A Z \in SUBSET Y : Z # Y => Z \in Good) => Y \in Good
  BY <1>1, <1>5
<1>7. SUBSET S \subseteq Good
  BY <1>6, SubsetInduction
<1>2. QED
  BY <1>5, <1>7

\* SumFunction is the sum over the function's domain.
LEMMA SumFunctionIsSum ==
    ASSUME NEW f
    PROVE  SumFunction(f) = Sum(f, DOMAIN f)
BY DEF SumFunction, SumFunctionOnSet, FoldFunctionOnSet, Sum, MapThenSumSet

\* Changing one entry of a function changes its sum by the difference.
LEMMA SumFunctionExcept ==
    ASSUME NEW D, IsFiniteSet(D), NEW f \in [D -> Int], NEW a \in D, NEW v \in Int
    PROVE  SumFunction([f EXCEPT ![a] = v]) = SumFunction(f) - f[a] + v
<1>1. [f EXCEPT ![a] = v] \in [D -> Int]
  OBVIOUS
<1>2. Sum([f EXCEPT ![a] = v], D) = v + Sum([f EXCEPT ![a] = v], D \ {a})
  BY <1>1, SumRemove
<1>3. Sum(f, D) = f[a] + Sum(f, D \ {a})
  BY SumRemove
<1>4. IsFiniteSet(D \ {a})
  BY FS_RemoveElement
<1>5. Sum([f EXCEPT ![a] = v], D \ {a}) = Sum(f, D \ {a})
  BY <1>4, SumCongruent
<1>6. Sum(f, D \ {a}) \in Int
  BY <1>4, SumInt
<1>7. /\ SumFunction([f EXCEPT ![a] = v]) = Sum([f EXCEPT ![a] = v], D)
      /\ SumFunction(f) = Sum(f, D)
  <2>1. DOMAIN [f EXCEPT ![a] = v] = D /\ DOMAIN f = D
    OBVIOUS
  <2>2. QED
    BY <2>1, SumFunctionIsSum
<1>8. QED
  BY <1>2, <1>3, <1>5, <1>6, <1>7
(***************************************************************************)
(* Sums are linear: a constant factor comes out of a sum, and the sum of   *)
(* two terms is the sum of the two sums.                                   *)
(***************************************************************************)
LEMMA SumScale ==
    ASSUME NEW g, NEW S, IsFiniteSet(S), \A x \in S : g[x] \in Int, NEW a \in Int
    PROVE  Sum([x \in S |-> a * g[x]], S) = a * Sum(g, S)
<1>1. \A T \in SUBSET S :
         (\A U \in SUBSET T : U # T =>
             U \in {s \in SUBSET S : Sum([x \in S |-> a * g[x]], s) = a * Sum(g, s)})
         => T \in {s \in SUBSET S : Sum([x \in S |-> a * g[x]], s) = a * Sum(g, s)}
  <2> SUFFICES ASSUME NEW T \in SUBSET S,
                      \A U \in SUBSET T : U # T =>
                         U \in {s \in SUBSET S : Sum([x \in S |-> a * g[x]], s) = a * Sum(g, s)}
               PROVE  Sum([x \in S |-> a * g[x]], T) = a * Sum(g, T)
    OBVIOUS
  <2>1. IsFiniteSet(T)
    BY FS_Subset
  <2>2. CASE T = {}
    BY <2>2, SumEmpty
  <2>3. CASE T # {}
    <3>1. PICK c \in T : TRUE
      BY <2>3
    <3>2. \A y \in T : [x \in S |-> a * g[x]][y] \in Int
      OBVIOUS
    <3>3. Sum([x \in S |-> a * g[x]], T) = a * g[c] + Sum([x \in S |-> a * g[x]], T \ {c})
      BY <2>1, <3>2, SumRemove
    <3>4. Sum(g, T) = g[c] + Sum(g, T \ {c})
      BY <2>1, SumRemove
    <3>5. Sum([x \in S |-> a * g[x]], T \ {c}) = a * Sum(g, T \ {c})
      OBVIOUS
    <3>6. Sum(g, T \ {c}) \in Int
      BY <2>1, FS_Subset, SumInt
    <3>7. QED
      BY <3>3, <3>4, <3>5, <3>6
  <2>4. QED
    BY <2>2, <2>3
<1>5. PICK Good : Good = {s \in SUBSET S : Sum([x \in S |-> a * g[x]], s) = a * Sum(g, s)}
  OBVIOUS
<1>6. \A Y \in SUBSET S : (\A Z \in SUBSET Y : Z # Y => Z \in Good) => Y \in Good
  BY <1>1, <1>5
<1>7. SUBSET S \subseteq Good
  BY <1>6, SubsetInduction
<1>2. QED
  BY <1>5, <1>7

LEMMA SumPlus ==
    ASSUME NEW g, NEW h, NEW S, IsFiniteSet(S),
           \A x \in S : g[x] \in Int /\ h[x] \in Int
    PROVE  Sum([x \in S |-> g[x] + h[x]], S) = Sum(g, S) + Sum(h, S)
<1>1. \A T \in SUBSET S :
         (\A U \in SUBSET T : U # T =>
             U \in {s \in SUBSET S : Sum([x \in S |-> g[x] + h[x]], s) = Sum(g, s) + Sum(h, s)})
         => T \in {s \in SUBSET S : Sum([x \in S |-> g[x] + h[x]], s) = Sum(g, s) + Sum(h, s)}
  <2> SUFFICES ASSUME NEW T \in SUBSET S,
                      \A U \in SUBSET T : U # T =>
                         U \in {s \in SUBSET S :
                                  Sum([x \in S |-> g[x] + h[x]], s) = Sum(g, s) + Sum(h, s)}
               PROVE  Sum([x \in S |-> g[x] + h[x]], T) = Sum(g, T) + Sum(h, T)
    OBVIOUS
  <2>1. IsFiniteSet(T)
    BY FS_Subset
  <2>2. CASE T = {}
    BY <2>2, SumEmpty
  <2>3. CASE T # {}
    <3>1. PICK c \in T : TRUE
      BY <2>3
    <3>2. \A y \in T : [x \in S |-> g[x] + h[x]][y] \in Int
      OBVIOUS
    <3>3. Sum([x \in S |-> g[x] + h[x]], T)
            = (g[c] + h[c]) + Sum([x \in S |-> g[x] + h[x]], T \ {c})
      BY <2>1, <3>2, SumRemove
    <3>4. Sum(g, T) = g[c] + Sum(g, T \ {c}) /\ Sum(h, T) = h[c] + Sum(h, T \ {c})
      BY <2>1, SumRemove
    <3>5. Sum([x \in S |-> g[x] + h[x]], T \ {c}) = Sum(g, T \ {c}) + Sum(h, T \ {c})
      OBVIOUS
    <3>6. Sum(g, T \ {c}) \in Int /\ Sum(h, T \ {c}) \in Int
      BY <2>1, FS_Subset, SumInt
    <3>7. QED
      BY <3>3, <3>4, <3>5, <3>6
  <2>4. QED
    BY <2>2, <2>3
<1>5. PICK Good : Good = {s \in SUBSET S : Sum([x \in S |-> g[x] + h[x]], s) = Sum(g, s) + Sum(h, s)}
  OBVIOUS
<1>6. \A Y \in SUBSET S : (\A Z \in SUBSET Y : Z # Y => Z \in Good) => Y \in Good
  BY <1>1, <1>5
<1>7. SUBSET S \subseteq Good
  BY <1>6, SubsetInduction
<1>2. QED
  BY <1>5, <1>7

\* Two functions that differ at most at s and r: their sums differ by the
\* differences there.
LEMMA SumTwoPoints ==
    ASSUME NEW D, IsFiniteSet(D), NEW g, NEW h,
           \A x \in D : g[x] \in Int /\ h[x] \in Int,
           NEW s \in D, NEW r \in D, s # r,
           \A x \in D \ {s, r} : g[x] = h[x]
    PROVE  Sum(h, D) = Sum(g, D) - g[s] - g[r] + h[s] + h[r]
<1>1. IsFiniteSet(D \ {s}) /\ IsFiniteSet((D \ {s}) \ {r}) /\ r \in D \ {s}
  BY FS_RemoveElement
<1>2. Sum(g, D) = g[s] + (g[r] + Sum(g, (D \ {s}) \ {r}))
  BY <1>1, SumRemove
<1>3. Sum(h, D) = h[s] + (h[r] + Sum(h, (D \ {s}) \ {r}))
  BY <1>1, SumRemove
<1>4. Sum(g, (D \ {s}) \ {r}) = Sum(h, (D \ {s}) \ {r})
  BY <1>1, SumCongruent
<1>5. Sum(g, (D \ {s}) \ {r}) \in Int
  BY <1>1, SumInt
<1>6. QED
  BY <1>2, <1>3, <1>4, <1>5

\* A function that is 0 everywhere but at c sums to its value at c.
LEMMA SumOnePoint ==
    ASSUME NEW D, IsFiniteSet(D), NEW g, \A x \in D : g[x] \in Int,
           NEW c \in D, \A x \in D \ {c} : g[x] = 0
    PROVE  Sum(g, D) = g[c]
<1>1. IsFiniteSet(D \ {c})
  BY FS_RemoveElement
<1>2. Sum(g, D \ {c}) = Sum([x \in D \ {c} |-> 0 * g[x]], D \ {c})
  BY <1>1, SumCongruent
<1>3. Sum([x \in D \ {c} |-> 0 * g[x]], D \ {c}) = 0 * Sum(g, D \ {c})
  BY <1>1, SumScale
<1>4. Sum(g, D \ {c}) \in Int
  BY <1>1, SumInt
<1>5. QED
  BY <1>2, <1>3, <1>4, SumRemove

-----------------------------------------------------------------------------
(***************************************************************************)
(* Max of FiniteSetsExt, and the range of a function on a finite domain.   *)
(***************************************************************************)

\* A finite nonempty set of integers has a largest element, and Max is it.
LEMMA MaxIsLargest ==
    ASSUME NEW S, IsFiniteSet(S), S \subseteq Int, S # {}
    PROVE  Max(S) \in S /\ \A y \in S : y <= Max(S)
<1>1. \A T \in SUBSET S :
         (\A U \in SUBSET T : U # T =>
             U \in {s \in SUBSET S : s = {} \/ \E x \in s : \A y \in s : y <= x})
         => T \in {s \in SUBSET S : s = {} \/ \E x \in s : \A y \in s : y <= x}
  <2> SUFFICES ASSUME NEW T \in SUBSET S,
                      \A U \in SUBSET T : U # T =>
                         U \in {s \in SUBSET S : s = {} \/ \E x \in s : \A y \in s : y <= x},
                      T # {}
               PROVE  \E x \in T : \A y \in T : y <= x
    OBVIOUS
  <2>1. PICK c \in T : TRUE
    OBVIOUS
  <2>2. T \ {c} = {} \/ \E x \in T \ {c} : \A y \in T \ {c} : y <= x
    <3>1. T \ {c} \in SUBSET T /\ T \ {c} # T
      BY <2>1
    <3>2. QED
      BY <3>1
  <2>3. CASE T \ {c} = {}
    BY <2>3
  <2>4. CASE T \ {c} # {}
    <3>1. PICK x \in T \ {c} : \A y \in T \ {c} : y <= x
      BY <2>2, <2>4
    <3>2. QED
      BY <3>1
  <2>5. QED
    BY <2>3, <2>4
<1>5. PICK Good : Good = {s \in SUBSET S : s = {} \/ \E x \in s : \A y \in s : y <= x}
  OBVIOUS
<1>6. \A Y \in SUBSET S : (\A Z \in SUBSET Y : Z # Y => Z \in Good) => Y \in Good
  BY <1>1, <1>5
<1>7. SUBSET S \subseteq Good
  BY <1>6, SubsetInduction
<1>2. \E x \in S : \A y \in S : y <= x
  BY <1>5, <1>7
<1>3. QED
  BY <1>2 DEF Max

\* The range of a function on a finite domain is finite.
LEMMA RangeFinite ==
    ASSUME NEW D, NEW R, NEW f \in [D -> R], IsFiniteSet(D)
    PROVE  IsFiniteSet(Range(f))
<1>1. f \in Surjection(D, Range(f))
  BY DEF Surjection, Range
<1>2. QED
  BY <1>1, FS_Surjection
\* When every element of B is at most some element of A, Max(B) <= Max(A).
LEMMA MaxDominated ==
    ASSUME NEW A, NEW B, IsFiniteSet(A), IsFiniteSet(B),
           A \subseteq Int, B \subseteq Int, A # {}, B # {},
           \A b \in B : \E a \in A : b <= a
    PROVE  Max(B) <= Max(A)
<1>1. Max(A) \in A /\ \A y \in A : y <= Max(A)
  BY MaxIsLargest
<1>2. Max(B) \in B
  BY MaxIsLargest
<1>3. PICK a \in A : Max(B) <= a
  BY <1>2
<1>4. a <= Max(A) /\ a \in Int /\ Max(A) \in Int /\ Max(B) \in Int
  BY <1>1, <1>2
<1>5. QED
  BY <1>3, <1>4

\* One term of a sum of naturals is at most the sum.
LEMMA TermBelowSum ==
    ASSUME NEW g, NEW S, IsFiniteSet(S), \A x \in S : g[x] \in Nat, NEW c \in S
    PROVE  g[c] <= Sum(g, S)
<1>1. Sum(g, S) = g[c] + Sum(g, S \ {c})
  BY SumRemove
<1>2. IsFiniteSet(S \ {c})
  BY FS_RemoveElement
<1>3. Sum(g, S \ {c}) \in Nat
  BY <1>2, SumNat
<1>4. QED
  BY <1>1, <1>3
=============================================================================
