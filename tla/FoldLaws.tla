------------------------------ MODULE FoldLaws ------------------------------
(***************************************************************************)
(* Folds over finite sets, and so over sequences: how MapThenFoldSet of    *)
(* the community modules, of which sums and FoldLeft are cases, steps from *)
(* one set to the next.  Operator and order are parameters of the module;  *)
(* a module that proves something about a fold instantiates it.            *)
(*                                                                         *)
(* The inductions are about sets of cases and not about predicates, so     *)
(* that they can be cited.                                                 *)
(***************************************************************************)
EXTENDS Integers, Sequences, Folds, FiniteSetTheorems, WellFoundedInduction, TLAPS

CONSTANTS
    op(_, _),   \* adds an element to what the rest of the set amounts to
    choose(_)   \* the element of a set that is added last

Fold(base, f, S) == MapThenFoldSet(op, base, LAMBDA x : f[x], choose, S)

-----------------------------------------------------------------------------
(***************************************************************************)
(* Induction.                                                              *)
(***************************************************************************)

(* A set of cases that has every subset of S all whose own subsets it has  *)
(* has all of them.                                                        *)
LEMMA SubsetInduction ==
    ASSUME NEW S, IsFiniteSet(S), NEW A \in SUBSET SUBSET S,
           \A T \in SUBSET S : (\A U \in SUBSET T : U # T => U \in A) => T \in A
    PROVE  A = SUBSET S
<1> SUFFICES ASSUME (SUBSET S) \ A # {} PROVE FALSE
  OBVIOUS
<1> DEFINE B == (SUBSET S) \ A
<1>1. IsWellFoundedOn(StrictSubsetOrdering(S), FiniteSubsetsOf(S))
  BY FS_StrictSubsetOrderingWellFounded
<1>2. B \subseteq FiniteSubsetsOf(S) /\ B # {}
  BY FS_FiniteSubsetsOfFinite
<1>3. PICK T \in B : \A U \in B : ~(<<U, T>> \in StrictSubsetOrdering(S))
  <2> HIDE DEF B
  <2>. QED BY <1>1, <1>2, WFMin
<1>4. ASSUME NEW U \in SUBSET T, U # T PROVE U \in A
  BY <1>3, <1>4 DEF StrictSubsetOrdering
<1>. QED BY <1>3, <1>4

(* The same for natural numbers.                                           *)
LEMMA NatSetInduction ==
    ASSUME NEW A, 0 \in A, \A n \in Nat : n \in A => n + 1 \in A
    PROVE  Nat \subseteq A
<1> SUFFICES ASSUME Nat \ A # {} PROVE FALSE
  OBVIOUS
<1> DEFINE B == Nat \ A
           Less == {ss \in Nat \X Nat : ss[1] < ss[2]}
<1>1. IsWellFoundedOn(Less, Nat)
  BY NatLessThanWellFounded DEF OpToRel
<1>2. PICK n \in B : \A m \in B : ~(<<m, n>> \in Less)
  <2>1. B \subseteq Nat /\ B # {}
    OBVIOUS
  <2> HIDE DEF B, Less
  <2>. QED BY <1>1, <2>1, WFMin
<1>3. n \in Nat /\ n - 1 \in Nat /\ n \notin A
  BY <1>2
<1>4. n - 1 \in A
  <2>1. <<n - 1, n>> \in Less
    BY <1>3
  <2>. QED BY <1>2, <1>3, <2>1
<1>. QED BY <1>3, <1>4

-----------------------------------------------------------------------------
(***************************************************************************)
(* The recursive function behind a fold exists, and is the only one.       *)
(***************************************************************************)
Body(g, T, base, f) ==
    IF T = {} THEN base ELSE op(f[choose(T)], g[T \ {choose(T)}])

Solves(g, S, base, f) == g = [T \in SUBSET S |-> Body(g, T, base, f)]

Solution(S, base, f) == CHOOSE g : Solves(g, S, base, f)

ChoosesFrom(S) == \A T \in SUBSET S : T # {} => choose(T) \in T

LEMMA FoldIsSolution ==
    ASSUME NEW base, NEW f, NEW S
    PROVE  Fold(base, f, S) = Solution(S, base, f)[S]
BY DEF Fold, MapThenFoldSet, Solution, Solves, Body

LEMMA SolutionsAgree ==
    ASSUME NEW base, NEW f, NEW S, IsFiniteSet(S), ChoosesFrom(S),
           NEW R, NEW T, S \subseteq R, S \subseteq T,
           NEW g, NEW h, Solves(g, R, base, f), Solves(h, T, base, f)
    PROVE  g[S] = h[S]
<1> DEFINE A == {U \in SUBSET S : g[U] = h[U]}
<1>1. ASSUME NEW U \in SUBSET S, \A V \in SUBSET U : V # U => V \in A
      PROVE  U \in A
  <2>1. g[U] = Body(g, U, base, f) /\ h[U] = Body(h, U, base, f)
    BY DEF Solves
  <2>2. U # {} => U \ {choose(U)} \in A
    BY <1>1 DEF ChoosesFrom
  <2>. QED BY <2>1, <2>2 DEF Body
<1>2. A = SUBSET S
  <2>1. A \in SUBSET SUBSET S
    OBVIOUS
  <2> HIDE DEF A
  <2>. QED BY <1>1, <2>1, SubsetInduction
<1>. QED BY <1>2

LEMMA SolutionExists ==
    ASSUME NEW base, NEW f, NEW S, IsFiniteSet(S), ChoosesFrom(S)
    PROVE  Solves(Solution(S, base, f), S, base, f)
<1> DEFINE A == {T \in SUBSET S : \E g : Solves(g, T, base, f)}
<1>1. ASSUME NEW T \in SUBSET S, \A U \in SUBSET T : U # T => U \in A
      PROVE  T \in A
  <2> DEFINE h == [U \in SUBSET T |->
                     Body([V \in SUBSET T |-> Solution(V, base, f)[V]], U, base, f)]
  <2>1. ASSUME NEW U \in SUBSET T, U # T
        PROVE  h[U] = Solution(U, base, f)[U]
    <3>1. Solves(Solution(U, base, f), U, base, f)
      BY <1>1, <2>1 DEF Solution
    <3>2. Solution(U, base, f)[U] = Body(Solution(U, base, f), U, base, f)
      BY <3>1 DEF Solves
    <3>3. CASE U = {}
      BY <3>2, <3>3 DEF Body
    <3>4. CASE U # {}
      <4> DEFINE V == U \ {choose(U)}
      <4>1. V \in SUBSET U /\ V # U /\ V # T /\ V \in SUBSET T
        BY <3>4 DEF ChoosesFrom
      <4>2. Solves(Solution(V, base, f), V, base, f)
        BY <1>1, <4>1 DEF Solution
      <4>3. IsFiniteSet(V) /\ ChoosesFrom(V)
        BY <4>1, FS_Subset DEF ChoosesFrom
      <4>4. Solution(U, base, f)[V] = Solution(V, base, f)[V]
        <5> HIDE DEF V
        <5>. QED BY <3>1, <4>1, <4>2, <4>3, SolutionsAgree
      <4>. QED BY <3>2, <3>4, <4>1, <4>4 DEF Body
    <3>. QED BY <3>3, <3>4
  <2>2. Solves(h, T, base, f)
    <3>1. ASSUME NEW U \in SUBSET T PROVE h[U] = Body(h, U, base, f)
      <4>1. U # {} => U \ {choose(U)} \in SUBSET T /\ U \ {choose(U)} # T
        BY DEF ChoosesFrom
      <4>. QED BY <2>1, <4>1 DEF Body
    <3>2. h = [U \in SUBSET T |-> h[U]]
      OBVIOUS
    <3>. QED BY <3>1, <3>2 DEF Solves
  <2>. QED BY <2>2
<1>2. A = SUBSET S
  <2>1. A \in SUBSET SUBSET S
    OBVIOUS
  <2> HIDE DEF A
  <2>. QED BY <1>1, <2>1, SubsetInduction
<1>3. \E g : Solves(g, S, base, f)
  BY <1>2
<1>. QED BY <1>3 DEF Solution

(* A fold of a set is the element chosen last, added to the fold of the    *)
(* others.                                                                 *)
THEOREM FoldStep ==
    ASSUME NEW base, NEW f, NEW S, IsFiniteSet(S), ChoosesFrom(S), S # {}
    PROVE  Fold(base, f, S) = op(f[choose(S)], Fold(base, f, S \ {choose(S)}))
<1> DEFINE V == S \ {choose(S)}
<1>1. Solves(Solution(S, base, f), S, base, f)
  BY SolutionExists
<1>2. IsFiniteSet(V) /\ ChoosesFrom(V)
  BY FS_Subset DEF ChoosesFrom
<1>3. Solves(Solution(V, base, f), V, base, f)
  BY <1>2, SolutionExists
<1>4. Solution(S, base, f)[V] = Solution(V, base, f)[V]
  <2>1. V \subseteq S
    OBVIOUS
  <2> HIDE DEF V
  <2>. QED BY <1>1, <1>2, <1>3, <2>1, SolutionsAgree
<1>5. Solution(S, base, f)[S] = Body(Solution(S, base, f), S, base, f)
  BY <1>1 DEF Solves
<1>. QED BY <1>4, <1>5, FoldIsSolution DEF Body

(* A fold of nothing is the base.                                          *)
THEOREM FoldEmpty ==
    ASSUME NEW base, NEW f PROVE Fold(base, f, {}) = base
<1>1. IsFiniteSet({}) /\ ChoosesFrom({})
  BY FS_EmptySet DEF ChoosesFrom
<1>2. Solves(Solution({}, base, f), {}, base, f)
  BY <1>1, SolutionExists
<1>3. Solution({}, base, f)[{}] = Body(Solution({}, base, f), {}, base, f)
  BY <1>2 DEF Solves
<1>. QED BY <1>3, FoldIsSolution DEF Body

(* A fold depends on the values in the set only.                           *)
THEOREM FoldCongruence ==
    ASSUME NEW base, NEW f, NEW g, NEW S, IsFiniteSet(S), ChoosesFrom(S),
           \A x \in S : f[x] = g[x]
    PROVE  Fold(base, f, S) = Fold(base, g, S)
<1> DEFINE A == {T \in SUBSET S : Fold(base, f, T) = Fold(base, g, T)}
<1>1. ASSUME NEW T \in SUBSET S, \A U \in SUBSET T : U # T => U \in A
      PROVE  T \in A
  <2>1. CASE T = {}
    BY <2>1, FoldEmpty
  <2>2. CASE T # {}
    <3>1. IsFiniteSet(T) /\ ChoosesFrom(T) /\ choose(T) \in T
      BY <2>2, FS_Subset DEF ChoosesFrom
    <3>2. T \ {choose(T)} \in A
      BY <1>1, <3>1
    <3>3. /\ Fold(base, f, T) = op(f[choose(T)], Fold(base, f, T \ {choose(T)}))
          /\ Fold(base, g, T) = op(g[choose(T)], Fold(base, g, T \ {choose(T)}))
      BY <2>2, <3>1, FoldStep
    <3>. QED BY <3>1, <3>2, <3>3
  <2>. QED BY <2>1, <2>2
<1>2. A = SUBSET S
  <2>1. A \in SUBSET SUBSET S
    OBVIOUS
  <2> HIDE DEF A
  <2>. QED BY <1>1, <2>1, SubsetInduction
<1>. QED BY <1>2

(* A fold stays in a type that the operator stays in.                      *)
THEOREM FoldType ==
    ASSUME NEW Typ, NEW base \in Typ, NEW f, NEW S, IsFiniteSet(S), ChoosesFrom(S),
           \A x \in S, a \in Typ : op(f[x], a) \in Typ
    PROVE  Fold(base, f, S) \in Typ
<1> DEFINE A == {T \in SUBSET S : Fold(base, f, T) \in Typ}
<1>1. ASSUME NEW T \in SUBSET S, \A U \in SUBSET T : U # T => U \in A
      PROVE  T \in A
  <2>1. CASE T = {}
    BY <2>1, FoldEmpty
  <2>2. CASE T # {}
    <3>1. IsFiniteSet(T) /\ ChoosesFrom(T) /\ choose(T) \in T
      BY <2>2, FS_Subset DEF ChoosesFrom
    <3>2. T \ {choose(T)} \in A
      BY <1>1, <3>1
    <3>3. Fold(base, f, T) = op(f[choose(T)], Fold(base, f, T \ {choose(T)}))
      BY <2>2, <3>1, FoldStep
    <3>. QED BY <3>1, <3>2, <3>3
  <2>. QED BY <2>1, <2>2
<1>2. A = SUBSET S
  <2>1. A \in SUBSET SUBSET S
    OBVIOUS
  <2> HIDE DEF A
  <2>. QED BY <1>1, <2>1, SubsetInduction
<1>. QED BY <1>2

Closed(Typ) == \A a, b \in Typ : op(a, b) \in Typ
Commutes(Typ) == \A a, b, c \in Typ : op(a, op(b, c)) = op(b, op(a, c))

(* If the order does not matter, any element may be the one added last.    *)
THEOREM FoldAnyLast ==
    ASSUME NEW Typ, NEW base \in Typ, NEW f, NEW S, IsFiniteSet(S), ChoosesFrom(S),
           \A x \in S : f[x] \in Typ,
           Closed(Typ), Commutes(Typ), NEW y \in S
    PROVE  Fold(base, f, S) = op(f[y], Fold(base, f, S \ {y}))
<1> DEFINE A == {T \in SUBSET S :
                   \A x \in T : Fold(base, f, T) = op(f[x], Fold(base, f, T \ {x}))}
<1>1. ASSUME NEW T \in SUBSET S, \A U \in SUBSET T : U # T => U \in A
      PROVE  T \in A
  <2> SUFFICES ASSUME NEW x \in T
               PROVE  Fold(base, f, T) = op(f[x], Fold(base, f, T \ {x}))
    OBVIOUS
  <2> DEFINE c == choose(T)
             R == T \ {x, c}
  <2>1. IsFiniteSet(T) /\ ChoosesFrom(T) /\ c \in T
    BY FS_Subset DEF ChoosesFrom
  <2>2. Fold(base, f, T) = op(f[c], Fold(base, f, T \ {c}))
    <3>1. T # {}
      OBVIOUS
    <3>. QED BY <2>1, <3>1, FoldStep
  <2>3. CASE x # c
    <3>1. T \ {c} \in A /\ T \ {x} \in A
      BY <1>1, <2>1
    <3>2. /\ Fold(base, f, T \ {c}) = op(f[x], Fold(base, f, R))
          /\ Fold(base, f, T \ {x}) = op(f[c], Fold(base, f, R))
      <4>1. (T \ {c}) \ {x} = R /\ (T \ {x}) \ {c} = R /\ x \in T \ {c} /\ c \in T \ {x}
        BY <2>1, <2>3
      <4> HIDE DEF c, R
      <4>. QED BY <3>1, <4>1
    <3>3. Fold(base, f, R) \in Typ
      <4>1. IsFiniteSet(R) /\ ChoosesFrom(R)
        BY <2>1, FS_Subset DEF ChoosesFrom
      <4>2. R \in SUBSET S
        OBVIOUS
      <4> HIDE DEF R
      <4>. QED BY <4>1, <4>2, FoldType DEF Closed
    <3>4. f[x] \in Typ /\ f[c] \in Typ
      BY <2>1
    <3>5. op(f[c], op(f[x], Fold(base, f, R))) = op(f[x], op(f[c], Fold(base, f, R)))
      BY <3>3, <3>4 DEF Commutes
    <3>. QED BY <2>2, <3>2, <3>5
  <2>. QED BY <2>2, <2>3
<1>2. A = SUBSET S
  <2>1. A \in SUBSET SUBSET S
    OBVIOUS
  <2> HIDE DEF A
  <2>. QED BY <1>1, <2>1, SubsetInduction
<1>. QED BY <1>2

-----------------------------------------------------------------------------
(***************************************************************************)
(* Along a sequence: the element added last is the one with the greatest   *)
(* index, as in FoldLeft.                                                  *)
(***************************************************************************)
ChoosesLast ==
    \A n \in Nat : \A T \in SUBSET (1 .. n) :
        T # {} => choose(T) \in T /\ \A i \in T : i <= choose(T)

LEMMA LastOfSome ==
    ASSUME NEW n \in Nat, NEW T \in SUBSET (1 .. n), T # {}
    PROVE  \E x \in T : \A y \in T : y <= x
<1> DEFINE A == {m \in Nat : \A U \in SUBSET (1 .. m) :
                                U # {} => \E x \in U : \A y \in U : y <= x}
<1>1. 0 \in A
  <2>1. 1 .. 0 = {}
    OBVIOUS
  <2>. QED BY <2>1
<1>2. ASSUME NEW m \in Nat, m \in A PROVE m + 1 \in A
  <2>1. ASSUME NEW U \in SUBSET (1 .. m + 1), U # {}
        PROVE  \E x \in U : \A y \in U : y <= x
    <3>1. CASE m + 1 \in U
      BY <3>1
    <3>2. CASE m + 1 \notin U
      <4>1. U \in SUBSET (1 .. m)
        BY <3>2
      <4>. QED BY <1>2, <2>1, <4>1
    <3>. QED BY <3>1, <3>2
  <2>. QED BY <2>1
<1>3. Nat \subseteq A
  <2> HIDE DEF A
  <2>. QED BY <1>1, <1>2, NatSetInduction
<1>. QED BY <1>3

LEMMA IntervalFacts ==
    ASSUME ChoosesLast, NEW n \in Nat
    PROVE  IsFiniteSet(1 .. n) /\ ChoosesFrom(1 .. n)
<1>1. IsFiniteSet(1 .. n)
  BY FS_Interval
<1>. QED BY <1>1 DEF ChoosesLast, ChoosesFrom

(* What is done last is the last element.                                  *)
THEOREM FoldAfter ==
    ASSUME ChoosesLast, NEW base, NEW s, NEW n \in Nat, NEW S \in SUBSET (1 .. n)
    PROVE  Fold(base, s, S \cup {n + 1}) = op(s[n + 1], Fold(base, s, S))
<1> DEFINE R == S \cup {n + 1}
<1>1. IsFiniteSet(R) /\ ChoosesFrom(R)
  <2>1. IsFiniteSet(1 .. n + 1) /\ ChoosesFrom(1 .. n + 1) /\ R \subseteq 1 .. n + 1
    BY IntervalFacts
  <2> HIDE DEF R
  <2>. QED BY <2>1, FS_Subset DEF ChoosesFrom
<1>2. /\ n + 1 \in R /\ R # {} /\ R \in SUBSET (1 .. n + 1)
      /\ \A i \in R : i <= n + 1 /\ i \in Nat
      /\ R \ {n + 1} = S
  OBVIOUS
<1> HIDE DEF R
<1>3. choose(R) \in R /\ \A i \in R : i <= choose(R)
  <2>1. n + 1 \in Nat
    OBVIOUS
  <2>. QED BY <1>2, <2>1 DEF ChoosesLast
<1>4. choose(R) = n + 1
  <2> SUFFICES ASSUME NEW c, c = choose(R) PROVE c = n + 1
    OBVIOUS
  <2>1. c \in R /\ n + 1 <= c
    BY <1>2, <1>3
  <2>2. c \in Nat /\ c <= n + 1
    BY <1>2, <2>1
  <2>. QED BY <2>1, <2>2
<1>5. Fold(base, s, R) = op(s[choose(R)], Fold(base, s, R \ {choose(R)}))
  BY <1>1, <1>2, FoldStep
<1>. QED BY <1>2, <1>4, <1>5 DEF R

(* The fold up to the next element is this element, added to the fold up   *)
(* to it.                                                                  *)
THEOREM FoldNext ==
    ASSUME ChoosesLast, NEW base, NEW s, NEW n \in Nat
    PROVE  Fold(base, s, 1 .. n + 1) = op(s[n + 1], Fold(base, s, 1 .. n))
<1> DEFINE S == 1 .. n
<1>1. S \in SUBSET (1 .. n) /\ S \cup {n + 1} = 1 .. n + 1
  OBVIOUS
<1> HIDE DEF S
<1>2. Fold(base, s, S \cup {n + 1}) = op(s[n + 1], Fold(base, s, S))
  BY <1>1, FoldAfter
<1>. QED BY <1>1, <1>2 DEF S

(* Begun anew in the middle, with what some of the elements up to there    *)
(* came to, a fold comes to what they and all later ones do.               *)
THEOREM FoldOnFrom ==
    ASSUME ChoosesLast, NEW base, NEW s, NEW m \in Nat, NEW k \in Nat,
           NEW S \in SUBSET (1 .. m), NEW t, \A i \in 1 .. k : t[i] = s[m + i]
    PROVE  Fold(Fold(base, s, S), t, 1 .. k) = Fold(base, s, S \cup (m + 1 .. m + k))
<1> DEFINE A == {n \in Nat : n <= k =>
                    Fold(Fold(base, s, S), t, 1 .. n) = Fold(base, s, S \cup (m + 1 .. m + n))}
<1>1. 0 \in A
  <2>1. 1 .. 0 = {} /\ S \cup (m + 1 .. m + 0) = S
    OBVIOUS
  <2>. QED BY <2>1, FoldEmpty
<1>2. ASSUME NEW n \in Nat, n \in A PROVE n + 1 \in A
  <2> DEFINE U == S \cup (m + 1 .. m + n)
             V == S \cup (m + 1 .. m + (n + 1))
             l == m + n
  <2> SUFFICES ASSUME n + 1 <= k
               PROVE  Fold(Fold(base, s, S), t, 1 .. n + 1) = Fold(base, s, V)
    OBVIOUS
  <2>1. Fold(Fold(base, s, S), t, 1 .. n) = Fold(base, s, U)
    BY <1>2
  <2>2. t[n + 1] = s[l + 1]
    <3>1. n + 1 \in 1 .. k /\ m + (n + 1) = l + 1
      OBVIOUS
    <3>. QED BY <3>1
  <2>3. Fold(Fold(base, s, S), t, 1 .. n + 1) = op(t[n + 1], Fold(Fold(base, s, S), t, 1 .. n))
    BY FoldNext
  <2>4. l \in Nat /\ U \in SUBSET (1 .. l) /\ V = U \cup {l + 1}
    OBVIOUS
  <2> HIDE DEF U, V, l
  <2>5. Fold(base, s, V) = op(s[l + 1], Fold(base, s, U))
    BY <2>4, FoldAfter
  <2>. QED BY <2>1, <2>2, <2>3, <2>5
<1>3. Nat \subseteq A
  <2> HIDE DEF A
  <2>. QED BY <1>1, <1>2, NatSetInduction
<1>. QED BY <1>3

(* The same with all the elements up to there.                             *)
THEOREM FoldOn ==
    ASSUME ChoosesLast, NEW base, NEW s, NEW m \in Nat, NEW k \in Nat,
           NEW t, \A i \in 1 .. k : t[i] = s[m + i]
    PROVE  Fold(Fold(base, s, 1 .. m), t, 1 .. k) = Fold(base, s, 1 .. m + k)
<1> DEFINE S == 1 .. m
<1>1. S \in SUBSET (1 .. m) /\ S \cup (m + 1 .. m + k) = 1 .. m + k
  OBVIOUS
<1> HIDE DEF S
<1>2. Fold(Fold(base, s, S), t, 1 .. k) = Fold(base, s, S \cup (m + 1 .. m + k))
  BY <1>1, FoldOnFrom
<1>. QED BY <1>1, <1>2 DEF S
=============================================================================
