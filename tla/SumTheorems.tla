------------------------------ MODULE SumTheorems ------------------------------
(* Facts about the sums of the model: SumFunctionOnSet(fun, S) of the community *)
(* modules, the sum of fun[x] for every x of a finite set S.  The definition is *)
(* a recursive function on the subsets of S that takes out an element chosen    *)
(* from each; what is proved here is that any element may be taken out first,   *)
(* and with it everything the ledgers need.                                     *)
EXTENDS Integers, FiniteSets, Functions, FiniteSetTheorems, WellFoundedInduction, TLAPS

-----------------------------------------------------------------------------
(* Induction over the subsets of a finite set *)

\* A set of natural numbers that is not empty has a least one.
LEMMA LeastNatural ==
    ASSUME NEW T \in SUBSET Nat, T # {}
    PROVE  \E m \in T : \A x \in T : m <= x
<1>1. PICK m \in T : \A x \in T : <<x, m>> \notin OpToRel(<, Nat)
  BY NatLessThanWellFounded, WFMin
<1>2. \A x \in T : ~(x < m)
  BY <1>1 DEF OpToRel
<1> QED BY <1>2

\* A family of subsets that holds every subset from which one element less is
\* always in the family, holds them all: of the subsets left out, one with the
\* fewest elements would contradict this.
LEMMA SubsetInduction ==
    ASSUME NEW U, IsFiniteSet(U), NEW Good \in SUBSET SUBSET U,
           \A s \in SUBSET U : (\A x \in s : s \ {x} \in Good) => s \in Good
    PROVE  \A s \in SUBSET U : s \in Good
<1> DEFINE Bad == (SUBSET U) \ Good
           Sizes == {n \in Nat : \E s \in Bad : n = Cardinality(s)}
<1>1. \A s \in SUBSET U : IsFiniteSet(s) /\ Cardinality(s) \in Nat
  BY FS_Subset, FS_CardinalityType
<1>2. ASSUME Bad # {} PROVE FALSE
  <2>1. Sizes \in SUBSET Nat /\ Sizes # {}
    BY <1>1, <1>2
  <2>2. PICK m \in Sizes : \A n \in Sizes : m <= n
    BY <2>1, LeastNatural
  <2>3. PICK s \in Bad : m = Cardinality(s)
    BY <2>2
  <2>4. ASSUME NEW x \in s PROVE s \ {x} \in Good
    <3>1. s \ {x} \in SUBSET U /\ Cardinality(s \ {x}) = m - 1
      BY <1>1, <2>3, <2>4, FS_RemoveElement
    <3>2. m - 1 \notin Sizes
      BY <2>2
    <3> QED BY <1>1, <3>1, <3>2
  <2> QED BY <2>3, <2>4
<1> QED BY <1>2

\* The natural numbers by the same argument.
LEMMA NaturalInduction ==
    ASSUME NEW Good \in SUBSET Nat, 0 \in Good,
           \A n \in Nat : n \in Good => n + 1 \in Good
    PROVE  \A n \in Nat : n \in Good
<1> DEFINE Bad == Nat \ Good
<1>1. ASSUME Bad # {} PROVE FALSE
  <2>1. PICK m \in Bad : \A n \in Bad : m <= n
    BY <1>1, LeastNatural
  <2>2. m # 0 /\ m - 1 \in Nat /\ m - 1 \notin Bad
    BY <2>1
  <2>3. (m - 1) + 1 \in Good
    BY <2>2
  <2> QED BY <2>1, <2>3
<1> QED BY <1>1

-----------------------------------------------------------------------------
(* The recursion is well defined *)

\* What the recursion makes of a subset, from its values on smaller ones.
Unfolded(iter, fun, s) ==
    IF s = {} THEN 0
    ELSE LET x == CHOOSE x \in s : TRUE IN fun[x] + iter[s \ {x}]

\* The functions on the subsets of S that follow the recursion.
Unfolds(iter, fun, S) == iter = [s \in SUBSET S |-> Unfolded(iter, fun, s)]

LEMMA SumIsUnfolded ==
    ASSUME NEW fun, NEW S
    PROVE  SumFunctionOnSet(fun, S) = (CHOOSE iter : Unfolds(iter, fun, S))[S]
BY DEF SumFunctionOnSet, FoldFunctionOnSet, MapThenFoldSet, Unfolds, Unfolded

\* There is one: applied n times, the recursion is right for the subsets of at
\* most n elements.
LEMMA UnfoldingExists ==
    ASSUME NEW fun, NEW S, IsFiniteSet(S)
    PROVE  \E iter : Unfolds(iter, fun, S)
<1> DEFINE Small(n) == {s \in SUBSET S : Cardinality(s) <= n}
           Right(g, n) == \A s \in Small(n) : g[s] = Unfolded(g, fun, s)
           Good == {n \in Nat : \E g : Right(g, n)}
<1>1. \A s \in SUBSET S : IsFiniteSet(s) /\ Cardinality(s) \in Nat
  BY FS_Subset, FS_CardinalityType
<1>2. 0 \in Good
  <2> DEFINE g == [s \in SUBSET S |-> 0]
  <2>1. \A s \in Small(0) : s = {}
    BY <1>1, FS_EmptySet
  <2>2. Right(g, 0)
    BY <2>1 DEF Unfolded
  <2> QED BY <2>2
<1>3. ASSUME NEW n \in Nat, n \in Good PROVE n + 1 \in Good
  <2>1. PICK g : Right(g, n)
    BY <1>3
  <2> DEFINE h == [s \in SUBSET S |-> Unfolded(g, fun, s)]
  <2>2. ASSUME NEW s \in Small(n + 1), s # {}
        PROVE  h[s] = Unfolded(h, fun, s)
    <3> DEFINE x == CHOOSE x \in s : TRUE
    <3>1. x \in s
      BY <2>2
    <3> HIDE DEF x
    <3>2. s \ {x} \in Small(n)
      BY <1>1, <2>2, <3>1, FS_RemoveElement
    <3>3. h[s \ {x}] = g[s \ {x}]
      BY <2>1, <3>2
    <3> QED BY <2>2, <3>3 DEF Unfolded, x
  <2>3. \A s \in Small(n + 1) : s = {} => h[s] = Unfolded(h, fun, s)
    BY DEF Unfolded
  <2>4. Right(h, n + 1)
    BY <2>2, <2>3
  <2> HIDE DEF h, Right
  <2>5. \E k : Right(k, n + 1)
    BY <2>4
  <2> QED BY <2>5
<1>4. PICK g : Right(g, Cardinality(S))
  <2>1. Good \in SUBSET Nat
    OBVIOUS
  <2> HIDE DEF Good
  <2>2. Cardinality(S) \in Good
    BY <1>1, <1>2, <1>3, <2>1, NaturalInduction
  <2> QED BY <2>2 DEF Good
<1> DEFINE iter == [s \in SUBSET S |-> g[s]]
<1>5. ASSUME NEW s \in SUBSET S PROVE iter[s] = Unfolded(iter, fun, s)
  <2>1. s \in Small(Cardinality(S))
    BY FS_Subset
  <2>2. g[s] = Unfolded(g, fun, s)
    BY <1>4, <2>1
  <2>3. Unfolded(iter, fun, s) = Unfolded(g, fun, s)
    <3>1. CASE s = {}
      BY <3>1 DEF Unfolded
    <3>2. CASE s # {}
      <4> DEFINE x == CHOOSE x \in s : TRUE
      <4> HIDE DEF x
      <4>1. s \ {x} \in SUBSET S
        OBVIOUS
      <4>2. iter[s \ {x}] = g[s \ {x}]
        BY <4>1
      <4> HIDE DEF iter
      <4> QED BY <3>2, <4>2 DEF Unfolded, x
    <3> QED BY <3>1, <3>2
  <2> QED BY <2>2, <2>3
<1>6. Unfolds(iter, fun, S)
  <2>1. iter = [s \in SUBSET S |-> iter[s]]
    OBVIOUS
  <2> HIDE DEF iter
  <2>2. [s \in SUBSET S |-> iter[s]] = [s \in SUBSET S |-> Unfolded(iter, fun, s)]
    BY <1>5
  <2> QED BY <2>1, <2>2 DEF Unfolds
<1> QED BY <1>6

\* Two of them, also for different sets, agree on the subsets they share.
LEMMA UnfoldingsAgree ==
    ASSUME NEW fun, NEW S, NEW T, IsFiniteSet(T), T \subseteq S,
           NEW f, Unfolds(f, fun, S), NEW g, Unfolds(g, fun, T)
    PROVE  \A s \in SUBSET T : f[s] = g[s]
<1> DEFINE Good == {s \in SUBSET T : f[s] = g[s]}
<1>1. ASSUME NEW s \in SUBSET T, \A x \in s : s \ {x} \in Good
      PROVE  s \in Good
  <2>1. f[s] = Unfolded(f, fun, s) /\ g[s] = Unfolded(g, fun, s)
    <3>1. s \in SUBSET S
      OBVIOUS
    <3> QED BY <3>1, Zenon DEF Unfolds
  <2>2. CASE s = {}
    BY <2>1, <2>2 DEF Unfolded
  <2>3. CASE s # {}
    <3> DEFINE x == CHOOSE x \in s : TRUE
    <3>1. x \in s
      BY <2>3
    <3> HIDE DEF x
    <3>2. f[s \ {x}] = g[s \ {x}]
      BY <1>1, <3>1
    <3>3. Unfolded(f, fun, s) = Unfolded(g, fun, s)
      BY <2>3, <3>2 DEF Unfolded, x
    <3> QED BY <2>1, <3>3
  <2> QED BY <2>2, <2>3
<1>2. Good \in SUBSET SUBSET T
  OBVIOUS
<1> HIDE DEF Good
<1>3. \A s \in SUBSET T : s \in Good
  BY <1>1, <1>2, SubsetInduction
<1> QED BY <1>3 DEF Good

\* One step of the recursion, now between sums.
LEMMA SumUnfolds ==
    ASSUME NEW fun, NEW S, IsFiniteSet(S)
    PROVE  SumFunctionOnSet(fun, S) =
             IF S = {} THEN 0
             ELSE LET x == CHOOSE x \in S : TRUE
                  IN  fun[x] + SumFunctionOnSet(fun, S \ {x})
<1> DEFINE f == CHOOSE iter : Unfolds(iter, fun, S)
<1>1. Unfolds(f, fun, S)
  BY UnfoldingExists
<1> HIDE DEF f
<1>2. SumFunctionOnSet(fun, S) = f[S]
  BY SumIsUnfolded DEF f
<1>3. f[S] = Unfolded(f, fun, S)
  BY <1>1, Zenon DEF Unfolds
<1>4. CASE S = {}
  BY <1>2, <1>3, <1>4 DEF Unfolded
<1>5. CASE S # {}
  <2> DEFINE x == CHOOSE x \in S : TRUE
             T == S \ {x}
             g == CHOOSE iter : Unfolds(iter, fun, T)
  <2> HIDE DEF x
  <2>1. IsFiniteSet(T) /\ T \subseteq S
    BY FS_RemoveElement
  <2> HIDE DEF T
  <2>2. Unfolds(g, fun, T)
    BY <2>1, UnfoldingExists
  <2>3. SumFunctionOnSet(fun, T) = g[T]
    BY SumIsUnfolded
  <2> HIDE DEF g
  <2>4. f[T] = g[T]
    BY <1>1, <2>1, <2>2, UnfoldingsAgree
  <2>5. f[S] = fun[x] + f[T]
    BY <1>3, <1>5 DEF Unfolded, x, T
  <2> QED BY <1>2, <1>5, <2>3, <2>4, <2>5 DEF x, T
<1> QED BY <1>4, <1>5

-----------------------------------------------------------------------------
(* Sums of integers *)

LEMMA SumOfNone == ASSUME NEW fun PROVE SumFunctionOnSet(fun, {}) = 0
BY SumUnfolds, FS_EmptySet

\* The sum depends on the values in S alone.
LEMMA SumOfSame ==
    ASSUME NEW f, NEW g, NEW S, IsFiniteSet(S), \A x \in S : f[x] = g[x]
    PROVE  SumFunctionOnSet(f, S) = SumFunctionOnSet(g, S)
<1> DEFINE Good == {s \in SUBSET S : SumFunctionOnSet(f, s) = SumFunctionOnSet(g, s)}
<1>1. ASSUME NEW s \in SUBSET S, \A x \in s : s \ {x} \in Good PROVE s \in Good
  <2>1. IsFiniteSet(s)
    BY FS_Subset
  <2>2. CASE s = {}
    BY <2>2, SumOfNone
  <2>3. CASE s # {}
    <3> DEFINE x == CHOOSE x \in s : TRUE
    <3>1. x \in s
      BY <2>3
    <3>2. /\ SumFunctionOnSet(f, s) = f[x] + SumFunctionOnSet(f, s \ {x})
          /\ SumFunctionOnSet(g, s) = g[x] + SumFunctionOnSet(g, s \ {x})
      BY <2>1, <2>3, SumUnfolds
    <3> HIDE DEF x
    <3>3. SumFunctionOnSet(f, s \ {x}) = SumFunctionOnSet(g, s \ {x}) /\ f[x] = g[x]
      BY <1>1, <3>1
    <3> QED BY <3>2, <3>3
  <2> QED BY <2>2, <2>3
<1>2. Good \in SUBSET SUBSET S
  OBVIOUS
<1> HIDE DEF Good
<1>3. S \in Good
  BY <1>1, <1>2, SubsetInduction
<1> QED BY <1>3 DEF Good

LEMMA SumIsInt ==
    ASSUME NEW fun, NEW S, IsFiniteSet(S), \A x \in S : fun[x] \in Int
    PROVE  SumFunctionOnSet(fun, S) \in Int
<1> DEFINE Good == {s \in SUBSET S : SumFunctionOnSet(fun, s) \in Int}
<1>1. ASSUME NEW s \in SUBSET S, \A x \in s : s \ {x} \in Good PROVE s \in Good
  <2>1. IsFiniteSet(s)
    BY FS_Subset
  <2>2. CASE s = {}
    BY <2>2, SumOfNone
  <2>3. CASE s # {}
    <3> DEFINE x == CHOOSE x \in s : TRUE
    <3>1. x \in s
      BY <2>3
    <3>2. SumFunctionOnSet(fun, s) = fun[x] + SumFunctionOnSet(fun, s \ {x})
      BY <2>1, <2>3, SumUnfolds
    <3> HIDE DEF x
    <3>3. SumFunctionOnSet(fun, s \ {x}) \in Int /\ fun[x] \in Int
      BY <1>1, <3>1
    <3> QED BY <3>2, <3>3
  <2> QED BY <2>2, <2>3
<1>2. Good \in SUBSET SUBSET S
  OBVIOUS
<1> HIDE DEF Good
<1>3. S \in Good
  BY <1>1, <1>2, SubsetInduction
<1> QED BY <1>3 DEF Good

\* Any element may be taken out first: the order does not matter.
LEMMA SumTakesOut ==
    ASSUME NEW fun, NEW S, IsFiniteSet(S), \A x \in S : fun[x] \in Int, NEW e \in S
    PROVE  SumFunctionOnSet(fun, S) = fun[e] + SumFunctionOnSet(fun, S \ {e})
<1> DEFINE Sum(s) == SumFunctionOnSet(fun, s)
           Good == {s \in SUBSET S : \A x \in s : Sum(s) = fun[x] + Sum(s \ {x})}
<1>0. \A s \in SUBSET S : IsFiniteSet(s) /\ Sum(s) \in Int
  <2>1. ASSUME NEW s \in SUBSET S PROVE IsFiniteSet(s)
    BY FS_Subset
  <2> QED BY <2>1, SumIsInt
<1>1. ASSUME NEW s \in SUBSET S, \A x \in s : s \ {x} \in Good PROVE s \in Good
  <2> SUFFICES ASSUME NEW x \in s PROVE Sum(s) = fun[x] + Sum(s \ {x})
    OBVIOUS
  <2> DEFINE c == CHOOSE c \in s : TRUE
  <2>1. c \in s
    OBVIOUS
  <2>2. Sum(s) = fun[c] + Sum(s \ {c})
    BY <1>0, SumUnfolds
  <2> HIDE DEF c
  <2>3. CASE x # c
    <3>1. x \in s \ {c} /\ c \in s \ {x} /\ s \ {c} \in Good /\ s \ {x} \in Good
      BY <1>1, <2>1, <2>3
    <3>2. Sum(s \ {c}) = fun[x] + Sum((s \ {c}) \ {x})
      BY <3>1
    <3>3. Sum(s \ {x}) = fun[c] + Sum((s \ {x}) \ {c})
      BY <3>1
    <3>4. (s \ {x}) \ {c} = (s \ {c}) \ {x}
      OBVIOUS
    <3>5. Sum((s \ {c}) \ {x}) \in Int /\ fun[x] \in Int /\ fun[c] \in Int
      BY <1>0, <2>1
    <3>6. Sum((s \ {x}) \ {c}) = Sum((s \ {c}) \ {x})
      BY <3>4
    <3> HIDE DEF Sum
    <3> QED BY <2>2, <3>2, <3>3, <3>5, <3>6
  <2> QED BY <2>2, <2>3
<1>2. Good \in SUBSET SUBSET S
  OBVIOUS
<1> HIDE DEF Good
<1>3. S \in Good
  BY <1>1, <1>2, SubsetInduction
<1> QED BY <1>3 DEF Good

LEMMA SumPutsIn ==
    ASSUME NEW fun, NEW S, IsFiniteSet(S), NEW e, e \notin S,
           \A x \in S \cup {e} : fun[x] \in Int
    PROVE  SumFunctionOnSet(fun, S \cup {e}) = fun[e] + SumFunctionOnSet(fun, S)
<1>1. IsFiniteSet(S \cup {e})
  BY FS_AddElement
<1>2. (S \cup {e}) \ {e} = S
  OBVIOUS
<1> QED BY <1>1, <1>2, SumTakesOut

\* One value of the sum changes.
LEMMA SumOneChanges ==
    ASSUME NEW f, NEW g, NEW S, IsFiniteSet(S), NEW e \in S,
           \A x \in S : f[x] \in Int /\ g[x] \in Int,
           \A x \in S \ {e} : f[x] = g[x]
    PROVE  SumFunctionOnSet(g, S) = SumFunctionOnSet(f, S) + g[e] - f[e]
<1>1. IsFiniteSet(S \ {e})
  BY FS_RemoveElement
<1>2. SumFunctionOnSet(f, S \ {e}) = SumFunctionOnSet(g, S \ {e})
  BY <1>1, SumOfSame
<1>3. /\ SumFunctionOnSet(f, S) = f[e] + SumFunctionOnSet(f, S \ {e})
      /\ SumFunctionOnSet(g, S) = g[e] + SumFunctionOnSet(g, S \ {e})
  BY SumTakesOut
<1>4. SumFunctionOnSet(f, S \ {e}) \in Int
  BY <1>1, SumIsInt
<1> QED BY <1>2, <1>3, <1>4

\* A sum of larger values is larger.
LEMMA SumIsMonotone ==
    ASSUME NEW f, NEW g, NEW S, IsFiniteSet(S),
           \A x \in S : f[x] \in Int /\ g[x] \in Int /\ f[x] <= g[x]
    PROVE  SumFunctionOnSet(f, S) <= SumFunctionOnSet(g, S)
<1> DEFINE Good == {s \in SUBSET S : SumFunctionOnSet(f, s) <= SumFunctionOnSet(g, s)}
<1>1. ASSUME NEW s \in SUBSET S, \A x \in s : s \ {x} \in Good PROVE s \in Good
  <2>1. IsFiniteSet(s)
    BY FS_Subset
  <2>2. CASE s = {}
    BY <2>2, SumOfNone
  <2>3. CASE s # {}
    <3>1. PICK x \in s : TRUE
      BY <2>3
    <3>2. /\ SumFunctionOnSet(f, s) = f[x] + SumFunctionOnSet(f, s \ {x})
          /\ SumFunctionOnSet(g, s) = g[x] + SumFunctionOnSet(g, s \ {x})
      BY <2>1, SumTakesOut
    <3>3. IsFiniteSet(s \ {x})
      BY <2>1, FS_RemoveElement
    <3>4. /\ SumFunctionOnSet(f, s \ {x}) \in Int /\ SumFunctionOnSet(g, s \ {x}) \in Int
          /\ f[x] \in Int /\ g[x] \in Int /\ f[x] <= g[x]
      BY <3>3, SumIsInt
    <3>5. SumFunctionOnSet(f, s \ {x}) <= SumFunctionOnSet(g, s \ {x})
      BY <1>1
    <3> QED BY <3>2, <3>4, <3>5
  <2> QED BY <2>2, <2>3
<1>2. Good \in SUBSET SUBSET S
  OBVIOUS
<1> HIDE DEF Good
<1>3. S \in Good
  BY <1>1, <1>2, SubsetInduction
<1> QED BY <1>3 DEF Good

LEMMA SumOfZeros ==
    ASSUME NEW fun, NEW S, IsFiniteSet(S), \A x \in S : fun[x] = 0
    PROVE  SumFunctionOnSet(fun, S) = 0
<1> DEFINE Good == {s \in SUBSET S : SumFunctionOnSet(fun, s) = 0}
<1>1. ASSUME NEW s \in SUBSET S, \A x \in s : s \ {x} \in Good PROVE s \in Good
  <2>1. IsFiniteSet(s)
    BY FS_Subset
  <2>2. CASE s = {}
    BY <2>2, SumOfNone
  <2>3. CASE s # {}
    <3>1. PICK x \in s : TRUE
      BY <2>3
    <3>2. SumFunctionOnSet(fun, s) = fun[x] + SumFunctionOnSet(fun, s \ {x})
      BY <2>1, SumTakesOut
    <3>3. SumFunctionOnSet(fun, s \ {x}) = 0 /\ fun[x] = 0
      BY <1>1
    <3> QED BY <3>2, <3>3
  <2> QED BY <2>2, <2>3
<1>2. Good \in SUBSET SUBSET S
  OBVIOUS
<1> HIDE DEF Good
<1>3. S \in Good
  BY <1>1, <1>2, SubsetInduction
<1> QED BY <1>3 DEF Good

LEMMA SumIsNat ==
    ASSUME NEW fun, NEW S, IsFiniteSet(S), \A x \in S : fun[x] \in Nat
    PROVE  SumFunctionOnSet(fun, S) \in Nat
<1> DEFINE zero == [x \in S |-> 0]
<1>1. \A x \in S : zero[x] = 0 /\ fun[x] \in Int /\ zero[x] <= fun[x]
  OBVIOUS
<1> HIDE DEF zero
<1>2. SumFunctionOnSet(zero, S) = 0
  BY <1>1, SumOfZeros
<1>3. SumFunctionOnSet(zero, S) <= SumFunctionOnSet(fun, S)
  BY <1>1, SumIsMonotone
<1> QED BY <1>1, <1>2, <1>3, SumIsInt

\* No value is more than a sum it is part of.
LEMMA SumBoundsParts ==
    ASSUME NEW fun, NEW S, IsFiniteSet(S), \A x \in S : fun[x] \in Nat, NEW e \in S
    PROVE  fun[e] <= SumFunctionOnSet(fun, S)
<1>1. IsFiniteSet(S \ {e})
  BY FS_RemoveElement
<1>2. SumFunctionOnSet(fun, S \ {e}) \in Nat
  BY <1>1, SumIsNat
<1>3. SumFunctionOnSet(fun, S) = fun[e] + SumFunctionOnSet(fun, S \ {e})
  BY SumTakesOut
<1> QED BY <1>2, <1>3

\* The sums over two sets that share no element.
LEMMA SumOfUnion ==
    ASSUME NEW fun, NEW S, NEW T, IsFiniteSet(S), IsFiniteSet(T), S \cap T = {},
           \A x \in S \cup T : fun[x] \in Int
    PROVE  SumFunctionOnSet(fun, S \cup T)
             = SumFunctionOnSet(fun, S) + SumFunctionOnSet(fun, T)
<1> DEFINE Sum(s) == SumFunctionOnSet(fun, s)
           Good == {t \in SUBSET T : Sum(S \cup t) = Sum(S) + Sum(t)}
<1>0. Sum(S) \in Int
  BY SumIsInt
<1>1. ASSUME NEW t \in SUBSET T, \A x \in t : t \ {x} \in Good PROVE t \in Good
  <2>1. IsFiniteSet(t) /\ IsFiniteSet(S \cup t)
    BY FS_Subset, FS_Union
  <2>2. CASE t = {}
    <3>1. S \cup t = S
      BY <2>2
    <3> QED BY <1>0, <2>2, <3>1, SumOfNone
  <2>3. CASE t # {}
    <3>1. PICK x \in t : TRUE
      BY <2>3
    <3>2. (S \cup t) \ {x} = S \cup (t \ {x})
      OBVIOUS
    <3>3. Sum(t) = fun[x] + Sum(t \ {x})
      BY <2>1, SumTakesOut
    <3>4. Sum(S \cup t) = fun[x] + Sum((S \cup t) \ {x})
      BY <2>1, SumTakesOut
    <3>5. IsFiniteSet(t \ {x})
      BY <2>1, FS_RemoveElement
    <3>6. Sum(t \ {x}) \in Int /\ fun[x] \in Int
      BY <3>5, SumIsInt
    <3>7. Sum(S \cup (t \ {x})) = Sum(S) + Sum(t \ {x})
      BY <1>1
    <3>8. Sum((S \cup t) \ {x}) = Sum(S \cup (t \ {x}))
      BY <3>2
    <3> HIDE DEF Sum
    <3>9. Sum(S \cup t) = Sum(S) + Sum(t)
      BY <1>0, <3>3, <3>4, <3>6, <3>7, <3>8
    <3> QED BY <3>9
  <2> QED BY <2>2, <2>3
<1>2. Good \in SUBSET SUBSET T
  OBVIOUS
<1> HIDE DEF Good
<1>3. T \in Good
  BY <1>1, <1>2, SubsetInduction
<1> QED BY <1>3 DEF Good

\* A smaller set of natural numbers has a smaller sum.
LEMMA SumOfPart ==
    ASSUME NEW fun, NEW S, IsFiniteSet(S), \A x \in S : fun[x] \in Nat,
           NEW T \in SUBSET S
    PROVE  SumFunctionOnSet(fun, T) <= SumFunctionOnSet(fun, S)
<1>1. IsFiniteSet(T) /\ IsFiniteSet(S \ T)
  BY FS_Subset
<1>2. T \cup (S \ T) = S /\ T \cap (S \ T) = {}
  OBVIOUS
<1>3. SumFunctionOnSet(fun, T) \in Nat /\ SumFunctionOnSet(fun, S \ T) \in Nat
  BY <1>1, SumIsNat
<1>4. SumFunctionOnSet(fun, T \cup (S \ T))
        = SumFunctionOnSet(fun, T) + SumFunctionOnSet(fun, S \ T)
  BY <1>1, <1>2, SumOfUnion
<1>5. SumFunctionOnSet(fun, T \cup (S \ T)) = SumFunctionOnSet(fun, S)
  BY <1>2
<1> QED BY <1>3, <1>4, <1>5

\* Values that are zero do not count.
LEMMA SumSkipsZeros ==
    ASSUME NEW fun, NEW S, IsFiniteSet(S), NEW T \in SUBSET S,
           \A x \in T : fun[x] \in Int, \A x \in S \ T : fun[x] = 0
    PROVE  SumFunctionOnSet(fun, S) = SumFunctionOnSet(fun, T)
<1>1. IsFiniteSet(T) /\ IsFiniteSet(S \ T)
  BY FS_Subset
<1>2. T \cup (S \ T) = S /\ T \cap (S \ T) = {}
  OBVIOUS
<1>3. SumFunctionOnSet(fun, T) \in Int /\ SumFunctionOnSet(fun, S \ T) = 0
  BY <1>1, SumIsInt, SumOfZeros
<1>4. SumFunctionOnSet(fun, T \cup (S \ T))
        = SumFunctionOnSet(fun, T) + SumFunctionOnSet(fun, S \ T)
  BY <1>1, <1>2, SumOfUnion
<1>5. SumFunctionOnSet(fun, T \cup (S \ T)) = SumFunctionOnSet(fun, S)
  BY <1>2
<1> QED BY <1>3, <1>4, <1>5

\* The sum of a difference is the difference of the sums.
LEMMA SumOfDifferences ==
    ASSUME NEW f, NEW g, NEW h, NEW S, IsFiniteSet(S),
           \A x \in S : f[x] \in Int /\ g[x] \in Int /\ h[x] = f[x] - g[x]
    PROVE  SumFunctionOnSet(h, S) = SumFunctionOnSet(f, S) - SumFunctionOnSet(g, S)
<1> DEFINE F(s) == SumFunctionOnSet(f, s)
           G(s) == SumFunctionOnSet(g, s)
           H(s) == SumFunctionOnSet(h, s)
           Good == {s \in SUBSET S : H(s) = F(s) - G(s)}
<1>1. ASSUME NEW s \in SUBSET S, \A x \in s : s \ {x} \in Good PROVE s \in Good
  <2>1. IsFiniteSet(s)
    BY FS_Subset
  <2>2. CASE s = {}
    BY <2>2, SumOfNone
  <2>3. CASE s # {}
    <3>1. PICK x \in s : TRUE
      BY <2>3
    <3>2. F(s) = f[x] + F(s \ {x}) /\ G(s) = g[x] + G(s \ {x}) /\ H(s) = h[x] + H(s \ {x})
      BY <2>1, SumTakesOut
    <3>3. IsFiniteSet(s \ {x})
      BY <2>1, FS_RemoveElement
    <3>4. F(s \ {x}) \in Int /\ G(s \ {x}) \in Int
      BY <3>3, SumIsInt
    <3>5. f[x] \in Int /\ g[x] \in Int /\ h[x] = f[x] - g[x]
      OBVIOUS
    <3>6. H(s \ {x}) = F(s \ {x}) - G(s \ {x})
      BY <1>1
    <3> HIDE DEF F, G, H
    <3>7. H(s) = F(s) - G(s)
      BY <3>2, <3>4, <3>5, <3>6
    <3> QED BY <3>7
  <2> QED BY <2>2, <2>3
<1>2. Good \in SUBSET SUBSET S
  OBVIOUS
<1> HIDE DEF Good
<1>3. S \in Good
  BY <1>1, <1>2, SubsetInduction
<1> QED BY <1>3 DEF Good

\* Counting the elements under other names.
LEMMA SumRenamed ==
    ASSUME NEW f, NEW g, NEW S, IsFiniteSet(S), NEW T, NEW name \in [S -> T],
           \A x, y \in S : name[x] = name[y] => x = y,
           \A t \in T : \E x \in S : name[x] = t,
           \A x \in S : f[x] \in Int /\ g[name[x]] = f[x]
    PROVE  SumFunctionOnSet(g, T) = SumFunctionOnSet(f, S)
<1> DEFINE Names(s) == {name[x] : x \in s}
           Good == {s \in SUBSET S :
                      /\ IsFiniteSet(Names(s))
                      /\ SumFunctionOnSet(g, Names(s)) = SumFunctionOnSet(f, s)}
<1>1. ASSUME NEW s \in SUBSET S, \A x \in s : s \ {x} \in Good PROVE s \in Good
  <2>1. IsFiniteSet(s)
    BY FS_Subset
  <2>2. CASE s = {}
    <3>1. Names(s) = {}
      BY <2>2
    <3> QED BY <2>2, <3>1, SumOfNone, FS_EmptySet
  <2>3. CASE s # {}
    <3>1. PICK x \in s : TRUE
      BY <2>3
    <3>2. /\ Names(s) = Names(s \ {x}) \cup {name[x]}
          /\ name[x] \notin Names(s \ {x})
      OBVIOUS
    <3>3. /\ IsFiniteSet(Names(s \ {x}))
          /\ SumFunctionOnSet(g, Names(s \ {x})) = SumFunctionOnSet(f, s \ {x})
      BY <1>1
    <3>4. \A n \in Names(s \ {x}) \cup {name[x]} : g[n] \in Int
      OBVIOUS
    <3>5. SumFunctionOnSet(f, s) = f[x] + SumFunctionOnSet(f, s \ {x})
      BY <2>1, SumTakesOut
    <3> DEFINE N == Names(s \ {x})
               e == name[x]
    <3>6. /\ N \cup {e} = Names(s) /\ e \notin N /\ IsFiniteSet(N)
          /\ \A n \in N \cup {e} : g[n] \in Int
          /\ g[e] = f[x]
      BY <3>2, <3>3, <3>4
    <3> HIDE DEF N, e
    <3>7. SumFunctionOnSet(g, N \cup {e}) = g[e] + SumFunctionOnSet(g, N)
      BY <3>6, SumPutsIn
    <3>8. IsFiniteSet(N \cup {e})
      BY <3>6, FS_AddElement
    <3>9. SumFunctionOnSet(g, Names(s)) = SumFunctionOnSet(f, s)
      BY <3>3, <3>5, <3>6, <3>7 DEF N
    <3> QED BY <3>6, <3>8, <3>9
  <2> QED BY <2>2, <2>3
<1>2. Good \in SUBSET SUBSET S
  OBVIOUS
<1>3. Names(S) = T
  OBVIOUS
<1> HIDE DEF Good
<1>4. S \in Good
  BY <1>1, <1>2, SubsetInduction
<1> QED BY <1>3, <1>4 DEF Good

\* One element more, with the values of the others kept.
LEMMA SumGrows ==
    ASSUME NEW f, NEW g, NEW S, IsFiniteSet(S), NEW e, e \notin S, g[e] \in Int,
           \A x \in S : f[x] \in Int /\ g[x] = f[x]
    PROVE  SumFunctionOnSet(g, S \cup {e}) = SumFunctionOnSet(f, S) + g[e]
<1>1. \A x \in S \cup {e} : g[x] \in Int
  OBVIOUS
<1>2. SumFunctionOnSet(g, S \cup {e}) = g[e] + SumFunctionOnSet(g, S)
  BY <1>1, SumPutsIn
<1>3. SumFunctionOnSet(f, S) = SumFunctionOnSet(g, S)
  BY SumOfSame
<1>4. SumFunctionOnSet(f, S) \in Int
  BY SumIsInt
<1> QED BY <1>2, <1>3, <1>4

================================================================================
