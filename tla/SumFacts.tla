------------------------------ MODULE SumFacts ------------------------------
(***************************************************************************)
(* What the proofs need of a sum over a finite set (SumFunctionOnSet): that *)
(* it does not depend on the order its summands are taken in, and what it   *)
(* is when a summand comes, goes or changes.  The balances of the system    *)
(* are such sums: of log rows, of ledger entries, of disputes and requests. *)
(*                                                                          *)
(* Induction is over sets of numbers, or of sets, in place of predicates:   *)
(* a set of naturals that is not empty has a least element (WFMin).         *)
(***************************************************************************)
EXTENDS Integers, FiniteSets, Functions, FiniteSetTheorems, WellFoundedInduction, TLAPS

\* A set of naturals that is not empty has a least element.
LEMMA LeastNat ==
  ASSUME NEW T \in SUBSET Nat, T # {}
  PROVE  \E n \in T : \A m \in T : n <= m
  <1> DEFINE R == OpToRel(<, Nat)
  <1>1. IsWellFoundedOn(R, Nat)
    BY NatLessThanWellFounded
  <1>2. \A m, n \in Nat : m < n => <<m, n>> \in R
    BY DEF OpToRel
  <1> HIDE DEF R
  <1>3. PICK n \in T : \A m \in T : <<m, n>> \notin R
    BY <1>1, WFMin
  <1>4. ASSUME NEW m \in T PROVE n <= m
    <2>1. ~ (m < n)
      BY <1>2, <1>3
    <2>. QED
      BY <2>1
  <1>. QED
    BY <1>4

\* Induction: a set of naturals with 0 and every successor has them all.
LEMMA SetInduction ==
  ASSUME NEW T \in SUBSET Nat, 0 \in T, \A n \in T : n + 1 \in T
  PROVE  T = Nat
  <1>1. SUFFICES ASSUME Nat \ T # {} PROVE FALSE
    OBVIOUS
  <1>2. PICK n \in Nat \ T : \A m \in Nat \ T : n <= m
    BY <1>1, LeastNat
  <1>3. n # 0 /\ n - 1 \in Nat
    BY <1>2
  <1>4. n - 1 \in T
    BY <1>2, <1>3
  <1>. QED
    BY <1>2, <1>3, <1>4
-----------------------------------------------------------------------------
\* The element that a sum takes next.
Any(s) == CHOOSE x \in s : TRUE

\* g[s] is the sum of f over s, for the subsets s of S.
Sums(f, g, S) ==
  g = [s \in SUBSET S |-> IF s = {} THEN 0 ELSE f[Any(s)] + g[s \ {Any(s)}]]

\* What SumFunctionOnSet is: a solution of these equations.
LEMMA SumDef ==
  ASSUME NEW f, NEW S
  PROVE  SumFunctionOnSet(f, S) = (CHOOSE g : Sums(f, g, S))[S]
  BY DEF SumFunctionOnSet, FoldFunctionOnSet, MapThenFoldSet, Sums, Any

\* The equations hold for the subsets of at most n elements.
SumsUpTo(f, g, S, n) ==
  /\ DOMAIN g = SUBSET S
  /\ g = [s \in SUBSET S |-> g[s]]
  /\ g[{}] = 0
  /\ \A s \in SUBSET S :
       s # {} /\ Cardinality(s) <= n => g[s] = f[Any(s)] + g[s \ {Any(s)}]

\* What is taken from a set is in it.
LEMMA AnyIn == \A s : s # {} => Any(s) \in s
  BY DEF Any

\* The equations have a solution: by induction over the size of the subsets.
LEMMA SumsExist ==
  ASSUME NEW f, NEW S, IsFiniteSet(S)
  PROVE  \E g : Sums(f, g, S)
  <1> DEFINE T == {n \in Nat : \E g : SumsUpTo(f, g, S, n)}
  <1>1. 0 \in T
    <2> DEFINE g == [s \in SUBSET S |-> 0]
    <2>1. \A s \in SUBSET S : Cardinality(s) <= 0 => s = {}
      BY FS_Subset, FS_EmptySet, FS_CardinalityType
    <2>2. SumsUpTo(f, g, S, 0)
      BY <2>1 DEF SumsUpTo
    <2>. QED
      BY <2>2
  <1>2. ASSUME NEW n \in T PROVE n + 1 \in T
    <2>1. PICK g : SumsUpTo(f, g, S, n)
      BY <1>2
    <2> DEFINE h == [s \in SUBSET S |->
                       IF Cardinality(s) = n + 1
                       THEN f[Any(s)] + g[s \ {Any(s)}] ELSE g[s]]
    <2>2. \A s \in SUBSET S : IsFiniteSet(s) /\ Cardinality(s) \in Nat
      BY FS_Subset, FS_CardinalityType
    <2>3. h[{}] = 0
      BY <2>1, FS_EmptySet DEF SumsUpTo
    <2>4. ASSUME NEW s \in SUBSET S, s # {}, Cardinality(s) <= n + 1
          PROVE  h[s] = f[Any(s)] + h[s \ {Any(s)}]
      <3>1. Any(s) \in s
        BY <2>4, AnyIn
      <3>2. Cardinality(s \ {Any(s)}) = Cardinality(s) - 1
        BY <2>2, <3>1, FS_RemoveElement
      <3>3. h[s \ {Any(s)}] = g[s \ {Any(s)}]
        BY <2>2, <2>4, <3>2
      <3>4. h[s] = f[Any(s)] + g[s \ {Any(s)}]
        <4>1. CASE Cardinality(s) = n + 1
          BY <4>1
        <4>2. CASE Cardinality(s) # n + 1
          <5>1. Cardinality(s) <= n /\ h[s] = g[s]
            BY <2>2, <2>4, <4>2
          <5>. QED
            BY <2>1, <2>4, <5>1 DEF SumsUpTo
        <4>. QED
          BY <4>1, <4>2
      <3>. QED
        BY <3>3, <3>4
    <2>5. SumsUpTo(f, h, S, n + 1)
      <3> HIDE DEF h
      <3>1. DOMAIN h = SUBSET S /\ h = [s \in SUBSET S |-> h[s]]
        BY DEF h
      <3>. QED
        BY <2>3, <2>4, <3>1 DEF SumsUpTo
    <2>. QED
      BY <2>5
  <1>3. T = Nat
    <2> HIDE DEF T
    <2>1. T \in SUBSET Nat
      BY DEF T
    <2>. QED
      BY <1>1, <1>2, <2>1, SetInduction
  <1>4. Cardinality(S) \in Nat
    BY FS_CardinalityType
  <1>5. PICK g : SumsUpTo(f, g, S, Cardinality(S))
    BY <1>3, <1>4
  <1>6. \A s \in SUBSET S : Cardinality(s) <= Cardinality(S)
    BY FS_Subset
  <1>7. \A s \in SUBSET S :
          g[s] = IF s = {} THEN 0 ELSE f[Any(s)] + g[s \ {Any(s)}]
    BY <1>5, <1>6 DEF SumsUpTo
  <1>8. Sums(f, g, S)
    BY <1>5, <1>7 DEF SumsUpTo, Sums
  <1>. QED
    BY <1>8

\* Induction over the subsets of a finite set.
LEMMA SubsetInduction ==
  ASSUME NEW S, IsFiniteSet(S), NEW F \in SUBSET SUBSET S, {} \in F,
         \A s \in SUBSET S : s # {} /\ (\A x \in s : s \ {x} \in F) => s \in F
  PROVE  F = SUBSET S
  <1> DEFINE T == {n \in Nat : \A s \in SUBSET S : Cardinality(s) = n => s \in F}
  <1>1. \A s \in SUBSET S : IsFiniteSet(s) /\ Cardinality(s) \in Nat
    BY FS_Subset, FS_CardinalityType
  <1>2. 0 \in T
    BY <1>1, FS_EmptySet
  <1>3. ASSUME NEW n \in T PROVE n + 1 \in T
    <2>1. SUFFICES ASSUME NEW s \in SUBSET S, Cardinality(s) = n + 1 PROVE s \in F
      OBVIOUS
    <2>2. s # {}
      BY <2>1, FS_EmptySet
    <2>3. ASSUME NEW x \in s PROVE s \ {x} \in F
      <3>1. Cardinality(s \ {x}) = n
        BY <1>1, <2>1, FS_RemoveElement
      <3>. QED
        BY <3>1
    <2>. QED
      BY <2>2, <2>3
  <1>4. T = Nat
    <2> HIDE DEF T
    <2>1. T \in SUBSET Nat
      BY DEF T
    <2>. QED
      BY <1>2, <1>3, <2>1, SetInduction
  <1>. QED
    BY <1>1, <1>4

\* The sum of a subset is the same in every set that it is taken from.
LEMMA SumIsAnySums ==
  ASSUME NEW f, NEW S, IsFiniteSet(S), NEW g, Sums(f, g, S), NEW t \in SUBSET S
  PROVE  SumFunctionOnSet(f, t) = g[t]
  <1>1. IsFiniteSet(t)
    BY FS_Subset
  <1> DEFINE h == CHOOSE k : Sums(f, k, t)
  <1>2. Sums(f, h, t)
    BY <1>1, SumsExist
  <1> HIDE DEF h
  <1> DEFINE F == {s \in SUBSET t : h[s] = g[s]}
  <1>3. {} \in F
    BY <1>2 DEF Sums
  <1>4. ASSUME NEW s \in SUBSET t, s # {}, \A x \in s : s \ {x} \in F
        PROVE  s \in F
    <2>1. Any(s) \in s
      BY <1>4, AnyIn
    <2>2. h[s] = f[Any(s)] + h[s \ {Any(s)}]
      BY <1>2, <1>4 DEF Sums
    <2>3. g[s] = f[Any(s)] + g[s \ {Any(s)}]
      BY <1>4 DEF Sums
    <2>. QED
      BY <1>4, <2>1, <2>2, <2>3
  <1>5. F = SUBSET t
    <2> HIDE DEF F
    <2>1. F \in SUBSET SUBSET t
      BY DEF F
    <2>. QED
      BY <1>1, <1>3, <1>4, <2>1, SubsetInduction
  <1>6. SumFunctionOnSet(f, t) = h[t]
    BY SumDef DEF h
  <1>. QED
    BY <1>5, <1>6

\* A sum of nothing.
LEMMA SumOfNothing == ASSUME NEW f PROVE SumFunctionOnSet(f, {}) = 0
  <1>1. IsFiniteSet({})
    BY FS_EmptySet
  <1>2. PICK g : Sums(f, g, {})
    BY <1>1, SumsExist
  <1>3. SumFunctionOnSet(f, {}) = g[{}]
    BY <1>1, <1>2, SumIsAnySums
  <1>. QED
    BY <1>2, <1>3 DEF Sums

\* A sum takes its elements one by one, in the order of CHOOSE.
LEMMA SumStep ==
  ASSUME NEW f, NEW S, IsFiniteSet(S), S # {}
  PROVE  SumFunctionOnSet(f, S) =
           f[Any(S)] + SumFunctionOnSet(f, S \ {Any(S)})
  <1>1. PICK g : Sums(f, g, S)
    BY SumsExist
  <1>2. SumFunctionOnSet(f, S) = g[S]
    BY <1>1, SumIsAnySums
  <1>3. SumFunctionOnSet(f, S \ {Any(S)}) = g[S \ {Any(S)}]
    BY <1>1, SumIsAnySums
  <1>4. g[S] = f[Any(S)] + g[S \ {Any(S)}]
    BY <1>1 DEF Sums
  <1>. QED
    BY <1>2, <1>3, <1>4

\* A sum of integers is an integer.
LEMMA SumType ==
  ASSUME NEW f, NEW S, IsFiniteSet(S), \A x \in S : f[x] \in Int
  PROVE  SumFunctionOnSet(f, S) \in Int
  <1> DEFINE F == {s \in SUBSET S : SumFunctionOnSet(f, s) \in Int}
  <1>1. {} \in F
    BY SumOfNothing
  <1>2. ASSUME NEW s \in SUBSET S, s # {}, \A x \in s : s \ {x} \in F
        PROVE  s \in F
    <2>1. Any(s) \in s /\ IsFiniteSet(s)
      BY <1>2, AnyIn, FS_Subset
    <2>2. SumFunctionOnSet(f, s) = f[Any(s)] + SumFunctionOnSet(f, s \ {Any(s)})
      BY <1>2, <2>1, SumStep
    <2>3. f[Any(s)] \in Int /\ SumFunctionOnSet(f, s \ {Any(s)}) \in Int
      BY <1>2, <2>1
    <2>. QED
      BY <2>2, <2>3
  <1>3. F = SUBSET S
    <2> HIDE DEF F
    <2>1. F \in SUBSET SUBSET S
      BY DEF F
    <2>. QED
      BY <1>1, <1>2, <2>1, SubsetInduction
  <1>. QED
    BY <1>3

\* The order does not matter: any element may be taken first.
LEMMA SumTakes ==
  ASSUME NEW f, NEW S, IsFiniteSet(S), \A x \in S : f[x] \in Int, NEW x \in S
  PROVE  SumFunctionOnSet(f, S) = f[x] + SumFunctionOnSet(f, S \ {x})
  <1> DEFINE Sm(s) == SumFunctionOnSet(f, s)
             F == {s \in SUBSET S : \A y \in s : Sm(s) = f[y] + Sm(s \ {y})}
  <1>1. {} \in F
    OBVIOUS
  <1>2. ASSUME NEW s \in SUBSET S, s # {}, \A y \in s : s \ {y} \in F
        PROVE  s \in F
    <2>1. SUFFICES ASSUME NEW y \in s PROVE Sm(s) = f[y] + Sm(s \ {y})
      OBVIOUS
    <2> DEFINE c == Any(s)
    <2>2. c \in s
      BY <1>2, AnyIn
    <2> HIDE DEF c, Sm
    <2>3. \A t \in SUBSET S : IsFiniteSet(t) /\ Sm(t) \in Int
      BY FS_Subset, SumType DEF Sm
    <2>4. Sm(s) = f[c] + Sm(s \ {c})
      BY <1>2, <2>3, SumStep DEF Sm, c
    <2>5. CASE y = c
      BY <2>4, <2>5
    <2>6. CASE y # c
      <3> DEFINE both == Sm((s \ {c}) \ {y})
      <3>1. Sm(s \ {c}) = f[y] + both
        BY <1>2, <2>2, <2>6
      <3>2. (s \ {c}) \ {y} = (s \ {y}) \ {c}
        OBVIOUS
      <3>3. Sm(s \ {y}) = f[c] + both
        BY <1>2, <2>2, <2>6, <3>2
      <3>4. f[c] \in Int /\ f[y] \in Int /\ both \in Int
        BY <2>2, <2>3
      <3> HIDE DEF both
      <3>. QED
        BY <2>4, <3>1, <3>3, <3>4
    <2>. QED
      BY <2>5, <2>6
  <1>3. F = SUBSET S
    <2> HIDE DEF F
    <2>1. F \in SUBSET SUBSET S
      BY DEF F
    <2>. QED
      BY <1>1, <1>2, <2>1, SubsetInduction
  <1>. QED
    BY <1>3

\* A sum over a set with one element more.
LEMMA SumAdds ==
  ASSUME NEW f, NEW S, IsFiniteSet(S), NEW x, x \notin S,
         \A y \in S \cup {x} : f[y] \in Int
  PROVE  SumFunctionOnSet(f, S \cup {x}) = f[x] + SumFunctionOnSet(f, S)
  <1>1. IsFiniteSet(S \cup {x}) /\ (S \cup {x}) \ {x} = S
    BY FS_AddElement
  <1>2. SumFunctionOnSet(f, S \cup {x}) =
          f[x] + SumFunctionOnSet(f, (S \cup {x}) \ {x})
    BY <1>1, SumTakes
  <1>. QED
    BY <1>1, <1>2

\* A sum depends on the summands in its set only.
LEMMA SumSame ==
  ASSUME NEW f, NEW g, NEW S, IsFiniteSet(S), \A x \in S : f[x] = g[x]
  PROVE  SumFunctionOnSet(f, S) = SumFunctionOnSet(g, S)
  <1> DEFINE F == {s \in SUBSET S : SumFunctionOnSet(f, s) = SumFunctionOnSet(g, s)}
  <1>1. {} \in F
    BY SumOfNothing
  <1>2. ASSUME NEW s \in SUBSET S, s # {}, \A x \in s : s \ {x} \in F
        PROVE  s \in F
    <2>1. Any(s) \in s /\ IsFiniteSet(s)
      BY <1>2, AnyIn, FS_Subset
    <2>2. SumFunctionOnSet(f, s) = f[Any(s)] + SumFunctionOnSet(f, s \ {Any(s)})
      BY <1>2, <2>1, SumStep
    <2>3. SumFunctionOnSet(g, s) = g[Any(s)] + SumFunctionOnSet(g, s \ {Any(s)})
      BY <1>2, <2>1, SumStep
    <2>. QED
      BY <1>2, <2>1, <2>2, <2>3
  <1>3. F = SUBSET S
    <2> HIDE DEF F
    <2>1. F \in SUBSET SUBSET S
      BY DEF F
    <2>. QED
      BY <1>1, <1>2, <2>1, SubsetInduction
  <1>. QED
    BY <1>3

\* A sum of zeros.
LEMMA SumOfZeros ==
  ASSUME NEW f, NEW S, IsFiniteSet(S), \A x \in S : f[x] = 0
  PROVE  SumFunctionOnSet(f, S) = 0
  <1> DEFINE F == {s \in SUBSET S : SumFunctionOnSet(f, s) = 0}
  <1>1. {} \in F
    BY SumOfNothing
  <1>2. ASSUME NEW s \in SUBSET S, s # {}, \A x \in s : s \ {x} \in F
        PROVE  s \in F
    <2>1. Any(s) \in s /\ IsFiniteSet(s)
      BY <1>2, AnyIn, FS_Subset
    <2>2. SumFunctionOnSet(f, s) = f[Any(s)] + SumFunctionOnSet(f, s \ {Any(s)})
      BY <1>2, <2>1, SumStep
    <2>. QED
      BY <1>2, <2>1, <2>2
  <1>3. F = SUBSET S
    <2> HIDE DEF F
    <2>1. F \in SUBSET SUBSET S
      BY DEF F
    <2>. QED
      BY <1>1, <1>2, <2>1, SubsetInduction
  <1>. QED
    BY <1>3

\* A sum gains a summand.
LEMMA SumGrows ==
  ASSUME NEW f, NEW g, NEW S, IsFiniteSet(S), NEW x, x \notin S, g[x] \in Int,
         \A y \in S : f[y] \in Int /\ g[y] = f[y]
  PROVE  SumFunctionOnSet(g, S \cup {x}) = SumFunctionOnSet(f, S) + g[x]
  <1>1. SumFunctionOnSet(g, S \cup {x}) = g[x] + SumFunctionOnSet(g, S)
    BY SumAdds
  <1>2. SumFunctionOnSet(g, S) = SumFunctionOnSet(f, S)
    BY SumSame
  <1>3. SumFunctionOnSet(f, S) \in Int
    BY SumType
  <1>. QED
    BY <1>1, <1>2, <1>3

\* A sum loses a summand.
LEMMA SumShrinks ==
  ASSUME NEW f, NEW g, NEW S, IsFiniteSet(S), NEW x \in S,
         \A y \in S : f[y] \in Int, \A y \in S \ {x} : g[y] = f[y]
  PROVE  SumFunctionOnSet(g, S \ {x}) = SumFunctionOnSet(f, S) - f[x]
  <1>1. IsFiniteSet(S \ {x})
    BY FS_Subset
  <1>2. SumFunctionOnSet(f, S) = f[x] + SumFunctionOnSet(f, S \ {x})
    BY SumTakes
  <1>3. SumFunctionOnSet(g, S \ {x}) = SumFunctionOnSet(f, S \ {x})
    BY <1>1, SumSame
  <1>4. SumFunctionOnSet(f, S \ {x}) \in Int
    BY <1>1, SumType
  <1>. QED
    BY <1>2, <1>3, <1>4

\* One summand changes.
LEMMA SumChanges ==
  ASSUME NEW f, NEW g, NEW S, IsFiniteSet(S), NEW x \in S, g[x] \in Int,
         \A y \in S : f[y] \in Int, \A y \in S \ {x} : g[y] = f[y]
  PROVE  SumFunctionOnSet(g, S) = SumFunctionOnSet(f, S) - f[x] + g[x]
  <1>1. IsFiniteSet(S \ {x}) /\ (S \ {x}) \cup {x} = S
    BY FS_Subset
  <1>2. SumFunctionOnSet(f, S) = f[x] + SumFunctionOnSet(f, S \ {x})
    BY SumTakes
  <1>3. SumFunctionOnSet(g, (S \ {x}) \cup {x}) = SumFunctionOnSet(f, S \ {x}) + g[x]
    BY <1>1, SumGrows
  <1>4. SumFunctionOnSet(f, S \ {x}) \in Int /\ f[x] \in Int
    BY <1>1, SumType
  <1>5. SumFunctionOnSet(g, S) = SumFunctionOnSet(f, S \ {x}) + g[x]
    BY <1>1, <1>3
  <1>. QED
    BY <1>2, <1>4, <1>5

\* Summands may be added up in groups first: group[x] is the one of x.
LEMMA SumByGroup ==
  ASSUME NEW f, NEW S, IsFiniteSet(S), \A x \in S : f[x] \in Int,
         NEW group, NEW A, IsFiniteSet(A), \A x \in S : group[x] \in A
  PROVE  SumFunctionOnSet(f, S) =
           SumFunctionOnSet(
             [a \in A |-> SumFunctionOnSet(f, {x \in S : group[x] = a})], A)
  <1> DEFINE Part(s, a) == {x \in s : group[x] = a}
             Sub(s) == [a \in A |-> SumFunctionOnSet(f, Part(s, a))]
             F == {s \in SUBSET S :
                     SumFunctionOnSet(f, s) = SumFunctionOnSet(Sub(s), A)}
  <1>1. \A s \in SUBSET S, a \in A :
          IsFiniteSet(s) /\ IsFiniteSet(Part(s, a)) /\ Sub(s)[a] \in Int
    <2>1. SUFFICES ASSUME NEW s \in SUBSET S, NEW a \in A
                   PROVE  IsFiniteSet(s) /\ IsFiniteSet(Part(s, a)) /\ Sub(s)[a] \in Int
      OBVIOUS
    <2>2. IsFiniteSet(s) /\ IsFiniteSet(Part(s, a))
      BY FS_Subset
    <2>3. \A x \in Part(s, a) : f[x] \in Int
      OBVIOUS
    <2>4. SumFunctionOnSet(f, Part(s, a)) \in Int
      BY <2>2, <2>3, SumType
    <2>. QED
      BY <2>2, <2>4
  <1>2. {} \in F
    <2>1. \A a \in A : Sub({})[a] = 0
      <3>1. \A a \in A : Part({}, a) = {}
        OBVIOUS
      <3>. QED
        BY <3>1, SumOfNothing
    <2>2. SumFunctionOnSet(Sub({}), A) = 0
      <3> HIDE DEF Sub
      <3>. QED
        BY <2>1, SumOfZeros
    <2>. QED
      BY <2>2, SumOfNothing
  <1>3. ASSUME NEW s \in SUBSET S, s # {}, \A x \in s : s \ {x} \in F
        PROVE  s \in F
    <2>1. PICK x \in s : TRUE
      BY <1>3
    <2> DEFINE t == s \ {x}
               b == group[x]
    <2>2. b \in A /\ t \in SUBSET S /\ f[x] \in Int
      OBVIOUS
    <2>3. SumFunctionOnSet(f, t) = SumFunctionOnSet(Sub(t), A)
      BY <1>3
    <2>4. SumFunctionOnSet(f, s) = f[x] + SumFunctionOnSet(f, t)
      BY <1>1, SumTakes
    <2>5. \A a \in A : a # b => Part(s, a) = Part(t, a)
      OBVIOUS
    <2>6. \A a \in A \ {b} : Sub(s)[a] = Sub(t)[a]
      BY <2>5
    <2>7. Sub(s)[b] = f[x] + Sub(t)[b]
      <3>1. x \in Part(s, b) /\ Part(t, b) = Part(s, b) \ {x}
        OBVIOUS
      <3>2. \A y \in Part(s, b) : f[y] \in Int
        OBVIOUS
      <3>3. SumFunctionOnSet(f, Part(s, b)) =
              f[x] + SumFunctionOnSet(f, Part(s, b) \ {x})
        <4> HIDE DEF Part
        <4>. QED
          BY <1>1, <2>2, <3>1, <3>2, SumTakes
      <3>. QED
        BY <2>2, <3>1, <3>3
    <2> HIDE DEF Sub, b, t
    <2>8. SumFunctionOnSet(Sub(s), A) =
            SumFunctionOnSet(Sub(t), A) - Sub(t)[b] + Sub(s)[b]
      <3>1. /\ \A a \in A : Sub(t)[a] \in Int
            /\ Sub(s)[b] \in Int
        BY <1>1, <2>2
      <3> DEFINE g == Sub(t)
                 h == Sub(s)
      <3>2. (\A a \in A : g[a] \in Int) /\ h[b] \in Int /\ \A a \in A \ {b} : h[a] = g[a]
        BY <2>6, <3>1
      <3> HIDE DEF g, h
      <3>3. SumFunctionOnSet(h, A) = SumFunctionOnSet(g, A) - g[b] + h[b]
        BY <2>2, <3>2, SumChanges
      <3>. QED
        BY <3>3 DEF g, h
    <2>9. SumFunctionOnSet(Sub(t), A) \in Int /\ Sub(t)[b] \in Int /\ Sub(s)[b] \in Int
      BY <1>1, <2>2, SumType
    <2>10. SumFunctionOnSet(f, s) = SumFunctionOnSet(Sub(s), A)
      BY <2>2, <2>3, <2>4, <2>7, <2>8, <2>9
    <2>. QED
      BY <2>10
  <1>4. F = SUBSET S
    <2> HIDE DEF F
    <2>1. F \in SUBSET SUBSET S
      BY DEF F
    <2>. QED
      BY <1>2, <1>3, <2>1, SubsetInduction
  <1>5. S \in F
    BY <1>4
  <1>6. SumFunctionOnSet(f, S) = SumFunctionOnSet(Sub(S), A)
    BY <1>5
  <1>. QED
    BY <1>6
\* Summands of zero may be left out.
LEMMA SumWithoutZeros ==
  ASSUME NEW f, NEW S, IsFiniteSet(S), NEW T \in SUBSET S,
         \A x \in T : f[x] \in Int, \A x \in S \ T : f[x] = 0
  PROVE  SumFunctionOnSet(f, S) = SumFunctionOnSet(f, T)
  <1> DEFINE U == S \ T
             F == {s \in SUBSET U :
                     SumFunctionOnSet(f, T \cup s) = SumFunctionOnSet(f, T)}
  <1>1. IsFiniteSet(T) /\ IsFiniteSet(U)
    BY FS_Subset
  <1>2. {} \in F
    <2>1. T \cup {} = T
      OBVIOUS
    <2>. QED
      BY <2>1
  <1>3. ASSUME NEW s \in SUBSET U, s # {}, \A x \in s : s \ {x} \in F
        PROVE  s \in F
    <2>1. PICK x \in s : TRUE
      BY <1>3
    <2> DEFINE t == T \cup (s \ {x})
    <2>2. t \cup {x} = T \cup s /\ x \notin t /\ f[x] = 0 /\ t \in SUBSET S
      OBVIOUS
    <2>3. IsFiniteSet(t) /\ \A y \in t : f[y] \in Int
      BY <2>2, FS_Subset
    <2>4. SumFunctionOnSet(f, t) = SumFunctionOnSet(f, T)
      BY <1>3
    <2> HIDE DEF t
    <2>5. \A y \in t \cup {x} : f[y] \in Int
      BY <2>2, <2>3
    <2>6. SumFunctionOnSet(f, t \cup {x}) = f[x] + SumFunctionOnSet(f, t)
      BY <2>2, <2>3, <2>5, SumAdds
    <2>7. SumFunctionOnSet(f, t) \in Int
      BY <2>3, SumType
    <2>8. SumFunctionOnSet(f, t \cup {x}) = SumFunctionOnSet(f, t)
      BY <2>2, <2>6, <2>7
    <2>9. SumFunctionOnSet(f, T \cup s) = SumFunctionOnSet(f, T)
      BY <2>2, <2>4, <2>8
    <2>. QED
      BY <2>9
  <1>4. F = SUBSET U
    <2> HIDE DEF F, U
    <2>1. F \in SUBSET SUBSET U
      BY DEF F
    <2>. QED
      BY <1>1, <1>2, <1>3, <2>1, SubsetInduction
  <1>5. T \cup U = S
    OBVIOUS
  <1>6. SumFunctionOnSet(f, T \cup U) = SumFunctionOnSet(f, T)
    BY <1>4
  <1>. QED
    BY <1>5, <1>6

\* The sum of the opposites.
LEMMA SumOfOpposites ==
  ASSUME NEW f, NEW g, NEW S, IsFiniteSet(S),
         \A x \in S : f[x] \in Int /\ g[x] = -f[x]
  PROVE  SumFunctionOnSet(g, S) = -SumFunctionOnSet(f, S)
  <1> DEFINE F == {s \in SUBSET S :
                     SumFunctionOnSet(g, s) = -SumFunctionOnSet(f, s)}
  <1>1. {} \in F
    BY SumOfNothing
  <1>2. ASSUME NEW s \in SUBSET S, s # {}, \A x \in s : s \ {x} \in F
        PROVE  s \in F
    <2>1. Any(s) \in s /\ IsFiniteSet(s) /\ IsFiniteSet(s \ {Any(s)})
      BY <1>2, AnyIn, FS_Subset
    <2> DEFINE x == Any(s)
               m == SumFunctionOnSet(f, s \ {x})
    <2>2. SumFunctionOnSet(f, s) = f[x] + m
      BY <1>2, <2>1, SumStep
    <2>3. SumFunctionOnSet(g, s) = g[x] + SumFunctionOnSet(g, s \ {x})
      BY <1>2, <2>1, SumStep
    <2>4. SumFunctionOnSet(g, s \ {x}) = -m
      BY <1>2, <2>1
    <2>5. f[x] \in Int /\ g[x] = -f[x]
      BY <2>1
    <2>6. m \in Int
      BY <2>1, SumType
    <2> HIDE DEF x, m
    <2>7. SumFunctionOnSet(g, s) = -SumFunctionOnSet(f, s)
      BY <2>2, <2>3, <2>4, <2>5, <2>6
    <2>. QED
      BY <2>7
  <1>3. F = SUBSET S
    <2> HIDE DEF F
    <2>1. F \in SUBSET SUBSET S
      BY DEF F
    <2>. QED
      BY <1>1, <1>2, <2>1, SubsetInduction
  <1>. QED
    BY <1>3

\* The sum of sums.
LEMMA SumOfSums ==
  ASSUME NEW f, NEW g, NEW h, NEW S, IsFiniteSet(S),
         \A x \in S : f[x] \in Int /\ g[x] \in Int /\ h[x] = f[x] + g[x]
  PROVE  SumFunctionOnSet(h, S) = SumFunctionOnSet(f, S) + SumFunctionOnSet(g, S)
  <1> DEFINE F == {s \in SUBSET S :
                     SumFunctionOnSet(h, s) =
                       SumFunctionOnSet(f, s) + SumFunctionOnSet(g, s)}
  <1>1. {} \in F
    BY SumOfNothing
  <1>2. ASSUME NEW s \in SUBSET S, s # {}, \A x \in s : s \ {x} \in F
        PROVE  s \in F
    <2>1. Any(s) \in s /\ IsFiniteSet(s) /\ IsFiniteSet(s \ {Any(s)})
      BY <1>2, AnyIn, FS_Subset
    <2> DEFINE x == Any(s)
               m == SumFunctionOnSet(f, s \ {x})
               n == SumFunctionOnSet(g, s \ {x})
    <2>2. SumFunctionOnSet(f, s) = f[x] + m
      BY <1>2, <2>1, SumStep
    <2>3. SumFunctionOnSet(g, s) = g[x] + n
      BY <1>2, <2>1, SumStep
    <2>4. SumFunctionOnSet(h, s) = h[x] + SumFunctionOnSet(h, s \ {x})
      BY <1>2, <2>1, SumStep
    <2>5. SumFunctionOnSet(h, s \ {x}) = m + n
      BY <1>2, <2>1
    <2>6. f[x] \in Int /\ g[x] \in Int /\ h[x] = f[x] + g[x]
      BY <2>1
    <2>7. m \in Int /\ n \in Int
      BY <2>1, SumType
    <2> HIDE DEF x, m, n
    <2>8. SumFunctionOnSet(h, s) = SumFunctionOnSet(f, s) + SumFunctionOnSet(g, s)
      BY <2>2, <2>3, <2>4, <2>5, <2>6, <2>7
    <2>. QED
      BY <2>8
  <1>3. F = SUBSET S
    <2> HIDE DEF F
    <2>1. F \in SUBSET SUBSET S
      BY DEF F
    <2>. QED
      BY <1>1, <1>2, <2>1, SubsetInduction
  <1>. QED
    BY <1>3

\* The sum of two summands.
LEMMA SumOfTwo ==
  ASSUME NEW f, NEW x, NEW y, x # y, f[x] \in Int, f[y] \in Int
  PROVE  SumFunctionOnSet(f, {x, y}) = f[x] + f[y]
  <1>1. IsFiniteSet({}) /\ IsFiniteSet({y})
    BY FS_EmptySet, FS_Singleton
  <1>2. SumFunctionOnSet(f, {} \cup {y}) = f[y] + SumFunctionOnSet(f, {})
    BY <1>1, SumAdds
  <1>3. SumFunctionOnSet(f, {y} \cup {x}) = f[x] + SumFunctionOnSet(f, {y})
    BY <1>1, SumAdds
  <1>4. {} \cup {y} = {y} /\ {y} \cup {x} = {x, y}
    OBVIOUS
  <1>5. SumFunctionOnSet(f, {}) = 0
    BY SumOfNothing
  <1>6. SumFunctionOnSet(f, {} \cup {y}) = SumFunctionOnSet(f, {y})
    BY <1>4
  <1>7. SumFunctionOnSet(f, {y} \cup {x}) = SumFunctionOnSet(f, {x, y})
    BY <1>4
  <1>8. SumFunctionOnSet(f, {y}) = f[y]
    BY <1>2, <1>5, <1>6
  <1>. QED
    BY <1>3, <1>7, <1>8
=============================================================================
