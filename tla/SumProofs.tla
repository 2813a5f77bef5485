------------------------------- MODULE SumProofs -------------------------------
(***************************************************************************)
(* Least numbers, least sets and sums over finite sets: what the proofs    *)
(* about ledgers, budgets and queues need.                                 *)
(*                                                                         *)
(* SumFunctionOnSet is a recursive function under a CHOOSE, and the        *)
(* library's induction theorems take an operator, which the provers cannot *)
(* instantiate.  Induction is therefore done here with a least             *)
(* counterexample: a set of naturals has a smallest element (MinNat), so a *)
(* family of subsets of a finite set has a smallest member (MinSubset).    *)
(***************************************************************************)
EXTENDS Integers, Functions, WellFoundedInduction, FiniteSetTheorems, TLAPS

Less == OpToRel(<, Nat)

\* A set of natural numbers that is not empty has a least element.
LEMMA MinNat ==
    ASSUME NEW T, T \subseteq Nat, T # {}
    PROVE  \E x \in T : \A y \in T : x <= y
<1>1. IsWellFoundedOn(Less, Nat)
  BY NatLessThanWellFounded DEF Less
<1>2. PICK x \in T : \A y \in T : ~(<<y, x>> \in Less)
  BY <1>1, WFMin
<1>3. \A y, z \in Nat : y < z => <<y, z>> \in Less
  <2>1. Less = {ss \in Nat \X Nat : ss[1] < ss[2]}
    BY DEF OpToRel, Less
  <2> QED BY <2>1
<1>4. x \in Nat /\ \A y \in T : y \in Nat /\ ~(y < x)
  BY <1>2, <1>3
<1> QED BY <1>4

\* A family of subsets of a finite set has a member none of whose elements
\* can be taken out without leaving the family.
LEMMA MinSubset ==
    ASSUME NEW S, IsFiniteSet(S), NEW Bad, Bad \subseteq SUBSET S, Bad # {}
    PROVE  \E s \in Bad : IsFiniteSet(s) /\ \A x \in s : s \ {x} \notin Bad
<1> DEFINE sizes == {Cardinality(s) : s \in Bad}
<1>1. \A s \in Bad : IsFiniteSet(s) /\ Cardinality(s) \in Nat
  BY FS_Subset, FS_CardinalityType
<1>2. sizes \subseteq Nat /\ sizes # {}
  BY <1>1
<1>3. PICK n \in sizes : \A m \in sizes : n <= m
  <2> HIDE DEF sizes
  <2> QED BY <1>2, MinNat
<1>4. PICK s \in Bad : n = Cardinality(s)
  BY <1>3
<1>5. ASSUME NEW x \in s, s \ {x} \in Bad PROVE FALSE
  <2>1. Cardinality(s \ {x}) = Cardinality(s) - 1
    BY <1>1, <1>5, FS_RemoveElement
  <2>2. Cardinality(s) <= Cardinality(s \ {x})
    BY <1>3, <1>4, <1>5
  <2> QED BY <1>1, <1>5, <2>1, <2>2
<1> QED BY <1>1, <1>5

-----------------------------------------------------------------------------
(* Sums.                                                                   *)

Choice(s) == CHOOSE x \in s : TRUE

\* g sums f over every subset of S, taking one element at a time.
SumsUp(g, f, S) ==
    g = [s \in SUBSET S |->
            IF s = {} THEN 0 ELSE f[Choice(s)] + g[s \ {Choice(s)}]]

\* What SumFunctionOnSet is defined by.
LEMMA SumIsChosen ==
    ASSUME NEW f, NEW S
    PROVE  SumFunctionOnSet(f, S) = (CHOOSE g : SumsUp(g, f, S))[S]
  BY DEF SumFunctionOnSet, FoldFunctionOnSet, MapThenFoldSet, SumsUp, Choice

\* Such a function exists for a finite set: it is built size by size.
LEMMA SummerExists ==
    ASSUME NEW f, NEW S, IsFiniteSet(S)
    PROVE  \E g : SumsUp(g, f, S)
<1> DEFINE next(g, s) == IF s = {} THEN 0 ELSE f[Choice(s)] + g[s \ {Choice(s)}]
           good(g, n) == /\ g = [s \in SUBSET S |-> g[s]]
                         /\ \A s \in SUBSET S :
                               Cardinality(s) <= n => g[s] = next(g, s)
           bad == {n \in Nat : \A g : ~good(g, n)}
<1>1. \A s \in SUBSET S : /\ IsFiniteSet(s) /\ Cardinality(s) \in Nat
                          /\ Cardinality(s) <= Cardinality(S)
  BY FS_Subset, FS_CardinalityType
<1>2. \A s \in SUBSET S : s # {} =>
         /\ Choice(s) \in s
         /\ s \ {Choice(s)} \in SUBSET S
         /\ Cardinality(s \ {Choice(s)}) = Cardinality(s) - 1
  BY <1>1, FS_RemoveElement DEF Choice
<1>3. 0 \notin bad
  <2> DEFINE g == [s \in SUBSET S |-> 0]
  <2>1. \A s \in SUBSET S : Cardinality(s) <= 0 => s = {}
    BY <1>1, FS_EmptySet
  <2>2. good(g, 0)
    BY <2>1
  <2> QED BY <2>2
<1>4. ASSUME NEW n \in Nat, n \notin bad PROVE n + 1 \notin bad
  <2>1. PICK g : good(g, n)
    BY <1>4
  <2> DEFINE h == [s \in SUBSET S |->
                     IF Cardinality(s) = n + 1 THEN next(g, s) ELSE g[s]]
  <2>2. \A s \in SUBSET S : Cardinality(s) <= n => h[s] = g[s]
    BY <1>1
  <2>3. ASSUME NEW s \in SUBSET S, Cardinality(s) <= n + 1
        PROVE  h[s] = next(h, s)
    <3>1. h[s] = next(g, s)
      <4>1. CASE Cardinality(s) = n + 1
        BY <4>1
      <4>2. CASE Cardinality(s) <= n
        BY <2>1, <2>2, <4>2
      <4> QED BY <1>1, <2>3, <4>1, <4>2
    <3>2. s # {} => h[s \ {Choice(s)}] = g[s \ {Choice(s)}]
      <4> HIDE DEF h
      <4> QED BY <1>1, <1>2, <2>2, <2>3
    <3> HIDE DEF h
    <3> QED BY <3>1, <3>2
  <2>4. good(h, n + 1)
    <3>1. h = [s \in SUBSET S |-> h[s]]
      OBVIOUS
    <3> HIDE DEF h, next
    <3> QED BY <2>3, <3>1
  <2> HIDE DEF h, good
  <2> QED BY <2>4
<1>5. bad = {}
  <2> SUFFICES ASSUME bad # {} PROVE FALSE
    OBVIOUS
  <2>1. PICK n \in bad : \A m \in bad : n <= m
    <3>1. bad \subseteq Nat
      OBVIOUS
    <3> HIDE DEF bad
    <3> QED BY <3>1, MinNat
  <2>2. n \in Nat /\ n # 0
    BY <1>3
  <2>3. n - 1 \in Nat /\ n - 1 + 1 = n
    BY <2>2
  <2>4. n - 1 \notin bad
    <3> HIDE DEF bad
    <3> QED BY <2>1, <2>2
  <2> HIDE DEF bad
  <2> QED BY <1>4, <2>3, <2>4
<1>6. PICK g : good(g, Cardinality(S))
  BY <1>1, <1>5
<1>7. \A s \in SUBSET S : g[s] = next(g, s)
  BY <1>1, <1>6
<1>8. g = [s \in SUBSET S |-> next(g, s)]
  BY <1>6, <1>7
<1> QED BY <1>8 DEF SumsUp

\* Two such functions agree where both are defined.
LEMMA SummersAgree ==
    ASSUME NEW f, NEW S, IsFiniteSet(S), NEW T \in SUBSET S,
           NEW g, SumsUp(g, f, S), NEW h, SumsUp(h, f, T)
    PROVE  g[T] = h[T]
<1> DEFINE Bad == {s \in SUBSET T : g[s] # h[s]}
<1>1. IsFiniteSet(T)
  BY FS_Subset
<1>2. \A s \in SUBSET T :
         /\ g[s] = IF s = {} THEN 0 ELSE f[Choice(s)] + g[s \ {Choice(s)}]
         /\ h[s] = IF s = {} THEN 0 ELSE f[Choice(s)] + h[s \ {Choice(s)}]
  BY DEF SumsUp
<1>3. Bad = {}
  <2> SUFFICES ASSUME Bad # {} PROVE FALSE
    OBVIOUS
  <2>1. PICK s \in Bad : \A x \in s : s \ {x} \notin Bad
    <3>1. Bad \subseteq SUBSET T
      OBVIOUS
    <3> HIDE DEF Bad
    <3> QED BY <1>1, <3>1, MinSubset
  <2>2. CASE s = {}
    BY <1>2, <2>2
  <2>3. CASE s # {}
    <3>1. Choice(s) \in s
      BY <2>3 DEF Choice
    <3>2. g[s \ {Choice(s)}] = h[s \ {Choice(s)}]
      BY <2>1, <3>1
    <3> QED BY <1>2, <2>3, <3>2
  <2> QED BY <2>2, <2>3
<1> QED BY <1>3

\* The sum over nothing is 0; the sum over a finite set is the chosen
\* element's value and the sum over the others.
LEMMA SumUnrolled ==
    ASSUME NEW f, NEW S, IsFiniteSet(S)
    PROVE  SumFunctionOnSet(f, S) =
              IF S = {} THEN 0
              ELSE f[Choice(S)] + SumFunctionOnSet(f, S \ {Choice(S)})
<1> DEFINE g == CHOOSE h : SumsUp(h, f, S)
           T == S \ {Choice(S)}
           k == CHOOSE h : SumsUp(h, f, T)
<1>1. SumsUp(g, f, S)
  BY SummerExists
<1>2. IsFiniteSet(T) /\ T \in SUBSET S
  BY FS_Subset
<1>3. SumsUp(k, f, T)
  <2> HIDE DEF T
  <2> QED BY <1>2, SummerExists
<1>4. SumFunctionOnSet(f, S) = g[S] /\ SumFunctionOnSet(f, T) = k[T]
  BY SumIsChosen
<1>5. g[S] = IF S = {} THEN 0 ELSE f[Choice(S)] + g[T]
  <2> HIDE DEF g
  <2> QED BY <1>1 DEF SumsUp
<1>6. g[T] = k[T]
  <2> HIDE DEF g, k, T
  <2> QED BY <1>1, <1>2, <1>3, SummersAgree
<1> HIDE DEF g, k
<1> QED BY <1>4, <1>5, <1>6

\* A sum of integers is an integer.
LEMMA SumInt ==
    ASSUME NEW f, NEW S, IsFiniteSet(S), \A x \in S : f[x] \in Int
    PROVE  SumFunctionOnSet(f, S) \in Int
<1> DEFINE Bad == {s \in SUBSET S : SumFunctionOnSet(f, s) \notin Int}
<1>1. Bad = {}
  <2> SUFFICES ASSUME Bad # {} PROVE FALSE
    OBVIOUS
  <2>1. PICK s \in Bad : IsFiniteSet(s) /\ \A x \in s : s \ {x} \notin Bad
    <3>1. Bad \subseteq SUBSET S
      OBVIOUS
    <3> HIDE DEF Bad
    <3> QED BY <3>1, MinSubset
  <2>2. s # {} => /\ Choice(s) \in s
                  /\ SumFunctionOnSet(f, s \ {Choice(s)}) \in Int
    <3> SUFFICES ASSUME s # {}
                 PROVE  /\ Choice(s) \in s
                        /\ SumFunctionOnSet(f, s \ {Choice(s)}) \in Int
      OBVIOUS
    <3>1. Choice(s) \in s
      BY DEF Choice
    <3> QED BY <2>1, <3>1
  <2>3. SumFunctionOnSet(f, s) =
           IF s = {} THEN 0
           ELSE f[Choice(s)] + SumFunctionOnSet(f, s \ {Choice(s)})
    BY <2>1, SumUnrolled
  <2> QED BY <2>1, <2>2, <2>3
<1> QED BY <1>1

\* A sum of natural numbers is one.
LEMMA SumNat ==
    ASSUME NEW f, NEW S, IsFiniteSet(S), \A x \in S : f[x] \in Nat
    PROVE  SumFunctionOnSet(f, S) \in Nat
<1> DEFINE Bad == {s \in SUBSET S : SumFunctionOnSet(f, s) \notin Nat}
<1>1. Bad = {}
  <2> SUFFICES ASSUME Bad # {} PROVE FALSE
    OBVIOUS
  <2>1. PICK s \in Bad : IsFiniteSet(s) /\ \A x \in s : s \ {x} \notin Bad
    <3>1. Bad \subseteq SUBSET S
      OBVIOUS
    <3> HIDE DEF Bad
    <3> QED BY <3>1, MinSubset
  <2>2. ASSUME s # {}
        PROVE  /\ f[Choice(s)] \in Nat
               /\ SumFunctionOnSet(f, s \ {Choice(s)}) \in Nat
    <3>1. Choice(s) \in s
      BY <2>2 DEF Choice
    <3> QED BY <2>1, <3>1
  <2>3. SumFunctionOnSet(f, s) =
           IF s = {} THEN 0
           ELSE f[Choice(s)] + SumFunctionOnSet(f, s \ {Choice(s)})
    BY <2>1, SumUnrolled
  <2> QED BY <2>1, <2>2, <2>3
<1> QED BY <1>1

\* Sums of functions that agree on the set are equal.
LEMMA SumCongruent ==
    ASSUME NEW f, NEW g, NEW S, IsFiniteSet(S), \A x \in S : f[x] = g[x]
    PROVE  SumFunctionOnSet(f, S) = SumFunctionOnSet(g, S)
<1> DEFINE Bad == {s \in SUBSET S :
                     SumFunctionOnSet(f, s) # SumFunctionOnSet(g, s)}
<1>1. Bad = {}
  <2> SUFFICES ASSUME Bad # {} PROVE FALSE
    OBVIOUS
  <2>1. PICK s \in Bad : IsFiniteSet(s) /\ \A x \in s : s \ {x} \notin Bad
    <3>1. Bad \subseteq SUBSET S
      OBVIOUS
    <3> HIDE DEF Bad
    <3> QED BY <3>1, MinSubset
  <2>2. /\ SumFunctionOnSet(f, s) =
              IF s = {} THEN 0
              ELSE f[Choice(s)] + SumFunctionOnSet(f, s \ {Choice(s)})
        /\ SumFunctionOnSet(g, s) =
              IF s = {} THEN 0
              ELSE g[Choice(s)] + SumFunctionOnSet(g, s \ {Choice(s)})
    BY <2>1, SumUnrolled
  <2>3. s # {} => /\ Choice(s) \in s
                  /\ SumFunctionOnSet(f, s \ {Choice(s)})
                        = SumFunctionOnSet(g, s \ {Choice(s)})
    <3> SUFFICES ASSUME s # {}
                 PROVE  /\ Choice(s) \in s
                        /\ SumFunctionOnSet(f, s \ {Choice(s)})
                              = SumFunctionOnSet(g, s \ {Choice(s)})
      OBVIOUS
    <3>1. Choice(s) \in s
      BY DEF Choice
    <3> QED BY <2>1, <3>1
  <2> QED BY <2>1, <2>2, <2>3
<1> QED BY <1>1

\* Any element's value can be taken out of a sum, not only the chosen one's.
LEMMA SumWithout ==
    ASSUME NEW f, NEW S, IsFiniteSet(S), \A x \in S : f[x] \in Int,
           NEW e \in S
    PROVE  SumFunctionOnSet(f, S) = f[e] + SumFunctionOnSet(f, S \ {e})
<1> DEFINE sum(s) == SumFunctionOnSet(f, s)
           Bad == {s \in SUBSET S : \E x \in s : sum(s) # f[x] + sum(s \ {x})}
<1>1. \A s \in SUBSET S : IsFiniteSet(s) /\ sum(s) \in Int
  BY FS_Subset, SumInt
<1>2. Bad = {}
  <2> SUFFICES ASSUME Bad # {} PROVE FALSE
    OBVIOUS
  <2>1. PICK s \in Bad : \A x \in s : s \ {x} \notin Bad
    <3>1. Bad \subseteq SUBSET S
      OBVIOUS
    <3> HIDE DEF Bad
    <3> QED BY <3>1, MinSubset
  <2>2. PICK x \in s : sum(s) # f[x] + sum(s \ {x})
    BY <2>1
  <2> DEFINE c == Choice(s)
  <2>3. c \in s /\ s \subseteq S
    BY <2>2 DEF Choice
  <2>4. sum(s) = f[c] + sum(s \ {c})
    BY <1>1, <2>1, <2>2, SumUnrolled
  <2> HIDE DEF c
  <2>5. c # x
    BY <2>2, <2>4
  <2>6. sum(s \ {c}) = f[x] + sum((s \ {c}) \ {x})
    BY <2>1, <2>2, <2>3, <2>5
  <2>7. sum(s \ {x}) = f[c] + sum((s \ {x}) \ {c})
    BY <2>1, <2>2, <2>3, <2>5
  <2>8. (s \ {c}) \ {x} = (s \ {x}) \ {c}
    OBVIOUS
  <2>9. /\ f[x] \in Int /\ f[c] \in Int
        /\ sum((s \ {c}) \ {x}) \in Int
    BY <1>1, <2>2, <2>3
  <2> HIDE DEF sum
  <2> QED BY <2>2, <2>4, <2>6, <2>7, <2>8, <2>9
<1> QED BY <1>2

\* A new element adds its value.
LEMMA SumWith ==
    ASSUME NEW f, NEW S, IsFiniteSet(S), NEW e, e \notin S,
           \A x \in S \cup {e} : f[x] \in Int
    PROVE  SumFunctionOnSet(f, S \cup {e}) = SumFunctionOnSet(f, S) + f[e]
<1>1. IsFiniteSet(S \cup {e}) /\ (S \cup {e}) \ {e} = S
  BY FS_AddElement
<1>2. SumFunctionOnSet(f, S \cup {e}) = f[e] + SumFunctionOnSet(f, S)
  BY <1>1, SumWithout
<1>3. SumFunctionOnSet(f, S) \in Int
  BY SumInt
<1> QED BY <1>2, <1>3

\* A sum of values that are at most b is at most b for each of them.
LEMMA SumBounded ==
    ASSUME NEW f, NEW S, IsFiniteSet(S), NEW b \in Int,
           \A x \in S : f[x] \in Int /\ f[x] <= b
    PROVE  SumFunctionOnSet(f, S) <= Cardinality(S) * b
<1> DEFINE sum(s) == SumFunctionOnSet(f, s)
           Bad == {s \in SUBSET S : ~(sum(s) <= Cardinality(s) * b)}
<1>1. \A s \in SUBSET S : /\ IsFiniteSet(s) /\ Cardinality(s) \in Nat
                          /\ sum(s) \in Int
  BY FS_Subset, FS_CardinalityType, SumInt
<1>2. Bad = {}
  <2> SUFFICES ASSUME Bad # {} PROVE FALSE
    OBVIOUS
  <2>1. PICK s \in Bad : \A x \in s : s \ {x} \notin Bad
    <3>1. Bad \subseteq SUBSET S
      OBVIOUS
    <3> HIDE DEF Bad
    <3> QED BY <3>1, MinSubset
  <2>2. IsFiniteSet(s) /\ Cardinality(s) \in Nat /\ sum(s) \in Int
    BY <1>1, <2>1
  <2>3. CASE s = {}
    <3>1. sum(s) = 0 /\ Cardinality(s) = 0
      BY <2>2, <2>3, SumUnrolled, FS_EmptySet
    <3> QED BY <2>1, <3>1
  <2>4. CASE s # {}
    <3>1. PICK e \in s : TRUE
      BY <2>4
    <3>2. /\ sum(s) = f[e] + sum(s \ {e})
          /\ Cardinality(s \ {e}) = Cardinality(s) - 1
          /\ sum(s \ {e}) \in Int /\ f[e] \in Int /\ f[e] <= b
      <4>1. \A x \in s : f[x] \in Int /\ f[x] <= b
        BY <2>1
      <4>2. sum(s) = f[e] + sum(s \ {e})
        BY <2>2, <4>1, SumWithout
      <4>3. sum(s \ {e}) \in Int
        BY <1>1, <2>1
      <4>4. Cardinality(s \ {e}) = Cardinality(s) - 1
        BY <2>2, FS_RemoveElement
      <4> QED BY <4>1, <4>2, <4>3, <4>4
    <3>3. sum(s \ {e}) <= (Cardinality(s) - 1) * b
      BY <2>1, <3>2
    <3>4. (Cardinality(s) - 1) * b = Cardinality(s) * b - b
      BY <2>2
    <3> DEFINE product == Cardinality(s) * b
    <3>5. product \in Int
      BY <2>2
    <3> HIDE DEF product, sum
    <3>6. sum(s) <= product
      BY <3>2, <3>3, <3>4, <3>5 DEF product
    <3> QED BY <2>1, <3>6 DEF product, sum
  <2> QED BY <2>3, <2>4
<1> QED BY <1>2

=============================================================================
