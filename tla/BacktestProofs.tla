--------------------------- MODULE BacktestProofs ----------------------------
(***************************************************************************)
(* The streaming engine and its backtest: over an undisturbed day they     *)
(* find the same signals, for any sectors, stocks, rules, markets and      *)
(* cache files.  First the cache: what is read back after some days is the *)
(* past and a row or the bars of each day since, whatever the chunks.      *)
(* Then the lookups: at the end of a series they say what the backtest     *)
(* looks up at the day after it.  Then the tracker, which breaks out at    *)
(* the first close beyond the range, and the decision, which is the        *)
(* backtest's once the candles of the day are in the buffers.  Last, that  *)
(* they are: the course of an undisturbed day.                             *)
(***************************************************************************)
EXTENDS StrategyEngineProofs

-----------------------------------------------------------------------------
(* Sequences in a strict order.                                            *)

StrictOrder(R, S) ==
    /\ \A x \in S : <<x, x>> \notin R
    /\ \A x, y \in S : x # y => <<x, y>> \in R \/ <<y, x>> \in R
    /\ \A x, y, z \in S : <<x, y>> \in R /\ <<y, z>> \in R => <<x, z>> \in R

Rank(x, S, R) == Cardinality({y \in S : <<y, x>> \in R})

Ranked(S, R) ==
    [i \in 1 .. Cardinality(S) |-> CHOOSE x \in S : Rank(x, S, R) = i - 1]

\* r holds the n elements of S in ascending order.
Lists(r, n, S, R) ==
    /\ S = {r[i] : i \in 1 .. n}
    /\ StrictOrder(R, S)
    /\ \A i, j \in 1 .. n : i < j => <<r[i], r[j]>> \in R

\* Elements that differ from one another are as many as their indices.
LEMMA DistinctImages ==
    ASSUME NEW J, IsFiniteSet(J), NEW f, \A i, j \in J : f[i] = f[j] => i = j
    PROVE  LET T == {f[j] : j \in J}
           IN  IsFiniteSet(T) /\ Cardinality(T) = Cardinality(J)
<1> DEFINE T == {f[j] : j \in J}
           h == [j \in J |-> f[j]]
<1>1. h \in [J -> T] /\ \A t \in T : \E j \in J : h[j] = t
  OBVIOUS
<1>2. \A i, j \in J : h[i] = h[j] => i = j
  OBVIOUS
<1> HIDE DEF T, h
<1>3. h \in Surjection(J, T)
  BY <1>1, Fun_IsSurj
<1>4. h \in Injection(J, T)
  BY <1>1, <1>2, Fun_IsInj
<1>5. IsFiniteSet(T) /\ Cardinality(T) = Cardinality(J)
  BY <1>3, <1>4, FS_Surjection
<1> QED BY <1>5 DEF T

\* So are those of a sequence.
LEMMA DistinctImage ==
    ASSUME NEW n \in Nat, NEW f, \A i, j \in 1 .. n : i # j => f[i] # f[j]
    PROVE  LET T == {f[i] : i \in 1 .. n}
           IN  IsFiniteSet(T) /\ Cardinality(T) = n
<1>1. IsFiniteSet(1 .. n) /\ Cardinality(1 .. n) = n
  BY FS_Interval
<1>2. \A i, j \in 1 .. n : f[i] = f[j] => i = j
  OBVIOUS
<1> QED BY <1>1, <1>2, DistinctImages

\* What is before an element of an ascending sequence has smaller indices.
LEMMA RankInSequence ==
    ASSUME NEW n \in Nat, NEW r, NEW S, NEW R, Lists(r, n, S, R)
    PROVE  /\ IsFiniteSet(S) /\ Cardinality(S) = n
           /\ \A i \in 1 .. n : Rank(r[i], S, R) = i - 1
<1> USE DEF Lists
<1>1. \A i \in 1 .. n : r[i] \in S
  OBVIOUS
<1>2. \A i, j \in 1 .. n : i # j => r[i] # r[j]
  <2> SUFFICES ASSUME NEW i \in 1 .. n, NEW j \in 1 .. n, i < j PROVE r[i] # r[j]
    OBVIOUS
  <2>1. <<r[i], r[j]>> \in R
    OBVIOUS
  <2>2. <<r[i], r[i]>> \notin R
    BY <1>1 DEF StrictOrder
  <2> QED BY <2>1, <2>2
<1>3. IsFiniteSet(S) /\ Cardinality(S) = n
  BY <1>2, DistinctImage
<1>4. ASSUME NEW i \in 1 .. n PROVE Rank(r[i], S, R) = i - 1
  <2> DEFINE before == {y \in S : <<y, r[i]>> \in R}
             first == {r[j] : j \in 1 .. i - 1}
  <2>1. ASSUME NEW j \in 1 .. n PROVE <<r[j], r[i]>> \in R <=> j < i
    <3>1. j = i => <<r[j], r[i]>> \notin R
      BY <1>1 DEF StrictOrder
    <3>2. ASSUME i < j, <<r[j], r[i]>> \in R PROVE FALSE
      <4>1. <<r[i], r[j]>> \in R
        BY <3>2
      <4>2. <<r[i], r[i]>> \in R
        BY <1>1, <3>2, <4>1 DEF StrictOrder
      <4> QED BY <1>1, <4>2 DEF StrictOrder
    <3> QED BY <3>1, <3>2
  <2>2. before = first
    <3>1. \A y \in before : y \in first
      <4> TAKE y \in before
      <4>1. PICK j \in 1 .. n : y = r[j]
        OBVIOUS
      <4>2. j < i
        BY <2>1, <4>1
      <4> QED BY <4>1, <4>2
    <3>2. \A y \in first : y \in before
      <4> TAKE y \in first
      <4>1. PICK j \in 1 .. i - 1 : y = r[j]
        OBVIOUS
      <4>2. j \in 1 .. n /\ j < i
        OBVIOUS
      <4>3. <<r[j], r[i]>> \in R
        BY <2>1, <4>2
      <4> QED BY <1>1, <4>1, <4>2, <4>3
    <3> HIDE DEF before, first
    <3> QED BY <3>1, <3>2
  <2>3. i - 1 \in Nat /\ \A a, b \in 1 .. i - 1 : a # b => r[a] # r[b]
    BY <1>2
  <2>4. Cardinality(first) = i - 1
    BY <2>3, DistinctImage
  <2> HIDE DEF before, first
  <2>5. Cardinality(before) = i - 1
    BY <2>2, <2>4
  <2> QED BY <2>5 DEF Rank, before
<1> QED BY <1>3, <1>4

\* No two elements have one rank, and there is one of each rank.
LEMMA RanksOf ==
    ASSUME NEW S, IsFiniteSet(S), NEW R, StrictOrder(R, S)
    PROVE  /\ \A i \in 1 .. Cardinality(S) : \E x \in S : Rank(x, S, R) = i - 1
           /\ \A x, z \in S : Rank(x, S, R) = Rank(z, S, R) => x = z
  BY EveryRankTaken DEF StrictOrder, Rank

\* There is one ascending sequence of the elements of a set.
LEMMA OnlyOneAscends ==
    ASSUME NEW n \in Nat, NEW r, NEW S, NEW R, Lists(r, n, S, R)
    PROVE  Ranked(S, R) = [i \in 1 .. n |-> r[i]]
<1>1. /\ IsFiniteSet(S) /\ Cardinality(S) = n
      /\ \A i \in 1 .. n : Rank(r[i], S, R) = i - 1
  BY RankInSequence
<1>2. \A x, z \in S : Rank(x, S, R) = Rank(z, S, R) => x = z
  BY <1>1, RanksOf DEF Lists
<1>3. ASSUME NEW i \in 1 .. n PROVE r[i] = CHOOSE x \in S : Rank(x, S, R) = i - 1
  <2>1. r[i] \in S /\ Rank(r[i], S, R) = i - 1
    BY <1>1 DEF Lists
  <2>2. \A x \in S : Rank(x, S, R) = i - 1 => x = r[i]
    BY <1>2, <2>1
  <2> QED BY <2>1, <2>2
<1>4. Ranked(S, R) = [i \in 1 .. n |-> CHOOSE x \in S : Rank(x, S, R) = i - 1]
  BY <1>1 DEF Ranked
<1> QED BY <1>3, <1>4

\* The ranked elements of a finite set ascend, and they are all of it.
LEMMA RankedAscends ==
    ASSUME NEW S, IsFiniteSet(S), NEW R, StrictOrder(R, S),
           NEW r, r = Ranked(S, R)
    PROVE  /\ r \in Seq(S) /\ Len(r) = Cardinality(S) /\ DOMAIN r = 1 .. Len(r)
           /\ Len(r) \in Nat
           /\ Lists(r, Len(r), S, R)
<1> DEFINE n == Cardinality(S)
<1>1. n \in Nat
  BY FS_CardinalityType
<1>2. /\ \A i \in 1 .. n : \E x \in S : Rank(x, S, R) = i - 1
      /\ \A x, z \in S : Rank(x, S, R) = Rank(z, S, R) => x = z
  BY RanksOf
<1>3. r = [i \in 1 .. n |-> CHOOSE x \in S : Rank(x, S, R) = i - 1]
  BY DEF Ranked
<1> HIDE DEF n
<1>4. \A i \in 1 .. n : r[i] \in S /\ Rank(r[i], S, R) = i - 1
  BY <1>2, <1>3
<1>5. r \in [1 .. n -> S]
  BY <1>3, <1>4
<1>6. r \in Seq(S) /\ Len(r) = n /\ DOMAIN r = 1 .. n
  BY <1>1, <1>5, SeqDef
<1>7. \A x \in S : Rank(x, S, R) \in Nat /\ Rank(x, S, R) < n
  <2> TAKE x \in S
  <2> DEFINE before == {y \in S : <<y, x>> \in R}
  <2>1. before \in SUBSET (S \ {x})
    BY DEF StrictOrder
  <2>2. IsFiniteSet(S \ {x}) /\ Cardinality(S \ {x}) = n - 1
    BY FS_RemoveElement DEF n
  <2> HIDE DEF before
  <2>3. IsFiniteSet(before) /\ Cardinality(before) <= n - 1
    BY <2>1, <2>2, FS_Subset
  <2>4. Cardinality(before) \in Nat
    BY <2>3, FS_CardinalityType
  <2> QED BY <1>1, <2>3, <2>4 DEF Rank, before
<1>8. S = {r[i] : i \in 1 .. n}
  <2>1. ASSUME NEW x \in S PROVE \E i \in 1 .. n : r[i] = x
    <3> DEFINE i == Rank(x, S, R) + 1
    <3>1. i \in 1 .. n /\ i - 1 = Rank(x, S, R)
      BY <1>1, <1>7
    <3> HIDE DEF i
    <3>2. r[i] \in S /\ Rank(r[i], S, R) = Rank(x, S, R)
      BY <1>4, <3>1
    <3> QED BY <1>2, <3>1, <3>2
  <2> QED BY <1>4, <2>1
<1>9. ASSUME NEW i \in 1 .. n, NEW j \in 1 .. n, i < j, <<r[i], r[j]>> \notin R
      PROVE  FALSE
  <2>1. r[i] \in S /\ r[j] \in S /\ Rank(r[i], S, R) = i - 1 /\ Rank(r[j], S, R) = j - 1
    BY <1>4
  <2>2. r[i] # r[j]
    BY <1>9, <2>1
  <2>3. <<r[j], r[i]>> \in R
    BY <1>9, <2>1, <2>2 DEF StrictOrder
  <2> DEFINE bi == {y \in S : <<y, r[i]>> \in R}
             bj == {y \in S : <<y, r[j]>> \in R}
  <2>4. bj \in SUBSET bi
    BY <2>1, <2>3 DEF StrictOrder
  <2>5. bi \in SUBSET S
    OBVIOUS
  <2> HIDE DEF bi, bj
  <2>6. IsFiniteSet(bi)
    BY <2>5, FS_Subset
  <2>7. Cardinality(bj) <= Cardinality(bi)
    BY <2>4, <2>6, FS_Subset
  <2>8. Cardinality(bi) = i - 1 /\ Cardinality(bj) = j - 1
    BY <2>1 DEF Rank, bi, bj
  <2> QED BY <1>9, <2>7, <2>8
<1> QED BY <1>1, <1>6, <1>8, <1>9 DEF n, Lists

-----------------------------------------------------------------------------
(* Candles in the order of time.                                           *)

TimeOrder == {p \in Candles \X Candles : Earlier(p[1], p[2])}
NumOrder == {p \in Int \X Int : p[1] < p[2]}

\* Candles of which no two have one timestamp.
OneEach(S) ==
    /\ IsFiniteSet(S)
    /\ S \subseteq Candles
    /\ \A c, d \in S : SameStamp(c, d) => c = d

\* Candles sorted by time are ranked by it.
LEMMA InTime ==
    ASSUME NEW S, OneEach(S)
    PROVE  StrictOrder(TimeOrder, S) /\ Sorted(S, Earlier) = Ranked(S, TimeOrder)
<1>1. \A x \in S : x \in Candles /\ x.day \in Int /\ x.label \in Int
  BY DEF OneEach, Candles
<1>2. \A x, y \in S : x # y => x.day # y.day \/ x.label # y.label
  BY DEF OneEach, SameStamp
<1>3. \A x, y \in S : <<x, y>> \in TimeOrder <=> Earlier(x, y)
  BY <1>1 DEF TimeOrder
<1>4. StrictOrder(TimeOrder, S)
  BY <1>1, <1>2, <1>3 DEF Earlier, StrictOrder
<1>5. \A x \in S : Rank(x, S, TimeOrder) = Cardinality({y \in S : Earlier(y, x)})
  <2> TAKE x \in S
  <2>1. {y \in S : <<y, x>> \in TimeOrder} = {y \in S : Earlier(y, x)}
    BY <1>3
  <2> QED BY <2>1 DEF Rank
<1>6. Sorted(S, Earlier) = [i \in 1 .. Cardinality(S) |->
                CHOOSE x \in S : Cardinality({y \in S : Earlier(y, x)}) = i - 1]
  BY DEF Sorted
<1>7. ASSUME NEW i \in 1 .. Cardinality(S)
      PROVE  (CHOOSE x \in S : Rank(x, S, TimeOrder) = i - 1)
                = CHOOSE x \in S : Cardinality({y \in S : Earlier(y, x)}) = i - 1
  <2>1. IsFiniteSet(S)
    BY DEF OneEach
  <2>2. /\ \A j \in 1 .. Cardinality(S) : \E x \in S : Rank(x, S, TimeOrder) = j - 1
        /\ \A x, z \in S : Rank(x, S, TimeOrder) = Rank(z, S, TimeOrder) => x = z
    BY <1>4, <2>1, RanksOf
  <2>3. PICK x \in S : Rank(x, S, TimeOrder) = i - 1
    BY <2>2
  <2>4. \A z \in S : Rank(z, S, TimeOrder) = i - 1 => z = x
    BY <2>3, <2>2
  <2>5. (CHOOSE z \in S : Rank(z, S, TimeOrder) = i - 1) = x
    BY <2>3, <2>4
  <2>6. (CHOOSE z \in S : Cardinality({y \in S : Earlier(y, z)}) = i - 1) = x
    BY <1>5, <2>3, <2>4
  <2> QED BY <2>5, <2>6
<1> QED BY <1>4, <1>6, <1>7 DEF Ranked

\* So are numbers.
LEMMA NumbersInOrder ==
    ASSUME NEW S, IsFiniteSet(S), S \subseteq Int
    PROVE  /\ StrictOrder(NumOrder, S)
           /\ Sorted(S, LAMBDA i, j : i < j) = Ranked(S, NumOrder)
<1>1. \A x, y \in S : <<x, y>> \in NumOrder <=> x < y
  BY DEF NumOrder
<1>2. StrictOrder(NumOrder, S)
  BY <1>1 DEF StrictOrder
<1>3. \A x \in S : Rank(x, S, NumOrder) = Cardinality({y \in S : y < x})
  <2> TAKE x \in S
  <2>1. {y \in S : <<y, x>> \in NumOrder} = {y \in S : y < x}
    BY <1>1
  <2> QED BY <2>1 DEF Rank
<1>4. Sorted(S, LAMBDA i, j : i < j) = [i \in 1 .. Cardinality(S) |->
                CHOOSE x \in S : Cardinality({y \in S : y < x}) = i - 1]
  BY DEF Sorted
<1>5. ASSUME NEW i \in 1 .. Cardinality(S)
      PROVE  (CHOOSE x \in S : Rank(x, S, NumOrder) = i - 1)
                = CHOOSE x \in S : Cardinality({y \in S : y < x}) = i - 1
  <2>1. IsFiniteSet(S)
    OBVIOUS
  <2>2. /\ \A j \in 1 .. Cardinality(S) : \E x \in S : Rank(x, S, NumOrder) = j - 1
        /\ \A x, z \in S : Rank(x, S, NumOrder) = Rank(z, S, NumOrder) => x = z
    BY <1>2, <2>1, RanksOf
  <2>3. PICK x \in S : Rank(x, S, NumOrder) = i - 1
    BY <2>2
  <2>4. \A z \in S : Rank(z, S, NumOrder) = i - 1 => z = x
    BY <2>3, <2>2
  <2>5. (CHOOSE z \in S : Rank(z, S, NumOrder) = i - 1) = x
    BY <2>3, <2>4
  <2>6. (CHOOSE z \in S : Cardinality({y \in S : y < z}) = i - 1) = x
    BY <1>3, <2>3, <2>4
  <2> QED BY <2>5, <2>6
<1> QED BY <1>2, <1>4, <1>5 DEF Ranked

\* The candles of one day are those of a sorted series, in its order.
LEMMA GroupedByDay ==
    ASSUME NEW S, OneEach(S)
    PROVE  GroupByDay(Ranked(S, TimeOrder)) =
              [d \in {c.day : c \in S} |-> Ranked({c \in S : c.day = d}, TimeOrder)]
<1> DEFINE cs == Ranked(S, TimeOrder)
           n == Len(cs)
           At(d) == {i \in DOMAIN cs : cs[i].day = d}
           Of(d) == {c \in S : c.day = d}
<1>1. StrictOrder(TimeOrder, S) /\ IsFiniteSet(S)
  BY InTime DEF OneEach
<1>2. /\ cs \in Seq(S) /\ DOMAIN cs = 1 .. n /\ n \in Nat
      /\ Lists(cs, n, S, TimeOrder)
  BY <1>1, RankedAscends
<1>3. GroupByDay(cs) =
         [d \in {cs[i].day : i \in DOMAIN cs} |->
            [j \in DOMAIN Sorted(At(d), LAMBDA i, l : i < l) |->
                cs[Sorted(At(d), LAMBDA i, l : i < l)[j]]]]
  BY DEF GroupByDay
<1> HIDE DEF cs, n
<1>4. {cs[i].day : i \in DOMAIN cs} = {c.day : c \in S}
  BY <1>2 DEF Lists
<1>5. ASSUME NEW d
      PROVE  [j \in DOMAIN Sorted(At(d), LAMBDA i, l : i < l) |->
                cs[Sorted(At(d), LAMBDA i, l : i < l)[j]]]
                = Ranked(Of(d), TimeOrder)
  <2> DEFINE A == At(d)
             at == Ranked(A, NumOrder)
             g == [j \in DOMAIN at |-> cs[at[j]]]
  <2>1. A \in SUBSET (1 .. n) /\ A \subseteq Int
    BY <1>2
  <2>2. IsFiniteSet(1 .. n)
    BY <1>2, FS_Interval
  <2>3. \A i : i \in A <=> i \in 1 .. n /\ cs[i].day = d
    BY <1>2
  <2>4. [j \in DOMAIN Sorted(At(d), LAMBDA i, l : i < l) |->
                cs[Sorted(At(d), LAMBDA i, l : i < l)[j]]]
         = [j \in DOMAIN Sorted(A, LAMBDA i, l : i < l) |->
                cs[Sorted(A, LAMBDA i, l : i < l)[j]]]
    OBVIOUS
  <2> HIDE DEF A
  <2>5. IsFiniteSet(A)
    BY <2>1, <2>2, FS_Subset
  <2>6. StrictOrder(NumOrder, A) /\ Sorted(A, LAMBDA i, l : i < l) = at
    BY <2>1, <2>5, NumbersInOrder
  <2> HIDE DEF at
  <2>7. /\ at \in Seq(A) /\ DOMAIN at = 1 .. Len(at) /\ Len(at) \in Nat
        /\ Lists(at, Len(at), A, NumOrder)
    BY <2>5, <2>6, RankedAscends DEF at
  <2>8. [j \in DOMAIN Sorted(A, LAMBDA i, l : i < l) |->
                cs[Sorted(A, LAMBDA i, l : i < l)[j]]] = g
    BY <2>6
  <2>9. \A j \in 1 .. Len(at) : at[j] \in A /\ at[j] \in 1 .. n /\ g[j] = cs[at[j]]
    BY <2>1, <2>7 DEF Lists
  <2>10. Of(d) = {g[j] : j \in 1 .. Len(at)}
    <3>1. ASSUME NEW c \in Of(d) PROVE \E j \in 1 .. Len(at) : g[j] = c
      <4>1. PICK i \in 1 .. n : cs[i] = c
        BY <1>2 DEF Lists
      <4>2. i \in A
        BY <2>3, <4>1
      <4>3. PICK j \in 1 .. Len(at) : at[j] = i
        BY <2>7, <4>2 DEF Lists
      <4> QED BY <2>9, <4>1, <4>3
    <3>2. ASSUME NEW j \in 1 .. Len(at) PROVE g[j] \in Of(d)
      <4>1. cs[at[j]] \in S
        BY <1>2, <2>9 DEF Lists
      <4> QED BY <2>3, <2>9, <4>1
    <3> HIDE DEF g
    <3> QED BY <3>1, <3>2
  <2>11. StrictOrder(TimeOrder, Of(d))
    BY <1>1 DEF StrictOrder
  <2>12. \A i, j \in 1 .. Len(at) : i < j => <<g[i], g[j]>> \in TimeOrder
    <3> SUFFICES ASSUME NEW i \in 1 .. Len(at), NEW j \in 1 .. Len(at), i < j
                 PROVE  <<g[i], g[j]>> \in TimeOrder
      OBVIOUS
    <3>1. at[i] < at[j]
      BY <2>7 DEF Lists, NumOrder
    <3>2. <<cs[at[i]], cs[at[j]]>> \in TimeOrder
      BY <1>2, <2>9, <3>1 DEF Lists
    <3> QED BY <2>9, <3>2
  <2>13. g = [j \in 1 .. Len(at) |-> g[j]]
    BY <2>7
  <2> HIDE DEF g, Of
  <2>14. Lists(g, Len(at), Of(d), TimeOrder)
    BY <2>10, <2>11, <2>12 DEF Lists
  <2>15. Ranked(Of(d), TimeOrder) = [j \in 1 .. Len(at) |-> g[j]]
    BY <2>7, <2>14, OnlyOneAscends
  <2> QED BY <2>4, <2>8, <2>13, <2>15
<1>6. [d \in {c.day : c \in S} |->
            [j \in DOMAIN Sorted(At(d), LAMBDA i, l : i < l) |->
                cs[Sorted(At(d), LAMBDA i, l : i < l)[j]]]]
       = [d \in {c.day : c \in S} |-> Ranked(Of(d), TimeOrder)]
  BY <1>5
<1> QED BY <1>3, <1>4, <1>6 DEF cs

-----------------------------------------------------------------------------
(* What the cache returns after some days of a market.                     *)

\* The rows that read_cached returns, before they are sorted.
Winners(files) ==
    LET Wins(c, f) == \A g \in files \ {f} :
                         SortsAfter(f, g) \/ \A d \in g.rows : ~SameStamp(c, d)
    IN  UNION {{c \in f.rows : Wins(c, f)} : f \in files}

\* A row wins over those with its timestamp in the files that sort before.
LEMMA WinnerIs ==
    ASSUME NEW files, NEW c
    PROVE  c \in Winners(files) <=>
              \E f \in files :
                 /\ c \in f.rows
                 /\ \A g \in files \ {f} :
                       SortsAfter(f, g) \/ \A d \in g.rows : ~SameStamp(c, d)
  BY DEF Winners

\* read_cached returns one row for each timestamp, in the order of time.
LEMMA ReadIsRanked ==
    ASSUME NEW files, CacheFiles(files)
    PROVE  /\ OneEach(Winners(files))
           /\ ReadCached(files) = Ranked(Winners(files), TimeOrder)
<1> DEFINE S == Winners(files)
           g == [f \in files |-> f.rows]
           all == {g[f] : f \in files}
<1>1. /\ IsFiniteSet(files)
      /\ \A f \in files : /\ IsFiniteSet(f.rows)
                          /\ f.rows \subseteq Candles
                          /\ f.from \in Int /\ f.to \in Int
                          /\ \A c, d \in f.rows : SameStamp(c, d) => c = d
  BY DEF CacheFiles
<1>2. \A c \in S : \E f \in files : c \in f.rows
  BY WinnerIs
<1>3. S \subseteq Candles
  BY <1>1, <1>2
<1>4. IsFiniteSet(S)
  <2>1. IsFiniteSet(all)
    <3> HIDE DEF g
    <3> QED BY <1>1, ImageIsFinite
  <2>2. \A s \in all : IsFiniteSet(s)
    BY <1>1
  <2>3. S \in SUBSET UNION all
    <3> HIDE DEF S
    <3> QED BY <1>2
  <2>4. IsFiniteSet(UNION all)
    <3> HIDE DEF all
    <3> QED BY <2>1, <2>2, FS_UNION
  <2> HIDE DEF all, S
  <2> QED BY <2>3, <2>4, FS_Subset
<1>5. ASSUME NEW c \in S, NEW d \in S, SameStamp(c, d) PROVE c = d
  <2>1. PICK f \in files :
           c \in f.rows /\ \A h \in files \ {f} :
              SortsAfter(f, h) \/ \A e \in h.rows : ~SameStamp(c, e)
    BY WinnerIs
  <2>2. PICK h \in files :
           d \in h.rows /\ \A e \in files \ {h} :
              SortsAfter(h, e) \/ \A r \in e.rows : ~SameStamp(d, r)
    BY WinnerIs
  <2>3. SameStamp(d, c)
    BY <1>5 DEF SameStamp
  <2>4. f # h => SortsAfter(f, h) /\ SortsAfter(h, f)
    BY <1>5, <2>1, <2>2, <2>3
  <2>5. f = h
    BY <1>1, <2>4 DEF SortsAfter
  <2> QED BY <1>1, <1>5, <2>1, <2>2, <2>5
<1>6. OneEach(S)
  BY <1>3, <1>4, <1>5 DEF OneEach
<1>7. ReadCached(files) = Sorted(S, Earlier)
  BY DEF ReadCached, Winners
<1> HIDE DEF S
<1>8. Sorted(S, Earlier) = Ranked(S, TimeOrder)
  BY <1>6, InTime
<1> QED BY <1>6, <1>7, <1>8 DEF S

\* Files to which a chunk was added for each of the days 1 to n.
Grown(files, rows, n) == files \cup {ChunkOf(e, rows[e]) : e \in 1 .. n}

\* A chunk for each later day adds its rows and takes none away.
LEMMA ChunksAdd ==
    ASSUME NEW files, NEW n \in Nat, NEW rows,
           \A f \in files : \A c \in f.rows : c.day <= 0,
           \A e \in 1 .. n : \A c \in rows[e] : c.day = e
    PROVE  Winners(Grown(files, rows, n))
              = Winners(files) \cup UNION {rows[e] : e \in 1 .. n}
<1> DEFINE new == {ChunkOf(e, rows[e]) : e \in 1 .. n}
           both == files \cup new
<1>1. \A e : ChunkOf(e, rows[e]).rows = rows[e]
  BY DEF ChunkOf
<1>2. \A f \in new : \E e \in 1 .. n : f = ChunkOf(e, rows[e]) /\ f.rows = rows[e]
  BY <1>1
<1>3. \A f \in files : \A g \in new : \A c \in f.rows : \A d \in g.rows :
         ~SameStamp(c, d) /\ ~SameStamp(d, c)
  BY <1>2 DEF SameStamp
<1>4. \A f, g \in new : f # g =>
         \A c \in f.rows : \A d \in g.rows : ~SameStamp(c, d)
  <2> SUFFICES ASSUME NEW f \in new, NEW g \in new, f # g,
                      NEW c \in f.rows, NEW d \in g.rows
               PROVE  ~SameStamp(c, d)
    OBVIOUS
  <2>1. PICK e \in 1 .. n : f = ChunkOf(e, rows[e]) /\ f.rows = rows[e]
    BY <1>2
  <2>2. PICK h \in 1 .. n : g = ChunkOf(h, rows[h]) /\ g.rows = rows[h]
    BY <1>2
  <2>3. e # h
    BY <2>1, <2>2
  <2> QED BY <2>1, <2>2, <2>3 DEF SameStamp
<1>5. \A e \in 1 .. n : ChunkOf(e, rows[e]) \in new
  OBVIOUS
<1> HIDE DEF new
<1>6. ASSUME NEW c \in Winners(both)
      PROVE  c \in Winners(files) \cup UNION {rows[e] : e \in 1 .. n}
  <2>1. PICK f \in both :
           c \in f.rows /\ \A g \in both \ {f} :
              SortsAfter(f, g) \/ \A d \in g.rows : ~SameStamp(c, d)
    BY WinnerIs
  <2>2. CASE f \in new
    BY <1>2, <2>1, <2>2
  <2>3. CASE f \in files
    <3>1. \A g \in files \ {f} :
              SortsAfter(f, g) \/ \A d \in g.rows : ~SameStamp(c, d)
      BY <2>1
    <3> QED BY <2>1, <2>3, <3>1, WinnerIs
  <2> QED BY <2>2, <2>3
<1>7. ASSUME NEW c \in Winners(files) PROVE c \in Winners(both)
  <2>1. PICK f \in files :
           c \in f.rows /\ \A g \in files \ {f} :
              SortsAfter(f, g) \/ \A d \in g.rows : ~SameStamp(c, d)
    BY WinnerIs
  <2>2. \A g \in both \ {f} : SortsAfter(f, g) \/ \A d \in g.rows : ~SameStamp(c, d)
    BY <1>3, <2>1
  <2> QED BY <2>1, <2>2, WinnerIs
<1>8. ASSUME NEW e \in 1 .. n, NEW c \in rows[e] PROVE c \in Winners(both)
  <2> DEFINE f == ChunkOf(e, rows[e])
  <2>1. f \in new /\ c \in f.rows
    BY <1>1, <1>5
  <2> HIDE DEF f
  <2>2. ASSUME NEW g \in both, g # f, NEW d \in g.rows PROVE ~SameStamp(c, d)
    BY <1>3, <1>4, <2>1, <2>2
  <2> QED BY <2>1, <2>2, WinnerIs
<1>9. Grown(files, rows, n) = both
  BY DEF Grown, new
<1> HIDE DEF both
<1> QED BY <1>6, <1>7, <1>8, <1>9

\* The rows of a day are in the order of time.
LEMMA MinuteRowsAre ==
    ASSUME NEW t \in DOMAIN Tapes, NEW k \in Fed \cup {VIX}, NEW d \in Days
    PROVE  LET rows == MinuteRows(Tapes[t], k, d)
               n == Len(Tapes[t][d][k])
           IN  /\ n \in Nat \ {0} /\ rows \in Seq(Candles) /\ Len(rows) = n
               /\ rows = [i \in 1 .. n |-> rows[i]]
               /\ \A i \in 1 .. n :
                     /\ rows[i] \in Candles /\ rows[i].day = d /\ rows[i].label = i
                     /\ rows[i].close = Tapes[t][d][k][i].close
                     /\ rows[i].volume = Tapes[t][d][k][i].volume
                     /\ rows[i] = Row(Tapes[t][d][k][i], d, i)
<1> DEFINE bars == Tapes[t][d][k]
           n == Len(bars)
           rows == MinuteRows(Tapes[t], k, d)
<1>1. /\ n \in Nat \ {0} /\ DOMAIN bars = 1 .. n
      /\ \A i \in 1 .. n : bars[i] \in BarRecords
  BY TapeType
<1>2. rows = [i \in 1 .. n |-> Row(bars[i], d, i)]
  BY <1>1 DEF MinuteRows
<1>3. d \in Int
  BY DEF Days
<1> HIDE DEF bars, n, rows
<1>4. \A i \in 1 .. n : Row(bars[i], d, i) \in Candles
  BY <1>1, <1>3, RowType
<1>5. \A i \in 1 .. n : rows[i] = Row(bars[i], d, i)
  BY <1>2
<1>6. rows \in Seq(Candles) /\ Len(rows) = n
  <2>1. rows \in [1 .. n -> Candles]
    BY <1>2, <1>4
  <2> QED BY <1>1, <1>2, <2>1, SeqDef
<1>7. \A i \in 1 .. n : rows[i].day = d /\ rows[i].label = i
            /\ rows[i].close = bars[i].close /\ rows[i].volume = bars[i].volume
  <2>1. \A bar, e, l : /\ Row(bar, e, l).day = e /\ Row(bar, e, l).label = l
                       /\ Row(bar, e, l).close = bar.close
                       /\ Row(bar, e, l).volume = bar.volume
    BY DEF Row
  <2> QED BY <1>5, <2>1
<1>8. rows = [i \in 1 .. n |-> rows[i]]
  BY <1>2, <1>5
<1> QED BY <1>1, <1>4, <1>5, <1>6, <1>7, <1>8 DEF n, rows, bars

\* The daily series read back is the past and a row of each day since.
LEMMA DailySeries ==
    ASSUME CacheHoldsPast, tape \in DOMAIN Tapes, NEW k \in Fed \cup {VIX},
           NEW n \in Nat, 1 .. n \subseteq Days
    PROVE  /\ ReadCached(CacheAfter(Tapes[tape], n)[k].daily) = DailyArchive(k, n)
           /\ DailyArchive(k, n) \in Seq(Candles)
           /\ \A i \in 1 .. Len(DailyArchive(k, n)) : DailyArchive(k, n)[i].day <= n
<1> DEFINE files == BaseChunks[k].daily
           W == Winners(files)
           past == Past[k].daily
           m == Len(past)
           row == [e \in 1 .. n |-> DailyRow(Tapes[tape], k, e)]
           rows == [e \in 1 .. n |-> {row[e]}]
           all == Grown(files, rows, n)
           r == past \o row
           S == Winners(all)
<1>1. CacheAfter(Tapes[tape], n)[k].daily = all
  <2>1. {ChunkOf(e, {DailyRow(Tapes[tape], k, e)}) : e \in 1 .. n}
           = {ChunkOf(e, rows[e]) : e \in 1 .. n}
    OBVIOUS
  <2> QED BY <2>1 DEF CacheAfter, Grown
<1>2. CacheFiles(all)
  BY <1>1, CacheType
<1>3. CacheFiles(files)
  BY EngineAssumption
<1>4. /\ \A e \in 1 .. n : row[e] \in Candles /\ row[e].day = e
      /\ row \in Seq(Candles) /\ Len(row) = n
  <2>1. \A e \in 1 .. n : row[e] = DailyRow(Tapes[tape], k, e)
    OBVIOUS
  <2>2. \A e \in 1 .. n : DailyRow(Tapes[tape], k, e) \in Candles
    BY DailyRowType
  <2>3. \A e : DailyRow(Tapes[tape], k, e).day = e
    BY DEF DailyRow
  <2>4. row \in [1 .. n -> Candles]
    BY <2>2
  <2> HIDE DEF row
  <2> QED BY <2>1, <2>2, <2>3, <2>4, SeqDef
<1>5. past = ReadCached(files) /\ \A f \in files : \A c \in f.rows : c.day <= 0
  BY DEF CacheHoldsPast
<1>6. DailyArchive(k, n) = r
  BY DEF DailyArchive
<1>7. \A e \in 1 .. n : rows[e] = {row[e]}
  OBVIOUS
<1>8. UNION {rows[e] : e \in 1 .. n} = {row[e] : e \in 1 .. n}
  OBVIOUS
<1> HIDE DEF files, past, row, rows
<1>9. OneEach(W) /\ past = Ranked(W, TimeOrder)
  BY <1>3, <1>5, ReadIsRanked
<1>10. StrictOrder(TimeOrder, W) /\ IsFiniteSet(W)
  BY <1>9, InTime DEF OneEach
<1> HIDE DEF W
<1>11. /\ past \in Seq(W) /\ DOMAIN past = 1 .. m /\ m \in Nat
       /\ Lists(past, m, W, TimeOrder)
  BY <1>9, <1>10, RankedAscends
<1>12. \A i \in 1 .. m : past[i] \in W /\ past[i] \in Candles /\ past[i].day <= 0
  <2>1. \A c \in W : \E f \in files : c \in f.rows
    BY WinnerIs DEF W
  <2>2. \A i \in 1 .. m : past[i] \in W
    BY <1>11 DEF Lists
  <2> QED BY <1>5, <1>9, <2>1, <2>2 DEF OneEach
<1>13. \A e \in 1 .. n : \A c \in rows[e] : c.day = e
  BY <1>4, <1>7
<1>14. S = W \cup {row[e] : e \in 1 .. n}
  <2>1. S = W \cup UNION {rows[e] : e \in 1 .. n}
    BY <1>5, <1>13, ChunksAdd DEF W
  <2> QED BY <1>8, <2>1
<1>15. OneEach(S) /\ ReadCached(all) = Ranked(S, TimeOrder)
  BY <1>2, ReadIsRanked
<1>16. StrictOrder(TimeOrder, S)
  BY <1>15, InTime
<1> HIDE DEF S, all
<1>17. past \in Seq(Candles)
  BY <1>9, <1>11, SeqMonotonic DEF OneEach
<1>18. /\ r \in Seq(Candles) /\ Len(r) = m + n
       /\ \A i \in 1 .. m + n : r[i] = IF i <= m THEN past[i] ELSE row[i - m]
  BY <1>4, <1>17, ConcatProperties
<1> HIDE DEF m
<1>19. m + n \in Nat /\ \A i \in 1 .. m + n : i <= m => i \in 1 .. m
       /\ (i > m => i - m \in 1 .. n)
  BY <1>11
<1> HIDE DEF r
<1>20. \A i \in 1 .. m : r[i] = past[i] /\ i \in 1 .. m + n
  BY <1>11, <1>18
<1>21. \A e \in 1 .. n : r[m + e] = row[e] /\ m + e \in 1 .. m + n
  BY <1>11, <1>18
<1>22. S = {r[i] : i \in 1 .. m + n}
  <2>1. \A c \in S : \E i \in 1 .. m + n : r[i] = c
    <3> TAKE c \in S
    <3>1. CASE c \in W
      <4>1. PICK i \in 1 .. m : past[i] = c
        BY <1>11, <3>1 DEF Lists
      <4> QED BY <1>20, <4>1
    <3>2. CASE c \in {row[e] : e \in 1 .. n}
      BY <1>21, <3>2
    <3> QED BY <1>14, <3>1, <3>2
  <2>2. \A i \in 1 .. m + n : r[i] \in S
    <3> TAKE i \in 1 .. m + n
    <3>1. CASE i <= m
      BY <1>12, <1>14, <1>19, <1>20, <3>1
    <3>2. CASE i > m
      <4>1. i - m \in 1 .. n /\ r[i] = row[i - m]
        BY <1>11, <1>18, <1>19, <3>2
      <4> QED BY <1>14, <4>1
    <3> QED BY <1>11, <3>1, <3>2
  <2> QED BY <2>1, <2>2
<1>23. ASSUME NEW i \in 1 .. m + n, NEW j \in 1 .. m + n, i < j
       PROVE  <<r[i], r[j]>> \in TimeOrder
  <2>1. r[i] \in Candles /\ r[j] \in Candles
    BY <1>15, <1>22 DEF OneEach
  <2>2. CASE j <= m
    <3>1. <<past[i], past[j]>> \in TimeOrder
      <4>1. i \in 1 .. m /\ j \in 1 .. m
        BY <1>11, <1>23, <2>2
      <4> QED BY <1>11, <1>23, <4>1 DEF Lists
    <3>2. i <= m /\ r[i] = past[i] /\ r[j] = past[j]
      BY <1>11, <1>18, <1>23, <2>2
    <3> QED BY <3>1, <3>2
  <2>3. CASE j > m
    <3>1. r[j] = row[j - m] /\ j - m \in 1 .. n /\ r[j].day = j - m
      BY <1>4, <1>11, <1>18, <1>19, <2>3
    <3>2. r[i].day < r[j].day
      <4>1. CASE i <= m
        <5>1. r[i] = past[i] /\ r[i].day <= 0
          BY <1>12, <1>19, <1>20, <4>1
        <5>2. r[i].day \in Int
          BY <2>1 DEF Candles
        <5> QED BY <1>11, <3>1, <5>1, <5>2
      <4>2. CASE i > m
        <5>1. r[i] = row[i - m] /\ i - m \in 1 .. n /\ r[i].day = i - m
          BY <1>4, <1>11, <1>18, <1>19, <4>2
        <5> QED BY <1>11, <1>23, <3>1, <5>1
      <4> QED BY <1>11, <4>1, <4>2
    <3> QED BY <2>1, <3>2 DEF TimeOrder, Earlier
  <2> QED BY <1>11, <2>2, <2>3
<1>24. Lists(r, m + n, S, TimeOrder)
  BY <1>16, <1>22, <1>23 DEF Lists
<1>25. Ranked(S, TimeOrder) = [i \in 1 .. m + n |-> r[i]]
  BY <1>19, <1>24, OnlyOneAscends
<1>26. r = [i \in 1 .. m + n |-> r[i]]
  BY <1>18, SeqDef
<1>27. \A i \in 1 .. m + n : r[i].day <= n
  <2> TAKE i \in 1 .. m + n
  <2>1. CASE i <= m
    <3>1. r[i] = past[i] /\ r[i].day <= 0 /\ past[i] \in Candles
      BY <1>12, <1>19, <1>20, <2>1
    <3>2. r[i].day \in Int
      BY <3>1 DEF Candles
    <3> QED BY <3>1, <3>2
  <2>2. CASE i > m
    BY <1>4, <1>11, <1>18, <1>19, <2>2
  <2> QED BY <1>11, <2>1, <2>2
<1>28. ReadCached(all) = r
  BY <1>15, <1>25, <1>26
<1>29. ReadCached(CacheAfter(Tapes[tape], n)[k].daily) = r
  BY <1>1, <1>28
<1> QED BY <1>6, <1>18, <1>27, <1>29

\* The minutes read back, day by day, are the past and the bars of each day
\* since.
LEMMA VolumeSeries ==
    ASSUME CacheHoldsPast, tape \in DOMAIN Tapes, NEW k \in Fed \cup {VIX},
           NEW n \in Nat, 1 .. n \subseteq Days
    PROVE  GroupByDay(ReadCached(CacheAfter(Tapes[tape], n)[k].minutes))
              = VolumeArchive(k, n)
<1> DEFINE files == BaseChunks[k].minutes
           W == Winners(files)
           past == GroupByDay(Past[k].minutes)
           bars == [e \in 1 .. n |-> MinuteRows(Tapes[tape], k, e)]
           rows == [e \in 1 .. n |-> ToSet(bars[e])]
           all == Grown(files, rows, n)
           S == Winners(all)
           Of(T, d) == {c \in T : c.day = d}
<1>1. CacheAfter(Tapes[tape], n)[k].minutes = all
  <2>1. {ChunkOf(e, ToSet(MinuteRows(Tapes[tape], k, e))) : e \in 1 .. n}
           = {ChunkOf(e, rows[e]) : e \in 1 .. n}
    OBVIOUS
  <2> QED BY <2>1 DEF CacheAfter, Grown
<1>2. CacheFiles(all)
  BY <1>1, CacheType
<1>3. CacheFiles(files)
  BY EngineAssumption
<1>4. ASSUME NEW e \in 1 .. n
      PROVE  \E l \in Nat \ {0} :
                /\ bars[e] = [i \in 1 .. l |-> bars[e][i]]
                /\ rows[e] = {bars[e][i] : i \in 1 .. l}
                /\ \A i \in 1 .. l : /\ bars[e][i] \in Candles /\ bars[e][i].day = e
                                     /\ bars[e][i].label = i
  <2> DEFINE b == MinuteRows(Tapes[tape], k, e)
             l == Len(Tapes[tape][e][k])
  <2>1. /\ l \in Nat \ {0} /\ b = [i \in 1 .. l |-> b[i]]
        /\ \A i \in 1 .. l : b[i] \in Candles /\ b[i].day = e /\ b[i].label = i
    BY MinuteRowsAre
  <2>2. bars[e] = b /\ rows[e] = ToSet(b)
    OBVIOUS
  <2> HIDE DEF b, l, bars, rows
  <2>3. DOMAIN b = 1 .. l
    BY <2>1
  <2>4. ToSet(b) = {b[i] : i \in 1 .. l}
    BY <2>3 DEF ToSet
  <2> QED BY <2>1, <2>2, <2>4
<1>5. Past[k].minutes = ReadCached(files)
      /\ \A f \in files : \A c \in f.rows : c.day <= 0
  BY DEF CacheHoldsPast
<1> HIDE DEF files, rows
<1>6. OneEach(W) /\ Past[k].minutes = Ranked(W, TimeOrder)
  BY <1>3, <1>5, ReadIsRanked
<1>7. OneEach(S) /\ ReadCached(all) = Ranked(S, TimeOrder)
  BY <1>2, ReadIsRanked
<1>8. \A e \in 1 .. n : \A c \in rows[e] : c.day = e
  BY <1>4
<1>9. S = W \cup UNION {rows[e] : e \in 1 .. n}
  BY <1>5, <1>8, ChunksAdd
<1>10. \A c \in W : c.day <= 0 /\ c.day \in Int
  <2>1. \A c \in W : \E f \in files : c \in f.rows
    BY WinnerIs
  <2> QED BY <1>5, <1>6, <2>1 DEF OneEach, Candles
<1> HIDE DEF W, S, all, bars
<1>11. past = [d \in {c.day : c \in W} |-> Ranked(Of(W, d), TimeOrder)]
  BY <1>6, GroupedByDay
<1>12. GroupByDay(ReadCached(all))
          = [d \in {c.day : c \in S} |-> Ranked(Of(S, d), TimeOrder)]
  BY <1>7, GroupedByDay
<1>13. {c.day : c \in S} = DOMAIN past \cup 1 .. n
  <2>1. \A c \in S : c.day \in DOMAIN past \cup 1 .. n
    <3> TAKE c \in S
    <3>1. CASE c \in W
      BY <1>11, <3>1
    <3>2. CASE \E e \in 1 .. n : c \in rows[e]
      BY <1>8, <3>2
    <3> QED BY <1>9, <3>1, <3>2
  <2>2. \A d \in DOMAIN past : \E c \in S : c.day = d
    BY <1>9, <1>11
  <2>3. \A e \in 1 .. n : \E c \in S : c.day = e
    <3> TAKE e \in 1 .. n
    <3>1. PICK l \in Nat \ {0} : rows[e] = {bars[e][i] : i \in 1 .. l}
      BY <1>4
    <3>2. bars[e][1] \in rows[e]
      BY <3>1
    <3> QED BY <1>8, <1>9, <3>2
  <2> HIDE DEF past
  <2> QED BY <2>1, <2>2, <2>3
<1>14. ASSUME NEW d \in DOMAIN past \cup 1 .. n
       PROVE  Ranked(Of(S, d), TimeOrder)
                 = IF d >= 1 THEN MinuteRows(Tapes[tape], k, d) ELSE past[d]
  <2>1. CASE d \in 1 .. n
    <3>1. Of(S, d) = rows[d]
      <4>1. \A c \in Of(S, d) : c \in rows[d]
        BY <1>8, <1>9, <1>10, <2>1
      <4>2. \A c \in rows[d] : c \in Of(S, d)
        BY <1>8, <1>9, <2>1
      <4> HIDE DEF Of
      <4> QED BY <4>1, <4>2
    <3> DEFINE b == bars[d]
    <3>2. PICK l \in Nat \ {0} :
             /\ b = [i \in 1 .. l |-> b[i]]
             /\ rows[d] = {b[i] : i \in 1 .. l}
             /\ \A i \in 1 .. l : /\ b[i] \in Candles /\ b[i].day = d
                                  /\ b[i].label = i
      BY <1>4, <2>1
    <3>3. b = MinuteRows(Tapes[tape], k, d)
      BY <2>1 DEF bars
    <3> HIDE DEF b, Of
    <3>4. StrictOrder(TimeOrder, rows[d])
      <4>1. OneEach(rows[d])
        <5>1. rows[d] \in SUBSET S
          BY <1>9, <2>1
        <5>2. IsFiniteSet(S)
          BY <1>7 DEF OneEach
        <5>3. IsFiniteSet(rows[d])
          BY <5>1, <5>2, FS_Subset
        <5> QED BY <1>7, <5>1, <5>3 DEF OneEach
      <4> QED BY <4>1, InTime
    <3>5. \A i, j \in 1 .. l : i < j => <<b[i], b[j]>> \in TimeOrder
      <4> TAKE i, j \in 1 .. l
      <4>1. i < j => Earlier(b[i], b[j])
        BY <3>2 DEF Earlier
      <4>2. b[i] \in Candles /\ b[j] \in Candles
        BY <3>2
      <4> QED BY <4>1, <4>2 DEF TimeOrder
    <3>6. Lists(b, l, rows[d], TimeOrder)
      BY <3>2, <3>4, <3>5 DEF Lists
    <3>7. Ranked(rows[d], TimeOrder) = [i \in 1 .. l |-> b[i]]
      BY <3>6, OnlyOneAscends
    <3>8. Ranked(Of(S, d), TimeOrder) = b
      BY <3>1, <3>2, <3>7
    <3> QED BY <2>1, <3>3, <3>8
  <2>2. CASE d \notin 1 .. n
    <3>1. d \in DOMAIN past /\ d \in Int /\ d <= 0
      BY <1>10, <1>11, <2>2
    <3>2. Of(S, d) = Of(W, d)
      BY <1>8, <1>9, <2>2
    <3>3. past[d] = Ranked(Of(W, d), TimeOrder)
      BY <1>11, <3>1
    <3>4. ~(d >= 1)
      BY <3>1
    <3> HIDE DEF Of, past
    <3>5. past[d] = Ranked(Of(S, d), TimeOrder)
      BY <3>2, <3>3
    <3> QED BY <3>4, <3>5
  <2> QED BY <2>1, <2>2
<1>15. VolumeArchive(k, n) =
          [d \in DOMAIN past \cup 1 .. n |->
              IF d >= 1 THEN MinuteRows(Tapes[tape], k, d) ELSE past[d]]
  BY DEF VolumeArchive
<1> HIDE DEF past, Of
<1>16. GroupByDay(ReadCached(all)) = VolumeArchive(k, n)
  BY <1>12, <1>13, <1>14, <1>15
<1> QED BY <1>1, <1>16

\* A day more adds the bars of that day to the profile.
LEMMA VolumeGrows ==
    ASSUME CacheHoldsPast, NEW k \in Fed \cup {VIX}, NEW d \in Nat \ {0}
    PROVE  LET earlier == VolumeArchive(k, d - 1)
               later == VolumeArchive(k, d)
           IN  /\ DOMAIN later = DOMAIN earlier \cup {d}
               /\ \A e \in DOMAIN earlier : e \in Int /\ e < d /\ later[e] = earlier[e]
               /\ later[d] = MinuteRows(Tapes[tape], k, d)
<1> DEFINE past == GroupByDay(Past[k].minutes)
           files == BaseChunks[k].minutes
           W == Winners(files)
<1>1. CacheFiles(files)
  BY EngineAssumption
<1>2. Past[k].minutes = ReadCached(files)
      /\ \A f \in files : \A c \in f.rows : c.day <= 0
  BY DEF CacheHoldsPast
<1>3. OneEach(W) /\ Past[k].minutes = Ranked(W, TimeOrder)
  BY <1>1, <1>2, ReadIsRanked
<1>4. \A c \in W : c.day <= 0 /\ c.day \in Int
  <2>1. \A c \in W : \E f \in files : c \in f.rows
    BY WinnerIs
  <2> QED BY <1>2, <1>3, <2>1 DEF OneEach, Candles
<1> HIDE DEF W
<1>5. DOMAIN past = {c.day : c \in W}
  BY <1>3, GroupedByDay
<1>6. \A e \in DOMAIN past : e \in Int /\ e <= 0
  BY <1>4, <1>5
<1> DEFINE earlier == VolumeArchive(k, d - 1)
           later == VolumeArchive(k, d)
           at(e) == IF e >= 1 THEN MinuteRows(Tapes[tape], k, e) ELSE past[e]
<1>7. /\ earlier = [e \in DOMAIN past \cup 1 .. (d - 1) |-> at(e)]
      /\ later = [e \in DOMAIN past \cup 1 .. d |-> at(e)]
  BY DEF VolumeArchive
<1>8. at(d) = MinuteRows(Tapes[tape], k, d)
  OBVIOUS
<1> HIDE DEF past, earlier, later, at
<1>9. 1 .. d = 1 .. (d - 1) \cup {d}
  OBVIOUS
<1>10. DOMAIN earlier = DOMAIN past \cup 1 .. (d - 1)
       /\ DOMAIN later = DOMAIN past \cup 1 .. d
  BY <1>7
<1>11. \A e \in DOMAIN earlier : e \in Int /\ e < d
  BY <1>6, <1>10
<1>12. \A e \in DOMAIN earlier : later[e] = earlier[e]
  BY <1>7, <1>9, <1>10
<1>13. later[d] = MinuteRows(Tapes[tape], k, d)
  BY <1>7, <1>8, <1>9
<1> QED BY <1>9, <1>10, <1>11, <1>12, <1>13 DEF earlier, later

-----------------------------------------------------------------------------
(* The lookups at the end of a series and those by the date of the next    *)
(* day.                                                                    *)

\* Windows of two sequences that agree there.
LEMMA SameWindow ==
    ASSUME NEW C, NEW a \in Seq(C), NEW b \in Seq(C), NEW m \in Nat \ {0}, NEW n \in Nat,
           n <= Len(a), n <= Len(b), \A i \in m .. n : a[i] = b[i]
    PROVE  SubSeq(a, m, n) = SubSeq(b, m, n)
<1>1. \A i \in m .. n : a[i] \in C /\ b[i] \in C
  <2> TAKE i \in m .. n
  <2>1. i \in 1 .. Len(a) /\ i \in 1 .. Len(b)
    BY LenProperties
  <2> QED BY <2>1, ElementOfSeq
<1>2. /\ SubSeq(a, m, n) \in Seq(C)
      /\ Len(SubSeq(a, m, n)) = IF m <= n THEN n - m + 1 ELSE 0
      /\ \A i \in 1 .. n - m + 1 : SubSeq(a, m, n)[i] = a[m + i - 1]
  BY <1>1, SubSeqProperties
<1>3. /\ SubSeq(b, m, n) \in Seq(C)
      /\ Len(SubSeq(b, m, n)) = IF m <= n THEN n - m + 1 ELSE 0
      /\ \A i \in 1 .. n - m + 1 : SubSeq(b, m, n)[i] = b[m + i - 1]
  BY <1>1, SubSeqProperties
<1>4. \A i \in 1 .. Len(SubSeq(a, m, n)) : SubSeq(a, m, n)[i] = SubSeq(b, m, n)[i]
  <2> TAKE i \in 1 .. Len(SubSeq(a, m, n))
  <2>1. m <= n /\ i \in 1 .. n - m + 1 /\ m + i - 1 \in m .. n
    BY <1>2
  <2> QED BY <1>2, <1>3, <2>1
<1> QED BY <1>2, <1>3, <1>4, SeqEqual

\* The extremes of one number.
LEMMA MinOfOne ==
    ASSUME NEW n \in Int
    PROVE  Min({n}) = n /\ Max({n}) = n
  BY MinOfSet, MaxOfSet, FS_Singleton

\* The last row is where its day is.
LEMMA PosOfLast ==
    ASSUME NEW daily \in Seq(Candles), NEW row \in Candles,
           \A i \in 1 .. Len(daily) : daily[i].day < row.day
    PROVE  LET later == Append(daily, row)
           IN  /\ later \in Seq(Candles) /\ Len(later) = Len(daily) + 1
               /\ \A i \in 1 .. Len(daily) : later[i] = daily[i]
               /\ Pos(later, row.day) = Len(daily)
<1> DEFINE later == Append(daily, row)
           n == Len(daily)
           at == {i \in DOMAIN later : later[i].day = row.day}
<1>1. /\ later \in Seq(Candles) /\ Len(later) = n + 1 /\ DOMAIN later = 1 .. n + 1
      /\ \A i \in 1 .. n : later[i] = daily[i]
      /\ later[n + 1] = row /\ n \in Nat
  BY AppendProperties, LenProperties
<1>2. \A i \in 1 .. n : daily[i].day # row.day
  <2> TAKE i \in 1 .. n
  <2>1. daily[i] \in Candles
    BY ElementOfSeq
  <2>2. daily[i].day \in Int /\ row.day \in Int
    BY <2>1 DEF Candles
  <2> QED BY <2>2
<1>3. at = {n + 1}
  <2> HIDE DEF later, n
  <2>1. \A i : i \in 1 .. n + 1 <=> (i \in 1 .. n \/ i = n + 1)
    BY <1>1
  <2>2. \A i \in at : i = n + 1
    BY <1>1, <1>2, <2>1
  <2>3. n + 1 \in at
    BY <1>1, <2>1
  <2> HIDE DEF at
  <2> QED BY <2>2, <2>3
<1>4. Pos(later, row.day) = IF at = {} THEN None ELSE Min(at) - 1
  BY DEF Pos
<1> HIDE DEF at, later, n
<1>5. Min({n + 1}) = n + 1
  BY <1>1, MinOfOne
<1>6. Pos(later, row.day) = n
  BY <1>1, <1>3, <1>4, <1>5
<1> QED BY <1>1, <1>6 DEF later, n

\* live_reference.py:12: over daily candles, what the live functions say at
\* the end of a series is what the batch functions say of the day after it.
THEOREM LiveLookupsMatchBatch ==
    ASSUME NEW daily \in Seq(Candles), NEW row \in Candles,
           \A i \in 1 .. Len(daily) : daily[i].day < row.day
    PROVE  LET later == Append(daily, row)
           IN  /\ PrevClose(later, row.day) = LatestClose(daily)
               /\ TrendPct(later, row.day) = LatestTrendPct(daily)
               /\ AtrPct(later, row.day) = LatestAtrPct(daily)
<1> DEFINE later == Append(daily, row)
           n == Len(daily)
           d == row.day
<1>1. /\ later \in Seq(Candles) /\ Len(later) = n + 1
      /\ \A i \in 1 .. n : later[i] = daily[i]
      /\ Pos(later, d) = n
  BY PosOfLast
<1>2. n \in Nat /\ (daily = <<>> <=> n = 0)
  BY LenProperties, EmptySeq
<1>3. n # None /\ TrendWindow \in Nat \ {0} /\ AtrWindow \in Nat \ {0}
  BY <1>2, ReferenceAssumption
<1> HIDE DEF later, n, d
<1>4. \A m \in Nat \ {0} : SubSeq(later, m, n) = SubSeq(daily, m, n)
  <2> TAKE m \in Nat \ {0}
  <2>1. n <= Len(later) /\ n <= Len(daily) /\ \A i \in m .. n : later[i] = daily[i]
    BY <1>1, <1>2 DEF n
  <2> QED BY <1>1, <1>2, <2>1, SameWindow
<1>5. PrevClose(later, d) = LatestClose(daily)
  <2>1. PrevClose(later, d) = IF n = 0 THEN None ELSE later[n].close
    BY <1>1, <1>3 DEF PrevClose
  <2>2. LatestClose(daily) = IF n = 0 THEN None ELSE daily[n].close
    BY <1>2 DEF LatestClose, n
  <2> QED BY <1>1, <1>2, <2>1, <2>2
<1>6. TrendPct(later, d) = LatestTrendPct(daily)
  <2>1. TrendPct(later, d) = IF n < TrendWindow THEN None
                             ELSE Trend(SubSeq(later, n - TrendWindow + 1, n))
    BY <1>1, <1>2, <1>3 DEF TrendPct
  <2>2. LatestTrendPct(daily) = IF n < TrendWindow THEN None
                                ELSE Trend(SubSeq(daily, n - TrendWindow + 1, n))
    BY DEF LatestTrendPct, LastRows, n
  <2>3. CASE n < TrendWindow
    BY <2>1, <2>2, <2>3
  <2>4. CASE ~(n < TrendWindow)
    <3>1. n - TrendWindow + 1 \in Nat \ {0}
      BY <1>2, <1>3, <2>4
    <3>2. SubSeq(later, n - TrendWindow + 1, n) = SubSeq(daily, n - TrendWindow + 1, n)
      BY <1>4, <3>1
    <3> QED BY <2>1, <2>2, <3>2
  <2> QED BY <2>3, <2>4
<1>7. AtrPct(later, d) = LatestAtrPct(daily)
  <2>1. AtrPct(later, d) = IF n < AtrWindow + 1 THEN None
                           ELSE Atr(SubSeq(later, n - AtrWindow, n))
    BY <1>1, <1>2, <1>3 DEF AtrPct
  <2>2. LatestAtrPct(daily) = IF n < AtrWindow + 1 THEN None
                              ELSE Atr(SubSeq(daily, n - (AtrWindow + 1) + 1, n))
    BY DEF LatestAtrPct, LastRows, n
  <2>3. CASE n < AtrWindow + 1
    BY <2>1, <2>2, <2>3
  <2>4. CASE ~(n < AtrWindow + 1)
    <3>1. n - AtrWindow \in Nat \ {0} /\ n - (AtrWindow + 1) + 1 = n - AtrWindow
      BY <1>2, <1>3, <2>4
    <3>2. SubSeq(later, n - AtrWindow, n) = SubSeq(daily, n - AtrWindow, n)
      BY <1>4, <3>1
    <3> QED BY <2>1, <2>2, <3>1, <3>2
  <2> QED BY <2>3, <2>4
<1> QED BY <1>5, <1>6, <1>7 DEF later, d

\* q is p with the candles of a later day.
ADayMore(p, q, d) ==
    /\ DOMAIN q = DOMAIN p \cup {d}
    /\ d \in Int
    /\ \A e \in DOMAIN p : e \in Int /\ e < d /\ q[e] = p[e]

\* The sessions before a day are the last ones of a profile without it.
LEMMA PriorDaysAre ==
    ASSUME NEW p, NEW q, NEW d, ADayMore(p, q, d)
    PROVE  PriorDays(q, d) = LastDays(DOMAIN p)
<1>1. {e \in DOMAIN q : e < d} = DOMAIN p
  <2>1. \A e \in DOMAIN q : e < d <=> e \in DOMAIN p
    BY DEF ADayMore
  <2> QED BY <2>1 DEF ADayMore
<1> QED BY <1>1 DEF PriorDays

\* And of volume profiles: the ratios of a day's opening and of its slots.
THEOREM LiveRatiosMatchBatch ==
    ASSUME NEW p, NEW q, NEW d, ADayMore(p, q, d),
           DOMAIN q[d] = 1 .. Len(q[d]), Len(q[d]) \in Nat,
           \A i \in 1 .. Len(q[d]) : q[d][i].label = i
    PROVE  /\ OpeningRatio(q, d) =
                 IF Len(q[d]) < SnapshotCandles THEN None
                 ELSE LiveOpeningVolumeRatio(p, OpeningVolume(q[d]))
           /\ \A l \in 1 .. Len(q[d]) :
                 SlotRatio(q, d, l) = LiveSlotVolumeRatio(p, l, q[d][l].volume)
<1> DEFINE L == LastDays(DOMAIN p)
           n == Len(q[d])
<1>1. PriorDays(q, d) = L
  BY PriorDaysAre
<1>2. L \subseteq DOMAIN p
  BY DEF LastDays
<1>3. /\ DOMAIN q = DOMAIN p \cup {d} /\ d \notin DOMAIN p
      /\ \A e \in DOMAIN p : q[e] = p[e]
  BY DEF ADayMore
<1>4. SnapshotCandles \in Nat \ {0}
  BY ReferenceAssumption
<1> HIDE DEF L
<1>5. OpeningRatio(q, d) = IF n < SnapshotCandles THEN None
                           ELSE LiveOpeningVolumeRatio(p, OpeningVolume(q[d]))
  <2> DEFINE sum(r, e) == SumFunction([i \in 1 .. SnapshotCandles |-> r[e][i].volume])
             days(r) == {e \in DOMAIN r : Len(r[e]) >= SnapshotCandles}
  <2>1. /\ Opening(q) = [e \in days(q) |-> sum(q, e)]
        /\ Opening(p) = [e \in days(p) |-> sum(p, e)]
    BY DEF Opening
  <2>2. \A e \in DOMAIN p : sum(q, e) = sum(p, e)
    BY <1>3
  <2>3. sum(q, d) = OpeningVolume(q[d])
    BY DEF OpeningVolume
  <2> HIDE DEF sum
  <2>4. L \cap days(q) = L \cap days(p)
    BY <1>2, <1>3
  <2>5. d \in days(q) <=> ~(n < SnapshotCandles)
    BY <1>3, <1>4
  <2>6. L \cap days(p) \subseteq days(q) /\ L \cap days(p) \subseteq DOMAIN p
    BY <1>2, <2>4
  <2> HIDE DEF days
  <2>7. Over(Opening(q), L) = Over(Opening(p), L)
    <3>1. Over(Opening(q), L) = [e \in L \cap days(q) |-> Opening(q)[e]]
      BY <2>1 DEF Over, Restrict
    <3>2. Over(Opening(p), L) = [e \in L \cap days(p) |-> Opening(p)[e]]
      BY <2>1 DEF Over, Restrict
    <3>3. \A e \in L \cap days(p) : Opening(q)[e] = Opening(p)[e]
      BY <2>1, <2>2, <2>6
    <3> QED BY <2>4, <3>1, <3>2, <3>3
  <2>8. OpeningRatio(q, d) =
           IF d \notin DOMAIN Opening(q) THEN None
           ELSE RatioToMean(Opening(q)[d], Over(Opening(q), L))
    BY <1>1 DEF OpeningRatio
  <2>9. LiveOpeningVolumeRatio(p, OpeningVolume(q[d]))
           = RatioToMean(OpeningVolume(q[d]), Over(Opening(p), L))
    BY DEF LiveOpeningVolumeRatio, L
  <2>10. DOMAIN Opening(q) = days(q)
    BY <2>1
  <2>11. d \in days(q) => Opening(q)[d] = OpeningVolume(q[d])
    BY <2>1, <2>3
  <2> HIDE DEF n
  <2> QED BY <2>5, <2>7, <2>8, <2>9, <2>10, <2>11
<1>6. ASSUME NEW l \in 1 .. n
      PROVE  SlotRatio(q, d, l) = LiveSlotVolumeRatio(p, l, q[d][l].volume)
  <2> DEFINE at(r, e) == {i \in DOMAIN r[e] : r[e][i].label = l}
             volume(r, e) == r[e][Max(at(r, e))].volume
             days(r) == {e \in DOMAIN r : at(r, e) # {}}
  <2>1. /\ SlotVolumes(q, l) = [e \in days(q) |-> volume(q, e)]
        /\ SlotVolumes(p, l) = [e \in days(p) |-> volume(p, e)]
    BY DEF SlotVolumes
  <2>2. \A e \in DOMAIN p : at(q, e) = at(p, e)
    BY <1>3
  <2>3. at(q, d) = {l}
    BY <1>6
  <2>4. Max({l}) = l
    <3>1. l \in Int
      BY <1>6
    <3> QED BY <3>1, MinOfOne
  <2>5. volume(q, d) = q[d][l].volume
    BY <2>3, <2>4
  <2> HIDE DEF at
  <2>6. \A e \in DOMAIN p : volume(q, e) = volume(p, e)
    BY <1>3, <2>2
  <2> HIDE DEF volume
  <2>7. L \cap days(q) = L \cap days(p)
    BY <1>2, <1>3, <2>2
  <2>8. d \in days(q)
    BY <1>3, <2>3
  <2>9. L \cap days(p) \subseteq days(q) /\ L \cap days(p) \subseteq DOMAIN p
    BY <1>2, <2>7
  <2> HIDE DEF days
  <2>10. Over(SlotVolumes(q, l), L) = Over(SlotVolumes(p, l), L)
    <3>1. Over(SlotVolumes(q, l), L) = [e \in L \cap days(q) |-> SlotVolumes(q, l)[e]]
      BY <2>1 DEF Over, Restrict
    <3>2. Over(SlotVolumes(p, l), L) = [e \in L \cap days(p) |-> SlotVolumes(p, l)[e]]
      BY <2>1 DEF Over, Restrict
    <3>3. \A e \in L \cap days(p) : SlotVolumes(q, l)[e] = SlotVolumes(p, l)[e]
      BY <2>1, <2>6, <2>9
    <3> QED BY <2>7, <3>1, <3>2, <3>3
  <2>11. SlotRatio(q, d, l) =
            IF d \notin DOMAIN SlotVolumes(q, l) THEN None
            ELSE RatioToMean(SlotVolumes(q, l)[d], Over(SlotVolumes(q, l), L))
    BY <1>1 DEF SlotRatio
  <2>12. LiveSlotVolumeRatio(p, l, q[d][l].volume)
            = RatioToMean(q[d][l].volume, Over(SlotVolumes(p, l), L))
    BY DEF LiveSlotVolumeRatio, L
  <2>13. d \in DOMAIN SlotVolumes(q, l) /\ SlotVolumes(q, l)[d] = q[d][l].volume
    BY <2>1, <2>5, <2>8
  <2> QED BY <2>10, <2>11, <2>12, <2>13
<1> QED BY <1>5, <1>6 DEF n

-----------------------------------------------------------------------------
(* The history loaded in the morning and the series of the backtest.       *)

\* One day more of the daily series.
LEMMA DailyGrows ==
    ASSUME CacheHoldsPast, tape \in DOMAIN Tapes, NEW k \in Fed \cup {VIX}, NEW d \in Days
    PROVE  LET earlier == DailyArchive(k, d - 1)
               row == DailyRow(Tapes[tape], k, d)
           IN  /\ earlier \in Seq(Candles) /\ row \in Candles /\ row.day = d
               /\ \A i \in 1 .. Len(earlier) : earlier[i].day < row.day
               /\ DailyArchive(k, d) = Append(earlier, row)
<1> DEFINE earlier == DailyArchive(k, d - 1)
           later == DailyArchive(k, d)
           row == DailyRow(Tapes[tape], k, d)
           past == Past[k].daily
           one == [e \in 1 .. d - 1 |-> DailyRow(Tapes[tape], k, e)]
           two == [e \in 1 .. d |-> DailyRow(Tapes[tape], k, e)]
           m == Len(past)
<1>1. d \in Nat \ {0} /\ 1 .. d \subseteq Days /\ 1 .. d - 1 \subseteq Days /\ d - 1 \in Nat
  BY EngineAssumption DEF Days
<1>2. /\ earlier \in Seq(Candles) /\ later \in Seq(Candles)
      /\ \A i \in 1 .. Len(earlier) : earlier[i].day <= d - 1
  BY <1>1, DailySeries
<1>3. row \in Candles /\ row.day = d
  <2>1. row \in Candles
    BY DailyRowType
  <2> QED BY <2>1 DEF DailyRow
<1>4. \A e \in 1 .. d : DailyRow(Tapes[tape], k, e) \in Candles
  BY <1>1, DailyRowType
<1>5. past \in Seq(Candles)
  BY EngineAssumption, ReadCachedType DEF CacheHoldsPast
<1>6. earlier = past \o one /\ later = past \o two
  BY DEF DailyArchive
<1>7. one \in Seq(Candles) /\ Len(one) = d - 1 /\ two \in Seq(Candles) /\ Len(two) = d
      /\ (\A e \in 1 .. d - 1 : one[e] = two[e]) /\ two[d] = row
  <2>1. one \in [1 .. d - 1 -> Candles] /\ two \in [1 .. d -> Candles]
    BY <1>1, <1>4
  <2>2. one \in Seq(Candles) /\ two \in Seq(Candles)
    <3> HIDE DEF one, two
    <3> QED BY <1>1, <2>1, SeqDef
  <2> QED BY <1>1, <2>2
<1>8. \A i \in 1 .. Len(earlier) : earlier[i].day < row.day
  <2> TAKE i \in 1 .. Len(earlier)
  <2>1. earlier[i].day <= d - 1 /\ earlier[i] \in Candles
    BY <1>2, ElementOfSeq
  <2>2. earlier[i].day \in Int
    BY <2>1 DEF Candles
  <2> QED BY <1>1, <1>3, <2>1, <2>2
<1> HIDE DEF earlier, later, row, past, one, two
<1>9. /\ Len(earlier) = m + (d - 1)
      /\ \A i \in 1 .. m + (d - 1) : earlier[i] = IF i <= m THEN past[i] ELSE one[i - m]
  <2>1. /\ Len(past \o one) = Len(past) + Len(one)
        /\ \A i \in 1 .. Len(past) + Len(one) : (past \o one)[i] =
              IF i <= Len(past) THEN past[i] ELSE one[i - Len(past)]
    BY <1>5, <1>7, ConcatProperties
  <2>2. Len(past) + Len(one) = m + (d - 1)
    BY <1>7
  <2> QED BY <1>6, <2>1, <2>2
<1>10. /\ Len(later) = m + d
       /\ \A i \in 1 .. m + d : later[i] = IF i <= m THEN past[i] ELSE two[i - m]
  BY <1>5, <1>6, <1>7, ConcatProperties
<1>11. m \in Nat
  BY <1>5, LenProperties
<1> HIDE DEF m
<1>12. /\ Append(earlier, row) \in Seq(Candles) /\ Len(Append(earlier, row)) = m + d
       /\ \A i \in 1 .. m + (d - 1) : Append(earlier, row)[i] = earlier[i]
       /\ Append(earlier, row)[m + d] = row
  <2>1. /\ Append(earlier, row) \in Seq(Candles)
        /\ Len(Append(earlier, row)) = Len(earlier) + 1
        /\ \A i \in 1 .. Len(earlier) : Append(earlier, row)[i] = earlier[i]
        /\ Append(earlier, row)[Len(earlier) + 1] = row
    BY <1>2, <1>3, AppendProperties
  <2> QED BY <1>1, <1>9, <1>11, <2>1
<1>13. \A i \in 1 .. m + d : later[i] = Append(earlier, row)[i]
  <2> TAKE i \in 1 .. m + d
  <2>1. CASE i <= m
    BY <1>1, <1>9, <1>10, <1>11, <1>12, <2>1
  <2>2. CASE i > m /\ i # m + d
    <3>1. i - m \in 1 .. d - 1 /\ i \in 1 .. m + (d - 1)
      BY <1>1, <1>11, <2>2
    <3>2. later[i] = two[i - m] /\ earlier[i] = one[i - m]
      BY <1>9, <1>10, <1>11, <2>2, <3>1
    <3> QED BY <1>7, <1>12, <3>1, <3>2
  <2>3. CASE i = m + d
    <3>1. i - m = d /\ ~(i <= m)
      BY <1>1, <1>11, <2>3
    <3>2. later[i] = two[d]
      BY <1>10, <3>1
    <3> QED BY <1>7, <1>12, <2>3, <3>2
  <2>4. i <= m \/ (i > m /\ i # m + d) \/ i = m + d
    BY <1>1, <1>11
  <2> QED BY <2>1, <2>2, <2>3, <2>4
<1>14. later = Append(earlier, row)
  BY <1>2, <1>10, <1>12, <1>13, SeqEqual
<1> QED BY <1>2, <1>3, <1>8, <1>14 DEF earlier, later, row

\* The lookups of the backtest are those at the end of the day before.
LEMMA DayLookups ==
    ASSUME CacheHoldsPast, tape \in DOMAIN Tapes, NEW k \in Fed \cup {VIX}, NEW d \in Days
    PROVE  /\ PrevClose(DailyArchive(k, d), d) = LatestClose(DailyArchive(k, d - 1))
           /\ TrendPct(DailyArchive(k, d), d) = LatestTrendPct(DailyArchive(k, d - 1))
           /\ AtrPct(DailyArchive(k, d), d) = LatestAtrPct(DailyArchive(k, d - 1))
           /\ ChangeKnown(d, k) <=> DailyArchive(k, d - 1) # <<>>
           /\ DailyArchive(k, d - 1) \in Seq(Candles)
<1> DEFINE earlier == DailyArchive(k, d - 1)
           later == DailyArchive(k, d)
           row == DailyRow(Tapes[tape], k, d)
<1>1. /\ earlier \in Seq(Candles) /\ row \in Candles /\ row.day = d
      /\ \A i \in 1 .. Len(earlier) : earlier[i].day < row.day
      /\ later = Append(earlier, row)
  BY DailyGrows
<1> HIDE DEF earlier, later, row
<1>2. /\ PrevClose(Append(earlier, row), row.day) = LatestClose(earlier)
      /\ TrendPct(Append(earlier, row), row.day) = LatestTrendPct(earlier)
      /\ AtrPct(Append(earlier, row), row.day) = LatestAtrPct(earlier)
  BY <1>1, LiveLookupsMatchBatch
<1>3. /\ PrevClose(later, d) = LatestClose(earlier)
      /\ TrendPct(later, d) = LatestTrendPct(earlier)
      /\ AtrPct(later, d) = LatestAtrPct(earlier)
  BY <1>1, <1>2
<1>4. ChangeKnown(d, k) <=> LatestClose(earlier) # None
  BY <1>3 DEF ChangeKnown, later
<1>5. LatestClose(earlier) # None <=> earlier # <<>>
  <2>1. ASSUME earlier # <<>> PROVE LatestClose(earlier) # None
    <3>1. Len(earlier) \in 1 .. Len(earlier)
      BY <1>1, <2>1, LenProperties, EmptySeq
    <3>2. earlier[Len(earlier)] \in Candles
      BY <1>1, <3>1, ElementOfSeq
    <3>3. earlier[Len(earlier)].close \in Int
      BY <3>2 DEF Candles
    <3> QED BY <2>1, <3>3, ReferenceAssumption DEF LatestClose
  <2>2. earlier = <<>> => LatestClose(earlier) = None
    BY DEF LatestClose
  <2> QED BY <2>1, <2>2
<1> QED BY <1>1, <1>3, <1>4, <1>5 DEF earlier, later

\* The volume ratios of the backtest are those the service computes from the
\* profile of the days before.
LEMMA DayRatios ==
    ASSUME CacheHoldsPast, tape \in DOMAIN Tapes, NEW k \in Fed \cup {VIX}, NEW d \in Days
    PROVE  LET p == VolumeArchive(k, d - 1)
               rows == MinuteRows(Tapes[tape], k, d)
           IN  /\ OpeningRatio(VolumeArchive(k, d), d) =
                     IF Len(rows) < SnapshotCandles THEN None
                     ELSE LiveOpeningVolumeRatio(p, OpeningVolume(rows))
               /\ \A l \in 1 .. Len(rows) :
                     SlotRatio(VolumeArchive(k, d), d, l)
                        = LiveSlotVolumeRatio(p, l, rows[l].volume)
<1> DEFINE p == VolumeArchive(k, d - 1)
           q == VolumeArchive(k, d)
           rows == MinuteRows(Tapes[tape], k, d)
<1>1. d \in Nat \ {0} /\ d \in Int
  BY EngineAssumption DEF Days
<1>2. /\ DOMAIN q = DOMAIN p \cup {d}
      /\ \A e \in DOMAIN p : e \in Int /\ e < d /\ q[e] = p[e]
      /\ q[d] = rows
  BY <1>1, VolumeGrows
<1>3. /\ Len(rows) \in Nat /\ DOMAIN rows = 1 .. Len(rows)
      /\ \A i \in 1 .. Len(rows) : rows[i].label = i
  <2> DEFINE n == Len(Tapes[tape][d][k])
  <2>1. /\ n \in Nat \ {0} /\ Len(rows) = n /\ rows \in Seq(Candles)
        /\ \A i \in 1 .. n : rows[i].label = i
    BY MinuteRowsAre
  <2> HIDE DEF n, rows
  <2> QED BY <2>1, LenProperties
<1> HIDE DEF p, q, rows
<1>4. ADayMore(p, q, d)
  BY <1>1, <1>2 DEF ADayMore
<1>5. /\ DOMAIN q[d] = 1 .. Len(q[d]) /\ Len(q[d]) \in Nat
      /\ \A i \in 1 .. Len(q[d]) : q[d][i].label = i
  BY <1>2, <1>3
<1>6. /\ OpeningRatio(q, d) =
            IF Len(q[d]) < SnapshotCandles THEN None
            ELSE LiveOpeningVolumeRatio(p, OpeningVolume(q[d]))
      /\ \A l \in 1 .. Len(q[d]) :
            SlotRatio(q, d, l) = LiveSlotVolumeRatio(p, l, q[d][l].volume)
  BY <1>4, <1>5, LiveRatiosMatchBatch
<1> QED BY <1>2, <1>6 DEF p, q, rows

\* A history is the archive of the days before.
IsArchive(h, d) ==
    /\ h.nifty_daily = DailyArchive(NIFTY, d - 1)
    /\ h.vix_daily = DailyArchive(VIX, d - 1)
    /\ \A n \in Sectors : h.sector_daily[n] = DailyArchive(n, d - 1)
    /\ DOMAIN h.stock_volume = DOMAIN h.stock_daily
    /\ DOMAIN h.stock_daily \subseteq LIQUID_UNIVERSE \cap Fed
    /\ \A s \in DOMAIN h.stock_daily :
          /\ h.stock_daily[s] = DailyArchive(s, d - 1)
          /\ h.stock_volume[s] = VolumeArchive(s, d - 1)
    /\ \A s \in (LIQUID_UNIVERSE \cap Fed) \ DOMAIN h.stock_daily :
          DOMAIN VolumeArchive(s, d - 1) = {}

\* load_history, in the morning, returns the series up to the day before.
LEMMA HistoryIsArchive ==
    ASSUME CacheHoldsPast, VIX \notin LIQUID_UNIVERSE,
           tape \in DOMAIN Tapes, NEW d \in Days
    PROVE  IsArchive(Histories[tape][d], d)
<1> DEFINE cache == CacheAfter(Tapes[tape], d - 1)
           found == {s \in LIQUID_UNIVERSE \cap DOMAIN cache :
                        ReadCached(cache[s].minutes) # <<>>}
           h == Histories[tape][d]
<1>1. d - 1 \in Nat /\ 1 .. d - 1 \subseteq Days
  BY EngineAssumption DEF Days
<1>2. DOMAIN cache = Fed \cup {VIX}
  BY DEF CacheAfter
<1>3. h = LoadHistory(cache)
  BY DEF Histories
<1>4. \A k \in Fed \cup {VIX} :
         /\ ReadCached(cache[k].daily) = DailyArchive(k, d - 1)
         /\ GroupByDay(ReadCached(cache[k].minutes)) = VolumeArchive(k, d - 1)
  BY <1>1, DailySeries, VolumeSeries
<1> HIDE DEF cache, h
<1>5. found \subseteq LIQUID_UNIVERSE \cap Fed
  BY <1>2
<1>6. /\ h.nifty_daily = ReadCached(cache[NIFTY].daily)
      /\ h.vix_daily = ReadCached(cache[VIX].daily)
      /\ h.sector_daily = [n \in Sectors |-> ReadCached(cache[n].daily)]
      /\ h.stock_daily = [s \in found |-> ReadCached(cache[s].daily)]
      /\ h.stock_volume = [s \in found |-> GroupByDay(ReadCached(cache[s].minutes))]
  BY <1>3 DEF LoadHistory
<1>7. ASSUME NEW s \in (LIQUID_UNIVERSE \cap Fed) \ found
      PROVE  DOMAIN VolumeArchive(s, d - 1) = {}
  <2>1. ReadCached(cache[s].minutes) = <<>> /\ s \in Fed \cup {VIX}
    BY <1>2
  <2>2. DOMAIN GroupByDay(<<>>) = {}
    BY DEF GroupByDay
  <2>3. GroupByDay(<<>>) = VolumeArchive(s, d - 1)
    BY <1>4, <2>1
  <2> QED BY <2>2, <2>3
<1>8. {NIFTY, VIX} \cup Sectors \subseteq Fed \cup {VIX}
  BY EngineAssumption
<1> HIDE DEF found
<1>9. /\ h.nifty_daily = DailyArchive(NIFTY, d - 1)
      /\ h.vix_daily = DailyArchive(VIX, d - 1)
  BY <1>4, <1>6, <1>8
<1>10. \A n \in Sectors : h.sector_daily[n] = DailyArchive(n, d - 1)
  BY <1>4, <1>6, <1>8
<1>11. DOMAIN h.stock_daily = found /\ DOMAIN h.stock_volume = found
  BY <1>6
<1>12. \A s \in found : /\ h.stock_daily[s] = DailyArchive(s, d - 1)
                        /\ h.stock_volume[s] = VolumeArchive(s, d - 1)
  BY <1>4, <1>5, <1>6
<1> QED BY <1>5, <1>7, <1>9, <1>10, <1>11, <1>12 DEF IsArchive, h

-----------------------------------------------------------------------------
(* A tracker against the bars of its day.                                  *)

OutOf(range, direction, c) ==
    IF direction = "LONG" THEN c.close > range.high ELSE c.close < range.low

OpeningRange(cs) == RangeOf(SubSeq(cs, 1, OpeningRangeCandles))

\* The candle, if there is one, is the first beyond the range.
FirstOut(direction, cs, n, i) ==
    /\ i \in OpeningRangeCandles + 1 .. n
    /\ OutOf(OpeningRange(cs), direction, cs[i])
    /\ \A j \in OpeningRangeCandles + 1 .. n :
          OutOf(OpeningRange(cs), direction, cs[j]) => i <= j

NoneOut(direction, cs, n) ==
    \A j \in OpeningRangeCandles + 1 .. n :
        ~OutOf(OpeningRange(cs), direction, cs[j])

\* The tracker t after the first n candles of cs.
Watched(t, direction, cs, n) ==
    /\ t \in Trackers /\ t.direction = direction
    /\ n < OpeningRangeCandles =>
          t.opening = SubSeq(cs, 1, n) /\ t.range = None /\ t.breakout = None
    /\ n >= OpeningRangeCandles => t.range = OpeningRange(cs)
    /\ NoneOut(direction, cs, n) => t.breakout = None
    /\ \A i : FirstOut(direction, cs, n, i) =>
          t.breakout = BreakoutAt(NewTracker(direction), cs[i])
    /\ NoneOut(direction, cs, n) \/ \E i : FirstOut(direction, cs, n, i)

\* A breakout's entry and stop depend on its candle and the direction alone.
LEMMA BreakoutIgnoresRange ==
    ASSUME NEW t, NEW direction, t.direction = direction, NEW c
    PROVE  BreakoutAt(t, c) = BreakoutAt(NewTracker(direction), c)
<1>1. NewTracker(direction).direction = direction
  BY DEF NewTracker
<1> QED BY <1>1 DEF BreakoutAt

\* One candle more of a sequence.
LEMMA PrefixGrows ==
    ASSUME NEW C, NEW cs \in Seq(C), NEW n \in Nat, n + 1 <= Len(cs)
    PROVE  /\ SubSeq(cs, 1, n) \in Seq(C) /\ Len(SubSeq(cs, 1, n)) = n
           /\ cs[n + 1] \in C
           /\ SubSeq(cs, 1, n + 1) = Append(SubSeq(cs, 1, n), cs[n + 1])
<1>1. \A i \in 1 .. n + 1 : cs[i] \in C
  <2> TAKE i \in 1 .. n + 1
  <2>1. i \in 1 .. Len(cs)
    BY LenProperties
  <2> QED BY <2>1, ElementOfSeq
<1>2. /\ SubSeq(cs, 1, n) \in Seq(C)
      /\ Len(SubSeq(cs, 1, n)) = IF 1 <= n THEN n - 1 + 1 ELSE 0
      /\ \A i \in 1 .. n - 1 + 1 : SubSeq(cs, 1, n)[i] = cs[1 + i - 1]
  <2>1. \A i \in 1 .. n : cs[i] \in C
    BY <1>1
  <2> QED BY <2>1, SubSeqProperties
<1>3. /\ SubSeq(cs, 1, n + 1) \in Seq(C)
      /\ Len(SubSeq(cs, 1, n + 1)) = IF 1 <= n + 1 THEN n + 1 - 1 + 1 ELSE 0
      /\ \A i \in 1 .. n + 1 - 1 + 1 : SubSeq(cs, 1, n + 1)[i] = cs[1 + i - 1]
  BY <1>1, SubSeqProperties
<1> DEFINE a == SubSeq(cs, 1, n)
           b == SubSeq(cs, 1, n + 1)
<1>4. Len(a) = n /\ Len(b) = n + 1 /\ \A i \in 1 .. n : b[i] = a[i]
  BY <1>2, <1>3
<1>5. b[n + 1] = cs[n + 1] /\ cs[n + 1] \in C
  BY <1>1, <1>3
<1>6. a \in Seq(C) /\ b \in Seq(C)
  BY <1>2, <1>3
<1> HIDE DEF a, b
<1>7. /\ Append(a, cs[n + 1]) \in Seq(C) /\ Len(Append(a, cs[n + 1])) = n + 1
      /\ \A i \in 1 .. n : Append(a, cs[n + 1])[i] = a[i]
      /\ Append(a, cs[n + 1])[n + 1] = cs[n + 1]
  BY <1>4, <1>5, <1>6, AppendProperties
<1>8. \A i \in 1 .. Len(b) : b[i] = Append(a, cs[n + 1])[i]
  <2> TAKE i \in 1 .. Len(b)
  <2>1. i \in 1 .. n \/ i = n + 1
    BY <1>4
  <2> QED BY <1>4, <1>5, <1>7, <2>1
<1>9. b = Append(a, cs[n + 1])
  BY <1>4, <1>6, <1>7, <1>8, SeqEqual
<1> QED BY <1>4, <1>5, <1>6, <1>9 DEF a, b

\* The opening range of candles enough is a range.
LEMMA OpeningRangeType ==
    ASSUME NEW cs \in Seq(Candles), Len(cs) >= OpeningRangeCandles
    PROVE  OpeningRange(cs) \in Ranges /\ OpeningRange(cs) # None
<1> DEFINE o == SubSeq(cs, 1, OpeningRangeCandles)
<1>1. OpeningRangeCandles \in Nat \ {0} /\ Len(cs) \in Nat
  BY TrackerAssumption, LenProperties
<1>2. \A i \in 1 .. OpeningRangeCandles : cs[i] \in Candles
  <2> TAKE i \in 1 .. OpeningRangeCandles
  <2>1. i \in 1 .. Len(cs)
    BY <1>1
  <2> QED BY <2>1, ElementOfSeq
<1>3. o \in Seq(Candles) /\ Len(o) = OpeningRangeCandles
  BY <1>1, <1>2, SubSeqProperties
<1> HIDE DEF o
<1>4. DOMAIN o = 1 .. OpeningRangeCandles /\ \A i \in DOMAIN o : o[i] \in Candles
  BY <1>3, LenProperties, ElementOfSeq
<1>5. IsFiniteSet(DOMAIN o) /\ DOMAIN o # {}
  <2>1. 1 \in 1 .. OpeningRangeCandles
    BY <1>1
  <2>2. IsFiniteSet(1 .. OpeningRangeCandles)
    BY <1>1, FS_Interval
  <2> QED BY <1>4, <2>1, <2>2
<1>6. \A i \in DOMAIN o : o[i].high \in Nat /\ o[i].low \in Nat
  BY <1>4 DEF Candles
<1>7. RangeOf(o) \in [high : Nat, low : Nat]
  BY <1>5, <1>6, RangeType
<1>8. RangeOf(o) \in Ranges
  BY <1>7 DEF Ranges
<1> QED BY <1>8, TrackerAssumption DEF OpeningRange, o

\* on_candle takes a tracker that has seen n candles to one that has seen
\* n + 1.
LEMMA WatchesOneMore ==
    ASSUME NEW direction \in Sides, NEW cs \in Seq(Candles),
           NEW n \in Nat, n + 1 <= Len(cs),
           NEW t, Watched(t, direction, cs, n)
    PROVE  Watched(OnCandle(t, cs[n + 1]), direction, cs, n + 1)
<1> DEFINE N == OpeningRangeCandles
           c == cs[n + 1]
           u == OnCandle(t, c)
           range == OpeningRange(cs)
           opening == Append(t.opening, c)
<1>1. N \in Nat \ {0} /\ Len(cs) \in Nat
  BY TrackerAssumption, LenProperties
<1>2. /\ SubSeq(cs, 1, n) \in Seq(Candles) /\ Len(SubSeq(cs, 1, n)) = n
      /\ c \in Candles
      /\ SubSeq(cs, 1, n + 1) = Append(SubSeq(cs, 1, n), c)
  BY PrefixGrows
<1>3. t \in Trackers /\ t.direction = direction
  BY DEF Watched
<1>4. u \in Trackers /\ u.direction = direction
  BY <1>2, <1>3, OnCandleType
<1>5. t = [direction |-> t.direction, opening |-> t.opening,
           range |-> t.range, breakout |-> t.breakout]
  BY <1>3 DEF Trackers
<1>6. CASE n + 1 < N
  <2>1. t.opening = SubSeq(cs, 1, n) /\ t.range = None /\ t.breakout = None
    BY <1>1, <1>6 DEF Watched
  <2>2. Len(opening) = n + 1 /\ opening = SubSeq(cs, 1, n + 1)
    BY <1>2, <2>1, AppendProperties
  <2>3. u = [t EXCEPT !.opening = opening,
                      !.range = IF Len(opening) < N THEN None ELSE RangeOf(opening)]
    BY <2>1 DEF OnCandle
  <2> HIDE DEF opening, u, c, N
  <2>4. u.opening = opening /\ u.range = None /\ u.breakout = None
    BY <1>5, <1>6, <2>1, <2>2, <2>3
  <2>5. N + 1 .. n + 1 = {}
    BY <1>1, <1>6
  <2> QED BY <1>1, <1>4, <1>6, <2>2, <2>4, <2>5 DEF Watched, NoneOut, FirstOut, N, u, c
<1>7. CASE n + 1 = N
  <2>1. t.opening = SubSeq(cs, 1, n) /\ t.range = None /\ t.breakout = None
    BY <1>1, <1>7 DEF Watched
  <2>2. Len(opening) = n + 1 /\ opening = SubSeq(cs, 1, n + 1)
    BY <1>2, <2>1, AppendProperties
  <2>3. u = [t EXCEPT !.opening = opening,
                      !.range = IF Len(opening) < N THEN None ELSE RangeOf(opening)]
    BY <2>1 DEF OnCandle
  <2>4. RangeOf(opening) = range
    BY <1>7, <2>2 DEF OpeningRange
  <2> HIDE DEF opening, u, c, N, range
  <2>5. u.range = range /\ u.breakout = None
    BY <1>1, <1>5, <1>7, <2>1, <2>2, <2>3, <2>4
  <2>6. N + 1 .. n + 1 = {}
    BY <1>1, <1>7
  <2> QED BY <1>1, <1>4, <1>7, <2>5, <2>6 DEF Watched, NoneOut, FirstOut, N, u, c, range
<1>8. CASE n + 1 > N
  <2>1. n >= N /\ t.range = range /\ range # None
    <3>1. Len(cs) >= N /\ n >= N
      BY <1>1, <1>8
    <3> QED BY <3>1, OpeningRangeType DEF Watched
  <2>2. u.range = range
    <3>1. CASE t.breakout # None
      BY <2>1, <3>1 DEF OnCandle
    <3>2. CASE t.breakout = None
      <4>1. u = [t EXCEPT !.breakout = IF BreaksOut(t, c) THEN BreakoutAt(t, c) ELSE None]
        BY <2>1, <3>2 DEF OnCandle
      <4> HIDE DEF u, range
      <4> QED BY <1>5, <2>1, <4>1
    <3> QED BY <3>1, <3>2
  <2>3. BreaksOut(t, c) <=> OutOf(range, direction, c)
    BY <1>3, <2>1 DEF BreaksOut, OutOf
  <2>4. BreakoutAt(t, c) = BreakoutAt(NewTracker(direction), c)
    BY <1>3, BreakoutIgnoresRange
  <2>5. \A j : j \in N + 1 .. n + 1 <=> (j \in N + 1 .. n \/ j = n + 1)
    BY <1>1, <1>8
  <2>6. n + 1 >= N /\ ~(n + 1 < N)
    BY <1>1, <1>8
  <2>7. CASE NoneOut(direction, cs, n)
    <3>1. t.breakout = None
      BY <2>7 DEF Watched
    <3>2. u = [t EXCEPT !.breakout = IF BreaksOut(t, c) THEN BreakoutAt(t, c) ELSE None]
      BY <2>1, <3>1 DEF OnCandle
    <3>3. CASE OutOf(range, direction, c)
      <4>1. u.breakout = BreakoutAt(NewTracker(direction), c)
        <5> HIDE DEF u
        <5> QED BY <1>5, <2>3, <2>4, <3>2, <3>3
      <4>2. FirstOut(direction, cs, n + 1, n + 1)
        <5>1. \A j \in N + 1 .. n + 1 : OutOf(range, direction, cs[j]) => j = n + 1
          BY <2>5, <2>7 DEF NoneOut
        <5>2. n + 1 <= n + 1 /\ n + 1 \in N + 1 .. n + 1
          BY <1>1, <1>8
        <5> QED BY <3>3, <5>1, <5>2 DEF FirstOut
      <4>3. \A i : FirstOut(direction, cs, n + 1, i) => i = n + 1
        BY <2>5, <2>7 DEF FirstOut, NoneOut
      <4>4. ~NoneOut(direction, cs, n + 1)
        BY <4>2 DEF FirstOut, NoneOut
      <4> HIDE DEF u, c, range
      <4>5. \A i : FirstOut(direction, cs, n + 1, i) =>
               u.breakout = BreakoutAt(NewTracker(direction), cs[i])
        BY <4>1, <4>3 DEF c
      <4> QED BY <1>4, <2>2, <2>6, <4>2, <4>4, <4>5 DEF Watched, u, c, range
    <3>4. CASE ~OutOf(range, direction, c)
      <4>1. u.breakout = None
        <5> HIDE DEF u
        <5> QED BY <1>5, <2>3, <3>2, <3>4
      <4>2. NoneOut(direction, cs, n + 1)
        BY <2>5, <2>7, <3>4 DEF NoneOut
      <4>3. \A i : ~FirstOut(direction, cs, n + 1, i)
        BY <4>2 DEF FirstOut, NoneOut
      <4> HIDE DEF u, c, range
      <4> QED BY <1>4, <2>2, <2>6, <4>1, <4>2, <4>3 DEF Watched, u, c, range
    <3> QED BY <3>3, <3>4
  <2>8. CASE ~NoneOut(direction, cs, n)
    <3>1. PICK i : FirstOut(direction, cs, n, i)
      BY <2>8 DEF Watched
    <3>2. t.breakout = BreakoutAt(NewTracker(direction), cs[i])
      BY <3>1 DEF Watched
    <3>3. t.breakout # None
      <4>1. i \in 1 .. Len(cs)
        BY <1>1, <3>1 DEF FirstOut
      <4>2. cs[i] \in Candles
        BY <4>1, ElementOfSeq
      <4>3. BreakoutAt(NewTracker(direction), cs[i]) \in Breakouts
        BY <4>2, BreakoutType
      <4> QED BY <3>2, <4>3, TrackerAssumption
    <3>4. u = t
      BY <3>3 DEF OnCandle
    <3>5. FirstOut(direction, cs, n + 1, i)
      <4>1. i <= n + 1 /\ i \in N + 1 .. n + 1
        BY <1>1, <3>1 DEF FirstOut
      <4> QED BY <2>5, <3>1, <4>1 DEF FirstOut
    <3>6. \A j : FirstOut(direction, cs, n + 1, j) => j = i
      <4> SUFFICES ASSUME NEW j, FirstOut(direction, cs, n + 1, j) PROVE j = i
        OBVIOUS
      <4>1. i \in N + 1 .. n + 1 /\ j \in N + 1 .. n + 1 /\ i <= j /\ j <= i
        BY <3>5 DEF FirstOut
      <4> QED BY <1>1, <4>1
    <3>7. ~NoneOut(direction, cs, n + 1)
      BY <3>5 DEF FirstOut, NoneOut
    <3> HIDE DEF u, c, range
    <3>8. \A j : FirstOut(direction, cs, n + 1, j) =>
             u.breakout = BreakoutAt(NewTracker(direction), cs[j])
      BY <3>2, <3>4, <3>6
    <3> QED BY <1>4, <2>2, <2>6, <3>5, <3>7, <3>8 DEF Watched, u, c, range
  <2> QED BY <2>7, <2>8
<1>9. n + 1 < N \/ n + 1 = N \/ n + 1 > N
  BY <1>1
<1> QED BY <1>6, <1>7, <1>8, <1>9

\* A tracker breaks out on the first close beyond the range of the first
\* candles, and on no other.
LEMMA TrackerBreaksOutOnce ==
    ASSUME NEW direction \in Sides, NEW cs \in Seq(Candles)
    PROVE  Watched(Tracked(direction, cs), direction, cs, Len(cs))
<1> DEFINE Holds(n) == Watched(Tracked(direction, SubSeq(cs, 1, n)), direction, cs, n)
           Bad == {n \in 0 .. Len(cs) : ~Holds(n)}
<1>1. Len(cs) \in Nat /\ OpeningRangeCandles \in Nat \ {0}
  BY LenProperties, TrackerAssumption
<1>2. Holds(0)
  <2>1. SubSeq(cs, 1, 0) = <<>>
    BY SubSeqEmpty
  <2>2. Tracked(direction, <<>>) = NewTracker(direction)
    <3>1. \E c : c \in Candles
      <4>1. [day |-> 0, label |-> 0, high |-> 0, low |-> 0, close |-> 1, volume |-> 0]
               \in Candles
        BY DEF Candles
      <4> QED BY <4>1
    <3>2. <<>> \in Seq(Candles)
      BY EmptySeq
    <3> QED BY <3>1, <3>2, TrackedUnrolled
  <2>3. NewTracker(direction) \in Trackers
    <3>1. <<>> \in Seq(Candles)
      BY EmptySeq
    <3> QED BY <3>1 DEF NewTracker, Trackers
  <2>4. OpeningRangeCandles + 1 .. 0 = {} /\ 0 < OpeningRangeCandles
    BY <1>1
  <2>5. /\ NewTracker(direction).direction = direction
        /\ NewTracker(direction).opening = <<>>
        /\ NewTracker(direction).range = None
        /\ NewTracker(direction).breakout = None
    BY DEF NewTracker
  <2>6. Watched(NewTracker(direction), direction, cs, 0)
    BY <1>1, <2>1, <2>3, <2>4, <2>5 DEF Watched, NoneOut, FirstOut
  <2> QED BY <2>1, <2>2, <2>6
<1>3. ASSUME NEW n \in Nat, n + 1 <= Len(cs), Holds(n) PROVE Holds(n + 1)
  <2>1. /\ SubSeq(cs, 1, n) \in Seq(Candles) /\ cs[n + 1] \in Candles
        /\ SubSeq(cs, 1, n + 1) = Append(SubSeq(cs, 1, n), cs[n + 1])
    BY <1>3, PrefixGrows
  <2>2. Tracked(direction, SubSeq(cs, 1, n + 1))
           = OnCandle(Tracked(direction, SubSeq(cs, 1, n)), cs[n + 1])
    <3> DEFINE a == SubSeq(cs, 1, n)
               c == cs[n + 1]
    <3>1. a \in Seq(Candles) /\ c \in Candles /\ SubSeq(cs, 1, n + 1) = Append(a, c)
      BY <2>1
    <3> HIDE DEF a, c
    <3>2. Tracked(direction, Append(a, c)) = OnCandle(Tracked(direction, a), c)
      BY <3>1, TrackedUnrolled
    <3>3. Tracked(direction, SubSeq(cs, 1, n + 1)) = OnCandle(Tracked(direction, a), c)
      BY <3>1, <3>2
    <3> QED BY <3>3 DEF a, c
  <2>3. Watched(OnCandle(Tracked(direction, SubSeq(cs, 1, n)), cs[n + 1]), direction,
                cs, n + 1)
    BY <1>3, WatchesOneMore
  <2> QED BY <2>2, <2>3
<1> HIDE DEF Holds
<1>4. Bad = {}
  <2> SUFFICES ASSUME Bad # {} PROVE FALSE
    OBVIOUS
  <2>1. Bad \subseteq Nat
    BY <1>1
  <2>2. PICK n \in Bad : \A m \in Bad : n <= m
    <3> HIDE DEF Bad
    <3> QED BY <2>1, MinNat
  <2>3. n # 0
    BY <1>2, <2>2
  <2>4. n - 1 \in Nat /\ n - 1 \in 0 .. Len(cs) /\ (n - 1) + 1 = n /\ ~(n <= n - 1)
    BY <1>1, <2>2, <2>3
  <2>5. Holds(n - 1)
    BY <2>2, <2>4
  <2>6. n <= Len(cs)
    BY <1>1, <2>2
  <2>7. Holds((n - 1) + 1)
    BY <1>3, <2>4, <2>5, <2>6
  <2> QED BY <2>2, <2>4, <2>7
<1>5. Holds(Len(cs))
  <2>1. Len(cs) \in 0 .. Len(cs)
    BY <1>1
  <2> QED BY <1>4, <2>1
<1>6. SubSeq(cs, 1, Len(cs)) = cs
  <2> DEFINE a == SubSeq(cs, 1, Len(cs))
  <2>1. \A i \in 1 .. Len(cs) : cs[i] \in Candles
    BY ElementOfSeq
  <2>2. a \in Seq(Candles) /\ Len(a) = Len(cs) /\ \A i \in 1 .. Len(cs) : a[i] = cs[i]
    BY <1>1, <2>1, SubSeqProperties
  <2> HIDE DEF a
  <2>3. a = cs
    BY <2>2, SeqEqual
  <2> QED BY <2>3 DEF a
<1> QED BY <1>5, <1>6 DEF Holds

\* The range of the first bars is that of the first candles.
LEMMA SameOpeningRange ==
    ASSUME tape \in DOMAIN Tapes, NEW s \in Fed, NEW d \in Days,
           OpeningRangeCandles <= Len(Tapes[tape][d][s])
    PROVE  RangeOf(SubSeq(Tapes[tape][d][s], 1, OpeningRangeCandles))
              = OpeningRange(MinuteRows(Tapes[tape], s, d))
<1> DEFINE bars == Tapes[tape][d][s]
           rows == MinuteRows(Tapes[tape], s, d)
           N == OpeningRangeCandles
           a == SubSeq(bars, 1, N)
           b == SubSeq(rows, 1, N)
<1>1. N \in Nat \ {0} /\ N <= Len(bars)
  BY TrackerAssumption
<1>2. /\ Len(bars) \in Nat \ {0} /\ rows \in Seq(Candles) /\ Len(rows) = Len(bars)
      /\ \A i \in 1 .. Len(bars) : rows[i] \in Candles /\ rows[i] = Row(bars[i], d, i)
  BY MinuteRowsAre
<1>3. \A i \in 1 .. Len(bars) : bars[i] \in BarRecords
  BY TapeType
<1> HIDE DEF bars, rows, N
<1>4. \A i \in 1 .. N : bars[i] \in BarRecords /\ rows[i] \in Candles
  BY <1>1, <1>2, <1>3
<1>5. /\ a \in Seq(BarRecords) /\ Len(a) = N
      /\ \A i \in 1 .. N : a[i] = bars[i]
  BY <1>1, <1>4, SubSeqProperties
<1>6. /\ b \in Seq(Candles) /\ Len(b) = N
      /\ \A i \in 1 .. N : b[i] = rows[i]
  BY <1>1, <1>4, SubSeqProperties
<1>7. DOMAIN a = 1 .. N /\ DOMAIN b = 1 .. N
  BY <1>5, <1>6, LenProperties
<1> HIDE DEF a, b
<1>8. \A i \in 1 .. N : a[i].high = b[i].high /\ a[i].low = b[i].low
  <2> TAKE i \in 1 .. N
  <2>1. i \in 1 .. Len(bars)
    BY <1>1, <1>2
  <2>2. b[i] = Row(bars[i], d, i) /\ a[i] = bars[i]
    BY <1>2, <1>5, <1>6, <2>1
  <2>3. /\ Row(bars[i], d, i).high = bars[i].high
        /\ Row(bars[i], d, i).low = bars[i].low
    BY DEF Row
  <2> QED BY <2>2, <2>3
<1>9. RangeOf(a) = RangeOf(b)
  <2>1. {a[i].high : i \in DOMAIN a} = {b[i].high : i \in DOMAIN b}
    BY <1>7, <1>8
  <2>2. {a[i].low : i \in DOMAIN a} = {b[i].low : i \in DOMAIN b}
    BY <1>7, <1>8
  <2> QED BY <2>1, <2>2 DEF RangeOf
<1> QED BY <1>9 DEF OpeningRange, a, b, bars, rows, N

\* What a tracker that was given every candle of the day has found.
FindsBreakout(t, s, d) ==
    /\ t.breakout # None <=> BeyondRange(d, s) # {}
    /\ BeyondRange(d, s) # {} =>
          LET first == Min(BeyondRange(d, s))
          IN  /\ first \in 1 .. Len(Tapes[tape][d][s])
              /\ t.breakout = BreakoutAt(NewTracker(DirectionOn(d)),
                                         LiveCandle(s, d, first))
              /\ t.breakout.label = first
              /\ t.breakout.volume = MinuteRows(Tapes[tape], s, d)[first].volume

\* Fed the bars of a day, a tracker breaks out at the first beyond the range.
LEMMA TrackerFindsBreakout ==
    ASSUME UtcShift = 0, tape \in DOMAIN Tapes, NEW s \in Fed, NEW d \in Days,
           DirectionOn(d) \in Sides
    PROVE  FindsBreakout(Tracked(DirectionOn(d), MinuteRows(Tapes[tape], s, d)), s, d)
<1> DEFINE bars == Tapes[tape][d][s]
           rows == MinuteRows(Tapes[tape], s, d)
           direction == DirectionOn(d)
           t == Tracked(direction, rows)
           N == OpeningRangeCandles
           beyond == BeyondRange(d, s)
           first == Min(beyond)
<1>1. N \in Nat \ {0}
  BY TrackerAssumption
<1>2. /\ Len(bars) \in Nat \ {0} /\ rows \in Seq(Candles) /\ Len(rows) = Len(bars)
      /\ \A i \in 1 .. Len(bars) :
            /\ rows[i] \in Candles /\ rows[i] = Row(bars[i], d, i)
            /\ rows[i].close = bars[i].close
  BY MinuteRowsAre
<1>3. Watched(t, direction, rows, Len(bars))
  <2>1. Watched(Tracked(direction, rows), direction, rows, Len(rows))
    BY <1>2, TrackerBreaksOutOnce
  <2> HIDE DEF rows, direction, bars
  <2> QED BY <1>2, <2>1
<1>4. \A i \in N + 1 .. Len(bars) : i \in beyond <=> OutOf(OpeningRange(rows), direction, rows[i])
  <2> TAKE i \in N + 1 .. Len(bars)
  <2>1. N <= Len(bars) /\ i \in 1 .. Len(bars)
    BY <1>1, <1>2
  <2>2. RangeOf(SubSeq(bars, 1, N)) = OpeningRange(rows)
    BY <2>1, SameOpeningRange
  <2>3. i \in beyond <=> IF direction = "LONG"
                         THEN bars[i].close > RangeOf(SubSeq(bars, 1, N)).high
                         ELSE bars[i].close < RangeOf(SubSeq(bars, 1, N)).low
    BY DEF BeyondRange
  <2>4. rows[i].close = bars[i].close
    BY <1>2, <2>1
  <2> HIDE DEF bars, rows, direction, beyond
  <2> QED BY <2>2, <2>3, <2>4 DEF OutOf
<1>5. beyond \subseteq N + 1 .. Len(bars)
  BY DEF BeyondRange
<1> HIDE DEF rows, t, beyond
<1>6. CASE beyond = {}
  <2>1. NoneOut(direction, rows, Len(bars))
    BY <1>4, <1>6 DEF NoneOut
  <2>2. t.breakout = None
    BY <1>3, <2>1 DEF Watched
  <2> QED BY <1>6, <2>2 DEF FindsBreakout, beyond, t, rows
<1>7. CASE beyond # {}
  <2>1. IsFiniteSet(beyond) /\ beyond \subseteq Int
    <3>1. IsFiniteSet(N + 1 .. Len(bars)) /\ N + 1 .. Len(bars) \subseteq Int
      <4>1. N + 1 \in Int /\ Len(bars) \in Int
        BY <1>1, <1>2
      <4> QED BY <4>1, FS_Interval
    <3> QED BY <1>5, <3>1, FS_Subset
  <2>2. first \in beyond /\ \A x \in beyond : first <= x
    BY <1>7, <2>1, MinOfSet
  <2> HIDE DEF first, bars, direction
  <2>3. FirstOut(direction, rows, Len(bars), first)
    <3>1. first \in N + 1 .. Len(bars)
      BY <1>5, <2>2
    <3> QED BY <1>4, <2>2, <3>1 DEF FirstOut
  <2>4. first \in 1 .. Len(bars)
    BY <1>1, <1>2, <1>5, <2>2
  <2>5. t.breakout = BreakoutAt(NewTracker(direction), rows[first])
    BY <1>3, <2>3 DEF Watched
  <2>6. rows[first] = Row(bars[first], d, first) /\ rows[first] \in Candles
    BY <1>2, <2>4
  <2>7. BreakoutAt(NewTracker(direction), rows[first]) \in Breakouts
    BY <2>6, BreakoutType
  <2>8. t.breakout # None
    BY <2>5, <2>7, TrackerAssumption
  <2>9. LiveCandle(s, d, first) = rows[first]
    <3>1. first - UtcShift = first
      BY <2>4
    <3> QED BY <2>6, <3>1 DEF LiveCandle, bars
  <2>10. t.breakout.label = first /\ t.breakout.volume = rows[first].volume
    <3>1. rows[first].label = first
      BY <2>6 DEF Row
    <3> QED BY <2>5, <3>1 DEF BreakoutAt
  <2>11. t.breakout = BreakoutAt(NewTracker(direction), LiveCandle(s, d, first))
    BY <2>5, <2>9
  <2> QED BY <1>7, <2>4, <2>8, <2>10, <2>11
       DEF FindsBreakout, beyond, t, rows, first, bars, direction
<1> QED BY <1>6, <1>7

-----------------------------------------------------------------------------
(* The decision of an undisturbed day.                                     *)

\* What the plan has at the end of an undisturbed day.
SawDay(h, buffer, d) ==
    /\ IsArchive(h, d)
    /\ HistoryFits(h)
    /\ buffer \in [Keys -> Seq(Candles)]
    /\ \A k \in Fed : buffer[k] = MinuteRows(Tapes[tape], k, d)

\* The candles of the day are enough to resolve the plan.
LEMMA DayCanResolve ==
    ASSUME SnapshotsComplete, tape \in DOMAIN Tapes, NEW d \in Days,
           NEW h, NEW buffer, SawDay(h, buffer, d)
    PROVE  CanResolve(h, buffer)
<1>1. \A k \in Awaited(h) : k \in {NIFTY} \cup Sectors \cup (LIQUID_UNIVERSE \cap Fed)
  BY DEF Awaited, SawDay, IsArchive
<1>2. {NIFTY} \cup Sectors \subseteq Fed
  BY EngineAssumption
<1>3. ASSUME NEW k \in Awaited(h) PROVE Len(buffer[k]) >= SnapshotCandles
  <2>1. k \in Fed /\ Len(Tapes[tape][d][k]) >= SnapshotCandles
    BY <1>1, <1>2 DEF SnapshotsComplete
  <2>2. buffer[k] = MinuteRows(Tapes[tape], k, d)
    BY <2>1 DEF SawDay
  <2>3. Len(MinuteRows(Tapes[tape], k, d)) = Len(Tapes[tape][d][k])
    BY <2>1, MinuteRowsAre
  <2> QED BY <2>1, <2>2, <2>3
<1> QED BY <1>3 DEF CanResolve, ReadyToResolve, SawDay

\* The close of the snapshot is that of its last bar.
LEMMA SnapshotIsBar ==
    ASSUME SnapshotsComplete, tape \in DOMAIN Tapes, NEW d \in Days,
           NEW h, NEW buffer, SawDay(h, buffer, d),
           NEW k \in {NIFTY} \cup Sectors \cup (LIQUID_UNIVERSE \cap Fed)
    PROVE  SnapshotClose(buffer[k]) = Tapes[tape][d][k][SnapshotCandles].close
<1>1. k \in Fed
  BY EngineAssumption
<1>2. Len(Tapes[tape][d][k]) >= SnapshotCandles /\ SnapshotCandles \in Nat \ {0}
  BY ReferenceAssumption DEF SnapshotsComplete
<1>3. buffer[k] = MinuteRows(Tapes[tape], k, d)
  BY <1>1 DEF SawDay
<1> DEFINE n == Len(Tapes[tape][d][k])
           rows == MinuteRows(Tapes[tape], k, d)
<1>4. n \in Nat /\ \A i \in 1 .. n : rows[i].close = Tapes[tape][d][k][i].close
  BY <1>1, MinuteRowsAre
<1>5. SnapshotCandles \in 1 .. n
  BY <1>2, <1>4
<1> HIDE DEF rows, n
<1>6. rows[SnapshotCandles].close = Tapes[tape][d][k][SnapshotCandles].close
  BY <1>4, <1>5
<1> QED BY <1>3, <1>6 DEF SnapshotClose, rows

\* And the move the plan computes is the change of the backtest, signed.
LEMMA MoveIsChange ==
    ASSUME CacheHoldsPast, SnapshotsComplete, tape \in DOMAIN Tapes, NEW d \in Days,
           NEW h, NEW buffer, SawDay(h, buffer, d), NEW direction,
           NEW k \in {NIFTY} \cup Sectors \cup (LIQUID_UNIVERSE \cap Fed)
    PROVE  /\ PctChange(SnapshotClose(buffer[k]), LatestClose(DailyArchive(k, d - 1)))
                 = ChangeOn(d, k)
           /\ Move(direction, buffer[k], DailyArchive(k, d - 1))
                 = Sign(direction) * ChangeOn(d, k)
<1>1. k \in Fed
  BY EngineAssumption
<1>2. SnapshotClose(buffer[k]) = Tapes[tape][d][k][SnapshotCandles].close
  BY SnapshotIsBar
<1>3. PrevClose(DailyArchive(k, d), d) = LatestClose(DailyArchive(k, d - 1))
  BY <1>1, DayLookups
<1>4. PctChange(SnapshotClose(buffer[k]), LatestClose(DailyArchive(k, d - 1)))
         = ChangeOn(d, k)
  BY <1>2, <1>3 DEF ChangeOn
<1> QED BY <1>4 DEF Move

\* The plan and the backtest see one direction and one gate.
LEMMA DirectionIsOn ==
    ASSUME CacheHoldsPast, SnapshotsComplete, tape \in DOMAIN Tapes, NEW d \in Days,
           NEW h, NEW buffer, SawDay(h, buffer, d)
    PROVE  /\ DirectionOf(h, buffer) = DirectionOn(d)
           /\ OkOf(h, buffer) <=> GateOk(DirectionOn(d), PrevClose(DailyArchive(VIX, d), d),
                                         TrendPct(DailyArchive(NIFTY, d), d))
<1>1. NIFTY \in Fed
  BY EngineAssumption
<1>2. h.nifty_daily = DailyArchive(NIFTY, d - 1) /\ h.vix_daily = DailyArchive(VIX, d - 1)
  BY DEF SawDay, IsArchive
<1>3. /\ ChangeKnown(d, NIFTY) <=> DailyArchive(NIFTY, d - 1) # <<>>
      /\ TrendPct(DailyArchive(NIFTY, d), d) = LatestTrendPct(DailyArchive(NIFTY, d - 1))
  BY <1>1, DayLookups
<1>4. PrevClose(DailyArchive(VIX, d), d) = LatestClose(DailyArchive(VIX, d - 1))
  BY DayLookups
<1>5. PctChange(SnapshotClose(buffer[NIFTY]), LatestClose(DailyArchive(NIFTY, d - 1)))
         = ChangeOn(d, NIFTY)
  BY MoveIsChange
<1>6. DirectionOf(h, buffer) = DirectionOn(d)
  <2>1. CASE ChangeKnown(d, NIFTY)
    <3>1. h.nifty_daily # <<>>
      BY <1>2, <1>3, <2>1
    <3>2. DirectionOf(h, buffer) = PickDirection(ChangeOn(d, NIFTY))
      BY <1>2, <1>5, <3>1 DEF DirectionOf
    <3> QED BY <2>1, <3>2 DEF DirectionOn
  <2>2. CASE ~ChangeKnown(d, NIFTY)
    <3>1. h.nifty_daily = <<>>
      BY <1>2, <1>3, <2>2
    <3> QED BY <2>2, <3>1 DEF DirectionOn, DirectionOf
  <2> QED BY <2>1, <2>2
<1>7. OkOf(h, buffer) <=> GateOk(DirectionOn(d), PrevClose(DailyArchive(VIX, d), d),
                                 TrendPct(DailyArchive(NIFTY, d), d))
  BY <1>2, <1>3, <1>4, <1>6 DEF OkOf
<1> QED BY <1>6, <1>7

\* The indices of the sectors that are eligible, and those of the sectors
\* that beat one.
Chosen(d) == {i \in DOMAIN V2_SECTORS : V2_SECTORS[i] \in EligibleOn(d)}

Beats(d, n) ==
    {m \in EligibleOn(d) :
        \/ SignedChangeOn(d, m) > SignedChangeOn(d, n)
        \/ /\ SignedChangeOn(d, m) = SignedChangeOn(d, n)
           /\ \E i, j \in DOMAIN V2_SECTORS :
                 i < j /\ V2_SECTORS[i] = m /\ V2_SECTORS[j] = n}

\* sel lists the first of the eligible sectors.
ListsSectors(sel, d) ==
    \E n \in Nat :
       /\ sel = [r \in 1 .. n |-> sel[r]]
       /\ \A r \in 1 .. n : /\ sel[r] \in EligibleOn(d)
                            /\ PlaceOn(d, sel[r]) = r
                            /\ r <= Params.top_sectors
       /\ \A m \in EligibleOn(d) :
             PlaceOn(d, m) <= Params.top_sectors =>
                PlaceOn(d, m) \in 1 .. n /\ sel[PlaceOn(d, m)] = m

\* The sectors' strengths, and which are eligible, are those of the backtest.
LEMMA StrengthsAreChanges ==
    ASSUME CacheHoldsPast, SnapshotsComplete, tape \in DOMAIN Tapes, NEW d \in Days,
           NEW h, NEW buffer, SawDay(h, buffer, d)
    PROVE  LET strength == Strengths(h, buffer, DirectionOn(d))
           IN  /\ \A i \in DOMAIN V2_SECTORS :
                     strength[i] = SignedChangeOn(d, V2_SECTORS[i])
               /\ EligibleSectors(h, strength) = Chosen(d)
               /\ \A i \in Chosen(d) : strength[i] \in Int
<1> DEFINE direction == DirectionOn(d)
           strength == Strengths(h, buffer, direction)
<1>1. \A i \in DOMAIN V2_SECTORS :
         /\ V2_SECTORS[i] \in Sectors /\ V2_SECTORS[i] \in Fed
         /\ V2_SECTORS[i] \in Keys
         /\ h.sector_daily[V2_SECTORS[i]] = DailyArchive(V2_SECTORS[i], d - 1)
  BY EngineAssumption DEF Sectors, SawDay, IsArchive
<1>2. \A i \in DOMAIN V2_SECTORS :
         /\ ChangeKnown(d, V2_SECTORS[i]) <=> h.sector_daily[V2_SECTORS[i]] # <<>>
         /\ h.sector_daily[V2_SECTORS[i]] \in Seq(Candles)
  BY <1>1, DayLookups
<1>3. ASSUME NEW i \in DOMAIN V2_SECTORS
      PROVE  strength[i] = SignedChangeOn(d, V2_SECTORS[i])
  <2>1. Move(direction, buffer[V2_SECTORS[i]], DailyArchive(V2_SECTORS[i], d - 1))
           = Sign(direction) * ChangeOn(d, V2_SECTORS[i])
    BY <1>1, MoveIsChange
  <2>2. strength[i] = Move(direction, buffer[V2_SECTORS[i]],
                           DailyArchive(V2_SECTORS[i], d - 1))
    BY <1>1 DEF Strengths
  <2> QED BY <2>1, <2>2 DEF SignedChangeOn
<1>4. ASSUME NEW i \in DOMAIN V2_SECTORS, h.sector_daily[V2_SECTORS[i]] # <<>>
      PROVE  strength[i] \in Int
  <2>1. CanResolve(h, buffer)
    BY DayCanResolve
  <2>2. Len(buffer[V2_SECTORS[i]]) >= SnapshotCandles
    BY <1>1, <2>1 DEF CanResolve, ReadyToResolve, Awaited
  <2>3. buffer[V2_SECTORS[i]] \in Seq(Candles)
    BY <1>1 DEF SawDay
  <2>4. Move(direction, buffer[V2_SECTORS[i]], h.sector_daily[V2_SECTORS[i]]) \in Int
    BY <1>2, <1>4, <2>2, <2>3, MoveType
  <2> QED BY <2>4 DEF Strengths
<1> HIDE DEF strength
<1>5. EligibleSectors(h, strength) = Chosen(d)
  BY <1>1, <1>2, <1>3 DEF EligibleSectors, Chosen, EligibleOn
<1>6. \A i \in Chosen(d) : strength[i] \in Int
  BY <1>4, <1>5 DEF EligibleSectors
<1> QED BY <1>3, <1>5, <1>6 DEF strength

\* The place of a sector is the rank of its index.
LEMMA PlaceIsRank ==
    ASSUME SectorsDiffer, NEW d, NEW strength,
           \A i \in DOMAIN V2_SECTORS : strength[i] = SignedChangeOn(d, V2_SECTORS[i]),
           \A i \in Chosen(d) : strength[i] \in Int, NEW i \in Chosen(d)
    PROVE  LET J == {j \in Chosen(d) : <<j, i>> \in Stronger(Chosen(d), strength)}
           IN  /\ IsFiniteSet(J) /\ Cardinality(J) \in Nat
               /\ Cardinality(J) < Cardinality(Chosen(d))
               /\ PlaceOn(d, V2_SECTORS[i]) = Cardinality(J) + 1
<1> DEFINE E == Chosen(d)
           J == {j \in E : <<j, i>> \in Stronger(E, strength)}
           f == V2_SECTORS
<1>1. DOMAIN V2_SECTORS = 1 .. Len(V2_SECTORS) /\ Len(V2_SECTORS) \in Nat
  BY PlanAssumption, LenProperties
<1>2. E \subseteq DOMAIN V2_SECTORS /\ i \in DOMAIN V2_SECTORS
  BY DEF Chosen
<1>3. IsFiniteSet(E) /\ E \subseteq Int
  <2>1. IsFiniteSet(1 .. Len(V2_SECTORS))
    BY <1>1, FS_Interval
  <2> HIDE DEF E
  <2>2. IsFiniteSet(DOMAIN V2_SECTORS)
    BY <1>1, <2>1
  <2> QED BY <1>1, <1>2, <2>2, FS_Subset
<1>4. i \notin J /\ J \subseteq E
  <2>1. <<i, i>> \notin Stronger(E, strength)
    <3>1. strength[i] \in Int /\ i \in Int
      BY <1>3
    <3> QED BY <3>1 DEF Stronger
  <2> QED BY <2>1
<1> HIDE DEF J
<1>5. IsFiniteSet(J) /\ Cardinality(J) \in Nat /\ Cardinality(J) < Cardinality(E)
  <2>1. J \subseteq E \ {i}
    BY <1>4
  <2>2. IsFiniteSet(E \ {i}) /\ Cardinality(E \ {i}) = Cardinality(E) - 1
    BY <1>3, FS_RemoveElement
  <2>3. IsFiniteSet(J) /\ Cardinality(J) <= Cardinality(E \ {i})
    BY <2>1, <2>2, FS_Subset
  <2>4. Cardinality(J) \in Nat /\ Cardinality(E) \in Nat
    BY <1>3, <2>3, FS_CardinalityType
  <2> QED BY <2>2, <2>3, <2>4
<1>6. \A j, l \in J : f[j] = f[l] => j = l
  BY <1>2, <1>4 DEF SectorsDiffer
<1>7. Cardinality({f[j] : j \in J}) = Cardinality(J)
  <2> HIDE DEF f
  <2> QED BY <1>5, <1>6, DistinctImages
<1>8. Beats(d, f[i]) = {f[j] : j \in J}
  <2>1. ASSUME NEW m \in Beats(d, f[i]) PROVE m \in {f[j] : j \in J}
    <3>1. m \in EligibleOn(d) /\ m \in Sectors
      BY DEF Beats, EligibleOn
    <3>2. PICK j \in DOMAIN V2_SECTORS : V2_SECTORS[j] = m
      BY <3>1 DEF Sectors
    <3>3. j \in E /\ f[j] = m
      BY <3>1, <3>2 DEF Chosen
    <3>4. strength[j] = SignedChangeOn(d, m) /\ strength[i] = SignedChangeOn(d, f[i])
      BY <1>2, <3>2
    <3>5. ASSUME SignedChangeOn(d, m) = SignedChangeOn(d, f[i]),
                 ~(SignedChangeOn(d, m) > SignedChangeOn(d, f[i]))
          PROVE  j < i
      <4>1. PICK a, b \in DOMAIN V2_SECTORS :
               a < b /\ V2_SECTORS[a] = m /\ V2_SECTORS[b] = f[i]
        BY <3>5 DEF Beats
      <4>2. a = j
        BY <3>2, <4>1 DEF SectorsDiffer
      <4>3. b = i
        BY <1>2, <4>1 DEF SectorsDiffer
      <4> QED BY <4>1, <4>2, <4>3
    <3>6. \/ SignedChangeOn(d, m) > SignedChangeOn(d, f[i])
          \/ SignedChangeOn(d, m) = SignedChangeOn(d, f[i])
      BY DEF Beats
    <3>7. <<j, i>> \in Stronger(E, strength)
      BY <3>3, <3>4, <3>5, <3>6 DEF Stronger
    <3> QED BY <3>3, <3>7 DEF J
  <2>2. ASSUME NEW j \in J PROVE f[j] \in Beats(d, f[i])
    <3>1. j \in E /\ <<j, i>> \in Stronger(E, strength)
      BY DEF J
    <3>2. f[j] \in EligibleOn(d) /\ j \in DOMAIN V2_SECTORS
      BY <3>1 DEF Chosen
    <3>3. strength[j] = SignedChangeOn(d, f[j]) /\ strength[i] = SignedChangeOn(d, f[i])
      BY <1>2, <3>2
    <3>4. strength[j] > strength[i] \/ (strength[j] = strength[i] /\ j < i)
      BY <3>1 DEF Stronger
    <3>5. \/ SignedChangeOn(d, f[j]) > SignedChangeOn(d, f[i])
          \/ SignedChangeOn(d, f[j]) = SignedChangeOn(d, f[i]) /\ j < i
      BY <3>3, <3>4
    <3> QED BY <1>2, <3>2, <3>5 DEF Beats
  <2> HIDE DEF f
  <2> QED BY <2>1, <2>2
<1>9. PlaceOn(d, f[i]) = Cardinality(Beats(d, f[i])) + 1
  BY DEF PlaceOn, Beats
<1>10. PlaceOn(d, f[i]) = Cardinality(J) + 1
  BY <1>7, <1>8, <1>9
<1> QED BY <1>5, <1>10 DEF J

\* Step 2 of _resolve selects the sectors with the first places.
LEMMA SectorsAreSelected ==
    ASSUME CacheHoldsPast, SnapshotsComplete, SectorsDiffer, tape \in DOMAIN Tapes,
           NEW d \in Days, NEW h, NEW buffer, SawDay(h, buffer, d)
    PROVE  ListsSectors(SelectedSectors(h, buffer, DirectionOn(d)), d)
<1> DEFINE strength == Strengths(h, buffer, DirectionOn(d))
           E == Chosen(d)
           J(i) == {j \in E : <<j, i>> \in Stronger(E, strength)}
           sel == SelectedSectors(h, buffer, DirectionOn(d))
           n == Min({Cardinality(E), Params.top_sectors})
<1>1. /\ \A i \in DOMAIN V2_SECTORS : strength[i] = SignedChangeOn(d, V2_SECTORS[i])
      /\ EligibleSectors(h, strength) = E
      /\ \A i \in E : strength[i] \in Int
  BY StrengthsAreChanges
<1>2. /\ IsFiniteSet(E)
      /\ RanksAreUnique(E, strength)
      /\ Selects(sel, h, strength)
  <2>1. CanResolve(h, buffer)
    BY DayCanResolve
  <2>2. /\ IsFiniteSet(EligibleSectors(h, strength))
        /\ RanksAreUnique(EligibleSectors(h, strength), strength)
        /\ Selects(sel, h, strength)
    BY <2>1, SectorsRanked
  <2> HIDE DEF E, strength
  <2> QED BY <1>1, <2>2
<1> HIDE DEF strength, sel
<1>3. PICK ranked : /\ RanksSectors(ranked, E, strength)
                    /\ sel = [r \in 1 .. n |-> V2_SECTORS[ranked[r]]]
  <2> HIDE DEF E
  <2> QED BY <1>1, <1>2 DEF Selects
<1>4. \A i \in E : /\ Cardinality(J(i)) \in Nat
                   /\ Cardinality(J(i)) < Cardinality(E)
                   /\ PlaceOn(d, V2_SECTORS[i]) = Cardinality(J(i)) + 1
  BY <1>1, PlaceIsRank
<1>5. Cardinality(E) \in Nat /\ Params.top_sectors \in Nat
  <2>1. Params.top_sectors \in Nat
    BY PlanAssumption DEF StrategyParams
  <2> HIDE DEF E
  <2> QED BY <1>2, <2>1, FS_CardinalityType
<1>6. n \in Nat /\ n <= Cardinality(E) /\ n <= Params.top_sectors
      /\ n \in {Cardinality(E), Params.top_sectors}
  <2> DEFINE a == Cardinality(E)
             b == Params.top_sectors
  <2>1. a \in Nat /\ b \in Nat /\ n = Min({a, b})
    BY <1>5
  <2> HIDE DEF a, b, n
  <2>2. n \in {a, b} /\ n <= a /\ n <= b
    BY <2>1, MinOfTwo
  <2>3. n \in Nat /\ n <= a /\ n <= b /\ n \in {a, b}
    BY <2>1, <2>2
  <2> QED BY <2>3 DEF a, b
<1>7. \A i \in E : V2_SECTORS[i] \in EligibleOn(d)
  BY DEF Chosen
<1>8. \A m \in EligibleOn(d) : \E i \in E : V2_SECTORS[i] = m
  BY DEF Chosen, EligibleOn, Sectors
<1> HIDE DEF n, E
<1>9. ASSUME NEW r \in 1 .. n
      PROVE  /\ sel[r] \in EligibleOn(d) /\ PlaceOn(d, sel[r]) = r
             /\ r <= Params.top_sectors
  <2>1. r \in 1 .. Cardinality(E)
    BY <1>5, <1>6
  <2>2. ranked[r] \in E /\ Cardinality(J(ranked[r])) = r - 1
    BY <1>3, <2>1 DEF RanksSectors
  <2>3. sel[r] = V2_SECTORS[ranked[r]]
    BY <1>3
  <2>4. PlaceOn(d, V2_SECTORS[ranked[r]]) = (r - 1) + 1
    BY <1>4, <2>2
  <2>5. r <= Params.top_sectors /\ (r - 1) + 1 = r
    BY <1>5, <1>6
  <2> QED BY <1>7, <2>2, <2>3, <2>4, <2>5
<1>10. ASSUME NEW m \in EligibleOn(d), PlaceOn(d, m) <= Params.top_sectors
       PROVE  PlaceOn(d, m) \in 1 .. n /\ sel[PlaceOn(d, m)] = m
  <2>1. PICK i \in E : V2_SECTORS[i] = m
    BY <1>8
  <2> DEFINE r == PlaceOn(d, m)
             rank == Cardinality(J(i))
  <2>2. rank \in Nat /\ rank < Cardinality(E) /\ r = rank + 1
    BY <1>4, <2>1
  <2> HIDE DEF rank
  <2>3. r \in 1 .. Cardinality(E) /\ r \in 1 .. n /\ r - 1 = rank
    BY <1>5, <1>6, <1>10, <2>2
  <2> HIDE DEF r
  <2>4. ranked[r] \in E /\ Cardinality(J(ranked[r])) = r - 1
    BY <1>3, <2>3 DEF RanksSectors
  <2>5. Cardinality(J(ranked[r])) = Cardinality(J(i))
    BY <2>3, <2>4 DEF rank
  <2>6. ranked[r] = i
    BY <1>2, <2>4, <2>5 DEF RanksAreUnique
  <2>7. sel[r] = V2_SECTORS[ranked[r]]
    BY <1>3, <2>3
  <2> QED BY <2>1, <2>3, <2>6, <2>7 DEF r
<1>11. sel = [r \in 1 .. n |-> sel[r]]
  BY <1>3
<1> QED BY <1>6, <1>9, <1>10, <1>11 DEF ListsSectors, sel

\* _sector_for finds the sector with the first place, if there is one.
LEMMA SectorIsFirst ==
    ASSUME NEW d, NEW sel, ListsSectors(sel, d), NEW s
    PROVE  /\ (\E n \in ToSet(sel) : s \in ToSet(INDEX_CONSTITUENTS[n]))
                 <=> SectorsWith(d, s) # {}
           /\ SectorsWith(d, s) # {} =>
                 SectorFor(s, sel) = CHOOSE n \in SectorsWith(d, s) :
                    \A m \in SectorsWith(d, s) : PlaceOn(d, n) <= PlaceOn(d, m)
<1>1. PICK n \in Nat :
         /\ sel = [r \in 1 .. n |-> sel[r]]
         /\ \A r \in 1 .. n : /\ sel[r] \in EligibleOn(d)
                              /\ PlaceOn(d, sel[r]) = r
                              /\ r <= Params.top_sectors
         /\ \A m \in EligibleOn(d) :
               PlaceOn(d, m) <= Params.top_sectors =>
                  PlaceOn(d, m) \in 1 .. n /\ sel[PlaceOn(d, m)] = m
  BY DEF ListsSectors
<1> DEFINE with == SectorsWith(d, s)
           at == {i \in DOMAIN sel : s \in ToSet(INDEX_CONSTITUENTS[sel[i]])}
           best(m) == \A l \in with : PlaceOn(d, m) <= PlaceOn(d, l)
<1>2. DOMAIN sel = 1 .. n
  BY <1>1
<1>3. \A m : m \in with <=> /\ m \in EligibleOn(d) /\ PlaceOn(d, m) <= Params.top_sectors
                            /\ s \in ToSet(INDEX_CONSTITUENTS[m])
  BY DEF SectorsWith
<1> HIDE DEF with
<1>4. ASSUME NEW r \in at
      PROVE  r \in 1 .. n /\ sel[r] \in with /\ PlaceOn(d, sel[r]) = r
  <2>1. r \in 1 .. n /\ s \in ToSet(INDEX_CONSTITUENTS[sel[r]])
    BY <1>2
  <2>2. sel[r] \in EligibleOn(d) /\ PlaceOn(d, sel[r]) = r /\ r <= Params.top_sectors
    BY <1>1, <2>1
  <2> QED BY <1>3, <2>1, <2>2
<1>5. ASSUME NEW m \in with
      PROVE  PlaceOn(d, m) \in at /\ sel[PlaceOn(d, m)] = m
  <2>1. PlaceOn(d, m) \in 1 .. n /\ sel[PlaceOn(d, m)] = m
    BY <1>1, <1>3
  <2> QED BY <1>2, <1>3, <2>1
<1>6. (\E m \in ToSet(sel) : s \in ToSet(INDEX_CONSTITUENTS[m])) <=> at # {}
  BY DEF ToSet
<1>7. at # {} <=> with # {}
  BY <1>4, <1>5
<1>8. SectorFor(s, sel) = IF at = {} THEN "unknown" ELSE sel[Min(at)]
  BY DEF SectorFor
<1>9. at \subseteq 1 .. n
  BY <1>4
<1> HIDE DEF at
<1>10. ASSUME with # {}
       PROVE  SectorFor(s, sel) = CHOOSE m \in with : best(m)
  <2>1. IsFiniteSet(at) /\ at \subseteq Int
    <3>1. IsFiniteSet(1 .. n) /\ 1 .. n \subseteq Int
      BY FS_Interval
    <3> QED BY <1>9, <3>1, FS_Subset
  <2>2. Min(at) \in at /\ \A x \in at : Min(at) <= x
    BY <1>7, <1>10, <2>1, MinOfSet
  <2> DEFINE first == sel[Min(at)]
  <2>3. first \in with /\ PlaceOn(d, first) = Min(at)
    BY <1>4, <2>2
  <2>4. best(first)
    <3> SUFFICES ASSUME NEW l \in with PROVE PlaceOn(d, first) <= PlaceOn(d, l)
      OBVIOUS
    <3>1. PlaceOn(d, l) \in at
      BY <1>5
    <3> QED BY <2>2, <2>3, <3>1
  <2>5. ASSUME NEW m \in with, best(m) PROVE m = first
    <3>1. PlaceOn(d, m) <= PlaceOn(d, first)
      BY <2>3, <2>5
    <3>2. PlaceOn(d, first) <= PlaceOn(d, m)
      BY <2>4, <2>5
    <3>3. PlaceOn(d, m) \in Int /\ PlaceOn(d, first) \in Int
      BY <1>5, <2>1, <2>3, <2>5
    <3>4. PlaceOn(d, m) = PlaceOn(d, first)
      BY <3>1, <3>2, <3>3
    <3>5. sel[PlaceOn(d, m)] = m /\ sel[PlaceOn(d, first)] = first
      BY <1>5, <2>3, <2>5
    <3> QED BY <3>4, <3>5
  <2>6. SectorFor(s, sel) = first
    BY <1>7, <1>8, <1>10
  <2> HIDE DEF first, best
  <2> QED BY <2>3, <2>4, <2>5, <2>6
<1> QED BY <1>6, <1>7, <1>10 DEF with

\* A stock that the backtest of the day would watch for a breakout.
Watchable(d, s) ==
    /\ SectorsWith(d, s) # {}
    /\ ChangeKnown(d, s)
    /\ SignedChangeOn(d, s) > 0
    /\ SignedChangeOn(d, s) \in Params.stock_min .. Params.stock_max
    /\ OpeningRatio(VolumeArchive(s, d), d) # None
    /\ OpeningRatio(VolumeArchive(s, d), d) >= Params.min_opening_ratio

\* Without a day before there is no ratio.
LEMMA NoProfileNoRatio ==
    ASSUME NEW p, DOMAIN p = {}, NEW volume
    PROVE  LiveOpeningVolumeRatio(p, volume) = None
<1> DEFINE over == Over(Opening(p), LastDays(DOMAIN p))
<1>1. DOMAIN Opening(p) = {}
  BY DEF Opening
<1>2. DOMAIN over = {}
  BY <1>1 DEF Over, Restrict
<1>3. Cardinality({}) = 0 /\ MinHistory \in Nat \ {0}
  BY FS_EmptySet, ReferenceAssumption
<1> HIDE DEF over
<1>4. RatioToMean(volume, over) = None
  BY <1>2, <1>3 DEF RatioToMean
<1> QED BY <1>4 DEF LiveOpeningVolumeRatio, over

\* The opening volume ratio of a stock that has a history.
LEMMA OpeningRatioIsLive ==
    ASSUME CacheHoldsPast, SnapshotsComplete, tape \in DOMAIN Tapes, NEW d \in Days,
           NEW h, NEW buffer, SawDay(h, buffer, d),
           NEW s \in LIQUID_UNIVERSE \cap Fed
    PROVE  /\ Len(buffer[s]) >= SnapshotCandles
           /\ OpeningRatio(VolumeArchive(s, d), d)
                 = LiveOpeningVolumeRatio(VolumeArchive(s, d - 1),
                                          OpeningVolume(buffer[s]))
<1> DEFINE rows == MinuteRows(Tapes[tape], s, d)
<1>1. buffer[s] = rows
  BY DEF SawDay
<1>2. Len(rows) = Len(Tapes[tape][d][s]) /\ Len(rows) \in Nat
  BY MinuteRowsAre
<1>3. Len(rows) >= SnapshotCandles
  BY <1>2 DEF SnapshotsComplete
<1>4. OpeningRatio(VolumeArchive(s, d), d) =
         IF Len(rows) < SnapshotCandles THEN None
         ELSE LiveOpeningVolumeRatio(VolumeArchive(s, d - 1), OpeningVolume(rows))
  BY DayRatios
<1> HIDE DEF rows
<1>5. ~(Len(rows) < SnapshotCandles)
  BY <1>2, <1>3, ReferenceAssumption
<1> QED BY <1>1, <1>3, <1>4, <1>5

\* _qualify_stock qualifies what the backtest watches.
LEMMA QualifiesIsWatchable ==
    ASSUME CacheHoldsPast, SnapshotsComplete, tape \in DOMAIN Tapes, NEW d \in Days,
           NEW h, NEW buffer, SawDay(h, buffer, d),
           NEW sel, ListsSectors(sel, d)
    PROVE  QualifiedOf(h, buffer, DirectionOn(d), sel)
              = {s \in LIQUID_UNIVERSE \cap Fed : Watchable(d, s)}
<1> DEFINE direction == DirectionOn(d)
<1>1. ASSUME NEW s \in DOMAIN h.stock_daily
      PROVE  /\ s \in LIQUID_UNIVERSE \cap Fed
             /\ Qualifies(h, buffer, direction, s) <=>
                   /\ ChangeKnown(d, s)
                   /\ SignedChangeOn(d, s) > 0
                   /\ SignedChangeOn(d, s) \in Params.stock_min .. Params.stock_max
                   /\ OpeningRatio(VolumeArchive(s, d), d) # None
                   /\ OpeningRatio(VolumeArchive(s, d), d) >= Params.min_opening_ratio
  <2>1. s \in LIQUID_UNIVERSE \cap Fed /\ s \in Listed
    BY <1>1, EngineAssumption DEF SawDay, IsArchive
  <2>2. /\ h.stock_daily[s] = DailyArchive(s, d - 1)
        /\ h.stock_volume[s] = VolumeArchive(s, d - 1)
        /\ s \in DOMAIN h.stock_volume
    BY <1>1 DEF SawDay, IsArchive
  <2>3. /\ ChangeKnown(d, s) <=> DailyArchive(s, d - 1) # <<>>
        /\ DailyArchive(s, d - 1) \in Seq(Candles)
    BY <2>1, DayLookups
  <2>4. Move(direction, buffer[s], DailyArchive(s, d - 1)) = SignedChangeOn(d, s)
    <3>1. Move(direction, buffer[s], DailyArchive(s, d - 1))
             = Sign(direction) * ChangeOn(d, s)
      BY <2>1, MoveIsChange
    <3> QED BY <3>1 DEF SignedChangeOn
  <2>5. /\ Len(buffer[s]) >= SnapshotCandles
        /\ OpeningRatio(VolumeArchive(s, d), d)
              = LiveOpeningVolumeRatio(VolumeArchive(s, d - 1), OpeningVolume(buffer[s]))
    BY <2>1, OpeningRatioIsLive
  <2>6. DailyArchive(s, d - 1) # <<>> => SignedChangeOn(d, s) \in Int
    <3>1. buffer[s] \in Seq(Candles)
      BY <2>1 DEF SawDay, Keys
    <3> QED BY <2>3, <2>4, <2>5, <3>1, MoveType
  <2>7. Params.stock_min \in Int /\ Params.stock_max \in Int
    BY PlanAssumption DEF StrategyParams
  <2> DEFINE move == SignedChangeOn(d, s)
             ratio == OpeningRatio(VolumeArchive(s, d), d)
             known == DailyArchive(s, d - 1) # <<>>
  <2>8. Qualifies(h, buffer, direction, s) <=>
           /\ known
           /\ move > 0 /\ move >= Params.stock_min /\ move <= Params.stock_max
           /\ ratio # None /\ ratio >= Params.min_opening_ratio
    BY <2>1, <2>2, <2>4, <2>5 DEF Qualifies
  <2> HIDE DEF move, ratio
  <2>9. known => (move \in Params.stock_min .. Params.stock_max <=>
                    move >= Params.stock_min /\ move <= Params.stock_max)
    BY <2>6, <2>7 DEF move
  <2>10. Qualifies(h, buffer, direction, s) <=>
           /\ ChangeKnown(d, s)
           /\ move > 0 /\ move \in Params.stock_min .. Params.stock_max
           /\ ratio # None /\ ratio >= Params.min_opening_ratio
    <3> HIDE DEF known, direction
    <3>1. ChangeKnown(d, s) <=> known
      BY <2>3 DEF known
    <3> QED BY <2>8, <2>9, <3>1
  <2> QED BY <2>1, <2>10 DEF move, ratio
<1>2. ASSUME NEW s \in LIQUID_UNIVERSE \cap Fed, s \notin DOMAIN h.stock_daily
      PROVE  ~Watchable(d, s)
  <2>1. DOMAIN VolumeArchive(s, d - 1) = {}
    BY <1>2 DEF SawDay, IsArchive
  <2>2. OpeningRatio(VolumeArchive(s, d), d)
           = LiveOpeningVolumeRatio(VolumeArchive(s, d - 1), OpeningVolume(buffer[s]))
    BY OpeningRatioIsLive
  <2>3. LiveOpeningVolumeRatio(VolumeArchive(s, d - 1), OpeningVolume(buffer[s])) = None
    BY <2>1, NoProfileNoRatio
  <2> QED BY <2>2, <2>3 DEF Watchable
<1>3. ASSUME NEW s
      PROVE  (\E n \in ToSet(sel) : s \in ToSet(INDEX_CONSTITUENTS[n]))
                <=> SectorsWith(d, s) # {}
  BY SectorIsFirst
<1>4. \A s : Qualifies(h, buffer, direction, s) => s \in DOMAIN h.stock_daily
  BY DEF Qualifies, SawDay, IsArchive
<1>5. \A s : s \in QualifiedOf(h, buffer, direction, sel) <=>
         /\ \E n \in ToSet(sel) : s \in ToSet(INDEX_CONSTITUENTS[n])
         /\ Qualifies(h, buffer, direction, s)
  BY DEF QualifiedOf
<1> HIDE DEF direction
<1>6. ASSUME NEW s \in DOMAIN h.stock_daily
      PROVE  s \in QualifiedOf(h, buffer, direction, sel)
                <=> s \in LIQUID_UNIVERSE \cap Fed /\ Watchable(d, s)
  BY <1>1, <1>3, <1>5, <1>6 DEF Watchable
<1>7. ASSUME NEW s, s \notin DOMAIN h.stock_daily
      PROVE  s \in QualifiedOf(h, buffer, direction, sel)
                <=> s \in LIQUID_UNIVERSE \cap Fed /\ Watchable(d, s)
  BY <1>2, <1>4, <1>5, <1>7
<1>8. \A s : s \in QualifiedOf(h, buffer, direction, sel)
                <=> s \in LIQUID_UNIVERSE \cap Fed /\ Watchable(d, s)
  BY <1>6, <1>7
<1> QED BY <1>8 DEF direction

\* The volume filter, with the history named.
Clears(h, s, breakout) ==
    LET ratio == LiveSlotVolumeRatio(h.stock_volume[s], breakout.label,
                                     breakout.volume)
    IN  ratio # None /\ ratio >= Params.min_breakout_ratio

\* The stocks whose tracker has broken out since the plan's resolution, on
\* volume; the signal of one; and their signals.
BrokenOut(h, p, since) ==
    {s \in DOMAIN p.trackers : /\ p.trackers[s].breakout # None
                               /\ p.trackers[s].breakout.label > since[s]
                               /\ Clears(h, s, p.trackers[s].breakout)}

SignalOn(h, p, s) ==
    SignalFor(s, p.direction, SectorFor(s, p.sectors), p.trackers[s].breakout,
              LatestAtrPct(h.stock_daily[s]))

SignalsOn(h, p, since) == {SignalOn(h, p, s) : s \in BrokenOut(h, p, since)}

\* The signals that the backtest of the day has after the resolution.
BacktestStocks ==
    {s \in TradeableStocks(day) : Min(BeyondRange(day, s)) > seen[s]}

\* Those are the breakouts that the backtest finds.
LEMMA BreakoutsOfTheDay ==
    ASSUME CacheHoldsPast, SnapshotsComplete, SectorsDiffer, UtcShift = 0,
           tape \in DOMAIN Tapes, day \in Days,
           SawDay(history, plan.buffer, day), PlanFits(history, plan),
           Decides(history, plan)
    PROVE  SignalsOn(history, plan, seen)
              = {BacktestSignal(day, s) : s \in BacktestStocks}
<1> DEFINE direction == DirectionOn(day)
           sel == SelectedSectors(history, plan.buffer, direction)
           watched == {s \in LIQUID_UNIVERSE \cap Fed : Watchable(day, s)}
           ok == GateOk(direction, PrevClose(DailyArchive(VIX, day), day),
                        TrendPct(DailyArchive(NIFTY, day), day))
<1>1. plan.direction = direction /\ (plan.gate_ok <=> ok)
  <2>1. plan.direction = DirectionOf(history, plan.buffer)
    BY DEF Decides
  <2>2. plan.gate_ok <=> OkOf(history, plan.buffer)
    BY DEF Decides
  <2>3. DirectionOf(history, plan.buffer) = direction
    BY DirectionIsOn
  <2>4. OkOf(history, plan.buffer) <=> ok
    BY DirectionIsOn
  <2> HIDE DEF ok, direction
  <2> QED BY <2>1, <2>2, <2>3, <2>4
<1>2. TradeableStocks(day) = IF ok THEN {s \in LIQUID_UNIVERSE \cap Fed : Tradeable(day, s)}
                             ELSE {}
  BY DEF TradeableStocks
<1>3. CASE ~ok
  <2>1. DOMAIN plan.trackers = {}
    BY <1>1, <1>3 DEF PlanFits
  <2>2. BrokenOut(history, plan, seen) = {} /\ BacktestStocks = {}
    BY <1>2, <1>3, <2>1 DEF BrokenOut, BacktestStocks
  <2> QED BY <2>2 DEF SignalsOn
<1>4. CASE ok
  <2>1. ListsSectors(sel, day)
    BY SectorsAreSelected
  <2>2. plan.sectors = sel
    BY <1>1, <1>4 DEF Decides
  <2>3. DOMAIN plan.trackers = watched
    <3>1. DOMAIN plan.trackers
             = QualifiedOf(history, plan.buffer, plan.direction, plan.sectors)
      BY <1>1, <1>4 DEF Decides
    <3>2. QualifiedOf(history, plan.buffer, direction, sel) = watched
      <4> HIDE DEF sel
      <4> QED BY <2>1, QualifiesIsWatchable
    <3> HIDE DEF sel, watched, direction
    <3> QED BY <1>1, <2>2, <3>1, <3>2
  <2>4. direction \in Sides
    BY <1>1, <1>4 DEF PlanFits
  <2> DEFINE t(s) == plan.trackers[s]
             first(s) == Min(BeyondRange(day, s))
  <2>5. ASSUME NEW s \in watched
        PROVE  FindsBreakout(t(s), s, day)
    <3>1. s \in Fed
      OBVIOUS
    <3>2. t(s) = Tracked(plan.direction, plan.buffer[s])
      BY <2>3 DEF PlanFits
    <3>3. plan.buffer[s] = MinuteRows(Tapes[tape], s, day)
      BY <3>1 DEF SawDay
    <3>4. FindsBreakout(Tracked(direction, MinuteRows(Tapes[tape], s, day)), s, day)
      BY <2>4, <3>1, TrackerFindsBreakout
    <3> HIDE DEF direction
    <3> QED BY <1>1, <3>2, <3>3, <3>4
  <2>6. ASSUME NEW s \in watched
        PROVE  s \in Fed /\ s \in DOMAIN history.stock_daily
               /\ history.stock_daily[s] = DailyArchive(s, day - 1)
               /\ history.stock_volume[s] = VolumeArchive(s, day - 1)
    <3>1. s \in QualifiedOf(history, plan.buffer, plan.direction, plan.sectors)
      BY <1>1, <1>4, <2>3 DEF Decides
    <3>2. s \in DOMAIN history.stock_daily
      BY <3>1 DEF QualifiedOf, Qualifies, SawDay, IsArchive
    <3> QED BY <3>2 DEF SawDay, IsArchive
  <2>7. ASSUME NEW s \in watched, BeyondRange(day, s) # {}
        PROVE  /\ t(s).breakout # None
               /\ t(s).breakout = BreakoutAt(NewTracker(direction),
                                             LiveCandle(s, day, first(s)))
               /\ t(s).breakout.label = first(s)
               /\ Clears(history, s, t(s).breakout) <=>
                     LET ratio == SlotRatio(VolumeArchive(s, day), day, first(s))
                     IN  ratio # None /\ ratio >= Params.min_breakout_ratio
    <3>1. s \in Fed /\ history.stock_volume[s] = VolumeArchive(s, day - 1)
      BY <2>6
    <3>2. /\ first(s) \in 1 .. Len(Tapes[tape][day][s])
          /\ t(s).breakout # None
          /\ t(s).breakout = BreakoutAt(NewTracker(direction), LiveCandle(s, day, first(s)))
          /\ t(s).breakout.label = first(s)
          /\ t(s).breakout.volume = MinuteRows(Tapes[tape], s, day)[first(s)].volume
      BY <2>5, <2>7 DEF FindsBreakout
    <3>3. Len(MinuteRows(Tapes[tape], s, day)) = Len(Tapes[tape][day][s])
      BY <3>1, MinuteRowsAre
    <3>4. \A l \in 1 .. Len(MinuteRows(Tapes[tape], s, day)) :
             SlotRatio(VolumeArchive(s, day), day, l)
                = LiveSlotVolumeRatio(VolumeArchive(s, day - 1), l,
                                      MinuteRows(Tapes[tape], s, day)[l].volume)
      BY <3>1, DayRatios
    <3>5. SlotRatio(VolumeArchive(s, day), day, first(s))
             = LiveSlotVolumeRatio(VolumeArchive(s, day - 1), first(s),
                                   MinuteRows(Tapes[tape], s, day)[first(s)].volume)
      BY <3>2, <3>3, <3>4
    <3>6. SlotRatio(VolumeArchive(s, day), day, first(s))
             = LiveSlotVolumeRatio(history.stock_volume[s], t(s).breakout.label,
                                   t(s).breakout.volume)
      BY <3>1, <3>2, <3>5
    <3>7. Clears(history, s, t(s).breakout) <=>
             LET ratio == SlotRatio(VolumeArchive(s, day), day, first(s))
             IN  ratio # None /\ ratio >= Params.min_breakout_ratio
      BY <3>6 DEF Clears
    <3> QED BY <3>2, <3>7
  <2>8. ASSUME NEW s \in watched, BeyondRange(day, s) = {}
        PROVE  t(s).breakout = None
    BY <2>5, <2>8 DEF FindsBreakout
  <2>9. \A s : s \in BacktestStocks <=>
           /\ s \in watched /\ BeyondRange(day, s) # {} /\ first(s) > seen[s]
           /\ LET ratio == SlotRatio(VolumeArchive(s, day), day, first(s))
              IN  ratio # None /\ ratio >= Params.min_breakout_ratio
    BY <1>2, <1>4 DEF BacktestStocks, Tradeable, Watchable
  <2>10. \A s : s \in BrokenOut(history, plan, seen) <=>
           /\ s \in watched /\ t(s).breakout # None
           /\ t(s).breakout.label > seen[s] /\ Clears(history, s, t(s).breakout)
    BY <2>3 DEF BrokenOut
  <2> HIDE DEF watched, t, first
  <2>11. BrokenOut(history, plan, seen) = BacktestStocks
    <3>1. ASSUME NEW s \in watched
          PROVE  s \in BrokenOut(history, plan, seen) <=> s \in BacktestStocks
      <4>1. CASE BeyondRange(day, s) = {}
        BY <2>8, <2>9, <2>10, <3>1, <4>1
      <4>2. CASE BeyondRange(day, s) # {}
        BY <2>7, <2>9, <2>10, <3>1, <4>2
      <4> QED BY <4>1, <4>2
    <3> QED BY <2>9, <2>10, <3>1
  <2>12. ASSUME NEW s \in BacktestStocks
         PROVE  SignalOn(history, plan, s) = BacktestSignal(day, s)
    <3>1. s \in watched /\ BeyondRange(day, s) # {}
      BY <2>9
    <3>2. SectorsWith(day, s) # {}
      BY <3>1 DEF watched, Watchable
    <3>3. SectorFor(s, sel) = CHOOSE n \in SectorsWith(day, s) :
             \A m \in SectorsWith(day, s) : PlaceOn(day, n) <= PlaceOn(day, m)
      <4> HIDE DEF sel
      <4> QED BY <2>1, <3>2, SectorIsFirst
    <3>4. t(s).breakout = BreakoutAt(NewTracker(direction),
                                     LiveCandle(s, day, first(s)))
      BY <2>7, <3>1
    <3>5. AtrPct(DailyArchive(s, day), day) = LatestAtrPct(history.stock_daily[s])
      <4>1. s \in Fed /\ history.stock_daily[s] = DailyArchive(s, day - 1)
        BY <2>6, <3>1
      <4>2. AtrPct(DailyArchive(s, day), day) = LatestAtrPct(DailyArchive(s, day - 1))
        BY <4>1, DayLookups
      <4> QED BY <4>1, <4>2
    <3>6. SignalOn(history, plan, s) = SignalFor(s, direction, SectorFor(s, sel), t(s).breakout,
                                         LatestAtrPct(history.stock_daily[s]))
      <4> HIDE DEF direction, sel
      <4> QED BY <1>1, <2>2 DEF SignalOn, t
    <3> HIDE DEF sel
    <3>7. BacktestSignal(day, s) =
             SignalFor(s, direction,
                       CHOOSE n \in SectorsWith(day, s) :
                          \A m \in SectorsWith(day, s) : PlaceOn(day, n) <= PlaceOn(day, m),
                       BreakoutAt(NewTracker(direction), LiveCandle(s, day, first(s))),
                       AtrPct(DailyArchive(s, day), day))
      BY DEF BacktestSignal, first
    <3> HIDE DEF direction
    <3> QED BY <3>3, <3>4, <3>5, <3>6, <3>7
  <2> QED BY <2>11, <2>12 DEF SignalsOn
<1> HIDE DEF ok
<1> QED BY <1>3, <1>4

-----------------------------------------------------------------------------
(* The course of an undisturbed day.                                       *)

\* The plan of the day, begun once, that has missed nothing of it so far.
Quiet == currentDate = day /\ plansToday = 1 /\ ~gapToday

\* A plan that has its snapshots is resolved.
ReadyInv ==
    plan # None /\ ~plan.resolved => ~ReadyToResolve(history, plan.buffer)

\* Before the first plan of the day.
FreshInv ==
    plansToday = 0 =>
        /\ currentDate # day
        /\ \A x \in signals : x.day # day
        /\ gapToday \/ \A k \in Fed : next[k] = 1

\* The buffers are the bars so far, and the signals are the breakouts since
\* the plan resolved.
QuietInv ==
    Quiet =>
        /\ plan # None
        /\ \A k \in Fed : /\ Len(plan.buffer[k]) = next[k] - 1
                          /\ \A i \in 1 .. next[k] - 1 :
                                plan.buffer[k][i] = LiveCandle(k, day, i)
        /\ plan.resolved => \A k \in Fed : seen[k] \in 0 .. Len(plan.buffer[k])
        /\ TodaysSignals = SignalsOn(history, plan, seen)

\* feed_candle leaves no plan waiting that is ready.
LEMMA FeedResolves ==
    ASSUME NEW h, HistoryFits(h), NEW p, PlanFits(h, p),
           NEW k \in Fed, NEW c \in Candles,
           NEW q, q = FeedCandle(h, p, k, c), ~q.resolved
    PROVE  ~ReadyToResolve(h, q.buffer)
<1> DEFINE b == Fuller(p, k, c)
<1>1. /\ PlanFits(h, q) /\ q.buffer = Buffered(p.buffer, k, c)
      /\ p.resolved => Watches(p, q, k, c)
      /\ ~p.resolved => Gathers(h, p, q, k, c)
  BY FeedFits
<1>2. ~p.resolved
  BY <1>1 DEF Watches
<1>3. /\ b \in Plans({}) /\ ~b.gate_ok /\ b.buffer = q.buffer
  BY <1>1, <1>2 DEF Gathers
<1>4. p \in Plans(DOMAIN p.trackers) /\ k \in Keys
  BY EngineAssumption DEF PlanFits
<1>5. [p EXCEPT !.buffer[k] = Append(@, c)] = b
  BY <1>4 DEF Plans, Fuller, Buffered
<1>6. q = IF ReadyToResolve(h, b.buffer) THEN Resolve(h, b) ELSE b
  BY <1>2, <1>5 DEF FeedCandle
<1>7. /\ q.buffer \in [Keys -> Seq(Candles)]
      /\ \A j \in Keys : q.buffer[j] # <<>> => j \in Fed
  BY <1>1 DEF PlanFits, Plans
<1> HIDE DEF b
<1>8. ASSUME ReadyToResolve(h, q.buffer) PROVE FALSE
  <2>1. CanResolve(h, b.buffer)
    BY <1>3, <1>7, <1>8 DEF CanResolve
  <2>2. \A j \in Keys : b.buffer[j] # <<>> => j \in Fed
    BY <1>3, <1>7
  <2>3. Resolve(h, b).resolved
    BY <1>3, <2>1, <2>2, ResolveFits
  <2> QED BY <1>3, <1>6, <1>8, <2>3
<1> QED BY <1>8

\* Nor does a turn of the loop.
LEMMA TurnResolves ==
    ASSUME EngineInv, NEW k \in Fed, NEW c \in Candles, Turn(k, c)
    PROVE  ReadyInv'
<1> DEFINE today == Today(c)
<1>1. PlanFits(history, today) /\ plan' = FeedCandle(history, today, k, c)
  BY TurnFits
<1>2. HistoryFits(history) /\ history' = history
  BY HistoryIsTyped DEF Turn
<1> HIDE DEF today
<1>3. ~plan'.resolved => ~ReadyToResolve(history, plan'.buffer)
  BY <1>1, <1>2, FeedResolves
<1> QED BY <1>2, <1>3 DEF ReadyInv

\* So no step leaves a plan waiting that has its snapshots.
LEMMA ReadyNext == EngineInv /\ ReadyInv /\ [Next]_vars => ReadyInv'
<1> SUFFICES ASSUME EngineInv, ReadyInv, [Next]_vars PROVE ReadyInv'
  OBVIOUS
<1>1. ASSUME NEW k \in Fed, Candle(k)
      PROVE  ReadyInv'
  BY <1>1, CandleTurns, TurnResolves
<1>2. ASSUME NEW k \in Fed, StaleCandle(k)
      PROVE  ReadyInv'
  BY <1>2, StaleCandleTurns, TurnResolves
<1>3. CASE Restart
  BY <1>3 DEF Restart, ReadyInv
<1>4. ASSUME UNCHANGED process
      PROVE  ReadyInv'
  BY <1>4 DEF process, ReadyInv
<1>5. ASSUME NEW k \in Fed, Skip(k)
      PROVE  ReadyInv'
  BY <1>4, <1>5 DEF Skip
<1>6. CASE NextDay
  BY <1>4, <1>6 DEF NextDay
<1>7. CASE UNCHANGED vars
  BY <1>4, <1>7 DEF vars
<1> QED BY <1>1, <1>2, <1>3, <1>5, <1>6, <1>7 DEF Next, Finished

\* What a turn publishes carries the day of its candle.
LEMMA TurnStamps ==
    ASSUME EngineInv, NEW k \in Fed, NEW c \in Candles, Turn(k, c)
    PROVE  \A x \in signals' : x \in signals \/ x.day = c.day
<1>1. \/ signals' = signals
      \/ \E x : signals' = signals \cup {x} /\ IsSignalOf(x, Today(c), k, c)
  BY TurnFits
<1>2. CASE signals' = signals
  BY <1>2
<1>3. CASE signals' # signals
  <2>1. PICK x : signals' = signals \cup {x} /\ IsSignalOf(x, Today(c), k, c)
    BY <1>1, <1>3
  <2>2. x.day = c.day
    BY <2>1 DEF IsSignalOf
  <2> QED BY <2>1, <2>2
<1> QED BY <1>2, <1>3

\* Until the first plan of a day, nothing carries its date.
LEMMA FreshNext == EngineInv /\ FreshInv /\ [Next]_vars => FreshInv'
<1> SUFFICES ASSUME EngineInv, FreshInv, [Next]_vars, plansToday' = 0
             PROVE  /\ currentDate' # day'
                    /\ \A x \in signals' : x.day # day'
                    /\ gapToday' \/ \A k \in Fed : next'[k] = 1
  BY DEF FreshInv
<1>1. /\ day \in Nat /\ plansToday \in Nat /\ None \notin Int
      /\ currentDate \in {None} \cup 1 .. day
      /\ \A x \in signals : x.day \in 1 .. day
  <2>1. day \in Nat /\ plansToday \in Nat
    BY EngineAssumption DEF EngineInv, ExchangeInv, ProcessInv, Days
  <2> QED BY <2>1, ReferenceAssumption DEF EngineInv, ProcessInv
<1>2. ASSUME NEW k \in Fed, NEW c \in Candles, Turn(k, c)
      PROVE  plansToday = 0 /\ c.day = currentDate /\ currentDate' = c.day
  BY <1>1, <1>2 DEF Turn
<1>3. ASSUME NEW k \in Fed, Candle(k)
      PROVE  FALSE
  <2> DEFINE c == LiveCandle(k, day, next[k])
  <2>1. c \in Candles /\ c.day = day /\ Turn(k, c)
    BY <1>3, CandleTurns
  <2> HIDE DEF c
  <2> QED BY <1>2, <2>1 DEF FreshInv
<1>4. ASSUME NEW k \in Fed, StaleCandle(k)
      PROVE  /\ currentDate' # day'
             /\ \A x \in signals' : x.day # day'
             /\ gapToday' \/ \A j \in Fed : next'[j] = 1
  <2> DEFINE c == LiveCandle(k, day - 1, Len(Tapes[tape][day - 1][k]))
  <2>1. c \in Candles /\ c.day = day - 1 /\ Turn(k, c)
        /\ UNCHANGED <<tape, day, next, gaps>>
    BY <1>4, StaleCandleTurns
  <2> HIDE DEF c
  <2>2. plansToday = 0 /\ currentDate' = day - 1 /\ gapToday' = gapToday
    BY <1>2, <2>1 DEF Turn
  <2>3. \A x \in signals' : x \in signals \/ x.day = day - 1
    BY <2>1, TurnStamps
  <2>4. day - 1 # day
    BY <1>1
  <2> QED BY <2>1, <2>2, <2>3, <2>4 DEF FreshInv
<1>5. ASSUME NEW k \in Fed, Skip(k)
      PROVE  /\ currentDate' # day'
             /\ \A x \in signals' : x.day # day'
             /\ gapToday' \/ \A j \in Fed : next'[j] = 1
  BY <1>5 DEF Skip, process, FreshInv
<1>6. CASE Restart
  <2>1. currentDate' = None /\ None # day
    BY <1>1, <1>6 DEF Restart
  <2> QED BY <1>6, <2>1 DEF Restart, exchange, FreshInv
<1>7. CASE NextDay
  <2>1. /\ day' = day + 1 /\ next' = [k \in Fed |-> 1]
        /\ currentDate' = currentDate /\ signals' = signals
    BY <1>7 DEF NextDay, process
  <2>2. currentDate # day + 1 /\ \A x \in signals : x.day # day + 1
    <3>1. day + 1 \in Int /\ day + 1 \notin 1 .. day
      BY <1>1
    <3>2. currentDate # day + 1
      BY <1>1, <3>1
    <3> QED BY <1>1, <3>1, <3>2
  <2> QED BY <2>1, <2>2
<1>8. CASE UNCHANGED vars
  BY <1>8 DEF vars, exchange, process, ghosts, FreshInv
<1> QED BY <1>3, <1>4, <1>5, <1>6, <1>7, <1>8 DEF Next, Finished

\* The three invariants hold at the start.
LEMMA DayInit == Init => ReadyInv /\ FreshInv /\ QuietInv
<1> SUFFICES ASSUME Init PROVE ReadyInv /\ FreshInv /\ QuietInv
  OBVIOUS
<1>1. None \notin Int
  BY ReferenceAssumption
<1>2. currentDate # day
  BY <1>1 DEF Init
<1>3. FreshInv
  BY <1>2 DEF Init, FreshInv
<1>4. ReadyInv /\ QuietInv
  BY <1>2 DEF Init, ReadyInv, QuietInv, Quiet
<1> QED BY <1>3, <1>4

\* What a watching plan publishes of a candle.
Publishes(h, p, k, c) ==
    /\ k \in DOMAIN p.trackers
    /\ p.trackers[k].breakout = None
    /\ OnCandle(p.trackers[k], c).breakout # None
    /\ Clears(h, k, OnCandle(p.trackers[k], c).breakout)

\* It is the signal that the candle adds to those of its trackers.
LEMMA WatchingPublishes ==
    ASSUME NEW h, NEW p, PlanFits(h, p), NEW k \in Fed, NEW c \in Candles,
           NEW q, Watches(p, q, k, c), NEW since, c.label > since[k]
    PROVE  SignalsOn(h, q, since) =
              SignalsOn(h, p, since) \cup
                 (IF Publishes(h, p, k, c) THEN {SignalOn(h, q, k)} ELSE {})
<1> DEFINE before == BrokenOut(h, p, since)
           after == BrokenOut(h, q, since)
           adds == Publishes(h, p, k, c)
<1>1. /\ q.direction = p.direction /\ q.sectors = p.sectors
      /\ DOMAIN q.trackers = DOMAIN p.trackers
      /\ \A s \in DOMAIN p.trackers :
            q.trackers[s] = IF s = k THEN OnCandle(p.trackers[s], c)
                            ELSE p.trackers[s]
  BY DEF Watches
<1>2. \A s : s \in before <=>
         /\ s \in DOMAIN p.trackers /\ p.trackers[s].breakout # None
         /\ p.trackers[s].breakout.label > since[s]
         /\ Clears(h, s, p.trackers[s].breakout)
  BY DEF BrokenOut
<1>3. \A s : s \in after <=>
         /\ s \in DOMAIN p.trackers /\ q.trackers[s].breakout # None
         /\ q.trackers[s].breakout.label > since[s]
         /\ Clears(h, s, q.trackers[s].breakout)
  BY <1>1 DEF BrokenOut
<1>4. \A s \in DOMAIN p.trackers : q.trackers[s] = p.trackers[s] =>
         SignalOn(h, q, s) = SignalOn(h, p, s)
  BY <1>1 DEF SignalOn
<1>5. \A s \in DOMAIN p.trackers : p.trackers[s] \in Trackers
  BY DEF PlanFits, Plans
<1>6. ASSUME k \in DOMAIN p.trackers, p.trackers[k].breakout # None
      PROVE  ~adds /\ q.trackers[k] = p.trackers[k]
  <2>1. OnCandle(p.trackers[k], c) = p.trackers[k]
    BY <1>5, <1>6, BreakoutOfCandle
  <2> QED BY <1>1, <1>6, <2>1 DEF Publishes
<1>7. ASSUME k \in DOMAIN p.trackers, p.trackers[k].breakout = None
      PROVE  k \notin before /\ (k \in after <=> adds)
  <2>1. k \notin before
    BY <1>2, <1>7
  <2>2. q.trackers[k] = OnCandle(p.trackers[k], c)
    BY <1>1, <1>7
  <2>3. ASSUME OnCandle(p.trackers[k], c).breakout # None
        PROVE  q.trackers[k].breakout.label > since[k]
    <3>1. OnCandle(p.trackers[k], c).breakout = BreakoutAt(p.trackers[k], c)
      BY <1>5, <1>7, <2>3, BreakoutOfCandle
    <3>2. BreakoutAt(p.trackers[k], c).label = c.label
      BY DEF BreakoutAt
    <3> QED BY <2>2, <3>1, <3>2
  <2>4. k \in after <=> adds
    BY <1>3, <1>7, <2>2, <2>3 DEF Publishes
  <2> QED BY <2>1, <2>4
<1>8. k \notin DOMAIN p.trackers => ~adds /\ k \notin before /\ k \notin after
  BY <1>2, <1>3 DEF Publishes
<1>9. \A s : s # k => (s \in before <=> s \in after)
  <2> TAKE s
  <2>1. CASE s \in DOMAIN p.trackers /\ s # k
    <3>1. q.trackers[s] = p.trackers[s]
      BY <1>1, <2>1
    <3> QED BY <1>2, <1>3, <3>1
  <2>2. CASE s \notin DOMAIN p.trackers
    BY <1>2, <1>3, <2>2
  <2> QED BY <2>1, <2>2
<1> HIDE DEF before, after, adds
<1>10. ASSUME NEW s \in after, s # k \/ ~adds
       PROVE  s \in before /\ SignalOn(h, q, s) = SignalOn(h, p, s)
  <2>1. s \in DOMAIN p.trackers
    BY <1>3
  <2>2. CASE s # k
    <3>1. q.trackers[s] = p.trackers[s] /\ s \in before
      BY <1>1, <1>9, <2>1, <2>2
    <3> QED BY <1>4, <2>1, <3>1
  <2>3. CASE s = k
    <3>1. p.trackers[k].breakout # None
      BY <1>7, <1>10, <2>1, <2>3
    <3>2. q.trackers[k] = p.trackers[k]
      BY <1>6, <2>1, <2>3, <3>1
    <3>3. s \in before
      BY <1>2, <1>3, <2>3, <3>2
    <3> QED BY <1>4, <2>1, <2>3, <3>2, <3>3
  <2> QED BY <2>2, <2>3
<1>11. ASSUME NEW s \in before
       PROVE  s \in after /\ SignalOn(h, q, s) = SignalOn(h, p, s)
  <2>1. s \in DOMAIN p.trackers /\ p.trackers[s].breakout # None
    BY <1>2
  <2>2. q.trackers[s] = p.trackers[s]
    <3>1. CASE s = k
      BY <1>6, <2>1, <3>1
    <3>2. CASE s # k
      BY <1>1, <2>1, <3>2
    <3> QED BY <3>1, <3>2
  <2>3. s \in after
    BY <1>2, <1>3, <2>2
  <2> QED BY <1>4, <2>1, <2>2, <2>3
<1>12. adds => k \in after
  BY <1>6, <1>7, <1>8
<1>13. {SignalOn(h, q, s) : s \in after} =
          {SignalOn(h, p, s) : s \in before} \cup
             (IF adds THEN {SignalOn(h, q, k)} ELSE {})
  <2>1. ASSUME NEW x \in {SignalOn(h, q, s) : s \in after}
        PROVE  x \in {SignalOn(h, p, s) : s \in before} \cup
                        (IF adds THEN {SignalOn(h, q, k)} ELSE {})
    <3>1. PICK s \in after : x = SignalOn(h, q, s)
      BY <2>1
    <3>2. CASE s # k \/ ~adds
      BY <1>10, <3>1, <3>2
    <3>3. CASE s = k /\ adds
      BY <3>1, <3>3
    <3> QED BY <3>2, <3>3
  <2>2. ASSUME NEW x \in {SignalOn(h, p, s) : s \in before}
        PROVE  x \in {SignalOn(h, q, s) : s \in after}
    <3>1. PICK s \in before : x = SignalOn(h, p, s)
      BY <2>2
    <3> QED BY <1>11, <3>1
  <2>3. adds => SignalOn(h, q, k) \in {SignalOn(h, q, s) : s \in after}
    BY <1>12
  <2> QED BY <2>1, <2>2, <2>3
<1> QED BY <1>13 DEF SignalsOn, before, after, adds

\* The buffer holds the bars so far.
Holds(buffer, upTo) ==
    \A k \in Fed : /\ Len(buffer[k]) = upTo[k] - 1
                   /\ \A i \in 1 .. upTo[k] - 1 : buffer[k][i] = LiveCandle(k, day, i)

\* One candle more, the next of its key.
LEMMA HoldsOneMore ==
    ASSUME NEW buffer \in [Keys -> Seq(Candles)], NEW k \in Fed,
           NEW upTo \in [Fed -> Nat], Holds(buffer, upTo),
           upTo[k] >= 1, LiveCandle(k, day, upTo[k]) \in Candles
    PROVE  Holds(Buffered(buffer, k, LiveCandle(k, day, upTo[k])),
                 [upTo EXCEPT ![k] = @ + 1])
<1> DEFINE c == LiveCandle(k, day, upTo[k])
           later == Buffered(buffer, k, c)
           more == [upTo EXCEPT ![k] = @ + 1]
<1> SUFFICES ASSUME NEW j \in Fed
             PROVE  /\ Len(later[j]) = more[j] - 1
                    /\ \A i \in 1 .. more[j] - 1 : later[j][i] = LiveCandle(j, day, i)
  BY DEF Holds
<1>1. j \in Keys /\ buffer[j] \in Seq(Candles)
  BY EngineAssumption
<1>2. /\ Len(buffer[j]) = upTo[j] - 1
      /\ \A i \in 1 .. upTo[j] - 1 : buffer[j][i] = LiveCandle(j, day, i)
  BY DEF Holds
<1>3. c \in Candles
  OBVIOUS
<1>4. c = LiveCandle(k, day, upTo[k])
  OBVIOUS
<1> HIDE DEF c
<1>5. later[j] = IF j = k THEN Append(buffer[j], c) ELSE buffer[j]
  BY <1>1, <1>3, BufferedType
<1> HIDE DEF later
<1>6. CASE j # k
  BY <1>2, <1>5, <1>6
<1>7. CASE j = k
  <2> DEFINE n == upTo[k]
  <2>1. n \in Nat /\ n >= 1 /\ more[k] = n + 1 /\ more[k] - 1 = n
    OBVIOUS
  <2>2. /\ Len(Append(buffer[k], c)) = Len(buffer[k]) + 1
        /\ \A i \in 1 .. Len(buffer[k]) : Append(buffer[k], c)[i] = buffer[k][i]
        /\ Append(buffer[k], c)[Len(buffer[k]) + 1] = c
    BY <1>1, <1>3, <1>7, AppendProperties
  <2>3. Len(buffer[k]) = n - 1
    BY <1>2, <1>7
  <2>4. c = LiveCandle(k, day, n)
    BY <1>4
  <2> HIDE DEF n, more
  <2>5. (n - 1) + 1 = n
    BY <2>1
  <2>6. Append(buffer[k], c)[n] = LiveCandle(k, day, n)
    BY <2>2, <2>3, <2>4, <2>5
  <2>7. \A i \in 1 .. n - 1 : Append(buffer[k], c)[i] = LiveCandle(k, day, i)
    <3> TAKE i \in 1 .. n - 1
    <3>1. i \in 1 .. Len(buffer[k])
      BY <2>3
    <3>2. buffer[k][i] = LiveCandle(k, day, i)
      BY <1>2, <1>7 DEF n
    <3> QED BY <2>2, <3>1, <3>2
  <2>8. \A i \in 1 .. n : Append(buffer[k], c)[i] = LiveCandle(k, day, i)
    <3> TAKE i \in 1 .. n
    <3>1. i = n \/ i \in 1 .. n - 1
      BY <2>1
    <3> QED BY <2>6, <2>7, <3>1
  <2>9. Len(Append(buffer[k], c)) = n
    BY <2>1, <2>2, <2>3
  <2> QED BY <1>5, <1>7, <2>1, <2>8, <2>9
<1> QED BY <1>6, <1>7

\* What QuietInv says of a day, with its parts named.
SoFar(p, upTo, since, published) ==
    /\ p # None
    /\ Holds(p.buffer, upTo)
    /\ p.resolved => \A k \in Fed : since[k] \in 0 .. Len(p.buffer[k])
    /\ published = SignalsOn(history, p, since)

\* And that it is what QuietInv says.
LEMMA QuietIsSoFar ==
    QuietInv <=> (Quiet => SoFar(plan, next, seen, TodaysSignals))
  BY DEF QuietInv, SoFar, Holds

\* A plan that waits watches no stock and publishes nothing.
LEMMA WaitingIsSilent ==
    ASSUME NEW h, NEW p, DOMAIN p.trackers = {}, NEW since
    PROVE  SignalsOn(h, p, since) = {}
  BY DEF SignalsOn, BrokenOut

\* Neither does one that has just resolved: its breakouts are old.
LEMMA BackfillIsSilent ==
    ASSUME NEW h, NEW p, PlanFits(h, p), NEW upTo, Holds(p.buffer, upTo),
           UtcShift = 0, tape \in DOMAIN Tapes, day \in Days,
           \A k \in Fed : upTo[k] \in Nat /\ upTo[k] - 1 <= Bars(k),
           NEW since, \A k \in Fed : since[k] = Len(p.buffer[k])
    PROVE  SignalsOn(h, p, since) = {}
<1>1. ASSUME NEW s \in BrokenOut(h, p, since)
      PROVE  FALSE
  <2>1. /\ s \in DOMAIN p.trackers /\ p.trackers[s].breakout # None
        /\ p.trackers[s].breakout.label > since[s]
    BY DEF BrokenOut
  <2>2. /\ p.trackers[s] = Tracked(p.direction, p.buffer[s])
        /\ p.direction \in Sides
        /\ s \in Keys
    BY <2>1, EngineAssumption DEF PlanFits, Keys
  <2>3. p.buffer[s] \in Seq(Candles)
    BY <2>2 DEF PlanFits, Plans
  <2> DEFINE b == p.trackers[s].breakout
  <2>4. PICK i \in 1 .. Len(p.buffer[s]) : SameStamp(b, p.buffer[s][i])
    BY <2>1, <2>2, <2>3, TrackedType
  <2>5. p.buffer[s] # <<>>
    BY <2>3, <2>4, EmptySeq
  <2>6. s \in Fed
    BY <2>2, <2>5 DEF PlanFits
  <2>7. Len(p.buffer[s]) = upTo[s] - 1 /\ p.buffer[s][i] = LiveCandle(s, day, i)
    BY <2>4, <2>6 DEF Holds
  <2>8. i \in 1 .. Len(Tapes[tape][day][s])
    <3>1. Bars(s) \in Nat /\ Bars(s) = Len(Tapes[tape][day][s])
      BY <2>6, TapeType DEF Bars
    <3> QED BY <2>4, <2>6, <2>7, <3>1
  <2>9. p.buffer[s][i].label = i - UtcShift /\ i - UtcShift = i
    <3>1. LiveCandle(s, day, i).label = i - UtcShift
      BY <2>6, <2>8, LiveCandleType
    <3>2. i - UtcShift = i
      BY <2>8
    <3> QED BY <2>7, <3>1, <3>2
  <2>10. b.label = i
    BY <2>4, <2>9 DEF SameStamp
  <2> HIDE DEF b
  <2>11. i > since[s] /\ since[s] = Len(p.buffer[s])
    BY <2>1, <2>6, <2>10 DEF b
  <2>12. Len(p.buffer[s]) \in Nat
    BY <2>3, LenProperties
  <2> QED BY <2>4, <2>11, <2>12
<1> QED BY <1>1 DEF SignalsOn

\* What the main loop publishes, by the plan that the candle leaves.
LEMMA TurnPublishes ==
    ASSUME EngineInv, NEW k \in Fed, NEW c \in Candles, Turn(k, c),
           c.day = currentDate
    PROVE  /\ ~plan.resolved => signals' = signals
           /\ plan.resolved => /\ Watches(plan, plan', k, c)
                               /\ signals' = signals \cup
                                    (IF Publishes(history, plan, k, c)
                                     THEN {SignalOn(history, plan', k)} ELSE {})
                               /\ Publishes(history, plan, k, c) =>
                                     SignalOn(history, plan', k).day = c.day
<1>1. Today(c) = plan
  BY DEF Today
<1>2. PlanFits(history, plan) /\ Advances(history, plan, plan', k, c)
  BY <1>1, TurnFits
<1> DEFINE breakout == BreakoutIn(plan, k, c)
<1>3. signals' = IF breakout # None /\ ClearsVolume(k, breakout)
                 THEN signals \cup
                        {SignalFor(k, plan'.direction, SectorFor(k, plan'.sectors),
                                   breakout, LatestAtrPct(history.stock_daily[k]))}
                 ELSE signals
  BY DEF Turn
<1>4. ~plan.resolved => signals' = signals
  BY <1>3 DEF BreakoutIn
<1>5. ASSUME plan.resolved
      PROVE  /\ Watches(plan, plan', k, c)
             /\ signals' = signals \cup
                  (IF Publishes(history, plan, k, c)
                   THEN {SignalOn(history, plan', k)} ELSE {})
             /\ Publishes(history, plan, k, c) =>
                   SignalOn(history, plan', k).day = c.day
  <2>1. Watches(plan, plan', k, c)
    BY <1>2, <1>5 DEF Advances
  <2>2. breakout # None /\ ClearsVolume(k, breakout) <=> Publishes(history, plan, k, c)
    <3>1. breakout = IF k \in DOMAIN plan.trackers
                     THEN IF plan.trackers[k].breakout = None
                          THEN OnCandle(plan.trackers[k], c).breakout
                          ELSE None
                     ELSE None
      BY <1>5 DEF BreakoutIn
    <3>2. ClearsVolume(k, breakout) <=> Clears(history, k, breakout)
      BY DEF ClearsVolume, Clears
    <3> HIDE DEF breakout
    <3> QED BY <3>1, <3>2 DEF Publishes
  <2>3. ASSUME Publishes(history, plan, k, c)
        PROVE  /\ SignalFor(k, plan'.direction, SectorFor(k, plan'.sectors),
                            breakout, LatestAtrPct(history.stock_daily[k]))
                     = SignalOn(history, plan', k)
               /\ SignalOn(history, plan', k).day = c.day
    <3>1. /\ k \in DOMAIN plan.trackers /\ plan.trackers[k].breakout = None
          /\ OnCandle(plan.trackers[k], c).breakout # None
      BY <2>3 DEF Publishes
    <3>2. breakout = OnCandle(plan.trackers[k], c).breakout
      BY <1>5, <3>1 DEF BreakoutIn
    <3>3. plan'.trackers[k] = OnCandle(plan.trackers[k], c)
      BY <2>1, <3>1 DEF Watches
    <3>4. plan.trackers[k] \in Trackers
      BY <1>2, <3>1 DEF PlanFits, Plans
    <3>5. breakout = BreakoutAt(plan.trackers[k], c)
      BY <3>1, <3>2, <3>4, BreakoutOfCandle
    <3>6. breakout.day = c.day
      BY <3>5 DEF BreakoutAt
    <3> HIDE DEF breakout
    <3>7. breakout = plan'.trackers[k].breakout
      BY <3>2, <3>3
    <3>8. SignalOn(history, plan', k)
             = SignalFor(k, plan'.direction, SectorFor(k, plan'.sectors),
                         breakout, LatestAtrPct(history.stock_daily[k]))
      BY <3>7 DEF SignalOn
    <3>9. SignalOn(history, plan', k).day = c.day
      BY <3>6, <3>8 DEF SignalFor
    <3> QED BY <3>8, <3>9
  <2> HIDE DEF breakout
  <2>4. signals' = signals \cup (IF Publishes(history, plan, k, c)
                                 THEN {SignalOn(history, plan', k)} ELSE {})
    <3>1. CASE Publishes(history, plan, k, c)
      BY <1>3, <2>2, <2>3, <3>1
    <3>2. CASE ~Publishes(history, plan, k, c)
      BY <1>3, <2>2, <3>2
    <3> QED BY <3>1, <3>2
  <2> QED BY <2>1, <2>3, <2>4
<1> QED BY <1>4, <1>5

\* A candle of the day keeps the buffers complete and the signals those of the
\* trackers that broke out since the resolution.
LEMMA CandleKeepsQuiet ==
    ASSUME EngineInv, EngineInv', FreshInv, QuietInv, UtcShift = 0,
           NEW k \in Fed, Candle(k)
    PROVE  QuietInv'
<1> DEFINE c == LiveCandle(k, day, next[k])
           today == Today(c)
<1>1. /\ next[k] \in 1 .. Bars(k)
      /\ c \in Candles /\ c.day = day /\ c.label = next[k] - UtcShift
      /\ Turn(k, c) /\ tape' = tape /\ day' = day
      /\ next' = [next EXCEPT ![k] = @ + 1]
  BY CandleTurns
<1>2. /\ tape \in DOMAIN Tapes /\ day \in Days /\ next \in [Fed -> Nat]
      /\ \A j \in Fed : next[j] - 1 <= Bars(j) /\ next'[j] \in Nat
                        /\ next'[j] - 1 <= Bars(j) /\ Bars(j) \in Nat
  <2>1. tape \in DOMAIN Tapes /\ day \in Days /\ next \in [Fed -> Nat]
        /\ \A j \in Fed : next[j] <= Bars(j) + 1
    BY DEF EngineInv, ExchangeInv
  <2>2. \A j \in Fed : Bars(j)' = Bars(j) /\ Bars(j) \in Nat
    BY <1>1, <2>1, TapeType DEF Bars
  <2>3. next' \in [Fed -> Nat] /\ \A j \in Fed : next'[j] <= Bars(j)' + 1
    BY DEF EngineInv, ExchangeInv
  <2> QED BY <2>1, <2>2, <2>3
<1>3. c.label = next[k]
  <2>1. next[k] - 0 = next[k]
    BY <1>2
  <2> QED BY <1>1, <2>1
<1> HIDE DEF c
<1>4. /\ PlanFits(history, today) /\ PlanFits(history, plan') /\ plan' # None
      /\ currentDate' = day
      /\ Advances(history, today, plan', k, c)
      /\ \/ signals' = signals
         \/ \E x : signals' = signals \cup {x} /\ IsSignalOf(x, today, k, c)
  BY <1>1, TurnFits
<1>5. /\ HistoryFits(history) /\ history' = history /\ gapToday' = gapToday
      /\ plansToday' = IF day # currentDate THEN plansToday + 1 ELSE plansToday
      /\ seen' = IF plan'.resolved /\ ~today.resolved
                 THEN [s \in Fed |-> Len(plan'.buffer[s])] ELSE seen
  BY <1>1, HistoryIsTyped DEF Turn, Today
<1>6. /\ today = IF day # currentDate THEN NewDayPlan ELSE plan
      /\ ~NewDayPlan.resolved
  BY <1>1 DEF Today, NewDayPlan
<1> HIDE DEF today
<1>7. SUFFICES ASSUME Quiet'
               PROVE  /\ Holds(plan'.buffer, next')
                      /\ plan'.resolved =>
                            \A j \in Fed : seen'[j] \in 0 .. Len(plan'.buffer[j])
                      /\ TodaysSignals' = SignalsOn(history, plan', seen')
  <2>1. \A j, i : LiveCandle(j, day, i)' = LiveCandle(j, day, i)
    BY <1>1 DEF LiveCandle
  <2> QED BY <1>1, <1>4, <1>5, <2>1 DEF QuietInv, Holds
<1>8. /\ plansToday' = 1 /\ ~gapToday /\ plansToday \in Nat
  BY <1>5, <1>7 DEF Quiet, EngineInv, ProcessInv
<1>9. CASE day # currentDate
  <2>1. plansToday = 0 /\ today = NewDayPlan
    BY <1>5, <1>6, <1>8, <1>9
  <2>2. /\ \A x \in signals : x.day # day
        /\ \A j \in Fed : next[j] = 1
    BY <1>8, <2>1 DEF FreshInv
  <2>3. ~plan'.resolved /\ DOMAIN plan'.trackers = {}
    BY <1>1, <1>4, <1>5, <2>1, FirstCandleGathers
  <2>4. signals' = signals
    BY <1>4, <1>6, <2>1 DEF IsSignalOf
  <2>5. TodaysSignals' = {}
    BY <1>1, <2>2, <2>4 DEF TodaysSignals
  <2>6. SignalsOn(history, plan', seen') = {}
    BY <2>3, WaitingIsSilent
  <2>7. Holds(plan'.buffer, next')
    <3> DEFINE buffer == NewDayPlan.buffer
    <3>1. buffer \in [Keys -> Seq(Candles)]
      BY <1>4, <2>1 DEF PlanFits, Plans
    <3>2. plan'.buffer = Buffered(buffer, k, c)
      BY <1>4, <2>1 DEF Advances
    <3>3. \A j \in Fed : buffer[j] = <<>>
      BY EngineAssumption DEF NewDayPlan
    <3> HIDE DEF buffer
    <3>4. Len(<<>>) = 0
      BY EmptySeq
    <3>5. Holds(buffer, next)
      BY <2>2, <3>3, <3>4 DEF Holds
    <3>6. Holds(Buffered(buffer, k, c), [next EXCEPT ![k] = @ + 1])
      <4>1. /\ next \in [Fed -> Nat] /\ next[k] >= 1 /\ c \in Candles
            /\ c = LiveCandle(k, day, next[k])
        BY <1>1, <1>2 DEF c
      <4>2. LiveCandle(k, day, next[k]) \in Candles
        BY <4>1
      <4>3. Holds(Buffered(buffer, k, LiveCandle(k, day, next[k])),
                  [next EXCEPT ![k] = @ + 1])
        BY <3>1, <3>5, <4>1, <4>2, HoldsOneMore
      <4> QED BY <4>1, <4>3
    <3> QED BY <1>1, <3>2, <3>6
  <2> QED BY <2>3, <2>5, <2>6, <2>7
<1>10. CASE day = currentDate
  <2>1. plansToday = 1 /\ today = plan /\ c.day = currentDate
    BY <1>1, <1>5, <1>6, <1>8, <1>10
  <2>2. /\ plan # None /\ Holds(plan.buffer, next)
        /\ plan.resolved => \A j \in Fed : seen[j] \in 0 .. Len(plan.buffer[j])
        /\ TodaysSignals = SignalsOn(history, plan, seen)
    BY <1>8, <1>10, <2>1, QuietIsSoFar DEF Quiet, SoFar
  <2>3. /\ plan.buffer \in [Keys -> Seq(Candles)]
        /\ plan'.buffer \in [Keys -> Seq(Candles)]
        /\ plan'.buffer = Buffered(plan.buffer, k, c)
    BY <1>4, <2>1 DEF PlanFits, Plans, Advances
  <2>4. Holds(plan'.buffer, next')
    <3> DEFINE buffer == plan.buffer
    <3>1. buffer \in [Keys -> Seq(Candles)] /\ Holds(buffer, next)
      BY <2>2, <2>3
    <3>2. plan'.buffer = Buffered(buffer, k, c)
      BY <2>3
    <3> HIDE DEF buffer
    <3>3. Holds(Buffered(buffer, k, c), [next EXCEPT ![k] = @ + 1])
      <4>1. /\ next \in [Fed -> Nat] /\ next[k] >= 1 /\ c \in Candles
            /\ c = LiveCandle(k, day, next[k])
        BY <1>1, <1>2 DEF c
      <4>2. LiveCandle(k, day, next[k]) \in Candles
        BY <4>1
      <4>3. Holds(Buffered(buffer, k, LiveCandle(k, day, next[k])),
                  [next EXCEPT ![k] = @ + 1])
        BY <3>1, <4>1, <4>2, HoldsOneMore
      <4> QED BY <4>1, <4>3
    <3> QED BY <1>1, <3>2, <3>3
  <2>5. \A j \in Fed : /\ j \in Keys /\ Len(plan.buffer[j]) \in Nat
                       /\ Len(plan'.buffer[j]) \in Nat
                       /\ Len(plan.buffer[j]) <= Len(plan'.buffer[j])
    <3> TAKE j \in Fed
    <3>1. j \in Keys
      BY EngineAssumption
    <3>2. Len(plan.buffer[j]) \in Nat /\ Len(plan'.buffer[j]) \in Nat
      BY <2>3, <3>1, LenProperties
    <3>3. Len(plan.buffer[j]) <= Len(plan'.buffer[j])
      <4> DEFINE buffer == plan.buffer
                 later == Buffered(buffer, k, c)
      <4>1. buffer \in [Keys -> Seq(Candles)] /\ plan'.buffer = later
        BY <2>3
      <4> HIDE DEF buffer
      <4>2. \A i \in Keys : Len(buffer[i]) <= Len(later[i])
        BY <1>1, <4>1, BufferedType
      <4> HIDE DEF later
      <4> QED BY <3>1, <4>1, <4>2 DEF buffer
    <3> QED BY <3>1, <3>2, <3>3
  <2>6. CASE ~plan.resolved
    <3>1. signals' = signals
      BY <1>1, <2>1, <2>6, TurnPublishes
    <3>2. DOMAIN plan.trackers = {}
      BY <1>4, <2>1, <2>6 DEF PlanFits
    <3>3. TodaysSignals = {}
      BY <2>2, <3>2, WaitingIsSilent
    <3>4. TodaysSignals' = {}
      BY <1>1, <3>1, <3>3 DEF TodaysSignals
    <3>5. CASE ~plan'.resolved
      <4>1. DOMAIN plan'.trackers = {}
        BY <1>4, <3>5 DEF PlanFits
      <4>2. SignalsOn(history, plan', seen') = {}
        BY <4>1, WaitingIsSilent
      <4> QED BY <2>4, <3>4, <3>5, <4>2
    <3>6. CASE plan'.resolved
      <4>1. \A j \in Fed : seen'[j] = Len(plan'.buffer[j])
        BY <1>5, <2>1, <2>6, <3>6
      <4>2. SignalsOn(history, plan', seen') = {}
        BY <1>2, <1>4, <2>4, <4>1, BackfillIsSilent
      <4>3. \A j \in Fed : seen'[j] \in 0 .. Len(plan'.buffer[j])
        BY <2>5, <4>1
      <4> QED BY <2>4, <3>4, <4>2, <4>3
    <3> QED BY <3>5, <3>6
  <2>7. CASE plan.resolved
    <3> DEFINE X == IF Publishes(history, plan, k, c)
                    THEN {SignalOn(history, plan', k)} ELSE {}
    <3>1. /\ Watches(plan, plan', k, c) /\ signals' = signals \cup X
          /\ Publishes(history, plan, k, c) => SignalOn(history, plan', k).day = c.day
      BY <1>1, <2>1, <2>7, TurnPublishes
    <3>2. \A x \in X : x.day = day
      BY <1>1, <3>1
    <3>3. seen' = seen
      BY <1>5, <2>1, <2>7
    <3>4. \A j \in Fed : seen[j] \in 0 .. Len(plan.buffer[j])
      BY <2>2, <2>7
    <3>5. c.label > seen[k]
      <4>1. Len(plan.buffer[k]) = next[k] - 1
        BY <2>2 DEF Holds
      <4> QED BY <1>2, <1>3, <3>4, <4>1
    <3>6. SignalsOn(history, plan', seen) = SignalsOn(history, plan, seen) \cup X
      BY <1>1, <1>4, <2>1, <3>1, <3>5, WatchingPublishes
    <3> HIDE DEF X
    <3>7. TodaysSignals' = TodaysSignals \cup X
      BY <1>1, <3>1, <3>2 DEF TodaysSignals
    <3>8. TodaysSignals' = SignalsOn(history, plan', seen')
      BY <2>2, <3>3, <3>6, <3>7
    <3>9. \A j \in Fed : seen'[j] \in 0 .. Len(plan'.buffer[j])
      BY <2>5, <3>3, <3>4
    <3> QED BY <2>4, <3>8, <3>9
  <2> QED BY <2>6, <2>7
<1> QED BY <1>9, <1>10

\* Nothing else disturbs a day without being noticed.
LEMMA QuietNext ==
    ASSUME UtcShift = 0
    PROVE  EngineInv /\ EngineInv' /\ FreshInv /\ QuietInv /\ [Next]_vars => QuietInv'
<1> SUFFICES ASSUME EngineInv, EngineInv', FreshInv, QuietInv, [Next]_vars
             PROVE  QuietInv'
  OBVIOUS
<1>1. day \in Nat /\ None \notin Int
  BY EngineAssumption, ReferenceAssumption DEF EngineInv, ExchangeInv, Days
<1>2. ASSUME NEW k \in Fed, Candle(k)
      PROVE  QuietInv'
  BY <1>2, CandleKeepsQuiet
<1>3. ASSUME NEW k \in Fed, StaleCandle(k)
      PROVE  ~Quiet'
  <2> DEFINE c == LiveCandle(k, day - 1, Len(Tapes[tape][day - 1][k]))
  <2>1. c.day = day - 1 /\ Turn(k, c) /\ day' = day
    BY <1>3, StaleCandleTurns
  <2> HIDE DEF c
  <2>2. currentDate' = day - 1 /\ day - 1 # day
    BY <1>1, <2>1 DEF Turn
  <2> QED BY <2>1, <2>2 DEF Quiet
<1>4. ASSUME NEW k \in Fed, Skip(k)
      PROVE  ~Quiet'
  BY <1>4 DEF Skip, Quiet
<1>5. CASE Restart
  <2>1. currentDate' = None /\ day' = day /\ None # day
    BY <1>1, <1>5 DEF Restart, exchange
  <2>2. ~Quiet'
    BY <2>1 DEF Quiet
  <2> QED BY <2>2 DEF QuietInv
<1>6. CASE NextDay
  <2>1. ~Quiet'
    BY <1>6 DEF NextDay, Quiet
  <2> QED BY <2>1 DEF QuietInv
<1>7. CASE UNCHANGED vars
  <2>1. UNCHANGED <<tape, day, next, history, plan, currentDate, signals, plansToday,
                    gapToday, seen>>
    BY <1>7 DEF vars, exchange, process, ghosts
  <2>2. \A k, i : LiveCandle(k, day, i)' = LiveCandle(k, day, i)
    BY <2>1 DEF LiveCandle
  <2>3. TodaysSignals' = TodaysSignals
    BY <2>1 DEF TodaysSignals
  <2> QED BY <2>1, <2>2, <2>3 DEF QuietInv, Quiet
<1>8. ~Quiet' => QuietInv'
  BY DEF QuietInv
<1> QED BY <1>2, <1>3, <1>4, <1>5, <1>6, <1>7, <1>8 DEF Next, Finished

\* At the end of an undisturbed day, what the plan has is the whole of it.
LEMMA UndisturbedSawDay ==
    ASSUME UtcShift = 0, CacheHoldsPast, VIX \notin LIQUID_UNIVERSE,
           EngineInv, QuietInv, UndisturbedDay
    PROVE  /\ plan # None /\ PlanFits(history, plan)
           /\ SawDay(history, plan.buffer, day)
           /\ TodaysSignals = SignalsOn(history, plan, seen)
<1>1. /\ tape \in DOMAIN Tapes /\ day \in Days
      /\ \A k \in Fed : next[k] \in Nat /\ 1 <= next[k] /\ next[k] <= Bars(k) + 1
  BY DEF EngineInv, ExchangeInv
<1>2. Quiet
  BY DEF UndisturbedDay, Quiet
<1>3. /\ plan # None /\ Holds(plan.buffer, next)
      /\ TodaysSignals = SignalsOn(history, plan, seen)
  BY <1>2, QuietIsSoFar DEF SoFar
<1>4. PlanFits(history, plan)
  BY <1>3 DEF EngineInv, ProcessInv
<1>5. plan.buffer \in [Keys -> Seq(Candles)]
  BY <1>4 DEF PlanFits, Plans
<1>6. HistoryFits(history) /\ IsArchive(history, day)
  <2>1. history = Histories[tape][day]
    BY DEF EngineInv, ProcessInv, UndisturbedDay
  <2>2. IsArchive(Histories[tape][day], day)
    BY <1>1, HistoryIsArchive
  <2> QED BY <2>1, <2>2, HistoryIsTyped
<1>7. ASSUME NEW k \in Fed
      PROVE  plan.buffer[k] = MinuteRows(Tapes[tape], k, day)
  <2> DEFINE rows == MinuteRows(Tapes[tape], k, day)
             held_ == plan.buffer[k]
             n == Len(Tapes[tape][day][k])
  <2>1. /\ n \in Nat \ {0} /\ rows \in Seq(Candles) /\ Len(rows) = n
        /\ \A i \in 1 .. n : rows[i] = Row(Tapes[tape][day][k][i], day, i)
    BY <1>1, MinuteRowsAre
  <2>2. Bars(k) = n
    BY DEF Bars
  <2>3. next[k] = n + 1
    <3>1. next[k] > Bars(k)
      BY DEF UndisturbedDay, DayOver
    <3> HIDE DEF n
    <3> QED BY <1>1, <2>1, <2>2, <3>1
  <2>4. k \in Keys /\ held_ \in Seq(Candles)
    BY <1>5, EngineAssumption
  <2>5. /\ Len(held_) = next[k] - 1
        /\ \A i \in 1 .. next[k] - 1 : held_[i] = LiveCandle(k, day, i)
    BY <1>3 DEF Holds
  <2>6. \A i \in 1 .. n : LiveCandle(k, day, i) = Row(Tapes[tape][day][k][i], day, i)
    <3> TAKE i \in 1 .. n
    <3>1. i - UtcShift = i
      <4>1. i \in Int
        OBVIOUS
      <4> QED BY <4>1
    <3> QED BY <3>1 DEF LiveCandle
  <2> HIDE DEF n, held_, rows
  <2>7. (n + 1) - 1 = n
    BY <2>1
  <2>8. Len(held_) = n /\ \A i \in 1 .. n : held_[i] = rows[i]
    BY <2>1, <2>3, <2>5, <2>6, <2>7
  <2>9. held_ = rows
    BY <2>1, <2>4, <2>8, SeqEqual
  <2> QED BY <2>9 DEF held_, rows
<1> QED BY <1>3, <1>4, <1>5, <1>6, <1>7 DEF SawDay

\* The day's signals are then those of the backtest.
LEMMA DayMatches ==
    ASSUME UtcShift = 0, CacheHoldsPast, SnapshotsComplete, SectorsDiffer,
           VIX \notin LIQUID_UNIVERSE,
           EngineInv, DecisionInv, ReadyInv, QuietInv
    PROVE  SignalsMatchBacktest
<1> SUFFICES ASSUME UndisturbedDay
             PROVE  TodaysSignals = {BacktestSignal(day, s) : s \in BacktestStocks}
  BY DEF SignalsMatchBacktest, BacktestStocks
<1>1. tape \in DOMAIN Tapes /\ day \in Days
  BY DEF EngineInv, ExchangeInv
<1>2. /\ plan # None /\ PlanFits(history, plan)
      /\ SawDay(history, plan.buffer, day)
      /\ TodaysSignals = SignalsOn(history, plan, seen)
  BY UndisturbedSawDay
<1>3. Decides(history, plan)
  <2> DEFINE buffer == plan.buffer
  <2>1. SawDay(history, buffer, day)
    BY <1>2
  <2> HIDE DEF buffer
  <2>2. CanResolve(history, buffer)
    BY <1>1, <2>1, DayCanResolve
  <2>3. ReadyToResolve(history, plan.buffer)
    BY <2>2 DEF CanResolve, buffer
  <2>4. plan.resolved
    BY <1>2, <2>3 DEF ReadyInv
  <2> QED BY <1>2, <2>4 DEF DecisionInv, IsDecided
<1>4. SignalsOn(history, plan, seen)
         = {BacktestSignal(day, s) : s \in BacktestStocks}
  BY <1>1, <1>2, <1>3, BreakoutsOfTheDay
<1> QED BY <1>2, <1>4

(* live_reference.py:12: "calling the live function on it and the ported   *)
(* batch function on it agree exactly", and so does all that is built on   *)
(* them: the signals that the loop of main.py has published by the end of  *)
(* an undisturbed day are those of the backtest, for every market, cache   *)
(* and choice of parameters, in whatever order the bars of the keys came,  *)
(* whatever days, restarts and lost bars went before - provided that live  *)
(* labels and cached ones are of one clock, and that NIFTY, the sectors    *)
(* and the stocks have the candles of their snapshots.                     *)
THEOREM StreamingMatchesBacktest ==
    ASSUME UtcShift = 0, CacheHoldsPast, SnapshotsComplete, SectorsDiffer,
           VIX \notin LIQUID_UNIVERSE
    PROVE  Spec => []SignalsMatchBacktest
<1>1. Init => DecisionInv
  BY DEF Init, DecisionInv
<1>2. EngineInv /\ DecisionInv /\ ReadyInv /\ QuietInv => SignalsMatchBacktest
  BY DayMatches
<1>3. EngineInv /\ EngineInv' /\ FreshInv /\ QuietInv /\ [Next]_vars => QuietInv'
  BY QuietNext
<1> QED BY <1>1, <1>2, <1>3, EngineInvariant, DayInit, DecisionNext, ReadyNext,
           FreshNext, PTL DEF Spec

\* Of those none is missing.
LEMMA MatchMissesNothing == SignalsMatchBacktest => NoMissedBreakouts
<1> SUFFICES ASSUME SignalsMatchBacktest, UndisturbedDay,
                    NEW s \in TradeableStocks(day), Min(BeyondRange(day, s)) > seen[s]
             PROVE  \E x \in TodaysSignals : x.symbol = s
  BY DEF NoMissedBreakouts
<1>1. BacktestSignal(day, s) \in TodaysSignals
  BY DEF SignalsMatchBacktest
<1>2. BacktestSignal(day, s).symbol = s
  BY DEF BacktestSignal, SignalFor
<1> QED BY <1>1, <1>2

(* main.py:6: the service "publishes a Signal to the `signals` channel the *)
(* moment a qualifying stock's breakout clears the volume filter too".     *)
(* Under the same hypotheses it does: the label of another clock is all    *)
(* that makes it pass over one on an undisturbed day.                      *)
THEOREM EveryBreakoutSignalled ==
    ASSUME UtcShift = 0, CacheHoldsPast, SnapshotsComplete, SectorsDiffer,
           VIX \notin LIQUID_UNIVERSE
    PROVE  Spec => []NoMissedBreakouts
<1>1. Spec => []SignalsMatchBacktest
  BY StreamingMatchesBacktest
<1> QED BY <1>1, MatchMissesNothing, PTL

=============================================================================
