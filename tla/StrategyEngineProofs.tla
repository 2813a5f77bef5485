------------------------ MODULE StrategyEngineProofs -------------------------
(***************************************************************************)
(* Theorems about StrategyEngine, for any sectors, stocks, rules, markets, *)
(* cache files and bounds that its assumptions allow: the state keeps its  *)
(* types, a stock's tracker misses none of its candles, a stock is         *)
(* signalled once for each time its day is begun, the day's decision is    *)
(* that of the snapshots, the engine implements DayFunnel, and what it     *)
(* publishes can be traded.                                                *)
(***************************************************************************)
EXTENDS StrategyEngine, SumProofs, SequenceTheorems, FunctionTheorems

-----------------------------------------------------------------------------
(* Extremes and ranks of finite sets.                                      *)

\* A finite set of integers that is not empty has a greatest element.
LEMMA MaxOfSet ==
    ASSUME NEW S, IsFiniteSet(S), S \subseteq Int, S # {}
    PROVE  Max(S) \in S /\ \A x \in S : x <= Max(S)
<1> DEFINE Bad == {s \in SUBSET S : s # {} /\ \A x \in s : \E y \in s : x < y}
<1>1. Bad = {}
  <2> SUFFICES ASSUME Bad # {} PROVE FALSE
    OBVIOUS
  <2>1. PICK s \in Bad : \A x \in s : s \ {x} \notin Bad
    <3>1. Bad \subseteq SUBSET S
      OBVIOUS
    <3> HIDE DEF Bad
    <3> QED BY <3>1, MinSubset
  <2>2. PICK x \in s : TRUE
    BY <2>1
  <2>3. PICK y \in s : x < y
    BY <2>1, <2>2
  <2>4. x # y /\ y \in s \ {x}
    BY <2>2, <2>3
  <2>5. PICK z \in s \ {x} : \A w \in s \ {x} : ~(z < w)
    BY <2>1, <2>2, <2>4
  <2>6. PICK w \in s : z < w
    BY <2>1, <2>5
  <2>7. w = x
    BY <2>5, <2>6
  <2> QED BY <2>1, <2>3, <2>4, <2>5, <2>6, <2>7
<1>2. PICK x \in S : \A y \in S : ~(x < y)
  BY <1>1
<1>3. \E z \in S : \A y \in S : z >= y
  BY <1>2
<1> QED BY <1>3 DEF Max

\* And a least one.
LEMMA MinOfSet ==
    ASSUME NEW S, IsFiniteSet(S), S \subseteq Int, S # {}
    PROVE  Min(S) \in S /\ \A x \in S : Min(S) <= x
<1> DEFINE Bad == {s \in SUBSET S : s # {} /\ \A x \in s : \E y \in s : y < x}
<1>1. Bad = {}
  <2> SUFFICES ASSUME Bad # {} PROVE FALSE
    OBVIOUS
  <2>1. PICK s \in Bad : \A x \in s : s \ {x} \notin Bad
    <3>1. Bad \subseteq SUBSET S
      OBVIOUS
    <3> HIDE DEF Bad
    <3> QED BY <3>1, MinSubset
  <2>2. PICK x \in s : TRUE
    BY <2>1
  <2>3. PICK y \in s : y < x
    BY <2>1, <2>2
  <2>4. x # y /\ y \in s \ {x}
    BY <2>2, <2>3
  <2>5. PICK z \in s \ {x} : \A w \in s \ {x} : ~(w < z)
    BY <2>1, <2>2, <2>4
  <2>6. PICK w \in s : w < z
    BY <2>1, <2>5
  <2>7. w = x
    BY <2>5, <2>6
  <2> QED BY <2>1, <2>3, <2>4, <2>5, <2>6, <2>7
<1>2. PICK x \in S : \A y \in S : ~(y < x)
  BY <1>1
<1>3. \E z \in S : \A y \in S : z <= y
  BY <1>2
<1> QED BY <1>3 DEF Min

\* In a strict total order of a finite set every rank is somebody's, and one's
\* only.
LEMMA EveryRankTaken ==
    ASSUME NEW S, IsFiniteSet(S), NEW R,
           \A x \in S : <<x, x>> \notin R,
           \A x, y \in S : x # y => <<x, y>> \in R \/ <<y, x>> \in R,
           \A x, y, z \in S : <<x, y>> \in R /\ <<y, z>> \in R
                                => <<x, z>> \in R
    PROVE  /\ \A i \in 1 .. Cardinality(S) :
                 \E x \in S : Cardinality({y \in S : <<y, x>> \in R}) = i - 1
           /\ \A x, z \in S : Cardinality({y \in S : <<y, x>> \in R})
                               = Cardinality({y \in S : <<y, z>> \in R}) => x = z
<1> DEFINE below(x) == {y \in S : <<y, x>> \in R}
           n == Cardinality(S)
           T == 0 .. n - 1
           rank == [x \in S |-> Cardinality(below(x))]
<1>1. n \in Nat
  BY FS_CardinalityType
<1>2. \A x \in S : IsFiniteSet(below(x)) /\ Cardinality(below(x)) \in Nat
  <2> TAKE x \in S
  <2>1. below(x) \in SUBSET S
    OBVIOUS
  <2>2. IsFiniteSet(below(x))
    <3> HIDE DEF below
    <3> QED BY <2>1, FS_Subset
  <2> QED BY <2>2, FS_CardinalityType
<1>3. \A x, y \in S : <<x, y>> \in R =>
         Cardinality(below(x)) < Cardinality(below(y))
  <2> SUFFICES ASSUME NEW x \in S, NEW y \in S, <<x, y>> \in R
               PROVE  Cardinality(below(x)) < Cardinality(below(y))
    OBVIOUS
  <2>1. below(x) \in SUBSET below(y) /\ x \in below(y) /\ x \notin below(x)
    OBVIOUS
  <2>2. IsFiniteSet(below(x)) /\ Cardinality(below(x)) \in Nat
    BY <1>2
  <2>3. IsFiniteSet(below(y)) /\ Cardinality(below(y)) \in Nat
    BY <1>2
  <2> HIDE DEF below
  <2>4. /\ Cardinality(below(x)) <= Cardinality(below(y))
        /\ Cardinality(below(y)) = Cardinality(below(x)) => below(y) = below(x)
    BY <2>1, <2>3, FS_Subset
  <2> QED BY <2>1, <2>2, <2>3, <2>4
<1>4. \A x \in S : Cardinality(below(x)) \in T
  <2> TAKE x \in S
  <2>1. below(x) \in SUBSET (S \ {x})
    OBVIOUS
  <2>2. IsFiniteSet(S \ {x}) /\ Cardinality(S \ {x}) = n - 1
    BY FS_RemoveElement
  <2>3. Cardinality(below(x)) \in Nat
    BY <1>2
  <2> HIDE DEF below
  <2>4. Cardinality(below(x)) <= Cardinality(S \ {x})
    BY <2>1, <2>2, FS_Subset
  <2> HIDE DEF n
  <2> QED BY <1>1, <2>2, <2>3, <2>4
<1>5. rank \in [S -> T]
  BY <1>4
<1>6. \A x, y \in S : rank[x] = rank[y] => x = y
  <2> SUFFICES ASSUME NEW x \in S, NEW y \in S, x # y PROVE rank[x] # rank[y]
    OBVIOUS
  <2>1. <<x, y>> \in R \/ <<y, x>> \in R
    OBVIOUS
  <2>2. /\ Cardinality(below(x)) \in Nat /\ Cardinality(below(y)) \in Nat
        /\ rank[x] = Cardinality(below(x)) /\ rank[y] = Cardinality(below(y))
    BY <1>2
  <2>3. <<x, y>> \in R => Cardinality(below(x)) < Cardinality(below(y))
    BY <1>3
  <2>4. <<y, x>> \in R => Cardinality(below(y)) < Cardinality(below(x))
    BY <1>3
  <2> HIDE DEF rank, below
  <2> QED BY <2>1, <2>2, <2>3, <2>4
<1>7. rank \in Surjection(S, T)
  <2>1. rank \in Injection(S, T)
    <3> HIDE DEF rank, T
    <3> QED BY <1>5, <1>6, Fun_IsInj
  <2>2. IsFiniteSet(T) /\ Cardinality(T) = n
    <3> HIDE DEF n
    <3> QED BY <1>1, FS_Interval
  <2> HIDE DEF rank, T
  <2> QED BY <2>1, <2>2, FS_Injection
<1>8. \A r \in T : \E x \in S : rank[x] = r
  <2> HIDE DEF rank, T
  <2> QED BY <1>7, Fun_SurjectionProperties
<1>9. ASSUME NEW i \in 1 .. n PROVE \E x \in S : Cardinality(below(x)) = i - 1
  <2>1. i - 1 \in T
    <3> HIDE DEF n
    <3> QED BY <1>1
  <2> QED BY <1>8, <2>1
<1>10. \A x, z \in S : Cardinality(below(x)) = Cardinality(below(z)) => x = z
  <2>1. \A x \in S : rank[x] = Cardinality(below(x))
    OBVIOUS
  <2> HIDE DEF rank, below
  <2> QED BY <1>6, <2>1
<1> QED BY <1>9, <1>10

\* The values a function takes on a finite set are finitely many.
LEMMA ImageIsFinite ==
    ASSUME NEW S, IsFiniteSet(S), NEW g
    PROVE  IsFiniteSet({g[x] : x \in S})
<1> DEFINE T == {g[x] : x \in S}
           h == [x \in S |-> g[x]]
<1>1. h \in [S -> T] /\ \A t \in T : \E x \in S : h[x] = t
  OBVIOUS
<1>2. h \in Surjection(S, T)
  <2> HIDE DEF h, T
  <2> QED BY <1>1, Fun_IsSurj
<1> HIDE DEF h, T
<1>3. IsFiniteSet(T)
  BY <1>2, FS_Surjection
<1> QED BY <1>3 DEF T

-----------------------------------------------------------------------------
(* The cache.                                                              *)

\* read_cached returns rows of the files.
LEMMA ReadCachedType ==
    ASSUME NEW files, CacheFiles(files)
    PROVE  ReadCached(files) \in Seq(Candles)
<1> DEFINE Wins(c, f) == \A g \in files \ {f} :
                            SortsAfter(f, g) \/ \A d \in g.rows : ~SameStamp(c, d)
           kept(f) == {c \in f.rows : Wins(c, f)}
           S == UNION {kept(f) : f \in files}
           R == {p \in S \X S : Earlier(p[1], p[2])}
           read == [i \in 1 .. Cardinality(S) |->
                      CHOOSE x \in S : Cardinality({y \in S : Earlier(y, x)}) = i - 1]
<1>1. ReadCached(files) = read
  BY DEF ReadCached, Sorted
<1>2. /\ IsFiniteSet(files)
      /\ \A f \in files : /\ IsFiniteSet(f.rows)
                          /\ f.rows \subseteq Candles
                          /\ f.from \in Int /\ f.to \in Int
                          /\ \A c, d \in f.rows : SameStamp(c, d) => c = d
  BY DEF CacheFiles
<1>3. S \subseteq Candles
  BY <1>2
<1>4. IsFiniteSet(S)
  <2> DEFINE g == [f \in files |-> f.rows]
             all == {g[f] : f \in files}
  <2>1. IsFiniteSet(all)
    <3> HIDE DEF g
    <3> QED BY <1>2, ImageIsFinite
  <2>2. \A s \in all : IsFiniteSet(s)
    BY <1>2
  <2>3. S \in SUBSET UNION all
    OBVIOUS
  <2>4. IsFiniteSet(UNION all)
    <3> HIDE DEF all
    <3> QED BY <2>1, <2>2, FS_UNION
  <2> HIDE DEF all, S
  <2> QED BY <2>3, <2>4, FS_Subset
<1>5. \A c, d \in S : SameStamp(c, d) => c = d
  <2> SUFFICES ASSUME NEW f \in files, NEW c \in kept(f),
                      NEW g \in files, NEW d \in kept(g), SameStamp(c, d)
               PROVE  c = d
    OBVIOUS
  <2>1. CASE f = g
    BY <1>2, <2>1
  <2>2. CASE f # g
    <3>1. SortsAfter(f, g)
      BY <2>2
    <3>2. SortsAfter(g, f)
      BY <2>2 DEF SameStamp
    <3> QED BY <1>2, <3>1, <3>2 DEF SortsAfter
  <2> QED BY <2>1, <2>2
<1>6. /\ \A x \in S : <<x, x>> \notin R
      /\ \A x, y \in S : x # y => <<x, y>> \in R \/ <<y, x>> \in R
      /\ \A x, y, z \in S : <<x, y>> \in R /\ <<y, z>> \in R => <<x, z>> \in R
  <2>1. \A x \in S : x.day \in Int /\ x.label \in Int
    BY <1>3 DEF Candles
  <2>2. \A x, y \in S : x # y => x.day # y.day \/ x.label # y.label
    BY <1>5 DEF SameStamp
  <2>3. \A x, y \in S : <<x, y>> \in R <=> Earlier(x, y)
    OBVIOUS
  <2> HIDE DEF S, R
  <2> QED BY <2>1, <2>2, <2>3 DEF Earlier
<1>7. /\ \A i \in 1 .. Cardinality(S) :
            \E x \in S : Cardinality({y \in S : <<y, x>> \in R}) = i - 1
      /\ \A x, z \in S : Cardinality({y \in S : <<y, x>> \in R})
                          = Cardinality({y \in S : <<y, z>> \in R}) => x = z
  <2> HIDE DEF S, R
  <2> QED BY <1>4, <1>6, EveryRankTaken
<1>8. \A x \in S : {y \in S : Earlier(y, x)} = {y \in S : <<y, x>> \in R}
  <2> HIDE DEF S
  <2> QED OBVIOUS
<1>9. \A i \in 1 .. Cardinality(S) : read[i] \in S
  <2> HIDE DEF S, R
  <2> QED BY <1>7, <1>8
<1>10. Cardinality(S) \in Nat
  BY <1>4, FS_CardinalityType
<1>11. read \in Seq(S)
  <2> HIDE DEF S
  <2>1. read = [i \in 1 .. Cardinality(S) |-> read[i]]
    OBVIOUS
  <2> HIDE DEF read
  <2>2. read \in [1 .. Cardinality(S) -> S]
    BY <1>9, <2>1
  <2> QED BY <1>10, <2>2, SeqDef
<1> HIDE DEF S, read
<1> QED BY <1>1, <1>3, <1>11, SeqMonotonic

-----------------------------------------------------------------------------
(* Rows and histories.                                                     *)

\* The highest and the lowest price of a window that is not empty.
LEMMA RangeType ==
    ASSUME NEW cs, IsFiniteSet(DOMAIN cs), DOMAIN cs # {},
           \A i \in DOMAIN cs : cs[i].high \in Nat /\ cs[i].low \in Nat
    PROVE  RangeOf(cs) \in [high : Nat, low : Nat]
<1> DEFINE highs == {cs[i].high : i \in DOMAIN cs}
           lows == {cs[i].low : i \in DOMAIN cs}
           high == [i \in DOMAIN cs |-> cs[i].high]
           low == [i \in DOMAIN cs |-> cs[i].low]
<1>1. IsFiniteSet(highs)
  <2>1. IsFiniteSet({high[i] : i \in DOMAIN cs})
    <3> HIDE DEF high
    <3> QED BY ImageIsFinite
  <2>2. {high[i] : i \in DOMAIN cs} = highs
    OBVIOUS
  <2> QED BY <2>1, <2>2
<1>2. IsFiniteSet(lows)
  <2>1. IsFiniteSet({low[i] : i \in DOMAIN cs})
    <3> HIDE DEF low
    <3> QED BY ImageIsFinite
  <2>2. {low[i] : i \in DOMAIN cs} = lows
    OBVIOUS
  <2> QED BY <2>1, <2>2
<1>3. /\ highs \subseteq Nat /\ highs # {} /\ highs \subseteq Int
      /\ lows \subseteq Nat /\ lows # {} /\ lows \subseteq Int
  OBVIOUS
<1>4. RangeOf(cs) = [high |-> Max(highs), low |-> Min(lows)]
  BY DEF RangeOf
<1> HIDE DEF highs, lows
<1>5. Max(highs) \in Nat
  BY <1>1, <1>3, MaxOfSet
<1>6. Min(lows) \in Nat
  BY <1>2, <1>3, MinOfSet
<1> QED BY <1>4, <1>5, <1>6

LEMMA RowType ==
    ASSUME NEW bar \in BarRecords, NEW d \in Int, NEW label \in Int
    PROVE  Row(bar, d, label) \in Candles
  BY DEF BarRecords, Row, Candles

\* A day of a market is a sequence of bars that is not empty.
LEMMA TapeType ==
    ASSUME NEW t \in DOMAIN Tapes, NEW k \in Fed \cup {VIX}, NEW d \in Days
    PROVE  /\ Tapes[t][d][k] \in Seq(BarRecords)
           /\ Len(Tapes[t][d][k]) \in Nat \ {0}
           /\ DOMAIN Tapes[t][d][k] = 1 .. Len(Tapes[t][d][k])
           /\ \A i \in 1 .. Len(Tapes[t][d][k]) :
                 Tapes[t][d][k][i] \in BarRecords
<1>1. Tapes[t] \in [Days -> [Fed \cup {VIX} -> Seq(BarRecords) \ {<<>>}]]
  BY EngineAssumption
<1>2. Tapes[t][d][k] \in Seq(BarRecords) \ {<<>>}
  BY <1>1
<1>3. Len(Tapes[t][d][k]) \in Nat \ {0}
  BY <1>2, EmptySeq
<1> QED BY <1>2, <1>3, LenProperties, ElementOfSeq

\* The daily candle of a market's day is one.
LEMMA DailyRowType ==
    ASSUME NEW t \in DOMAIN Tapes, NEW k \in Fed \cup {VIX}, NEW d \in Days
    PROVE  DailyRow(Tapes[t], k, d) \in Candles
<1> DEFINE bars == Tapes[t][d][k]
           volumes == [i \in DOMAIN bars |-> bars[i].volume]
<1>1. /\ Len(bars) \in Nat \ {0}
      /\ DOMAIN bars = 1 .. Len(bars)
      /\ \A i \in 1 .. Len(bars) : bars[i] \in BarRecords
  BY TapeType
<1>2. IsFiniteSet(DOMAIN bars)
  <2> HIDE DEF bars
  <2> QED BY <1>1, FS_Interval
<1>3. RangeOf(bars) \in [high : Nat, low : Nat]
  <2>1. \A i \in DOMAIN bars : bars[i].high \in Nat /\ bars[i].low \in Nat
    BY <1>1 DEF BarRecords
  <2>2. DOMAIN bars # {}
    BY <1>1
  <2> HIDE DEF bars
  <2> QED BY <1>2, <2>1, <2>2, RangeType
<1>4. SumFunction(volumes) \in Nat
  <2>1. DOMAIN volumes = DOMAIN bars
    OBVIOUS
  <2>2. \A i \in DOMAIN bars : volumes[i] \in Nat
    BY <1>1 DEF BarRecords
  <2> HIDE DEF volumes, bars
  <2> QED BY <1>2, <2>1, <2>2, SumNat DEF SumFunction
<1>5. bars[Len(bars)].close \in Nat \ {0}
  BY <1>1 DEF BarRecords
<1>6. d \in Int
  BY DEF Days
<1>7. DailyRow(Tapes[t], k, d) =
         [day |-> d, label |-> 0, high |-> RangeOf(bars).high,
          low |-> RangeOf(bars).low, close |-> bars[Len(bars)].close,
          volume |-> SumFunction(volumes)]
  BY DEF DailyRow
<1> HIDE DEF bars, volumes
<1> QED BY <1>3, <1>4, <1>5, <1>6, <1>7 DEF Candles

\* The files of a cache that a day's rows were added to.
LEMMA FilesGrow ==
    ASSUME NEW files, CacheFiles(files), NEW n \in Nat, NEW rows,
           \A d \in 1 .. n : /\ IsFiniteSet(rows[d])
                             /\ rows[d] \subseteq Candles
                             /\ \A a, b \in rows[d] : SameStamp(a, b) => a = b
    PROVE  CacheFiles(files \cup {ChunkOf(d, rows[d]) : d \in 1 .. n})
<1> DEFINE chunk == [d \in 1 .. n |-> ChunkOf(d, rows[d])]
           new == {ChunkOf(d, rows[d]) : d \in 1 .. n}
<1>1. new = {chunk[d] : d \in 1 .. n}
  OBVIOUS
<1>2. IsFiniteSet(new)
  <2>1. IsFiniteSet(1 .. n)
    BY FS_Interval
  <2> HIDE DEF chunk, new
  <2> QED BY <1>1, <2>1, ImageIsFinite
<1>3. \A f \in new : /\ f \in [from : Int, to : Int, rows : SUBSET Candles]
                     /\ IsFiniteSet(f.rows)
                     /\ \A c, d \in f.rows : SameStamp(c, d) => c = d
  BY DEF ChunkOf
<1>4. IsFiniteSet(files \cup new)
  <2> HIDE DEF new
  <2> QED BY <1>2, FS_Union DEF CacheFiles
<1> HIDE DEF new
<1>5. CacheFiles(files \cup new)
  BY <1>3, <1>4 DEF CacheFiles
<1> QED BY <1>5 DEF new

LEMMA CacheType ==
    ASSUME NEW t \in DOMAIN Tapes, NEW n \in Nat, 1 .. n \subseteq Days,
           NEW k \in Fed \cup {VIX}
    PROVE  /\ CacheFiles(CacheAfter(Tapes[t], n)[k].daily)
           /\ CacheFiles(CacheAfter(Tapes[t], n)[k].minutes)
<1> DEFINE day1 == [d \in 1 .. n |-> {DailyRow(Tapes[t], k, d)}]
           minutes == [d \in 1 .. n |-> ToSet(MinuteRows(Tapes[t], k, d))]
<1>1. /\ CacheFiles(BaseChunks[k].daily)
      /\ CacheFiles(BaseChunks[k].minutes)
  BY EngineAssumption
<1>2. /\ CacheAfter(Tapes[t], n)[k].daily =
             BaseChunks[k].daily \cup {ChunkOf(d, day1[d]) : d \in 1 .. n}
      /\ CacheAfter(Tapes[t], n)[k].minutes =
             BaseChunks[k].minutes \cup {ChunkOf(d, minutes[d]) : d \in 1 .. n}
  BY DEF CacheAfter
<1>3. CacheFiles(BaseChunks[k].daily \cup {ChunkOf(d, day1[d]) : d \in 1 .. n})
  <2>1. \A d \in 1 .. n : /\ IsFiniteSet(day1[d])
                          /\ day1[d] \subseteq Candles
                          /\ \A a, b \in day1[d] : SameStamp(a, b) => a = b
    <3> TAKE d \in 1 .. n
    <3>1. day1[d] = {DailyRow(Tapes[t], k, d)}
      OBVIOUS
    <3>2. DailyRow(Tapes[t], k, d) \in Candles
      BY DailyRowType
    <3> HIDE DEF day1
    <3> QED BY <3>1, <3>2, FS_Singleton
  <2> HIDE DEF day1
  <2> QED BY <1>1, <2>1, FilesGrow
<1>4. CacheFiles(BaseChunks[k].minutes \cup {ChunkOf(d, minutes[d]) : d \in 1 .. n})
  <2>1. ASSUME NEW d \in 1 .. n
        PROVE  /\ IsFiniteSet(minutes[d])
               /\ minutes[d] \subseteq Candles
               /\ \A a, b \in minutes[d] : SameStamp(a, b) => a = b
    <3> DEFINE bars == Tapes[t][d][k]
               row == [i \in DOMAIN bars |-> Row(bars[i], d, i)]
    <3>1. minutes[d] = {row[i] : i \in DOMAIN bars}
      BY DEF ToSet, MinuteRows
    <3>2. /\ Len(bars) \in Nat \ {0}
          /\ DOMAIN bars = 1 .. Len(bars)
          /\ \A i \in 1 .. Len(bars) : bars[i] \in BarRecords
      BY TapeType
    <3>3. \A i \in DOMAIN bars : row[i] \in Candles /\ row[i].label = i
      <4>1. \A i \in DOMAIN bars : /\ bars[i] \in BarRecords
                                   /\ i \in Int /\ d \in Int
        BY <3>2
      <4> QED BY <4>1, RowType DEF Row
    <3>4. IsFiniteSet(DOMAIN bars)
      <4> HIDE DEF bars
      <4> QED BY <3>2, FS_Interval
    <3>5. IsFiniteSet({row[i] : i \in DOMAIN bars})
      <4> HIDE DEF row, bars
      <4> QED BY <3>4, ImageIsFinite
    <3>6. \A a, b \in {row[i] : i \in DOMAIN bars} : SameStamp(a, b) => a = b
      <4> HIDE DEF row, bars
      <4> QED BY <3>3 DEF SameStamp
    <3> HIDE DEF row, bars, minutes
    <3> QED BY <3>1, <3>3, <3>5, <3>6
  <2> HIDE DEF minutes, day1
  <2>2. CacheFiles(BaseChunks[k].minutes)
    BY <1>1
  <2> QED BY <2>1, <2>2, FilesGrow
<1> QED BY <1>2, <1>3, <1>4

\* What a History holds.
HistoryFits(h) ==
    /\ h.nifty_daily \in Seq(Candles)
    /\ h.vix_daily \in Seq(Candles)
    /\ h.sector_daily \in [Sectors -> Seq(Candles)]
    /\ h.stock_daily \in [DOMAIN h.stock_daily -> Seq(Candles)]
    /\ DOMAIN h.stock_daily \subseteq LIQUID_UNIVERSE
    /\ DOMAIN h.stock_volume = DOMAIN h.stock_daily

\* load_history returns such a one, on every morning.
LEMMA HistoriesFit ==
    ASSUME NEW t \in DOMAIN Tapes, NEW d \in Days
    PROVE  HistoryFits(Histories[t][d])
<1> DEFINE cache == CacheAfter(Tapes[t], d - 1)
           found == {s \in LIQUID_UNIVERSE \cap DOMAIN cache :
                        ReadCached(cache[s].minutes) # <<>>}
<1>1. d - 1 \in Nat /\ 1 .. (d - 1) \subseteq Days
  BY EngineAssumption DEF Days
<1>2. DOMAIN cache = Fed \cup {VIX}
  BY DEF CacheAfter
<1>3. \A k \in Fed \cup {VIX} : CacheFiles(cache[k].daily)
  BY <1>1, CacheType
<1>4. \A k \in Fed \cup {VIX} : ReadCached(cache[k].daily) \in Seq(Candles)
  <2> HIDE DEF cache
  <2> QED BY <1>3, ReadCachedType
<1>5. NIFTY \in Fed /\ Sectors \subseteq Fed
  BY EngineAssumption
<1>6. Histories[t][d] = LoadHistory(cache)
  BY DEF Histories
<1> HIDE DEF cache
<1>7. HistoryFits(LoadHistory(cache))
  BY <1>2, <1>4, <1>5 DEF HistoryFits, LoadHistory
<1> QED BY <1>6, <1>7

-----------------------------------------------------------------------------
(* Trackers.  Tracked is a fold, hence a recursive function under a        *)
(* CHOOSE; what it computes is shown as SumProofs does for sums.           *)

\* g tracks the candles of cs at every subset of S, latest candle last.
TracksUp(g, direction, cs, S) ==
    g = [s \in SUBSET S |->
            IF s = {} THEN NewTracker(direction)
            ELSE OnCandle(g[s \ {Max(s)}], cs[Max(s)])]

LEMMA TrackedIsChosen ==
    ASSUME NEW direction, NEW cs
    PROVE  Tracked(direction, cs) =
              (CHOOSE g : TracksUp(g, direction, cs, DOMAIN cs))[DOMAIN cs]
  BY DEF Tracked, FoldLeft, MapThenFoldSet, TracksUp

LEMMA LatestOfSome ==
    ASSUME NEW S, IsFiniteSet(S), S \subseteq Int
    PROVE  \A s \in SUBSET S :
              /\ IsFiniteSet(s) /\ Cardinality(s) \in Nat
              /\ Cardinality(s) <= Cardinality(S)
              /\ s # {} => /\ Max(s) \in s
                           /\ s \ {Max(s)} \in SUBSET S
                           /\ Cardinality(s \ {Max(s)}) = Cardinality(s) - 1
<1> TAKE s \in SUBSET S
<1>1. /\ IsFiniteSet(s) /\ Cardinality(s) \in Nat
      /\ Cardinality(s) <= Cardinality(S)
  BY FS_Subset, FS_CardinalityType
<1>2. s # {} => Max(s) \in s
  BY <1>1, MaxOfSet
<1>3. s # {} => Cardinality(s \ {Max(s)}) = Cardinality(s) - 1
  BY <1>1, <1>2, FS_RemoveElement
<1> QED BY <1>1, <1>2, <1>3

\* Such a function exists: it is built size by size.
LEMMA TrackExists ==
    ASSUME NEW direction, NEW cs, NEW S, IsFiniteSet(S), S \subseteq Int
    PROVE  \E g : TracksUp(g, direction, cs, S)
<1> DEFINE next1(g, s) == IF s = {} THEN NewTracker(direction)
                          ELSE OnCandle(g[s \ {Max(s)}], cs[Max(s)])
           good(g, n) == /\ g = [s \in SUBSET S |-> g[s]]
                         /\ \A s \in SUBSET S :
                               Cardinality(s) <= n => g[s] = next1(g, s)
           bad == {n \in Nat : \A g : ~good(g, n)}
<1>1. \A s \in SUBSET S : /\ IsFiniteSet(s) /\ Cardinality(s) \in Nat
                          /\ Cardinality(s) <= Cardinality(S)
  BY LatestOfSome
<1>2. \A s \in SUBSET S : s # {} =>
         /\ s \ {Max(s)} \in SUBSET S
         /\ Cardinality(s \ {Max(s)}) = Cardinality(s) - 1
  BY LatestOfSome
<1>3. 0 \notin bad
  <2> DEFINE g == [s \in SUBSET S |-> NewTracker(direction)]
  <2>1. \A s \in SUBSET S : Cardinality(s) <= 0 => s = {}
    BY <1>1, FS_EmptySet
  <2>2. good(g, 0)
    BY <2>1
  <2> QED BY <2>2
<1>4. ASSUME NEW n \in Nat, n \notin bad PROVE n + 1 \notin bad
  <2>1. PICK g : good(g, n)
    BY <1>4
  <2> DEFINE h == [s \in SUBSET S |->
                     IF Cardinality(s) = n + 1 THEN next1(g, s) ELSE g[s]]
  <2>2. \A s \in SUBSET S : Cardinality(s) <= n => h[s] = g[s]
    BY <1>1
  <2>3. ASSUME NEW s \in SUBSET S, Cardinality(s) <= n + 1
        PROVE  h[s] = next1(h, s)
    <3>1. h[s] = next1(g, s)
      <4>1. CASE Cardinality(s) = n + 1
        BY <4>1
      <4>2. CASE Cardinality(s) <= n
        BY <2>1, <2>2, <4>2
      <4> QED BY <1>1, <2>3, <4>1, <4>2
    <3>2. s # {} => h[s \ {Max(s)}] = g[s \ {Max(s)}]
      <4> DEFINE r == s \ {Max(s)}
      <4>1. s # {} => r \in SUBSET S /\ Cardinality(r) = Cardinality(s) - 1
        BY <1>2
      <4> HIDE DEF h, r
      <4>2. s # {} => Cardinality(r) <= n
        BY <1>1, <2>3, <4>1
      <4>3. s # {} => h[r] = g[r]
        BY <2>2, <4>1, <4>2
      <4> QED BY <4>3 DEF r
    <3> HIDE DEF h
    <3> QED BY <3>1, <3>2
  <2>4. good(h, n + 1)
    <3>1. h = [s \in SUBSET S |-> h[s]]
      OBVIOUS
    <3> HIDE DEF h, next1
    <3> QED BY <2>3, <3>1
  <2> HIDE DEF h, good
  <2> QED BY <2>4
<1>5. bad = {}
  <2> SUFFICES ASSUME bad # {} PROVE FALSE
    OBVIOUS
  <2>1. PICK n \in bad : \A m \in bad : n <= m
    <3>1. bad \subseteq Nat
      OBVIOUS
    <3> HIDE DEF bad
    <3> QED BY <3>1, MinNat
  <2>2. n \in Nat /\ n # 0
    BY <1>3
  <2>3. n - 1 \in Nat /\ n - 1 + 1 = n
    BY <2>2
  <2>4. n - 1 \notin bad
    <3> HIDE DEF bad
    <3> QED BY <2>1, <2>2
  <2> HIDE DEF bad
  <2> QED BY <1>4, <2>3, <2>4
<1>6. PICK g : good(g, Cardinality(S))
  <2>1. Cardinality(S) \in Nat
    BY FS_CardinalityType
  <2> QED BY <1>5, <2>1
<1>7. \A s \in SUBSET S : g[s] = next1(g, s)
  BY <1>1, <1>6
<1>8. g = [s \in SUBSET S |-> next1(g, s)]
  BY <1>6, <1>7
<1> QED BY <1>8 DEF TracksUp

\* Two of them agree where the candles do.
LEMMA TracksAgree ==
    ASSUME NEW direction, NEW cs, NEW ds, NEW S, IsFiniteSet(S), S \subseteq Int,
           NEW T \in SUBSET S, \A i \in T : cs[i] = ds[i],
           NEW g, TracksUp(g, direction, cs, S),
           NEW h, TracksUp(h, direction, ds, T)
    PROVE  g[T] = h[T]
<1> DEFINE Bad == {s \in SUBSET T : g[s] # h[s]}
<1>1. IsFiniteSet(T)
  BY FS_Subset
<1>2. \A s \in SUBSET T :
         /\ g[s] = IF s = {} THEN NewTracker(direction)
                   ELSE OnCandle(g[s \ {Max(s)}], cs[Max(s)])
         /\ h[s] = IF s = {} THEN NewTracker(direction)
                   ELSE OnCandle(h[s \ {Max(s)}], ds[Max(s)])
  BY DEF TracksUp
<1>3. Bad = {}
  <2> SUFFICES ASSUME Bad # {} PROVE FALSE
    OBVIOUS
  <2>1. PICK s \in Bad : \A x \in s : s \ {x} \notin Bad
    <3>1. Bad \subseteq SUBSET T
      OBVIOUS
    <3> HIDE DEF Bad
    <3> QED BY <1>1, <3>1, MinSubset
  <2>2. CASE s = {}
    BY <1>2, <2>2
  <2>3. CASE s # {}
    <3>1. Max(s) \in s
      BY <2>3, LatestOfSome
    <3>2. g[s \ {Max(s)}] = h[s \ {Max(s)}]
      BY <2>1, <3>1
    <3>3. cs[Max(s)] = ds[Max(s)]
      BY <3>1
    <3> QED BY <1>2, <2>3, <3>2, <3>3
  <2> QED BY <2>2, <2>3
<1> QED BY <1>3

LEMMA OneMore ==
    ASSUME NEW n \in Nat, NEW m, m = n + 1
    PROVE  /\ IsFiniteSet(1 .. n) /\ IsFiniteSet(1 .. m)
           /\ 1 .. n \subseteq 1 .. m /\ 1 .. m \subseteq Int
           /\ (1 .. m) \ {m} = 1 .. n
           /\ 1 .. m # {} /\ Max(1 .. m) = m
<1>1. IsFiniteSet(1 .. n) /\ IsFiniteSet(1 .. m)
  BY FS_Interval
<1>2. 1 .. n \subseteq 1 .. m /\ 1 .. m \subseteq Int
  OBVIOUS
<1>3. m \in 1 .. m /\ \A i \in 1 .. m : i <= m
  OBVIOUS
<1>4. ASSUME NEW i PROVE i \in (1 .. m) \ {m} <=> i \in 1 .. n
  OBVIOUS
<1>5. Max(1 .. m) \in 1 .. m /\ \A x \in 1 .. m : x <= Max(1 .. m)
  BY <1>1, <1>2, <1>3, MaxOfSet
<1>6. Max(1 .. m) = m
  BY <1>3, <1>5
<1>7. (1 .. m) \ {m} = 1 .. n
  BY <1>4
<1> QED BY <1>1, <1>2, <1>3, <1>6, <1>7

\* A tracker that has seen nothing is new; one more candle is one more
\* on_candle.
LEMMA TrackedUnrolled ==
    ASSUME NEW direction, NEW C, NEW cs \in Seq(C), NEW c \in C
    PROVE  /\ Tracked(direction, <<>>) = NewTracker(direction)
           /\ Tracked(direction, Append(cs, c))
                 = OnCandle(Tracked(direction, cs), c)
<1> DEFINE ds == Append(cs, c)
           m == Len(cs) + 1
           A == 1 .. Len(cs)
           B == 1 .. m
           g == CHOOSE g : TracksUp(g, direction, ds, B)
           h == CHOOSE h : TracksUp(h, direction, cs, A)
<1>1. /\ Len(cs) \in Nat /\ DOMAIN cs = A /\ DOMAIN ds = B
      /\ ds[m] = c /\ \A i \in A : ds[i] = cs[i]
  BY AppendProperties, LenProperties
<1>2. /\ IsFiniteSet(A) /\ IsFiniteSet(B)
      /\ A \subseteq B /\ B \subseteq Int /\ A \subseteq Int
      /\ B \ {m} = A
      /\ B # {} /\ Max(B) = m
  <2>1. /\ IsFiniteSet(1 .. Len(cs)) /\ IsFiniteSet(1 .. m)
        /\ 1 .. Len(cs) \subseteq 1 .. m /\ 1 .. m \subseteq Int
        /\ (1 .. m) \ {m} = 1 .. Len(cs)
        /\ 1 .. m # {} /\ Max(1 .. m) = m
    <3>1. Len(cs) \in Nat /\ m = Len(cs) + 1
      BY <1>1
    <3> HIDE DEF m
    <3> QED BY <3>1, OneMore
  <2> QED BY <2>1
<1> HIDE DEF ds, A, B, m
<1>3. TracksUp(g, direction, ds, B)
  BY <1>2, TrackExists
<1>4. TracksUp(h, direction, cs, A)
  BY <1>2, TrackExists
<1>5. /\ Tracked(direction, ds) = g[B]
      /\ Tracked(direction, cs) = h[A]
  BY <1>1, TrackedIsChosen
<1> HIDE DEF g, h
<1>6. g[A] = h[A]
  <2>1. A \in SUBSET B
    BY <1>2
  <2> QED BY <1>1, <1>2, <1>3, <1>4, <2>1, TracksAgree
<1>7. g[B] = OnCandle(g[A], ds[m])
  BY <1>2, <1>3 DEF TracksUp
<1>8. Tracked(direction, ds) = OnCandle(Tracked(direction, cs), c)
  BY <1>1, <1>5, <1>6, <1>7
<1>9. Tracked(direction, <<>>) = NewTracker(direction)
  <2> DEFINE k == CHOOSE k : TracksUp(k, direction, <<>>, {})
  <2>1. DOMAIN <<>> = {}
    BY EmptySeq, LenProperties
  <2>2. TracksUp(k, direction, <<>>, {})
    BY TrackExists, FS_EmptySet
  <2>3. Tracked(direction, <<>>) = k[{}]
    BY <2>1, TrackedIsChosen
  <2> HIDE DEF k
  <2> QED BY <2>2, <2>3 DEF TracksUp
<1> QED BY <1>8, <1>9 DEF ds

\* What a candle of cs never takes a tracker out of, it is in at the end.
LEMMA TrackedStays ==
    ASSUME NEW direction, NEW C, NEW cs \in Seq(C), NEW P,
           NewTracker(direction) \in P,
           \A t \in P, i \in 1 .. Len(cs) : OnCandle(t, cs[i]) \in P
    PROVE  Tracked(direction, cs) \in P
<1> DEFINE S == DOMAIN cs
           g == CHOOSE g : TracksUp(g, direction, cs, S)
           Bad == {s \in SUBSET S : g[s] \notin P}
<1>1. S = 1 .. Len(cs) /\ Len(cs) \in Nat
  BY LenProperties
<1>2. IsFiniteSet(S) /\ S \subseteq Int
  <2> HIDE DEF S
  <2> QED BY <1>1, FS_Interval
<1>3. TracksUp(g, direction, cs, S)
  <2> HIDE DEF S
  <2> QED BY <1>2, TrackExists
<1>4. Tracked(direction, cs) = g[S]
  BY TrackedIsChosen
<1> HIDE DEF g
<1>5. \A s \in SUBSET S :
         g[s] = IF s = {} THEN NewTracker(direction)
                ELSE OnCandle(g[s \ {Max(s)}], cs[Max(s)])
  BY <1>3 DEF TracksUp
<1>6. Bad = {}
  <2> SUFFICES ASSUME Bad # {} PROVE FALSE
    OBVIOUS
  <2>1. PICK s \in Bad : \A x \in s : s \ {x} \notin Bad
    <3>1. Bad \subseteq SUBSET S
      OBVIOUS
    <3> HIDE DEF Bad, S
    <3> QED BY <1>2, <3>1, MinSubset
  <2>2. CASE s = {}
    BY <1>5, <2>2
  <2>3. CASE s # {}
    <3>1. Max(s) \in s
      BY <1>2, <2>3, LatestOfSome
    <3>2. g[s \ {Max(s)}] \in P
      BY <2>1, <3>1
    <3>3. Max(s) \in 1 .. Len(cs)
      BY <1>1, <3>1
    <3> QED BY <1>5, <2>3, <3>2, <3>3
  <2> QED BY <2>2, <2>3
<1> QED BY <1>4, <1>6

LEMMA EntryAndStopType ==
    ASSUME NEW direction, NEW c \in Candles
    PROVE  EntryAndStop(direction, c) \in [entry : Int, stop : Int]
<1>1. c.high \in Nat /\ c.low \in Nat
  BY DEF Candles
<1>2. Buffer(c.high) \in Int /\ Buffer(c.low) \in Int
  BY <1>1 DEF Buffer
<1> QED BY <1>1, <1>2 DEF EntryAndStop

LEMMA BreakoutType ==
    ASSUME NEW t, NEW c \in Candles
    PROVE  BreakoutAt(t, c) \in Breakouts
  BY EntryAndStopType DEF BreakoutAt, Breakouts, Candles

\* on_candle returns a tracker of the same direction.
LEMMA OnCandleType ==
    ASSUME NEW t \in Trackers, NEW c \in Candles
    PROVE  OnCandle(t, c) \in Trackers /\ OnCandle(t, c).direction = t.direction
<1> DEFINE opening == Append(t.opening, c)
<1>1. /\ t.opening \in Seq(Candles) /\ t.direction \in Sides
      /\ t.range \in Ranges \cup {None} /\ t.breakout \in Breakouts \cup {None}
      /\ t = [direction |-> t.direction, opening |-> t.opening,
              range |-> t.range, breakout |-> t.breakout]
  BY DEF Trackers
<1>2. /\ opening \in Seq(Candles) /\ DOMAIN opening = 1 .. Len(opening)
      /\ Len(opening) \in Nat \ {0}
  <2>1. opening \in Seq(Candles) /\ Len(opening) = Len(t.opening) + 1
    BY <1>1, AppendProperties
  <2>2. Len(t.opening) \in Nat
    BY <1>1, LenProperties
  <2> HIDE DEF opening
  <2> QED BY <2>1, <2>2, LenProperties
<1>3. RangeOf(opening) \in Ranges
  <2> HIDE DEF opening
  <2>1. IsFiniteSet(DOMAIN opening)
    BY <1>2, FS_Interval
  <2>2. \A i \in DOMAIN opening : opening[i] \in Candles
    BY <1>2, ElementOfSeq
  <2>3. \A i \in DOMAIN opening : opening[i].high \in Nat /\ opening[i].low \in Nat
    BY <2>2 DEF Candles
  <2>4. RangeOf(opening) \in [high : Nat, low : Nat]
    <3>1. 1 \in 1 .. Len(opening)
      BY <1>2
    <3>2. DOMAIN opening # {}
      BY <1>2, <3>1
    <3> QED BY <2>1, <2>3, <3>2, RangeType
  <2> QED BY <2>4 DEF Ranges
<1>4. BreakoutAt(t, c) \in Breakouts
  BY BreakoutType
<1> HIDE DEF opening
<1>5. CASE t.breakout # None
  BY <1>5 DEF OnCandle
<1>6. CASE t.breakout = None /\ t.range = None
  <2>1. OnCandle(t, c) =
           [t EXCEPT !.opening = opening,
                     !.range = IF Len(opening) < OpeningRangeCandles
                               THEN None ELSE RangeOf(opening)]
    BY <1>6 DEF OnCandle, opening
  <2> QED BY <1>1, <1>2, <1>3, <2>1 DEF Trackers
<1>7. CASE t.breakout = None /\ t.range # None
  <2>1. OnCandle(t, c) =
           [t EXCEPT !.breakout = IF BreaksOut(t, c)
                                  THEN BreakoutAt(t, c) ELSE None]
    BY <1>7 DEF OnCandle
  <2> QED BY <1>1, <1>4, <2>1 DEF Trackers
<1> QED BY <1>5, <1>6, <1>7

\* A tracker that has broken out stays as it is; a breakout is that of the
\* candle.
LEMMA BreakoutOfCandle ==
    ASSUME NEW t \in Trackers, NEW c \in Candles
    PROVE  /\ t.breakout # None => OnCandle(t, c) = t
           /\ t.breakout = None /\ OnCandle(t, c).breakout # None
                 => OnCandle(t, c).breakout = BreakoutAt(t, c)
<1>1. t.breakout # None => OnCandle(t, c) = t
  BY DEF OnCandle
<1>2. ASSUME t.breakout = None, OnCandle(t, c).breakout # None
      PROVE  OnCandle(t, c).breakout = BreakoutAt(t, c)
  <2>1. CASE t.range = None
    <3>1. OnCandle(t, c).breakout = t.breakout
      BY <1>2, <2>1 DEF OnCandle, Trackers
    <3> QED BY <1>2, <3>1
  <2>2. CASE t.range # None
    <3>1. OnCandle(t, c).breakout =
             IF BreaksOut(t, c) THEN BreakoutAt(t, c) ELSE None
      BY <1>2, <2>2 DEF OnCandle, Trackers
    <3> QED BY <1>2, <3>1
  <2> QED BY <2>1, <2>2
<1> QED BY <1>1, <1>2

\* A breakout carries the timestamp of a candle the tracker was given.
LEMMA TrackedType ==
    ASSUME NEW direction \in Sides, NEW cs \in Seq(Candles)
    PROVE  /\ Tracked(direction, cs) \in Trackers
           /\ Tracked(direction, cs).direction = direction
           /\ Tracked(direction, cs).breakout # None =>
                 \E i \in 1 .. Len(cs) :
                    SameStamp(Tracked(direction, cs).breakout, cs[i])
<1> DEFINE P == {t \in Trackers :
                   /\ t.direction = direction
                   /\ t.breakout # None =>
                         \E i \in 1 .. Len(cs) : SameStamp(t.breakout, cs[i])}
<1>1. NewTracker(direction) \in P
  <2>1. <<>> \in Seq(Candles)
    BY EmptySeq
  <2> QED BY <2>1 DEF NewTracker, Trackers
<1>2. ASSUME NEW t \in P, NEW i \in 1 .. Len(cs) PROVE OnCandle(t, cs[i]) \in P
  <2>1. cs[i] \in Candles
    BY ElementOfSeq
  <2>2. OnCandle(t, cs[i]) \in Trackers /\ OnCandle(t, cs[i]).direction = direction
    BY <2>1, OnCandleType
  <2>3. OnCandle(t, cs[i]).breakout # None =>
           \E j \in 1 .. Len(cs) : SameStamp(OnCandle(t, cs[i]).breakout, cs[j])
    <3>1. CASE t.breakout # None
      BY <2>1, <3>1, BreakoutOfCandle
    <3>2. CASE t.breakout = None
      <4>1. SameStamp(BreakoutAt(t, cs[i]), cs[i])
        BY DEF SameStamp, BreakoutAt
      <4> QED BY <2>1, <3>2, <4>1, BreakoutOfCandle
    <3> QED BY <3>1, <3>2
  <2> QED BY <2>2, <2>3
<1>3. Tracked(direction, cs) \in P
  <2> HIDE DEF P
  <2> QED BY <1>1, <1>2, TrackedStays
<1> QED BY <1>3

-----------------------------------------------------------------------------
(* The decision of a day.                                                  *)

LEMMA MinOfTwo ==
    ASSUME NEW a \in Int, NEW b \in Int
    PROVE  Min({a, b}) \in {a, b} /\ Min({a, b}) <= a /\ Min({a, b}) <= b
<1>1. \E x \in {a, b} : \A y \in {a, b} : x <= y
  OBVIOUS
<1> QED BY <1>1 DEF Min

\* The move of a key with a known previous close is a number.
LEMMA MoveType ==
    ASSUME NEW direction, NEW cs \in Seq(Candles), Len(cs) >= SnapshotCandles,
           NEW daily \in Seq(Candles), daily # <<>>
    PROVE  Move(direction, cs, daily) \in Int
<1>1. SnapshotCandles \in Nat \ {0}
  BY ReferenceAssumption
<1>2. SnapshotClose(cs) \in Nat
  <2>1. Len(cs) \in Nat
    BY LenProperties
  <2>2. SnapshotCandles \in 1 .. Len(cs)
    BY <1>1, <2>1
  <2>3. cs[SnapshotCandles] \in Candles
    BY <2>2, ElementOfSeq
  <2> QED BY <2>3 DEF SnapshotClose, Candles
<1>3. LatestClose(daily) \in Nat \ {0}
  <2>1. Len(daily) \in Nat \ {0}
    BY EmptySeq
  <2>2. daily[Len(daily)] \in Candles
    BY <2>1, ElementOfSeq
  <2> QED BY <2>2 DEF LatestClose, Candles
<1>4. PctChange(SnapshotClose(cs), LatestClose(daily)) \in Int
  BY <1>2, <1>3 DEF PctChange
<1>5. Sign(direction) \in {1, 0 - 1}
  BY DEF Sign
<1> DEFINE change == PctChange(SnapshotClose(cs), LatestClose(daily))
<1>6. Move(direction, cs, daily) = Sign(direction) * change
  BY DEF Move
<1> HIDE DEF change
<1>7. change \in Int
  BY <1>4 DEF change
<1> QED BY <1>5, <1>6, <1>7

\* The sectors picked, in the order of their strength.
Strengths(h, buffer, direction) ==
    [i \in DOMAIN V2_SECTORS |->
        Move(direction, buffer[V2_SECTORS[i]], h.sector_daily[V2_SECTORS[i]])]

EligibleSectors(h, strength) ==
    {i \in DOMAIN V2_SECTORS : /\ h.sector_daily[V2_SECTORS[i]] # <<>>
                               /\ strength[i] > Params.sector_band}

Stronger(eligible, strength) ==
    {p \in eligible \X eligible :
        \/ strength[p[1]] > strength[p[2]]
        \/ strength[p[1]] = strength[p[2]] /\ p[1] < p[2]}

\* ranked lists the eligible sectors, strongest first.
RanksSectors(ranked, eligible, strength) ==
    \A r \in 1 .. Cardinality(eligible) :
        /\ ranked[r] \in eligible
        /\ Cardinality({i \in eligible : <<i, ranked[r]>> \in
                                            Stronger(eligible, strength)}) = r - 1

\* A history and buffers that the plan may be resolved with.
CanResolve(h, buffer) ==
    /\ HistoryFits(h)
    /\ buffer \in [Keys -> Seq(Candles)]
    /\ ReadyToResolve(h, buffer)

\* The sectors selected are the first of the ranked ones.
Selects(selected, h, strength) ==
    LET eligible == EligibleSectors(h, strength)
    IN  \E ranked :
           /\ RanksSectors(ranked, eligible, strength)
           /\ selected = [r \in 1 .. Min({Cardinality(eligible),
                                          Params.top_sectors}) |->
                              V2_SECTORS[ranked[r]]]

\* No two of them have the same rank.
RanksAreUnique(eligible, strength) ==
    \A x, z \in eligible :
        Cardinality({y \in eligible : <<y, x>> \in Stronger(eligible, strength)})
          = Cardinality({y \in eligible :
                           <<y, z>> \in Stronger(eligible, strength)})
        => x = z

LEMMA SectorsRanked ==
    ASSUME NEW h, NEW buffer, CanResolve(h, buffer), NEW direction
    PROVE  LET strength == Strengths(h, buffer, direction)
               eligible == EligibleSectors(h, strength)
           IN  /\ eligible \subseteq DOMAIN V2_SECTORS
               /\ IsFiniteSet(eligible)
               /\ RanksAreUnique(eligible, strength)
               /\ Selects(SelectedSectors(h, buffer, direction), h, strength)
<1> DEFINE strength == Strengths(h, buffer, direction)
           eligible == EligibleSectors(h, strength)
           R == Stronger(eligible, strength)
           move(i) == Move(direction, buffer[V2_SECTORS[i]],
                           h.sector_daily[V2_SECTORS[i]])
           ranked == [r \in 1 .. Cardinality(eligible) |->
                        CHOOSE x \in eligible :
                           Cardinality({y \in eligible :
                               \/ move(y) > move(x)
                               \/ move(y) = move(x) /\ y < x}) = r - 1]
<1>1. V2_SECTORS \in Seq(Sectors) /\ DOMAIN V2_SECTORS = 1 .. Len(V2_SECTORS)
      /\ Len(V2_SECTORS) \in Nat
  BY PlanAssumption, LenProperties
<1>2. \A i \in DOMAIN V2_SECTORS : V2_SECTORS[i] \in Sectors /\ i \in Int
  BY <1>1 DEF Sectors
<1>3. eligible \subseteq DOMAIN V2_SECTORS
  BY DEF EligibleSectors
<1>4. IsFiniteSet(eligible)
  <2>1. IsFiniteSet(DOMAIN V2_SECTORS)
    BY <1>1, FS_Interval
  <2> HIDE DEF eligible
  <2> QED BY <1>3, <2>1, FS_Subset
<1>5. \A i \in DOMAIN V2_SECTORS : strength[i] = move(i)
  BY DEF Strengths
<1>6. \A i \in eligible : move(i) \in Int
  <2> TAKE i \in eligible
  <2>1. V2_SECTORS[i] \in Sectors /\ V2_SECTORS[i] \in Keys
    BY <1>2, <1>3 DEF Keys
  <2>2. buffer[V2_SECTORS[i]] \in Seq(Candles)
    BY <2>1 DEF CanResolve
  <2>3. Len(buffer[V2_SECTORS[i]]) >= SnapshotCandles
    BY <2>1 DEF CanResolve, ReadyToResolve, Awaited
  <2>4. h.sector_daily[V2_SECTORS[i]] \in Seq(Candles)
    BY <2>1 DEF CanResolve, HistoryFits
  <2>5. h.sector_daily[V2_SECTORS[i]] # <<>>
    BY DEF EligibleSectors
  <2> HIDE DEF eligible
  <2> QED BY <2>2, <2>3, <2>4, <2>5, MoveType
<1> HIDE DEF strength, move
<1>7. \A i, j \in eligible :
         <<i, j>> \in R <=> (move(i) > move(j) \/ (move(i) = move(j) /\ i < j))
  <2>1. \A i \in eligible : strength[i] = move(i)
    BY <1>3, <1>5
  <2> HIDE DEF eligible
  <2> QED BY <2>1 DEF Stronger
<1>8. /\ \A x \in eligible : <<x, x>> \notin R
      /\ \A x, y \in eligible : x # y => <<x, y>> \in R \/ <<y, x>> \in R
      /\ \A x, y, z \in eligible : <<x, y>> \in R /\ <<y, z>> \in R
                                     => <<x, z>> \in R
  <2>1. \A i \in eligible : i \in Int
    BY <1>2, <1>3
  <2> HIDE DEF eligible, R
  <2> QED BY <1>6, <1>7, <2>1
<1>9. /\ \A i \in 1 .. Cardinality(eligible) :
            \E x \in eligible :
               Cardinality({y \in eligible : <<y, x>> \in R}) = i - 1
      /\ \A x, z \in eligible :
            Cardinality({y \in eligible : <<y, x>> \in R})
              = Cardinality({y \in eligible : <<y, z>> \in R}) => x = z
  <2> HIDE DEF eligible, R
  <2> QED BY <1>4, <1>8, EveryRankTaken
<1>10. \A x \in eligible :
          {y \in eligible : \/ move(y) > move(x)
                            \/ move(y) = move(x) /\ y < x}
             = {y \in eligible : <<y, x>> \in R}
  <2> HIDE DEF eligible, R
  <2> QED BY <1>7
<1>11. RanksSectors(ranked, eligible, strength)
  <2> SUFFICES ASSUME NEW r \in 1 .. Cardinality(eligible)
               PROVE  /\ ranked[r] \in eligible
                      /\ Cardinality({i \in eligible : <<i, ranked[r]>> \in R})
                            = r - 1
    BY DEF RanksSectors
  <2>1. \E x \in eligible :
           Cardinality({y \in eligible : \/ move(y) > move(x)
                                         \/ move(y) = move(x) /\ y < x}) = r - 1
    <3> HIDE DEF eligible, R
    <3> QED BY <1>9, <1>10
  <2>2. /\ ranked[r] \in eligible
        /\ Cardinality({y \in eligible :
                          \/ move(y) > move(ranked[r])
                          \/ move(y) = move(ranked[r]) /\ y < ranked[r]}) = r - 1
    <3>1. ranked[r] = CHOOSE x \in eligible :
                          Cardinality({y \in eligible :
                             \/ move(y) > move(x)
                             \/ move(y) = move(x) /\ y < x}) = r - 1
      OBVIOUS
    <3> HIDE DEF ranked, eligible, R
    <3> QED BY <2>1, <3>1
  <2> HIDE DEF ranked, eligible, R
  <2> QED BY <1>10, <2>2
<1>12. Len(ranked) = Cardinality(eligible)
  <2>1. Cardinality(eligible) \in Nat
    <3> QED BY <1>4, FS_CardinalityType
  <2> QED BY <2>1
<1>13. SelectedSectors(h, buffer, direction) =
          [r \in 1 .. Min({Len(ranked), Params.top_sectors}) |->
              V2_SECTORS[ranked[r]]]
  <2>1. eligible = {i \in DOMAIN V2_SECTORS :
                      /\ h.sector_daily[V2_SECTORS[i]] # <<>>
                      /\ move(i) > Params.sector_band}
    BY <1>5 DEF EligibleSectors
  <2> QED BY <2>1 DEF SelectedSectors, Sorted, move
<1>14. SelectedSectors(h, buffer, direction) =
          [r \in 1 .. Min({Cardinality(eligible), Params.top_sectors}) |->
              V2_SECTORS[ranked[r]]]
  BY <1>12, <1>13
<1> HIDE DEF ranked, eligible, R
<1>15. Selects(SelectedSectors(h, buffer, direction), h, strength)
  <2>1. eligible = EligibleSectors(h, strength)
    BY DEF eligible
  <2> QED BY <1>11, <1>14, <2>1 DEF Selects
<1>16. RanksAreUnique(eligible, strength)
  BY <1>9 DEF RanksAreUnique, R
<1> QED BY <1>3, <1>4, <1>15, <1>16 DEF eligible, strength

LEMMA SelectedSectorsType ==
    ASSUME NEW h, NEW buffer, CanResolve(h, buffer), NEW direction
    PROVE  SelectedSectors(h, buffer, direction) \in Seq(Sectors)
<1> DEFINE strength == Strengths(h, buffer, direction)
           eligible == EligibleSectors(h, strength)
           n == Min({Cardinality(eligible), Params.top_sectors})
<1>1. PICK ranked : /\ RanksSectors(ranked, eligible, strength)
                    /\ SelectedSectors(h, buffer, direction) =
                          [r \in 1 .. n |-> V2_SECTORS[ranked[r]]]
  <2>1. Selects(SelectedSectors(h, buffer, direction), h, strength)
    BY SectorsRanked
  <2> HIDE DEF strength
  <2> QED BY <2>1 DEF Selects
<1>2. eligible \subseteq DOMAIN V2_SECTORS /\ IsFiniteSet(eligible)
  BY SectorsRanked
<1>3. Cardinality(eligible) \in Nat /\ Params.top_sectors \in Nat
  <2> HIDE DEF eligible
  <2> QED BY <1>2, FS_CardinalityType, PlanAssumption DEF StrategyParams
<1>4. n \in Nat /\ n <= Cardinality(eligible)
  <2> DEFINE a == Cardinality(eligible)
             b == Params.top_sectors
  <2>1. a \in Nat /\ b \in Nat /\ n = Min({a, b})
    BY <1>3
  <2> HIDE DEF a, b, n
  <2>2. n \in {a, b} /\ n <= a
    BY <2>1, MinOfTwo
  <2>3. n \in Nat /\ n <= a
    BY <2>1, <2>2
  <2> QED BY <2>3 DEF a
<1>5. \A r \in 1 .. n : V2_SECTORS[ranked[r]] \in Sectors
  <2> TAKE r \in 1 .. n
  <2>1. r \in 1 .. Cardinality(eligible)
    <3> HIDE DEF eligible, n
    <3> QED BY <1>3, <1>4
  <2>2. ranked[r] \in DOMAIN V2_SECTORS
    BY <1>1, <1>2, <2>1 DEF RanksSectors
  <2> QED BY <2>2 DEF Sectors
<1> HIDE DEF n
<1> DEFINE selected == [r \in 1 .. n |-> V2_SECTORS[ranked[r]]]
<1>6. selected \in [1 .. n -> Sectors]
  BY <1>5
<1>7. selected \in Seq(Sectors)
  <2> HIDE DEF selected
  <2> QED BY <1>4, <1>6, SeqDef
<1> QED BY <1>1, <1>7

\* Only the sectors' snapshots matter.
LEMMA SameSelection ==
    ASSUME NEW h, NEW b1, CanResolve(h, b1), NEW b2, CanResolve(h, b2),
           \A n \in Sectors : SnapshotClose(b1[n]) = SnapshotClose(b2[n]),
           NEW direction
    PROVE  SelectedSectors(h, b1, direction) = SelectedSectors(h, b2, direction)
<1> DEFINE strength == Strengths(h, b1, direction)
           eligible == EligibleSectors(h, strength)
           n == Min({Cardinality(eligible), Params.top_sectors})
<1>1. strength = Strengths(h, b2, direction)
  <2>1. \A i \in DOMAIN V2_SECTORS : V2_SECTORS[i] \in Sectors
    BY DEF Sectors
  <2> QED BY <2>1 DEF Strengths, Move
<1>2. PICK r1 : /\ RanksSectors(r1, eligible, strength)
                /\ SelectedSectors(h, b1, direction) =
                      [r \in 1 .. n |-> V2_SECTORS[r1[r]]]
  <2>1. Selects(SelectedSectors(h, b1, direction), h, strength)
    BY SectorsRanked
  <2> HIDE DEF strength
  <2> QED BY <2>1 DEF Selects
<1>3. PICK r2 : /\ RanksSectors(r2, eligible, strength)
                /\ SelectedSectors(h, b2, direction) =
                      [r \in 1 .. n |-> V2_SECTORS[r2[r]]]
  <2> HIDE DEF strength
  <2>1. Selects(SelectedSectors(h, b2, direction), h, strength)
    BY <1>1, SectorsRanked
  <2> QED BY <2>1 DEF Selects
<1>4. /\ IsFiniteSet(eligible)
      /\ RanksAreUnique(eligible, strength)
  BY SectorsRanked
<1> HIDE DEF strength
<1>5. Cardinality(eligible) \in Nat /\ Params.top_sectors \in Nat
  <2> HIDE DEF eligible
  <2> QED BY <1>4, FS_CardinalityType, PlanAssumption DEF StrategyParams
<1>6. n \in Nat /\ n <= Cardinality(eligible)
  <2> DEFINE a == Cardinality(eligible)
             b == Params.top_sectors
  <2>1. a \in Nat /\ b \in Nat /\ n = Min({a, b})
    BY <1>5
  <2> HIDE DEF a, b, n
  <2>2. n \in {a, b} /\ n <= a
    BY <2>1, MinOfTwo
  <2>3. n \in Nat /\ n <= a
    BY <2>1, <2>2
  <2> QED BY <2>3 DEF a
<1>7. \A r \in 1 .. n : r1[r] = r2[r]
  <2> TAKE r \in 1 .. n
  <2>1. r \in 1 .. Cardinality(eligible)
    <3> HIDE DEF eligible, n
    <3> QED BY <1>5, <1>6
  <2>2. r1[r] \in eligible /\ r2[r] \in eligible
    BY <1>2, <1>3, <2>1 DEF RanksSectors
  <2>3. Cardinality({i \in eligible : <<i, r1[r]>> \in Stronger(eligible, strength)})
          = Cardinality({i \in eligible :
                           <<i, r2[r]>> \in Stronger(eligible, strength)})
    BY <1>2, <1>3, <2>1 DEF RanksSectors
  <2> HIDE DEF eligible
  <2> QED BY <1>4, <2>2, <2>3 DEF RanksAreUnique
<1> HIDE DEF n
<1> QED BY <1>2, <1>3, <1>7

-----------------------------------------------------------------------------
(* Plans.                                                                  *)

\* What holds of a plan between candles.
PlanFits(h, p) ==
    /\ p \in Plans(DOMAIN p.trackers)
    /\ DOMAIN p.trackers \subseteq LIQUID_UNIVERSE
    /\ p.resolved => ReadyToResolve(h, p.buffer)
    /\ ~p.resolved => ~p.gate_ok
    /\ p.gate_ok => p.direction \in Sides
    /\ ~p.gate_ok => DOMAIN p.trackers = {}
    /\ \A s \in DOMAIN p.trackers :
          p.trackers[s] = Tracked(p.direction, p.buffer[s])
    /\ \A k \in Keys : p.buffer[k] # <<>> => k \in Fed

LEMMA NewPlanFits ==
    ASSUME NEW h
    PROVE  PlanFits(h, NewDayPlan)
<1>1. DOMAIN NewDayPlan.trackers = {}
  <2>1. DOMAIN <<>> = {}
    BY EmptySeq, LenProperties
  <2> QED BY <2>1 DEF NewDayPlan
<1>2. NewDayPlan.trackers \in [{} -> Trackers]
  <2>1. <<>> \in Seq(Trackers)
    BY EmptySeq
  <2>2. <<>> \in [1 .. 0 -> Trackers]
    BY <2>1, EmptySeq, LenProperties
  <2>3. 1 .. 0 = {}
    OBVIOUS
  <2> QED BY <2>2, <2>3 DEF NewDayPlan
<1>3. /\ <<>> \in Seq(Candles)
      /\ <<>> \in Seq(Sectors)
  BY EmptySeq
<1>4. NewDayPlan \in Plans({})
  BY <1>2, <1>3 DEF NewDayPlan, Plans
<1> QED BY <1>1, <1>4 DEF PlanFits, NewDayPlan

\* What _resolve decides with those buffers.
DirectionOf(h, buffer) ==
    IF h.nifty_daily # <<>>
    THEN PickDirection(PctChange(SnapshotClose(buffer[NIFTY]),
                                 LatestClose(h.nifty_daily)))
    ELSE None

OkOf(h, buffer) ==
    GateOk(DirectionOf(h, buffer), LatestClose(h.vix_daily),
           LatestTrendPct(h.nifty_daily))

QualifiedOf(h, buffer, direction, sectors) ==
    {s \in UNION {ToSet(INDEX_CONSTITUENTS[n]) : n \in ToSet(sectors)} :
        Qualifies(h, buffer, direction, s)}

\* The plan is decided as its buffers say.
Decides(h, p) ==
    /\ p.direction = DirectionOf(h, p.buffer)
    /\ p.gate_ok <=> OkOf(h, p.buffer)
    /\ p.sectors = IF p.gate_ok THEN SelectedSectors(h, p.buffer, p.direction)
                   ELSE <<>>
    /\ p.gate_ok => DOMAIN p.trackers
                       = QualifiedOf(h, p.buffer, p.direction, p.sectors)

\* _resolve turns a plan that was waiting into one that fits.
LEMMA ResolveFits ==
    ASSUME NEW h, NEW p, p \in Plans({}), ~p.gate_ok, CanResolve(h, p.buffer),
           \A k \in Keys : p.buffer[k] # <<>> => k \in Fed
    PROVE  /\ PlanFits(h, Resolve(h, p))
           /\ Resolve(h, p).resolved
           /\ Resolve(h, p).buffer = p.buffer
           /\ p.sectors = <<>> => Decides(h, Resolve(h, p))
<1> DEFINE direction == DirectionOf(h, p.buffer)
           ok == OkOf(h, p.buffer)
           sectors == SelectedSectors(h, p.buffer, direction)
           qualified == QualifiedOf(h, p.buffer, direction, sectors)
           trackers == [s \in qualified |-> Backfilled(direction, p.buffer[s])]
<1>0. PICK g \in BOOLEAN : g = ok
  BY DEF OkOf, GateOk
<1> DEFINE decided == [p EXCEPT !.resolved = TRUE, !.direction = direction,
                                !.gate_ok = g]
           watching == [decided EXCEPT !.sectors = sectors, !.trackers = trackers]
<1>1. Resolve(h, p) = IF g THEN watching ELSE decided
  BY <1>0 DEF Resolve, DirectionOf, OkOf, QualifiedOf
<1>2. direction \in Sides \cup {None}
  BY DEF DirectionOf, PickDirection, Sides
<1>3. g => direction \in Sides
  BY <1>0, <1>2 DEF OkOf, GateOk
<1>4. sectors \in Seq(Sectors)
  BY SelectedSectorsType
<1>5. qualified \subseteq LIQUID_UNIVERSE /\ qualified \subseteq Listed
  BY DEF QualifiedOf, Qualifies, CanResolve, HistoryFits
<1>6. /\ p.buffer \in [Keys -> Seq(Candles)] /\ p.trackers \in [{} -> Trackers]
      /\ p.sectors \in Seq(Sectors)
  BY DEF Plans
<1>7. g => trackers \in [qualified -> Trackers]
  <2> SUFFICES ASSUME g, NEW s \in qualified
               PROVE  Backfilled(direction, p.buffer[s]) \in Trackers
    OBVIOUS
  <2>1. s \in Keys
    BY <1>5 DEF Keys
  <2>2. p.buffer[s] \in Seq(Candles)
    BY <1>6, <2>1
  <2> HIDE DEF direction, qualified
  <2> QED BY <1>3, <2>2, TrackedType DEF Backfilled
<1> HIDE DEF ok, direction, sectors, qualified
<1>8. DOMAIN trackers = qualified
  OBVIOUS
<1>9. \A s \in qualified : trackers[s] = Tracked(direction, p.buffer[s])
  BY DEF Backfilled
<1> HIDE DEF trackers
<1>10. ReadyToResolve(h, p.buffer)
  BY DEF CanResolve
<1>11. CASE g
  <2>1. /\ watching.buffer = p.buffer /\ watching.resolved
        /\ watching.direction = direction /\ watching.gate_ok
        /\ watching.trackers = trackers /\ watching.sectors = sectors
    BY <1>11 DEF Plans
  <2>2. watching \in Plans(qualified)
    BY <1>2, <1>4, <1>7, <1>11 DEF Plans
  <2> HIDE DEF watching
  <2>3. PlanFits(h, watching)
    BY <1>3, <1>5, <1>8, <1>9, <1>10, <1>11, <2>1, <2>2 DEF PlanFits
  <2>4. Decides(h, watching)
    BY <1>0, <1>8, <1>11, <2>1 DEF Decides, direction, ok, sectors, qualified
  <2> QED BY <1>1, <1>11, <2>1, <2>3, <2>4
<1>12. CASE ~g
  <2>1. /\ decided.buffer = p.buffer /\ decided.resolved
        /\ ~decided.gate_ok /\ decided.trackers = p.trackers
        /\ decided.direction = direction /\ decided.sectors = p.sectors
    BY <1>12 DEF Plans
  <2>2. decided \in Plans({})
    BY <1>2 DEF Plans
  <2>3. DOMAIN decided.trackers = {}
    BY <1>6, <2>1
  <2> HIDE DEF decided
  <2>4. PlanFits(h, decided)
    BY <1>10, <1>12, <2>1, <2>2, <2>3 DEF PlanFits
  <2>5. p.sectors = <<>> => Decides(h, decided)
    BY <1>0, <1>12, <2>1 DEF Decides, direction, ok
  <2> QED BY <1>1, <1>12, <2>1, <2>4, <2>5
<1> QED BY <1>11, <1>12

\* The snapshots of the awaited keys are the same.
SameSnapshots(h, b1, b2) ==
    \A k \in Awaited(h) : \A i \in 1 .. SnapshotCandles : b1[k][i] = b2[k][i]

\* They decide.
LEMMA SnapshotsDecide ==
    ASSUME NEW h, NEW b1, CanResolve(h, b1), NEW b2, CanResolve(h, b2),
           SameSnapshots(h, b1, b2)
    PROVE  /\ DirectionOf(h, b1) = DirectionOf(h, b2)
           /\ OkOf(h, b1) <=> OkOf(h, b2)
           /\ \A d : SelectedSectors(h, b1, d) = SelectedSectors(h, b2, d)
           /\ \A d, ns : QualifiedOf(h, b1, d, ns) = QualifiedOf(h, b2, d, ns)
<1>1. SnapshotCandles \in 1 .. SnapshotCandles
  BY ReferenceAssumption
<1>2. \A k \in Awaited(h) : SnapshotClose(b1[k]) = SnapshotClose(b2[k])
  BY <1>1 DEF SameSnapshots, SnapshotClose
<1>3. {NIFTY} \cup Sectors \subseteq Awaited(h)
  BY DEF Awaited
<1>4. DirectionOf(h, b1) = DirectionOf(h, b2)
  BY <1>2, <1>3 DEF DirectionOf
<1>5. OkOf(h, b1) <=> OkOf(h, b2)
  BY <1>4 DEF OkOf
<1>6. ASSUME NEW d
      PROVE  SelectedSectors(h, b1, d) = SelectedSectors(h, b2, d)
  BY <1>2, <1>3, SameSelection
<1>7. ASSUME NEW d, NEW s, s \in Listed, s \in DOMAIN h.stock_volume
      PROVE  Qualifies(h, b1, d, s) <=> Qualifies(h, b2, d, s)
  <2>1. s \in Awaited(h)
    BY <1>7 DEF Awaited, CanResolve, HistoryFits
  <2>2. Len(b1[s]) >= SnapshotCandles /\ Len(b2[s]) >= SnapshotCandles
    BY <2>1 DEF CanResolve, ReadyToResolve
  <2>3. OpeningVolume(b1[s]) = OpeningVolume(b2[s])
    BY <2>1 DEF OpeningVolume, SameSnapshots
  <2>4. Move(d, b1[s], h.stock_daily[s]) = Move(d, b2[s], h.stock_daily[s])
    BY <1>2, <2>1 DEF Move
  <2> QED BY <2>2, <2>3, <2>4 DEF Qualifies
<1>8. ASSUME NEW d, NEW s
      PROVE  Qualifies(h, b1, d, s) <=> Qualifies(h, b2, d, s)
  <2>1. CASE s \in Listed /\ s \in DOMAIN h.stock_volume
    BY <1>7, <2>1
  <2>2. CASE ~(s \in Listed /\ s \in DOMAIN h.stock_volume)
    BY <2>2 DEF Qualifies
  <2> QED BY <2>1, <2>2
<1>9. ASSUME NEW d, NEW ns
      PROVE  QualifiedOf(h, b1, d, ns) = QualifiedOf(h, b2, d, ns)
  BY <1>8 DEF QualifiedOf
<1> QED BY <1>4, <1>5, <1>6, <1>9

\* The buffers after a candle.
Buffered(buffer, k, c) == [buffer EXCEPT ![k] = Append(@, c)]

LEMMA BufferedType ==
    ASSUME NEW buffer \in [Keys -> Seq(Candles)], NEW k \in Fed, NEW c \in Candles
    PROVE  /\ Buffered(buffer, k, c) \in [Keys -> Seq(Candles)]
           /\ \A j \in Keys : Buffered(buffer, k, c)[j] =
                 IF j = k THEN Append(buffer[j], c) ELSE buffer[j]
           /\ \A j \in Keys : Len(buffer[j]) <= Len(Buffered(buffer, k, c)[j])
<1>1. k \in Keys
  BY EngineAssumption
<1>2. \A j \in Keys : /\ Append(buffer[j], c) \in Seq(Candles)
                      /\ Len(Append(buffer[j], c)) = Len(buffer[j]) + 1
                      /\ Len(buffer[j]) \in Nat
  BY AppendProperties, LenProperties
<1>3. \A j \in Keys : Buffered(buffer, k, c)[j] =
                 IF j = k THEN Append(buffer[j], c) ELSE buffer[j]
  BY DEF Buffered
<1>4. Buffered(buffer, k, c) \in [Keys -> Seq(Candles)]
  BY <1>1, <1>2 DEF Buffered
<1> QED BY <1>2, <1>3, <1>4

\* What a candle does to a plan that watches its stocks.
Watches(p, q, k, c) ==
    /\ q.resolved /\ q.direction = p.direction
    /\ q.gate_ok = p.gate_ok /\ q.sectors = p.sectors
    /\ DOMAIN q.trackers = DOMAIN p.trackers
    /\ \A s \in DOMAIN p.trackers :
          q.trackers[s] = IF s = k THEN OnCandle(p.trackers[s], c)
                          ELSE p.trackers[s]

\* A waiting plan with one more candle in its buffer.
Fuller(p, k, c) == [p EXCEPT !.buffer = Buffered(p.buffer, k, c)]

\* What a candle does to a plan that waits.
Gathers(h, p, q, k, c) ==
    /\ Fuller(p, k, c) \in Plans({})
    /\ ~Fuller(p, k, c).resolved /\ ~Fuller(p, k, c).gate_ok
    /\ Fuller(p, k, c).buffer = Buffered(p.buffer, k, c)
    /\ q.resolved => /\ q = Resolve(h, Fuller(p, k, c))
                     /\ CanResolve(h, Buffered(p.buffer, k, c))
    /\ ~q.resolved => q = Fuller(p, k, c)

\* What a candle does to a plan.
Advances(h, p, q, k, c) ==
    /\ q.buffer = Buffered(p.buffer, k, c)
    /\ p.resolved => Watches(p, q, k, c)
    /\ ~p.resolved => Gathers(h, p, q, k, c)

\* feed_candle: what it does to a plan that waits and to one that watches.
LEMMA FeedFits ==
    ASSUME NEW h, HistoryFits(h), NEW p, PlanFits(h, p),
           NEW k \in Fed, NEW c \in Candles,
           NEW q, q = FeedCandle(h, p, k, c)
    PROVE  /\ PlanFits(h, q)
           /\ q.buffer = Buffered(p.buffer, k, c)
           /\ p.resolved => Watches(p, q, k, c)
           /\ ~p.resolved => Gathers(h, p, q, k, c)
<1> DEFINE b == [p EXCEPT !.buffer[k] = Append(@, c)]
           buffer == Buffered(p.buffer, k, c)
<1>1. p \in Plans(DOMAIN p.trackers) /\ k \in Keys
  BY EngineAssumption DEF PlanFits
<1>2. /\ p.buffer \in [Keys -> Seq(Candles)]
      /\ p.trackers \in [DOMAIN p.trackers -> Trackers]
      /\ p.resolved \in BOOLEAN /\ p.gate_ok \in BOOLEAN
  BY <1>1 DEF Plans
<1>3. /\ buffer \in [Keys -> Seq(Candles)]
      /\ \A j \in Keys : buffer[j] = IF j = k THEN Append(p.buffer[j], c)
                                     ELSE p.buffer[j]
      /\ \A j \in Keys : Len(p.buffer[j]) <= Len(buffer[j])
  <2> HIDE DEF buffer
  <2> QED BY <1>2, BufferedType DEF buffer
<1>4. b = [p EXCEPT !.buffer = buffer]
  BY <1>1 DEF Plans, Buffered
<1> HIDE DEF buffer
<1>5. /\ b \in Plans(DOMAIN p.trackers)
      /\ b.buffer = buffer /\ b.resolved = p.resolved
      /\ b.direction = p.direction /\ b.gate_ok = p.gate_ok
      /\ b.sectors = p.sectors /\ b.trackers = p.trackers
  BY <1>1, <1>3, <1>4 DEF Plans
<1>6. \A j \in Keys : buffer[j] # <<>> => j \in Fed
  BY <1>3 DEF PlanFits
<1>7. q = IF ~p.resolved
          THEN IF ReadyToResolve(h, b.buffer) THEN Resolve(h, b) ELSE b
          ELSE IF k \in DOMAIN p.trackers
          THEN [b EXCEPT !.trackers[k] = OnCandle(@, c)]
          ELSE b
  BY DEF FeedCandle
<1> HIDE DEF b
<1>8. CASE ~p.resolved
  <2>1. DOMAIN p.trackers = {} /\ ~p.gate_ok
    BY <1>8 DEF PlanFits
  <2>2. b \in Plans({}) /\ ~b.gate_ok /\ ~b.resolved
    BY <1>5, <1>8, <2>1
  <2>3. CASE ReadyToResolve(h, b.buffer)
    <3>1. q = Resolve(h, b) /\ CanResolve(h, b.buffer)
      BY <1>3, <1>5, <1>7, <1>8, <2>3 DEF CanResolve
    <3>2. /\ PlanFits(h, Resolve(h, b))
          /\ Resolve(h, b).resolved
          /\ Resolve(h, b).buffer = b.buffer
      BY <1>5, <1>6, <2>2, <3>1, ResolveFits
    <3> QED BY <1>4, <1>5, <1>8, <2>2, <3>1, <3>2 DEF buffer, Gathers, Fuller
  <2>4. CASE ~ReadyToResolve(h, b.buffer)
    <3>1. q = b
      BY <1>7, <1>8, <2>4
    <3>2. PlanFits(h, b)
      BY <1>5, <1>6, <1>8, <2>1, <2>2 DEF PlanFits
    <3> QED BY <1>4, <1>5, <1>8, <2>2, <3>1, <3>2 DEF buffer, Gathers, Fuller
  <2> QED BY <2>3, <2>4
<1>9. CASE p.resolved
  <2>1. ReadyToResolve(h, buffer)
    <3>1. \A j \in Awaited(h) : j \in Keys /\ Len(p.buffer[j]) >= SnapshotCandles
      BY <1>9 DEF PlanFits, ReadyToResolve, Awaited, Keys
    <3>2. \A j \in Keys : Len(p.buffer[j]) \in Nat /\ Len(buffer[j]) \in Nat
      BY <1>2, <1>3, LenProperties
    <3>3. SnapshotCandles \in Nat
      BY ReferenceAssumption
    <3> QED BY <1>3, <3>1, <3>2, <3>3 DEF ReadyToResolve
  <2>2. /\ DOMAIN q.trackers = DOMAIN p.trackers
        /\ \A s \in DOMAIN p.trackers :
              q.trackers[s] = IF s = k THEN OnCandle(p.trackers[s], c)
                              ELSE p.trackers[s]
        /\ q \in Plans(DOMAIN p.trackers)
        /\ q.buffer = buffer /\ q.resolved
        /\ q.direction = p.direction /\ q.gate_ok = p.gate_ok
        /\ q.sectors = p.sectors
    <3>1. CASE k \in DOMAIN p.trackers
      <4>1. q = [b EXCEPT !.trackers[k] = OnCandle(@, c)]
        BY <1>7, <1>9, <3>1
      <4>2. OnCandle(p.trackers[k], c) \in Trackers
        BY <1>2, <3>1, OnCandleType
      <4> DEFINE trackers == [p.trackers EXCEPT ![k] = OnCandle(@, c)]
      <4>3. trackers \in [DOMAIN p.trackers -> Trackers]
        BY <1>2, <4>2
      <4>4. \A s \in DOMAIN p.trackers :
               trackers[s] = IF s = k THEN OnCandle(p.trackers[s], c)
                             ELSE p.trackers[s]
        BY <1>2
      <4>5. q = [b EXCEPT !.trackers = trackers]
        BY <1>5, <4>1 DEF Plans
      <4> HIDE DEF trackers
      <4>6. /\ q \in Plans(DOMAIN p.trackers)
            /\ q.buffer = b.buffer /\ q.resolved = b.resolved
            /\ q.direction = b.direction /\ q.gate_ok = b.gate_ok
            /\ q.sectors = b.sectors /\ q.trackers = trackers
        BY <1>5, <4>3, <4>5 DEF Plans
      <4> QED BY <1>5, <1>9, <4>3, <4>4, <4>6
    <3>2. CASE k \notin DOMAIN p.trackers
      <4>1. q = b
        BY <1>7, <1>9, <3>2
      <4> QED BY <1>2, <1>5, <1>9, <3>2, <4>1
    <3> QED BY <3>1, <3>2
  <2>3. \A s \in DOMAIN q.trackers : q.trackers[s] = Tracked(q.direction, q.buffer[s])
    <3> TAKE s \in DOMAIN q.trackers
    <3>1. s \in DOMAIN p.trackers /\ s \in Keys
      BY <2>2, EngineAssumption DEF PlanFits, Keys
    <3>2. p.trackers[s] = Tracked(p.direction, p.buffer[s])
      BY <3>1 DEF PlanFits
    <3>3. CASE s = k
      <4>1. buffer[s] = Append(p.buffer[s], c) /\ p.buffer[s] \in Seq(Candles)
        BY <1>2, <1>3, <3>1, <3>3
      <4>2. Tracked(p.direction, buffer[s])
               = OnCandle(Tracked(p.direction, p.buffer[s]), c)
        BY <4>1, TrackedUnrolled
      <4> QED BY <2>2, <3>1, <3>2, <3>3, <4>2
    <3>4. CASE s # k
      BY <1>3, <2>2, <3>1, <3>2, <3>4
    <3> QED BY <3>3, <3>4
  <2>4. PlanFits(h, q)
    BY <1>6, <1>9, <2>1, <2>2, <2>3 DEF PlanFits
  <2> QED BY <1>9, <2>2, <2>4 DEF buffer, Watches
<1> QED BY <1>8, <1>9, <1>2

-----------------------------------------------------------------------------
(* The state.                                                              *)

\* Where the exchange is.
ExchangeInv ==
    /\ tape \in DOMAIN Tapes
    /\ day \in Days
    /\ next \in [Fed -> Nat]
    /\ \A k \in Fed : 1 <= next[k] /\ next[k] <= Bars(k) + 1
    /\ held \subseteq Fed
    /\ \A k \in held : (next[k] = 1 /\ day > 1) \/ next[k] = Bars(k) + 1
    /\ gaps \in Nat /\ restarts \in Nat /\ gaps + restarts <= MaxFaults

\* What the process has, and what it has published.
ProcessInv ==
    /\ loadedOn \in 1 .. day
    /\ history = Histories[tape][loadedOn]
    /\ plansToday \in Nat
    /\ plan = None <=> currentDate = None
    /\ plan # None => currentDate \in 1 .. day /\ PlanFits(history, plan)
    /\ IsFiniteSet(signals)
    /\ \A x \in signals : /\ x.symbol \in LIQUID_UNIVERSE
                          /\ x.day \in 1 .. day /\ x.label \in Int

EngineInv == ExchangeInv /\ ProcessInv

LEMMA HistoryIsTyped ==
    ASSUME EngineInv
    PROVE  HistoryFits(history)
<1>1. loadedOn \in Days /\ tape \in DOMAIN Tapes
  BY EngineAssumption DEF EngineInv, ExchangeInv, ProcessInv, Days
<1> QED BY <1>1, HistoriesFit DEF EngineInv, ProcessInv

LEMMA LiveCandleType ==
    ASSUME NEW k \in Fed, NEW d \in Days, tape \in DOMAIN Tapes,
           NEW slot \in 1 .. Len(Tapes[tape][d][k])
    PROVE  /\ LiveCandle(k, d, slot) \in Candles
           /\ LiveCandle(k, d, slot).day = d
           /\ LiveCandle(k, d, slot).label = slot - UtcShift
<1>1. Tapes[tape][d][k][slot] \in BarRecords /\ Len(Tapes[tape][d][k]) \in Nat
  BY TapeType
<1>2. d \in Int /\ slot - UtcShift \in Int
  BY <1>1, EngineAssumption DEF Days
<1>3. LiveCandle(k, d, slot) \in Candles
  BY <1>1, <1>2, RowType DEF LiveCandle
<1> QED BY <1>3 DEF LiveCandle, Row

LEMMA PlanIsSome ==
    ASSUME NEW h, NEW p, PlanFits(h, p)
    PROVE  p # None
<1>1. DOMAIN p.trackers \subseteq Listed
  BY EngineAssumption DEF PlanFits
<1>2. p \in Plans(DOMAIN p.trackers)
  BY DEF PlanFits
<1> QED BY <1>1, <1>2, NoPlanAssumption

\* The plan that a candle finds.
Today(c) == IF c.day # currentDate THEN NewDayPlan ELSE plan

\* x is what candle c of stock k makes plan p publish.
IsSignalOf(x, p, k, c) ==
    /\ p.resolved /\ k \in DOMAIN p.trackers
    /\ p.trackers[k].breakout = None
    /\ OnCandle(p.trackers[k], c).breakout # None
    /\ x = SignalFor(k, p.direction, SectorFor(k, p.sectors),
                     BreakoutAt(p.trackers[k], c),
                     LatestAtrPct(history.stock_daily[k]))
    /\ x.symbol = k /\ x.day = c.day /\ x.label = c.label

\* One turn of the loop: the plan goes on from the one of the day, and what
\* is published is the breakout of a stock it watches.
LEMMA TurnFits ==
    ASSUME EngineInv, NEW k \in Fed, NEW c \in Candles, Turn(k, c)
    PROVE  /\ PlanFits(history, Today(c))
           /\ plan' = FeedCandle(history, Today(c), k, c)
           /\ PlanFits(history, plan') /\ plan' # None
           /\ currentDate' = c.day /\ currentDate' # None
           /\ Advances(history, Today(c), plan', k, c)
           /\ \/ signals' = signals
              \/ \E x : signals' = signals \cup {x} /\ IsSignalOf(x, Today(c), k, c)
<1> DEFINE today == Today(c)
           breakout == BreakoutIn(today, k, c)
<1>1. HistoryFits(history)
  BY HistoryIsTyped
<1>2. c.day \in Int /\ None \notin Int
  BY ReferenceAssumption DEF Candles
<1>3. PlanFits(history, today)
  <2>1. CASE c.day # currentDate
    BY <2>1, NewPlanFits DEF Today
  <2>2. CASE c.day = currentDate
    BY <1>2, <2>2 DEF Today, EngineInv, ProcessInv
  <2> QED BY <2>1, <2>2
<1>4. plan' = FeedCandle(history, today, k, c) /\ currentDate' = c.day
  BY DEF Turn, Today
<1>5. PlanFits(history, plan') /\ Advances(history, today, plan', k, c)
  <2> HIDE DEF today
  <2> QED BY <1>1, <1>3, <1>4, FeedFits DEF Advances
<1>6. plan' # None
  BY <1>5, PlanIsSome
<1>7. CASE signals' = signals
  BY <1>2, <1>3, <1>4, <1>5, <1>6, <1>7
<1>8. CASE signals' # signals
  <2>1. /\ breakout # None
        /\ signals' = signals \cup
             {SignalFor(k, plan'.direction, SectorFor(k, plan'.sectors), breakout,
                        LatestAtrPct(history.stock_daily[k]))}
    BY <1>4, <1>8 DEF Turn, Today
  <2> HIDE DEF today
  <2>2. /\ today.resolved /\ k \in DOMAIN today.trackers
        /\ today.trackers[k].breakout = None
        /\ breakout = OnCandle(today.trackers[k], c).breakout
    BY <2>1 DEF BreakoutIn
  <2>3. today.trackers[k] \in Trackers
    BY <1>3, <2>2 DEF PlanFits, Plans
  <2>4. breakout = BreakoutAt(today.trackers[k], c)
    BY <2>1, <2>2, <2>3, BreakoutOfCandle
  <2>5. plan'.direction = today.direction /\ plan'.sectors = today.sectors
    <3>1. today.resolved => Watches(today, plan', k, c)
      BY <1>5 DEF Advances
    <3> QED BY <2>2, <3>1 DEF Watches
  <2> DEFINE x == SignalFor(k, today.direction, SectorFor(k, today.sectors),
                            breakout, LatestAtrPct(history.stock_daily[k]))
  <2>6. x.symbol = k /\ x.day = c.day /\ x.label = c.label
    <3>1. breakout.day = c.day /\ breakout.label = c.label
      BY <2>4 DEF BreakoutAt
    <3> HIDE DEF breakout
    <3> QED BY <3>1 DEF SignalFor
  <2>7. IsSignalOf(x, today, k, c)
    <3>1. x = SignalFor(k, today.direction, SectorFor(k, today.sectors),
                        BreakoutAt(today.trackers[k], c),
                        LatestAtrPct(history.stock_daily[k]))
      BY <2>4
    <3>2. OnCandle(today.trackers[k], c).breakout # None
      BY <2>1, <2>2
    <3> HIDE DEF x, breakout
    <3> QED BY <2>2, <2>6, <3>1, <3>2 DEF IsSignalOf
  <2>8. signals' = signals \cup {x}
    BY <2>1, <2>5
  <2> HIDE DEF x
  <2>9. \E y : signals' = signals \cup {y} /\ IsSignalOf(y, today, k, c)
    BY <2>7, <2>8
  <2> QED BY <1>2, <1>3, <1>4, <1>5, <1>6, <2>9 DEF today
<1> QED BY <1>7, <1>8

LEMMA EngineInit == Init => EngineInv
<1> SUFFICES ASSUME Init PROVE EngineInv
  OBVIOUS
<1>1. 1 \in Days
  BY EngineAssumption DEF Days
<1>2. \A k \in Fed : Bars(k) \in Nat
  BY <1>1, TapeType DEF Init, Bars
<1>3. next \in [Fed -> Nat] /\ \A k \in Fed : next[k] = 1
  BY DEF Init
<1>4. ExchangeInv
  BY <1>1, <1>2, <1>3, EngineAssumption DEF Init, ExchangeInv
<1>5. ProcessInv
  <2>1. IsFiniteSet(signals)
    BY FS_EmptySet DEF Init
  <2>2. loadedOn \in 1 .. day
    BY DEF Init
  <2> QED BY <2>1, <2>2 DEF Init, ProcessInv
<1> QED BY <1>4, <1>5 DEF EngineInv

\* A turn keeps what the process has in order, whatever the exchange does.
LEMMA TurnKeepsProcessInv ==
    ASSUME EngineInv, NEW k \in Fed, NEW c \in Candles, Turn(k, c),
           c.day \in 1 .. day, UNCHANGED <<tape, day>>
    PROVE  ProcessInv'
<1>1. /\ PlanFits(history, Today(c))
      /\ PlanFits(history, plan') /\ plan' # None
      /\ currentDate' = c.day /\ currentDate' # None
      /\ \/ signals' = signals
         \/ \E x : signals' = signals \cup {x} /\ IsSignalOf(x, Today(c), k, c)
  BY TurnFits
<1>2. /\ loadedOn' = loadedOn /\ history' = history
      /\ plansToday' \in Nat
  BY DEF Turn, EngineInv, ProcessInv
<1>3. /\ IsFiniteSet(signals')
      /\ \A x \in signals' : /\ x.symbol \in LIQUID_UNIVERSE
                             /\ x.day \in 1 .. day /\ x.label \in Int
  <2>1. CASE signals' = signals
    BY <2>1 DEF EngineInv, ProcessInv
  <2>2. CASE signals' # signals
    <3>1. PICK x : signals' = signals \cup {x} /\ IsSignalOf(x, Today(c), k, c)
      BY <1>1, <2>2
    <3>2. x.symbol = k /\ x.day = c.day /\ x.label = c.label
      BY <3>1 DEF IsSignalOf
    <3>3. k \in LIQUID_UNIVERSE
      BY <1>1, <3>1 DEF IsSignalOf, PlanFits
    <3>4. c.label \in Int
      BY DEF Candles
    <3>5. IsFiniteSet(signals')
      BY <3>1, FS_AddElement DEF EngineInv, ProcessInv
    <3> QED BY <3>1, <3>2, <3>3, <3>4, <3>5 DEF EngineInv, ProcessInv
  <2> QED BY <2>1, <2>2
<1>4. currentDate' \in 1 .. day'
  BY <1>1
<1> QED BY <1>1, <1>2, <1>3, <1>4 DEF EngineInv, ProcessInv

\* The candle a step hands to the process.
LEMMA CandleTurns ==
    ASSUME EngineInv, NEW k \in Fed, Candle(k)
    PROVE  /\ next[k] \in 1 .. Bars(k) /\ k \notin held
           /\ LiveCandle(k, day, next[k]) \in Candles
           /\ LiveCandle(k, day, next[k]).day = day
           /\ LiveCandle(k, day, next[k]).label = next[k] - UtcShift
           /\ Turn(k, LiveCandle(k, day, next[k]))
           /\ UNCHANGED <<tape, day, held, gaps>>
           /\ next' = [next EXCEPT ![k] = @ + 1]
<1>1. tape \in DOMAIN Tapes /\ day \in Days /\ Bars(k) \in Nat
  BY TapeType DEF EngineInv, ExchangeInv, Bars
<1>2. next[k] \in 1 .. Bars(k) /\ k \notin held
  BY <1>1 DEF Candle, Passes, EngineInv, ExchangeInv
<1>3. /\ LiveCandle(k, day, next[k]) \in Candles
      /\ LiveCandle(k, day, next[k]).day = day
      /\ LiveCandle(k, day, next[k]).label = next[k] - UtcShift
  <2>1. next[k] \in 1 .. Len(Tapes[tape][day][k])
    BY <1>2 DEF Bars
  <2> QED BY <1>1, <2>1, LiveCandleType
<1> QED BY <1>2, <1>3 DEF Candle

LEMMA StaleCandleTurns ==
    ASSUME EngineInv, NEW k \in Fed, StaleCandle(k)
    PROVE  LET last == Len(Tapes[tape][day - 1][k])
           IN  /\ k \in held /\ next[k] = 1 /\ day - 1 \in Days
               /\ last \in Nat /\ last >= 1
               /\ LiveCandle(k, day - 1, last) \in Candles
               /\ LiveCandle(k, day - 1, last).day = day - 1
               /\ LiveCandle(k, day - 1, last).label = last - UtcShift
               /\ Turn(k, LiveCandle(k, day - 1, last))
               /\ UNCHANGED <<tape, day, next, gaps>>
               /\ held' = held \ {k}
<1> DEFINE last == Len(Tapes[tape][day - 1][k])
<1>1. tape \in DOMAIN Tapes /\ day - 1 \in Days
  BY EngineAssumption DEF EngineInv, ExchangeInv, StaleCandle, Days
<1>2. last \in Nat /\ last >= 1 /\ last \in 1 .. Len(Tapes[tape][day - 1][k])
  <2>1. last \in Nat /\ last # 0
    BY <1>1, TapeType
  <2> QED BY <2>1
<1>3. /\ LiveCandle(k, day - 1, last) \in Candles
      /\ LiveCandle(k, day - 1, last).day = day - 1
      /\ LiveCandle(k, day - 1, last).label = last - UtcShift
  <2> HIDE DEF last
  <2> QED BY <1>1, <1>2, LiveCandleType
<1> QED BY <1>1, <1>2, <1>3 DEF StaleCandle

LEMMA EngineNext == EngineInv /\ [Next]_vars => EngineInv'
<1> SUFFICES ASSUME EngineInv, [Next]_vars PROVE EngineInv'
  OBVIOUS
<1>1. /\ tape \in DOMAIN Tapes /\ day \in Days
      /\ next \in [Fed -> Nat] /\ held \subseteq Fed
      /\ \A k \in Fed : 1 <= next[k] /\ next[k] <= Bars(k) + 1
      /\ \A k \in held : (next[k] = 1 /\ day > 1) \/ next[k] = Bars(k) + 1
      /\ gaps \in Nat /\ restarts \in Nat /\ gaps + restarts <= MaxFaults
  BY DEF EngineInv, ExchangeInv
<1>2. day \in Nat /\ 1 <= day /\ day <= NumDays /\ NumDays \in Nat /\ MaxFaults \in Nat
  BY <1>1, EngineAssumption DEF Days
<1>3. \A k \in Fed : Bars(k) \in Nat
  BY <1>1, TapeType DEF Bars
<1>4. ASSUME NEW k \in Fed, Candle(k)
      PROVE  EngineInv'
  <2> DEFINE c == LiveCandle(k, day, next[k])
  <2>1. next[k] \in 1 .. Bars(k) /\ k \notin held
    BY <1>4, CandleTurns
  <2>2. c \in Candles /\ c.day = day
    BY <1>4, CandleTurns
  <2>3. Turn(k, c) /\ UNCHANGED <<tape, day, held, gaps>>
        /\ next' = [next EXCEPT ![k] = @ + 1]
    BY <1>4, CandleTurns
  <2> HIDE DEF c
  <2>4. ProcessInv'
    BY <1>2, <2>2, <2>3, TurnKeepsProcessInv
  <2>5. restarts' = restarts
    BY <2>3 DEF Turn
  <2>6. \A j \in Fed : Bars(j)' = Bars(j)
    BY <2>3 DEF Bars
  <2>7. ExchangeInv'
    BY <1>1, <1>2, <1>3, <2>1, <2>3, <2>5, <2>6 DEF ExchangeInv, Bars
  <2> QED BY <2>4, <2>7 DEF EngineInv
<1>5. ASSUME NEW k \in Fed, Skip(k)
      PROVE  EngineInv'
  <2>1. k \notin held /\ next[k] <= Bars(k) /\ gaps + restarts < MaxFaults
    BY <1>5 DEF Skip, Passes
  <2>2. /\ UNCHANGED <<tape, day, restarts, process, signals, loadedOn, plansToday>>
        /\ next' = [next EXCEPT ![k] = @ + 1] /\ gaps' = gaps + 1
        /\ (held' = held \/ (next[k] = Bars(k) /\ held' = held \cup {k}))
    BY <1>5 DEF Skip
  <2>3. \A j \in Fed : Bars(j)' = Bars(j)
    BY <2>2 DEF Bars
  <2>4. ProcessInv'
    BY <2>2 DEF EngineInv, ProcessInv, process
  <2>5. ExchangeInv'
    BY <1>1, <1>2, <1>3, <2>1, <2>2, <2>3 DEF ExchangeInv
  <2> QED BY <2>4, <2>5 DEF EngineInv
<1>6. ASSUME NEW k \in Fed, StaleCandle(k)
      PROVE  EngineInv'
  <2> DEFINE c == LiveCandle(k, day - 1, Len(Tapes[tape][day - 1][k]))
  <2>1. day - 1 \in Days
    BY <1>6, StaleCandleTurns
  <2>2. day - 1 \in 1 .. day
    BY <1>2, <2>1 DEF Days
  <2>5. c \in Candles /\ c.day = day - 1
    BY <1>6, StaleCandleTurns
  <2>6. Turn(k, c) /\ UNCHANGED <<tape, day, next, gaps>> /\ held' = held \ {k}
    BY <1>6, StaleCandleTurns
  <2> HIDE DEF c
  <2>7. ProcessInv'
    BY <2>2, <2>5, <2>6, TurnKeepsProcessInv
  <2>8. restarts' = restarts
    BY <2>6 DEF Turn
  <2>9. \A j \in Fed : Bars(j)' = Bars(j)
    BY <2>6 DEF Bars
  <2>10. ExchangeInv'
    BY <1>1, <2>6, <2>8, <2>9 DEF ExchangeInv
  <2> QED BY <2>7, <2>10 DEF EngineInv
<1>7. CASE Restart
  <2>1. /\ gaps + restarts < MaxFaults /\ restarts' = restarts + 1
        /\ history' = Histories[tape][day] /\ loadedOn' = day
        /\ plan' = None /\ currentDate' = None
        /\ UNCHANGED <<tape, day, next, held, gaps, signals, plansToday>>
    BY <1>7 DEF Restart, exchange
  <2>2. \A j \in Fed : Bars(j)' = Bars(j)
    BY <2>1 DEF Bars
  <2>3. ProcessInv'
    <3>1. day \in 1 .. day
      BY <1>2
    <3> QED BY <2>1, <3>1 DEF EngineInv, ProcessInv
  <2>4. ExchangeInv'
    BY <1>1, <1>2, <2>1, <2>2 DEF ExchangeInv
  <2> QED BY <2>3, <2>4 DEF EngineInv
<1>8. CASE NextDay
  <2>1. /\ DayOver /\ day < NumDays /\ day' = day + 1
        /\ next' = [k \in Fed |-> 1] /\ plansToday' = 0
        /\ UNCHANGED <<tape, held, gaps, restarts, history, plan, currentDate,
                       signals, loadedOn>>
    BY <1>8 DEF NextDay, process
  <2>2. day' \in Days /\ 1 .. day \subseteq 1 .. day'
    BY <1>2, <2>1 DEF Days
  <2>3. \A j \in Fed : Bars(j)' \in Nat
    BY <1>1, <2>1, <2>2, TapeType DEF Bars
  <2>4. ProcessInv'
    <3>1. loadedOn \in 1 .. day' /\ (currentDate \in 1 .. day => currentDate \in 1 .. day')
          /\ \A x \in signals : x.day \in 1 .. day'
      BY <2>2 DEF EngineInv, ProcessInv
    <3> QED BY <2>1, <3>1 DEF EngineInv, ProcessInv
  <2>5. ExchangeInv'
    BY <1>1, <1>2, <2>1, <2>2, <2>3 DEF ExchangeInv
  <2> QED BY <2>4, <2>5 DEF EngineInv
<1>9. CASE UNCHANGED vars
  <2>1. \A j \in Fed : Bars(j)' = Bars(j)
    BY <1>9 DEF Bars, vars, exchange
  <2> QED BY <1>9, <2>1
       DEF EngineInv, ExchangeInv, ProcessInv, vars, exchange, process, ghosts
<1> QED BY <1>4, <1>5, <1>6, <1>7, <1>8, <1>9 DEF Next, Finished

LEMMA EngineInvariant == Spec => []EngineInv
<1> QED BY EngineInit, EngineNext, PTL DEF Spec

LEMMA EngineInvTypes == EngineInv => TypeOK
<1> SUFFICES ASSUME EngineInv PROVE TypeOK
  OBVIOUS
<1>1. plan # None => /\ PlanFits(history, plan) /\ currentDate \in 1 .. day
  BY DEF EngineInv, ProcessInv
<1>2. plan # None => ToSet(plan.sectors) \subseteq Sectors
  <2>1. plan # None => plan.sectors \in Seq(Sectors)
    BY <1>1 DEF PlanFits, Plans
  <2> QED BY <2>1, ElementOfSeq, LenProperties DEF ToSet
<1>3. plan # None => (plan.gate_ok => plan.resolved /\ plan.direction # None)
  BY <1>1, TrackerAssumption DEF PlanFits
<1> QED BY <1>1, <1>2, <1>3 DEF PlanFits, EngineInv, ExchangeInv, ProcessInv, TypeOK

(* The engine keeps to its types: a plan buffers only what is subscribed   *)
(* to, watches only liquid stocks of the sectors it chose, passes the gate *)
(* only with a direction, and nothing is signalled for a day to come.      *)
THEOREM TypesHold == Spec => []TypeOK
<1> QED BY EngineInvariant, EngineInvTypes, PTL

(* Backfilling and streaming together miss nothing: whatever the order of  *)
(* the candles, the tracker of a qualified stock is what it would be had   *)
(* it watched the stock from its first buffered candle.                    *)
THEOREM NoCandleIsMissed == Spec => []TrackersMissNothing
<1>1. EngineInv => TrackersMissNothing
  BY DEF EngineInv, ProcessInv, PlanFits, TrackersMissNothing
<1> QED BY <1>1, EngineInvariant, PTL

-----------------------------------------------------------------------------
(* At most one signal a stock and day.                                     *)

TodaysSignalsOf(s) == {x \in signals : x.symbol = s /\ x.day = day}

\* Whether the plan of the day may still signal the stock.
MaySignal(s) ==
    /\ plan # None /\ currentDate = day
    /\ ~plan.resolved \/ (s \in DOMAIN plan.trackers
                           /\ plan.trackers[s].breakout = None)

\* A stock is signalled at most once for each plan of the day, and the plan
\* that may still signal it has not.
OnceInv ==
    \A s \in Fed : Cardinality(TodaysSignalsOf(s))
                      + (IF MaySignal(s) THEN 1 ELSE 0) <= plansToday

LEMMA TodaysSignalsAreFew ==
    ASSUME EngineInv
    PROVE  \A s : IsFiniteSet(TodaysSignalsOf(s))
                  /\ Cardinality(TodaysSignalsOf(s)) \in Nat
<1> TAKE s
<1>1. TodaysSignalsOf(s) \subseteq signals
  BY DEF TodaysSignalsOf
<1> QED BY <1>1, FS_Subset, FS_CardinalityType DEF EngineInv, ProcessInv

LEMMA TurnKeepsOnce ==
    ASSUME EngineInv, EngineInv', OnceInv, NEW k \in Fed, NEW c \in Candles,
           Turn(k, c), day' = day, c.day = day \/ c.day = day - 1
    PROVE  OnceInv'
<1> DEFINE today == Today(c)
<1>1. /\ PlanFits(history, today) /\ PlanFits(history, plan') /\ plan' # None
      /\ currentDate' = c.day
      /\ Advances(history, today, plan', k, c)
      /\ \/ signals' = signals
         \/ \E x : signals' = signals \cup {x} /\ IsSignalOf(x, today, k, c)
  BY TurnFits
<1>2. \A s : /\ IsFiniteSet(TodaysSignalsOf(s))
             /\ Cardinality(TodaysSignalsOf(s)) \in Nat
  BY TodaysSignalsAreFew
<1>3. day \in Nat /\ plansToday \in Nat
  BY DEF EngineInv, ExchangeInv, ProcessInv, Days
<1>4. plansToday' = IF c.day # currentDate THEN plansToday + 1 ELSE plansToday
  BY DEF Turn
<1> SUFFICES ASSUME NEW s \in Fed
             PROVE  Cardinality(TodaysSignalsOf(s))'
                       + (IF MaySignal(s)' THEN 1 ELSE 0) <= plansToday'
  BY DEF OnceInv
<1> DEFINE now == TodaysSignalsOf(s)
<1>5. /\ Cardinality(now) + (IF MaySignal(s) THEN 1 ELSE 0) <= plansToday
      /\ IsFiniteSet(now) /\ Cardinality(now) \in Nat
  BY <1>2 DEF OnceInv
<1>6. today.resolved => /\ c.day = currentDate /\ today = plan
  BY DEF Today, NewDayPlan
<1>7. CASE now' = now
  <2>1. CASE c.day # currentDate
    BY <1>3, <1>4, <1>5, <1>7, <2>1
  <2>2. CASE c.day = currentDate
    <3>1. today = plan
      BY <2>2 DEF Today
    <3>2. MaySignal(s)' => MaySignal(s)
      <4>1. SUFFICES ASSUME MaySignal(s)' PROVE MaySignal(s)
        OBVIOUS
      <4>2. plan # None /\ currentDate = day
        BY <1>1, <2>2, <3>1, <4>1, PlanIsSome DEF MaySignal
      <4>3. CASE plan.resolved
        <5>1. Watches(plan, plan', k, c)
          BY <1>1, <3>1, <4>3 DEF Advances
        <5>2. /\ s \in DOMAIN plan.trackers
              /\ plan'.trackers[s].breakout = None
              /\ plan'.trackers[s] = IF s = k THEN OnCandle(plan.trackers[s], c)
                                     ELSE plan.trackers[s]
          BY <4>1, <5>1 DEF Watches, MaySignal
        <5>3. plan.trackers[s].breakout = None
          BY <5>2 DEF OnCandle
        <5> QED BY <4>2, <5>2, <5>3 DEF MaySignal
      <4>4. CASE ~plan.resolved
        BY <4>2, <4>4 DEF MaySignal
      <4> QED BY <4>3, <4>4
    <3> HIDE DEF now
    <3>3. Cardinality(now') + (IF MaySignal(s)' THEN 1 ELSE 0) <= plansToday'
      BY <1>3, <1>4, <1>5, <1>7, <2>2, <3>2
    <3> QED BY <3>3 DEF now
  <2> QED BY <2>1, <2>2
<1>8. CASE now' # now
  <2>1. signals' # signals
    BY <1>8 DEF TodaysSignalsOf
  <2>2. PICK x : signals' = signals \cup {x} /\ IsSignalOf(x, today, k, c)
    BY <1>1, <2>1
  <2>3. /\ today.resolved /\ k \in DOMAIN today.trackers
        /\ today.trackers[k].breakout = None
        /\ OnCandle(today.trackers[k], c).breakout # None
        /\ x.symbol = k /\ x.day = c.day
    BY <2>2 DEF IsSignalOf
  <2>4. k = s /\ c.day = day
    BY <1>8, <2>2, <2>3 DEF TodaysSignalsOf
  <2>5. now' = now \cup {x}
    BY <2>2, <2>3, <2>4 DEF TodaysSignalsOf
  <2>6. today = plan /\ currentDate = day
    BY <1>6, <2>3, <2>4
  <2>7. MaySignal(s)
    BY <1>1, <2>3, <2>4, <2>6, PlanIsSome DEF MaySignal
  <2>8. ~MaySignal(s)'
    <3>1. Watches(plan, plan', k, c)
      BY <1>1, <2>3, <2>6 DEF Advances
    <3> QED BY <2>3, <2>4, <2>6, <3>1 DEF Watches, MaySignal
  <2>9. Cardinality(now') <= Cardinality(now) + 1 /\ Cardinality(now') \in Nat
    <3> HIDE DEF now
    <3>1. Cardinality(now \cup {x}) = IF x \in now THEN Cardinality(now)
                                      ELSE Cardinality(now) + 1
      BY <1>5, FS_AddElement
    <3> QED BY <1>5, <2>5, <3>1
  <2>10. plansToday' = plansToday
    BY <1>4, <2>4, <2>6
  <2> HIDE DEF now
  <2>11. Cardinality(now)' = Cardinality(now')
    OBVIOUS
  <2>12. Cardinality(now') + (IF MaySignal(s)' THEN 1 ELSE 0) <= plansToday'
    BY <1>3, <1>5, <2>7, <2>8, <2>9, <2>10
  <2> QED BY <2>12 DEF now
<1> QED BY <1>7, <1>8

LEMMA OnceNext == EngineInv /\ EngineInv' /\ OnceInv /\ [Next]_vars => OnceInv'
<1> SUFFICES ASSUME EngineInv, EngineInv', OnceInv, [Next]_vars PROVE OnceInv'
  OBVIOUS
<1>1. \A s : /\ IsFiniteSet(TodaysSignalsOf(s))
             /\ Cardinality(TodaysSignalsOf(s)) \in Nat
  BY TodaysSignalsAreFew
<1>2. tape \in DOMAIN Tapes /\ day \in Days /\ plansToday \in Nat /\ day \in Nat
  BY DEF EngineInv, ExchangeInv, ProcessInv, Days
<1>3. ASSUME NEW k \in Fed, Candle(k)
      PROVE  OnceInv'
  <2> DEFINE c == LiveCandle(k, day, next[k])
  <2>1. c \in Candles /\ c.day = day /\ Turn(k, c) /\ day' = day
    BY <1>3, CandleTurns
  <2> HIDE DEF c
  <2> QED BY <2>1, TurnKeepsOnce
<1>4. ASSUME NEW k \in Fed, StaleCandle(k)
      PROVE  OnceInv'
  <2> DEFINE c == LiveCandle(k, day - 1, Len(Tapes[tape][day - 1][k]))
  <2>1. c \in Candles /\ c.day = day - 1 /\ Turn(k, c) /\ day' = day
    BY <1>4, StaleCandleTurns
  <2> HIDE DEF c
  <2> QED BY <2>1, TurnKeepsOnce
<1>5. CASE Restart
  <2>1. \A s : TodaysSignalsOf(s)' = TodaysSignalsOf(s) /\ ~MaySignal(s)'
    BY <1>5 DEF Restart, exchange, TodaysSignalsOf, MaySignal
  <2>2. plansToday' = plansToday
    BY <1>5 DEF Restart
  <2> QED BY <1>1, <1>2, <2>1, <2>2 DEF OnceInv
<1>6. CASE NextDay
  <2>1. day' = day + 1 /\ UNCHANGED <<plan, currentDate, signals>> /\ plansToday' = 0
    BY <1>6 DEF NextDay, process
  <2>2. \A x \in signals : x.day # day'
    BY <1>2, <2>1 DEF EngineInv, ProcessInv
  <2>3. \A s : TodaysSignalsOf(s)' = {}
    BY <2>1, <2>2 DEF TodaysSignalsOf
  <2>4. \A s : ~MaySignal(s)'
    BY <1>2, <2>1 DEF MaySignal, EngineInv, ProcessInv
  <2> QED BY <2>1, <2>3, <2>4, FS_EmptySet DEF OnceInv
<1>7. ASSUME UNCHANGED <<day, plan, currentDate, signals, plansToday>>
      PROVE  OnceInv'
  BY <1>7 DEF OnceInv, TodaysSignalsOf, MaySignal
<1>8. ASSUME NEW k \in Fed, Skip(k)
      PROVE  OnceInv'
  BY <1>7, <1>8 DEF Skip, process
<1>9. CASE UNCHANGED vars
  BY <1>7, <1>9 DEF vars, exchange, process, ghosts
<1> QED BY <1>3, <1>4, <1>5, <1>6, <1>8, <1>9 DEF Next, Finished

(* A stock is signalled at most once for each time its day was begun, so   *)
(* at most once unless a restart or a late bar makes the day begin again.  *)
THEOREM OneSignalADay == Spec => []OneSignalPerStockAndDay
<1>1. Init => OnceInv
  <2>1. Init => \A s : TodaysSignalsOf(s) = {} /\ ~MaySignal(s)
    BY DEF Init, TodaysSignalsOf, MaySignal
  <2> QED BY <2>1, FS_EmptySet DEF Init, OnceInv
<1>2. EngineInv /\ OnceInv => OneSignalPerStockAndDay
  <2> SUFFICES ASSUME EngineInv, OnceInv, NEW s \in Fed
               PROVE  Cardinality({x \in TodaysSignals : x.symbol = s}) <= plansToday
    BY DEF OneSignalPerStockAndDay
  <2>1. {x \in TodaysSignals : x.symbol = s} = TodaysSignalsOf(s)
    BY DEF TodaysSignals, TodaysSignalsOf
  <2>2. Cardinality(TodaysSignalsOf(s)) \in Nat /\ plansToday \in Nat
    BY TodaysSignalsAreFew DEF EngineInv, ProcessInv
  <2> QED BY <2>1, <2>2 DEF OnceInv
<1> QED BY <1>1, <1>2, EngineInvariant, OnceNext, PTL DEF Spec

-----------------------------------------------------------------------------
(* The decision and the order of arrival.                                  *)

\* A plan has chosen nothing before it is decided, and then what its buffers
\* say, however they have grown since.
IsDecided(h, p) ==
    /\ ~p.resolved => p.sectors = <<>>
    /\ p.resolved => Decides(h, p)

DecisionInv == plan # None => IsDecided(history, plan)

LEMMA FeedKeepsDecision ==
    ASSUME NEW h, HistoryFits(h), NEW p, PlanFits(h, p), IsDecided(h, p),
           NEW k \in Fed, NEW c \in Candles,
           NEW q, PlanFits(h, q), Advances(h, p, q, k, c)
    PROVE  IsDecided(h, q)
<1>1. /\ p.buffer \in [Keys -> Seq(Candles)]
      /\ q.buffer \in [Keys -> Seq(Candles)]
      /\ q.buffer = Buffered(p.buffer, k, c)
  BY DEF PlanFits, Plans, Advances
<1>2. CASE p.resolved
  <2>1. Watches(p, q, k, c) /\ Decides(h, p)
    BY <1>2 DEF Advances, IsDecided
  <2>2. p.resolved /\ q.resolved
    BY <1>2, <2>1 DEF Watches
  <2>3. CanResolve(h, p.buffer) /\ CanResolve(h, q.buffer)
    BY <1>1, <2>2 DEF CanResolve, PlanFits
  <2>4. SameSnapshots(h, p.buffer, q.buffer)
    <3> SUFFICES ASSUME NEW j \in Awaited(h), NEW i \in 1 .. SnapshotCandles
                 PROVE  p.buffer[j][i] = q.buffer[j][i]
      BY DEF SameSnapshots
    <3>1. j \in Keys
      BY DEF Awaited, Keys
    <3>2. Len(p.buffer[j]) >= SnapshotCandles /\ SnapshotCandles \in Nat
      BY <2>3, ReferenceAssumption DEF CanResolve, ReadyToResolve
    <3>3. p.buffer[j] \in Seq(Candles) /\ Len(p.buffer[j]) \in Nat
      BY <1>1, <3>1, LenProperties
    <3>4. q.buffer[j] = IF j = k THEN Append(p.buffer[j], c) ELSE p.buffer[j]
      <4> DEFINE buffer == p.buffer
      <4>1. buffer \in [Keys -> Seq(Candles)] /\ q.buffer = Buffered(buffer, k, c)
        BY <1>1
      <4> HIDE DEF buffer
      <4>2. q.buffer[j] = IF j = k THEN Append(buffer[j], c) ELSE buffer[j]
        BY <3>1, <4>1, BufferedType
      <4> QED BY <4>2 DEF buffer
    <3>5. i \in 1 .. Len(p.buffer[j])
      BY <3>2, <3>3
    <3>6. Append(p.buffer[j], c)[i] = p.buffer[j][i]
      BY <3>3, <3>5, AppendProperties
    <3> QED BY <3>4, <3>6
  <2>5. /\ DirectionOf(h, p.buffer) = DirectionOf(h, q.buffer)
        /\ OkOf(h, p.buffer) <=> OkOf(h, q.buffer)
        /\ \A d : SelectedSectors(h, p.buffer, d) = SelectedSectors(h, q.buffer, d)
        /\ \A d, ns : QualifiedOf(h, p.buffer, d, ns) = QualifiedOf(h, q.buffer, d, ns)
    BY <2>3, <2>4, SnapshotsDecide
  <2> QED BY <2>1, <2>2, <2>5 DEF Watches, Decides, IsDecided
<1>3. CASE ~p.resolved
  <2> DEFINE b == Fuller(p, k, c)
  <2>1. /\ b \in Plans({}) /\ ~b.resolved /\ ~b.gate_ok
        /\ b.buffer = q.buffer
        /\ q.resolved => q = Resolve(h, b) /\ CanResolve(h, q.buffer)
        /\ ~q.resolved => q = b
    BY <1>1, <1>3 DEF Advances, Gathers
  <2>2. b.sectors = <<>>
    <3>1. p.sectors = <<>> /\ p \in Plans(DOMAIN p.trackers)
      BY <1>3 DEF IsDecided, PlanFits
    <3> QED BY <3>1 DEF Fuller, Plans
  <2>3. \A j \in Keys : b.buffer[j] # <<>> => j \in Fed
    BY <2>1 DEF PlanFits
  <2> HIDE DEF b
  <2>4. CASE q.resolved
    <3>1. Decides(h, Resolve(h, b))
      BY <2>1, <2>2, <2>3, <2>4, ResolveFits
    <3> QED BY <2>1, <2>4, <3>1 DEF IsDecided
  <2>5. CASE ~q.resolved
    BY <2>1, <2>2, <2>5 DEF IsDecided
  <2> QED BY <2>4, <2>5
<1> QED BY <1>2, <1>3

LEMMA TurnKeepsDecision ==
    ASSUME EngineInv, DecisionInv, NEW k \in Fed, NEW c \in Candles, Turn(k, c)
    PROVE  DecisionInv'
<1> DEFINE today == Today(c)
<1>1. /\ PlanFits(history, today) /\ PlanFits(history, plan')
      /\ Advances(history, today, plan', k, c)
  BY TurnFits
<1>2. IsDecided(history, today)
  <2>1. CASE c.day # currentDate
    BY <2>1 DEF Today, NewDayPlan, IsDecided
  <2>2. CASE c.day = currentDate
    <3>1. today = plan
      BY <2>2 DEF Today
    <3> QED BY <1>1, <3>1, PlanIsSome DEF DecisionInv
  <2> QED BY <2>1, <2>2
<1>3. HistoryFits(history) /\ history' = history
  BY HistoryIsTyped DEF Turn
<1> HIDE DEF today
<1>4. IsDecided(history, plan')
  BY <1>1, <1>2, <1>3, FeedKeepsDecision
<1> QED BY <1>3, <1>4 DEF DecisionInv

LEMMA DecisionNext == EngineInv /\ DecisionInv /\ [Next]_vars => DecisionInv'
<1> SUFFICES ASSUME EngineInv, DecisionInv, [Next]_vars PROVE DecisionInv'
  OBVIOUS
<1>1. ASSUME NEW k \in Fed, Candle(k)
      PROVE  DecisionInv'
  BY <1>1, CandleTurns, TurnKeepsDecision
<1>2. ASSUME NEW k \in Fed, StaleCandle(k)
      PROVE  DecisionInv'
  BY <1>2, StaleCandleTurns, TurnKeepsDecision
<1>3. CASE Restart
  BY <1>3 DEF Restart, DecisionInv
<1>4. ASSUME UNCHANGED process
      PROVE  DecisionInv'
  BY <1>4 DEF process, DecisionInv
<1>5. ASSUME NEW k \in Fed, Skip(k)
      PROVE  DecisionInv'
  BY <1>4, <1>5 DEF Skip
<1>6. CASE NextDay
  BY <1>4, <1>6 DEF NextDay
<1>7. CASE UNCHANGED vars
  BY <1>4, <1>7 DEF vars
<1> QED BY <1>1, <1>2, <1>3, <1>5, <1>6, <1>7 DEF Next, Finished

\* The first candles of each key.
FirstOf(cs) == SubSeq(cs, 1, Min({SnapshotCandles, Len(cs)}))

FirstCandles(buffer) == [k \in Keys |-> FirstOf(buffer[k])]

LEMMA FirstOfType ==
    ASSUME NEW cs \in Seq(Candles)
    PROVE  /\ FirstOf(cs) \in Seq(Candles)
           /\ cs = <<>> => FirstOf(cs) = <<>>
           /\ Len(cs) >= SnapshotCandles =>
                 /\ Len(FirstOf(cs)) = SnapshotCandles
                 /\ \A i \in 1 .. SnapshotCandles : FirstOf(cs)[i] = cs[i]
<1> DEFINE n == Min({SnapshotCandles, Len(cs)})
<1>1. SnapshotCandles \in Nat \ {0} /\ Len(cs) \in Nat
  BY ReferenceAssumption, LenProperties
<1>2. n \in {SnapshotCandles, Len(cs)} /\ n <= SnapshotCandles /\ n <= Len(cs)
  <2>1. SnapshotCandles \in Int /\ Len(cs) \in Int
    BY <1>1
  <2> QED BY <2>1, MinOfTwo
<1>3. FirstOf(cs) = SubSeq(cs, 1, n)
  BY DEF FirstOf
<1> HIDE DEF n
<1>4. n \in Nat
  BY <1>1, <1>2
<1>5. /\ SubSeq(cs, 1, n) \in Seq(Candles)
      /\ Len(SubSeq(cs, 1, n)) = n
      /\ \A i \in 1 .. n : SubSeq(cs, 1, n)[i] = cs[i]
  BY <1>1, <1>2, <1>4
<1>6. ASSUME cs = <<>> PROVE FirstOf(cs) = <<>>
  <2>1. Len(FirstOf(cs)) = 0
    BY <1>1, <1>2, <1>3, <1>4, <1>5, <1>6
  <2> QED BY <1>3, <1>5, <2>1, EmptySeq
<1>7. ASSUME Len(cs) >= SnapshotCandles PROVE n = SnapshotCandles
  BY <1>1, <1>2, <1>7
<1> QED BY <1>3, <1>5, <1>6, <1>7

\* What the first candles alone say is what the plan has decided.
LEMMA FirstCandlesDecide ==
    ASSUME NEW h, HistoryFits(h), NEW p, PlanFits(h, p), p.resolved, Decides(h, p),
           NEW alone,
           alone = Resolve(h, [NewDayPlan EXCEPT !.buffer = FirstCandles(p.buffer)])
    PROVE  /\ p.direction = alone.direction
           /\ p.gate_ok = alone.gate_ok
           /\ p.sectors = alone.sectors
           /\ DOMAIN p.trackers = DOMAIN alone.trackers
<1> DEFINE first == FirstCandles(p.buffer)
           b == [NewDayPlan EXCEPT !.buffer = first]
<1>1. /\ p.buffer \in [Keys -> Seq(Candles)] /\ p.gate_ok \in BOOLEAN
      /\ \A k \in Keys : p.buffer[k] # <<>> => k \in Fed
      /\ ReadyToResolve(h, p.buffer)
  BY DEF PlanFits, Plans
<1>2. \A k \in Keys : first[k] = FirstOf(p.buffer[k]) /\ p.buffer[k] \in Seq(Candles)
  BY <1>1 DEF FirstCandles
<1>3. first \in [Keys -> Seq(Candles)]
  BY <1>2, FirstOfType DEF FirstCandles
<1>4. alone = Resolve(h, b)
  OBVIOUS
<1> HIDE DEF first
<1>5. \A k \in Awaited(h) : k \in Keys /\ Len(p.buffer[k]) >= SnapshotCandles
  BY <1>1 DEF Awaited, Keys, ReadyToResolve
<1>6. \A k \in Awaited(h) :
         /\ Len(first[k]) = SnapshotCandles
         /\ \A i \in 1 .. SnapshotCandles : first[k][i] = p.buffer[k][i]
  BY <1>2, <1>5, FirstOfType
<1>7. SnapshotCandles \in Nat
  BY ReferenceAssumption
<1>8. CanResolve(h, first) /\ CanResolve(h, p.buffer)
  BY <1>1, <1>3, <1>6, <1>7 DEF CanResolve, ReadyToResolve
<1>9. SameSnapshots(h, first, p.buffer)
  BY <1>6 DEF SameSnapshots
<1>10. /\ b \in Plans({}) /\ b.buffer = first /\ ~b.gate_ok /\ b.sectors = <<>>
  <2>1. NewDayPlan \in Plans({})
    <3>1. PlanFits(h, NewDayPlan)
      BY NewPlanFits
    <3>2. DOMAIN NewDayPlan.trackers = {}
      BY <3>1 DEF PlanFits, NewDayPlan
    <3> QED BY <3>1, <3>2 DEF PlanFits
  <2>2. ~NewDayPlan.gate_ok /\ NewDayPlan.sectors = <<>>
    BY DEF NewDayPlan
  <2> QED BY <1>3, <2>1, <2>2 DEF Plans
<1>11. \A k \in Keys : first[k] # <<>> => k \in Fed
  BY <1>1, <1>2, FirstOfType
<1> HIDE DEF b
<1>12. /\ PlanFits(h, alone) /\ alone.resolved /\ alone.buffer = first
       /\ Decides(h, alone)
  <2>1. CanResolve(h, b.buffer) /\ \A k \in Keys : b.buffer[k] # <<>> => k \in Fed
    BY <1>8, <1>10, <1>11
  <2>2. /\ PlanFits(h, Resolve(h, b)) /\ Resolve(h, b).resolved
        /\ Resolve(h, b).buffer = b.buffer
        /\ Decides(h, Resolve(h, b))
    BY <1>10, <2>1, ResolveFits
  <2> QED BY <1>4, <1>10, <2>2
<1>13. alone.gate_ok \in BOOLEAN
  BY <1>12 DEF PlanFits, Plans
<1>14. /\ DirectionOf(h, first) = DirectionOf(h, p.buffer)
       /\ OkOf(h, first) <=> OkOf(h, p.buffer)
       /\ \A d : SelectedSectors(h, first, d) = SelectedSectors(h, p.buffer, d)
       /\ \A d, ns : QualifiedOf(h, first, d, ns) = QualifiedOf(h, p.buffer, d, ns)
  BY <1>8, <1>9, SnapshotsDecide
<1>15. p.direction = alone.direction /\ (p.gate_ok <=> alone.gate_ok)
  BY <1>12, <1>14 DEF Decides
<1>16. p.gate_ok = alone.gate_ok
  BY <1>1, <1>13, <1>15
<1>17. p.sectors = alone.sectors
  BY <1>12, <1>14, <1>15 DEF Decides
<1>18. DOMAIN p.trackers = DOMAIN alone.trackers
  <2>1. CASE p.gate_ok
    BY <1>12, <1>14, <1>15, <1>17, <2>1 DEF Decides
  <2>2. CASE ~p.gate_ok
    BY <1>12, <1>15, <2>2 DEF PlanFits
  <2> QED BY <2>1, <2>2
<1> QED BY <1>15, <1>16, <1>17, <1>18

(* The decision of the day is a function of what each key's first candles  *)
(* said: direction, gate, sectors and stocks are those that these candles  *)
(* alone decide, whatever arrived before the last key was ready.           *)
THEOREM DecisionStands == Spec => []DecisionIgnoresArrivalOrder
<1>1. Init => DecisionInv
  BY DEF Init, DecisionInv
<1>2. EngineInv /\ DecisionInv => DecisionIgnoresArrivalOrder
  <2> SUFFICES ASSUME EngineInv, DecisionInv, plan # None, plan.resolved
               PROVE  DecisionIgnoresArrivalOrder
    BY DEF DecisionIgnoresArrivalOrder
  <2> DEFINE first == FirstCandles(plan.buffer)
             alone == Resolve(history, [NewDayPlan EXCEPT !.buffer = first])
  <2>1. HistoryFits(history) /\ PlanFits(history, plan) /\ Decides(history, plan)
    BY HistoryIsTyped DEF EngineInv, ProcessInv, DecisionInv, IsDecided
  <2>2. /\ plan.direction = alone.direction
        /\ plan.gate_ok = alone.gate_ok
        /\ plan.sectors = alone.sectors
        /\ DOMAIN plan.trackers = DOMAIN alone.trackers
    BY <2>1, FirstCandlesDecide
  <2>3. first = [k \in Keys |->
                   SubSeq(plan.buffer[k], 1,
                          Min({SnapshotCandles, Len(plan.buffer[k])}))]
    BY DEF FirstCandles, FirstOf
  <2> QED BY <2>2, <2>3 DEF DecisionIgnoresArrivalOrder
<1> QED BY <1>1, <1>2, EngineInvariant, DecisionNext, PTL DEF Spec

-----------------------------------------------------------------------------
(* Time stamps.                                                            *)

LastLabel(k, d) == Len(Tapes[tape][d][k]) - UtcShift

\* The stamp (d, l) is earlier than that of the next candle of k, which is
\* the one held overnight if there is one.
Behind(k, d, l) ==
    IF k \notin held
    THEN d < day \/ (d = day /\ l < next[k] - UtcShift)
    ELSE IF next[k] = 1
    THEN d < day - 1 \/ (d = day - 1 /\ l < LastLabel(k, day - 1))
    ELSE d < day \/ (d = day /\ l < LastLabel(k, day))

AllBehind ==
    /\ \A x \in signals : x.symbol \in Fed /\ Behind(x.symbol, x.day, x.label)
    /\ plan # None =>
          \A k \in Fed : \A i \in 1 .. Len(plan.buffer[k]) :
             Behind(k, plan.buffer[k][i].day, plan.buffer[k][i].label)

\* A signal whose candle the plan has seen is the breakout of its tracker.
OwnSignals(p, published) ==
    \A x \in published : \A i \in 1 .. Len(p.buffer[x.symbol]) :
        SameStamp(x, p.buffer[x.symbol][i]) =>
            /\ p.resolved /\ x.symbol \in DOMAIN p.trackers
            /\ p.trackers[x.symbol].breakout # None
            /\ SameStamp(x, p.trackers[x.symbol].breakout)

StampInv == AllBehind /\ (plan # None => OwnSignals(plan, signals))

\* Time goes on.
OnlyForward ==
    \A k \in Fed : \A d, l \in Int : Behind(k, d, l) => Behind(k, d, l)'

LEMMA TurnKeepsStamps ==
    ASSUME EngineInv, StampInv, NEW k \in Fed, NEW c \in Candles, Turn(k, c),
           OnlyForward, ~Behind(k, c.day, c.label), Behind(k, c.day, c.label)'
    PROVE  StampInv'
<1> DEFINE today == Today(c)
<1>1. /\ PlanFits(history, today) /\ PlanFits(history, plan')
      /\ Advances(history, today, plan', k, c)
      /\ \/ signals' = signals
         \/ \E x : signals' = signals \cup {x} /\ IsSignalOf(x, today, k, c)
  BY TurnFits
<1>2. /\ today.buffer \in [Keys -> Seq(Candles)] /\ k \in Keys /\ Fed \subseteq Keys
      /\ \A s \in DOMAIN today.trackers : today.trackers[s] \in Trackers
  <2>1. Fed \subseteq Keys
    BY EngineAssumption
  <2> QED BY <1>1, <2>1 DEF PlanFits, Plans
<1>3. /\ \A j \in Fed : \A i \in 1 .. Len(today.buffer[j]) :
            Behind(j, today.buffer[j][i].day, today.buffer[j][i].label)
      /\ OwnSignals(today, signals)
  <2>1. CASE c.day # currentDate
    <3>1. \A j \in Keys : today.buffer[j] = <<>>
      BY <2>1 DEF Today, NewDayPlan
    <3>2. \A x \in signals : x.symbol \in Keys
      BY <1>2 DEF StampInv, AllBehind
    <3>3. \A i : i \notin 1 .. Len(<<>>)
      OBVIOUS
    <3> HIDE DEF today
    <3> QED BY <1>2, <3>1, <3>2, <3>3 DEF OwnSignals
  <2>2. CASE c.day = currentDate
    <3>1. today = plan
      BY <2>2 DEF Today
    <3> QED BY <1>1, <3>1, PlanIsSome DEF StampInv, AllBehind
  <2> QED BY <2>1, <2>2
<1> HIDE DEF today
<1>4. plan'.buffer = Buffered(today.buffer, k, c)
  BY <1>1 DEF Advances
<1>5. \A j \in Keys : plan'.buffer[j] = IF j = k THEN Append(today.buffer[j], c)
                                        ELSE today.buffer[j]
  <2> DEFINE buffer == today.buffer
  <2>1. buffer \in [Keys -> Seq(Candles)] /\ plan'.buffer = Buffered(buffer, k, c)
    BY <1>2, <1>4
  <2> HIDE DEF buffer
  <2>2. \A j \in Keys : plan'.buffer[j] = IF j = k THEN Append(buffer[j], c)
                                          ELSE buffer[j]
    BY <2>1, BufferedType
  <2> QED BY <2>2 DEF buffer
\* Each buffered candle was in the buffer, or is the new one.
<1>6. ASSUME NEW j \in Keys, NEW i \in 1 .. Len(plan'.buffer[j])
      PROVE  \/ i \in 1 .. Len(today.buffer[j])
                /\ plan'.buffer[j][i] = today.buffer[j][i]
             \/ j = k /\ plan'.buffer[j][i] = c
  <2>1. today.buffer[j] \in Seq(Candles) /\ Len(today.buffer[j]) \in Nat
    BY <1>2, LenProperties
  <2>2. CASE j # k
    BY <1>5, <1>6, <2>2
  <2>3. CASE j = k
    <3>1. plan'.buffer[j] = Append(today.buffer[j], c)
      BY <1>5, <2>3
    <3>2. Len(plan'.buffer[j]) = Len(today.buffer[j]) + 1
      BY <2>1, <3>1, AppendProperties
    <3>3. CASE i = Len(today.buffer[j]) + 1
      BY <2>1, <2>3, <3>1, <3>3, AppendProperties
    <3>4. CASE i # Len(today.buffer[j]) + 1
      <4>1. i \in 1 .. Len(today.buffer[j])
        BY <1>6, <2>1, <3>2, <3>4
      <4> QED BY <2>1, <3>1, <4>1, AppendProperties
    <3> QED BY <3>3, <3>4
  <2> QED BY <2>2, <2>3
<1>7. \A j \in Keys : \A i \in 1 .. Len(today.buffer[j]) :
         today.buffer[j][i].day \in Int /\ today.buffer[j][i].label \in Int
  <2> SUFFICES ASSUME NEW j \in Keys, NEW i \in 1 .. Len(today.buffer[j])
               PROVE  today.buffer[j][i].day \in Int
                      /\ today.buffer[j][i].label \in Int
    OBVIOUS
  <2>1. today.buffer[j] \in Seq(Candles)
    BY <1>2
  <2>2. today.buffer[j][i] \in Candles
    BY <2>1, ElementOfSeq
  <2> QED BY <2>2 DEF Candles
<1>8. c.day \in Int /\ c.label \in Int
  BY DEF Candles
<1>9. ASSUME NEW x \in signals'
      PROVE  \/ x \in signals
             \/ /\ IsSignalOf(x, today, k, c)
                /\ x.symbol = k /\ x.day = c.day /\ x.label = c.label
  BY <1>1, <1>9 DEF IsSignalOf
<1>10. AllBehind'
  <2>1. ASSUME NEW x \in signals'
        PROVE  x.symbol \in Fed /\ Behind(x.symbol, x.day, x.label)'
    <3>1. CASE x \in signals
      <4>1. x.symbol \in Fed /\ Behind(x.symbol, x.day, x.label)
        BY <3>1 DEF StampInv, AllBehind
      <4>2. x.day \in Int /\ x.label \in Int
        BY <3>1 DEF EngineInv, ProcessInv
      <4> QED BY <4>1, <4>2 DEF OnlyForward
    <3>2. CASE x.symbol = k /\ x.day = c.day /\ x.label = c.label
      BY <3>2
    <3> QED BY <1>9, <3>1, <3>2
  <2>2. ASSUME NEW j \in Fed, NEW i \in 1 .. Len(plan'.buffer[j])
        PROVE  Behind(j, plan.buffer[j][i].day, plan.buffer[j][i].label)'
    <3>1. CASE i \in 1 .. Len(today.buffer[j])
                 /\ plan'.buffer[j][i] = today.buffer[j][i]
      <4> DEFINE b == today.buffer[j][i]
      <4>1. b.day \in Int /\ b.label \in Int /\ Behind(j, b.day, b.label)
        BY <1>2, <1>3, <1>7, <3>1
      <4> SUFFICES ASSUME NEW d, NEW l, d = b.day, l = b.label
                   PROVE  Behind(j, d, l)'
        BY <3>1
      <4> HIDE DEF b
      <4> QED BY <4>1 DEF OnlyForward
    <3>2. CASE j = k /\ plan'.buffer[j][i] = c
      BY <3>2
    <3> QED BY <1>2, <1>6, <3>1, <3>2
  <2> QED BY <2>1, <2>2 DEF AllBehind
<1>11. OwnSignals(plan', signals')
  <2> SUFFICES ASSUME NEW x \in signals',
                      NEW i \in 1 .. Len(plan'.buffer[x.symbol]),
                      SameStamp(x, plan'.buffer[x.symbol][i])
               PROVE  /\ plan'.resolved /\ x.symbol \in DOMAIN plan'.trackers
                      /\ plan'.trackers[x.symbol].breakout # None
                      /\ SameStamp(x, plan'.trackers[x.symbol].breakout)
    BY DEF OwnSignals
  <2> DEFINE s == x.symbol
  <2>1. s \in Keys
    BY <1>2, <1>10 DEF AllBehind
  <2>2. CASE x \in signals
    <3>1. x.day \in Int /\ x.label \in Int /\ Behind(s, x.day, x.label)
      BY <2>2 DEF EngineInv, ProcessInv, StampInv, AllBehind
    <3>2. ~(s = k /\ plan'.buffer[s][i] = c)
      BY <3>1 DEF SameStamp
    <3>3. i \in 1 .. Len(today.buffer[s]) /\ plan'.buffer[s][i] = today.buffer[s][i]
      BY <1>6, <2>1, <3>2
    <3>4. /\ today.resolved /\ s \in DOMAIN today.trackers
          /\ today.trackers[s].breakout # None
          /\ SameStamp(x, today.trackers[s].breakout)
      BY <1>3, <2>2, <3>3 DEF OwnSignals
    <3>5. Watches(today, plan', k, c)
      BY <1>1, <3>4 DEF Advances
    <3>6. plan'.trackers[s] = today.trackers[s]
      BY <1>2, <3>4, <3>5, BreakoutOfCandle DEF Watches
    <3> QED BY <3>4, <3>5, <3>6 DEF Watches
  <2>3. CASE x \notin signals
    <3>1. /\ today.resolved /\ k \in DOMAIN today.trackers
          /\ today.trackers[k].breakout = None
          /\ OnCandle(today.trackers[k], c).breakout # None
          /\ x.symbol = k /\ x.day = c.day /\ x.label = c.label
      BY <1>9, <2>3 DEF IsSignalOf
    <3>2. OnCandle(today.trackers[k], c).breakout = BreakoutAt(today.trackers[k], c)
      BY <1>2, <3>1, BreakoutOfCandle
    <3>3. SameStamp(x, BreakoutAt(today.trackers[k], c))
      BY <3>1 DEF SameStamp, BreakoutAt
    <3>4. Watches(today, plan', k, c)
      BY <1>1, <3>1 DEF Advances
    <3> QED BY <3>1, <3>2, <3>3, <3>4 DEF Watches
  <2> QED BY <2>2, <2>3
<1> QED BY <1>10, <1>11 DEF StampInv

LEMMA StampNext == EngineInv /\ StampInv /\ [Next]_vars => StampInv'
<1> SUFFICES ASSUME EngineInv, StampInv, [Next]_vars PROVE StampInv'
  OBVIOUS
<1>1. /\ tape \in DOMAIN Tapes /\ day \in Days /\ day \in Nat
      /\ next \in [Fed -> Nat] /\ held \subseteq Fed
      /\ \A k \in Fed : 1 <= next[k] /\ next[k] <= Bars(k) + 1
      /\ \A k \in held : (next[k] = 1 /\ day > 1) \/ next[k] = Bars(k) + 1
      /\ UtcShift \in Nat
  BY EngineAssumption DEF EngineInv, ExchangeInv, Days
<1>2. \A k \in Fed : Bars(k) \in Nat /\ Bars(k) >= 1
  <2> TAKE k \in Fed
  <2>1. Bars(k) \in Nat /\ Bars(k) # 0
    BY <1>1, TapeType DEF Bars
  <2> QED BY <2>1
<1>3. \A k \in Fed : LastLabel(k, day) = Bars(k) - UtcShift
  BY DEF LastLabel, Bars
\* A step that hands nothing to the process but lets time go on.
<1>4. ASSUME OnlyForward, UNCHANGED <<plan, signals>>
      PROVE  StampInv'
  <2>1. \A x \in signals : x.day \in Int /\ x.label \in Int
    BY DEF EngineInv, ProcessInv
  <2>2. plan # None => \A k \in Fed : \A i \in 1 .. Len(plan.buffer[k]) :
           plan.buffer[k][i].day \in Int /\ plan.buffer[k][i].label \in Int
    <3>1. plan # None => plan.buffer \in [Keys -> Seq(Candles)]
      BY DEF EngineInv, ProcessInv, PlanFits, Plans
    <3> SUFFICES ASSUME plan # None, NEW k \in Fed, NEW i \in 1 .. Len(plan.buffer[k])
                 PROVE  plan.buffer[k][i].day \in Int /\ plan.buffer[k][i].label \in Int
      OBVIOUS
    <3>2. plan.buffer[k] \in Seq(Candles)
      BY <3>1, EngineAssumption
    <3>3. plan.buffer[k][i] \in Candles
      BY <3>2, ElementOfSeq
    <3> QED BY <3>3 DEF Candles
  <2> QED BY <1>4, <2>1, <2>2 DEF StampInv, AllBehind, OnlyForward
<1>5. ASSUME NEW k \in Fed, Candle(k)
      PROVE  StampInv'
  <2> SUFFICES ASSUME NEW c, c = LiveCandle(k, day, next[k]) PROVE StampInv'
    OBVIOUS
  <2>1. /\ k \notin held /\ c \in Candles /\ c.day = day
        /\ c.label = next[k] - UtcShift /\ Turn(k, c)
        /\ UNCHANGED <<tape, day, held, gaps>> /\ next' = [next EXCEPT ![k] = @ + 1]
    BY <1>5, CandleTurns
  <2>2. OnlyForward
    <3> SUFFICES ASSUME NEW j \in Fed, NEW d \in Int, NEW l \in Int, Behind(j, d, l)
                 PROVE  Behind(j, d, l)'
      BY DEF OnlyForward
    <3>1. next'[j] >= next[j] /\ (j # k => next'[j] = next[j])
      BY <1>1, <2>1
    <3>2. next[j] \in Nat /\ next'[j] \in Nat
      BY <1>1, <2>1
    <3>3. CASE j \in held
      BY <2>1, <3>1, <3>3 DEF Behind, LastLabel
    <3>4. CASE j \notin held
      BY <1>1, <2>1, <3>1, <3>2, <3>4 DEF Behind
    <3> QED BY <3>3, <3>4
  <2>3. ~Behind(k, c.day, c.label) /\ Behind(k, c.day, c.label)'
    BY <1>1, <2>1 DEF Behind
  <2> QED BY <2>1, <2>2, <2>3, TurnKeepsStamps
<1>6. ASSUME NEW k \in Fed, StaleCandle(k)
      PROVE  StampInv'
  <2> DEFINE last == Len(Tapes[tape][day - 1][k])
  <2> SUFFICES ASSUME NEW c, c = LiveCandle(k, day - 1, last) PROVE StampInv'
    OBVIOUS
  <2>1. /\ k \in held /\ next[k] = 1 /\ c \in Candles /\ c.day = day - 1
        /\ c.label = last - UtcShift /\ Turn(k, c)
        /\ UNCHANGED <<tape, day, next, gaps>> /\ held' = held \ {k}
        /\ last \in Nat
    BY <1>6, StaleCandleTurns
  <2>2. LastLabel(k, day - 1) = last - UtcShift
    BY DEF LastLabel
  <2> HIDE DEF last
  <2>3. OnlyForward
    <3> SUFFICES ASSUME NEW j \in Fed, NEW d \in Int, NEW l \in Int, Behind(j, d, l)
                 PROVE  Behind(j, d, l)'
      BY DEF OnlyForward
    <3>1. CASE j # k
      <4>1. j \in held' <=> j \in held
        BY <2>1, <3>1
      <4> QED BY <2>1, <4>1 DEF Behind, LastLabel
    <3>2. CASE j = k
      <4>1. d < day
        BY <1>1, <2>1, <3>2 DEF Behind
      <4> QED BY <2>1, <3>2, <4>1 DEF Behind
    <3> QED BY <3>1, <3>2
  <2>4. ~Behind(k, c.day, c.label) /\ Behind(k, c.day, c.label)'
    BY <1>1, <2>1, <2>2 DEF Behind
  <2> QED BY <2>1, <2>3, <2>4, TurnKeepsStamps
<1>7. ASSUME NEW k \in Fed, Skip(k)
      PROVE  StampInv'
  <2>1. /\ k \notin held /\ UNCHANGED <<tape, day, plan, signals>>
        /\ next' = [next EXCEPT ![k] = @ + 1]
        /\ held' = held \/ (next[k] = Bars(k) /\ held' = held \cup {k})
    BY <1>7 DEF Skip, Passes, process
  <2>2. OnlyForward
    <3> SUFFICES ASSUME NEW j \in Fed, NEW d \in Int, NEW l \in Int, Behind(j, d, l)
                 PROVE  Behind(j, d, l)'
      BY DEF OnlyForward
    <3>1. CASE j # k
      <4>1. (j \in held' <=> j \in held) /\ next'[j] = next[j]
        BY <1>1, <2>1, <3>1
      <4> QED BY <2>1, <4>1 DEF Behind, LastLabel
    <3>2. CASE j = k
      <4>1. d < day \/ (d = day /\ l < next[k] - UtcShift)
        BY <2>1, <3>2 DEF Behind
      <4>2. next'[k] = next[k] + 1 /\ next'[k] # 1 /\ next[k] \in Nat
        BY <1>1, <2>1
      <4>3. CASE k \notin held'
        BY <1>1, <2>1, <3>2, <4>1, <4>2, <4>3 DEF Behind
      <4>4. CASE k \in held'
        <5>1. next[k] = Bars(k)
          BY <2>1, <4>4
        <5>2. LastLabel(k, day)' = next[k] - UtcShift
          BY <1>3, <2>1, <5>1 DEF LastLabel
        <5>3. d < day' \/ (d = day' /\ l < LastLabel(k, day)')
          BY <2>1, <4>1, <5>2
        <5> QED BY <3>2, <4>2, <4>4, <5>3 DEF Behind
      <4> QED BY <4>3, <4>4
    <3> QED BY <3>1, <3>2
  <2> QED BY <1>4, <2>1, <2>2
<1>8. CASE NextDay
  <2>1. /\ day' = day + 1 /\ next' = [k \in Fed |-> 1]
        /\ UNCHANGED <<tape, held, plan, signals>>
        /\ \A k \in Fed : next[k] > Bars(k)
    BY <1>8 DEF NextDay, process, DayOver
  <2>2. OnlyForward
    <3> SUFFICES ASSUME NEW j \in Fed, NEW d \in Int, NEW l \in Int, Behind(j, d, l)
                 PROVE  Behind(j, d, l)'
      BY DEF OnlyForward
    <3>1. next'[j] = 1 /\ next[j] # 1
      BY <1>1, <1>2, <2>1
    <3>2. CASE j \in held
      <4>1. d < day \/ (d = day /\ l < LastLabel(j, day))
        BY <3>1, <3>2 DEF Behind
      <4>2. day' - 1 = day
        BY <1>1, <2>1
      <4>3. d < day' - 1 \/ (d = day' - 1 /\ l < LastLabel(j, day - 1)')
        BY <2>1, <4>1, <4>2 DEF LastLabel
      <4> QED BY <2>1, <3>1, <3>2, <4>3 DEF Behind
    <3>3. CASE j \notin held
      <4>1. d < day'
        BY <1>1, <2>1, <3>3 DEF Behind
      <4> QED BY <2>1, <3>3, <4>1 DEF Behind
    <3> QED BY <3>2, <3>3
  <2> QED BY <1>4, <2>1, <2>2
<1>9. CASE Restart
  <2>1. plan' = None /\ UNCHANGED <<tape, day, next, held, signals>>
    BY <1>9 DEF Restart, exchange
  <2> QED BY <2>1 DEF StampInv, AllBehind, Behind, LastLabel
<1>10. CASE UNCHANGED vars
  BY <1>10 DEF vars, exchange, process, StampInv, AllBehind, Behind, LastLabel
<1> QED BY <1>5, <1>6, <1>7, <1>8, <1>9, <1>10 DEF Next, Finished

-----------------------------------------------------------------------------
(* The funnel of a day.                                                    *)

PhaseOf(p) ==
    IF p = None THEN "none"
    ELSE IF ~p.resolved THEN "gathering"
    ELSE IF p.gate_ok THEN "watching" ELSE "closed"

WatchedOf(p) ==
    IF p = None THEN {}
    ELSE {s \in DOMAIN p.trackers : p.trackers[s].breakout = None}

\* A stock of the plan has been signalled at its breakout.
Signalled(p, published, s) ==
    \E x \in published :
        /\ x.symbol = s
        /\ p.trackers[s].breakout # None
        /\ x.day = p.trackers[s].breakout.day
        /\ x.label = p.trackers[s].breakout.label

SignalledOf(p, published) ==
    IF p = None THEN {}
    ELSE {s \in DOMAIN p.trackers : Signalled(p, published, s)}

\* A step of the funnel, from a plan and what is published to the next.
FunnelMove(p, before, q, after) ==
    LET same == PhaseOf(q) = PhaseOf(p)
        sent == SignalledOf(p, before)
    IN  \/ /\ PhaseOf(q) \in {"gathering", "none"}
           /\ WatchedOf(q) = {} /\ SignalledOf(q, after) = {}
        \/ /\ PhaseOf(p) = "gathering" /\ SignalledOf(q, after) = sent
           /\ \/ PhaseOf(q) = "closed" /\ WatchedOf(q) = {}
              \/ PhaseOf(q) = "watching" /\ WatchedOf(q) \subseteq Stocks
        \/ /\ same /\ PhaseOf(p) = "watching"
           /\ \E s \in WatchedOf(p) : /\ s \in Stocks
                                      /\ WatchedOf(q) = WatchedOf(p) \ {s}
                                      /\ SignalledOf(q, after) \in {sent, sent \cup {s}}
        \/ same /\ WatchedOf(q) = WatchedOf(p) /\ SignalledOf(q, after) = sent

\* One candle is never enough: NIFTY and a sector are both waited for.
LEMMA FirstCandleGathers ==
    ASSUME NEW h, HistoryFits(h), NEW k \in Fed, NEW c \in Candles,
           NEW q, PlanFits(h, q), Advances(h, NewDayPlan, q, k, c)
    PROVE  ~q.resolved /\ DOMAIN q.trackers = {}
<1>1. \A j \in Keys : NewDayPlan.buffer[j] = <<>>
  BY DEF NewDayPlan
<1>2. NewDayPlan.buffer \in [Keys -> Seq(Candles)]
  <2>1. <<>> \in Seq(Candles)
    BY EmptySeq
  <2> QED BY <2>1 DEF NewDayPlan
<1>3. q.buffer = Buffered(NewDayPlan.buffer, k, c)
  BY DEF Advances
<1>4. \A j \in Keys : j # k => q.buffer[j] = <<>>
  <2> DEFINE buffer == NewDayPlan.buffer
  <2>1. buffer \in [Keys -> Seq(Candles)] /\ q.buffer = Buffered(buffer, k, c)
    BY <1>2, <1>3
  <2> HIDE DEF buffer
  <2>2. \A j \in Keys : q.buffer[j] = IF j = k THEN Append(buffer[j], c) ELSE buffer[j]
    BY <2>1, BufferedType
  <2> QED BY <1>1, <2>2 DEF buffer
<1>5. PICK j \in Awaited(h) : j # k
  <2>1. V2_SECTORS \in Seq(Sectors) /\ V2_SECTORS # <<>>
    BY PlanAssumption
  <2>2. Len(V2_SECTORS) \in Nat /\ Len(V2_SECTORS) # 0
    BY <2>1, EmptySeq, LenProperties
  <2>3. 1 \in 1 .. Len(V2_SECTORS)
    BY <2>2
  <2>4. V2_SECTORS[1] \in Sectors
    BY <2>1, <2>3, ElementOfSeq
  <2>5. NIFTY # V2_SECTORS[1]
    BY <2>4, PlanAssumption
  <2>6. NIFTY \in Awaited(h) /\ V2_SECTORS[1] \in Awaited(h)
    BY <2>4 DEF Awaited
  <2> QED BY <2>5, <2>6
<1>6. j \in Keys
  BY DEF Awaited, Keys
<1>7. Len(q.buffer[j]) = 0
  BY <1>4, <1>5, <1>6, EmptySeq
<1>8. ~ReadyToResolve(h, q.buffer)
  BY <1>7, ReferenceAssumption DEF ReadyToResolve
<1>9. ~q.resolved
  BY <1>8 DEF PlanFits
<1> QED BY <1>9 DEF PlanFits

\* A plan that has decided watches stocks of the sectors.
LEMMA WatchedAreStocks ==
    ASSUME NEW h, NEW p, HistoryFits(h), PlanFits(h, p), IsDecided(h, p)
    PROVE  DOMAIN p.trackers \subseteq Stocks
<1> SUFFICES ASSUME NEW s \in DOMAIN p.trackers PROVE s \in Stocks
  OBVIOUS
<1>1. p.gate_ok /\ p.resolved
  BY DEF PlanFits
<1>2. s \in QualifiedOf(h, p.buffer, p.direction, p.sectors)
  BY <1>1 DEF IsDecided, Decides
<1>3. PICK n \in ToSet(p.sectors) : s \in ToSet(INDEX_CONSTITUENTS[n])
  BY <1>2 DEF QualifiedOf
<1>4. p.sectors \in Seq(Sectors)
  BY DEF PlanFits, Plans
<1>5. n \in Sectors
  BY <1>3, <1>4, ElementOfSeq, LenProperties DEF ToSet
<1> QED BY <1>3, <1>5 DEF ToSet, Stocks

\* A turn of the loop is a step of the funnel.
LEMMA TurnMoves ==
    ASSUME EngineInv, StampInv, DecisionInv, EngineInv', DecisionInv',
           NEW k \in Fed, NEW c \in Candles, Turn(k, c),
           ~Behind(k, c.day, c.label)
    PROVE  FunnelMove(plan, signals, plan', signals')
<1> DEFINE today == Today(c)
           q == plan'
<1>1. /\ PlanFits(history, today) /\ PlanFits(history, q) /\ q # None
      /\ Advances(history, today, q, k, c)
      /\ \/ signals' = signals
         \/ \E x : signals' = signals \cup {x} /\ IsSignalOf(x, today, k, c)
  BY TurnFits
<1>2. HistoryFits(history) /\ history' = history
  BY HistoryIsTyped DEF Turn
<1>3. CASE c.day # currentDate
  <2>1. today = NewDayPlan
    BY <1>3 DEF Today
  <2>2. ~q.resolved /\ DOMAIN q.trackers = {}
    BY <1>1, <1>2, <2>1, FirstCandleGathers
  <2>3. PhaseOf(q) = "gathering" /\ WatchedOf(q) = {} /\ SignalledOf(q, signals') = {}
    BY <1>1, <2>2 DEF PhaseOf, WatchedOf, SignalledOf
  <2> QED BY <2>3 DEF FunnelMove
<1>4. CASE c.day = currentDate
  <2>1. today = plan
    BY <1>4 DEF Today
  <2>2. plan # None /\ PlanFits(history, plan) /\ Advances(history, plan, q, k, c)
    BY <1>1, <2>1, PlanIsSome
  <2>3. /\ \A s \in DOMAIN plan.trackers : plan.trackers[s] \in Trackers
        /\ plan.buffer \in [Keys -> Seq(Candles)] /\ q.buffer \in [Keys -> Seq(Candles)]
        /\ Fed \subseteq Keys
    BY <1>1, <2>2, EngineAssumption DEF PlanFits, Plans
  <2>4. CASE ~plan.resolved
    <3>1. signals' = signals
      BY <1>1, <2>1, <2>4 DEF IsSignalOf
    <3>2. DOMAIN plan.trackers = {}
      BY <2>2, <2>4 DEF PlanFits
    <3>3. PhaseOf(plan) = "gathering" /\ WatchedOf(plan) = {}
          /\ SignalledOf(plan, signals) = {}
      BY <2>2, <2>4, <3>2 DEF PhaseOf, WatchedOf, SignalledOf
    <3>4. CASE ~q.resolved
      <4>1. DOMAIN q.trackers = {}
        BY <1>1, <3>4 DEF PlanFits
      <4>2. PhaseOf(q) = "gathering" /\ WatchedOf(q) = {} /\ SignalledOf(q, signals') = {}
        BY <1>1, <3>4, <4>1 DEF PhaseOf, WatchedOf, SignalledOf
      <4> QED BY <4>2 DEF FunnelMove
    <3>5. CASE q.resolved
      <4>1. SignalledOf(q, signals') = {}
        <5> SUFFICES ASSUME NEW s \in DOMAIN q.trackers, NEW x \in signals,
                            x.symbol = s, q.trackers[s].breakout # None,
                            x.day = q.trackers[s].breakout.day,
                            x.label = q.trackers[s].breakout.label
                     PROVE  FALSE
          BY <3>1 DEF SignalledOf, Signalled
        <5>1. s \in Fed /\ s \in Keys /\ Behind(s, x.day, x.label)
          BY <2>3 DEF StampInv, AllBehind
        <5>2. /\ q.trackers[s] = Tracked(q.direction, q.buffer[s])
              /\ q.direction \in Sides /\ q.buffer[s] \in Seq(Candles)
          BY <1>1, <2>3, <5>1 DEF PlanFits
        <5>3. PICK i \in 1 .. Len(q.buffer[s]) :
                 SameStamp(q.trackers[s].breakout, q.buffer[s][i])
          BY <5>2, TrackedType
        <5>4. SameStamp(x, q.buffer[s][i])
          BY <5>3 DEF SameStamp
        <5>5. q.buffer[s] = IF s = k THEN Append(plan.buffer[s], c) ELSE plan.buffer[s]
          <6> DEFINE buffer == plan.buffer
          <6>1. buffer \in [Keys -> Seq(Candles)] /\ q.buffer = Buffered(buffer, k, c)
            BY <2>2, <2>3 DEF Advances
          <6> HIDE DEF buffer, q
          <6>2. \A j \in Keys : Buffered(buffer, k, c)[j] =
                   IF j = k THEN Append(buffer[j], c) ELSE buffer[j]
            BY <6>1, BufferedType
          <6> QED BY <5>1, <6>1, <6>2 DEF buffer
        <5>6. plan.buffer[s] \in Seq(Candles) /\ Len(plan.buffer[s]) \in Nat
          BY <2>3, <5>1, LenProperties
        <5>7. ~(i \in 1 .. Len(plan.buffer[s]) /\ q.buffer[s][i] = plan.buffer[s][i])
          BY <2>2, <2>4, <5>4 DEF StampInv, OwnSignals
        <5>8. s = k /\ q.buffer[s] = Append(plan.buffer[s], c)
          BY <5>5, <5>7
        <5>9. i = Len(plan.buffer[s]) + 1
          <6>1. Len(q.buffer[s]) = Len(plan.buffer[s]) + 1
            BY <5>6, <5>8, AppendProperties
          <6>2. i \in 1 .. Len(plan.buffer[s]) => q.buffer[s][i] = plan.buffer[s][i]
            BY <5>6, <5>8, AppendProperties
          <6> QED BY <5>3, <5>6, <5>7, <6>1, <6>2
        <5>10. q.buffer[s][i] = c
          BY <5>6, <5>8, <5>9, AppendProperties
        <5> QED BY <5>1, <5>4, <5>8, <5>10 DEF SameStamp
      <4>2. CASE q.gate_ok
        <5>1. PhaseOf(q) = "watching"
          BY <1>1, <3>5, <4>2 DEF PhaseOf
        <5>2. DOMAIN q.trackers \subseteq Stocks
          <6>1. IsDecided(history, q)
            BY <1>1, <1>2 DEF DecisionInv
          <6> QED BY <1>1, <1>2, <6>1, WatchedAreStocks
        <5>3. WatchedOf(q) \subseteq Stocks
          BY <5>2 DEF WatchedOf
        <5> QED BY <3>3, <4>1, <5>1, <5>3 DEF FunnelMove
      <4>3. CASE ~q.gate_ok
        <5>1. PhaseOf(q) = "closed"
          BY <1>1, <3>5, <4>3 DEF PhaseOf
        <5>2. WatchedOf(q) = {}
          BY <1>1, <4>3 DEF WatchedOf, PlanFits
        <5> QED BY <3>3, <4>1, <5>1, <5>2 DEF FunnelMove
      <4> QED BY <4>2, <4>3
    <3> QED BY <3>4, <3>5
  <2>5. CASE plan.resolved
    <3>1. Watches(plan, q, k, c)
      BY <2>2, <2>5 DEF Advances
    <3>2. PhaseOf(q) = PhaseOf(plan)
      BY <1>1, <2>2, <2>5, <3>1 DEF PhaseOf, Watches
    <3>3. DOMAIN q.trackers = DOMAIN plan.trackers
      BY <3>1 DEF Watches
    <3>4. \A x \in signals' : x \in signals \/ IsSignalOf(x, plan, k, c)
      BY <1>1, <2>1
    <3>5. signals \subseteq signals'
      BY <1>1
    <3>6. ASSUME NEW s \in DOMAIN plan.trackers, s # k
          PROVE  /\ s \in WatchedOf(q) <=> s \in WatchedOf(plan)
                 /\ s \in SignalledOf(q, signals') <=> s \in SignalledOf(plan, signals)
      <4>1. q.trackers[s] = plan.trackers[s]
        BY <3>1, <3>6 DEF Watches
      <4>2. \A x \in signals' : x.symbol = s => x \in signals
        BY <3>4, <3>6 DEF IsSignalOf
      <4> QED BY <1>1, <2>2, <3>3, <3>5, <4>1, <4>2
          DEF WatchedOf, SignalledOf, Signalled
    <3>7. CASE k \in DOMAIN plan.trackers /\ plan.trackers[k].breakout = None
               /\ OnCandle(plan.trackers[k], c).breakout # None
      <4>1. q.trackers[k].breakout # None
        BY <3>1, <3>7 DEF Watches
      <4>2. k \in WatchedOf(plan) /\ k \notin WatchedOf(q)
        BY <1>1, <2>2, <3>7, <4>1 DEF WatchedOf
      <4>3. WatchedOf(q) = WatchedOf(plan) \ {k}
        BY <1>1, <2>2, <3>3, <3>6, <4>2 DEF WatchedOf
      <4>4. SignalledOf(q, signals') \in
               {SignalledOf(plan, signals), SignalledOf(plan, signals) \cup {k}}
        <5>1. k \notin SignalledOf(plan, signals)
          BY <2>2, <3>7 DEF SignalledOf, Signalled
        <5>2. \A s : s \in SignalledOf(q, signals') => s \in DOMAIN plan.trackers
          BY <1>1, <3>3 DEF SignalledOf
        <5>3. \A s : s \in SignalledOf(plan, signals) => s \in DOMAIN plan.trackers
          BY <2>2 DEF SignalledOf
        <5>4. \A s : s # k => (s \in SignalledOf(q, signals')
                                 <=> s \in SignalledOf(plan, signals))
          BY <3>6, <5>2, <5>3
        <5>5. CASE k \in SignalledOf(q, signals')
          <6>1. SignalledOf(q, signals') = SignalledOf(plan, signals) \cup {k}
            BY <5>4, <5>5
          <6> QED BY <6>1
        <5>6. CASE k \notin SignalledOf(q, signals')
          <6>1. SignalledOf(q, signals') = SignalledOf(plan, signals)
            BY <5>1, <5>4, <5>6
          <6> QED BY <6>1
        <5> QED BY <5>5, <5>6
      <4>5. k \in Stocks
        <5>1. IsDecided(history, plan)
          BY <2>2 DEF DecisionInv
        <5> QED BY <1>2, <2>2, <3>7, <5>1, WatchedAreStocks
      <4>6. PhaseOf(plan) = "watching"
        <5>1. plan.gate_ok
          BY <2>2, <3>7 DEF PlanFits
        <5> QED BY <2>2, <2>5, <5>1 DEF PhaseOf
      <4> QED BY <3>2, <4>2, <4>3, <4>4, <4>5, <4>6 DEF FunnelMove
    <3>8. CASE ~(k \in DOMAIN plan.trackers /\ plan.trackers[k].breakout = None
                 /\ OnCandle(plan.trackers[k], c).breakout # None)
      <4>1. signals' = signals
        BY <1>1, <2>1, <3>8 DEF IsSignalOf
      <4>2. ASSUME NEW s \in DOMAIN plan.trackers
            PROVE  q.trackers[s].breakout = plan.trackers[s].breakout
        <5>1. CASE s # k
          BY <3>1, <5>1 DEF Watches
        <5>2. CASE s = k
          <6>1. q.trackers[k] = OnCandle(plan.trackers[k], c)
            BY <3>1, <5>2 DEF Watches
          <6> QED BY <2>3, <3>8, <5>2, <6>1, BreakoutOfCandle
        <5> QED BY <5>1, <5>2
      <4>3. WatchedOf(q) = WatchedOf(plan)
        BY <1>1, <2>2, <3>3, <4>2 DEF WatchedOf
      <4>4. SignalledOf(q, signals') = SignalledOf(plan, signals)
        BY <1>1, <2>2, <3>3, <4>1, <4>2 DEF SignalledOf, Signalled
      <4> QED BY <3>2, <4>3, <4>4 DEF FunnelMove
    <3> QED BY <3>7, <3>8
  <2> QED BY <2>4, <2>5
<1> QED BY <1>3, <1>4

LEMMA FunnelNext ==
    ASSUME EngineInv, StampInv, DecisionInv, EngineInv', DecisionInv', [Next]_vars
    PROVE  FunnelMove(plan, signals, plan', signals')
<1>1. ASSUME NEW k \in Fed, Candle(k)
      PROVE  FunnelMove(plan, signals, plan', signals')
  <2> DEFINE c == LiveCandle(k, day, next[k])
  <2>1. /\ k \notin held /\ c \in Candles /\ c.day = day
        /\ c.label = next[k] - UtcShift /\ Turn(k, c)
    BY <1>1, CandleTurns
  <2> HIDE DEF c
  <2>2. ~Behind(k, c.day, c.label)
    <3>1. day \in Nat /\ next[k] - UtcShift \in Int
      BY EngineAssumption DEF EngineInv, ExchangeInv, Days
    <3> QED BY <2>1, <3>1 DEF Behind
  <2> QED BY <2>1, <2>2, TurnMoves
<1>2. ASSUME NEW k \in Fed, StaleCandle(k)
      PROVE  FunnelMove(plan, signals, plan', signals')
  <2> DEFINE last == Len(Tapes[tape][day - 1][k])
             c == LiveCandle(k, day - 1, last)
  <2>1. /\ k \in held /\ next[k] = 1 /\ c \in Candles /\ c.day = day - 1
        /\ c.label = last - UtcShift /\ Turn(k, c) /\ last \in Nat
    BY <1>2, StaleCandleTurns
  <2>2. LastLabel(k, day - 1) = last - UtcShift
    BY DEF LastLabel
  <2> HIDE DEF c, last
  <2>3. ~Behind(k, c.day, c.label)
    <3>1. day - 1 \in Int /\ last - UtcShift \in Int
      BY <2>1, EngineAssumption DEF EngineInv, ExchangeInv, Days
    <3> QED BY <2>1, <2>2, <3>1 DEF Behind
  <2> QED BY <2>1, <2>3, TurnMoves
<1>3. CASE Restart
  <2>1. plan' = None
    BY <1>3 DEF Restart
  <2> QED BY <2>1 DEF FunnelMove, PhaseOf, WatchedOf, SignalledOf
<1>4. ASSUME UNCHANGED <<plan, signals>>
      PROVE  FunnelMove(plan, signals, plan', signals')
  BY <1>4 DEF FunnelMove
<1>5. ASSUME NEW k \in Fed, Skip(k)
      PROVE  FunnelMove(plan, signals, plan', signals')
  BY <1>4, <1>5 DEF Skip, process
<1>6. CASE NextDay
  BY <1>4, <1>6 DEF NextDay, process
<1>7. CASE UNCHANGED vars
  BY <1>4, <1>7 DEF vars, process
<1> QED BY <1>1, <1>2, <1>3, <1>5, <1>6, <1>7 DEF Next, Finished

(* The engine implements the funnel: whatever days, restarts and late bars *)
(* do, a plan decides once, watches stocks of its sectors only, and each   *)
(* leaves the watch list once and for good, with its signal or without.    *)
THEOREM EveryDayIsAFunnel == Spec => ImplementsFunnel
<1> DEFINE phase == IF plan = None THEN "none"
                    ELSE IF ~plan.resolved THEN "gathering"
                    ELSE IF plan.gate_ok THEN "watching" ELSE "closed"
           watched == IF plan = None THEN {}
                      ELSE {s \in DOMAIN plan.trackers :
                               plan.trackers[s].breakout = None}
           signalled == IF plan = None THEN {}
                        ELSE {s \in DOMAIN plan.trackers : SignalOf(s) # {}}
<1>1. /\ phase = PhaseOf(plan) /\ phase' = PhaseOf(plan')
      /\ watched = WatchedOf(plan) /\ watched' = WatchedOf(plan')
  BY DEF PhaseOf, WatchedOf
<1>2. /\ signalled = SignalledOf(plan, signals)
      /\ signalled' = SignalledOf(plan', signals')
  <2>1. \A s : SignalOf(s) # {} <=> Signalled(plan, signals, s)
    BY DEF SignalOf, Signalled
  <2>2. \A s : SignalOf(s)' # {} <=> Signalled(plan', signals', s)
    BY DEF SignalOf, Signalled
  <2> QED BY <2>1, <2>2 DEF SignalledOf
<1>3. Init => Funnel!Init
  BY DEF Init, Funnel!Init
<1>4. EngineInv /\ StampInv /\ DecisionInv /\ EngineInv' /\ DecisionInv' /\ [Next]_vars
         => [Funnel!Next]_<<phase, watched, signalled>>
  <2> SUFFICES ASSUME EngineInv, StampInv, DecisionInv, EngineInv', DecisionInv',
                      [Next]_vars
               PROVE  [Funnel!Next]_<<phase, watched, signalled>>
    OBVIOUS
  <2>1. FunnelMove(plan, signals, plan', signals')
    BY FunnelNext
  <2> HIDE DEF phase, watched, signalled
  <2>2. \/ /\ phase' \in {"gathering", "none"} /\ watched' = {} /\ signalled' = {}
        \/ /\ phase = "gathering" /\ signalled' = signalled
           /\ \/ phase' = "closed" /\ watched' = {}
              \/ phase' = "watching" /\ watched' \subseteq Stocks
        \/ /\ phase' = phase /\ phase = "watching"
           /\ \E s \in watched : /\ s \in Stocks /\ watched' = watched \ {s}
                                 /\ signalled' \in {signalled, signalled \cup {s}}
        \/ phase' = phase /\ watched' = watched /\ signalled' = signalled
    BY <1>1, <1>2, <2>1 DEF FunnelMove
  <2> USE DEF phase, watched, signalled
  <2>3. CASE phase' \in {"gathering", "none"} /\ watched' = {} /\ signalled' = {}
    BY <2>3 DEF Funnel!Next, Funnel!Begin, Funnel!Forget, Funnel!NoPlan
  <2>4. CASE /\ phase = "gathering" /\ signalled' = signalled
             /\ \/ phase' = "closed" /\ watched' = {}
                \/ phase' = "watching" /\ watched' \subseteq Stocks
    BY <2>4 DEF Funnel!Next, Funnel!Decide
  <2>5. CASE /\ phase' = phase /\ phase = "watching"
             /\ \E s \in watched : /\ s \in Stocks /\ watched' = watched \ {s}
                                   /\ signalled' \in {signalled, signalled \cup {s}}
    BY <2>5 DEF Funnel!Next, Funnel!Leave
  <2>6. CASE phase' = phase /\ watched' = watched /\ signalled' = signalled
    BY <2>6
  <2> QED BY <2>2, <2>3, <2>4, <2>5, <2>6
<1>5. Init => StampInv /\ DecisionInv
  BY DEF Init, StampInv, AllBehind, DecisionInv
<1> QED BY <1>3, <1>4, <1>5, EngineInvariant, StampNext, DecisionNext, PTL
        DEF Spec, ImplementsFunnel, Funnel!Spec, Funnel!vars

-----------------------------------------------------------------------------
(* Prices.                                                                 *)

\* The mean true range is a number when there are rows enough.
LEMMA AtrType ==
    ASSUME NEW daily \in Seq(Candles)
    PROVE  LatestAtrPct(daily) \in Int \cup {None}
<1> DEFINE n == AtrWindow + 1
           m == Len(daily) - n + 1
           rows == SubSeq(daily, m, Len(daily))
           ranges == [i \in 2 .. Len(rows) |-> TrueRange(rows[i], rows[i - 1])]
           last == rows[Len(rows)]
<1> SUFFICES ASSUME ~(Len(daily) < n) PROVE Atr(rows) \in Int
  BY DEF LatestAtrPct, LastRows
<1>1. n \in Nat /\ n >= 2 /\ Len(daily) \in Nat /\ Len(daily) >= n
  BY ReferenceAssumption, LenProperties
<1>2. m \in Nat /\ m >= 1 /\ m <= Len(daily) /\ Len(daily) - m + 1 = n
  BY <1>1
<1> HIDE DEF n, m
<1>3. rows \in Seq(Candles) /\ Len(rows) = n
  BY <1>1, <1>2
<1> HIDE DEF rows
<1>4. \A i \in 1 .. n : rows[i] \in Candles
  BY <1>3, ElementOfSeq
<1>5. \A i \in 2 .. n : ranges[i] \in Int
  <2> SUFFICES ASSUME NEW i \in 2 .. n PROVE ranges[i] \in Int
    OBVIOUS
  <2>1. i \in 1 .. n /\ i - 1 \in 1 .. n
    BY <1>1
  <2> DEFINE r == rows[i]
             p == rows[i - 1]
             S == {r.high - r.low, Abs(r.high - p.close), Abs(r.low - p.close)}
  <2>2. r \in Candles /\ p \in Candles
    BY <1>4, <2>1
  <2>3. ranges[i] = Max(S)
    BY <1>3 DEF TrueRange
  <2> HIDE DEF r, p
  <2>4. r.high \in Nat /\ r.low \in Nat /\ p.close \in Nat
    BY <2>2 DEF Candles
  <2>5. S \subseteq Int /\ S # {}
    BY <2>4 DEF Abs
  <2>6. IsFiniteSet(S)
    <3> DEFINE a == r.high - r.low
               b == Abs(r.high - p.close)
               c == Abs(r.low - p.close)
    <3> HIDE DEF a, b, c
    <3>1. IsFiniteSet({a, b, c})
      <4>1. IsFiniteSet({a})
        BY FS_Singleton
      <4>2. IsFiniteSet({a} \cup {b})
        BY <4>1, FS_AddElement
      <4>3. IsFiniteSet(({a} \cup {b}) \cup {c})
        BY <4>2, FS_AddElement
      <4>4. {a, b, c} = ({a} \cup {b}) \cup {c}
        OBVIOUS
      <4> QED BY <4>3, <4>4
    <3> QED BY <3>1 DEF a, b, c
  <2> HIDE DEF S
  <2>7. Max(S) \in S
    BY <2>5, <2>6, MaxOfSet
  <2> QED BY <2>3, <2>5, <2>7
<1>6. DOMAIN ranges = 2 .. n
  BY <1>3
<1>7. IsFiniteSet(2 .. n)
  BY <1>1, FS_Interval
<1>8. Atr(rows) = (10000 * SumFunction(ranges)) \div ((n - 1) * last.close)
  BY <1>3 DEF Atr
<1> HIDE DEF ranges
<1>9. SumFunction(ranges) \in Int
  BY <1>5, <1>6, <1>7, SumInt DEF SumFunction
<1>10. n \in 1 .. n
  BY <1>1
<1>11. last.close \in Nat \ {0}
  BY <1>3, <1>4, <1>10 DEF Candles
<1> DEFINE a == last.close
           b == (n - 1) * a
           s == 10000 * SumFunction(ranges)
<1>12. a \in Int /\ a >= 1 /\ n - 1 \in Int /\ n - 1 >= 1
  BY <1>1, <1>11
<1> HIDE DEF last, a
<1>13. b \in Int /\ b >= 1
  BY <1>12
<1>14. s \in Int
  BY <1>9
<1>15. Atr(rows) = s \div b
  BY <1>8 DEF a
<1> HIDE DEF b, s
<1> QED BY <1>13, <1>14, <1>15

\* The price on the losing side of another, and how far it is.
Gap(direction, price, other) == Sign(direction) * (price - other)

LEMMA GapOnSide ==
    ASSUME NEW direction \in Sides, NEW p \in Int, NEW q \in Int
    PROVE  /\ Gap(direction, p, q) \in Int
           /\ Gap(direction, p, q) >= 0 => Abs(p - q) = Gap(direction, p, q)
           /\ direction = "LONG" => Gap(direction, p, q) = p - q
           /\ direction # "LONG" => Gap(direction, p, q) = q - p
<1>1. CASE direction = "LONG"
  BY <1>1 DEF Gap, Sign, Abs
<1>2. CASE direction # "LONG"
  BY <1>2 DEF Gap, Sign, Abs
<1> QED BY <1>1, <1>2

\* The stop that apply_atr_floor returns stays on its side and keeps off.
LEMMA FlooredStop ==
    ASSUME NEW direction \in Sides, NEW entry \in Int, NEW stop \in Int,
           Gap(direction, entry, stop) >= 1,
           NEW atr \in Int \cup {None}, NEW floor \in Int
    PROVE  LET s == ApplyAtrFloor(direction, entry, stop, atr, floor)
           IN  /\ s \in Int /\ Gap(direction, entry, s) >= 1
               /\ atr # None => 1000000 * (Gap(direction, entry, s) + 1)
                                   >= entry * floor * atr
<1> DEFINE s == ApplyAtrFloor(direction, entry, stop, atr, floor)
           risk == Abs(entry - stop)
           X == entry * floor * atr
           w == X \div 1000000
<1>1. risk = Gap(direction, entry, stop) /\ risk \in Int /\ risk >= 1
  <2>1. Gap(direction, entry, stop) \in Int
    BY GapOnSide
  <2> QED BY <2>1, GapOnSide
<1>2. None \notin Int
  BY ReferenceAssumption
<1>3. s = IF atr \in {None, 0} \/ 1000000 * risk >= X
          THEN stop
          ELSE IF direction = "LONG" THEN entry - w ELSE entry + w
  BY DEF ApplyAtrFloor
<1>4. atr # None => X \in Int
  OBVIOUS
<1>5. atr = 0 => X = 0
  <2> SUFFICES ASSUME atr = 0 PROVE X = 0
    OBVIOUS
  <2> DEFINE y == entry * floor
  <2>1. y \in Int /\ X = y * 0
    OBVIOUS
  <2> HIDE DEF y, X
  <2> QED BY <2>1
<1> HIDE DEF s, risk, X
<1>6. CASE atr \in {None, 0} \/ 1000000 * risk >= X
  <2>1. s = stop
    BY <1>3, <1>6
  <2>2. atr # None => 1000000 * (risk + 1) >= X
    BY <1>1, <1>4, <1>5, <1>6
  <2> QED BY <1>1, <2>1, <2>2 DEF s, X
<1>7. CASE ~(atr \in {None, 0} \/ 1000000 * risk >= X)
  <2>1. X \in Int /\ 1000000 * risk < X
    BY <1>1, <1>4, <1>7
  <2>2. w \in Int /\ w >= risk /\ 1000000 * (w + 1) >= X
    BY <1>1, <2>1
  <2>3. s = IF direction = "LONG" THEN entry - w ELSE entry + w
    BY <1>3, <1>7
  <2> HIDE DEF w
  <2>4. s \in Int
    BY <2>2, <2>3
  <2>5. Gap(direction, entry, s) = w
    <3>1. CASE direction = "LONG"
      <4>1. s = entry - w
        BY <2>3, <3>1
      <4>2. Gap(direction, entry, s) = entry - s
        BY <2>4, <3>1, GapOnSide
      <4> QED BY <2>2, <4>1, <4>2
    <3>2. CASE direction # "LONG"
      <4>1. s = entry + w
        BY <2>3, <3>2
      <4>2. Gap(direction, entry, s) = s - entry
        BY <2>4, <3>2, GapOnSide
      <4> QED BY <2>2, <4>1, <4>2
    <3> QED BY <3>1, <3>2
  <2> QED BY <1>1, <2>2, <2>4, <2>5 DEF s, X
<1> QED BY <1>6, <1>7

\* Stop, target and breakeven trigger are where they should be.
HasRoom(x) ==
    /\ Sign(x.direction) * (x.breakout_price - x.stop_price) > 0
    /\ Between(x.stop_price, x.breakout_price, x.target_price)
    /\ x.breakeven_trigger # None =>
          Between(x.breakout_price, x.breakeven_trigger, x.target_price)

KeepsFloor(x, atr) ==
    atr # None => 1000000 * (Abs(x.breakout_price - x.stop_price) + 1)
                     >= x.breakout_price * Params.stop_floor_atr * atr

\* A multiple of the risk, in paise.
LEMMA MultipleOfRisk ==
    ASSUME NEW risk \in Int, risk >= 1, NEW a \in Int, a >= 100
    PROVE  /\ (a * risk) \div 100 \in Int /\ (a * risk) \div 100 >= 1
           /\ \A b \in Int : b >= a + 100 =>
                 /\ (b * risk) \div 100 \in Int
                 /\ (b * risk) \div 100 > (a * risk) \div 100
<1> DEFINE x == a * risk
<1>1. x \in Int /\ x >= 100
  <2> DEFINE e == a - 100
             f == risk - 1
  <2>1. e \in Nat /\ f \in Nat /\ a = e + 100 /\ risk = f + 1
    OBVIOUS
  <2> HIDE DEF e, f
  <2>2. x = e * f + e + 100 * f + 100 /\ e * f \in Nat
    BY <2>1
  <2> QED BY <2>1, <2>2
<1>2. x \div 100 \in Int /\ x \div 100 >= 1
  <2> HIDE DEF x
  <2> QED BY <1>1
<1>3. ASSUME NEW b \in Int, b >= a + 100
      PROVE  /\ (b * risk) \div 100 \in Int
             /\ (b * risk) \div 100 > x \div 100
  <2> DEFINE y == b * risk
             e == b - (a + 100)
  <2>1. e \in Nat /\ b = a + 100 + e
    BY <1>3
  <2> HIDE DEF e
  <2>2. y = x + 100 * risk + e * risk /\ e * risk \in Nat /\ y \in Int
    BY <2>1
  <2>3. y >= x + 100
    BY <1>1, <2>2
  <2> HIDE DEF x, y
  <2>4. y \div 100 \in Int /\ y \div 100 > x \div 100
    BY <1>1, <2>2, <2>3
  <2> QED BY <2>4 DEF y
<1> QED BY <1>2, <1>3

\* The price at a multiple of the risk.
PriceAt(direction, entry, stop, rrr) ==
    entry + Sign(direction) * ((rrr * Abs(entry - stop)) \div 100)

LEMMA SignalFields ==
    ASSUME NEW k, NEW direction, NEW sector, NEW b, NEW atr
    PROVE  LET x == SignalFor(k, direction, sector, b, atr)
               stop == ApplyAtrFloor(direction, b.entry, b.stop, atr,
                                     Params.stop_floor_atr)
           IN  /\ x.direction = direction /\ x.breakout_price = b.entry
               /\ x.stop_price = stop
               /\ x.target_price = PriceAt(direction, b.entry, stop, Params.target_rrr)
               /\ x.breakeven_trigger =
                     IF Params.breakeven_rrr = None THEN None
                     ELSE PriceAt(direction, b.entry, stop, Params.breakeven_rrr)
  BY DEF SignalFor, PriceAt

\* Prices at two multiples of the risk lie beyond the entry, in order.
LEMMA PricesAtMultiples ==
    ASSUME NEW direction \in Sides, NEW entry \in Int, NEW stop \in Int,
           Gap(direction, entry, stop) >= 1, NEW c \in Int, c >= 100
    PROVE  /\ Between(stop, entry, PriceAt(direction, entry, stop, c))
           /\ \A a \in Int : a >= 100 /\ c >= a + 100 =>
                 Between(entry, PriceAt(direction, entry, stop, a),
                         PriceAt(direction, entry, stop, c))
<1> DEFINE risk == Abs(entry - stop)
           far == (c * risk) \div 100
<1>1. risk = Gap(direction, entry, stop) /\ risk \in Int /\ risk >= 1
  <2>1. Gap(direction, entry, stop) \in Int
    BY GapOnSide
  <2> QED BY <2>1, GapOnSide
<1>2. (direction = "LONG" => risk = entry - stop)
      /\ (direction # "LONG" => risk = stop - entry)
  BY <1>1, GapOnSide
<1>3. PriceAt(direction, entry, stop, c) = entry + Sign(direction) * far
  BY DEF PriceAt
<1>4. \A a : PriceAt(direction, entry, stop, a)
               = entry + Sign(direction) * ((a * risk) \div 100)
  BY DEF PriceAt
<1> HIDE DEF risk
<1>5. far \in Int /\ far >= 1
  BY <1>1, MultipleOfRisk
<1>6. \A y \in Int : Sign(direction) * y = IF direction = "LONG" THEN y ELSE 0 - y
  BY DEF Sign
<1>7. Between(stop, entry, PriceAt(direction, entry, stop, c))
  <2> HIDE DEF far
  <2>1. PriceAt(direction, entry, stop, c)
           = entry + (IF direction = "LONG" THEN far ELSE 0 - far)
    BY <1>3, <1>5, <1>6
  <2> QED BY <1>1, <1>2, <1>5, <2>1 DEF Between
<1>8. ASSUME NEW a \in Int, a >= 100, c >= a + 100
      PROVE  Between(entry, PriceAt(direction, entry, stop, a),
                     PriceAt(direction, entry, stop, c))
  <2> DEFINE near == (a * risk) \div 100
  <2>1. near \in Int /\ near >= 1 /\ far > near
    BY <1>1, <1>8, MultipleOfRisk
  <2>2. PriceAt(direction, entry, stop, a) = entry + Sign(direction) * near
    BY <1>4
  <2> HIDE DEF near, far
  <2>3. PriceAt(direction, entry, stop, a)
           = entry + (IF direction = "LONG" THEN near ELSE 0 - near)
    BY <1>6, <2>1, <2>2
  <2>4. PriceAt(direction, entry, stop, c)
           = entry + (IF direction = "LONG" THEN far ELSE 0 - far)
    BY <1>3, <1>5, <1>6
  <2> QED BY <1>5, <2>1, <2>3, <2>4 DEF Between
<1> QED BY <1>7, <1>8

\* A signal for a breakout with its stop beyond the candle can be traded.
LEMMA SignalHasRoom ==
    ASSUME RulesLeaveRoom, NEW direction \in Sides, NEW b,
           b.entry \in Int, b.stop \in Int, Gap(direction, b.entry, b.stop) >= 1,
           NEW atr \in Int \cup {None}, NEW k, NEW sector
    PROVE  /\ HasRoom(SignalFor(k, direction, sector, b, atr))
           /\ KeepsFloor(SignalFor(k, direction, sector, b, atr), atr)
<1> DEFINE x == SignalFor(k, direction, sector, b, atr)
           entry == b.entry
           first == b.stop
           stop == ApplyAtrFloor(direction, entry, first, atr, Params.stop_floor_atr)
<1>1. /\ x.direction = direction /\ x.breakout_price = entry /\ x.stop_price = stop
      /\ x.target_price = PriceAt(direction, entry, stop, Params.target_rrr)
      /\ x.breakeven_trigger = IF Params.breakeven_rrr = None THEN None
                               ELSE PriceAt(direction, entry, stop,
                                            Params.breakeven_rrr)
  BY SignalFields
<1>2. Params.stop_floor_atr \in Int /\ Params.target_rrr \in Int
      /\ (Params.breakeven_rrr # None => Params.breakeven_rrr \in Int)
  BY PlanAssumption DEF StrategyParams
<1>3. entry \in Int /\ first \in Int /\ Gap(direction, entry, first) >= 1
  OBVIOUS
<1> HIDE DEF x, entry, first
<1>4. stop \in Int /\ Gap(direction, entry, stop) >= 1
      /\ (atr # None => 1000000 * (Gap(direction, entry, stop) + 1)
                           >= entry * Params.stop_floor_atr * atr)
  BY <1>2, <1>3, FlooredStop
<1> HIDE DEF stop
<1>5. Abs(entry - stop) = Gap(direction, entry, stop)
      /\ Gap(direction, entry, stop) \in Int
  <2>1. Gap(direction, entry, stop) \in Int
    BY <1>3, <1>4, GapOnSide
  <2> QED BY <1>3, <1>4, <2>1, GapOnSide
<1>6. KeepsFloor(x, atr)
  BY <1>1, <1>4, <1>5 DEF KeepsFloor
<1>7. Sign(x.direction) * (x.breakout_price - x.stop_price) > 0
  BY <1>1, <1>4, <1>5 DEF Gap
<1>8. Between(x.stop_price, x.breakout_price, x.target_price)
  BY <1>1, <1>2, <1>3, <1>4, PricesAtMultiples DEF RulesLeaveRoom
<1>9. x.breakeven_trigger # None =>
         Between(x.breakout_price, x.breakeven_trigger, x.target_price)
  <2> SUFFICES ASSUME x.breakeven_trigger # None
               PROVE  Between(x.breakout_price, x.breakeven_trigger, x.target_price)
    OBVIOUS
  <2> DEFINE a == Params.breakeven_rrr
             c == Params.target_rrr
  <2>1. Params.breakeven_rrr # None
    BY <1>1
  <2>2. a \in Int /\ a >= 100 /\ c \in Int /\ c >= 100 /\ c >= a + 100
    BY <1>2, <2>1 DEF RulesLeaveRoom
  <2>3. /\ x.breakeven_trigger = PriceAt(direction, entry, stop, a)
        /\ x.target_price = PriceAt(direction, entry, stop, c)
        /\ x.breakout_price = entry
    BY <1>1, <2>1
  <2> HIDE DEF a, c
  <2>4. Between(entry, PriceAt(direction, entry, stop, a),
                PriceAt(direction, entry, stop, c))
    BY <1>3, <1>4, <2>2, PricesAtMultiples
  <2> QED BY <2>3, <2>4
<1> QED BY <1>6, <1>7, <1>8, <1>9 DEF HasRoom, x

\* A candle at real prices breaks out with its stop on the losing side.
LEMMA BreakoutHasGap ==
    ASSUME NEW t \in Trackers, NEW c \in Candles, c.low >= 1, c.low <= c.high
    PROVE  LET b == BreakoutAt(t, c)
           IN  b.entry \in Int /\ b.stop \in Int /\ Gap(t.direction, b.entry, b.stop) >= 1
<1> DEFINE b == BreakoutAt(t, c)
           low == c.low
           high == c.high
<1>1. low \in Int /\ high \in Int /\ low >= 1 /\ low <= high
  BY DEF Candles
<1>2. t.direction \in Sides
  BY DEF Trackers
<1>3. \A p \in Int : p >= 1 => Buffer(p) \in Int /\ Buffer(p) >= 1
  BY DEF Buffer
<1>4. CASE t.direction = "LONG"
  <2>1. b.entry = high /\ b.stop = low - Buffer(low)
    BY <1>4 DEF BreakoutAt, EntryAndStop
  <2> HIDE DEF b, low, high
  <2>2. b.entry \in Int /\ b.stop \in Int /\ b.entry - b.stop >= 1
    BY <1>1, <1>3, <2>1
  <2>3. Gap(t.direction, b.entry, b.stop) = b.entry - b.stop
    BY <1>2, <1>4, <2>2, GapOnSide
  <2> QED BY <2>2, <2>3 DEF b
<1>5. CASE t.direction # "LONG"
  <2>1. b.entry = low /\ b.stop = high + Buffer(high)
    BY <1>5 DEF BreakoutAt, EntryAndStop
  <2> HIDE DEF b, low, high
  <2>2. b.entry \in Int /\ b.stop \in Int /\ b.stop - b.entry >= 1
    BY <1>1, <1>3, <2>1
  <2>3. Gap(t.direction, b.entry, b.stop) = b.stop - b.entry
    BY <1>2, <1>5, <2>2, GapOnSide
  <2> QED BY <2>2, <2>3 DEF b
<1> QED BY <1>4, <1>5

\* Every signal has room, and those of a day that was begun once have their
\* stops no nearer than the floor of the history loaded.
TradeInv ==
    /\ \A x \in signals : HasRoom(x)
    /\ currentDate = day /\ plansToday = 1 =>
          \A x \in signals : x.day = day =>
             KeepsFloor(x, LatestAtrPct(history.stock_daily[x.symbol]))

LEMMA NewSignalHasRoom ==
    ASSUME RulesLeaveRoom, HistoryFits(history),
           NEW p, PlanFits(history, p), IsDecided(history, p),
           NEW k \in Fed, NEW c \in Candles,
           k \in LIQUID_UNIVERSE => c.low >= 1 /\ c.low <= c.high,
           NEW x, IsSignalOf(x, p, k, c)
    PROVE  HasRoom(x) /\ KeepsFloor(x, LatestAtrPct(history.stock_daily[x.symbol]))
<1> DEFINE atr == LatestAtrPct(history.stock_daily[k])
           t == p.trackers[k]
           b == BreakoutAt(t, c)
           sector == SectorFor(k, p.sectors)
<1>1. /\ k \in DOMAIN p.trackers /\ p.resolved
      /\ x = SignalFor(k, p.direction, sector, b, atr) /\ x.symbol = k
  BY DEF IsSignalOf
<1>2. /\ p.gate_ok /\ p.direction \in Sides /\ t \in Trackers
      /\ k \in LIQUID_UNIVERSE /\ k \in Keys
      /\ p.buffer[k] \in Seq(Candles) /\ t = Tracked(p.direction, p.buffer[k])
  BY <1>1, EngineAssumption DEF PlanFits, Plans
<1>3. t.direction = p.direction
  BY <1>2, TrackedType
<1>4. atr \in Int \cup {None}
  <2>1. k \in QualifiedOf(history, p.buffer, p.direction, p.sectors)
    BY <1>1, <1>2 DEF IsDecided, Decides
  <2>2. k \in DOMAIN history.stock_daily
    BY <2>1 DEF QualifiedOf, Qualifies, HistoryFits
  <2>3. history.stock_daily[k] \in Seq(Candles)
    BY <2>2 DEF HistoryFits
  <2> QED BY <2>3, AtrType
<1>5. b.entry \in Int /\ b.stop \in Int /\ Gap(p.direction, b.entry, b.stop) >= 1
  <2> HIDE DEF t
  <2> QED BY <1>2, <1>3, BreakoutHasGap
<1> HIDE DEF t, b, atr, sector
<1>6. HasRoom(x) /\ KeepsFloor(x, atr)
  BY <1>1, <1>2, <1>4, <1>5, SignalHasRoom
<1> QED BY <1>1, <1>6 DEF atr

LEMMA TurnKeepsTrade ==
    ASSUME RulesLeaveRoom, EngineInv, DecisionInv, OnceInv, StampInv, TradeInv,
           NEW k \in Fed, NEW c \in Candles, Turn(k, c), day' = day,
           k \in LIQUID_UNIVERSE => c.low >= 1 /\ c.low <= c.high
    PROVE  TradeInv'
<1> DEFINE today == Today(c)
           Atr0(s) == LatestAtrPct(history.stock_daily[s])
<1>1. /\ PlanFits(history, today) /\ currentDate' = c.day
      /\ \/ signals' = signals
         \/ \E x : signals' = signals \cup {x} /\ IsSignalOf(x, today, k, c)
  BY TurnFits
<1>2. HistoryFits(history) /\ history' = history
      /\ plansToday' = IF c.day # currentDate THEN plansToday + 1 ELSE plansToday
  BY HistoryIsTyped DEF Turn
<1>3. IsDecided(history, today)
  <2>1. CASE c.day # currentDate
    BY <2>1 DEF Today, NewDayPlan, IsDecided
  <2>2. CASE c.day = currentDate
    <3>1. today = plan
      BY <2>2 DEF Today
    <3> QED BY <1>1, <3>1, PlanIsSome DEF DecisionInv
  <2> QED BY <2>1, <2>2
<1>4. c.day # currentDate => signals' = signals
  BY <1>1 DEF Today, NewDayPlan, IsSignalOf
<1> HIDE DEF today
<1>5. \A x \in signals' :
         \/ x \in signals
         \/ HasRoom(x) /\ KeepsFloor(x, LatestAtrPct(history.stock_daily[x.symbol]))
  BY <1>1, <1>2, <1>3, NewSignalHasRoom
<1>6. \A x \in signals' : HasRoom(x)
  BY <1>5 DEF TradeInv
<1>7. ASSUME c.day = day, plansToday' = 1, NEW x \in signals', x.day = day
      PROVE  KeepsFloor(x, LatestAtrPct(history.stock_daily[x.symbol]))
  <2>1. CASE c.day # currentDate
    <3>1. plansToday = 0 /\ x \in signals
      BY <1>2, <1>4, <1>7, <2>1 DEF EngineInv, ProcessInv
    <3>2. x.symbol \in Fed /\ x \in TodaysSignalsOf(x.symbol)
      BY <1>7, <3>1 DEF StampInv, AllBehind, TodaysSignalsOf
    <3>3. /\ IsFiniteSet(TodaysSignalsOf(x.symbol))
          /\ Cardinality(TodaysSignalsOf(x.symbol)) \in Nat
      BY TodaysSignalsAreFew
    <3>4. Cardinality(TodaysSignalsOf(x.symbol)) = 0
      BY <3>1, <3>2, <3>3 DEF OnceInv
    <3> QED BY <3>2, <3>3, <3>4, FS_EmptySet
  <2>2. CASE c.day = currentDate
    <3>1. plansToday = 1 /\ currentDate = day
      BY <1>2, <1>7, <2>2
    <3> QED BY <1>5, <1>7, <3>1 DEF TradeInv
  <2> QED BY <2>1, <2>2
<1> QED BY <1>1, <1>2, <1>6, <1>7 DEF TradeInv

\* The candles of the stocks are as real as the bars of the market.
LEMMA LiveCandleIsReal ==
    ASSUME StockPricesAreReal, NEW k \in Fed, NEW d \in Days, tape \in DOMAIN Tapes,
           NEW slot \in 1 .. Len(Tapes[tape][d][k]), k \in LIQUID_UNIVERSE
    PROVE  /\ LiveCandle(k, d, slot).low >= 1
           /\ LiveCandle(k, d, slot).low <= LiveCandle(k, d, slot).high
  BY DEF StockPricesAreReal, LiveCandle, Row

LEMMA TradeNext ==
    ASSUME RulesLeaveRoom, StockPricesAreReal, EngineInv, DecisionInv, OnceInv,
           StampInv, TradeInv, [Next]_vars
    PROVE  TradeInv'
<1>1. tape \in DOMAIN Tapes /\ day \in Days
  BY DEF EngineInv, ExchangeInv
<1>2. ASSUME NEW k \in Fed, Candle(k)
      PROVE  TradeInv'
  <2> DEFINE c == LiveCandle(k, day, next[k])
  <2>1. /\ next[k] \in 1 .. Bars(k) /\ c \in Candles /\ Turn(k, c) /\ day' = day
    BY <1>2, CandleTurns
  <2>2. k \in LIQUID_UNIVERSE => c.low >= 1 /\ c.low <= c.high
    BY <1>1, <2>1, LiveCandleIsReal DEF Bars
  <2> HIDE DEF c
  <2> QED BY <2>1, <2>2, TurnKeepsTrade
<1>3. ASSUME NEW k \in Fed, StaleCandle(k)
      PROVE  TradeInv'
  <2> DEFINE last == Len(Tapes[tape][day - 1][k])
             c == LiveCandle(k, day - 1, last)
  <2>1. /\ day - 1 \in Days /\ last \in Nat /\ last >= 1
        /\ c \in Candles /\ Turn(k, c) /\ day' = day
    BY <1>3, StaleCandleTurns
  <2>2. last \in 1 .. Len(Tapes[tape][day - 1][k])
    BY <2>1
  <2>3. k \in LIQUID_UNIVERSE => c.low >= 1 /\ c.low <= c.high
    <3> HIDE DEF last
    <3> QED BY <1>1, <2>1, <2>2, LiveCandleIsReal
  <2> HIDE DEF c
  <2> QED BY <2>1, <2>3, TurnKeepsTrade
<1>4. CASE Restart
  <2>1. currentDate' # day'
    BY <1>1, <1>4, ReferenceAssumption DEF Restart, exchange, Days
  <2>2. signals' = signals
    BY <1>4 DEF Restart
  <2> QED BY <2>1, <2>2 DEF TradeInv
<1>5. CASE NextDay
  <2>1. day' = day + 1 /\ UNCHANGED <<currentDate, signals, plan>>
    BY <1>5 DEF NextDay, process
  <2>2. currentDate' # day'
    BY <1>1, <2>1, ReferenceAssumption DEF EngineInv, ProcessInv, Days
  <2> QED BY <2>1, <2>2 DEF TradeInv
<1>6. ASSUME UNCHANGED <<currentDate, day, plansToday, signals, history>>
      PROVE  TradeInv'
  BY <1>6 DEF TradeInv
<1>7. ASSUME NEW k \in Fed, Skip(k)
      PROVE  TradeInv'
  BY <1>6, <1>7 DEF Skip, process
<1>8. CASE UNCHANGED vars
  BY <1>6, <1>8 DEF vars, exchange, process, ghosts
<1> QED BY <1>2, <1>3, <1>4, <1>5, <1>7, <1>8 DEF Next, Finished

(* What is published can be sized and traded, if the stocks have real      *)
(* prices and the rules put target and breakeven trigger apart: the stop   *)
(* lies on the losing side, no nearer than the ATR floor of the history    *)
(* loaded, target and trigger on the winning side, in that order.          *)
THEOREM SignalsCanBeTraded ==
    ASSUME RulesLeaveRoom, StockPricesAreReal
    PROVE  Spec => []SignalsAreTradeable
<1>1. Init => TradeInv /\ OnceInv /\ StampInv /\ DecisionInv
  <2>1. Init => \A s : TodaysSignalsOf(s) = {} /\ ~MaySignal(s)
    BY DEF Init, TodaysSignalsOf, MaySignal
  <2>2. Init => OnceInv
    BY <2>1, FS_EmptySet DEF Init, OnceInv
  <2> QED BY <2>2 DEF Init, TradeInv, StampInv, AllBehind, DecisionInv
<1>2. TradeInv => SignalsAreTradeable
  <2> SUFFICES ASSUME TradeInv, NEW x \in signals
               PROVE  /\ HasRoom(x)
                      /\ x.day = day /\ currentDate = day /\ plansToday = 1 =>
                            KeepsFloor(x, LatestAtrPct(history.stock_daily[x.symbol]))
    BY DEF SignalsAreTradeable, HasRoom, KeepsFloor
  <2> QED BY DEF TradeInv
<1>3. /\ EngineInv /\ DecisionInv /\ OnceInv /\ StampInv /\ TradeInv /\ [Next]_vars
            => TradeInv'
  BY TradeNext
<1> QED BY <1>1, <1>2, <1>3, EngineInvariant, OnceNext, StampNext, DecisionNext,
           PTL DEF Spec

=============================================================================
