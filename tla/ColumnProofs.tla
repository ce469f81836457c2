---------------------------- MODULE ColumnProofs ----------------------------
(***************************************************************************)
(* Facts about the columns of Columns.tla that hold for every value list   *)
(* and every width: the dictionary is the sorted list of the distinct      *)
(* values, a lookup in it finds each of them, and decoding gives back what *)
(* was encoded.                                                            *)
(***************************************************************************)
EXTENDS Columns, FiniteSetTheorems, TLAPS

\* The positions of a list of length n are n.
LEMMA PositionsCount ==
  ASSUME NEW n \in Nat
  PROVE  IsFiniteSet(1 .. n) /\ Cardinality(1 .. n) = n
<1>1. IsFiniteSet(1 .. n) /\ Cardinality(1 .. n) = IF 1 > n THEN 0 ELSE n - 1 + 1
  BY FS_Interval
<1> QED
  BY <1>1

----------------------------------------------------------------------------
(* Ranks                                                                    *)

\* What lies below a member of a finite set is finite and not all of the set:
\* a rank is a position of a list as long as the set.
LEMMA RankInRange ==
  ASSUME NEW S \in SUBSET Int, IsFiniteSet(S), NEW v \in S
  PROVE  Rank(S, v) \in 0 .. Cardinality(S) - 1
<1> DEFINE below == {e \in S : e < v}
<1>1. IsFiniteSet(below) /\ Cardinality(below) <= Cardinality(S)
  BY FS_Subset
<1>2. Cardinality(below) # Cardinality(S)
  BY v \notin below, FS_Subset
<1>3. Cardinality(below) \in Nat /\ Cardinality(S) \in Nat
  BY <1>1, FS_CardinalityType
<1> QED
  BY <1>1, <1>2, <1>3 DEF Rank

\* A smaller member has a smaller rank.
LEMMA RankIncreases ==
  ASSUME NEW S \in SUBSET Int, IsFiniteSet(S), NEW v \in S, NEW w \in S, v < w
  PROVE  Rank(S, v) < Rank(S, w)
<1> DEFINE T == {e \in S : e < w}
<1>1. IsFiniteSet(T)
  BY FS_Subset
<1>2. {e \in S : e < v} = {e \in T : e < v}
  <2>1. \A e \in S : e < v => e < w
    OBVIOUS
  <2> QED
    BY <2>1
<1>3. v \in T /\ T \in SUBSET Int
  OBVIOUS
<1>4. Rank(T, v) \in 0 .. Cardinality(T) - 1
  BY <1>1, <1>3, RankInRange
<1>5. Rank(S, v) = Rank(T, v) /\ Rank(S, w) = Cardinality(T)
  BY <1>2 DEF Rank
<1>6. Cardinality(T) \in Nat
  BY <1>1, FS_CardinalityType
<1> QED
  BY <1>4, <1>5, <1>6

\* Every position is the rank of a member.
LEMMA RankOnto ==
  ASSUME NEW S \in SUBSET Int, IsFiniteSet(S), NEW p \in 0 .. Cardinality(S) - 1
  PROVE  \E v \in S : Rank(S, v) = p
<1> DEFINE n == Cardinality(S)
           f == [v \in S |-> Rank(S, v)]
<1>1. n \in Nat
  BY FS_CardinalityType
<1>2. f \in [S -> 0 .. n - 1]
  BY RankInRange
<1>3. \A v, w \in S : f[v] = f[w] => v = w
  <2> SUFFICES ASSUME NEW v \in S, NEW w \in S, v # w
               PROVE  f[v] # f[w]
    OBVIOUS
  <2>1. v < w \/ w < v
    OBVIOUS
  <2>2. f[v] \in Int /\ f[w] \in Int
    BY <1>1, <1>2
  <2>3. f[v] < f[w] \/ f[w] < f[v]
    BY <2>1, RankIncreases
  <2> QED
    BY <2>2, <2>3
<1>4. f \in Injection(S, 0 .. n - 1)
  BY <1>2, <1>3 DEF Injection, IsInjective
<1>5. IsFiniteSet(0 .. n - 1) /\ Cardinality(0 .. n - 1) = n
  BY <1>1, FS_Interval
<1>6. f \in Surjection(S, 0 .. n - 1)
  BY <1>4, <1>5, FS_Injection
<1> QED
  BY <1>6 DEF Surjection

----------------------------------------------------------------------------
(* The dictionary                                                           *)

\* The distinct values of a column are a finite set of at most one value for
\* each row.
LEMMA EntriesAreFinite ==
  ASSUME NEW values \in Seq(Int)
  PROVE  /\ Range(values) \in SUBSET Int
         /\ IsFiniteSet(Range(values))
         /\ Cardinality(Range(values)) \in 0 .. Len(values)
         /\ \A row \in 1 .. Len(values) : values[row] \in Range(values)
<1>1. values \in Surjection(1 .. Len(values), Range(values))
  BY DEF Surjection, Range
<1>2. IsFiniteSet(1 .. Len(values)) /\ Cardinality(1 .. Len(values)) = Len(values)
  BY PositionsCount
<1>3. IsFiniteSet(Range(values)) /\ Cardinality(Range(values)) <= Len(values)
  BY <1>1, <1>2, FS_Surjection
<1>4. Cardinality(Range(values)) \in Nat
  BY <1>3, FS_CardinalityType
<1> QED
  BY <1>3, <1>4 DEF Range

\* Position p of the dictionary holds the value of rank p - 1.
LEMMA DictionaryByRank ==
  ASSUME NEW values \in Seq(Int)
  PROVE  LET S == Range(values)
         IN  /\ Dictionary(values) \in [1 .. Cardinality(S) -> S]
             /\ \A p \in 1 .. Cardinality(S) : Rank(S, Dictionary(values)[p]) = p - 1
<1> DEFINE S == Range(values)
           n == Cardinality(S)
           d == Dictionary(values)
<1>1. S \in SUBSET Int /\ IsFiniteSet(S) /\ n \in Nat
  BY EntriesAreFinite
<1>2. d = [pos \in 1 .. n |-> CHOOSE value \in S : Rank(S, value) = pos - 1]
  BY DEF Dictionary
<1>3. ASSUME NEW p \in 1 .. n
      PROVE  d[p] \in S /\ Rank(S, d[p]) = p - 1
  <2>1. p - 1 \in 0 .. n - 1
    BY <1>1
  <2>2. \E v \in S : Rank(S, v) = p - 1
    BY <1>1, <2>1, RankOnto
  <2>3. d[p] = CHOOSE value \in S : Rank(S, value) = p - 1
    BY <1>2
  <2> HIDE DEF d, S, n
  <2> QED
    BY <2>2, <2>3
<1> HIDE DEF S, n
<1>4. d \in [1 .. n -> S]
  BY <1>2, <1>3
<1> QED
  BY <1>3, <1>4 DEF S, n

\* The dictionary is sorted, without duplicates, and holds every value.
LEMMA DictionaryIsSorted ==
  ASSUME NEW values \in Seq(Int)
  PROVE  /\ Dictionary(values) \in Seq(Int)
         /\ \A p, q \in DOMAIN Dictionary(values) :
              p < q => Dictionary(values)[p] < Dictionary(values)[q]
         /\ Range(Dictionary(values)) = Range(values)
<1> DEFINE S == Range(values)
           n == Cardinality(S)
           d == Dictionary(values)
<1>1. S \in SUBSET Int /\ IsFiniteSet(S) /\ n \in Nat
  BY EntriesAreFinite
<1>2. d \in [1 .. n -> S] /\ \A p \in 1 .. n : Rank(S, d[p]) = p - 1
  BY DictionaryByRank
<1> HIDE DEF S, n, d
<1>3. d \in Seq(Int)
  <2>1. d \in [1 .. n -> Int]
    BY <1>1, <1>2
  <2> QED
    BY <1>1, <2>1
<1>4. \A p, q \in 1 .. n : p < q => d[p] < d[q]
  <2> SUFFICES ASSUME NEW p \in 1 .. n, NEW q \in 1 .. n, p < q
               PROVE  d[p] < d[q]
    OBVIOUS
  <2>1. d[p] \in S /\ d[q] \in S /\ Rank(S, d[p]) = p - 1 /\ Rank(S, d[q]) = q - 1
    BY <1>2
  <2>2. d[p] # d[q]
    BY <2>1
  <2>3. ~(d[q] < d[p])
    <3> SUFFICES ASSUME d[q] < d[p] PROVE FALSE
      OBVIOUS
    <3>1. Rank(S, d[q]) < Rank(S, d[p])
      BY <1>1, <2>1, RankIncreases
    <3> QED
      BY <2>1, <3>1
  <2>4. d[p] \in Int /\ d[q] \in Int
    BY <1>1, <2>1
  <2> QED
    BY <2>2, <2>3, <2>4
<1>5. Range(d) = S
  <2>1. \A v \in S : \E p \in 1 .. n : d[p] = v
    <3> SUFFICES ASSUME NEW v \in S PROVE \E p \in 1 .. n : d[p] = v
      OBVIOUS
    <3> DEFINE p == Rank(S, v) + 1
    <3>1. p \in 1 .. n /\ Rank(S, v) = p - 1
      <4>1. Rank(S, v) \in 0 .. n - 1
        BY <1>1, RankInRange DEF n
      <4> QED
        BY <1>1, <4>1
    <3> HIDE DEF p
    <3>2. d[p] \in S /\ Rank(S, d[p]) = Rank(S, v)
      BY <1>2, <3>1
    <3>3. ~(d[p] < v) /\ ~(v < d[p])
      <4>1. Rank(S, v) \in Int
        BY <1>1, <3>1
      <4>2. d[p] < v => Rank(S, d[p]) < Rank(S, v)
        BY <1>1, <3>2, RankIncreases
      <4>3. v < d[p] => Rank(S, v) < Rank(S, d[p])
        BY <1>1, <3>2, RankIncreases
      <4> QED
        BY <3>2, <4>1, <4>2, <4>3
    <3>4. d[p] = v
      <4>1. d[p] \in Int /\ v \in Int
        BY <1>1, <3>2
      <4> QED
        BY <3>3, <4>1
    <3> QED
      BY <3>1, <3>4
  <2> QED
    BY <1>2, <2>1 DEF Range
<1>6. DOMAIN d = 1 .. n
  BY <1>2
<1> QED
  BY <1>3, <1>4, <1>5, <1>6 DEF S, d

\* std::lower_bound finds a stored value at the position of its rank.
LEMMA LookupFindsRank ==
  ASSUME NEW values \in Seq(Int), NEW v \in Range(values)
  PROVE  LowerBoundPos(Dictionary(values), v) = Rank(Range(values), v)
<1> DEFINE S == Range(values)
           n == Cardinality(S)
           d == Dictionary(values)
           r == Rank(S, v)
<1>1. S \in SUBSET Int /\ IsFiniteSet(S) /\ n \in Nat
  BY EntriesAreFinite
<1>2. d \in [1 .. n -> S] /\ \A p \in 1 .. n : Rank(S, d[p]) = p - 1
  BY DictionaryByRank
<1>3. r \in 0 .. n - 1
  BY <1>1, RankInRange
<1>4. \A p \in 1 .. n : d[p] < v <=> p <= r
  <2> SUFFICES ASSUME NEW p \in 1 .. n PROVE d[p] < v <=> p <= r
    OBVIOUS
  <2> HIDE DEF S, n, d, r
  <2>1. d[p] \in S /\ d[p] \in Int /\ v \in S /\ v \in Int /\ Rank(S, d[p]) = p - 1
    BY <1>1, <1>2 DEF S
  <2>2. d[p] < v => p - 1 < r
    BY <1>1, <2>1, RankIncreases DEF r
  <2>3. v < d[p] => r < p - 1
    BY <1>1, <2>1, RankIncreases DEF r
  <2>4. d[p] = v => r = p - 1
    BY <2>1 DEF r
  <2> QED
    BY <1>1, <1>3, <2>1, <2>2, <2>3, <2>4
<1> HIDE DEF S, n, d, r
<1>5. {p \in DOMAIN d : d[p] < v} = 1 .. r
  BY <1>1, <1>2, <1>3, <1>4
<1>6. Cardinality(1 .. r) = r
  BY <1>1, <1>3, PositionsCount
<1> QED
  BY <1>5, <1>6 DEF LowerBoundPos, d, r, S

----------------------------------------------------------------------------
(* Encoding and decoding                                                    *)

\* The type chosen for a column that may be compressed has a largest value
\* above the number of rows.
LEMMA WidthFits ==
  ASSUME NEW size \in Nat, size < UInt32Max
  PROVE  FittedMax(size) \in Nat /\ size < FittedMax(size)
BY WidthAssumption DEF FittedMax

\* A cast to T keeps what is not above the largest value of T.
LEMMA NarrowKeeps ==
  ASSUME NEW max \in Nat, NEW id \in 0 .. max
  PROVE  Narrow(id, max) = id
BY DEF Narrow

\* INVALID_VALUE_ID cast down to any of the three types is its largest value.
LEMMA NarrowedInvalid ==
  ASSUME NEW max \in {UInt8Max, UInt16Max, UInt32Max}
  PROVE  Narrow(INVALID_VALUE_ID, max) = max
<1>1. max \in Nat \ {0} /\ UInt32Max \in Nat /\ (UInt32Max + 1) % (max + 1) = 0
  BY WidthAssumption
<1>2. UInt32Max % (max + 1) = max
  BY <1>1
<1> QED
  BY <1>2 DEF Narrow, INVALID_VALUE_ID

\* Each row gets the rank of its value, unchanged by the narrow storage.
LEMMA EncodedIDs ==
  ASSUME NEW values \in Seq(Int), Len(values) < UInt32Max
  PROVE  LET vector == AttributeVector(values)
             S == Range(values)
         IN  /\ vector \in [max : {UInt8Max, UInt16Max, UInt32Max}, data : Seq(Nat)]
             /\ Len(vector.data) = Len(values)
             /\ \A row \in 1 .. Len(values) :
                  /\ vector.data[row] = Rank(S, values[row])
                  /\ vector.data[row] \in 0 .. Cardinality(S) - 1
                  /\ vector.data[row] < vector.max
<1> DEFINE S == Range(values)
           n == Len(values)
           max == FittedMax(n)
           data == [row \in 1 .. n |->
                      Narrow(LowerBoundPos(Dictionary(values), values[row]), max)]
<1>1. AttributeVector(values) = [max |-> max, data |-> data]
  BY DEF AttributeVector
<1>2. max \in Nat /\ n \in Nat /\ n < max /\ max \in {UInt8Max, UInt16Max, UInt32Max}
  BY WidthFits DEF FittedMax
<1>3. /\ S \in SUBSET Int /\ IsFiniteSet(S) /\ Cardinality(S) \in 0 .. n
      /\ \A row \in 1 .. n : values[row] \in S
  BY EntriesAreFinite
<1>4. ASSUME NEW row \in 1 .. n
      PROVE  /\ data[row] = Rank(S, values[row])
             /\ data[row] \in 0 .. Cardinality(S) - 1
             /\ data[row] < max
  <2>1. values[row] \in S
    BY <1>3
  <2>2. data[row] = Narrow(LowerBoundPos(Dictionary(values), values[row]), max)
    OBVIOUS
  <2> HIDE DEF S, n, max, data
  <2>3. LowerBoundPos(Dictionary(values), values[row]) = Rank(S, values[row])
    BY <2>1, LookupFindsRank DEF S
  <2>4. Rank(S, values[row]) \in 0 .. Cardinality(S) - 1
    BY <1>3, <2>1, RankInRange
  <2>5. Rank(S, values[row]) \in 0 .. max /\ Rank(S, values[row]) < max
    BY <1>2, <1>3, <2>4
  <2>6. Narrow(Rank(S, values[row]), max) = Rank(S, values[row])
    BY <1>2, <2>5, NarrowKeeps
  <2> QED
    BY <2>2, <2>3, <2>4, <2>5, <2>6
<1>5. data \in Seq(Nat) /\ Len(data) = n
  <2>1. \A row \in 1 .. n : data[row] \in Nat
    BY <1>3, <1>4
  <2>2. data \in [1 .. n -> Nat]
    BY <2>1
  <2> HIDE DEF data
  <2> QED
    BY <1>2, <2>2
<1> HIDE DEF S, n, max, data
<1> QED
  BY <1>1, <1>2, <1>4, <1>5 DEF S, n

\* The DictionaryColumn built from a value column has its size and, in every
\* row, its value; no row has the id that stands for INVALID_VALUE_ID.
THEOREM DecodeEncoded ==
  ASSUME NEW column \in ValueColumns, NEW type, Compressible(column, type)
  PROVE  LET encoded == DictionaryColumn(column)
         IN  /\ encoded \in DictionaryColumns
             /\ ColumnSize(encoded) = ColumnSize(column)
             /\ \A row \in 1 .. ColumnSize(column) :
                  /\ Get(encoded, row) = Get(column, row)
                  /\ ValueID(encoded, row) < UniqueValuesCount(encoded)
                  /\ ValueID(encoded, row) < encoded.attribute_vector.max
                  /\ ValueID(encoded, row)
                       # Narrow(INVALID_VALUE_ID, encoded.attribute_vector.max)
<1> DEFINE values == column.values
           S == Range(values)
           d == Dictionary(values)
           vector == AttributeVector(values)
           encoded == DictionaryColumn(column)
<1>1. /\ values \in Seq(Int) /\ column.kind = "value" /\ Len(values) < UInt32Max
      /\ column.owner \in Names /\ column.type \in ColumnTypes
  BY DEF ValueColumns, Compressible
<1>2. encoded = [kind |-> "dictionary", owner |-> column.owner, type |-> column.type,
                 dictionary |-> d, attribute_vector |-> vector]
  BY DEF DictionaryColumn
<1>3. ColumnSize(column) = Len(values) /\ \A row : Get(column, row) = values[row]
  BY <1>1 DEF ColumnSize, Get
<1> HIDE DEF values, encoded
<1>4. /\ vector \in [max : {UInt8Max, UInt16Max, UInt32Max}, data : Seq(Nat)]
      /\ Len(vector.data) = Len(values)
      /\ \A row \in 1 .. Len(values) :
           /\ vector.data[row] = Rank(S, values[row])
           /\ vector.data[row] \in 0 .. Cardinality(S) - 1
           /\ vector.data[row] < vector.max
  BY <1>1, EncodedIDs
<1>5. /\ S \in SUBSET Int /\ IsFiniteSet(S) /\ Cardinality(S) \in Nat
      /\ \A row \in 1 .. Len(values) : values[row] \in S
  BY <1>1, EntriesAreFinite
<1>6. d \in [1 .. Cardinality(S) -> S] /\ \A p \in 1 .. Cardinality(S) : Rank(S, d[p]) = p - 1
  BY <1>1, DictionaryByRank
<1>7. d \in Seq(Int) /\ Len(d) = Cardinality(S)
  BY <1>1, <1>5, <1>6, DictionaryIsSorted
<1> HIDE DEF S, d, vector
<1>8. encoded \in DictionaryColumns
  <2>1. vector \in [max : Nat, data : Seq(Nat)]
    BY <1>4, WidthAssumption
  <2> QED
    BY <1>1, <1>2, <1>7, <2>1 DEF DictionaryColumns
<1>9. ColumnSize(encoded) = ColumnSize(column)
  BY <1>2, <1>3, <1>4 DEF ColumnSize
<1>10. ASSUME NEW row \in 1 .. ColumnSize(column)
       PROVE  /\ Get(encoded, row) = Get(column, row)
              /\ ValueID(encoded, row) < UniqueValuesCount(encoded)
              /\ ValueID(encoded, row) < encoded.attribute_vector.max
              /\ ValueID(encoded, row) # Narrow(INVALID_VALUE_ID, encoded.attribute_vector.max)
  <2> DEFINE id == vector.data[row]
             v == values[row]
  <2>1. /\ v \in S /\ id = Rank(S, v) /\ id \in 0 .. Cardinality(S) - 1 /\ id < vector.max
        /\ ValueID(encoded, row) = id
    BY <1>2, <1>3, <1>4, <1>5 DEF ValueID
  <2> HIDE DEF id, v
  <2>2. id + 1 \in 1 .. Cardinality(S) /\ d[id + 1] \in S /\ Rank(S, d[id + 1]) = Rank(S, v)
    BY <1>5, <1>6, <2>1
  <2>3. d[id + 1] = v
    <3>1. d[id + 1] \in Int /\ v \in Int /\ Rank(S, v) \in Int
      <4>1. S \subseteq Int
        BY <1>5
      <4>2. Rank(S, v) \in Int
        BY <1>5, <2>1
      <4> QED
        BY <2>1, <2>2, <4>1, <4>2
    <3>2. d[id + 1] < v => Rank(S, d[id + 1]) < Rank(S, v)
      BY <1>5, <2>1, <2>2, RankIncreases
    <3>3. v < d[id + 1] => Rank(S, v) < Rank(S, d[id + 1])
      BY <1>5, <2>1, <2>2, RankIncreases
    <3> QED
      BY <2>1, <2>2, <3>1, <3>2, <3>3
  <2>4. Get(encoded, row) = d[id + 1] /\ UniqueValuesCount(encoded) = Cardinality(S)
    BY <1>2, <1>7, <2>1 DEF Get, UniqueValuesCount
  <2>5. Get(encoded, row) = Get(column, row)
    BY <1>3, <2>3, <2>4 DEF v
  <2>6. id < Cardinality(S) /\ id < vector.max /\ id \in Int
    BY <1>5, <2>1
  <2>7. encoded.attribute_vector.max = vector.max
    BY <1>2
  <2>8. Narrow(INVALID_VALUE_ID, vector.max) = vector.max
    BY <1>4, NarrowedInvalid
  <2> QED
    BY <2>1, <2>4, <2>5, <2>6, <2>7, <2>8
<1> QED
  BY <1>8, <1>9, <1>10 DEF encoded

----------------------------------------------------------------------------
(* Value columns                                                            *)

\* A column has a size.
LEMMA ColumnSizeIsNat ==
  ASSUME NEW column \in ValueColumns \cup DictionaryColumns
  PROVE  ColumnSize(column) \in Nat
BY DEF ColumnSize, ValueColumns, DictionaryColumns

\* A new value column has no rows.
LEMMA NewColumnIsEmpty ==
  ASSUME NEW name \in Names, NEW type \in ColumnTypes
  PROVE  /\ ValueColumn(name, type) \in ValueColumns
         /\ ColumnSize(ValueColumn(name, type)) = 0
BY DEF ValueColumn, ValueColumns, ColumnSize

\* An append to a value column keeps its type and the rows before the new one.
LEMMA AppendKeepsRows ==
  ASSUME NEW column \in ValueColumns, NEW input, Castable(column, input)
  PROVE  /\ ColumnAppend(column, input) \in ValueColumns
         /\ ColumnSize(ColumnAppend(column, input)) = ColumnSize(column) + 1
         /\ \A row \in 1 .. ColumnSize(column) :
              Get(ColumnAppend(column, input), row) = Get(column, row)
<1> DEFINE value == TypeCast[<<column.type, input>>]
           appended == ColumnAppend(column, input)
<1>1. value \in Int
  BY TypeAssumption DEF Castable
<1>2. /\ column = [kind |-> "value", owner |-> column.owner, type |-> column.type,
                   values |-> column.values]
      /\ column.owner \in Names /\ column.type \in ColumnTypes
      /\ column.values \in Seq(Int) /\ column.kind = "value"
  BY DEF ValueColumns
<1>3. appended = [column EXCEPT !.values = Append(column.values, value)]
  BY DEF ColumnAppend
<1> HIDE DEF value, appended
<1>4. appended = [kind |-> "value", owner |-> column.owner, type |-> column.type,
                  values |-> Append(column.values, value)]
  BY <1>2, <1>3
<1>5. Append(column.values, value) \in Seq(Int)
  BY <1>1, <1>2
<1>6. /\ appended.kind = "value" /\ appended.values = Append(column.values, value)
      /\ appended \in ValueColumns
  BY <1>2, <1>4, <1>5 DEF ValueColumns
<1>7. /\ Len(Append(column.values, value)) = Len(column.values) + 1
      /\ \A row \in 1 .. Len(column.values) :
           Append(column.values, value)[row] = column.values[row]
  BY <1>1, <1>2
<1> QED
  BY <1>2, <1>6, <1>7 DEF ColumnSize, Get, appended

----------------------------------------------------------------------------
(* lower_bound and upper_bound.                                             *)

\* A set of positions that has, with each, those before it is a prefix as long as
\* it has elements.
LEMMA PrefixCount ==
  ASSUME NEW n \in Nat, NEW S \in SUBSET (1 .. n),
         \A p \in S : \A q \in 1 .. p : q \in S
  PROVE  Cardinality(S) \in 0 .. n /\ \A p \in 1 .. n : p \in S <=> p <= Cardinality(S)
<1>1. IsFiniteSet(1 .. n) /\ Cardinality(1 .. n) = n BY PositionsCount
<1>2. IsFiniteSet(S) /\ Cardinality(S) <= n /\ Cardinality(S) \in Nat
  BY <1>1, FS_Subset, FS_CardinalityType
<1>3. ASSUME NEW p \in S PROVE p <= Cardinality(S)
  <2>1. p \in Nat /\ 1 .. p \in SUBSET S OBVIOUS
  <2>2. Cardinality(1 .. p) = p BY <2>1, PositionsCount
  <2>3. QED BY <1>2, <2>1, <2>2, FS_Subset
<1>4. ASSUME NEW p \in 1 .. n, p \notin S PROVE Cardinality(S) < p
  <2>1. \A q \in S : q \in 1 .. p - 1
    <3> SUFFICES ASSUME NEW q \in S PROVE q \in 1 .. p - 1 OBVIOUS
    <3>1. q \in 1 .. n /\ ~(p \in 1 .. q) BY <1>4
    <3>2. QED BY <3>1
  <2>2. /\ IsFiniteSet(1 .. p - 1) /\ Cardinality(1 .. p - 1) = p - 1
    <3>1. p - 1 \in Nat OBVIOUS
    <3>2. QED BY <3>1, PositionsCount
  <2>3. Cardinality(S) <= p - 1 BY <2>1, <2>2, FS_Subset
  <2>4. QED BY <1>2, <2>3
<1>5. ASSUME NEW p \in 1 .. n PROVE p \in S <=> p <= Cardinality(S)
  BY <1>2, <1>3, <1>4
<1>6. QED BY <1>2, <1>5

Ascending(dictionary) ==
  \A p, q \in DOMAIN dictionary : p < q => dictionary[p] < dictionary[q]

\* What lower_bound and upper_bound of a sorted dictionary say about an id: whether
\* its value is below, and whether it is above, the value searched for.
LEMMA BoundsSelect ==
  ASSUME NEW dictionary \in Seq(Int), Ascending(dictionary),
         Len(dictionary) <= INVALID_VALUE_ID,
         NEW column, column.dictionary = dictionary,
         NEW search \in Int, NEW id \in 0 .. Len(dictionary) - 1
  PROVE  /\ id >= LowerBound(column, search) <=> dictionary[id + 1] >= search
         /\ id < UpperBound(column, search) <=> dictionary[id + 1] <= search
<1> DEFINE n == Len(dictionary)
           below == {pos \in DOMAIN dictionary : dictionary[pos] < search}
           upto == {pos \in DOMAIN dictionary : dictionary[pos] <= search}
<1>1. /\ n \in Nat /\ DOMAIN dictionary = 1 .. n
      /\ \A p \in 1 .. n : dictionary[p] \in Int
  OBVIOUS
<1>2. INVALID_VALUE_ID \in Nat /\ n <= INVALID_VALUE_ID /\ id + 1 \in 1 .. n
  BY WidthAssumption DEF INVALID_VALUE_ID
<1>3. Cardinality(below) \in 0 .. n /\ \A p \in 1 .. n : p \in below <=> p <= Cardinality(below)
  <2>1. \A p \in below : \A q \in 1 .. p : q \in below
    <3> SUFFICES ASSUME NEW p \in below, NEW q \in 1 .. p PROVE dictionary[q] < search /\ q \in 1 .. n
      BY <1>1
    <3>1. p \in 1 .. n /\ q \in 1 .. n /\ (q < p \/ q = p) BY <1>1
    <3>2. dictionary[q] <= dictionary[p] BY <1>1, <3>1 DEF Ascending
    <3>3. dictionary[p] < search OBVIOUS
    <3>4. QED BY <1>1, <3>1, <3>2, <3>3
  <2>2. below \in SUBSET (1 .. n) BY <1>1
  <2> HIDE DEF below, n
  <2>3. QED BY <1>1, <2>1, <2>2, PrefixCount
<1>4. Cardinality(upto) \in 0 .. n /\ \A p \in 1 .. n : p \in upto <=> p <= Cardinality(upto)
  <2>1. \A p \in upto : \A q \in 1 .. p : q \in upto
    <3> SUFFICES ASSUME NEW p \in upto, NEW q \in 1 .. p PROVE dictionary[q] <= search /\ q \in 1 .. n
      BY <1>1
    <3>1. p \in 1 .. n /\ q \in 1 .. n /\ (q < p \/ q = p) BY <1>1
    <3>2. dictionary[q] <= dictionary[p] BY <1>1, <3>1 DEF Ascending
    <3>3. dictionary[p] <= search OBVIOUS
    <3>4. QED BY <1>1, <3>1, <3>2, <3>3
  <2>2. upto \in SUBSET (1 .. n) BY <1>1
  <2> HIDE DEF upto, n
  <2>3. QED BY <1>1, <2>1, <2>2, PrefixCount
<1>5. /\ LowerBound(column, search) =
           IF Cardinality(below) = n THEN INVALID_VALUE_ID ELSE Cardinality(below)
      /\ UpperBound(column, search) =
           IF Cardinality(upto) = n THEN INVALID_VALUE_ID ELSE Cardinality(upto)
  BY DEF LowerBound, UpperBound, LowerBoundPos, UpperBoundPos, UniqueValuesCount
<1>6. /\ id + 1 \in below <=> dictionary[id + 1] < search
      /\ id + 1 \in upto <=> dictionary[id + 1] <= search
  BY <1>1, <1>2
<1> HIDE DEF below, upto, n
<1>7. id + 1 \in below <=> id + 1 <= Cardinality(below) BY <1>2, <1>3
<1>8. id + 1 \in upto <=> id + 1 <= Cardinality(upto) BY <1>2, <1>4
<1>9. id \in Nat /\ id < n /\ dictionary[id + 1] \in Int BY <1>1, <1>2
<1>10. id >= LowerBound(column, search) <=> ~(id + 1 <= Cardinality(below))
  BY <1>1, <1>2, <1>3, <1>5, <1>9
<1>11. id < UpperBound(column, search) <=> id + 1 <= Cardinality(upto)
  BY <1>1, <1>2, <1>4, <1>5, <1>9
<1>12. QED BY <1>6, <1>7, <1>8, <1>9, <1>10, <1>11

=============================================================================
