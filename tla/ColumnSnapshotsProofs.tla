----------------------- MODULE ColumnSnapshotsProofs -----------------------
(***************************************************************************)
(* A dictionary column gives back the rows it was built from, for every    *)
(* length and width, however the value column goes on.                     *)
(***************************************************************************)
EXTENDS ColumnSnapshots, ColumnProofs

\* The three properties are inductive together: a compression establishes them
\* (DecodeEncoded), an append leaves the rows there are.
Inv == TypeOK /\ RoundTrip /\ InvalidIdIsFree

\* A new value column has no rows and no dictionary column.
LEMMA InitInv == Init => Inv
<1> SUFFICES ASSUME Init PROVE Inv
  OBVIOUS
<1>1. value_column = [kind |-> "value", owner |-> ColumnName, type |-> ColumnType, values |-> <<>>]
  BY DEF Init, ValueColumn
<1>2. value_column \in ValueColumns
  BY <1>1, ColumnAssumption DEF ValueColumns
<1> QED
  BY <1>2 DEF Init, Inv, TypeOK, RoundTrip, InvalidIdIsFree

\* Every call keeps the three: only a compression writes to the dictionary
\* column, and only an append to the value column.
LEMMA NextInv == Inv /\ [Next]_vars => Inv'
<1> SUFFICES ASSUME Inv, [Next]_vars PROVE Inv'
  OBVIOUS
<1> USE DEF Inv
<1>1. ASSUME NEW input \in Inputs, AppendToValueColumn(input)
      PROVE  Inv'
  <2>1. CASE ~Castable(value_column, input)
    <3>1. UNCHANGED <<value_column, dictionary_column>> /\ threw' \in BOOLEAN
      BY <1>1, <2>1 DEF AppendToValueColumn
    <3> QED
      BY <3>1 DEF TypeOK, RoundTrip, InvalidIdIsFree, Rows
  <2>2. CASE Castable(value_column, input)
    <3>1. /\ value_column' = ColumnAppend(value_column, input)
          /\ dictionary_column' = dictionary_column /\ threw' \in BOOLEAN
      BY <1>1, <2>2 DEF AppendToValueColumn
    <3>2. /\ value_column' \in ValueColumns
          /\ ColumnSize(value_column') = ColumnSize(value_column) + 1
          /\ \A row \in 1 .. ColumnSize(value_column) :
               Get(value_column', row) = Get(value_column, row)
      BY <2>2, <3>1, AppendKeepsRows DEF TypeOK
    <3>3. TypeOK'
      BY <3>1, <3>2 DEF TypeOK, Rows
    <3>4. InvalidIdIsFree'
      BY <3>1 DEF InvalidIdIsFree, Rows
    <3>5. RoundTrip'
      <4>1. ColumnSize(value_column) \in Nat
        BY DEF TypeOK, ValueColumns, ColumnSize
      <4>2. ASSUME dictionary_column # NoColumn, NEW row \in Rows
            PROVE  /\ row <= ColumnSize(value_column')
                   /\ Get(dictionary_column, row) = Get(value_column', row)
        <5>1. /\ row <= ColumnSize(value_column)
              /\ Get(dictionary_column, row) = Get(value_column, row)
          BY <4>2 DEF RoundTrip
        <5>2. ColumnSize(dictionary_column) \in Nat /\ row \in 1 .. ColumnSize(dictionary_column)
          BY <4>2 DEF TypeOK, DictionaryColumns, ColumnSize, Rows
        <5> QED
          BY <3>2, <4>1, <5>1, <5>2
      <4> QED
        BY <3>1, <4>2 DEF RoundTrip, Rows
    <3> QED
      BY <3>3, <3>4, <3>5
  <2> QED
    BY <2>1, <2>2
<1>2. CASE Compress
  <2>1. CASE ~Compressible(value_column, ColumnType)
    <3>1. UNCHANGED <<value_column, dictionary_column>> /\ threw' \in BOOLEAN
      BY <1>2, <2>1 DEF Compress
    <3> QED
      BY <3>1 DEF TypeOK, RoundTrip, InvalidIdIsFree, Rows
  <2>2. CASE Compressible(value_column, ColumnType)
    <3> DEFINE encoded == DictionaryColumn(value_column)
    <3>1. /\ dictionary_column' = encoded
          /\ value_column' = value_column /\ threw' \in BOOLEAN
      BY <1>2, <2>2 DEF Compress
    <3>2. value_column \in ValueColumns /\ ColumnSize(value_column) \in Nat
      BY DEF TypeOK, ValueColumns, ColumnSize
    <3>3. /\ encoded \in DictionaryColumns
          /\ ColumnSize(encoded) = ColumnSize(value_column)
          /\ \A row \in 1 .. ColumnSize(value_column) :
               /\ Get(encoded, row) = Get(value_column, row)
               /\ ValueID(encoded, row) < UniqueValuesCount(encoded)
               /\ ValueID(encoded, row) < encoded.attribute_vector.max
               /\ ValueID(encoded, row)
                    # Narrow(INVALID_VALUE_ID, encoded.attribute_vector.max)
      BY <2>2, <3>2, DecodeEncoded
    <3>4. ASSUME NEW row \in 1 .. ColumnSize(value_column)
          PROVE  ValueID(encoded, row) <= encoded.attribute_vector.max
      <4>1. ValueID(encoded, row) \in Nat /\ encoded.attribute_vector.max \in Nat
        <5>1. /\ encoded.attribute_vector.data \in Seq(Nat)
              /\ encoded.attribute_vector.max \in Nat /\ encoded.kind = "dictionary"
          BY <3>3 DEF DictionaryColumns
        <5>2. row \in 1 .. Len(encoded.attribute_vector.data)
          BY <3>3, <5>1 DEF ColumnSize
        <5> QED
          BY <5>1, <5>2 DEF ValueID
      <4> QED
        BY <3>3, <4>1
    <3> HIDE DEF encoded
    <3> QED
      BY <3>1, <3>2, <3>3, <3>4 DEF TypeOK, RoundTrip, InvalidIdIsFree, Rows
  <2> QED
    BY <2>1, <2>2
<1>3. CASE AppendToDictionaryColumn
  BY <1>3 DEF AppendToDictionaryColumn, TypeOK, RoundTrip, InvalidIdIsFree, Rows
<1>4. CASE UNCHANGED vars
  BY <1>4 DEF vars, TypeOK, RoundTrip, InvalidIdIsFree, Rows
<1> QED
  BY <1>1, <1>2, <1>3, <1>4 DEF Next

\* The two columns keep their types, and every id a row holds is one of an
\* entry and fits its vector.
THEOREM TypeCorrect == Spec => []TypeOK
<1>1. Spec => []Inv
  BY InitInv, NextInv, PTL DEF Spec
<1> QED
  BY <1>1, PTL DEF Inv

\* What a compressed column returns for a row is what was appended to it.
THEOREM CompressionLosesNothing == Spec => []RoundTrip
<1>1. Spec => []Inv
  BY InitInv, NextInv, PTL DEF Spec
<1> QED
  BY <1>1, PTL DEF Inv

\* No row of a compressed column looks as if it held INVALID_VALUE_ID.
THEOREM InvalidIdStaysFree == Spec => []InvalidIdIsFree
<1>1. Spec => []Inv
  BY InitInv, NextInv, PTL DEF Spec
<1> QED
  BY <1>1, PTL DEF Inv

----------------------------------------------------------------------------
(* Scans that compare ids.                                                  *)

\* The dictionary is sorted without duplicates and has room below
\* INVALID_VALUE_ID, the answer of a bound behind its last entry.
DictionaryInv ==
  dictionary_column # NoColumn =>
    /\ Ascending(dictionary_column.dictionary)
    /\ UniqueValuesCount(dictionary_column) <= INVALID_VALUE_ID

\* A compression sorts the entries, of which there are no more than rows; no
\* other call writes to the dictionary.
LEMMA NextDictionaryInv == TypeOK /\ DictionaryInv /\ [Next]_vars => DictionaryInv'
<1> SUFFICES ASSUME TypeOK, DictionaryInv, [Next]_vars PROVE DictionaryInv'
  OBVIOUS
<1>1. ASSUME Compress, Compressible(value_column, ColumnType)
      PROVE  DictionaryInv'
  <2> DEFINE values == value_column.values
  <2>1. values \in Seq(Int) /\ Len(values) < INVALID_VALUE_ID /\ INVALID_VALUE_ID \in Nat
    BY <1>1, WidthAssumption DEF TypeOK, ValueColumns, Compressible, INVALID_VALUE_ID
  <2>2. dictionary_column'.dictionary = Dictionary(values)
    BY <1>1 DEF Compress, DictionaryColumn
  <2> HIDE DEF values
  <2>3. Ascending(Dictionary(values))
    BY <2>1, DictionaryIsSorted DEF Ascending
  <2>4. Len(Dictionary(values)) = Cardinality(Range(values))
    BY <2>1, EntriesAreFinite, DictionaryByRank, DictionaryIsSorted
  <2>5. Cardinality(Range(values)) <= Len(values) /\ Cardinality(Range(values)) \in Nat
    BY <2>1, EntriesAreFinite
  <2>6. UniqueValuesCount(dictionary_column') <= INVALID_VALUE_ID
    BY <2>1, <2>2, <2>4, <2>5 DEF UniqueValuesCount
  <2>7. Ascending(dictionary_column'.dictionary)
    BY <2>2, <2>3
  <2> QED
    BY <2>6, <2>7 DEF DictionaryInv
<1>2. CASE Compress /\ Compressible(value_column, ColumnType)
  BY <1>1, <1>2
<1>3. CASE UNCHANGED dictionary_column
  BY <1>3 DEF DictionaryInv
<1>4. (Compress /\ Compressible(value_column, ColumnType)) \/ UNCHANGED dictionary_column
  BY DEF Next, Compress, AppendToValueColumn, AppendToDictionaryColumn, vars
<1> QED
  BY <1>2, <1>3, <1>4

\* What is searched for is a number, stored or next to a stored one.
LEMMA SearchValuesAreNumbers == SearchValues \subseteq Int
<1>1. Range(TypeCast) \subseteq Int
  BY TypeAssumption DEF Range
<1> QED
  BY <1>1 DEF SearchValues

\* With a sorted dictionary the two bounds enclose the ids of the value searched
\* for, also when it is not stored or lies beyond all that are.
LEMMA BoundsEnclose == Inv /\ DictionaryInv => ScanByBounds
<1> SUFFICES ASSUME Inv, DictionaryInv, dictionary_column # NoColumn,
                    NEW search \in SearchValues, NEW row \in Rows
             PROVE  LET id == ValueID(dictionary_column, row)
                    IN  Get(value_column, row) = search
                          <=> /\ id >= LowerBound(dictionary_column, search)
                              /\ id < UpperBound(dictionary_column, search)
  BY DEF ScanByBounds
<1> DEFINE d == dictionary_column.dictionary
           id == ValueID(dictionary_column, row)
<1>1. /\ dictionary_column \in DictionaryColumns /\ id < Len(d)
      /\ Get(dictionary_column, row) = Get(value_column, row)
  BY DEF Inv, TypeOK, RoundTrip, UniqueValuesCount
<1>2. d \in Seq(Int) /\ dictionary_column.kind = "dictionary"
      /\ dictionary_column.attribute_vector.data \in Seq(Nat)
  BY <1>1 DEF DictionaryColumns
<1>3. id \in Nat
  <2>1. row \in 1 .. Len(dictionary_column.attribute_vector.data)
    BY <1>2 DEF Rows, ColumnSize
  <2> QED
    BY <1>2, <2>1 DEF ValueID
<1>4. Get(value_column, row) = d[id + 1]
  BY <1>1, <1>2 DEF Get
<1>5. Ascending(d) /\ Len(d) <= INVALID_VALUE_ID
  BY DEF DictionaryInv, UniqueValuesCount
<1>6. search \in Int
  BY SearchValuesAreNumbers
<1>7. id \in 0 .. Len(d) - 1 /\ d[id + 1] \in Int
  BY <1>1, <1>2, <1>3
<1>8. /\ id >= LowerBound(dictionary_column, search) <=> d[id + 1] >= search
      /\ id < UpperBound(dictionary_column, search) <=> d[id + 1] <= search
  BY <1>2, <1>5, <1>6, <1>7, BoundsSelect
<1> HIDE DEF d, id
<1>9. d[id + 1] = search <=> d[id + 1] >= search /\ d[id + 1] <= search
  BY <1>6, <1>7
<1> QED
  BY <1>4, <1>8, <1>9 DEF id

\* A scan by ids, from lower_bound up to upper_bound, finds the rows that hold
\* the value and no others.
THEOREM ScansByBoundsAreRight == Spec => []ScanByBounds
<1>1. Init => DictionaryInv
  BY DEF Init, DictionaryInv
<1>2. Inv => TypeOK
  BY DEF Inv
<1>3. Spec => []Inv
  BY InitInv, NextInv, PTL DEF Spec
<1> QED
  BY <1>1, <1>2, <1>3, NextDictionaryInv, BoundsEnclose, PTL DEF Spec

=============================================================================
