------------------------------ MODULE Columns ------------------------------
(***************************************************************************)
(* The column classes of src/lib/storage: ValueColumn, DictionaryColumn    *)
(* and the FittedAttributeVector inside it, as operators on records.       *)
(*                                                                         *)
(* Rows and columns of a chunk are counted from 1 here (TLA+ sequences)    *)
(* and from 0 in the code; ValueIDs are counted from 0 in both.  A stored  *)
(* value is an integer: every column type is totally ordered, and order    *)
(* and equality are all the code uses of it (the NaNs of float columns,    *)
(* which are not ordered, are outside this module).                        *)
(***************************************************************************)
EXTENDS Integers, Sequences, FiniteSets, Functions, FiniteSetsExt

CONSTANTS
  Names,        \* column names
  TypeStrings,  \* the type strings callers pass, known or not
  ColumnTypes,  \* the type strings listed in COLUMN_TYPES
  Inputs,       \* AllTypeVariants handed to append
  TypeCast,     \* <<type, input>> :> value, defined where type_cast succeeds
  UInt8Max, UInt16Max, UInt32Max  \* numeric_limits<T>::max(), scaled down for TLC

ASSUME TypeAssumption ==
  /\ ColumnTypes \subseteq TypeStrings
  /\ DOMAIN TypeCast \subseteq ColumnTypes \X Inputs
  /\ \A p \in DOMAIN TypeCast : TypeCast[p] \in Int

ASSUME WidthAssumption ==
  /\ {UInt8Max, UInt16Max, UInt32Max} \subseteq Nat \ {0}
  /\ UInt8Max < UInt16Max
  /\ UInt16Max < UInt32Max
  /\ (UInt32Max + 1) % (UInt8Max + 1) = 0
  /\ (UInt32Max + 1) % (UInt16Max + 1) = 0

INVALID_VALUE_ID == UInt32Max

----------------------------------------------------------------------------
(* ValueColumn.  The field "owner" is history: the name of the column       *)
(* definition for which the code created this column object.                *)

ValueColumn(name, type) ==
  [kind |-> "value", owner |-> name, type |-> type, values |-> <<>>]

Castable(column, input) == <<column.type, input>> \in DOMAIN TypeCast

\* append does not throw: a dictionary column always throws, a value column
\* throws what type_cast throws.
CanAppend(column, input) == column.kind = "value" /\ Castable(column, input)

ColumnAppend(column, input) ==
  [column EXCEPT !.values = Append(@, TypeCast[<<column.type, input>>])]

----------------------------------------------------------------------------
(* The dictionary: std::sort, std::unique and erase leave the distinct      *)
(* values in ascending order, so the value at 0-based position p is the one *)
(* with p smaller distinct values.                                          *)

Rank(entries, value) == Cardinality({entry \in entries : entry < value})

\* Fault: the values are taken over without being sorted.
DictionaryUnsorted(values) == values

Dictionary(values) ==
  LET entries == Range(values)
  IN  [pos \in 1 .. Cardinality(entries) |->
         CHOOSE value \in entries : Rank(entries, value) = pos - 1]

\* std::lower_bound and std::upper_bound on a sorted range: how many entries
\* are smaller than (not greater than) the value.
LowerBoundPos(dictionary, value) ==
  Cardinality({pos \in DOMAIN dictionary : dictionary[pos] < value})

UpperBoundPos(dictionary, value) ==
  Cardinality({pos \in DOMAIN dictionary : dictionary[pos] <= value})

----------------------------------------------------------------------------
(* FittedAttributeVector<T>, T chosen by the number of rows.                *)

\* Fault: the limit is taken to be the number of values of T, not its largest.
FittedMaxByCount(size) ==
  IF size <= UInt8Max + 1 THEN UInt8Max
  ELSE IF size <= UInt16Max + 1 THEN UInt16Max
  ELSE UInt32Max

FittedMax(size) ==
  IF size < UInt8Max THEN UInt8Max
  ELSE IF size < UInt16Max THEN UInt16Max
  ELSE UInt32Max

\* static_cast<T>(value_id)
Narrow(value_id, max) == value_id % (max + 1)

\* Fault: the fill loop looks a value up with upper_bound.
AttributeVectorByUpperBound(values) ==
  LET max == FittedMax(Len(values))
  IN  [max |-> max,
       data |-> [row \in 1 .. Len(values) |->
                   Narrow(UpperBoundPos(Dictionary(values), values[row]), max)]]

\* The fill loop of the DictionaryColumn constructor.
AttributeVector(values) ==
  LET max == FittedMax(Len(values))
  IN  [max |-> max,
       data |-> [row \in 1 .. Len(values) |->
                   Narrow(LowerBoundPos(Dictionary(values), values[row]), max)]]

----------------------------------------------------------------------------
(* DictionaryColumn.                                                        *)

\* The constructor's assertions, for make_shared_by_column_type(type, column):
\* a ValueColumn<T> of that type, not empty, short enough for 32-bit ids.
Compressible(column, type) ==
  /\ column.kind = "value"
  /\ column.type = type
  /\ column.values # <<>>
  /\ Len(column.values) < UInt32Max

DictionaryColumn(column) ==
  [kind |-> "dictionary", owner |-> column.owner, type |-> column.type,
   dictionary |-> Dictionary(column.values),
   attribute_vector |-> AttributeVector(column.values)]

UniqueValuesCount(column) == Len(column.dictionary)

ValueID(column, row) == column.attribute_vector.data[row]

LowerBound(column, value) ==
  LET pos == LowerBoundPos(column.dictionary, value)
  IN  IF pos = UniqueValuesCount(column) THEN INVALID_VALUE_ID ELSE pos

\* Fault: upper_bound answers like lower_bound.
UpperBoundInclusive(column, value) == LowerBound(column, value)

UpperBound(column, value) ==
  LET pos == UpperBoundPos(column.dictionary, value)
  IN  IF pos = UniqueValuesCount(column) THEN INVALID_VALUE_ID ELSE pos

----------------------------------------------------------------------------
(* BaseColumn: size() and operator[] of either class.                       *)

ColumnSize(column) ==
  IF column.kind = "value" THEN Len(column.values)
  ELSE Len(column.attribute_vector.data)

Get(column, row) ==
  IF column.kind = "value" THEN column.values[row]
  ELSE column.dictionary[ValueID(column, row) + 1]

----------------------------------------------------------------------------
(* The records the two classes take.                                        *)

ValueColumns ==
  [kind : {"value"}, owner : Names, type : ColumnTypes, values : Seq(Int)]

DictionaryColumns ==
  [kind : {"dictionary"}, owner : Names, type : ColumnTypes,
   dictionary : Seq(Int),
   attribute_vector : [max : Nat, data : Seq(Nat)]]

=============================================================================
