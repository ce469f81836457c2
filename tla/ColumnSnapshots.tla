-------------------------- MODULE ColumnSnapshots --------------------------
(***************************************************************************)
(* One column over time: a ValueColumn<T> that is appended to, and the     *)
(* DictionaryColumn<T> last built from it.  The value column lives on      *)
(* after the compression, for whoever took its shared_ptr before           *)
(* Table::compress_chunk, and can still be appended to; the dictionary     *)
(* column holds the rows of the moment it was built.                       *)
(***************************************************************************)
EXTENDS Columns

CONSTANTS
  ColumnName, ColumnType  \* the column looked at

ASSUME ColumnAssumption == ColumnName \in Names /\ ColumnType \in ColumnTypes

VARIABLES
  value_column,       \* the ValueColumn<T>
  dictionary_column,  \* the DictionaryColumn<T>, or NoColumn
  threw               \* whether the last call threw

vars == <<value_column, dictionary_column, threw>>

NoColumn == [kind |-> "none"]

Init ==
  /\ value_column = ValueColumn(ColumnName, ColumnType)
  /\ dictionary_column = NoColumn
  /\ threw = FALSE

AppendToValueColumn(input) ==
  /\ threw' = ~Castable(value_column, input)
  /\ value_column' = IF Castable(value_column, input)
                     THEN ColumnAppend(value_column, input) ELSE value_column
  /\ UNCHANGED dictionary_column

\* make_shared_by_column_type<BaseColumn, DictionaryColumn>(ColumnType, column)
Compress ==
  /\ threw' = ~Compressible(value_column, ColumnType)
  /\ dictionary_column' = IF Compressible(value_column, ColumnType)
                          THEN DictionaryColumn(value_column) ELSE dictionary_column
  /\ UNCHANGED value_column

AppendToDictionaryColumn ==
  /\ dictionary_column # NoColumn
  /\ threw' = TRUE
  /\ UNCHANGED <<value_column, dictionary_column>>

Next ==
  \/ \E input \in Inputs : AppendToValueColumn(input)
  \/ Compress
  \/ AppendToDictionaryColumn

Spec == Init /\ [][Next]_vars

----------------------------------------------------------------------------
(* Properties                                                               *)

Rows == 1 .. ColumnSize(dictionary_column)

\* Both columns have their type, and every id a row holds is one of an entry
\* (the DebugAssert of get, dictionary_column.cpp:60) and fits its vector.
TypeOK ==
  /\ value_column \in ValueColumns
  /\ dictionary_column \in DictionaryColumns \cup {NoColumn}
  /\ dictionary_column # NoColumn =>
       \A row \in Rows :
         /\ ValueID(dictionary_column, row) < UniqueValuesCount(dictionary_column)
         /\ ValueID(dictionary_column, row) <= dictionary_column.attribute_vector.max
  /\ threw \in BOOLEAN

\* Reading the dictionary column gives back the rows of the value column at
\* the moment of compression, also when the value column has grown since.
RoundTrip ==
  dictionary_column # NoColumn =>
    \A row \in Rows :
      /\ row <= ColumnSize(value_column)
      /\ Get(dictionary_column, row) = Get(value_column, row)

\* No row holds the id INVALID_VALUE_ID turns into when it is cast down to the
\* width of the attribute vector (dictionary_column.hpp:17-18).
InvalidIdIsFree ==
  dictionary_column # NoColumn =>
    \A row \in Rows :
      ValueID(dictionary_column, row)
        # Narrow(INVALID_VALUE_ID, dictionary_column.attribute_vector.max)

\* The values a scan may search for: one below, above and between all others.
SearchValues ==
  LET stored == Range(TypeCast)
  IN  stored \cup {v + 1 : v \in stored} \cup {v - 1 : v \in stored}

\* A scan that compares ids instead of values finds the right rows: those from
\* lower_bound up to upper_bound, with INVALID_VALUE_ID above every id.
ScanByBounds ==
  dictionary_column # NoColumn =>
    \A search \in SearchValues : \A row \in Rows :
      LET id == ValueID(dictionary_column, row)
      IN  Get(value_column, row) = search
            <=> /\ id >= LowerBound(dictionary_column, search)
                /\ id < UpperBound(dictionary_column, search)

=============================================================================
