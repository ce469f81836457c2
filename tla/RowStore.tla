------------------------------ MODULE RowStore -----------------------------
(***************************************************************************)
(* What a table promises to whoever fills it: typed columns, fixed before  *)
(* the first row, and a list of complete rows that only grows.  Chunks,    *)
(* their size and their compression are not part of the promise.           *)
(***************************************************************************)
EXTENDS Integers, Sequences

CONSTANTS
  Names, ColumnTypes,  \* column names, and the types a column can have
  Inputs,              \* AllTypeVariants
  TypeCast             \* <<type, input>> :> value, where type_cast succeeds

VARIABLES
  columns,  \* sequence of [name, type]
  rows      \* sequence of rows, each a sequence of values

vars == <<columns, rows>>

Init == columns = <<>> /\ rows = <<>>

AddColumn(name, type) ==
  /\ rows = <<>>
  /\ \A j \in DOMAIN columns : columns[j].name # name
  /\ columns' = Append(columns, [name |-> name, type |-> type])
  /\ UNCHANGED rows

AppendRow(row) ==
  /\ columns # <<>>
  /\ Len(row) = Len(columns)
  /\ \A j \in DOMAIN row : <<columns[j].type, row[j]>> \in DOMAIN TypeCast
  /\ rows' = Append(rows, [j \in DOMAIN row |-> TypeCast[<<columns[j].type, row[j]>>]])
  /\ UNCHANGED columns

Next ==
  \/ \E name \in Names, type \in ColumnTypes : AddColumn(name, type)
  \/ \E row \in [DOMAIN columns -> Inputs] : AppendRow(row)

Spec == Init /\ [][Next]_vars

=============================================================================
