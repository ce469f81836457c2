------------------------- MODULE MCColumnSnapshots -------------------------
(***************************************************************************)
(* ColumnSnapshots up to the first column that is too long to compress,    *)
(* UInt32Max rows: the first rows are free, the others repeat one value.   *)
(***************************************************************************)
EXTENDS ColumnSnapshots

CONSTANT FreeRows  \* rows with any values

\* Values with gaps between them, so that a search can miss.
MCTypeCast ==
  [p \in {"int"} \X (Inputs \ {"x"}) |->
     CASE p[2] = "10" -> 10 [] p[2] = "20" -> 20 [] p[2] = "30" -> 30 [] p[2] = "40" -> 40]

MCNext ==
  /\ Next
  /\ ColumnSize(value_column') <= UInt32Max
  /\ \A row \in FreeRows + 1 .. ColumnSize(value_column') :
       Get(value_column', row) = TypeCast[<<"int", "10">>]

MCSpec == Init /\ [][MCNext]_vars

=============================================================================
