--------------------------- MODULE FailLoudTable ---------------------------
(***************************************************************************)
(* Table as a program uses it that builds its tables with add_column only  *)
(* (as load_table, the operators and most tests do) and stops at the first *)
(* exception, which is what CONTRIBUTING.md:5 asks for.  Such a table      *)
(* implements RowStore, up to and including the call that throws.          *)
(***************************************************************************)
EXTENDS Table, SequencesExt

FailLoudNext ==
  /\ result = "ok"
  /\ \/ \E name \in Names, type \in TypeStrings : AddColumn(name, type)
     \/ CreateNewChunk
     \/ \E row \in Rows : TableAppend(row)
     \/ \E k \in 1 .. Len(chunks) + 1 : CompressChunk(k)

FailLoudSpec == Init /\ [][FailLoudNext]_vars

----------------------------------------------------------------------------
(* The rows a table stores.                                                 *)

\* The columns whose add_column has returned: all, or all but the last.
Added == {pos \in DOMAIN column_names : is_instantiated[pos]}

AddedColumns ==
  [pos \in Added |-> [name |-> column_names[pos], type |-> column_types[pos]]]

\* The rows of a chunk that reach its last column.
ChunkRows(chunk) ==
  IF Added = {} THEN <<>>
  ELSE [row \in 1 .. ColumnSize(chunk[Cardinality(Added)]) |->
          [pos \in Added |-> Get(chunk[pos], row)]]

TableRows == FlattenSeq([k \in DOMAIN chunks |-> ChunkRows(chunks[k])])

RowStoreOfTable == INSTANCE RowStore WITH columns <- AddedColumns, rows <- TableRows

\* Every step of the table is a step of the row store or changes nothing in
\* it: rows keep their order, their values and their types through chunk
\* boundaries and compression, and no incomplete row is ever counted.
ImplementsRowStore == RowStoreOfTable!Spec

=============================================================================
