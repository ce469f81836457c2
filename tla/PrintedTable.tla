---------------------------- MODULE PrintedTable ----------------------------
(***************************************************************************)
(* What the operator Print makes of a table: it goes over all cells twice, *)
(* to find the widths of the columns and to print them.  Both loops run    *)
(* over the columns of each chunk, up to the size of the chunk, although   *)
(* the widths are those of the table's columns.                            *)
(***************************************************************************)
EXTENDS FailLoudTable

\* widths[col] is in the vector for every column of a chunk that has rows.
WidthsSuffice ==
  \A k \in DOMAIN chunks : Size(chunks[k]) # 0 => Len(chunks[k]) <= Len(column_names)

\* operator[] throws for no cell the loops read.
EveryCellExists ==
  \A k \in DOMAIN chunks : \A j \in DOMAIN chunks[k] :
    Size(chunks[k]) <= ColumnSize(chunks[k][j])

PrintSucceeds == WidthsSuffice /\ EveryCellExists

\* Fault: an empty chunk ends the loop instead of being skipped.
PrintedRowsUntilEmpty ==
  LET before == {k \in DOMAIN chunks : \A i \in 1 .. k : Size(chunks[i]) # 0}
  IN  FlattenSeq([k \in before |->
        [row \in 1 .. Size(chunks[k]) |->
           [j \in DOMAIN chunks[k] |-> Get(chunks[k][j], row)]]])

\* The rows in the order in which they are printed; of a chunk without rows
\* "Empty chunk." is said and the next one is printed.
PrintedRows ==
  FlattenSeq([k \in DOMAIN chunks |->
    [row \in 1 .. Size(chunks[k]) |->
       [j \in DOMAIN chunks[k] |-> Get(chunks[k][j], row)]]])

\* As long as no call has thrown, Print reads no cell that is missing, writes no
\* width outside the vector, and prints exactly the rows the table stands for
\* as a row store, compressed or not, empty chunks between them or not.
PrintShowsEveryRow ==
  result = "ok" => PrintSucceeds /\ PrintedRows = TableRows

=============================================================================
