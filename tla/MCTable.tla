------------------------------ MODULE MCTable ------------------------------
(***************************************************************************)
(* Table on a small instance.  The bounds limit the calls, never the       *)
(* outcome of a call: every state within them is one the code reaches.     *)
(***************************************************************************)
EXTENDS Table, TLC

CONSTANTS
  MaxChunks,      \* chunks of the table
  MaxWidth,       \* columns of a chunk
  MaxColumns,     \* column objects of the table, over all its chunks
  MaxColumnRows   \* rows of a column, which bounds a table of unlimited chunks

MCTypeCast ==
  [p \in {<<"int", "1">>, <<"int", "2">>,
          <<"string", "1">>, <<"string", "2">>, <<"string", "x">>} |->
     CASE p[2] = "1" -> 1 [] p[2] = "2" -> 2 [] p[2] = "x" -> 3]

MCRows ==
  {<<>>, <<"1">>, <<"2">>, <<"x">>, <<"1", "x">>, <<"x", "1">>}

Places == {<<k, j>> \in (1 .. MaxChunks) \X (1 .. MaxWidth) :
               k \in DOMAIN chunks /\ j \in DOMAIN chunks[k]}

Bounds ==
  /\ Len(chunks) <= MaxChunks
  /\ \A k \in DOMAIN chunks :
       /\ Len(chunks[k]) <= MaxWidth
       /\ \A j \in DOMAIN chunks[k] : ColumnSize(chunks[k][j]) <= MaxColumnRows
  /\ Cardinality(Places) <= MaxColumns

MCNext == Next /\ Bounds'

\* Names are interchangeable: nothing in Table tells one from another.
NameSymmetry == Permutations(Names)

MCSpec == Init /\ [][MCNext]_vars

=============================================================================
