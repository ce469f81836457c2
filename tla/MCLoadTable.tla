---------------------------- MODULE MCLoadTable ----------------------------
(***************************************************************************)
(* LoadTable on all files of up to five lines made of a few lines that are *)
(* right in some place and wrong in others.  With some of the tables the   *)
(* program goes on until a call throws; that of the empty file is the      *)
(* empty table, which a program builds itself.                             *)
(***************************************************************************)
EXTENDS LoadTable, PrintedTable

CONSTANTS
  MaxChunks,    \* chunks of a table that is used after it was loaded
  MaxRows       \* its rows, counted in the first columns

\* An empty field is a string like any other, and no number.
MCTypeCast ==
  [p \in {<<"int", "1">>, <<"string", "1">>, <<"string", "x">>, <<"string", "">>} |->
     CASE p[2] = "1" -> 1 [] p[2] = "x" -> 2 [] p[2] = "" -> 0]

\* Rows a program appends.
MCRows ==
  LET values == {"1", "x"} IN {<<>>} \cup {<<v>> : v \in values} \cup values \X values

NamesLines == {<<"a">>, <<"a", "b">>, <<"a", "a">>, <<"a", "">>, <<"">>}
TypesLines == {<<"string">>, <<"string", "int">>, <<"string", "weird">>, <<"">>}
DataLines  == {<<"1">>, <<"x", "1">>, <<"", "1">>, <<"1", "x">>, <<"x", "">>, <<"">>}

Texts ==
  {<<>>} \cup {<<n>> : n \in NamesLines}
    \cup {<<n, t>> \o rows : n \in NamesLines, t \in TypesLines,
                            rows \in UNION {[1 .. k -> DataLines] : k \in 0 .. 3}}

MCFiles ==
  {f \in [exists : {TRUE}, lines : Texts, terminated : BOOLEAN] :
     f.terminated \/ (f.lines # <<>> /\ f.lines[Len(f.lines)] # <<"">>)}
    \cup {[exists |-> FALSE, lines |-> <<>>, terminated |-> TRUE]}

\* The files after which the program goes on: the empty one and one with a row.
UsedTexts == {<<>>, << <<"a", "b">>, <<"string", "int">>, <<"x", "1">> >>}

\* A program that uses the table load_table has returned.
Use ==
  /\ pc \in {"returned", "used"} /\ file.lines \in UsedTexts /\ file.terminated
  /\ FailLoudNext
  /\ Range(column_names') \subseteq {"a", "b"}
  /\ Range(column_types') \subseteq {"int", "string", "weird"}
  /\ Len(chunks') <= MaxChunks
  /\ Cardinality({<<k, row>> \in (1 .. MaxChunks) \X (1 .. MaxRows + 1) :
                    k \in DOMAIN chunks' /\ row <= Size(chunks'[k])}) <= MaxRows
  /\ pc' = "used"
  /\ UNCHANGED <<file, asked_size, added, read>>

MCNext == LoadNext \/ Use

\* load_table goes on running; what the program does with the table is its affair.
MCSpec == LoadInit /\ [][MCNext]_load_vars /\ WF_load_vars(LoadNext)

=============================================================================
