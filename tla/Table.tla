------------------------------- MODULE Table -------------------------------
(***************************************************************************)
(* The class Table with the Chunks inside it, under every sequence of the  *)
(* public calls that change it, including calls made after one has thrown. *)
(* A call that throws keeps what it had done by then.  make_shared_by_     *)
(* column_type throws for an unknown type (the DebugAssert of a Debug      *)
(* build, which is the default build type).                                *)
(***************************************************************************)
EXTENDS Columns

CONSTANTS
  ChunkSizes, \* chunk sizes a table may be created with, 0 = unlimited
  Rows        \* argument lists handed to append

ASSUME TableAssumption ==
  /\ ChunkSizes \subseteq Nat
  /\ Rows \subseteq Seq(Inputs)

VARIABLES
  chunk_size,      \* _chunk_size
  column_names,    \* _column_names
  column_types,    \* _column_types
  is_instantiated, \* _is_instantiated
  chunks,          \* _chunks: a sequence of sequences of columns
  result           \* how the last call ended

schema == <<column_names, column_types, is_instantiated>>
vars == <<chunk_size, column_names, column_types, is_instantiated, chunks, result>>

\* "rejected": an exception; "immutable": the one of DictionaryColumn::append.
Results == {"ok", "rejected", "immutable"}

----------------------------------------------------------------------------
(* Chunk                                                                    *)

\* Fault: the size of a chunk is that of its last column.
SizeOfLastColumn(chunk) == IF chunk = <<>> THEN 0 ELSE ColumnSize(chunk[Len(chunk)])

Size(chunk) == IF chunk = <<>> THEN 0 ELSE ColumnSize(chunk[1])

\* Chunk::add_column takes an empty column.
AcceptsColumn(chunk) == chunk = <<>> \/ Size(chunk) = 0

\* Fault: the loop of Chunk::append runs from right to left.
ChunkAppendRightToLeft(chunk, row) ==
  IF Len(row) # Len(chunk) THEN chunk
  ELSE [j \in DOMAIN chunk |->
          IF \A i \in j .. Len(chunk) : CanAppend(chunk[i], row[i])
          THEN ColumnAppend(chunk[j], row[j])
          ELSE chunk[j]]

\* Chunk::append: the columns left of the first one that throws keep the value.
ChunkAppend(chunk, row) ==
  IF Len(row) # Len(chunk) THEN chunk
  ELSE [j \in DOMAIN chunk |->
          IF \A i \in 1 .. j : CanAppend(chunk[i], row[i])
          THEN ColumnAppend(chunk[j], row[j])
          ELSE chunk[j]]

\* The first column that throws decides which exception it is.
ChunkAppendResult(chunk, row) ==
  CASE Len(row) # Len(chunk) -> "rejected"
    [] Len(row) = Len(chunk) /\ \A j \in DOMAIN chunk : CanAppend(chunk[j], row[j]) -> "ok"
    [] Len(row) = Len(chunk) /\ \E j \in DOMAIN chunk :
         /\ chunk[j].kind = "dictionary"
         /\ \A i \in 1 .. j - 1 : CanAppend(chunk[i], row[i]) -> "immutable"
    [] OTHER -> "rejected"

----------------------------------------------------------------------------
(* Table: the helpers                                                       *)

HasDefinition(name) == name \in Range(column_names)

Position(name) == CHOOSE pos \in DOMAIN column_names : column_names[pos] = name

\* Fault: the type of an existing definition is not compared.
MayInstantiateAnyType(name, type) ==
  HasDefinition(name) => ~is_instantiated[Position(name)]

\* _validate_existing_definition does not throw.
MayInstantiate(name, type) ==
  HasDefinition(name) =>
    /\ column_types[Position(name)] = type
    /\ ~is_instantiated[Position(name)]

LastChunk == chunks[Len(chunks)]

IsLastChunkFull == chunk_size # 0 /\ Size(LastChunk) = chunk_size

\* Fault: an unknown type goes unnoticed.
SchemaIsTrusted == TRUE

\* make_shared_by_column_type succeeds for every definition.
SchemaIsKnown == Range(column_types) \subseteq ColumnTypes

\* The chunk create_new_chunk builds: a column for every definition.
NewChunk ==
  [pos \in DOMAIN column_names |-> ValueColumn(column_names[pos], column_types[pos])]

Reject == result' = "rejected"

----------------------------------------------------------------------------
(* Table: the operations                                                    *)

Init ==
  /\ chunk_size \in ChunkSizes
  /\ column_names = <<>>
  /\ column_types = <<>>
  /\ is_instantiated = <<>>
  /\ chunks = << <<>> >>
  /\ result = "ok"

Define(name, type) ==
  /\ column_names' = Append(column_names, name)
  /\ column_types' = Append(column_types, type)

AddColumnDefinition(name, type) ==
  /\ IF HasDefinition(name)
     THEN Reject /\ UNCHANGED schema
     ELSE /\ Define(name, type)
          /\ is_instantiated' = Append(is_instantiated, FALSE)
          /\ result' = "ok"
  /\ UNCHANGED <<chunk_size, chunks>>

\* The chunks after the loop of add_column, which stops at the first chunk that
\* does not accept the column.
ChunksWithColumn(name, type) ==
  [k \in DOMAIN chunks |->
     IF \A i \in 1 .. k : AcceptsColumn(chunks[i])
     THEN Append(chunks[k], ValueColumn(name, type))
     ELSE chunks[k]]

\* Fault: the column is marked before the loop over the chunks.
InstantiatedBeforeLoop(name, done) ==
  IF HasDefinition(name)
  THEN [is_instantiated EXCEPT ![Position(name)] = TRUE]
  ELSE Append(is_instantiated, TRUE)

\* is_instantiated after add_column, which returned (done) or threw.
Instantiated(name, done) ==
  IF HasDefinition(name)
  THEN [is_instantiated EXCEPT ![Position(name)] = done]
  ELSE Append(is_instantiated, done)

AddColumn(name, type) ==
  /\ IF ~MayInstantiate(name, type)
     THEN Reject /\ UNCHANGED <<schema, chunks>>
     ELSE LET done == type \in ColumnTypes /\ \A k \in DOMAIN chunks : AcceptsColumn(chunks[k])
          IN  /\ IF HasDefinition(name) THEN UNCHANGED <<column_names, column_types>>
                 ELSE Define(name, type)
              /\ is_instantiated' = Instantiated(name, done)
              /\ chunks' = IF type \in ColumnTypes THEN ChunksWithColumn(name, type) ELSE chunks
              /\ result' = IF done THEN "ok" ELSE "rejected"
  /\ UNCHANGED chunk_size

CreateNewChunk ==
  /\ IF SchemaIsKnown
     THEN chunks' = Append(chunks, NewChunk) /\ result' = "ok"
     ELSE Reject /\ UNCHANGED chunks
  /\ UNCHANGED <<chunk_size, schema>>

\* A chunk created for the row stays when the row is then refused.
TableAppend(row) ==
  /\ IF IsLastChunkFull /\ ~SchemaIsKnown
     THEN Reject /\ UNCHANGED chunks
     ELSE LET grown  == IF IsLastChunkFull THEN Append(chunks, NewChunk) ELSE chunks
              target == grown[Len(grown)]
          IN  /\ chunks' = [grown EXCEPT ![Len(grown)] = ChunkAppend(target, row)]
              /\ result' = ChunkAppendResult(target, row)
  /\ UNCHANGED <<chunk_size, schema>>

Compressed(chunk) == [j \in DOMAIN chunk |-> DictionaryColumn(chunk[j])]

\* Fault: Chunk::add_column lets dictionary columns of different sizes in.
IsEncodableRagged(chunk) ==
  \A j \in DOMAIN chunk :
    j \in DOMAIN column_types /\ Compressible(chunk[j], column_types[j])

\* The loop of compress_chunk runs to its end: every column has a definition and
\* can be encoded, and Chunk::add_column of the new chunk takes it for its size.
IsEncodable(chunk) ==
  \A j \in DOMAIN chunk :
    /\ j \in DOMAIN column_types
    /\ Compressible(chunk[j], column_types[j])
    /\ ColumnSize(chunk[j]) = Size(chunk)

\* Fault: only the size of the table's chunks is checked, not that of this one.
MayCompressNonFull(chunk) ==
  /\ chunk_size # 0
  /\ IsEncodable(chunk)

MayCompress(chunk) ==
  /\ chunk_size # 0
  /\ Size(chunk) = chunk_size
  /\ IsEncodable(chunk)

\* The new chunk is built aside and swapped in, so a throw changes nothing.
CompressChunk(k) ==
  /\ IF k \in DOMAIN chunks /\ MayCompress(chunks[k])
     THEN chunks' = [chunks EXCEPT ![k] = Compressed(@)] /\ result' = "ok"
     ELSE Reject /\ UNCHANGED chunks
  /\ UNCHANGED <<chunk_size, schema>>

Next ==
  \/ \E name \in Names, type \in TypeStrings : AddColumnDefinition(name, type)
  \/ \E name \in Names, type \in TypeStrings : AddColumn(name, type)
  \/ CreateNewChunk
  \/ \E row \in Rows : TableAppend(row)
  \/ \E k \in 1 .. Len(chunks) + 1 : CompressChunk(k)

Spec == Init /\ [][Next]_vars

----------------------------------------------------------------------------
(* Properties                                                               *)

\* Every variable has its type; in particular no column of a type that is not
\* in COLUMN_TYPES is ever stored, whatever add_column_definition accepted.
TypeOK ==
  /\ chunk_size \in ChunkSizes
  /\ column_names \in Seq(Names)
  /\ column_types \in Seq(TypeStrings)
  /\ is_instantiated \in Seq(BOOLEAN)
  /\ Len(column_types) = Len(column_names)
  /\ Len(is_instantiated) = Len(column_names)
  /\ chunks \in Seq(Seq(ValueColumns \cup DictionaryColumns))
  /\ chunks # <<>>
  /\ result \in Results

\* No column of a chunk is longer than one to its left, also after failed
\* appends: Chunk::size, the size of the first column, counts every row.
LeftmostIsLongest ==
  \A k \in DOMAIN chunks : \A i, j \in DOMAIN chunks[k] :
    i <= j => ColumnSize(chunks[k][i]) >= ColumnSize(chunks[k][j])

\* No column outgrows the maximum chunk size (table.hpp:25), although the check
\* in Table::append sees the first column only.
CapacityIsRespected ==
  chunk_size # 0 =>
    \A k \in DOMAIN chunks : \A j \in DOMAIN chunks[k] :
      ColumnSize(chunks[k][j]) <= chunk_size

\* A chunk with a compressed column is compressed in every column, and every
\* column is full (table.cpp:64), although the size check of compress_chunk sees
\* the first column only and a failed append may have left the others shorter.
CompressedIsFull ==
  \A k \in DOMAIN chunks : \A i \in DOMAIN chunks[k] :
    chunks[k][i].kind = "dictionary" =>
      /\ chunk_size # 0
      /\ \A j \in DOMAIN chunks[k] :
           chunks[k][j].kind = "dictionary" /\ ColumnSize(chunks[k][j]) = chunk_size

\* Table::append never runs into DictionaryColumn::append: when the last chunk
\* is compressed a new one is created first.
AppendIsNeverRefusedAsImmutable == result # "immutable"

\* A column stored in any chunk belongs to a defined name and has the type of
\* that definition, whichever of the three ways it came into the chunk.
ColumnsHaveTheirDefinedType ==
  \A k \in DOMAIN chunks : \A j \in DOMAIN chunks[k] :
    \E pos \in DOMAIN column_names :
      /\ column_names[pos] = chunks[k][j].owner
      /\ column_types[pos] = chunks[k][j].type

\* A column marked as instantiated is present in every chunk: no add_column
\* that stopped half-way, and no later chunk, leaves one out.
InstantiatedInEveryChunk ==
  \A pos \in DOMAIN column_names :
    is_instantiated[pos] =>
      \A k \in DOMAIN chunks : \E j \in DOMAIN chunks[k] :
        chunks[k][j].owner = column_names[pos]

\* No compressed row holds the id that INVALID_VALUE_ID turns into when it is
\* cast down to the width of the attribute vector (dictionary_column.hpp:17).
InvalidIdIsFree ==
  \A k \in DOMAIN chunks : \A j \in DOMAIN chunks[k] :
    LET column == chunks[k][j]
    IN  column.kind = "dictionary" =>
          \A row \in 1 .. ColumnSize(column) :
            ValueID(column, row) # Narrow(INVALID_VALUE_ID, column.attribute_vector.max)

\* A stored cell never changes its value or its place, whatever is appended,
\* added, compressed or refused later.
CellsStay ==
  \A k \in DOMAIN chunks : \A j \in DOMAIN chunks[k] :
    \A row \in 1 .. ColumnSize(chunks[k][j]) :
      /\ k \in DOMAIN chunks' /\ j \in DOMAIN chunks'[k]
      /\ row <= ColumnSize(chunks'[k][j])
      /\ Get(chunks'[k][j], row) = Get(chunks[k][j], row)

ValuesStayPut == [][CellsStay]_vars

----------------------------------------------------------------------------
(* What comments of the repository say and the code does not keep.          *)

\* "all columns have the same size (as per add_column() and append()
\* implementation)", chunk.cpp:39.
ColumnsHaveSameSize ==
  \A k \in DOMAIN chunks : \A i, j \in DOMAIN chunks[k] :
    ColumnSize(chunks[k][i]) = ColumnSize(chunks[k][j])

=============================================================================
