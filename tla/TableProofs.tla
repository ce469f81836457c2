---------------------------- MODULE TableProofs ----------------------------
(***************************************************************************)
(* The safety of Table, for tables of any shape and size, and of programs  *)
(* that build tables.                                                      *)
(*                                                                         *)
(* The invariants of the chunks are about one chunk at a time, so the      *)
(* proofs first show what each operation does to a chunk, then lift it.    *)
(* Then: a program that stops at the first exception has a row store in    *)
(* its table, Print shows the rows of that store, and load_table fills it  *)
(* with the rows of the file.                                              *)
(***************************************************************************)
EXTENDS PrintedTable, LoadTable, ColumnProofs, Induction

Columns_T == ValueColumns \cup DictionaryColumns

\* What is true of every chunk of a table whose chunks hold limit rows: the
\* parts LeftmostIsLongest, CapacityIsRespected, CompressedIsFull and
\* InvalidIdIsFree have in it.  Only together are they inductive: a column is
\* accepted by a chunk of size 0 because then all its columns are empty, and a
\* row is written to a chunk below the limit because then none is compressed.
ChunkOK(chunk, limit) ==
  /\ chunk \in Seq(Columns_T)
  /\ \A i, j \in DOMAIN chunk : i <= j => ColumnSize(chunk[i]) >= ColumnSize(chunk[j])
  /\ limit # 0 => Size(chunk) <= limit
  /\ \A i \in DOMAIN chunk : chunk[i].kind = "dictionary" =>
       /\ limit # 0
       /\ \A j \in DOMAIN chunk :
            chunk[j].kind = "dictionary" /\ ColumnSize(chunk[j]) = limit
       /\ \A row \in 1 .. ColumnSize(chunk[i]) :
            ValueID(chunk[i], row)
              # Narrow(INVALID_VALUE_ID, chunk[i].attribute_vector.max)

\* Every cell of the old chunk is in its place in the new one.
KeepsCells(old, new) ==
  \A j \in DOMAIN old : \A row \in 1 .. ColumnSize(old[j]) :
    /\ j \in DOMAIN new
    /\ row <= ColumnSize(new[j])
    /\ Get(new[j], row) = Get(old[j], row)

----------------------------------------------------------------------------
(* One chunk                                                                *)

\* The kinds of the two classes of columns.
LEMMA Kinds ==
  ASSUME NEW column \in Columns_T
  PROVE  /\ column.kind \in {"value", "dictionary"}
         /\ column.kind = "value" <=> column \in ValueColumns
         /\ column.kind = "dictionary" <=> column \in DictionaryColumns
         /\ ColumnSize(column) \in Nat
BY ColumnSizeIsNat DEF Columns_T, ValueColumns, DictionaryColumns

\* The size of a chunk is a number that bounds the sizes of its columns.
LEMMA SizeBounds ==
  ASSUME NEW limit, NEW chunk, ChunkOK(chunk, limit)
  PROVE  /\ Size(chunk) \in Nat
         /\ \A j \in DOMAIN chunk : ColumnSize(chunk[j]) <= Size(chunk)
<1>1. CASE chunk = <<>>
  BY <1>1 DEF Size
<1>2. CASE chunk # <<>>
  <2>1. chunk \in Seq(Columns_T) /\ 1 \in DOMAIN chunk /\ Size(chunk) = ColumnSize(chunk[1])
    BY <1>2 DEF ChunkOK, Size
  <2>2. \A j \in DOMAIN chunk : 1 <= j
    BY <2>1
  <2>3. chunk[1] \in Columns_T
    BY <2>1
  <2> QED
    BY <2>1, <2>2, <2>3, Kinds DEF ChunkOK
<1> QED
  BY <1>1, <1>2

\* A chunk with a compressed column is full.
LEMMA CompressedSize ==
  ASSUME NEW limit, NEW chunk, ChunkOK(chunk, limit),
         NEW i \in DOMAIN chunk, chunk[i].kind = "dictionary"
  PROVE  limit # 0 /\ Size(chunk) = limit
<1>1. chunk \in Seq(Columns_T) /\ chunk # <<>> /\ 1 \in DOMAIN chunk
  BY DEF ChunkOK
<1> QED
  BY <1>1 DEF ChunkOK, Size

\* A chunk without columns is in order.
LEMMA EmptyChunkOK ==
  ASSUME NEW limit \in Nat
  PROVE  ChunkOK(<<>>, limit)
BY DEF ChunkOK, Size

\* Chunk::add_column, where it does not throw, keeps a chunk in order.
LEMMA AddedColumnOK ==
  ASSUME NEW limit \in Nat, NEW chunk, ChunkOK(chunk, limit), AcceptsColumn(chunk),
         NEW name \in Names, NEW type \in ColumnTypes
  PROVE  /\ ChunkOK(Append(chunk, ValueColumn(name, type)), limit)
         /\ KeepsCells(chunk, Append(chunk, ValueColumn(name, type)))
<1> DEFINE column == ValueColumn(name, type)
           new == Append(chunk, column)
           n == Len(chunk)
<1>1. /\ column \in Columns_T /\ ColumnSize(column) = 0 /\ column.kind = "value"
  BY NewColumnIsEmpty DEF Columns_T, ValueColumn
<1> HIDE DEF column
<1>2. chunk \in Seq(Columns_T) /\ n \in Nat /\ DOMAIN chunk = 1 .. n
  BY DEF ChunkOK
<1>3. /\ new \in Seq(Columns_T) /\ DOMAIN new = 1 .. n + 1
      /\ new[n + 1] = column /\ \A j \in 1 .. n : new[j] = chunk[j]
  BY <1>1, <1>2
<1>4. \A j \in 1 .. n : ColumnSize(chunk[j]) = 0
  <2>1. \A j \in 1 .. n : ColumnSize(chunk[j]) \in Nat
    BY <1>2, Kinds
  <2>2. Size(chunk) = 0
    BY DEF AcceptsColumn, Size
  <2> QED
    BY <1>2, <2>1, <2>2, SizeBounds
<1> HIDE DEF new, n
<1>5. \A j \in 1 .. n + 1 : ColumnSize(new[j]) = 0
  BY <1>1, <1>2, <1>3, <1>4
<1>6. \A j \in 1 .. n : chunk[j].kind # "dictionary"
  <2>1. Size(chunk) = 0
    BY DEF AcceptsColumn, Size
  <2>2. ASSUME NEW j \in DOMAIN chunk, chunk[j].kind = "dictionary" PROVE FALSE
    BY <2>1, <2>2, CompressedSize
  <2> QED
    BY <1>2, <2>2
<1>7. \A j \in 1 .. n + 1 : new[j].kind # "dictionary"
  BY <1>1, <1>2, <1>3, <1>6
<1>8. Size(new) = 0
  BY <1>2, <1>3, <1>5 DEF Size
<1>9. ChunkOK(new, limit)
  BY <1>3, <1>5, <1>7, <1>8 DEF ChunkOK
<1>10. KeepsCells(chunk, new)
  BY <1>2, <1>3, <1>4 DEF KeepsCells
<1> QED
  BY <1>9, <1>10 DEF new, column

\* Chunk::append keeps a chunk below the limit in order, whether it throws or
\* not, and does not reach a compressed column.
LEMMA AppendedRowOK ==
  ASSUME NEW limit \in Nat, NEW chunk, ChunkOK(chunk, limit), NEW row,
         limit # 0 => Size(chunk) # limit
  PROVE  /\ ChunkOK(ChunkAppend(chunk, row), limit)
         /\ KeepsCells(chunk, ChunkAppend(chunk, row))
         /\ ChunkAppendResult(chunk, row) \in {"ok", "rejected"}
<1> DEFINE new == ChunkAppend(chunk, row)
           reached(j) == \A i \in 1 .. j : CanAppend(chunk[i], row[i])
<1>1. chunk \in Seq(Columns_T) /\ Len(chunk) \in Nat /\ DOMAIN chunk = 1 .. Len(chunk)
  BY DEF ChunkOK
<1>2. \A j \in DOMAIN chunk : chunk[j].kind # "dictionary"
  <2>1. ASSUME NEW j \in DOMAIN chunk, chunk[j].kind = "dictionary" PROVE FALSE
    BY <2>1, CompressedSize
  <2> QED
    BY <2>1
<1>3. ChunkAppendResult(chunk, row) \in {"ok", "rejected"}
  BY <1>2 DEF ChunkAppendResult
<1>4. CASE Len(row) # Len(chunk)
  <2>1. new = chunk
    BY <1>4 DEF ChunkAppend
  <2>2. KeepsCells(chunk, chunk)
    <3>1. \A j \in DOMAIN chunk : ColumnSize(chunk[j]) \in Nat
      BY <1>1, Kinds
    <3> QED
      BY <3>1 DEF KeepsCells
  <2> QED
    BY <1>3, <2>1, <2>2
<1>5. CASE Len(row) = Len(chunk)
  <2>1. new = [j \in 1 .. Len(chunk) |->
                 IF reached(j) THEN ColumnAppend(chunk[j], row[j]) ELSE chunk[j]]
    BY <1>1, <1>5 DEF ChunkAppend
  <2> HIDE DEF new
  <2>2. ASSUME NEW j \in 1 .. Len(chunk), reached(j)
        PROVE  /\ new[j] \in ValueColumns
               /\ ColumnSize(new[j]) = ColumnSize(chunk[j]) + 1
               /\ \A r \in 1 .. ColumnSize(chunk[j]) : Get(new[j], r) = Get(chunk[j], r)
    <3>1. CanAppend(chunk[j], row[j])
      BY <2>2
    <3>2. chunk[j] \in ValueColumns /\ Castable(chunk[j], row[j])
      BY <1>1, <3>1, Kinds DEF CanAppend
    <3>3. new[j] = ColumnAppend(chunk[j], row[j])
      BY <2>1, <2>2
    <3> QED
      BY <3>2, <3>3, AppendKeepsRows
  <2>3. ASSUME NEW j \in 1 .. Len(chunk), ~reached(j)
        PROVE  new[j] = chunk[j]
    BY <2>1, <2>3
  <2>4. \A i, j \in 1 .. Len(chunk) : i <= j /\ reached(j) => reached(i)
    BY <1>1
  <2> HIDE DEF reached
  <2>5. \A j \in 1 .. Len(chunk) :
          /\ new[j] \in Columns_T /\ new[j].kind = "value"
          /\ ColumnSize(chunk[j]) \in Nat
          /\ ColumnSize(new[j]) = IF reached(j) THEN ColumnSize(chunk[j]) + 1
                                  ELSE ColumnSize(chunk[j])
    <3> SUFFICES ASSUME NEW j \in 1 .. Len(chunk)
                 PROVE  /\ new[j] \in Columns_T /\ new[j].kind = "value"
                        /\ ColumnSize(chunk[j]) \in Nat
                        /\ ColumnSize(new[j]) = IF reached(j) THEN ColumnSize(chunk[j]) + 1
                                                ELSE ColumnSize(chunk[j])
      OBVIOUS
    <3>1. chunk[j] \in Columns_T /\ chunk[j].kind = "value" /\ ColumnSize(chunk[j]) \in Nat
      BY <1>1, <1>2, Kinds
    <3>2. CASE reached(j)
      BY <2>2, <3>1, <3>2, Kinds DEF Columns_T
    <3>3. CASE ~reached(j)
      BY <2>3, <3>1, <3>3
    <3> QED
      BY <3>2, <3>3
  <2>6. new \in Seq(Columns_T) /\ DOMAIN new = 1 .. Len(chunk) /\ Len(new) = Len(chunk)
    <3>1. new \in [1 .. Len(chunk) -> Columns_T]
      BY <2>1, <2>5
    <3> QED
      BY <1>1, <3>1
  <2>7. \A i, j \in 1 .. Len(chunk) : i <= j => ColumnSize(new[i]) >= ColumnSize(new[j])
    <3> SUFFICES ASSUME NEW i \in 1 .. Len(chunk), NEW j \in 1 .. Len(chunk), i <= j
                 PROVE  ColumnSize(new[i]) >= ColumnSize(new[j])
      OBVIOUS
    <3>1. ColumnSize(chunk[i]) >= ColumnSize(chunk[j])
      BY <1>1 DEF ChunkOK
    <3>2. reached(j) => reached(i)
      BY <2>4
    <3> QED
      BY <2>5, <3>1, <3>2
  <2>8. limit # 0 => Size(new) <= limit
    <3> SUFFICES ASSUME limit # 0 PROVE Size(new) <= limit
      OBVIOUS
    <3>1. Size(chunk) \in Nat /\ Size(chunk) < limit
      BY SizeBounds DEF ChunkOK
    <3>2. CASE chunk = <<>>
      BY <2>6, <3>2 DEF Size
    <3>3. CASE chunk # <<>>
      <4>1. Size(chunk) = ColumnSize(chunk[1]) /\ Size(new) = ColumnSize(new[1])
            /\ 1 \in 1 .. Len(chunk)
        BY <1>1, <2>6, <3>3 DEF Size
      <4> QED
        BY <2>5, <3>1, <4>1
    <3> QED
      BY <3>2, <3>3
  <2>9. ChunkOK(new, limit)
    BY <2>5, <2>6, <2>7, <2>8 DEF ChunkOK
  <2>10. KeepsCells(chunk, new)
    <3> SUFFICES ASSUME NEW j \in 1 .. Len(chunk), NEW r \in 1 .. ColumnSize(chunk[j])
                 PROVE  /\ j \in DOMAIN new
                        /\ r <= ColumnSize(new[j])
                        /\ Get(new[j], r) = Get(chunk[j], r)
      BY <1>1 DEF KeepsCells
    <3>1. j \in DOMAIN new /\ r <= ColumnSize(new[j])
      BY <2>5, <2>6
    <3>2. Get(new[j], r) = Get(chunk[j], r)
      BY <2>2, <2>3
    <3> QED
      BY <3>1, <3>2
  <2> QED
    BY <1>3, <2>9, <2>10 DEF new
<1> QED
  BY <1>4, <1>5

\* Table::compress_chunk, where it does not throw, keeps a chunk in order and
\* every value in its place.
LEMMA CompressedOK ==
  ASSUME NEW limit \in Nat, NEW chunk, ChunkOK(chunk, limit), limit # 0, Size(chunk) = limit,
         \A j \in DOMAIN chunk :
           (\E type : Compressible(chunk[j], type)) /\ ColumnSize(chunk[j]) = Size(chunk)
  PROVE  ChunkOK(Compressed(chunk), limit) /\ KeepsCells(chunk, Compressed(chunk))
<1> DEFINE new == Compressed(chunk)
<1>1. chunk \in Seq(Columns_T) /\ Len(chunk) \in Nat /\ DOMAIN chunk = 1 .. Len(chunk)
  BY DEF ChunkOK
<1>2. new = [j \in 1 .. Len(chunk) |-> DictionaryColumn(chunk[j])]
  BY <1>1 DEF Compressed
<1> HIDE DEF new
<1>3. ASSUME NEW j \in 1 .. Len(chunk)
      PROVE  /\ new[j] \in Columns_T /\ new[j].kind = "dictionary"
             /\ ColumnSize(new[j]) = ColumnSize(chunk[j])
             /\ ColumnSize(chunk[j]) \in Nat
             /\ \A row \in 1 .. ColumnSize(chunk[j]) :
                  /\ Get(new[j], row) = Get(chunk[j], row)
                  /\ ValueID(new[j], row)
                       # Narrow(INVALID_VALUE_ID, new[j].attribute_vector.max)
  <2>1. PICK type : Compressible(chunk[j], type)
    BY <1>1
  <2>2. chunk[j] \in ValueColumns
    BY <1>1, <2>1, Kinds DEF Compressible
  <2>3. new[j] = DictionaryColumn(chunk[j])
    BY <1>2
  <2>4. new[j] \in Columns_T /\ new[j].kind = "dictionary"
    BY <2>1, <2>2, <2>3, DecodeEncoded DEF Columns_T, DictionaryColumns
  <2> QED
    BY <2>1, <2>2, <2>3, <2>4, DecodeEncoded, ColumnSizeIsNat
<1>4. new \in Seq(Columns_T) /\ DOMAIN new = 1 .. Len(chunk) /\ Len(new) = Len(chunk)
  <2>1. new \in [1 .. Len(chunk) -> Columns_T]
    BY <1>2, <1>3
  <2> QED
    BY <1>1, <2>1
<1>5. Size(new) = Size(chunk)
  <2>1. CASE chunk = <<>>
    BY <1>4, <2>1 DEF Size
  <2>2. CASE chunk # <<>>
    BY <1>1, <1>3, <1>4, <2>2 DEF Size
  <2> QED
    BY <2>1, <2>2
<1>6. ChunkOK(new, limit)
  <2>1. \A i, j \in DOMAIN new : i <= j => ColumnSize(new[i]) >= ColumnSize(new[j])
    BY <1>1, <1>3, <1>4 DEF ChunkOK
  <2>2. \A j \in DOMAIN new : new[j].kind = "dictionary" /\ ColumnSize(new[j]) = limit
    BY <1>1, <1>3, <1>4
  <2>3. \A i \in DOMAIN new : \A row \in 1 .. ColumnSize(new[i]) :
          ValueID(new[i], row) # Narrow(INVALID_VALUE_ID, new[i].attribute_vector.max)
    BY <1>3, <1>4
  <2> QED
    BY <1>4, <1>5, <2>1, <2>2, <2>3 DEF ChunkOK
<1>7. KeepsCells(chunk, new)
  BY <1>1, <1>3, <1>4 DEF KeepsCells
<1> QED
  BY <1>6, <1>7 DEF new

----------------------------------------------------------------------------
(* The chunks of a table                                                    *)

ChunksOK(cs, limit) ==
  /\ cs \in Seq(Seq(Columns_T))
  /\ cs # <<>>
  /\ \A k \in DOMAIN cs : ChunkOK(cs[k], limit)

KeepsAll(old, new) ==
  \A k \in DOMAIN old : k \in DOMAIN new /\ KeepsCells(old[k], new[k])

\* A chunk keeps its own cells.
LEMMA KeepsItself ==
  ASSUME NEW limit, NEW chunk, ChunkOK(chunk, limit)
  PROVE  KeepsCells(chunk, chunk)
<1>1. \A j \in DOMAIN chunk : ColumnSize(chunk[j]) \in Nat
  BY Kinds DEF ChunkOK
<1> QED
  BY <1>1 DEF KeepsCells

\* The chunk create_new_chunk builds has no rows, when all types are known.
LEMMA NewChunkIsEmpty ==
  ASSUME TypeOK, SchemaIsKnown
  PROVE  Size(NewChunk) = 0
<1>1. CASE NewChunk = <<>>
  BY <1>1 DEF Size
<1>2. CASE NewChunk # <<>>
  <2>1. column_names \in Seq(Names) /\ column_types \in Seq(TypeStrings)
        /\ Len(column_types) = Len(column_names)
    BY DEF TypeOK
  <2>2. 1 \in DOMAIN column_names /\ 1 \in DOMAIN column_types
    BY <1>2, <2>1 DEF NewChunk
  <2>3. NewChunk[1] = ValueColumn(column_names[1], column_types[1])
    BY <2>2 DEF NewChunk
  <2>4. column_names[1] \in Names /\ column_types[1] \in ColumnTypes
    BY <2>1, <2>2 DEF SchemaIsKnown, Range
  <2> QED
    BY <1>2, <2>3, <2>4, NewColumnIsEmpty DEF Size
<1> QED
  BY <1>1, <1>2

\* The chunk create_new_chunk builds is in order.
LEMMA NewChunkOK ==
  ASSUME TypeOK, SchemaIsKnown
  PROVE  ChunkOK(NewChunk, chunk_size)
<1> DEFINE n == Len(column_names)
<1>1. /\ NewChunk = [pos \in 1 .. n |-> ValueColumn(column_names[pos], column_types[pos])]
      /\ n \in Nat
  BY DEF TypeOK, NewChunk
<1>2. \A pos \in 1 .. n : column_names[pos] \in Names /\ column_types[pos] \in ColumnTypes
  BY DEF TypeOK, SchemaIsKnown, Range
<1> HIDE DEF n
<1>3. \A pos \in 1 .. n :
        /\ NewChunk[pos] \in Columns_T
        /\ NewChunk[pos].kind = "value"
        /\ ColumnSize(NewChunk[pos]) = 0
  BY <1>1, <1>2, NewColumnIsEmpty DEF Columns_T, ValueColumn
<1>4. NewChunk \in Seq(Columns_T) /\ DOMAIN NewChunk = 1 .. n
  <2>1. NewChunk \in [1 .. n -> Columns_T]
    BY <1>1, <1>3
  <2> QED
    BY <1>1, <2>1
<1>5. chunk_size \in Nat
  BY TableAssumption DEF TypeOK
<1>6. Size(NewChunk) = 0
  BY NewChunkIsEmpty
<1> QED
  BY <1>3, <1>4, <1>5, <1>6 DEF ChunkOK

\* A chunk added at the end leaves the others as they are.
LEMMA GrownOK ==
  ASSUME NEW limit, NEW cs, ChunksOK(cs, limit), NEW chunk, ChunkOK(chunk, limit)
  PROVE  ChunksOK(Append(cs, chunk), limit) /\ KeepsAll(cs, Append(cs, chunk))
<1> DEFINE new == Append(cs, chunk)
<1>1. cs \in Seq(Seq(Columns_T)) /\ chunk \in Seq(Columns_T) /\ DOMAIN cs = 1 .. Len(cs)
  BY DEF ChunksOK, ChunkOK
<1>2. /\ new \in Seq(Seq(Columns_T)) /\ DOMAIN new = 1 .. Len(cs) + 1
      /\ new[Len(cs) + 1] = chunk /\ \A k \in 1 .. Len(cs) : new[k] = cs[k]
      /\ Len(cs) \in Nat
  BY <1>1
<1> HIDE DEF new
<1>3. ChunksOK(new, limit)
  <2>1. new # <<>>
    BY <1>2
  <2>2. ASSUME NEW k \in 1 .. Len(cs) + 1 PROVE ChunkOK(new[k], limit)
    <3>1. CASE k = Len(cs) + 1
      BY <1>2, <3>1
    <3>2. CASE k # Len(cs) + 1
      <4>1. k \in 1 .. Len(cs)
        BY <1>2, <3>2
      <4> QED
        BY <1>1, <1>2, <4>1 DEF ChunksOK
    <3> QED
      BY <3>1, <3>2
  <2> QED
    BY <1>2, <2>1, <2>2 DEF ChunksOK
<1>4. KeepsAll(cs, new)
  BY <1>1, <1>2, KeepsItself DEF KeepsAll, ChunksOK
<1> QED
  BY <1>3, <1>4 DEF new

\* One chunk replaced by one that keeps its cells leaves the others as they are.
LEMMA ReplacedOK ==
  ASSUME NEW limit, NEW cs, ChunksOK(cs, limit), NEW k \in DOMAIN cs,
         NEW chunk, ChunkOK(chunk, limit), KeepsCells(cs[k], chunk)
  PROVE  /\ ChunksOK([cs EXCEPT ![k] = chunk], limit)
         /\ KeepsAll(cs, [cs EXCEPT ![k] = chunk])
<1> DEFINE new == [cs EXCEPT ![k] = chunk]
<1>1. cs \in Seq(Seq(Columns_T)) /\ chunk \in Seq(Columns_T)
  BY DEF ChunksOK, ChunkOK
<1>2. /\ new \in Seq(Seq(Columns_T)) /\ DOMAIN new = DOMAIN cs
      /\ new[k] = chunk /\ \A l \in DOMAIN cs : l # k => new[l] = cs[l]
  BY <1>1
<1> HIDE DEF new
<1>3. new # <<>>
  BY <1>2
<1>4. ChunksOK(new, limit)
  BY <1>2, <1>3 DEF ChunksOK
<1>5. KeepsAll(cs, new)
  BY <1>2, KeepsItself DEF KeepsAll, ChunksOK
<1> QED
  BY <1>4, <1>5 DEF new

\* Keeping all cells is transitive.
LEMMA KeepsAllTransitive ==
  ASSUME NEW limit, NEW a, NEW b, NEW c, ChunksOK(a, limit), ChunksOK(b, limit),
         ChunksOK(c, limit), KeepsAll(a, b), KeepsAll(b, c)
  PROVE  KeepsAll(a, c)
<1> SUFFICES ASSUME NEW k \in DOMAIN a, NEW j \in DOMAIN a[k], NEW row \in 1 .. ColumnSize(a[k][j])
             PROVE  /\ k \in DOMAIN c /\ j \in DOMAIN c[k]
                    /\ row <= ColumnSize(c[k][j])
                    /\ Get(c[k][j], row) = Get(a[k][j], row)
  BY DEF KeepsAll, KeepsCells, ChunksOK
<1>1. k \in DOMAIN b /\ KeepsCells(a[k], b[k])
  BY DEF KeepsAll
<1>2. k \in DOMAIN c /\ KeepsCells(b[k], c[k])
  BY <1>1 DEF KeepsAll
<1>3. /\ j \in DOMAIN b[k] /\ row <= ColumnSize(b[k][j])
      /\ Get(b[k][j], row) = Get(a[k][j], row)
  BY <1>1 DEF KeepsCells
<1>4. ColumnSize(a[k][j]) \in Nat /\ ColumnSize(b[k][j]) \in Nat
  BY <1>1, <1>3, Kinds DEF ChunksOK, ChunkOK
<1>5. row \in 1 .. ColumnSize(b[k][j])
  BY <1>3, <1>4
<1> QED
  BY <1>2, <1>3, <1>5 DEF KeepsCells

----------------------------------------------------------------------------
(* The invariant                                                            *)

Inv ==
  /\ TypeOK
  /\ ChunksOK(chunks, chunk_size)
  /\ result # "immutable"

\* What a step has to do about the chunks, seen apart from the schema.
ChunksStep == ChunksOK(chunks', chunk_size) /\ KeepsAll(chunks, chunks')

\* A new table has one chunk, without columns.
LEMMA InitInv == Init => Inv
<1> SUFFICES ASSUME Init PROVE Inv
  OBVIOUS
<1>1. chunks = << <<>> >> /\ chunk_size \in Nat /\ chunk_size \in ChunkSizes
  BY TableAssumption DEF Init
<1>2. chunks \in Seq(Seq(Columns_T)) /\ chunks # <<>> /\ \A k \in DOMAIN chunks : chunks[k] = <<>>
  BY <1>1
<1>3. ChunksOK(chunks, chunk_size)
  BY <1>1, <1>2, EmptyChunkOK DEF ChunksOK
<1>4. TypeOK
  BY <1>1, <1>2 DEF Init, TypeOK, Columns_T, Results
<1> QED
  BY <1>3, <1>4 DEF Init, Inv

\* A call that leaves the chunks alone keeps them in order.
LEMMA NothingStored == Inv /\ UNCHANGED chunks => ChunksStep
BY KeepsItself DEF Inv, ChunksStep, ChunksOK, KeepsAll

\* The loop of add_column, however far it comes.
LEMMA AddColumnStep ==
  ASSUME Inv, NEW name \in Names, NEW type \in ColumnTypes,
         chunks' = ChunksWithColumn(name, type)
  PROVE  ChunksStep
<1>1. chunk_size \in Nat /\ chunks \in Seq(Seq(Columns_T)) /\ chunks # <<>>
  BY TableAssumption DEF Inv, TypeOK, ChunksOK
<1>2. /\ DOMAIN chunks' = DOMAIN chunks
      /\ \A k \in DOMAIN chunks :
           chunks'[k] = IF \A i \in 1 .. k : AcceptsColumn(chunks[i])
                        THEN Append(chunks[k], ValueColumn(name, type)) ELSE chunks[k]
      /\ chunks' = [k \in DOMAIN chunks |-> chunks'[k]]
  BY DEF ChunksWithColumn
<1>3. ASSUME NEW k \in DOMAIN chunks
      PROVE  ChunkOK(chunks'[k], chunk_size) /\ KeepsCells(chunks[k], chunks'[k])
  <2>1. ChunkOK(chunks[k], chunk_size)
    BY DEF Inv, ChunksOK
  <2>2. CASE \A i \in 1 .. k : AcceptsColumn(chunks[i])
    <3>1. AcceptsColumn(chunks[k])
      BY <1>1, <2>2, SMTT(40)
    <3>2. /\ ChunkOK(Append(chunks[k], ValueColumn(name, type)), chunk_size)
          /\ KeepsCells(chunks[k], Append(chunks[k], ValueColumn(name, type)))
      BY <1>1, <2>1, <3>1, AddedColumnOK
    <3>3. chunks'[k] = Append(chunks[k], ValueColumn(name, type))
      BY <1>2, <2>2
    <3> QED
      BY <3>2, <3>3
  <2>3. CASE ~ \A i \in 1 .. k : AcceptsColumn(chunks[i])
    BY <1>2, <2>1, <2>3, KeepsItself
  <2> QED
    BY <2>2, <2>3
<1>4. chunks' \in Seq(Seq(Columns_T)) /\ chunks' # <<>>
  <2>1. \A k \in 1 .. Len(chunks) : chunks'[k] \in Seq(Columns_T)
    BY <1>1, <1>3 DEF ChunkOK
  <2>2. chunks' \in [1 .. Len(chunks) -> Seq(Columns_T)]
    BY <1>1, <1>2, <2>1
  <2>3. chunks' \in Seq(Seq(Columns_T)) /\ DOMAIN chunks' = DOMAIN chunks
    <3>1. Len(chunks) \in Nat
      BY <1>1
    <3> QED
      BY <1>2, <2>2, <3>1
  <2>4. chunks' # <<>>
    <3>1. Len(chunks) # 0 /\ Len(chunks) \in Nat /\ DOMAIN chunks = 1 .. Len(chunks)
      BY <1>1, EmptySeq
    <3>2. 1 \in DOMAIN chunks'
      BY <2>3, <3>1
    <3> QED
      BY <3>2
  <2> QED
    BY <2>3, <2>4
<1> QED
  BY <1>2, <1>3, <1>4 DEF ChunksStep, ChunksOK, KeepsAll

\* create_new_chunk.
LEMMA CreateStep ==
  ASSUME Inv, SchemaIsKnown
  PROVE  ChunksOK(Append(chunks, NewChunk), chunk_size) /\ KeepsAll(chunks, Append(chunks, NewChunk))
BY NewChunkOK, GrownOK DEF Inv

\* Table::append: a chunk is created if the last is full, then written to.
LEMMA AppendStep ==
  ASSUME Inv, NEW row, TableAppend(row)
  PROVE  ChunksStep /\ result' \in {"ok", "rejected"}
<1>1. CASE IsLastChunkFull /\ ~SchemaIsKnown
  BY <1>1, NothingStored DEF TableAppend, Reject
<1>2. CASE ~(IsLastChunkFull /\ ~SchemaIsKnown)
  <2> DEFINE grown == IF IsLastChunkFull THEN Append(chunks, NewChunk) ELSE chunks
             n == Len(grown)
             target == grown[n]
             new == ChunkAppend(target, row)
  <2>1. /\ chunks' = [grown EXCEPT ![n] = new]
        /\ result' = ChunkAppendResult(target, row)
    BY <1>2 DEF TableAppend
  <2>2. ChunksOK(chunks, chunk_size) /\ chunk_size \in Nat
    BY TableAssumption DEF Inv, TypeOK
  <2>3. ChunksOK(grown, chunk_size) /\ KeepsAll(chunks, grown)
    <3>1. CASE IsLastChunkFull
      BY <1>2, <3>1, CreateStep
    <3>2. CASE ~IsLastChunkFull
      BY <2>2, <3>2, KeepsItself DEF KeepsAll, ChunksOK
    <3> QED
      BY <3>1, <3>2
  <2>4. chunk_size # 0 => Size(target) # chunk_size
    <3>1. CASE IsLastChunkFull
      <4>1. grown = Append(chunks, NewChunk) /\ Len(chunks) \in Nat
        BY <2>2, <3>1 DEF ChunksOK
      <4>2. target = NewChunk
        BY <2>2, <4>1 DEF ChunksOK
      <4>3. Size(NewChunk) = 0
        BY <1>2, <3>1, NewChunkIsEmpty DEF Inv
      <4> QED
        BY <4>2, <4>3
    <3>2. CASE ~IsLastChunkFull
      BY <3>2 DEF IsLastChunkFull, LastChunk
    <3> QED
      BY <3>1, <3>2
  <2> HIDE DEF grown
  <2>5. n \in DOMAIN grown
    <3>1. n \in Nat \ {0} /\ DOMAIN grown = 1 .. n
      BY <2>3, EmptySeq DEF ChunksOK
    <3> QED
      BY <3>1
  <2>6. ChunkOK(target, chunk_size)
    BY <2>3, <2>5 DEF ChunksOK
  <2> HIDE DEF n, target
  <2>7. /\ ChunkOK(new, chunk_size) /\ KeepsCells(target, new)
        /\ result' \in {"ok", "rejected"}
    BY <2>1, <2>2, <2>4, <2>6, AppendedRowOK
  <2> HIDE DEF new
  <2>8. ChunksOK(chunks', chunk_size) /\ KeepsAll(grown, chunks')
    BY <2>1, <2>3, <2>5, <2>7, ReplacedOK DEF target
  <2>9. KeepsAll(chunks, chunks')
    BY <2>2, <2>3, <2>8, KeepsAllTransitive
  <2> QED
    BY <2>7, <2>8, <2>9 DEF ChunksStep
<1> QED
  BY <1>1, <1>2

\* Table::compress_chunk.
LEMMA CompressStep ==
  ASSUME Inv, NEW k \in DOMAIN chunks, MayCompress(chunks[k]),
         chunks' = [chunks EXCEPT ![k] = Compressed(@)]
  PROVE  ChunksStep
<1>1. ChunksOK(chunks, chunk_size) /\ chunk_size \in Nat /\ ChunkOK(chunks[k], chunk_size)
  BY TableAssumption DEF Inv, TypeOK, ChunksOK
<1>2. /\ chunk_size # 0 /\ Size(chunks[k]) = chunk_size
      /\ \A j \in DOMAIN chunks[k] :
           /\ \E type : Compressible(chunks[k][j], type)
           /\ ColumnSize(chunks[k][j]) = Size(chunks[k])
  BY DEF MayCompress, IsEncodable
<1>3. /\ ChunkOK(Compressed(chunks[k]), chunk_size)
      /\ KeepsCells(chunks[k], Compressed(chunks[k]))
  BY <1>1, <1>2, CompressedOK
<1> QED
  BY <1>1, <1>3, ReplacedOK DEF ChunksStep

\* A definition added at the end of the schema keeps the types of its parts.
LEMMA DefineOK ==
  ASSUME TypeOK, NEW name \in Names, NEW type \in TypeStrings, NEW mark \in BOOLEAN
  PROVE  /\ Append(column_names, name) \in Seq(Names)
         /\ Append(column_types, type) \in Seq(TypeStrings)
         /\ Append(is_instantiated, mark) \in Seq(BOOLEAN)
         /\ Len(Append(column_types, type)) = Len(Append(column_names, name))
         /\ Len(Append(is_instantiated, mark)) = Len(Append(column_names, name))
BY DEF TypeOK

\* The schema after add_column, whether it returned or threw.
LEMMA InstantiatedOK ==
  ASSUME TypeOK, NEW name \in Names, NEW mark \in BOOLEAN, HasDefinition(name)
  PROVE  /\ Instantiated(name, mark) \in Seq(BOOLEAN)
         /\ Len(Instantiated(name, mark)) = Len(column_names)
<1>1. Instantiated(name, mark) = [is_instantiated EXCEPT ![Position(name)] = mark]
  BY DEF Instantiated
<1>2. is_instantiated \in [1 .. Len(column_names) -> BOOLEAN] /\ Len(column_names) \in Nat
  BY DEF TypeOK
<1>3. Instantiated(name, mark) \in [1 .. Len(column_names) -> BOOLEAN]
  BY <1>1, <1>2, Zenon
<1> QED
  BY <1>2, <1>3

\* Every call keeps the invariant and every stored cell.
LEMMA NextInv == Inv /\ [Next]_vars => Inv' /\ ChunksStep
<1> SUFFICES ASSUME Inv, [Next]_vars PROVE Inv' /\ ChunksStep
  OBVIOUS
<1>1. TypeOK
  BY DEF Inv
<1>2. ASSUME UNCHANGED <<chunk_size, schema>>, ChunksStep, result' \in {"ok", "rejected"}
      PROVE  Inv' /\ ChunksStep
  <2>1. ChunksOK(chunks', chunk_size')
    BY <1>2 DEF ChunksStep
  <2>2. TypeOK'
    BY <1>1, <1>2, <2>1 DEF TypeOK, schema, ChunksOK, Columns_T, Results
  <2> QED
    BY <1>2, <2>1, <2>2 DEF Inv
<1>3. ASSUME NEW name \in Names, NEW type \in TypeStrings, AddColumnDefinition(name, type)
      PROVE  Inv' /\ ChunksStep
  <2>1. chunk_size' = chunk_size /\ chunks' = chunks /\ result' \in {"ok", "rejected"}
    BY <1>3 DEF AddColumnDefinition, Reject
  <2>2. ChunksStep
    BY <2>1, NothingStored
  <2>3. CASE HasDefinition(name)
    <3>1. UNCHANGED schema
      BY <1>3, <2>3 DEF AddColumnDefinition
    <3> QED
      BY <1>2, <2>1, <2>2, <3>1
  <2>4. CASE ~HasDefinition(name)
    <3>1. /\ column_names' = Append(column_names, name)
          /\ column_types' = Append(column_types, type)
          /\ is_instantiated' = Append(is_instantiated, FALSE)
      BY <1>3, <2>4 DEF AddColumnDefinition, Define
    <3>2. TypeOK'
      BY <1>1, <2>1, <3>1, DefineOK DEF TypeOK, Results
    <3> QED
      BY <2>1, <2>2, <3>2 DEF Inv, ChunksStep
  <2> QED
    BY <2>3, <2>4
<1>4. ASSUME NEW name \in Names, NEW type \in TypeStrings, AddColumn(name, type)
      PROVE  Inv' /\ ChunksStep
  <2>1. chunk_size' = chunk_size /\ result' \in {"ok", "rejected"}
    BY <1>4 DEF AddColumn, Reject
  <2>2. ChunksStep
    <3>1. CASE MayInstantiate(name, type) /\ type \in ColumnTypes
      BY <1>4, <3>1, AddColumnStep DEF AddColumn
    <3>2. CASE ~(MayInstantiate(name, type) /\ type \in ColumnTypes)
      <4>1. chunks' = chunks
        BY <1>4, <3>2 DEF AddColumn
      <4> QED
        BY <4>1, NothingStored
    <3> QED
      BY <3>1, <3>2
  <2>3. CASE ~MayInstantiate(name, type)
    <3>1. UNCHANGED schema
      BY <1>4, <2>3 DEF AddColumn
    <3> QED
      BY <1>2, <2>1, <2>2, <3>1
  <2>4. CASE MayInstantiate(name, type)
    <3> DEFINE done == type \in ColumnTypes /\ \A k \in DOMAIN chunks : AcceptsColumn(chunks[k])
    <3>1. /\ is_instantiated' = Instantiated(name, done)
          /\ IF HasDefinition(name) THEN UNCHANGED <<column_names, column_types>>
             ELSE Define(name, type)
      BY <1>4, <2>4 DEF AddColumn
    <3>2. done \in BOOLEAN
      OBVIOUS
    <3> HIDE DEF done
    <3>3. /\ column_names' \in Seq(Names) /\ column_types' \in Seq(TypeStrings)
          /\ is_instantiated' \in Seq(BOOLEAN)
          /\ Len(column_types') = Len(column_names')
          /\ Len(is_instantiated') = Len(column_names')
      <4>1. CASE HasDefinition(name)
        BY <1>1, <3>1, <3>2, <4>1, InstantiatedOK DEF TypeOK
      <4>2. CASE ~HasDefinition(name)
        BY <1>1, <3>1, <3>2, <4>2, DefineOK DEF Instantiated, Define
      <4> QED
        BY <4>1, <4>2
    <3>4. TypeOK'
      BY <1>1, <2>1, <2>2, <3>3 DEF TypeOK, Results, ChunksStep, ChunksOK, Columns_T
    <3> QED
      BY <2>1, <2>2, <3>4 DEF Inv, ChunksStep
  <2> QED
    BY <2>3, <2>4
<1>5. CASE CreateNewChunk
  <2>1. UNCHANGED <<chunk_size, schema>> /\ result' \in {"ok", "rejected"}
    BY <1>5 DEF CreateNewChunk, Reject
  <2>2. ChunksStep
    <3>1. CASE SchemaIsKnown
      BY <1>5, <3>1, CreateStep DEF CreateNewChunk, ChunksStep
    <3>2. CASE ~SchemaIsKnown
      BY <1>5, <3>2, NothingStored DEF CreateNewChunk
    <3> QED
      BY <3>1, <3>2
  <2> QED
    BY <1>2, <2>1, <2>2
<1>6. ASSUME NEW row \in Rows, TableAppend(row)
      PROVE  Inv' /\ ChunksStep
  <2>1. UNCHANGED <<chunk_size, schema>>
    BY <1>6 DEF TableAppend
  <2> QED
    BY <1>2, <1>6, <2>1, AppendStep
<1>7. ASSUME NEW k \in 1 .. Len(chunks) + 1, CompressChunk(k)
      PROVE  Inv' /\ ChunksStep
  <2>1. UNCHANGED <<chunk_size, schema>> /\ result' \in {"ok", "rejected"}
    BY <1>7 DEF CompressChunk, Reject
  <2>2. ChunksStep
    <3>1. CASE k \in DOMAIN chunks /\ MayCompress(chunks[k])
      BY <1>7, <3>1, CompressStep DEF CompressChunk
    <3>2. CASE ~(k \in DOMAIN chunks /\ MayCompress(chunks[k]))
      BY <1>7, <3>2, NothingStored DEF CompressChunk
    <3> QED
      BY <3>1, <3>2
  <2> QED
    BY <1>2, <2>1, <2>2
<1>8. CASE UNCHANGED vars
  <2>1. ChunksStep
    BY <1>8, NothingStored DEF vars
  <2> QED
    BY <1>8, <2>1 DEF vars, Inv, TypeOK, ChunksStep
<1> QED
  BY <1>3, <1>4, <1>5, <1>6, <1>7, <1>8 DEF Next

----------------------------------------------------------------------------
(* The theorems                                                             *)

\* What Inv says of every chunk, part by part.
LEMMA InvImplies ==
  ASSUME Inv
  PROVE  /\ TypeOK /\ LeftmostIsLongest /\ CapacityIsRespected /\ CompressedIsFull
         /\ AppendIsNeverRefusedAsImmutable /\ InvalidIdIsFree
<1>1. /\ TypeOK /\ result # "immutable" /\ chunk_size \in Nat
      /\ \A k \in DOMAIN chunks : ChunkOK(chunks[k], chunk_size)
  BY TableAssumption DEF Inv, ChunksOK, TypeOK
<1>2. LeftmostIsLongest /\ CompressedIsFull
  BY <1>1 DEF ChunkOK, LeftmostIsLongest, CompressedIsFull
<1>3. CapacityIsRespected
  <2> SUFFICES ASSUME chunk_size # 0, NEW k \in DOMAIN chunks, NEW j \in DOMAIN chunks[k]
               PROVE  ColumnSize(chunks[k][j]) <= chunk_size
    BY DEF CapacityIsRespected
  <2>1. ChunkOK(chunks[k], chunk_size)
    BY <1>1
  <2>2. Size(chunks[k]) \in Nat /\ ColumnSize(chunks[k][j]) <= Size(chunks[k])
    BY <2>1, SizeBounds
  <2>3. Size(chunks[k]) <= chunk_size
    BY <2>1 DEF ChunkOK
  <2>4. ColumnSize(chunks[k][j]) \in Nat
    BY <2>1, Kinds DEF ChunkOK
  <2> QED
    BY <1>1, <2>2, <2>3, <2>4
<1>4. InvalidIdIsFree
  BY <1>1 DEF ChunkOK, InvalidIdIsFree
<1> QED
  BY <1>1, <1>2, <1>3, <1>4 DEF AppendIsNeverRefusedAsImmutable

\* The invariant holds in every state of a table.
LEMMA AlwaysInv == Spec => []Inv
BY InitInv, NextInv, PTL DEF Spec

\* The variables of a table keep their types, whatever calls were refused: no
\* column of an unknown type is ever stored.
THEOREM TypeCorrect == Spec => []TypeOK
BY AlwaysInv, InvImplies, PTL

\* Chunk::size, the size of the first column, is that of the longest one.
THEOREM FirstColumnCountsAllRows == Spec => []LeftmostIsLongest
BY AlwaysInv, InvImplies, PTL

\* No column of a chunk outgrows the chunk size the table was created with.
THEOREM ChunksStayInCapacity == Spec => []CapacityIsRespected
BY AlwaysInv, InvImplies, PTL

\* Chunks are compressed as a whole and only when full.
THEOREM CompressionIsWholeAndFull == Spec => []CompressedIsFull
BY AlwaysInv, InvImplies, PTL

\* Table::append never writes to a compressed column.
THEOREM AppendAvoidsCompressed == Spec => []AppendIsNeverRefusedAsImmutable
BY AlwaysInv, InvImplies, PTL

\* No row of a compressed column looks as if it held INVALID_VALUE_ID.
THEOREM InvalidIdStaysFree == Spec => []InvalidIdIsFree
BY AlwaysInv, InvImplies, PTL

\* No call, returning or throwing, moves or changes a stored cell.
THEOREM CellsNeverChange == Spec => ValuesStayPut
<1>1. Inv /\ [Next]_vars => [CellsStay]_vars
  <2> SUFFICES ASSUME Inv, [Next]_vars PROVE CellsStay
    OBVIOUS
  <2>1. KeepsAll(chunks, chunks')
    BY NextInv DEF ChunksStep
  <2> QED
    BY <2>1 DEF KeepsAll, KeepsCells, CellsStay
<1> QED
  BY <1>1, AlwaysInv, PTL DEF Spec, ValuesStayPut

----------------------------------------------------------------------------
(* The definitions of a table and the columns in its chunks agree.  What   *)
(* any call does to the two is one relation, SchemaStep: columns keep      *)
(* their owner and type, new ones have a definition, and a column newly    *)
(* marked as instantiated, or a new chunk, leaves none out.                *)

IsDefined(column, names, types) ==
  \E pos \in DOMAIN names : names[pos] = column.owner /\ types[pos] = column.type

\* The columns of the old chunk are in their places in the new one.
KeepsColumns(old, new) ==
  \A j \in DOMAIN old :
    j \in DOMAIN new /\ new[j].owner = old[j].owner /\ new[j].type = old[j].type

\* Columns that were not in the old chunks.
AddsDefined(old, new, names, types) ==
  \A k \in DOMAIN new : \A j \in DOMAIN new[k] :
    (k \in DOMAIN old /\ j \in DOMAIN old[k]) \/ IsDefined(new[k][j], names, types)

Owns(chunk, name) == \E j \in DOMAIN chunk : chunk[j].owner = name

SchemaStep ==
  /\ \A k \in DOMAIN chunks : k \in DOMAIN chunks' /\ KeepsColumns(chunks[k], chunks'[k])
  /\ \A pos \in DOMAIN column_names :
       /\ pos \in DOMAIN column_names'
       /\ column_names'[pos] = column_names[pos] /\ column_types'[pos] = column_types[pos]
  /\ AddsDefined(chunks, chunks', column_names', column_types')
  /\ \A pos \in DOMAIN column_names' : is_instantiated'[pos] =>
       \A k \in DOMAIN chunks' :
         \/ Owns(chunks'[k], column_names'[pos])
         \/ pos \in DOMAIN column_names /\ is_instantiated[pos] /\ k \in DOMAIN chunks

----------------------------------------------------------------------------
(* What follows from a step.                                                *)

\* Old columns have their old definitions, new ones have one.
LEMMA StepKeepsTypes ==
  ASSUME ColumnsHaveTheirDefinedType, SchemaStep
  PROVE  ColumnsHaveTheirDefinedType'
<1> SUFFICES ASSUME NEW k \in DOMAIN chunks', NEW j \in DOMAIN chunks'[k]
             PROVE  IsDefined(chunks'[k][j], column_names', column_types')
  BY DEF ColumnsHaveTheirDefinedType, IsDefined
<1>1. CASE k \in DOMAIN chunks /\ j \in DOMAIN chunks[k]
  <2>1. chunks'[k][j].owner = chunks[k][j].owner /\ chunks'[k][j].type = chunks[k][j].type
    BY <1>1 DEF SchemaStep, KeepsColumns
  <2>2. PICK pos \in DOMAIN column_names :
          column_names[pos] = chunks[k][j].owner /\ column_types[pos] = chunks[k][j].type
    BY <1>1 DEF ColumnsHaveTheirDefinedType
  <2>3. /\ pos \in DOMAIN column_names'
        /\ column_names'[pos] = column_names[pos] /\ column_types'[pos] = column_types[pos]
    BY DEF SchemaStep
  <2>4. QED BY <2>1, <2>2, <2>3 DEF IsDefined
<1>2. CASE ~(k \in DOMAIN chunks /\ j \in DOMAIN chunks[k])
  BY <1>2 DEF SchemaStep, AddsDefined
<1>3. QED BY <1>1, <1>2

\* An old chunk keeps the columns that were instantiated in it.
LEMMA StepKeepsInstantiated ==
  ASSUME InstantiatedInEveryChunk, SchemaStep
  PROVE  InstantiatedInEveryChunk'
<1> SUFFICES ASSUME NEW pos \in DOMAIN column_names', is_instantiated'[pos],
                    NEW k \in DOMAIN chunks'
             PROVE  Owns(chunks'[k], column_names'[pos])
  BY DEF InstantiatedInEveryChunk, Owns
<1>1. CASE pos \in DOMAIN column_names /\ is_instantiated[pos] /\ k \in DOMAIN chunks
  <2>1. PICK j \in DOMAIN chunks[k] : chunks[k][j].owner = column_names[pos]
    BY <1>1 DEF InstantiatedInEveryChunk
  <2>2. j \in DOMAIN chunks'[k] /\ chunks'[k][j].owner = chunks[k][j].owner
    BY <1>1, <2>1 DEF SchemaStep, KeepsColumns
  <2>3. column_names'[pos] = column_names[pos] BY <1>1 DEF SchemaStep
  <2>4. QED BY <2>1, <2>2, <2>3 DEF Owns
<1>2. CASE ~(pos \in DOMAIN column_names /\ is_instantiated[pos] /\ k \in DOMAIN chunks)
  BY <1>2 DEF SchemaStep
<1>3. QED BY <1>1, <1>2

----------------------------------------------------------------------------
(* The calls.                                                               *)

\* A call that leaves the definitions alone, and whose new chunks have a column
\* for each of them.
LEMMA SameSchema ==
  ASSUME UNCHANGED schema,
         \A k \in DOMAIN chunks : k \in DOMAIN chunks' /\ KeepsColumns(chunks[k], chunks'[k]),
         AddsDefined(chunks, chunks', column_names, column_types),
         \A pos \in DOMAIN column_names : \A k \in DOMAIN chunks' :
           k \in DOMAIN chunks \/ Owns(chunks'[k], column_names[pos])
  PROVE  SchemaStep
BY DEF SchemaStep, schema

\* A call that throws before it stores anything.
LEMMA NothingDone == ASSUME UNCHANGED <<schema, chunks>> PROVE SchemaStep
BY SameSchema DEF KeepsColumns, AddsDefined

\* Behind the definitions there are comes a new one.
LEMMA DefineStep ==
  ASSUME TypeOK, NEW name \in Names, NEW type \in TypeStrings, Define(name, type)
  PROVE  /\ DOMAIN column_names' = DOMAIN column_names \cup {Len(column_names) + 1}
         /\ Len(column_names) + 1 \notin DOMAIN column_names
         /\ \A pos \in DOMAIN column_names :
              column_names'[pos] = column_names[pos] /\ column_types'[pos] = column_types[pos]
         /\ column_names'[Len(column_names) + 1] = name
         /\ column_types'[Len(column_names) + 1] = type
BY DEF TypeOK, Define

\* A mark appended to the others.
LEMMA MarkStep ==
  ASSUME TypeOK, NEW mark \in BOOLEAN, is_instantiated' = Append(is_instantiated, mark)
  PROVE  /\ \A pos \in DOMAIN column_names : is_instantiated'[pos] = is_instantiated[pos]
         /\ is_instantiated'[Len(column_names) + 1] = mark
<1>1. /\ is_instantiated \in Seq(BOOLEAN) /\ Len(is_instantiated) = Len(column_names)
      /\ DOMAIN column_names = 1 .. Len(column_names)
  BY DEF TypeOK
<1>2. QED BY <1>1, AppendProperties

\* add_column_definition: the new one is not instantiated.
LEMMA DefinitionStep ==
  ASSUME TypeOK, NEW name \in Names, NEW type \in TypeStrings, AddColumnDefinition(name, type)
  PROVE  SchemaStep
<1>1. CASE HasDefinition(name) BY <1>1, NothingDone DEF AddColumnDefinition
<1>2. CASE ~HasDefinition(name)
  <2>1. Define(name, type) /\ UNCHANGED chunks BY <1>2 DEF AddColumnDefinition
  <2>2. is_instantiated' = Append(is_instantiated, FALSE) BY <1>2 DEF AddColumnDefinition
  <2>3. \A pos \in DOMAIN column_names' : is_instantiated'[pos] =>
          pos \in DOMAIN column_names /\ is_instantiated[pos]
    BY <2>1, <2>2, DefineStep, MarkStep
  <2>4. \A pos \in DOMAIN column_names :
          /\ pos \in DOMAIN column_names'
          /\ column_names'[pos] = column_names[pos] /\ column_types'[pos] = column_types[pos]
    BY <2>1, DefineStep
  <2>5. QED BY <2>1, <2>3, <2>4 DEF SchemaStep, KeepsColumns, AddsDefined
<1>3. QED BY <1>1, <1>2

\* One more column in a chunk.
LEMMA OneMoreColumn ==
  ASSUME NEW chunk \in Seq(Columns_T), NEW column \in Columns_T,
         NEW new, new = Append(chunk, column)
  PROVE  /\ KeepsColumns(chunk, new)
         /\ \A j \in DOMAIN new : j \in DOMAIN chunk \/ new[j] = column
         /\ Owns(new, column.owner)
<1>1. /\ DOMAIN chunk = 1 .. Len(chunk) /\ DOMAIN new = 1 .. Len(chunk) + 1
      /\ Len(chunk) \in Nat
  OBVIOUS
<1>2. \A j \in DOMAIN chunk : new[j] = chunk[j] OBVIOUS
<1>3. new[Len(chunk) + 1] = column OBVIOUS
<1>4. \A j \in DOMAIN new : j \in DOMAIN chunk \/ j = Len(chunk) + 1 BY <1>1
<1>5. KeepsColumns(chunk, new) BY <1>1, <1>2 DEF KeepsColumns
<1>6. Owns(new, column.owner) BY <1>1, <1>3 DEF Owns
<1>7. QED BY <1>3, <1>4, <1>5, <1>6

\* The loop of add_column: the chunks before the first that refuses the column
\* have it, which are all when it has run to its end.
LEMMA LoopStep ==
  ASSUME TypeOK, NEW name \in Names, NEW type \in TypeStrings,
         chunks' = IF type \in ColumnTypes THEN ChunksWithColumn(name, type) ELSE chunks
  PROVE  /\ DOMAIN chunks' = DOMAIN chunks
         /\ \A k \in DOMAIN chunks : KeepsColumns(chunks[k], chunks'[k])
         /\ \A k \in DOMAIN chunks : \A j \in DOMAIN chunks'[k] :
              j \in DOMAIN chunks[k]
                \/ (chunks'[k][j].owner = name /\ chunks'[k][j].type = type)
         /\ type \in ColumnTypes /\ (\A k \in DOMAIN chunks : AcceptsColumn(chunks[k])) =>
              \A k \in DOMAIN chunks : Owns(chunks'[k], name)
<1> DEFINE column == ValueColumn(name, type)
<1>1. CASE type \notin ColumnTypes BY <1>1 DEF KeepsColumns
<1>2. CASE type \in ColumnTypes
  <2>1. /\ DOMAIN chunks' = DOMAIN chunks
        /\ \A k \in DOMAIN chunks :
             chunks'[k] = IF \A i \in 1 .. k : AcceptsColumn(chunks[i])
                          THEN Append(chunks[k], column) ELSE chunks[k]
    BY <1>2 DEF ChunksWithColumn
  <2>2. column \in Columns_T /\ column.owner = name /\ column.type = type
    <3>1. column \in ValueColumns BY <1>2 DEF ValueColumn, ValueColumns
    <3>2. QED BY <3>1 DEF ValueColumn, Columns_T
  <2>3. /\ chunks \in Seq(Seq(Columns_T))
        /\ \A k \in DOMAIN chunks : chunks[k] \in Seq(Columns_T)
    BY DEF TypeOK, Columns_T
  <2> HIDE DEF column
  <2>4. ASSUME NEW k \in DOMAIN chunks
        PROVE  /\ KeepsColumns(chunks[k], chunks'[k])
               /\ \A j \in DOMAIN chunks'[k] : j \in DOMAIN chunks[k]
                    \/ (chunks'[k][j].owner = name /\ chunks'[k][j].type = type)
    <3>1. CASE chunks'[k] = Append(chunks[k], column)
      <4>1. chunks[k] \in Seq(Columns_T) BY <2>3
      <4>2. /\ KeepsColumns(chunks[k], chunks'[k])
            /\ \A j \in DOMAIN chunks'[k] : j \in DOMAIN chunks[k] \/ chunks'[k][j] = column
        BY <2>2, <3>1, <4>1, OneMoreColumn
      <4>3. QED BY <2>2, <4>2
    <3>2. CASE chunks'[k] = chunks[k] BY <3>2 DEF KeepsColumns
    <3>3. QED BY <2>1, <3>1, <3>2
  <2>5. ASSUME \A i \in DOMAIN chunks : AcceptsColumn(chunks[i]), NEW k \in DOMAIN chunks
        PROVE  Owns(chunks'[k], name)
    <3>1. 1 .. k \subseteq DOMAIN chunks BY <2>3
    <3>2. chunks'[k] = Append(chunks[k], column) BY <2>1, <2>5, <3>1
    <3>3. QED BY <2>2, <2>3, <3>2, OneMoreColumn
  <2>6. QED BY <1>2, <2>1, <2>4, <2>5
<1>3. QED BY <1>1, <1>2

\* Table::add_column, returning or throwing: a definition there was has the type of
\* the new column, and is marked only when every chunk has the column.
LEMMA ColumnStep ==
  ASSUME TypeOK, NEW name \in Names, NEW type \in TypeStrings, AddColumn(name, type)
  PROVE  SchemaStep
<1>1. CASE ~MayInstantiate(name, type) BY <1>1, NothingDone DEF AddColumn
<1>2. CASE MayInstantiate(name, type)
  <2> DEFINE done == type \in ColumnTypes /\ \A k \in DOMAIN chunks : AcceptsColumn(chunks[k])
             pos0 == IF HasDefinition(name) THEN Position(name) ELSE Len(column_names) + 1
  <2>1. /\ IF HasDefinition(name) THEN UNCHANGED <<column_names, column_types>>
           ELSE Define(name, type)
        /\ is_instantiated' = Instantiated(name, done)
        /\ chunks' = IF type \in ColumnTypes THEN ChunksWithColumn(name, type) ELSE chunks
    BY <1>2 DEF AddColumn
  <2>2. /\ pos0 \in DOMAIN column_names'
        /\ column_names'[pos0] = name /\ column_types'[pos0] = type
        /\ \A pos \in DOMAIN column_names :
             /\ pos \in DOMAIN column_names'
             /\ column_names'[pos] = column_names[pos] /\ column_types'[pos] = column_types[pos]
        /\ \A pos \in DOMAIN column_names' : pos \in DOMAIN column_names \/ pos = pos0
    <3>1. CASE HasDefinition(name)
      <4>1. \E pos \in DOMAIN column_names : column_names[pos] = name
        BY <3>1 DEF HasDefinition, Range
      <4>2. Position(name) \in DOMAIN column_names /\ column_names[Position(name)] = name
        BY <4>1 DEF Position
      <4>3. QED BY <1>2, <2>1, <3>1, <4>2 DEF MayInstantiate
    <3>2. CASE ~HasDefinition(name) BY <2>1, <3>2, DefineStep
    <3>3. QED BY <3>1, <3>2
  <2>3. ASSUME NEW pos \in DOMAIN column_names', is_instantiated'[pos]
        PROVE  (pos = pos0 /\ done) \/ (pos \in DOMAIN column_names /\ is_instantiated[pos])
    <3>1. CASE HasDefinition(name)
      <4>1. is_instantiated' = [is_instantiated EXCEPT ![pos0] = done]
        BY <2>1, <3>1 DEF Instantiated
      <4>2. pos \in DOMAIN column_names /\ pos \in DOMAIN is_instantiated
        BY <2>1, <3>1 DEF TypeOK
      <4>3. QED BY <2>3, <4>1, <4>2, Zenon
    <3>2. CASE ~HasDefinition(name)
      <4>1. is_instantiated' = Append(is_instantiated, done) /\ done \in BOOLEAN
        BY <2>1, <3>2 DEF Instantiated
      <4>2. /\ \A p \in DOMAIN column_names : is_instantiated'[p] = is_instantiated[p]
            /\ is_instantiated'[pos0] = done
        BY <3>2, <4>1, MarkStep
      <4>3. QED BY <2>2, <2>3, <4>2, Zenon
    <3>3. QED BY <3>1, <3>2
  <2>4. /\ DOMAIN chunks' = DOMAIN chunks
        /\ \A k \in DOMAIN chunks : KeepsColumns(chunks[k], chunks'[k])
        /\ \A k \in DOMAIN chunks : \A j \in DOMAIN chunks'[k] :
             j \in DOMAIN chunks[k]
               \/ (chunks'[k][j].owner = name /\ chunks'[k][j].type = type)
        /\ done => \A k \in DOMAIN chunks : Owns(chunks'[k], name)
    BY <2>1, LoopStep
  <2> HIDE DEF done, pos0
  <2>5. AddsDefined(chunks, chunks', column_names', column_types')
    BY <2>2, <2>4 DEF AddsDefined, IsDefined
  <2>6. ASSUME NEW pos \in DOMAIN column_names', is_instantiated'[pos], NEW k \in DOMAIN chunks'
        PROVE  \/ Owns(chunks'[k], column_names'[pos])
               \/ pos \in DOMAIN column_names /\ is_instantiated[pos] /\ k \in DOMAIN chunks
    BY <2>2, <2>3, <2>4, <2>6, Zenon
  <2>7. QED BY <2>2, <2>4, <2>5, <2>6 DEF SchemaStep
<1>3. QED BY <1>1, <1>2

\* The chunk create_new_chunk builds has a column for every definition.
LEMMA NewChunkColumns ==
  ASSUME TypeOK, NEW new, new = Append(chunks, NewChunk)
  PROVE  /\ \A k \in DOMAIN chunks : k \in DOMAIN new /\ new[k] = chunks[k]
         /\ \A k \in DOMAIN new : k \in DOMAIN chunks \/ new[k] = NewChunk
         /\ \A j \in DOMAIN NewChunk : IsDefined(NewChunk[j], column_names, column_types)
         /\ \A pos \in DOMAIN column_names : Owns(NewChunk, column_names[pos])
<1>1. NewChunk = [pos \in DOMAIN column_names |->
                    ValueColumn(column_names[pos], column_types[pos])]
  BY DEF NewChunk
<1>2. chunks \in Seq(Seq(Columns_T)) BY DEF TypeOK, Columns_T
<1> HIDE DEF NewChunk
<1>3. /\ DOMAIN chunks = 1 .. Len(chunks) /\ DOMAIN new = 1 .. Len(chunks) + 1
      /\ Len(chunks) \in Nat
      /\ \A k \in DOMAIN chunks : new[k] = chunks[k]
      /\ new[Len(chunks) + 1] = NewChunk
  BY <1>2
<1>4. \A k \in DOMAIN new : k \in DOMAIN chunks \/ k = Len(chunks) + 1 BY <1>3
<1>5. \A pos \in DOMAIN column_names :
        /\ pos \in DOMAIN NewChunk
        /\ NewChunk[pos].owner = column_names[pos] /\ NewChunk[pos].type = column_types[pos]
  BY <1>1 DEF ValueColumn
<1>6. DOMAIN NewChunk = DOMAIN column_names BY <1>1
<1>7. QED BY <1>3, <1>4, <1>5, <1>6 DEF IsDefined, Owns

\* create_new_chunk, returning or throwing.
LEMMA NewChunkStep == ASSUME TypeOK, CreateNewChunk PROVE SchemaStep
<1>1. CASE ~SchemaIsKnown BY <1>1, NothingDone DEF CreateNewChunk
<1>2. CASE SchemaIsKnown
  <2>1. chunks' = Append(chunks, NewChunk) /\ UNCHANGED schema BY <1>2 DEF CreateNewChunk
  <2>2. QED BY <2>1, NewChunkColumns, SameSchema DEF KeepsColumns, AddsDefined
<1>3. QED BY <1>1, <1>2

\* Chunk::append writes into the columns there are.
LEMMA RowKeepsColumns ==
  ASSUME NEW chunk \in Seq(Columns_T), NEW row, NEW new, new = ChunkAppend(chunk, row)
  PROVE  KeepsColumns(chunk, new) /\ DOMAIN new = DOMAIN chunk
<1>1. CASE Len(row) # Len(chunk) BY <1>1 DEF ChunkAppend, KeepsColumns
<1>2. CASE Len(row) = Len(chunk)
  <2>1. /\ DOMAIN new = DOMAIN chunk
        /\ \A j \in DOMAIN chunk : \/ new[j] = chunk[j]
                                   \/ /\ CanAppend(chunk[j], row[j])
                                      /\ new[j] = ColumnAppend(chunk[j], row[j])
    <3>1. new = [j \in DOMAIN chunk |->
                   IF \A i \in 1 .. j : CanAppend(chunk[i], row[i])
                   THEN ColumnAppend(chunk[j], row[j]) ELSE chunk[j]]
      BY <1>2 DEF ChunkAppend
    <3>2. \A j \in DOMAIN chunk : j \in 1 .. j OBVIOUS
    <3>3. QED BY <3>1, <3>2, Zenon
  <2>2. ASSUME NEW j \in DOMAIN chunk
        PROVE  new[j].owner = chunk[j].owner /\ new[j].type = chunk[j].type
    <3>1. CASE new[j] = chunk[j] BY <3>1
    <3>2. CASE CanAppend(chunk[j], row[j]) /\ new[j] = ColumnAppend(chunk[j], row[j])
      <4>1. chunk[j] \in ValueColumns BY <3>2, Kinds DEF CanAppend
      <4>2. QED BY <3>2, <4>1 DEF ColumnAppend, ValueColumns
    <3>3. QED BY <2>1, <3>1, <3>2
  <2>3. QED BY <2>1, <2>2 DEF KeepsColumns
<1>3. QED BY <1>1, <1>2

\* Table::append: a chunk it creates is one of create_new_chunk's, and the row
\* goes into columns that are there.
LEMMA RowStep == ASSUME TypeOK, NEW row, TableAppend(row) PROVE SchemaStep
<1>1. CASE IsLastChunkFull /\ ~SchemaIsKnown
  BY <1>1, NothingDone DEF TableAppend
<1>2. CASE ~(IsLastChunkFull /\ ~SchemaIsKnown)
  <2> DEFINE grown == IF IsLastChunkFull THEN Append(chunks, NewChunk) ELSE chunks
             n == Len(grown)
  <2>1. /\ chunks' = [grown EXCEPT ![n] = ChunkAppend(grown[n], row)]
        /\ UNCHANGED schema
    BY <1>2 DEF TableAppend
  <2>2. /\ \A k \in DOMAIN chunks : k \in DOMAIN grown /\ grown[k] = chunks[k]
        /\ \A k \in DOMAIN grown : k \in DOMAIN chunks \/ grown[k] = NewChunk
    BY NewChunkColumns
  <2>3. /\ \A j \in DOMAIN NewChunk : IsDefined(NewChunk[j], column_names, column_types)
        /\ \A pos \in DOMAIN column_names : Owns(NewChunk, column_names[pos])
    BY NewChunkColumns
  <2>4. grown[n] \in Seq(Columns_T) /\ n \in DOMAIN grown
    <3>1. chunks \in Seq(Seq(Columns_T)) /\ chunks # <<>> BY DEF TypeOK, Columns_T
    <3>2. CASE ~IsLastChunkFull
      BY <3>1, <3>2, EmptySeq
    <3>3. CASE IsLastChunkFull
      <4>1. grown = Append(chunks, NewChunk) BY <3>3
      <4>2. NewChunk \in Seq(Columns_T)
        <5>1. SchemaIsKnown BY <1>2, <3>3
        <5>2. QED BY <5>1, NewChunkOK DEF ChunkOK
      <4>3. QED BY <3>1, <4>1, <4>2, AppendProperties
    <3>4. QED BY <3>2, <3>3
  <2> HIDE DEF grown, n
  <2>5. DOMAIN chunks' = DOMAIN grown /\ \A k \in DOMAIN grown :
          KeepsColumns(grown[k], chunks'[k]) /\ DOMAIN chunks'[k] = DOMAIN grown[k]
    <3>1. /\ KeepsColumns(grown[n], chunks'[n])
          /\ DOMAIN chunks'[n] = DOMAIN grown[n]
      <4>1. chunks'[n] = ChunkAppend(grown[n], row) BY <2>1, <2>4
      <4>2. QED BY <2>4, <4>1, RowKeepsColumns
    <3>2. \A k \in DOMAIN grown : k = n \/ chunks'[k] = grown[k] BY <2>1
    <3>3. DOMAIN chunks' = DOMAIN grown BY <2>1
    <3>4. QED BY <3>1, <3>2, <3>3 DEF KeepsColumns
  <2>6. \A k \in DOMAIN chunks : k \in DOMAIN chunks' /\ KeepsColumns(chunks[k], chunks'[k])
    BY <2>2, <2>5
  <2>7. AddsDefined(chunks, chunks', column_names, column_types)
    <3> SUFFICES ASSUME NEW k \in DOMAIN chunks', NEW j \in DOMAIN chunks'[k],
                        ~(k \in DOMAIN chunks /\ j \in DOMAIN chunks[k])
                 PROVE  IsDefined(chunks'[k][j], column_names, column_types)
      BY DEF AddsDefined
    <3>1. j \in DOMAIN grown[k] /\ k \in DOMAIN grown BY <2>5
    <3>2. grown[k] = NewChunk BY <2>2, <3>1
    <3>3. chunks'[k][j].owner = NewChunk[j].owner /\ chunks'[k][j].type = NewChunk[j].type
      BY <2>5, <3>1, <3>2 DEF KeepsColumns
    <3>4. IsDefined(NewChunk[j], column_names, column_types) BY <2>3, <3>1, <3>2
    <3>5. QED BY <3>3, <3>4 DEF IsDefined
  <2>8. ASSUME NEW pos \in DOMAIN column_names, NEW k \in DOMAIN chunks', k \notin DOMAIN chunks
        PROVE  Owns(chunks'[k], column_names[pos])
    <3>1. k \in DOMAIN grown /\ grown[k] = NewChunk BY <2>2, <2>5, <2>8
    <3>2. PICK j \in DOMAIN NewChunk : NewChunk[j].owner = column_names[pos]
      BY <2>3 DEF Owns
    <3>3. j \in DOMAIN chunks'[k] /\ chunks'[k][j].owner = NewChunk[j].owner
      BY <2>5, <3>1, <3>2 DEF KeepsColumns
    <3>4. QED BY <3>2, <3>3 DEF Owns
  <2>9. QED BY <2>1, <2>6, <2>7, <2>8, SameSchema
<1>3. QED BY <1>1, <1>2

\* Table::compress_chunk: a column is encoded in its place.
LEMMA EncodeStep ==
  ASSUME TypeOK, NEW k0 \in Nat, CompressChunk(k0)
  PROVE  SchemaStep
<1>1. CASE ~(k0 \in DOMAIN chunks /\ MayCompress(chunks[k0]))
  BY <1>1, NothingDone DEF CompressChunk
<1>2. CASE k0 \in DOMAIN chunks /\ MayCompress(chunks[k0])
  <2>1. chunks' = [chunks EXCEPT ![k0] = Compressed(chunks[k0])] /\ UNCHANGED schema
    BY <1>2 DEF CompressChunk
  <2>2. /\ DOMAIN chunks' = DOMAIN chunks
        /\ \A k \in DOMAIN chunks : chunks'[k] = chunks[k] \/ chunks'[k] = Compressed(chunks[k])
    BY <2>1
  <2>3. \A k \in DOMAIN chunks : DOMAIN chunks'[k] = DOMAIN chunks[k]
    BY <2>2 DEF Compressed
  <2>4. \A k \in DOMAIN chunks : KeepsColumns(chunks[k], chunks'[k])
    BY <2>2 DEF Compressed, DictionaryColumn, KeepsColumns
  <2>5. QED BY <2>1, <2>2, <2>3, <2>4, SameSchema DEF AddsDefined
<1>3. QED BY <1>1, <1>2

\* Every call of the class Table.
LEMMA EveryStep == TypeOK /\ [Next]_vars => SchemaStep
<1> SUFFICES ASSUME TypeOK, [Next]_vars PROVE SchemaStep OBVIOUS
<1>1. CASE UNCHANGED vars BY <1>1, NothingDone DEF vars, schema
<1>2. ASSUME NEW k \in 1 .. Len(chunks) + 1, CompressChunk(k) PROVE SchemaStep
  <2>1. k \in Nat BY DEF TypeOK
  <2>2. QED BY <1>2, <2>1, EncodeStep
<1>3. QED BY <1>1, <1>2, DefinitionStep, ColumnStep, NewChunkStep, RowStep DEF Next

----------------------------------------------------------------------------
(* The theorems.                                                            *)

\* Every column in every chunk belongs to a definition and has its type, whether
\* it came with add_column, with a new chunk or out of the compression.
THEOREM ColumnsKeepTheirTypes == Spec => []ColumnsHaveTheirDefinedType
<1>1. Init => ColumnsHaveTheirDefinedType BY DEF Init, ColumnsHaveTheirDefinedType
<1>2. Inv /\ ColumnsHaveTheirDefinedType /\ [Next]_vars => ColumnsHaveTheirDefinedType'
  BY InvImplies, EveryStep, StepKeepsTypes
<1>3. QED BY <1>1, <1>2, AlwaysInv, PTL DEF Spec

\* No chunk lacks a column that is marked as instantiated, although add_column
\* may throw after some of the chunks have the column.
THEOREM InstantiatedEverywhere == Spec => []InstantiatedInEveryChunk
<1>1. Init => InstantiatedInEveryChunk BY DEF Init, InstantiatedInEveryChunk
<1>2. Inv /\ InstantiatedInEveryChunk /\ [Next]_vars => InstantiatedInEveryChunk'
  BY InvImplies, EveryStep, StepKeepsInstantiated
<1>3. QED BY <1>1, <1>2, AlwaysInv, PTL DEF Spec

----------------------------------------------------------------------------
(* The rows of a list of chunks, of which the first n columns are looked at. *)

RowOfChunk(chunk, n, row) == [pos \in 1 .. n |-> Get(chunk[pos], row)]

RowsIn(chunk, n) ==
  IF n = 0 THEN <<>>
  ELSE [row \in 1 .. ColumnSize(chunk[n]) |-> RowOfChunk(chunk, n, row)]

AllRows(cs, n) == FlattenSeq([k \in DOMAIN cs |-> RowsIn(cs[k], n)])

\* Chunks of which the n-th column, if n is not 0, has a size.
HaveRows(cs, n) ==
  /\ n \in Nat /\ Len(cs) \in Nat \ {0} /\ DOMAIN cs = 1 .. Len(cs)
  /\ n # 0 => \A k \in DOMAIN cs : ColumnSize(cs[k][n]) \in Nat

\* The rows a list of chunks can have, and one more.
RowsOf(cs, n, more) ==
  {RowOfChunk(cs[k], n, row) : k \in DOMAIN cs, row \in Nat} \cup {more}

\* The rows of each chunk are a sequence of such rows.
LEMMA RowsAreSequences ==
  ASSUME NEW cs, NEW n, NEW more, HaveRows(cs, n)
  PROVE  /\ [k \in DOMAIN cs |-> RowsIn(cs[k], n)] \in Seq(Seq(RowsOf(cs, n, more)))
         /\ Len([k \in DOMAIN cs |-> RowsIn(cs[k], n)]) = Len(cs)
<1> DEFINE S == RowsOf(cs, n, more)
           f == [k \in DOMAIN cs |-> RowsIn(cs[k], n)]
<1>1. ASSUME NEW k \in DOMAIN cs PROVE RowsIn(cs[k], n) \in Seq(S)
  <2>1. CASE n = 0
    BY <2>1 DEF RowsIn
  <2>2. CASE n # 0
    <3>1. ColumnSize(cs[k][n]) \in Nat
      BY <2>2 DEF HaveRows
    <3>2. \A row \in 1 .. ColumnSize(cs[k][n]) : RowOfChunk(cs[k], n, row) \in S
      BY <3>1 DEF RowsOf
    <3>3. RowsIn(cs[k], n) = [row \in 1 .. ColumnSize(cs[k][n]) |-> RowOfChunk(cs[k], n, row)]
      BY <2>2 DEF RowsIn
    <3> HIDE DEF S
    <3> QED
      BY <3>1, <3>2, <3>3
  <2> QED
    BY <2>1, <2>2
<1>2. DOMAIN cs = 1 .. Len(cs) /\ Len(cs) \in Nat
  BY DEF HaveRows
<1>3. f \in [1 .. Len(cs) -> Seq(S)]
  BY <1>1, <1>2
<1> HIDE DEF f, S
<1>4. f \in Seq(Seq(S)) /\ Len(f) = Len(cs)
  BY <1>2, <1>3
<1> QED
  BY <1>4 DEF f, S

\* Chunks with the same rows, chunk by chunk, have the same rows.
LEMMA SameRows ==
  ASSUME NEW old, NEW new, NEW n, DOMAIN new = DOMAIN old,
         \A k \in DOMAIN old : RowsIn(new[k], n) = RowsIn(old[k], n)
  PROVE  AllRows(new, n) = AllRows(old, n)
<1>1. [k \in DOMAIN new |-> RowsIn(new[k], n)] = [k \in DOMAIN old |-> RowsIn(old[k], n)]
  OBVIOUS
<1> QED
  BY <1>1 DEF AllRows

\* Chunks without rows.
LEMMA NoRows ==
  ASSUME NEW cs, NEW n, HaveRows(cs, n), \A k \in DOMAIN cs : RowsIn(cs[k], n) = <<>>
  PROVE  AllRows(cs, n) = <<>>
<1> DEFINE f == [k \in DOMAIN cs |-> RowsIn(cs[k], n)]
<1>1. Len(f) = Len(cs) /\ Len(cs) \in Nat \ {0} /\ DOMAIN cs = 1 .. Len(cs)
  BY RowsAreSequences DEF HaveRows
<1>2. \A k \in 1 .. Len(cs) : f[k] = <<>>
  BY <1>1
<1> HIDE DEF f
<1>3. FlattenSeq(f) = <<>>
  BY <1>1, <1>2, FlattenNothing
<1> QED
  BY <1>3 DEF AllRows, f

\* A new chunk without rows at the end changes nothing.
LEMMA GrownRows ==
  ASSUME NEW T, NEW cs \in Seq(T), NEW chunk \in T, NEW n, HaveRows(cs, n),
         RowsIn(chunk, n) = <<>>
  PROVE  AllRows(Append(cs, chunk), n) = AllRows(cs, n)
<1> DEFINE f == [k \in DOMAIN cs |-> RowsIn(cs[k], n)]
           g == [k \in DOMAIN Append(cs, chunk) |-> RowsIn(Append(cs, chunk)[k], n)]
           S == RowsOf(cs, n, <<>>)
<1>1. f \in Seq(Seq(S)) /\ Len(f) = Len(cs) /\ <<>> \in Seq(S)
  BY RowsAreSequences
<1>2. /\ DOMAIN Append(cs, chunk) = 1 .. Len(cs) + 1 /\ Len(cs) \in Nat
      /\ DOMAIN cs = 1 .. Len(cs) /\ Append(cs, chunk)[Len(cs) + 1] = chunk
      /\ \A k \in 1 .. Len(cs) : Append(cs, chunk)[k] = cs[k]
  OBVIOUS
<1>3. g = Append(f, <<>>)
  <2> DEFINE h == Append(f, <<>>)
  <2>1. /\ h \in Seq(Seq(S)) /\ Len(h) = Len(cs) + 1 /\ h[Len(cs) + 1] = <<>>
        /\ \A k \in 1 .. Len(cs) : h[k] = f[k]
    BY <1>1, AppendProperties
  <2>2. h \in [1 .. Len(cs) + 1 -> Seq(S)]
    BY <2>1, LenProperties
  <2>3. /\ DOMAIN g = 1 .. Len(cs) + 1 /\ g = [k \in DOMAIN g |-> g[k]]
        /\ \A k \in 1 .. Len(cs) : g[k] = f[k]
        /\ g[Len(cs) + 1] = <<>>
    BY <1>2
  <2> HIDE DEF f, g, h
  <2>4. \A k \in 1 .. Len(cs) + 1 : k = Len(cs) + 1 \/ k \in 1 .. Len(cs)
    BY <1>2
  <2>5. \A k \in 1 .. Len(cs) + 1 : g[k] = h[k]
    BY <2>1, <2>3, <2>4
  <2>6. g = h
    BY <2>2, <2>3, <2>5
  <2> QED
    BY <2>6 DEF h
<1> HIDE DEF f, g, S
<1>4. FlattenSeq(g) = FlattenSeq(f) \o <<>> /\ FlattenSeq(f) \in Seq(S)
  BY <1>1, <1>3, FlattenAppend
<1>5. FlattenSeq(g) = FlattenSeq(f)
  BY <1>4
<1> QED
  BY <1>5 DEF AllRows, f, g

\* A row at the end of the last chunk is a row at the end.
LEMMA AppendedRow ==
  ASSUME NEW T, NEW cs \in Seq(T), NEW n, HaveRows(cs, n), NEW chunk \in T, NEW r,
         RowsIn(chunk, n) = Append(RowsIn(cs[Len(cs)], n), r),
         NEW new, DOMAIN new = DOMAIN cs,
         \A k \in DOMAIN cs : new[k] = IF k = Len(cs) THEN chunk ELSE cs[k]
  PROVE  AllRows(new, n) = Append(AllRows(cs, n), r)
<1> DEFINE f == [k \in DOMAIN cs |-> RowsIn(cs[k], n)]
           g == [k \in DOMAIN new |-> RowsIn(new[k], n)]
           S == RowsOf(cs, n, r)
<1>1. f \in Seq(Seq(S)) /\ Len(f) = Len(cs) /\ <<r>> \in Seq(S) /\ Len(cs) \in Nat \ {0}
  <2>1. r \in S
    BY DEF RowsOf
  <2>2. f \in Seq(Seq(S)) /\ Len(f) = Len(cs)
    BY RowsAreSequences
  <2> HIDE DEF S, f
  <2>3. <<r>> \in Seq(S)
    BY <2>1
  <2> QED
    BY <2>2, <2>3 DEF HaveRows
<1>2. DOMAIN new = DOMAIN cs /\ DOMAIN cs = 1 .. Len(cs) /\ Len(cs) \in DOMAIN cs
  BY <1>1
<1>3. f[Len(cs)] = RowsIn(cs[Len(cs)], n)
  BY <1>2
<1> HIDE DEF S
<1>4. f[Len(cs)] \in Seq(S) /\ f # <<>>
  <2> HIDE DEF f
  <2>1. Len(cs) \in 1 .. Len(f)
    BY <1>1
  <2> QED
    BY <1>1, <2>1, ElementOfSeq, EmptySeq
<1>5. Append(f[Len(cs)], r) = f[Len(cs)] \o <<r>>
  <2> HIDE DEF f
  <2> QED
    BY <1>1, <1>4, AppendIsConcat
<1>6. g = [f EXCEPT ![Len(cs)] = f[Len(cs)] \o <<r>>]
  <2>1. \A k \in DOMAIN cs : g[k] = IF k = Len(cs) THEN Append(f[Len(cs)], r) ELSE f[k]
    BY <1>2, <1>3
  <2>2. DOMAIN g = DOMAIN cs /\ DOMAIN f = DOMAIN cs
    BY <1>2
  <2>3. g = [k \in DOMAIN cs |-> g[k]]
    BY <1>2
  <2> HIDE DEF f, g
  <2> QED
    BY <1>5, <2>1, <2>2, <2>3
<1> HIDE DEF f, g
<1>7. FlattenSeq(g) = FlattenSeq(f) \o <<r>>
  BY <1>1, <1>4, <1>6, FlattenLast
<1>8. FlattenSeq(f) \in Seq(S)
  BY <1>1, FlattenAppend
<1>9. FlattenSeq(g) = Append(FlattenSeq(f), r)
  <2>1. r \in S
    BY DEF S, RowsOf
  <2> QED
    BY <1>7, <1>8, <2>1, AppendIsConcat
<1> QED
  BY <1>9 DEF AllRows, f, g

----------------------------------------------------------------------------
(* Even chunks: a column for every definition, in order, all of one size.    *)

IsEven(chunk, types) ==
  /\ Len(chunk) = Len(types)
  /\ \A j \in DOMAIN chunk :
       chunk[j].type = types[j] /\ ColumnSize(chunk[j]) = Size(chunk)

\* Any column of an even chunk gives its size.
LEMMA EvenSize ==
  ASSUME NEW limit, NEW chunk, ChunkOK(chunk, limit),
         NEW types, IsEven(chunk, types)
  PROVE  /\ Len(types) \in Nat /\ DOMAIN chunk = 1 .. Len(types) /\ Size(chunk) \in Nat
         /\ \A j \in 1 .. Len(types) :
              /\ chunk[j] \in Columns_T /\ chunk[j].type = types[j]
              /\ ColumnSize(chunk[j]) = Size(chunk)
<1>1. chunk \in Seq(Columns_T) /\ Len(chunk) = Len(types)
  BY DEF ChunkOK, IsEven
<1> QED
  BY <1>1, SizeBounds DEF IsEven

\* A chunk that keeps the cells, and has the size in its last column, keeps the
\* rows.
LEMMA KeptRows ==
  ASSUME NEW limit, NEW chunk, ChunkOK(chunk, limit), NEW types, IsEven(chunk, types),
         NEW new, KeepsCells(chunk, new),
         Len(types) # 0 => ColumnSize(new[Len(types)]) = Size(chunk)
  PROVE  RowsIn(new, Len(types)) = RowsIn(chunk, Len(types))
<1> DEFINE n == Len(types)
<1>1. CASE n = 0
  BY <1>1 DEF RowsIn
<1>2. CASE n # 0
  <2>1. /\ n \in DOMAIN chunk /\ n \in Nat /\ DOMAIN chunk = 1 .. n
        /\ ColumnSize(new[n]) = Size(chunk) /\ ColumnSize(chunk[n]) = Size(chunk)
        /\ \A j \in 1 .. n : ColumnSize(chunk[j]) = Size(chunk)
    BY <1>2, EvenSize
  <2> HIDE DEF n
  <2>2. ASSUME NEW row \in 1 .. Size(chunk)
        PROVE  RowOfChunk(new, n, row) = RowOfChunk(chunk, n, row)
    <3>1. \A j \in 1 .. n : Get(new[j], row) = Get(chunk[j], row)
      BY <2>1 DEF KeepsCells
    <3> QED
      BY <3>1 DEF RowOfChunk
  <2>3. /\ RowsIn(new, n) = [row \in 1 .. Size(chunk) |-> RowOfChunk(new, n, row)]
        /\ RowsIn(chunk, n) = [row \in 1 .. Size(chunk) |-> RowOfChunk(chunk, n, row)]
    BY <1>2, <2>1 DEF RowsIn
  <2> QED
    BY <2>2, <2>3 DEF n
<1> QED
  BY <1>1, <1>2

\* The row an append adds.
NewRow(types, row) == [j \in 1 .. Len(types) |-> TypeCast[<<types[j], row[j]>>]]

\* What an append to a value column leaves in it.
LEMMA AppendedColumn ==
  ASSUME NEW column \in Columns_T, NEW input, CanAppend(column, input)
  PROVE  LET new == ColumnAppend(column, input)
         IN  /\ ColumnSize(new) = ColumnSize(column) + 1
             /\ new.type = column.type
             /\ \A row \in 1 .. ColumnSize(column) : Get(new, row) = Get(column, row)
             /\ Get(new, ColumnSize(column) + 1) = TypeCast[<<column.type, input>>]
<1> DEFINE new == ColumnAppend(column, input)
           value == TypeCast[<<column.type, input>>]
<1>1. column \in ValueColumns /\ Castable(column, input) /\ column.kind = "value"
  BY Kinds DEF CanAppend
<1>2. /\ ColumnSize(new) = ColumnSize(column) + 1
      /\ \A row \in 1 .. ColumnSize(column) : Get(new, row) = Get(column, row)
  BY <1>1, AppendKeepsRows
<1>3. column.values \in Seq(Int) /\ value \in Int /\ ColumnSize(column) = Len(column.values)
  BY <1>1, TypeAssumption DEF ValueColumns, ColumnSize, Castable
<1>4. new = [column EXCEPT !.values = Append(column.values, value)]
  BY DEF ColumnAppend
<1> HIDE DEF value
<1>5. new.type = column.type /\ new.kind = "value" /\ new.values = Append(column.values, value)
  BY <1>1, <1>4 DEF ValueColumns
<1>6. Get(new, ColumnSize(column) + 1) = value
  <2>1. new.values[Len(column.values) + 1] = value
    BY <1>3, <1>5
  <2> QED
    BY <1>3, <1>5, <2>1 DEF Get
<1> QED
  BY <1>2, <1>5, <1>6 DEF value

\* A row that an even chunk takes: the chunk stays even, and the row comes last.
LEMMA TakenRow ==
  ASSUME NEW limit \in Nat, NEW chunk, ChunkOK(chunk, limit), NEW types, IsEven(chunk, types),
         NEW row, ChunkAppendResult(chunk, row) = "ok"
  PROVE  LET n == Len(types)
             new == ChunkAppend(chunk, row)
         IN  /\ Len(row) = n
             /\ \A j \in 1 .. n : <<types[j], row[j]>> \in DOMAIN TypeCast
             /\ IsEven(new, types)
             /\ n # 0 => RowsIn(new, n) = Append(RowsIn(chunk, n), NewRow(types, row))
<1> DEFINE n == Len(types)
           new == ChunkAppend(chunk, row)
           size == Size(chunk)
<1>1. /\ n \in Nat /\ DOMAIN chunk = 1 .. n /\ size \in Nat /\ Len(chunk) = n
      /\ \A j \in 1 .. n :
           chunk[j] \in Columns_T /\ chunk[j].type = types[j] /\ ColumnSize(chunk[j]) = size
  BY EvenSize DEF IsEven
<1>2. Len(row) = Len(chunk) /\ \A j \in DOMAIN chunk : CanAppend(chunk[j], row[j])
  BY DEF ChunkAppendResult
<1>3. new = [j \in 1 .. n |-> ColumnAppend(chunk[j], row[j])]
  <2>1. \A j \in 1 .. n : \A i \in 1 .. j : i \in 1 .. n
    BY <1>1
  <2>2. \A j \in 1 .. n : \A i \in 1 .. j : CanAppend(chunk[i], row[i])
    BY <1>1, <1>2, <2>1
  <2>3. new = [j \in 1 .. n |-> IF \A i \in 1 .. j : CanAppend(chunk[i], row[i])
                                THEN ColumnAppend(chunk[j], row[j]) ELSE chunk[j]]
    BY <1>1, <1>2 DEF ChunkAppend
  <2> QED
    BY <2>2, <2>3
<1>4. \A j \in 1 .. n : <<types[j], row[j]>> \in DOMAIN TypeCast
  BY <1>1, <1>2 DEF CanAppend, Castable
<1> HIDE DEF n, new, size
<1>5. ASSUME NEW j \in 1 .. n
      PROVE  /\ new[j].type = types[j] /\ ColumnSize(new[j]) = size + 1
             /\ \A r \in 1 .. size : Get(new[j], r) = Get(chunk[j], r)
             /\ Get(new[j], size + 1) = TypeCast[<<types[j], row[j]>>]
  <2>1. new[j] = ColumnAppend(chunk[j], row[j]) /\ CanAppend(chunk[j], row[j])
    BY <1>1, <1>2, <1>3
  <2> QED
    BY <1>1, <2>1, AppendedColumn
<1>6. Len(new) = n /\ DOMAIN new = 1 .. n
  BY <1>1, <1>3
<1>7. ASSUME n # 0 PROVE Size(new) = size + 1
  <2>1. 1 \in 1 .. n /\ new # <<>>
    BY <1>1, <1>6, <1>7
  <2> QED
    BY <1>5, <2>1 DEF Size
<1>8. IsEven(new, types)
  <2>1. \A j \in 1 .. n : n # 0
    BY <1>1
  <2> QED
    BY <1>5, <1>6, <1>7, <2>1 DEF IsEven, n
<1>9. ASSUME n # 0
      PROVE  RowsIn(new, n) = Append(RowsIn(chunk, n), NewRow(types, row))
  <2> DEFINE old == RowsIn(chunk, n)
             r == NewRow(types, row)
             S == {RowOfChunk(chunk, n, k) : k \in 1 .. size} \cup {r}
  <2>1. n \in 1 .. n
    BY <1>1, <1>9
  <2>2. old = [k \in 1 .. size |-> RowOfChunk(chunk, n, k)]
    BY <1>1, <1>9, <2>1 DEF RowsIn
  <2>3. RowsIn(new, n) = [k \in 1 .. size + 1 |-> RowOfChunk(new, n, k)]
    BY <1>5, <1>9, <2>1 DEF RowsIn
  <2>4. \A k \in 1 .. size : RowOfChunk(new, n, k) = RowOfChunk(chunk, n, k)
    <3> SUFFICES ASSUME NEW k \in 1 .. size
                 PROVE  RowOfChunk(new, n, k) = RowOfChunk(chunk, n, k)
      OBVIOUS
    <3>1. \A j \in 1 .. n : Get(new[j], k) = Get(chunk[j], k)
      BY <1>5
    <3> QED
      BY <3>1 DEF RowOfChunk
  <2>5. RowOfChunk(new, n, size + 1) = r
    <3>1. \A j \in 1 .. n : Get(new[j], size + 1) = TypeCast[<<types[j], row[j]>>]
      BY <1>5
    <3> QED
      BY <3>1 DEF RowOfChunk, NewRow, n
  <2> HIDE DEF r
  <2>6. old \in Seq(S) /\ Len(old) = size /\ r \in S
    <3>1. \A k \in 1 .. size : RowOfChunk(chunk, n, k) \in S
      OBVIOUS
    <3>2. r \in S
      OBVIOUS
    <3> HIDE DEF S, old
    <3> QED
      BY <1>1, <2>2, <3>1, <3>2
  <2> HIDE DEF old, S
  <2> DEFINE longer == Append(old, r)
  <2>7. /\ longer \in Seq(S) /\ Len(longer) = size + 1 /\ longer[size + 1] = r
        /\ \A k \in 1 .. size : longer[k] = old[k]
    BY <2>6, AppendProperties
  <2>8. longer \in [1 .. size + 1 -> S]
    BY <2>7, LenProperties
  <2> HIDE DEF longer
  <2>9. \A k \in 1 .. size + 1 : k = size + 1 \/ k \in 1 .. size
    BY <1>1
  <2>10. \A k \in 1 .. size + 1 : RowOfChunk(new, n, k) = longer[k]
    BY <2>2, <2>4, <2>5, <2>7, <2>9
  <2>11. RowsIn(new, n) = longer
    BY <2>3, <2>8, <2>10
  <2> QED
    BY <2>11 DEF longer, old, r
<1> QED
  BY <1>1, <1>2, <1>4, <1>8, <1>9 DEF n, new

\* A row that a chunk refuses leaves the rows it has: the values that were taken
\* do not reach its last column.
LEMMA RefusedRow ==
  ASSUME NEW limit \in Nat, NEW chunk, ChunkOK(chunk, limit), NEW types, IsEven(chunk, types),
         limit # 0 => Size(chunk) # limit,
         NEW row, ChunkAppendResult(chunk, row) # "ok"
  PROVE  RowsIn(ChunkAppend(chunk, row), Len(types)) = RowsIn(chunk, Len(types))
<1> DEFINE n == Len(types)
           new == ChunkAppend(chunk, row)
<1>1. KeepsCells(chunk, new)
  BY AppendedRowOK
<1>2. /\ n \in Nat /\ DOMAIN chunk = 1 .. n /\ Len(chunk) = n
      /\ \A j \in 1 .. n : ColumnSize(chunk[j]) = Size(chunk)
  BY EvenSize DEF IsEven
<1>3. ASSUME n # 0 PROVE ColumnSize(new[n]) = Size(chunk)
  <2>1. n \in 1 .. n
    BY <1>2, <1>3
  <2>2. CASE Len(row) # Len(chunk)
    BY <1>2, <2>1, <2>2 DEF ChunkAppend
  <2>3. CASE Len(row) = Len(chunk)
    <3>1. ~ \A j \in 1 .. n : CanAppend(chunk[j], row[j])
      <4> SUFFICES ASSUME \A j \in DOMAIN chunk : CanAppend(chunk[j], row[j]) PROVE FALSE
        BY <1>2
      <4>1. \A j \in DOMAIN chunk : chunk[j].kind # "dictionary"
        BY DEF CanAppend
      <4>2. ChunkAppendResult(chunk, row) = "ok"
        BY <2>3, <4>1 DEF ChunkAppendResult
      <4> QED
        BY <4>2
    <3>2. new[n] = IF \A j \in 1 .. n : CanAppend(chunk[j], row[j])
                   THEN ColumnAppend(chunk[n], row[n]) ELSE chunk[n]
      BY <1>2, <2>1, <2>3 DEF ChunkAppend
    <3> QED
      BY <1>2, <2>1, <3>1, <3>2
  <2> QED
    BY <2>2, <2>3
<1> HIDE DEF new
<1> QED
  BY <1>1, <1>3, KeptRows DEF new

\* A compressed chunk is as even as before and keeps its rows.
LEMMA CompressedEven ==
  ASSUME NEW limit \in Nat, NEW chunk, ChunkOK(chunk, limit), NEW types, IsEven(chunk, types),
         limit # 0, Size(chunk) = limit,
         \A j \in DOMAIN chunk : \E type : Compressible(chunk[j], type)
  PROVE  /\ IsEven(Compressed(chunk), types)
         /\ RowsIn(Compressed(chunk), Len(types)) = RowsIn(chunk, Len(types))
<1> DEFINE n == Len(types)
           new == Compressed(chunk)
<1>1. /\ n \in Nat /\ DOMAIN chunk = 1 .. n /\ Len(chunk) = n /\ Size(chunk) \in Nat
      /\ \A j \in 1 .. n : /\ chunk[j] \in Columns_T /\ chunk[j].type = types[j]
                           /\ ColumnSize(chunk[j]) = Size(chunk)
  BY EvenSize DEF IsEven
<1>2. KeepsCells(chunk, new)
  BY <1>1, CompressedOK
<1>3. new = [j \in 1 .. n |-> DictionaryColumn(chunk[j])]
  BY <1>1 DEF Compressed
<1> HIDE DEF new
<1>4. ASSUME NEW j \in 1 .. n
      PROVE  new[j].type = types[j] /\ ColumnSize(new[j]) = Size(chunk)
  <2>1. PICK type : Compressible(chunk[j], type)
    BY <1>1
  <2>2. chunk[j] \in ValueColumns
    BY <1>1, <2>1, Kinds DEF Compressible
  <2>3. ColumnSize(DictionaryColumn(chunk[j])) = ColumnSize(chunk[j])
    BY <2>1, <2>2, DecodeEncoded
  <2>4. DictionaryColumn(chunk[j]).type = chunk[j].type
    BY DEF DictionaryColumn
  <2> QED
    BY <1>1, <1>3, <2>3, <2>4
<1>5. Len(new) = n /\ DOMAIN new = 1 .. n
  BY <1>1, <1>3
<1>6. ASSUME n # 0 PROVE Size(new) = Size(chunk) /\ ColumnSize(new[n]) = Size(chunk)
  <2>1. 1 \in 1 .. n /\ new # <<>> /\ n \in 1 .. n
    BY <1>1, <1>5, <1>6
  <2> QED
    BY <1>4, <2>1 DEF Size
<1>7. IsEven(new, types)
  <2>1. \A j \in 1 .. n : n # 0
    BY <1>1
  <2> QED
    BY <1>4, <1>5, <1>6, <2>1 DEF IsEven
<1>8. RowsIn(new, n) = RowsIn(chunk, n)
  BY <1>2, <1>6, KeptRows
<1> QED
  BY <1>7, <1>8 DEF new

\* A chunk that has just been created is even and has no rows.
LEMMA NewChunkEven ==
  ASSUME TypeOK, SchemaIsKnown
  PROVE  /\ IsEven(NewChunk, column_types)
         /\ RowsIn(NewChunk, Len(column_types)) = <<>>
<1> DEFINE n == Len(column_types)
<1>1. /\ n \in Nat /\ column_types \in Seq(TypeStrings) /\ column_names \in Seq(Names)
      /\ DOMAIN column_names = 1 .. n
  BY DEF TypeOK
<1>2. NewChunk = [pos \in 1 .. n |-> ValueColumn(column_names[pos], column_types[pos])]
  BY <1>1 DEF NewChunk
<1>3. Size(NewChunk) = 0
  BY NewChunkIsEmpty
<1>4. Len(NewChunk) = n /\ DOMAIN NewChunk = 1 .. n
  BY <1>1, <1>2
<1>5. \A j \in 1 .. n : NewChunk[j].type = column_types[j] /\ ColumnSize(NewChunk[j]) = 0
  <2> SUFFICES ASSUME NEW j \in 1 .. n
               PROVE  NewChunk[j].type = column_types[j] /\ ColumnSize(NewChunk[j]) = 0
    OBVIOUS
  <2>1. NewChunk[j] = ValueColumn(column_names[j], column_types[j])
    BY <1>2
  <2> QED
    BY <2>1 DEF ValueColumn, ColumnSize
<1>6. IsEven(NewChunk, column_types)
  BY <1>3, <1>4, <1>5 DEF IsEven
<1>7. RowsIn(NewChunk, n) = <<>>
  <2>1. n # 0 => n \in 1 .. n
    BY <1>1
  <2> QED
    BY <1>5, <2>1 DEF RowsIn
<1> QED
  BY <1>6, <1>7

\* One more empty column keeps an even chunk without rows even, and without rows.
LEMMA WiderEven ==
  ASSUME NEW limit, NEW chunk, ChunkOK(chunk, limit), AcceptsColumn(chunk),
         NEW types \in Seq(TypeStrings), IsEven(chunk, types),
         NEW name \in Names, NEW type \in ColumnTypes
  PROVE  LET new == Append(chunk, ValueColumn(name, type))
         IN  /\ IsEven(new, Append(types, type))
             /\ RowsIn(chunk, Len(types)) = <<>>
             /\ RowsIn(new, Len(types) + 1) = <<>>
<1> DEFINE n == Len(types)
           column == ValueColumn(name, type)
           new == Append(chunk, column)
           longer == Append(types, type)
<1>1. /\ n \in Nat /\ DOMAIN chunk = 1 .. n /\ Len(chunk) = n
      /\ \A j \in 1 .. n : /\ chunk[j] \in Columns_T /\ chunk[j].type = types[j]
                           /\ ColumnSize(chunk[j]) = Size(chunk)
  BY EvenSize DEF IsEven
<1>2. column \in Columns_T /\ ColumnSize(column) = 0 /\ column.type = type
  BY NewColumnIsEmpty DEF Columns_T, ValueColumn
<1> HIDE DEF column
<1>3. Size(chunk) = 0
  BY DEF AcceptsColumn, Size
<1>4. /\ Len(new) = n + 1 /\ DOMAIN new = 1 .. n + 1 /\ new[n + 1] = column
      /\ \A j \in 1 .. n : new[j] = chunk[j]
  <2>1. chunk \in Seq(Columns_T)
    BY DEF ChunkOK
  <2>2. new \in Seq(Columns_T)
    BY <1>2, <2>1, AppendProperties
  <2> QED
    BY <1>1, <1>2, <2>1, <2>2, AppendProperties
<1>5. /\ Len(longer) = n + 1 /\ longer[n + 1] = type /\ \A j \in 1 .. n : longer[j] = types[j]
  BY TypeAssumption, AppendProperties
<1> HIDE DEF new, longer, n
<1>6. \A j \in 1 .. n + 1 : j = n + 1 \/ j \in 1 .. n
  BY <1>1
<1>7. \A j \in 1 .. n + 1 : ColumnSize(new[j]) = 0 /\ new[j].type = longer[j]
  BY <1>1, <1>2, <1>3, <1>4, <1>5, <1>6
<1>8. Size(new) = 0
  BY <1>1, <1>4, <1>7 DEF Size
<1>9. IsEven(new, longer)
  BY <1>4, <1>5, <1>7, <1>8 DEF IsEven
<1>10. RowsIn(chunk, n) = <<>>
  <2>1. n # 0 => n \in 1 .. n
    BY <1>1
  <2> QED
    BY <1>1, <1>3, <2>1 DEF RowsIn
<1>11. RowsIn(new, n + 1) = <<>>
  <2>1. n + 1 \in 1 .. n + 1 /\ n + 1 # 0
    BY <1>1
  <2> QED
    BY <1>7, <2>1 DEF RowsIn
<1> QED
  BY <1>9, <1>10, <1>11 DEF n, new, longer, column

----------------------------------------------------------------------------
(* A table whose calls have all returned.                                   *)

\* Every definition has its column, in every chunk, and no chunk is ragged.
EvenInv ==
  result = "ok" =>
    /\ SchemaIsKnown
    /\ \A pos \in DOMAIN column_names : is_instantiated[pos]
    /\ \A k \in DOMAIN chunks : IsEven(chunks[k], column_types)

\* The rows of the row store, once it is known which columns count.
StoredAsRows ==
  \A n \in Nat : Added = 1 .. n =>
    /\ TableRows = AllRows(chunks, n)
    /\ AddedColumns = [pos \in 1 .. n |-> [name |-> column_names[pos], type |-> column_types[pos]]]

\* A row store that has read columns 1 .. n holds the rows of the chunks, cut to them.
LEMMA StoredRows == StoredAsRows
<1> SUFFICES ASSUME NEW n \in Nat, Added = 1 .. n
             PROVE  /\ TableRows = AllRows(chunks, n)
                    /\ AddedColumns = [pos \in 1 .. n |->
                                         [name |-> column_names[pos], type |-> column_types[pos]]]
  BY DEF StoredAsRows
<1>1. Cardinality(Added) = n
  BY PositionsCount
<1>2. Added = {} <=> n = 0
  <2>1. n # 0 => 1 \in 1 .. n
    OBVIOUS
  <2> QED
    BY <2>1
<1>3. \A chunk : ChunkRows(chunk) = RowsIn(chunk, n)
  BY <1>1, <1>2 DEF ChunkRows, RowsIn, RowOfChunk
<1> QED
  BY <1>3 DEF TableRows, AllRows, AddedColumns

\* The same after a step.
LEMMA StoredRowsAfter == StoredAsRows'
BY StoredRows, PTL

\* While all calls return, the columns that count are all there are.
LEMMA AllAdded ==
  TypeOK /\ EvenInv /\ result = "ok" =>
    Len(column_types) \in Nat /\ Added = 1 .. Len(column_types)
<1> SUFFICES ASSUME TypeOK, EvenInv, result = "ok"
             PROVE  Len(column_types) \in Nat /\ Added = 1 .. Len(column_types)
  OBVIOUS
<1>1. Len(column_types) \in Nat /\ DOMAIN column_names = 1 .. Len(column_types)
  BY DEF TypeOK
<1>2. \A pos \in DOMAIN column_names : is_instantiated[pos]
  BY DEF EvenInv
<1> QED
  BY <1>1, <1>2 DEF Added

\* Even chunks have rows to speak of.
LEMMA EvenHaveRows ==
  ASSUME NEW limit, NEW cs, ChunksOK(cs, limit), NEW types,
         \A k \in DOMAIN cs : IsEven(cs[k], types)
  PROVE  HaveRows(cs, Len(types))
<1>1. Len(cs) \in Nat \ {0} /\ DOMAIN cs = 1 .. Len(cs)
  BY EmptySeq, LenProperties DEF ChunksOK
<1>2. ASSUME NEW k \in DOMAIN cs
      PROVE  /\ Len(types) \in Nat
             /\ Len(types) # 0 => ColumnSize(cs[k][Len(types)]) \in Nat
  <2>1. ChunkOK(cs[k], limit) /\ IsEven(cs[k], types)
    BY DEF ChunksOK
  <2>2. /\ Len(types) \in Nat /\ Size(cs[k]) \in Nat
        /\ \A j \in 1 .. Len(types) : ColumnSize(cs[k][j]) = Size(cs[k])
    BY <2>1, EvenSize
  <2> QED
    BY <2>2
<1>3. 1 \in DOMAIN cs
  BY <1>1
<1> QED
  BY <1>1, <1>2, <1>3 DEF HaveRows

\* What a call does to the row store when the schema stays.
LEMMA SchemaStays ==
  ASSUME TypeOK, EvenInv, result = "ok", UNCHANGED schema
  PROVE  /\ TableRows = AllRows(chunks, Len(column_types))
         /\ TableRows' = AllRows(chunks', Len(column_types))
         /\ AddedColumns' = AddedColumns
<1> DEFINE n == Len(column_types)
<1>1. n \in Nat /\ Added = 1 .. n
  BY AllAdded
<1>2. Added' = 1 .. n
  BY <1>1 DEF schema, Added
<1>3. /\ TableRows' = AllRows(chunks', n)
      /\ AddedColumns' = [pos \in 1 .. n |->
                            [name |-> column_names'[pos], type |-> column_types'[pos]]]
  BY <1>1, <1>2, StoredRowsAfter DEF StoredAsRows
<1>4. /\ TableRows = AllRows(chunks, n)
      /\ AddedColumns = [pos \in 1 .. n |->
                            [name |-> column_names[pos], type |-> column_types[pos]]]
  BY <1>1, StoredRows DEF StoredAsRows
<1> QED
  BY <1>3, <1>4 DEF schema

----------------------------------------------------------------------------
(* What each call does to the row store.                                    *)

\* Table::append adds the row it takes, after a new chunk if it needs one, and
\* nothing of the row it refuses.
LEMMA TableAppendRows ==
  ASSUME Inv, EvenInv, result = "ok", NEW row, TableAppend(row)
  PROVE  LET n == Len(column_types)
         IN  /\ EvenInv' /\ AddedColumns' = AddedColumns
             /\ result' # "ok" => TableRows' = TableRows
             /\ result' = "ok" =>
                  /\ Len(row) = n
                  /\ \A j \in 1 .. n : <<column_types[j], row[j]>> \in DOMAIN TypeCast
                  /\ n = 0 => TableRows' = TableRows
                  /\ n # 0 => TableRows' = Append(TableRows, NewRow(column_types, row))
<1> DEFINE n == Len(column_types)
           grown == IF IsLastChunkFull THEN Append(chunks, NewChunk) ELSE chunks
           m == Len(grown)
           target == grown[m]
           new == ChunkAppend(target, row)
<1>1. /\ TypeOK /\ chunk_size \in Nat /\ ChunksOK(chunks, chunk_size) /\ SchemaIsKnown
      /\ \A k \in DOMAIN chunks : IsEven(chunks[k], column_types)
      /\ ChunkOK(NewChunk, chunk_size)
  BY TableAssumption, NewChunkOK DEF Inv, TypeOK, EvenInv
<1>2. /\ chunks' = [grown EXCEPT ![m] = new] /\ result' = ChunkAppendResult(target, row)
      /\ UNCHANGED schema
  BY <1>1 DEF TableAppend
<1>3. /\ TableRows = AllRows(chunks, n)
      /\ TableRows' = AllRows(chunks', n)
      /\ AddedColumns' = AddedColumns
  BY <1>1, <1>2, SchemaStays
<1>4. HaveRows(chunks, n) /\ chunks \in Seq(Seq(Columns_T)) /\ NewChunk \in Seq(Columns_T)
  BY <1>1, EvenHaveRows DEF ChunksOK, ChunkOK
<1>5. /\ ChunksOK(grown, chunk_size)
      /\ \A k \in DOMAIN grown : IsEven(grown[k], column_types)
      /\ AllRows(grown, n) = AllRows(chunks, n)
      /\ chunk_size # 0 => Size(target) # chunk_size
  <2>1. CASE IsLastChunkFull
    <3>1. grown = Append(chunks, NewChunk)
      BY <2>1
    <3>2. ChunksOK(grown, chunk_size)
      BY <1>1, <3>1, GrownOK
    <3>3. IsEven(NewChunk, column_types) /\ RowsIn(NewChunk, n) = <<>> /\ Size(NewChunk) = 0
      BY <1>1, NewChunkEven, NewChunkIsEmpty
    <3>4. /\ Len(grown) = Len(chunks) + 1 /\ grown[Len(chunks) + 1] = NewChunk
          /\ \A k \in 1 .. Len(chunks) : grown[k] = chunks[k]
          /\ Len(chunks) \in Nat /\ DOMAIN chunks = 1 .. Len(chunks)
          /\ DOMAIN grown = 1 .. Len(chunks) + 1
      BY <1>4, <3>1
    <3>5. \A k \in DOMAIN grown : IsEven(grown[k], column_types)
      <4>1. \A k \in 1 .. Len(chunks) + 1 : k = Len(chunks) + 1 \/ k \in 1 .. Len(chunks)
        BY <3>4
      <4> QED
        BY <1>1, <3>3, <3>4, <4>1
    <3>6. AllRows(grown, n) = AllRows(chunks, n)
      BY <1>4, <3>1, <3>3, GrownRows
    <3> QED
      BY <3>2, <3>3, <3>4, <3>5, <3>6
  <2>2. CASE ~IsLastChunkFull
    BY <1>1, <2>2 DEF IsLastChunkFull, LastChunk
  <2> QED
    BY <2>1, <2>2
<1>6. HaveRows(grown, n) /\ grown \in Seq(Seq(Columns_T))
  BY <1>5, EvenHaveRows DEF ChunksOK
<1> HIDE DEF grown
<1>7. m \in Nat \ {0} /\ DOMAIN grown = 1 .. m /\ m \in DOMAIN grown
  BY <1>6 DEF HaveRows
<1>8. ChunkOK(target, chunk_size) /\ IsEven(target, column_types)
  BY <1>5, <1>7 DEF ChunksOK
<1> HIDE DEF target
<1>9. ChunkOK(new, chunk_size)
  BY <1>1, <1>5, <1>8, AppendedRowOK
<1>10. new \in Seq(Columns_T) /\ target = grown[m]
  BY <1>9 DEF ChunkOK, target
<1> HIDE DEF new, m
<1>11. /\ DOMAIN chunks' = DOMAIN grown /\ chunks'[m] = new
       /\ \A k \in DOMAIN grown : k # m => chunks'[k] = grown[k]
  BY <1>2, <1>6, <1>7
<1>12. ASSUME result' # "ok"
       PROVE  EvenInv' /\ AllRows(chunks', n) = AllRows(chunks, n)
  <2>1. RowsIn(new, n) = RowsIn(target, n)
    BY <1>1, <1>2, <1>5, <1>8, <1>12, RefusedRow DEF new
  <2>2. \A k \in DOMAIN grown : RowsIn(chunks'[k], n) = RowsIn(grown[k], n)
    BY <1>10, <1>11, <2>1
  <2>3. AllRows(chunks', n) = AllRows(grown, n)
    BY <1>11, <2>2, SameRows
  <2> QED
    BY <1>5, <1>12, <2>3 DEF EvenInv
<1>13. ASSUME result' = "ok"
       PROVE  /\ EvenInv' /\ Len(row) = n
              /\ \A j \in 1 .. n : <<column_types[j], row[j]>> \in DOMAIN TypeCast
              /\ n = 0 => AllRows(chunks', n) = AllRows(chunks, n)
              /\ n # 0 => AllRows(chunks', n)
                            = Append(AllRows(chunks, n), NewRow(column_types, row))
  <2>1. /\ Len(row) = n
        /\ \A j \in 1 .. n : <<column_types[j], row[j]>> \in DOMAIN TypeCast
        /\ IsEven(new, column_types)
        /\ n # 0 => RowsIn(new, n) = Append(RowsIn(target, n), NewRow(column_types, row))
    BY <1>1, <1>2, <1>8, <1>13, TakenRow DEF new
  <2>2. EvenInv'
    <3>1. \A k \in DOMAIN chunks' : IsEven(chunks'[k], column_types)
      BY <1>5, <1>11, <2>1
    <3>2. /\ SchemaIsKnown' /\ \A pos \in DOMAIN column_names' : is_instantiated'[pos]
      BY <1>1, <1>2 DEF EvenInv, SchemaIsKnown, schema
    <3> QED
      BY <1>2, <3>1, <3>2 DEF EvenInv, schema
  <2>3. ASSUME n = 0 PROVE AllRows(chunks', n) = AllRows(chunks, n)
    <3>1. \A k \in DOMAIN grown : RowsIn(chunks'[k], n) = RowsIn(grown[k], n)
      BY <2>3 DEF RowsIn
    <3> QED
      BY <1>5, <1>11, <3>1, SameRows
  <2>4. ASSUME n # 0
        PROVE  AllRows(chunks', n) = Append(AllRows(chunks, n), NewRow(column_types, row))
    <3> DEFINE r == NewRow(column_types, row)
               T == Seq(Columns_T)
    <3>1. /\ RowsIn(new, n) = Append(RowsIn(grown[Len(grown)], n), r)
          /\ grown \in Seq(T) /\ new \in T /\ HaveRows(grown, n)
      BY <1>6, <1>10, <2>1, <2>4 DEF m
    <3> HIDE DEF n, r, T
    <3>2. /\ DOMAIN chunks' = DOMAIN grown
          /\ \A k \in DOMAIN grown : chunks'[k] = IF k = Len(grown) THEN new ELSE grown[k]
      BY <1>7, <1>11 DEF m
    <3>3. AllRows(chunks', n) = Append(AllRows(grown, n), r)
      BY <3>1, <3>2, AppendedRow
    <3> QED
      BY <1>5, <3>3 DEF r
  <2> QED
    BY <2>1, <2>2, <2>3, <2>4
<1> QED
  BY <1>3, <1>12, <1>13

\* create_new_chunk adds no rows.
LEMMA CreateNewChunkRows ==
  ASSUME Inv, EvenInv, result = "ok", CreateNewChunk
  PROVE  EvenInv' /\ TableRows' = TableRows /\ AddedColumns' = AddedColumns
<1> DEFINE n == Len(column_types)
<1>1. /\ TypeOK /\ ChunksOK(chunks, chunk_size) /\ SchemaIsKnown /\ UNCHANGED schema
      /\ \A pos \in DOMAIN column_names : is_instantiated[pos]
      /\ \A k \in DOMAIN chunks : IsEven(chunks[k], column_types)
      /\ chunks' = Append(chunks, NewChunk)
  BY DEF Inv, EvenInv, CreateNewChunk
<1>2. /\ TableRows = AllRows(chunks, n) /\ TableRows' = AllRows(chunks', n)
      /\ AddedColumns' = AddedColumns
  BY <1>1, SchemaStays
<1>3. /\ chunks \in Seq(Seq(Columns_T)) /\ NewChunk \in Seq(Columns_T) /\ HaveRows(chunks, n)
      /\ IsEven(NewChunk, column_types) /\ RowsIn(NewChunk, n) = <<>>
  BY <1>1, NewChunkOK, NewChunkEven, EvenHaveRows DEF ChunksOK, ChunkOK
<1>4. TableRows' = TableRows
  BY <1>1, <1>2, <1>3, GrownRows
<1>5. \A k \in DOMAIN chunks' : IsEven(chunks'[k], column_types)
  <2>1. /\ chunks'[Len(chunks) + 1] = NewChunk
        /\ \A k \in 1 .. Len(chunks) : chunks'[k] = chunks[k] /\ k \in DOMAIN chunks
        /\ DOMAIN chunks' = 1 .. Len(chunks) + 1 /\ Len(chunks) \in Nat
    BY <1>1, <1>3
  <2>2. \A k \in 1 .. Len(chunks) + 1 : k = Len(chunks) + 1 \/ k \in 1 .. Len(chunks)
    BY <2>1
  <2> QED
    BY <1>1, <1>3, <2>1, <2>2
<1>6. EvenInv'
  BY <1>1, <1>5 DEF EvenInv, SchemaIsKnown, schema
<1> QED
  BY <1>2, <1>4, <1>6

\* compress_chunk changes no row.
LEMMA CompressChunkRows ==
  ASSUME Inv, EvenInv, result = "ok", NEW k \in 1 .. Len(chunks) + 1, CompressChunk(k)
  PROVE  EvenInv' /\ TableRows' = TableRows /\ AddedColumns' = AddedColumns
<1> DEFINE n == Len(column_types)
<1>1. /\ TypeOK /\ ChunksOK(chunks, chunk_size) /\ SchemaIsKnown /\ UNCHANGED schema
      /\ \A pos \in DOMAIN column_names : is_instantiated[pos]
      /\ \A l \in DOMAIN chunks : IsEven(chunks[l], column_types)
      /\ chunk_size \in Nat
  BY TableAssumption DEF Inv, EvenInv, CompressChunk, TypeOK
<1>2. /\ TableRows = AllRows(chunks, n) /\ TableRows' = AllRows(chunks', n)
      /\ AddedColumns' = AddedColumns
  BY <1>1, SchemaStays
<1>3. CASE ~(k \in DOMAIN chunks /\ MayCompress(chunks[k]))
  <2>1. chunks' = chunks
    BY <1>3 DEF CompressChunk
  <2> QED
    BY <1>1, <1>2, <2>1 DEF EvenInv, SchemaIsKnown, schema
<1>4. CASE k \in DOMAIN chunks /\ MayCompress(chunks[k])
  <2>1. /\ DOMAIN chunks' = DOMAIN chunks /\ chunks'[k] = Compressed(chunks[k])
        /\ \A l \in DOMAIN chunks : l # k => chunks'[l] = chunks[l]
    BY <1>1, <1>4 DEF CompressChunk, ChunksOK
  <2>2. /\ ChunkOK(chunks[k], chunk_size) /\ chunk_size # 0 /\ Size(chunks[k]) = chunk_size
        /\ \A j \in DOMAIN chunks[k] : \E type : Compressible(chunks[k][j], type)
    BY <1>1, <1>4 DEF ChunksOK, MayCompress, IsEncodable
  <2>3. /\ IsEven(Compressed(chunks[k]), column_types)
        /\ RowsIn(Compressed(chunks[k]), n) = RowsIn(chunks[k], n)
    BY <1>1, <1>4, <2>2, CompressedEven
  <2>4. \A l \in DOMAIN chunks' : IsEven(chunks'[l], column_types)
    BY <1>1, <2>1, <2>3
  <2>5. \A l \in DOMAIN chunks : RowsIn(chunks'[l], n) = RowsIn(chunks[l], n)
    BY <2>1, <2>3
  <2>6. TableRows' = TableRows
    BY <1>2, <2>1, <2>5, SameRows
  <2>7. EvenInv'
    BY <1>1, <2>4 DEF EvenInv, SchemaIsKnown, schema
  <2> QED
    BY <1>2, <2>6, <2>7
<1> QED
  BY <1>3, <1>4

\* add_column returns for a new name and a known type while there are no rows, and
\* leaves the row store alone when it throws, wherever its loop stopped.
LEMMA AddColumnRows ==
  ASSUME Inv, EvenInv, result = "ok", NEW name \in Names, NEW type \in TypeStrings,
         AddColumn(name, type)
  PROVE  /\ EvenInv'
         /\ result' # "ok" => TableRows' = TableRows /\ AddedColumns' = AddedColumns
         /\ result' = "ok" =>
              /\ ~HasDefinition(name) /\ type \in ColumnTypes
              /\ column_names' = Append(column_names, name)
              /\ column_types' = Append(column_types, type)
              /\ TableRows = <<>> /\ TableRows' = <<>>
              /\ AddedColumns' = Append(AddedColumns, [name |-> name, type |-> type])
<1> DEFINE n == Len(column_types)
           done == type \in ColumnTypes /\ \A k \in DOMAIN chunks : AcceptsColumn(chunks[k])
<1>1. /\ TypeOK /\ ChunksOK(chunks, chunk_size) /\ SchemaIsKnown /\ chunk_size \in Nat
      /\ \A pos \in DOMAIN column_names : is_instantiated[pos]
      /\ \A k \in DOMAIN chunks : IsEven(chunks[k], column_types) /\ ChunkOK(chunks[k], chunk_size)
  BY TableAssumption DEF Inv, EvenInv, TypeOK, ChunksOK
<1>2. /\ n \in Nat /\ Added = 1 .. n /\ DOMAIN column_names = 1 .. n /\ HaveRows(chunks, n)
      /\ DOMAIN column_types = 1 .. n /\ DOMAIN is_instantiated = 1 .. n
      /\ Len(column_names) = n /\ Len(is_instantiated) = n
      /\ column_types \in Seq(TypeStrings) /\ column_names \in Seq(Names)
      /\ is_instantiated \in Seq(BOOLEAN)
  BY <1>1, AllAdded, EvenHaveRows DEF TypeOK
<1>3. /\ TableRows = AllRows(chunks, n)
      /\ AddedColumns = [pos \in 1 .. n |-> [name |-> column_names[pos], type |-> column_types[pos]]]
  BY <1>2, StoredRows DEF StoredAsRows
<1>4. CASE HasDefinition(name)
  <2>1. ~MayInstantiate(name, type)
    <3>1. \E pos \in DOMAIN column_names : column_names[pos] = name
      BY <1>4 DEF HasDefinition, Range
    <3>2. Position(name) \in DOMAIN column_names
      BY <3>1 DEF Position
    <3> QED
      BY <1>1, <1>4, <3>2 DEF MayInstantiate
  <2>2. result' = "rejected" /\ UNCHANGED schema /\ chunks' = chunks
    BY <2>1 DEF AddColumn, Reject
  <2>3. TableRows' = AllRows(chunks', n) /\ AddedColumns' = AddedColumns
    BY <1>1, <2>2, SchemaStays
  <2> QED
    BY <1>3, <2>2, <2>3 DEF EvenInv
<1>5. CASE ~HasDefinition(name)
  <2>1. /\ column_names' = Append(column_names, name)
        /\ column_types' = Append(column_types, type)
        /\ is_instantiated' = Append(is_instantiated, done)
        /\ chunks' = IF type \in ColumnTypes THEN ChunksWithColumn(name, type) ELSE chunks
        /\ result' = IF done THEN "ok" ELSE "rejected"
    <3>1. MayInstantiate(name, type)
      BY <1>5 DEF MayInstantiate
    <3> QED
      BY <1>5, <3>1 DEF AddColumn, Define, Instantiated
  <2>2. /\ DOMAIN column_names' = 1 .. n + 1 /\ DOMAIN column_types' = 1 .. n + 1
        /\ Len(column_types') = n + 1
        /\ column_names'[n + 1] = name /\ column_types'[n + 1] = type
        /\ \A pos \in 1 .. n : /\ column_names'[pos] = column_names[pos]
                               /\ column_types'[pos] = column_types[pos]
                               /\ is_instantiated'[pos] = is_instantiated[pos]
        /\ is_instantiated'[n + 1] = done
    <3> HIDE DEF done
    <3>1. done \in BOOLEAN
      BY DEF done
    <3> QED
      BY <1>2, <2>1, <3>1, AppendProperties, LenProperties
  <2>3. \A pos \in 1 .. n + 1 : pos = n + 1 \/ pos \in 1 .. n
    BY <1>2
  <2>4. CASE ~done
    <3>1. Added' = 1 .. n
      <4>1. Added' = {pos \in 1 .. n + 1 : is_instantiated'[pos]}
        BY <2>2 DEF Added
      <4>2. \A pos \in 1 .. n : is_instantiated'[pos] /\ pos \in 1 .. n + 1
        BY <1>1, <1>2, <2>2
      <4>3. ~is_instantiated'[n + 1]
        BY <2>2, <2>4
      <4> QED
        BY <2>3, <4>1, <4>2, <4>3
    <3>2. TableRows' = AllRows(chunks', n) /\ AddedColumns' = AddedColumns
      <4>1. AddedColumns' = [pos \in 1 .. n |->
                               [name |-> column_names'[pos], type |-> column_types'[pos]]]
            /\ TableRows' = AllRows(chunks', n)
        BY <1>2, <3>1, StoredRowsAfter DEF StoredAsRows
      <4> QED
        BY <1>3, <2>2, <4>1
    <3>3. /\ DOMAIN chunks' = DOMAIN chunks
          /\ \A k \in DOMAIN chunks : RowsIn(chunks'[k], n) = RowsIn(chunks[k], n)
      <4>1. CASE type \notin ColumnTypes
        BY <2>1, <4>1
      <4>2. CASE type \in ColumnTypes
        <5>1. /\ DOMAIN chunks' = DOMAIN chunks
              /\ \A k \in DOMAIN chunks :
                   chunks'[k] = IF \A i \in 1 .. k : AcceptsColumn(chunks[i])
                                THEN Append(chunks[k], ValueColumn(name, type)) ELSE chunks[k]
          BY <2>1, <4>2 DEF ChunksWithColumn
        <5>2. ASSUME NEW k \in DOMAIN chunks PROVE RowsIn(chunks'[k], n) = RowsIn(chunks[k], n)
          <6>1. CASE ~ \A i \in 1 .. k : AcceptsColumn(chunks[i])
            BY <5>1, <6>1
          <6>2. CASE \A i \in 1 .. k : AcceptsColumn(chunks[i])
            <7>1. /\ ChunkOK(chunks[k], chunk_size) /\ AcceptsColumn(chunks[k])
                  /\ IsEven(chunks[k], column_types)
              <8>1. k \in 1 .. k
                BY <1>2 DEF HaveRows
              <8> QED
                BY <1>1, <6>2, <8>1
            <7>2. KeepsCells(chunks[k], Append(chunks[k], ValueColumn(name, type)))
              BY <1>1, <4>2, <7>1, AddedColumnOK
            <7>3. n # 0 => Append(chunks[k], ValueColumn(name, type))[n] = chunks[k][n]
              <8>1. chunks[k] \in Seq(Columns_T) /\ Len(chunks[k]) = n
                BY <7>1 DEF ChunkOK, IsEven
              <8>2. ValueColumn(name, type) \in Columns_T
                BY <4>2, NewColumnIsEmpty DEF Columns_T
              <8>3. n # 0 => n \in 1 .. Len(chunks[k])
                BY <1>2, <8>1
              <8> HIDE DEF n
              <8> QED
                BY <8>1, <8>2, <8>3, AppendProperties
            <7>4. n # 0 => ColumnSize(chunks[k][n]) = Size(chunks[k])
              <8>1. n # 0 => n \in 1 .. n
                BY <1>2
              <8> QED
                BY <7>1, <8>1, EvenSize
            <7> DEFINE wider == Append(chunks[k], ValueColumn(name, type))
            <7>5. chunks'[k] = wider
              BY <5>1, <6>2
            <7>6. n # 0 => ColumnSize(wider[n]) = Size(chunks[k])
              BY <7>3, <7>4
            <7>7. KeepsCells(chunks[k], wider)
              BY <7>2
            <7> HIDE DEF wider
            <7> QED
              BY <7>1, <7>5, <7>6, <7>7, KeptRows
          <6> QED
            BY <6>1, <6>2
        <5> QED
          BY <5>1, <5>2
      <4> QED
        BY <4>1, <4>2
    <3>4. result' = "rejected"
      BY <2>1, <2>4
    <3> QED
      BY <1>3, <3>2, <3>3, <3>4, SameRows DEF EvenInv
  <2>5. CASE done
    <3>1. /\ result' = "ok" /\ type \in ColumnTypes
          /\ \A k \in DOMAIN chunks : AcceptsColumn(chunks[k])
          /\ chunks' = ChunksWithColumn(name, type)
      BY <2>1, <2>5
    <3>2. /\ DOMAIN chunks' = DOMAIN chunks
          /\ \A k \in DOMAIN chunks : chunks'[k] = Append(chunks[k], ValueColumn(name, type))
      <4>1. \A k \in DOMAIN chunks : \A i \in 1 .. k : i \in DOMAIN chunks
        BY <1>2 DEF HaveRows
      <4> QED
        BY <3>1, <4>1 DEF ChunksWithColumn
    <3>3. ASSUME NEW k \in DOMAIN chunks
          PROVE  /\ IsEven(chunks'[k], column_types')
                 /\ RowsIn(chunks[k], n) = <<>>
                 /\ RowsIn(chunks'[k], n + 1) = <<>>
      <4> DEFINE wider == Append(chunks[k], ValueColumn(name, type))
      <4>1. /\ ChunkOK(chunks[k], chunk_size) /\ AcceptsColumn(chunks[k])
            /\ IsEven(chunks[k], column_types)
        BY <1>1, <3>1
      <4>2. /\ IsEven(wider, Append(column_types, type))
            /\ RowsIn(chunks[k], n) = <<>>
            /\ RowsIn(wider, n + 1) = <<>>
        BY <1>2, <3>1, <4>1, WiderEven
      <4>3. chunks'[k] = wider
        BY <3>2
      <4> QED
        BY <2>1, <4>2, <4>3
    <3>4. TableRows = <<>>
      BY <1>2, <1>3, <3>3, NoRows
    <3>5. Added' = 1 .. n + 1
      <4>1. Added' = {pos \in 1 .. n + 1 : is_instantiated'[pos]}
        BY <2>2 DEF Added
      <4>2. \A pos \in 1 .. n + 1 : is_instantiated'[pos]
        BY <1>1, <1>2, <2>2, <2>3, <2>5
      <4> QED
        BY <4>1, <4>2
    <3>6. /\ TableRows' = AllRows(chunks', n + 1)
          /\ AddedColumns' = [pos \in 1 .. n + 1 |->
                                [name |-> column_names'[pos], type |-> column_types'[pos]]]
      BY <1>2, <3>5, StoredRowsAfter DEF StoredAsRows
    <3>7. TableRows' = <<>>
      <4>1. ChunksOK(chunks', chunk_size)
        BY <3>1, AddColumnStep DEF ChunksStep
      <4>2. HaveRows(chunks', n + 1)
        BY <2>2, <3>2, <3>3, <4>1, EvenHaveRows
      <4> QED
        BY <3>2, <3>3, <3>6, <4>2, NoRows
    <3>8. AddedColumns' = Append(AddedColumns, [name |-> name, type |-> type])
      <4> DEFINE def(pos) == [name |-> column_names[pos], type |-> column_types[pos]]
                 last == [name |-> name, type |-> type]
                 S == [name : Names, type : TypeStrings]
                 old == AddedColumns
                 longer == Append(old, last)
      <4>1. old \in Seq(S) /\ Len(old) = n /\ last \in S
        <5>1. \A pos \in 1 .. n : def(pos) \in S
          BY <1>2
        <5> HIDE DEF S
        <5>2. old \in [1 .. n -> S]
          BY <1>3, <5>1
        <5>3. last \in S
          BY DEF S
        <5> HIDE DEF old, n, last
        <5> QED
          BY <1>2, <5>2, <5>3
      <4> HIDE DEF S, old
      <4>2. /\ longer \in Seq(S) /\ Len(longer) = n + 1 /\ longer[n + 1] = last
            /\ \A pos \in 1 .. n : longer[pos] = old[pos]
        BY <4>1, AppendProperties
      <4>3. longer \in [1 .. n + 1 -> S]
        BY <4>2, LenProperties
      <4>4. \A pos \in 1 .. n : old[pos] = def(pos)
        BY <1>3 DEF old
      <4> HIDE DEF longer
      <4>5. \A pos \in 1 .. n + 1 :
              [name |-> column_names'[pos], type |-> column_types'[pos]] = longer[pos]
        BY <2>2, <2>3, <4>2, <4>4
      <4>6. AddedColumns' = longer
        BY <3>6, <4>3, <4>5
      <4> QED
        BY <4>6 DEF longer, old
    <3>9. EvenInv'
      <4>1. Range(column_types') \subseteq ColumnTypes
        <5>1. \A pos \in 1 .. n + 1 : column_types'[pos] \in ColumnTypes
          BY <1>1, <1>2, <2>2, <2>3, <3>1 DEF SchemaIsKnown, Range
        <5> QED
          BY <2>2, <5>1 DEF Range
      <4>2. \A pos \in DOMAIN column_names' : is_instantiated'[pos]
        BY <1>1, <1>2, <2>2, <2>3, <2>5
      <4>3. \A k \in DOMAIN chunks' : IsEven(chunks'[k], column_types')
        BY <3>2, <3>3
      <4> QED
        BY <4>1, <4>2, <4>3 DEF EvenInv, SchemaIsKnown
    <3> QED
      BY <1>5, <2>1, <3>1, <3>4, <3>7, <3>8, <3>9
  <2> QED
    BY <2>4, <2>5
<1> QED
  BY <1>4, <1>5

----------------------------------------------------------------------------
(* The program that stops at the first exception.                           *)

\* A new table is in order and stands for an empty row store.
LEMMA NewTable ==
  Init => Inv /\ EvenInv /\ AddedColumns = <<>> /\ TableRows = <<>>
<1> SUFFICES ASSUME Init PROVE Inv /\ EvenInv /\ AddedColumns = <<>> /\ TableRows = <<>>
  OBVIOUS
<1>1. /\ column_names = <<>> /\ column_types = <<>> /\ chunks = << <<>> >> /\ Inv
  BY InitInv DEF Init
<1>2. \A k \in DOMAIN chunks : IsEven(chunks[k], column_types) /\ RowsIn(chunks[k], 0) = <<>>
  BY <1>1 DEF IsEven, RowsIn
<1>3. EvenInv
  <2>1. SchemaIsKnown /\ DOMAIN column_names = {}
    BY <1>1 DEF SchemaIsKnown, Range
  <2> QED
    BY <1>2, <2>1 DEF EvenInv
<1>4. Added = 1 .. 0
  BY <1>1 DEF Added
<1>5. TableRows = AllRows(chunks, 0) /\ AddedColumns = <<>>
  <2>1. 0 \in Nat
    OBVIOUS
  <2>2. AddedColumns = [pos \in 1 .. 0 |-> [name |-> column_names[pos], type |-> column_types[pos]]]
        /\ TableRows = AllRows(chunks, 0)
    BY <1>4, <2>1, StoredRows DEF StoredAsRows
  <2> QED
    BY <2>2
<1>6. HaveRows(chunks, 0)
  BY <1>1 DEF HaveRows
<1>7. AllRows(chunks, 0) = <<>>
  BY <1>2, <1>6, NoRows
<1> QED
  BY <1>1, <1>3, <1>5, <1>7

\* Each call such a program makes is one of the table's, keeps the chunks even and
\* is a step of the row store or none.
LEMMA FailLoudStep ==
  Inv /\ EvenInv /\ [FailLoudNext]_vars =>
    Inv' /\ EvenInv' /\ [RowStoreOfTable!Next]_(RowStoreOfTable!vars)
<1> SUFFICES ASSUME Inv, EvenInv, [FailLoudNext]_vars
             PROVE  Inv' /\ EvenInv' /\ [RowStoreOfTable!Next]_(RowStoreOfTable!vars)
  OBVIOUS
<1>1. Inv'
  <2>1. [Next]_vars
    BY DEF FailLoudNext, Next
  <2> QED
    BY <2>1, NextInv
<1>2. ASSUME EvenInv', UNCHANGED <<AddedColumns, TableRows>>
      PROVE  EvenInv' /\ [RowStoreOfTable!Next]_(RowStoreOfTable!vars)
  BY <1>2 DEF RowStoreOfTable!vars
<1>3. CASE UNCHANGED vars
  <2>1. UNCHANGED <<AddedColumns, TableRows>>
    BY <1>3 DEF vars, AddedColumns, TableRows, ChunkRows, Added
  <2>2. EvenInv'
    BY <1>3 DEF vars, EvenInv, SchemaIsKnown
  <2> QED
    BY <1>1, <1>2, <2>1, <2>2
<1>4. ASSUME result = "ok", NEW name \in Names, NEW type \in TypeStrings, AddColumn(name, type)
      PROVE  EvenInv' /\ [RowStoreOfTable!Next]_(RowStoreOfTable!vars)
  <2>1. CASE result' # "ok"
    BY <1>2, <1>4, <2>1, AddColumnRows
  <2>2. CASE result' = "ok"
    <3>1. /\ EvenInv' /\ ~HasDefinition(name) /\ type \in ColumnTypes
          /\ TableRows = <<>> /\ TableRows' = <<>>
          /\ AddedColumns' = Append(AddedColumns, [name |-> name, type |-> type])
      BY <1>4, <2>2, AddColumnRows
    <3>2. \A j \in DOMAIN AddedColumns : AddedColumns[j].name # name
      BY <3>1 DEF AddedColumns, Added, HasDefinition, Range
    <3>3. RowStoreOfTable!AddColumn(name, type)
      BY <3>1, <3>2 DEF RowStoreOfTable!AddColumn
    <3> QED
      BY <3>1, <3>3 DEF RowStoreOfTable!Next
  <2> QED
    BY <2>1, <2>2
<1>5. ASSUME result = "ok", CreateNewChunk
      PROVE  EvenInv' /\ [RowStoreOfTable!Next]_(RowStoreOfTable!vars)
  BY <1>2, <1>5, CreateNewChunkRows
<1>6. ASSUME result = "ok", NEW row \in Rows, TableAppend(row)
      PROVE  EvenInv' /\ [RowStoreOfTable!Next]_(RowStoreOfTable!vars)
  <2> DEFINE n == Len(column_types)
  <2>1. /\ EvenInv' /\ AddedColumns' = AddedColumns
        /\ result' # "ok" => TableRows' = TableRows
        /\ result' = "ok" =>
             /\ Len(row) = n
             /\ \A j \in 1 .. n : <<column_types[j], row[j]>> \in DOMAIN TypeCast
             /\ n = 0 => TableRows' = TableRows
             /\ n # 0 => TableRows' = Append(TableRows, NewRow(column_types, row))
    BY <1>6, TableAppendRows
  <2>2. CASE result' # "ok" \/ n = 0
    BY <1>2, <2>1, <2>2
  <2>3. CASE result' = "ok" /\ n # 0
    <3>1. n \in Nat /\ Added = 1 .. n
      BY <1>6, AllAdded DEF Inv
    <3>2. AddedColumns = [pos \in 1 .. n |->
                            [name |-> column_names[pos], type |-> column_types[pos]]]
      BY <3>1, StoredRows DEF StoredAsRows
    <3>3. row \in [1 .. n -> Inputs]
      BY <2>1, <2>3, TableAssumption, LenProperties
    <3>4. /\ DOMAIN AddedColumns = 1 .. n /\ Len(AddedColumns) = n /\ AddedColumns # <<>>
          /\ \A j \in 1 .. n : AddedColumns[j].type = column_types[j]
      BY <2>3, <3>1, <3>2
    <3>5. NewRow(column_types, row)
            = [j \in DOMAIN row |-> TypeCast[<<AddedColumns[j].type, row[j]>>]]
      <4>1. DOMAIN row = 1 .. n
        BY <3>3
      <4> QED
        BY <3>4, <4>1 DEF NewRow
    <3>6. RowStoreOfTable!AppendRow(row)
      BY <2>1, <2>3, <3>3, <3>4, <3>5 DEF RowStoreOfTable!AppendRow
    <3>7. row \in [DOMAIN AddedColumns -> Inputs]
      BY <3>3, <3>4
    <3> QED
      BY <2>1, <3>6, <3>7 DEF RowStoreOfTable!Next
  <2> QED
    BY <2>2, <2>3
<1>7. ASSUME result = "ok", NEW k \in 1 .. Len(chunks) + 1, CompressChunk(k)
      PROVE  EvenInv' /\ [RowStoreOfTable!Next]_(RowStoreOfTable!vars)
  BY <1>2, <1>7, CompressChunkRows
<1> QED
  BY <1>1, <1>3, <1>4, <1>5, <1>6, <1>7 DEF FailLoudNext

\* The table of a program that stops at the first exception implements the row
\* store: whole rows, in order, through every chunk boundary and compression, up
\* to and including the call that throws.
THEOREM TableImplementsRowStore == FailLoudSpec => ImplementsRowStore
<1>1. Init => RowStoreOfTable!Init
  BY NewTable DEF RowStoreOfTable!Init
<1> QED
  BY <1>1, NewTable, FailLoudStep, PTL DEF FailLoudSpec, ImplementsRowStore, RowStoreOfTable!Spec

----------------------------------------------------------------------------
(* Print                                                                    *)

\* Of an even table, Print can read every cell, and prints the rows that count.
LEMMA EvenPrints == Inv /\ EvenInv => PrintShowsEveryRow
<1> SUFFICES ASSUME Inv, EvenInv, result = "ok"
             PROVE  PrintSucceeds /\ PrintedRows = TableRows
  BY DEF PrintShowsEveryRow
<1> DEFINE n == Len(column_types)
<1>1. /\ TypeOK /\ ChunksOK(chunks, chunk_size)
      /\ \A k \in DOMAIN chunks : IsEven(chunks[k], column_types) /\ ChunkOK(chunks[k], chunk_size)
  BY DEF Inv, EvenInv, ChunksOK
<1>2. n \in Nat /\ Added = 1 .. n /\ Len(column_names) = n
  BY <1>1, AllAdded DEF TypeOK
<1>3. ASSUME NEW k \in DOMAIN chunks
      PROVE  /\ Len(chunks[k]) = n /\ DOMAIN chunks[k] = 1 .. n /\ Size(chunks[k]) \in Nat
             /\ \A j \in 1 .. n : ColumnSize(chunks[k][j]) = Size(chunks[k])
  BY <1>1, EvenSize DEF IsEven
<1>4. PrintSucceeds
  <2>1. WidthsSuffice
    BY <1>2, <1>3 DEF WidthsSuffice
  <2>2. EveryCellExists
    BY <1>3 DEF EveryCellExists
  <2> QED
    BY <2>1, <2>2 DEF PrintSucceeds
<1>5. ASSUME NEW k \in DOMAIN chunks
      PROVE  [row \in 1 .. Size(chunks[k]) |-> [j \in DOMAIN chunks[k] |-> Get(chunks[k][j], row)]]
               = RowsIn(chunks[k], n)
  <2>1. CASE n = 0
    <3>1. chunks[k] = <<>>
      <4>1. chunks[k] \in Seq(Columns_T)
        BY <1>1 DEF ChunkOK
      <4> QED
        BY <1>3, <2>1, <4>1, EmptySeq
    <3> QED
      BY <2>1, <3>1 DEF Size, RowsIn
  <2>2. CASE n # 0
    <3>1. n \in 1 .. n
      BY <1>2, <2>2
    <3>2. ColumnSize(chunks[k][n]) = Size(chunks[k])
      BY <1>3, <3>1
    <3> QED
      BY <1>3, <2>2, <3>2 DEF RowsIn, RowOfChunk
  <2> QED
    BY <2>1, <2>2
<1>6. PrintedRows = AllRows(chunks, n)
  BY <1>5 DEF PrintedRows, AllRows
<1>7. TableRows = AllRows(chunks, n)
  BY <1>2, StoredRows DEF StoredAsRows
<1> QED
  BY <1>4, <1>6, <1>7

\* As long as no call has thrown, Print succeeds and prints the rows of the store.
THEOREM PrintIsComplete == FailLoudSpec => []PrintShowsEveryRow
BY NewTable, FailLoudStep, EvenPrints, PTL DEF FailLoudSpec

----------------------------------------------------------------------------
(* load_table                                                               *)

\* Splitting a line gives its fields, perhaps without the last.
LEMMA SplitType ==
  ASSUME NEW S, NEW line \in Seq(S), line # <<>>
  PROVE  Split(line) \in Seq(S)
<1>1. \A i \in 1 .. Len(line) - 1 : line[i] \in S
  OBVIOUS
<1>2. Len(line) \in Nat
  OBVIOUS
<1>3. SubSeq(line, 1, Len(line) - 1) \in Seq(S)
  BY <1>1, <1>2, SubSeqProperties
<1> QED
  BY <1>3 DEF Split, Front

\* The line of nothing but the empty field has no fields to split off.
LEMMA SplitBlank == Split(<<Empty>>) = <<>>
<1>1. SubSeq(<<Empty>>, 1, 0) = <<>>
  BY SubSeqEmpty
<1> QED
  BY <1>1 DEF Split, Front

\* What load_table reads: names, types, and rows of values.
LEMMA FileFields ==
  file \in Files =>
    /\ Split(NamesLine) \in Seq(Names) /\ Split(TypesLine) \in Seq(TypeStrings)
    /\ Len(FileRows) \in Nat
    /\ \A n \in 1 .. Len(FileRows) : Split(FileRows[n]) \in Seq(Inputs)
<1> SUFFICES ASSUME file \in Files
             PROVE  /\ Split(NamesLine) \in Seq(Names) /\ Split(TypesLine) \in Seq(TypeStrings)
                    /\ Len(FileRows) \in Nat
                    /\ \A n \in 1 .. Len(FileRows) : Split(FileRows[n]) \in Seq(Inputs)
  OBVIOUS
<1> DEFINE lines == file.lines
           T == Seq(Names \cup TypeStrings \cup Inputs) \ {<<>>}
<1>1. /\ lines \in Seq(T)
      /\ \A n \in DOMAIN lines :
           /\ lines[n] # <<>>
           /\ lines[n] \in Seq(IF n = 1 THEN Names \cap TypeStrings
                               ELSE IF n = 2 THEN TypeStrings ELSE Inputs)
  BY FileAssumption
<1>2. Len(lines) \in Nat /\ DOMAIN lines = 1 .. Len(lines)
  BY <1>1, LenProperties
<1> HIDE DEF T
<1>3. ASSUME lines # <<>>
      PROVE  /\ lines[1] \in Seq(Names \cap TypeStrings) /\ lines[1] # <<>>
             /\ Split(lines[1]) \in Seq(Names) /\ Split(lines[1]) \in Seq(TypeStrings)
  <2>1. 1 \in DOMAIN lines
    BY <1>1, <1>2, <1>3, EmptySeq
  <2>2. lines[1] \in Seq(Names \cap TypeStrings) /\ lines[1] # <<>>
    BY <1>1, <2>1
  <2>3. Split(lines[1]) \in Seq(Names \cap TypeStrings)
    BY <2>2, SplitType
  <2>4. Split(lines[1]) \in Seq(Names)
    BY <2>3, SeqMonotonic
  <2>5. Split(lines[1]) \in Seq(TypeStrings)
    BY <2>3, SeqMonotonic
  <2> QED
    BY <2>2, <2>4, <2>5
<1>4. Split(NamesLine) \in Seq(Names) /\ Split(NamesLine) \in Seq(TypeStrings)
  <2>1. CASE lines = <<>>
    BY <2>1, SplitBlank DEF NamesLine
  <2>2. CASE lines # <<>>
    BY <1>3, <2>2 DEF NamesLine
  <2> QED
    BY <2>1, <2>2
<1>5. Split(TypesLine) \in Seq(TypeStrings)
  <2>1. CASE Len(lines) >= 2
    <3>1. 2 \in DOMAIN lines
      BY <1>2, <2>1
    <3>2. Split(lines[2]) \in Seq(TypeStrings)
      BY <1>1, <3>1, SplitType
    <3> QED
      BY <1>2, <2>1, <3>2 DEF TypesLine
  <2>2. CASE Len(lines) = 1 /\ ~file.terminated
    <3>1. TypesLine = NamesLine
      BY <2>2 DEF TypesLine
    <3> QED
      BY <1>4, <3>1
  <2>3. CASE ~(Len(lines) >= 2) /\ ~(Len(lines) = 1 /\ ~file.terminated)
    <3>1. TypesLine = <<Empty>>
      BY <2>3 DEF TypesLine
    <3> QED
      BY <3>1, SplitBlank
  <2> QED
    BY <2>1, <2>2, <2>3
<1>6. /\ Len(FileRows) = IF 3 <= Len(lines) THEN Len(lines) - 3 + 1 ELSE 0
      /\ \A n \in 1 .. Len(lines) - 3 + 1 : FileRows[n] = lines[3 + n - 1]
  <2>1. \A i \in 3 .. Len(lines) : lines[i] \in T
    BY <1>1, <1>2, ElementOfSeq
  <2> QED
    BY <1>2, <2>1, SubSeqProperties DEF FileRows
<1>7. ASSUME NEW n \in 1 .. Len(FileRows)
      PROVE  Split(FileRows[n]) \in Seq(Inputs)
  <2>1. /\ n \in 1 .. Len(lines) - 3 + 1 /\ 3 + n - 1 \in 1 .. Len(lines)
        /\ 3 + n - 1 # 1 /\ 3 + n - 1 # 2
    BY <1>2, <1>6
  <2>2. FileRows[n] \in Seq(Inputs) /\ FileRows[n] # <<>>
    BY <1>1, <1>2, <1>6, <2>1
  <2> QED
    BY <2>2, SplitType
<1> QED
  BY <1>2, <1>4, <1>5, <1>6, <1>7

\* What load_table has put into the table by the time it is at pc.
LoadedSoFar ==
  LET names == Split(NamesLine)
      types == Split(TypesLine)
  IN  /\ pc \in {"open", "columns", "rows", "returned"} => result = "ok"
      /\ pc \in {"open", "columns"} =>
           /\ added <= Len(names) /\ Len(column_names) = added
           /\ \A pos \in 1 .. added : column_names[pos] = names[pos] /\ column_types[pos] = types[pos]
           /\ read = 0 /\ TableRows = <<>>
      /\ pc \in {"rows", "returned"} =>
           /\ column_names = names
           /\ \A pos \in DOMAIN column_types : column_types[pos] = types[pos]
           /\ read <= Len(FileRows)
           /\ column_names # <<>> => TableRows = [n \in 1 .. read |-> RowOf(Split(FileRows[n]))]
      /\ pc = "returned" => read = Len(FileRows)

LoadInv ==
  /\ Inv /\ EvenInv
  /\ file \in Files /\ added \in Nat /\ read \in Nat
  /\ LoadedSoFar

\* A file does not change while it is read.
LEMMA FileStays ==
  file' = file =>
    NamesLine' = NamesLine /\ TypesLine' = TypesLine /\ FileRows' = FileRows
BY DEF NamesLine, TypesLine, FileRows

\* The row that append adds for a line is the row the line stands for.
LEMMA RowIsRead ==
  ASSUME NEW line, line \in Seq(Inputs), Len(line) = Len(column_types),
         column_types \in Seq(TypeStrings),
         \A pos \in DOMAIN column_types : column_types[pos] = Split(TypesLine)[pos]
  PROVE  NewRow(column_types, line) = RowOf(line)
<1>1. DOMAIN line = 1 .. Len(column_types) /\ DOMAIN column_types = 1 .. Len(column_types)
  OBVIOUS
<1> QED
  BY <1>1 DEF NewRow, RowOf

\* Whatever append does with a line, the table stays in order.
LEMMA AppendKeepsInv ==
  ASSUME Inv, NEW row, TableAppend(row)
  PROVE  Inv'
<1>1. ChunksStep /\ result' \in {"ok", "rejected"} /\ UNCHANGED <<chunk_size, schema>>
  BY AppendStep DEF TableAppend
<1>2. ChunksOK(chunks', chunk_size')
  BY <1>1 DEF ChunksStep
<1>3. TypeOK'
  BY <1>1, <1>2 DEF Inv, TypeOK, schema, ChunksOK, Columns_T, Results
<1> QED
  BY <1>1, <1>2, <1>3 DEF Inv

\* Before the first line is read.
LEMMA LoadStarts == LoadInit => LoadInv
<1> SUFFICES ASSUME LoadInit PROVE LoadInv
  OBVIOUS
<1>1. /\ Inv /\ EvenInv /\ TableRows = <<>> /\ result = "ok" /\ column_names = <<>>
      /\ file \in Files /\ pc = "open" /\ added = 0 /\ read = 0
  BY NewTable DEF LoadInit, Init
<1>2. Split(NamesLine) \in Seq(Names)
  BY <1>1, FileFields
<1>3. 0 <= Len(Split(NamesLine))
  BY <1>2
<1> QED
  BY <1>1, <1>3 DEF LoadInv, LoadedSoFar

\* A step that leaves the table alone leaves its rows alone.
LEMMA TableStays ==
  Inv /\ EvenInv /\ UNCHANGED vars =>
    Inv' /\ EvenInv' /\ TableRows' = TableRows /\ result' = result
      /\ column_names' = column_names /\ column_types' = column_types
<1> SUFFICES ASSUME Inv, EvenInv, UNCHANGED vars
             PROVE  /\ Inv' /\ EvenInv' /\ TableRows' = TableRows /\ result' = result
                    /\ column_names' = column_names /\ column_types' = column_types
  OBVIOUS
<1>1. Inv'
  BY NextInv
<1>2. EvenInv'
  BY DEF vars, EvenInv, SchemaIsKnown
<1>3. TableRows' = TableRows
  BY DEF vars, TableRows, ChunkRows, Added
<1> QED
  BY <1>1, <1>2, <1>3 DEF vars

\* The call of add_column for one name of the file.
LEMMA LoadColumnInv == LoadInv /\ LoadColumn => LoadInv'
<1> SUFFICES ASSUME LoadInv, LoadColumn PROVE LoadInv'
  OBVIOUS
<1> DEFINE names == Split(NamesLine)
           types == Split(TypesLine)
           i == added + 1
<1>1. /\ Inv /\ EvenInv /\ file \in Files /\ added \in Nat /\ read \in Nat
      /\ pc = "columns" /\ i <= Len(names) /\ result = "ok" /\ read = 0 /\ TableRows = <<>>
      /\ Len(column_names) = added
      /\ \A pos \in 1 .. added : column_names[pos] = names[pos] /\ column_types[pos] = types[pos]
      /\ file' = file /\ read' = read
  BY DEF LoadInv, LoadedSoFar, LoadColumn
<1>2. /\ names' = names /\ types' = types /\ FileRows' = FileRows
  BY <1>1, FileStays DEF Split
<1>3. /\ names \in Seq(Names) /\ types \in Seq(TypeStrings)
  BY <1>1, FileFields
<1>4. CASE i <= Len(types)
  <2>1. /\ AddColumn(names[i], types[i]) /\ added' = i
        /\ pc' = IF result' = "ok" THEN pc ELSE "threw"
    BY <1>4 DEF LoadColumn
  <2>2. i \in 1 .. Len(names) /\ i \in 1 .. Len(types) /\ i \in Nat
    BY <1>1, <1>3, <1>4
  <2>3. names[i] \in Names /\ types[i] \in TypeStrings
    BY <1>3, <2>2, ElementOfSeq
  <2> HIDE DEF names, types
  <2>4. Inv'
    BY <1>1, <2>1, <2>3, NextInv DEF Next
  <2>5. /\ EvenInv'
        /\ result' = "ok" =>
             /\ column_names' = Append(column_names, names[i])
             /\ column_types' = Append(column_types, types[i])
             /\ TableRows' = <<>>
    BY <1>1, <2>1, <2>3, AddColumnRows
  <2>6. CASE result' # "ok"
    <3>1. pc' = "threw"
      BY <2>1, <2>6
    <3>2. LoadedSoFar'
      BY <3>1 DEF LoadedSoFar
    <3> QED
      BY <1>1, <2>1, <2>2, <2>4, <2>5, <3>2 DEF LoadInv
  <2>7. CASE result' = "ok"
    <3>1. pc' = "columns"
      BY <1>1, <2>1, <2>7
    <3>2. /\ Len(column_names') = i
          /\ \A pos \in 1 .. i : column_names'[pos] = names[pos] /\ column_types'[pos] = types[pos]
      <4>1. column_names \in Seq(Names) /\ column_types \in Seq(TypeStrings)
            /\ Len(column_types) = added
        BY <1>1 DEF Inv, TypeOK
      <4>2. /\ Len(column_names') = added + 1 /\ column_names'[added + 1] = names[i]
            /\ column_types'[added + 1] = types[i]
            /\ \A pos \in 1 .. added : /\ column_names'[pos] = column_names[pos]
                                       /\ column_types'[pos] = column_types[pos]
        BY <1>1, <2>3, <2>5, <2>7, <4>1, AppendProperties
      <4>3. \A pos \in 1 .. i : pos = added + 1 \/ pos \in 1 .. added
        BY <1>1
      <4> QED
        BY <1>1, <4>2, <4>3
    <3>3. LoadedSoFar'
      BY <1>1, <1>2, <2>1, <2>5, <2>7, <3>1, <3>2 DEF LoadedSoFar, names, types
    <3> QED
      BY <1>1, <2>1, <2>2, <2>4, <2>5, <3>3 DEF LoadInv
  <2> QED
    BY <2>6, <2>7
<1>5. CASE ~(i <= Len(types))
  <2>1. pc' = "undefined" /\ UNCHANGED <<vars, added>>
    BY <1>5 DEF LoadColumn
  <2>2. LoadedSoFar'
    BY <2>1 DEF LoadedSoFar
  <2>3. Inv' /\ EvenInv'
    BY <1>1, <2>1, TableStays
  <2> QED
    BY <1>1, <2>1, <2>2, <2>3 DEF LoadInv
<1> QED
  BY <1>4, <1>5

\* The end of the names: the table has the columns of the file.
LEMMA ColumnsLoadedInv == LoadInv /\ ColumnsLoaded => LoadInv'
<1> SUFFICES ASSUME LoadInv, ColumnsLoaded PROVE LoadInv'
  OBVIOUS
<1>1. /\ Inv /\ EvenInv /\ file \in Files /\ added \in Nat /\ read = 0 /\ result = "ok"
      /\ TableRows = <<>> /\ Len(column_names) = added /\ added = Len(Split(NamesLine))
      /\ \A pos \in 1 .. added : /\ column_names[pos] = Split(NamesLine)[pos]
                                 /\ column_types[pos] = Split(TypesLine)[pos]
      /\ pc' = "rows" /\ UNCHANGED <<vars, file, asked_size, added, read>>
  BY DEF LoadInv, LoadedSoFar, ColumnsLoaded
<1>2. /\ Split(NamesLine)' = Split(NamesLine) /\ Split(TypesLine)' = Split(TypesLine)
      /\ FileRows' = FileRows
  BY <1>1, FileStays DEF Split
<1>3. Split(NamesLine) \in Seq(Names) /\ Len(FileRows) \in Nat
  BY <1>1, FileFields
<1>4. /\ column_names \in Seq(Names) /\ column_types \in Seq(TypeStrings)
      /\ Len(column_types) = Len(column_names)
  BY <1>1 DEF Inv, TypeOK
<1>5. column_names = Split(NamesLine)
  BY <1>1, <1>3, <1>4, SeqEqual
<1>6. \A pos \in DOMAIN column_types : column_types[pos] = Split(TypesLine)[pos]
  BY <1>1, <1>4
<1>7. Inv' /\ EvenInv' /\ TableRows' = <<>>
  BY <1>1, TableStays
<1>8. LoadedSoFar'
  <2>1. read' <= Len(FileRows')
    BY <1>1, <1>2, <1>3
  <2>2. /\ column_names' = Split(NamesLine)' /\ result' = "ok"
        /\ \A pos \in DOMAIN column_types' : column_types'[pos] = Split(TypesLine)'[pos]
    BY <1>1, <1>2, <1>5, <1>6 DEF vars
  <2>3. TableRows' = [n \in 1 .. read |-> RowOf(Split(FileRows[n]))]'
    BY <1>1, <1>7
  <2> QED
    BY <1>1, <2>1, <2>2, <2>3 DEF LoadedSoFar
<1> QED
  BY <1>1, <1>7, <1>8 DEF LoadInv

\* The call of append for one line of the file.
LEMMA LoadRowInv == LoadInv /\ LoadRow => LoadInv'
<1> SUFFICES ASSUME LoadInv, LoadRow PROVE LoadInv'
  OBVIOUS
<1> DEFINE line == Split(FileRows[read + 1])
           n == Len(column_types)
           loaded == [k \in 1 .. read |-> RowOf(Split(FileRows[k]))]
<1>1. /\ Inv /\ EvenInv /\ file \in Files /\ added \in Nat /\ read \in Nat
      /\ pc = "rows" /\ read < Len(FileRows) /\ result = "ok"
      /\ column_names = Split(NamesLine)
      /\ \A pos \in DOMAIN column_types : column_types[pos] = Split(TypesLine)[pos]
      /\ column_names # <<>> => TableRows = loaded
      /\ file' = file /\ added' = added /\ read' = read + 1
      /\ TableAppend(line) /\ pc' = IF result' = "ok" THEN pc ELSE "threw"
  BY DEF LoadInv, LoadedSoFar, LoadRow
<1>2. /\ NamesLine' = NamesLine /\ TypesLine' = TypesLine /\ FileRows' = FileRows
      /\ column_names' = column_names /\ column_types' = column_types
  BY <1>1, FileStays DEF TableAppend, schema
<1>3. /\ Len(FileRows) \in Nat /\ line \in Seq(Inputs)
  <2>1. read + 1 \in 1 .. Len(FileRows)
    BY <1>1, FileFields
  <2> QED
    BY <1>1, <2>1, FileFields
<1>4. /\ column_names \in Seq(Names) /\ column_types \in Seq(TypeStrings)
      /\ Len(column_types) = Len(column_names)
  BY <1>1 DEF Inv, TypeOK
<1>5. Inv'
  BY <1>1, AppendKeepsInv
<1>6. /\ EvenInv'
      /\ result' = "ok" =>
           /\ Len(line) = n
           /\ n # 0 => TableRows' = Append(TableRows, NewRow(column_types, line))
  BY <1>1, TableAppendRows
<1>7. ASSUME result' = "ok", column_names # <<>>
      PROVE  TableRows' = [k \in 1 .. read + 1 |-> RowOf(Split(FileRows[k]))]
  <2>1. n # 0
    BY <1>4, <1>7
  <2>2. NewRow(column_types, line) = RowOf(line)
    BY <1>1, <1>3, <1>4, <1>6, <1>7, RowIsRead
  <2>3. TableRows' = Append(loaded, RowOf(line))
    BY <1>1, <1>6, <1>7, <2>1, <2>2
  <2>4. Append(loaded, RowOf(line)) = [k \in 1 .. read + 1 |-> RowOf(Split(FileRows[k]))]
    <3> DEFINE S == {RowOf(Split(FileRows[k])) : k \in 1 .. read + 1}
               more == [k \in 1 .. read + 1 |-> RowOf(Split(FileRows[k]))]
    <3>1. loaded \in Seq(S) /\ Len(loaded) = read
      BY <1>1
    <3>2. RowOf(line) \in S
      BY <1>1
    <3>3. more \in Seq(S) /\ Len(more) = read + 1
      BY <1>1
    <3>4. \A k \in 1 .. read : loaded[k] = more[k]
      BY <1>1
    <3>5. more[read + 1] = RowOf(line)
      BY <1>1
    <3> HIDE DEF loaded, more, S, line
    <3>6. /\ Append(loaded, RowOf(line)) \in Seq(S) /\ Len(Append(loaded, RowOf(line))) = read + 1
          /\ \A k \in 1 .. read : Append(loaded, RowOf(line))[k] = loaded[k]
          /\ Append(loaded, RowOf(line))[read + 1] = RowOf(line)
      BY <1>1, <3>1, <3>2, AppendProperties
    <3>7. \A k \in 1 .. read + 1 : k = read + 1 \/ k \in 1 .. read
      BY <1>1
    <3>8. \A k \in 1 .. read + 1 : Append(loaded, RowOf(line))[k] = more[k]
      BY <3>4, <3>5, <3>6, <3>7
    <3>9. Append(loaded, RowOf(line)) = more
      BY <3>3, <3>6, <3>8, SeqEqual
    <3> QED
      BY <3>9 DEF more
  <2> QED
    BY <2>3, <2>4
<1>8. LoadedSoFar'
  <2>1. CASE result' # "ok"
    <3>1. pc' = "threw"
      BY <1>1, <2>1
    <3> QED
      BY <3>1 DEF LoadedSoFar
  <2>2. CASE result' = "ok"
    <3>1. pc' = "rows" /\ read' <= Len(FileRows')
      BY <1>1, <1>2, <1>3, <2>2
    <3>2. /\ column_names' = Split(NamesLine)'
          /\ \A pos \in DOMAIN column_types' : column_types'[pos] = Split(TypesLine)'[pos]
      BY <1>1, <1>2 DEF Split
    <3>3. column_names' # <<>> =>
            TableRows' = [k \in 1 .. read |-> RowOf(Split(FileRows[k]))]'
      <4>1. read' = read + 1 /\ TypesLine' = TypesLine /\ FileRows' = FileRows
        BY <1>1, <1>2
      <4>2. [k \in 1 .. read |-> RowOf(Split(FileRows[k]))]'
              = [k \in 1 .. read + 1 |-> RowOf(Split(FileRows[k]))]
        BY <4>1 DEF RowOf, Split
      <4>3. column_names' # <<>> =>
              TableRows' = [k \in 1 .. read + 1 |-> RowOf(Split(FileRows[k]))]
        BY <1>2, <1>7, <2>2
      <4> QED
        BY <4>2, <4>3, Zenon
    <3> QED
      BY <2>2, <3>1, <3>2, <3>3 DEF LoadedSoFar
  <2> QED
    BY <2>1, <2>2
<1> QED
  BY <1>1, <1>5, <1>6, <1>8 DEF LoadInv

\* The steps of load_table that do not call the table.
LEMMA LoadPauses ==
  LoadInv /\ (Open \/ Return \/ UNCHANGED load_vars) => LoadInv'
<1> SUFFICES ASSUME LoadInv, Open \/ Return \/ UNCHANGED load_vars PROVE LoadInv'
  OBVIOUS
<1>1. /\ Inv /\ EvenInv /\ file \in Files /\ added \in Nat /\ read \in Nat /\ LoadedSoFar
      /\ UNCHANGED <<vars, file, asked_size, added, read>>
  BY DEF LoadInv, Open, Return, load_vars
<1>2. /\ Inv' /\ EvenInv' /\ TableRows' = TableRows /\ result' = result
      /\ column_names' = column_names /\ column_types' = column_types
  BY <1>1, TableStays
<1>3. NamesLine' = NamesLine /\ TypesLine' = TypesLine /\ FileRows' = FileRows
  BY <1>1, FileStays
<1>4. LoadedSoFar'
  <2>1. CASE Open
    BY <1>1, <1>2, <1>3, <2>1 DEF Open, LoadedSoFar, Split
  <2>2. CASE Return
    BY <1>1, <1>2, <1>3, <2>2 DEF Return, LoadedSoFar, Split, RowOf
  <2>3. CASE UNCHANGED load_vars
    BY <1>1, <1>2, <1>3, <2>3 DEF load_vars, LoadedSoFar, Split, RowOf
  <2> QED
    BY <2>1, <2>2, <2>3
<1> QED
  BY <1>1, <1>2, <1>4 DEF LoadInv

\* What load_table returns is the file: its columns, and a row for every further
\* line, in order, across every chunk that append creates on the way.
THEOREM LoadingIsFaithful == LoadSpec => []LoadedIsTheFile
<1>1. LoadInv /\ [LoadNext]_load_vars => LoadInv'
  BY LoadColumnInv, ColumnsLoadedInv, LoadRowInv, LoadPauses DEF LoadNext
<1>2. LoadInv => LoadedIsTheFile
  <2> SUFFICES ASSUME LoadInv, pc = "returned" PROVE LoadedIsTheFile
    BY DEF LoadedIsTheFile
  <2>1. /\ column_names = Split(NamesLine) /\ read = Len(FileRows) /\ file \in Files
        /\ column_names # <<>> => TableRows = [n \in 1 .. read |-> RowOf(Split(FileRows[n]))]
    BY DEF LoadInv, LoadedSoFar
  <2>2. DOMAIN FileRows = 1 .. Len(FileRows)
    <3>1. file.lines \in Seq(Seq(Names \cup TypeStrings \cup Inputs) \ {<<>>})
      BY <2>1, FileAssumption
    <3> QED
      BY <3>1 DEF FileRows
  <2> QED
    BY <2>1, <2>2 DEF LoadedIsTheFile
<1> QED
  BY <1>1, <1>2, LoadStarts, PTL DEF LoadSpec

=============================================================================
