----------------------------- MODULE LoadTable -----------------------------
(***************************************************************************)
(* load_table (utils/load_table): a file of lines becomes a Table through  *)
(* add_column and append.  A line is the sequence of fields the delimiter  *)
(* separates, so the empty line is <<Empty>>.                              *)
(***************************************************************************)
EXTENDS FailLoudTable

CONSTANTS
  Empty,  \* the empty field
  Files,  \* [exists, lines, terminated]: does the last line end with a newline?
  Sizes   \* the size_t handed in as chunk_size

\* A line is a field at least, and a field is a string: it can serve as a name, a
\* type or a value, wherever it stands.  Only a last line that has characters can
\* do without the newline.
ASSUME FileAssumption ==
  \A file \in Files :
    /\ file.lines \in Seq(Seq(Names \cup TypeStrings \cup Inputs) \ {<<>>})
    /\ \A n \in DOMAIN file.lines :
         file.lines[n] \in Seq(IF n = 1 THEN Names \cap TypeStrings
                               ELSE IF n = 2 THEN TypeStrings ELSE Inputs)
    /\ file.terminated \/ (file.lines # <<>> /\ file.lines[Len(file.lines)] # <<Empty>>)

VARIABLES
  file,        \* what infile reads
  asked_size,  \* the argument chunk_size
  pc,          \* where load_table is, or how it ended
  added,       \* the counter of the loop over the columns
  read         \* lines read by the loop over the rows

load_vars == <<vars, file, asked_size, pc, added, read>>

Ended == pc \in {"returned", "threw", "undefined"}

\* Fault: every empty field is dropped.
SplitNonEmpty(line) == SelectSeq(line, LAMBDA field : field # Empty)

\* _split: no field after a delimiter that ends the line.
Split(line) == IF line[Len(line)] = Empty THEN Front(line) ELSE line

\* The line that getline leaves in the variable for the names.
NamesLine == IF file.lines = <<>> THEN <<Empty>> ELSE file.lines[1]

\* The same for the types.  A getline that starts at the end of the file leaves
\* the variable as it is; one that reads up to the end empties it first.
TypesLine ==
  CASE Len(file.lines) >= 2 -> file.lines[2]
    [] Len(file.lines) = 1 /\ ~file.terminated -> NamesLine
    [] OTHER -> <<Empty>>

FileRows == SubSeq(file.lines, 3, Len(file.lines))

----------------------------------------------------------------------------

LoadInit ==
  /\ Init
  /\ file \in Files
  /\ asked_size \in Sizes
  /\ chunk_size = asked_size % (UInt32Max + 1)
  /\ pc = "open"
  /\ added = 0
  /\ read = 0

Open ==
  /\ pc = "open"
  /\ pc' = IF file.exists THEN "columns" ELSE "threw"
  /\ UNCHANGED <<vars, file, asked_size, added, read>>

\* col_types[i] is read without a check: with fewer types than names the
\* behaviour is undefined, and nothing is said of it from there on.
LoadColumn ==
  LET names == Split(NamesLine)
      types == Split(TypesLine)
      i == added + 1
  IN  /\ pc = "columns" /\ i <= Len(names)
      /\ IF i <= Len(types)
         THEN /\ AddColumn(names[i], types[i])
              /\ pc' = IF result' = "ok" THEN pc ELSE "threw"
              /\ added' = i
         ELSE /\ pc' = "undefined"
              /\ UNCHANGED <<vars, added>>
      /\ UNCHANGED <<file, asked_size, read>>

ColumnsLoaded ==
  /\ pc = "columns" /\ added = Len(Split(NamesLine))
  /\ pc' = "rows"
  /\ UNCHANGED <<vars, file, asked_size, added, read>>

\* Fault: a line without fields ends the loop.
LoadRowUnlessBlank ==
  /\ pc = "rows" /\ read < Len(FileRows)
  /\ IF FileRows[read + 1] = <<Empty>>
     THEN pc' = "returned" /\ UNCHANGED <<vars, read>>
     ELSE /\ TableAppend(Split(FileRows[read + 1]))
          /\ pc' = IF result' = "ok" THEN pc ELSE "threw"
          /\ read' = read + 1
  /\ UNCHANGED <<file, asked_size, added>>

LoadRow ==
  /\ pc = "rows" /\ read < Len(FileRows)
  /\ TableAppend(Split(FileRows[read + 1]))
  /\ pc' = IF result' = "ok" THEN pc ELSE "threw"
  /\ read' = read + 1
  /\ UNCHANGED <<file, asked_size, added>>

Return ==
  /\ pc = "rows" /\ read = Len(FileRows)
  /\ pc' = "returned"
  /\ UNCHANGED <<vars, file, asked_size, added, read>>

LoadNext == Open \/ LoadColumn \/ ColumnsLoaded \/ LoadRow \/ Return

\* A running function goes on running.
LoadSpec == LoadInit /\ [][LoadNext]_load_vars /\ WF_load_vars(LoadNext)

----------------------------------------------------------------------------
(* Properties                                                               *)

\* The row a line stands for: each field converted to the type of its column.
RowOf(line) ==
  [pos \in DOMAIN line |-> TypeCast[<<Split(TypesLine)[pos], line[pos]>>]]

\* A table that load_table returns has the columns of the file and a row for
\* every further line, in order, whatever the chunk size.
LoadedIsTheFile ==
  pc = "returned" =>
    /\ column_names = Split(NamesLine)
    /\ column_names # <<>> =>
         TableRows = [n \in DOMAIN FileRows |-> RowOf(Split(FileRows[n]))]

\* The files load_table is for: distinct names, as many known types, and lines
\* of as many convertible fields, of which the last is not empty.
WellFormed ==
  LET names == Split(NamesLine)
      types == Split(TypesLine)
  IN  /\ file.exists
      /\ names = NamesLine /\ types = TypesLine
      /\ IsInjective(names)
      /\ Len(types) = Len(names) /\ Range(types) \subseteq ColumnTypes
      /\ \A n \in DOMAIN FileRows :
           /\ Len(FileRows[n]) = Len(names)
           /\ FileRows[n][Len(names)] # Empty
           /\ \A pos \in DOMAIN names : <<types[pos], FileRows[n][pos]>> \in DOMAIN TypeCast

\* Every call of load_table ends, and with a table if the file is well-formed:
\* no chunk boundary or column order makes add_column or append throw.
WellFormedFilesAreLoaded == <>Ended /\ (WellFormed => <>(pc = "returned"))

=============================================================================
