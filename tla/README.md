# A TLA+ model of OpossumDB and of its linter

The repository is a teaching version of the in-memory column store Hyrise
(namespace `opossum`). It has two programs in it: the C++ library `src/src/lib`,
and `src/cpplint.py`, the style checker that `src/scripts/lint.sh` runs over the
library. These modules model the state of both and what changes it, TLC checks
them on small instances, and TLAPS proves the main invariants for instances of any
size.

Both programs are single-threaded. What is hard in the library is long sequences
of legal calls, calls that throw half-way, and narrow integers. What is hard in the
linter is state that is carried from line to line, from branch to branch of an
`#if` and from file to file.

Paths without a first directory are relative to `src/src/lib/`, and line numbers
alone are those of `src/cpplint.py`. Of the library a Debug build is modelled (the
default of `CMakeLists.txt`), in which `DebugAssert` throws as `Assert` does.

## 1. Inventory

### The library

| Component | State it keeps | Operations | Interacts with |
|---|---|---|---|
| `storage/value_column` | vector of `T` | `append`, `operator[]`, `values`, `size` | `type_cast` on append; `PerformanceWarning` on `operator[]` |
| `storage/dictionary_column` | sorted dictionary, attribute vector | constructor (compresses a value column), `get`, `lower_bound`, `upper_bound`, `append` (throws) | reads a value column once; owns an attribute vector |
| `storage/fitted_attribute_vector` | vector of `uint8_t`, `uint16_t` or `uint32_t` | constructor, `set`, `get` | ids are cast down on `set` |
| `storage/chunk` | vector of shared columns | `add_column`, `append`, `get_column`, `size` | calls `append` of each column in turn |
| `storage/table` | names, types, instantiated flags, chunks, chunk size | `add_column_definition`, `add_column`, `append`, `create_new_chunk`, `compress_chunk` | owns chunks; creates columns through `resolve_type` |
| `storage/storage_manager` | map name → shared table | `add_table`, `drop_table`, `get_table`, `reset`, `print` | shares tables with whoever asked for them |
| `operators/*` | inputs, output | construct, `execute`, `get_output`; `TableWrapper`, `Print` | an operator reads the output of its inputs |
| `utils/load_table` | local variables | parses a file | `add_column` and `append` of a new table |
| `utils/performance_warning` | static flag, static warning objects | disable, enable, warn | `Print` disables, `ValueColumn::operator[]` warns |
| `all_type_variant`, `resolve_type`, `type_cast` | none | conversions, dispatch on type names | used by every column |
| `types`, `strong_typedef`, `utils/assert` | none | | |
| `get_table`, `table_scan`, `reference_column` | headers only, no implementation | | |

What makes each correct, and where it is hard:

- **Columns.** A dictionary column returns the rows it was built from; its ids
  fit the width chosen and none looks like `INVALID_VALUE_ID` cut to that width;
  the ids `lower_bound` and `upper_bound` return select the rows a comparison of
  values would. Hard: limits of the widths (`uint8_t` is used up to 254 rows),
  the end of the dictionary, the value column others still hold and append to.
- **Attribute vector.** What is set comes back, nothing is written outside. Hard:
  the assertion `i <= size()`.
- **Chunk and Table.** Rows stay where they were put and as they were; chunks
  respect their maximum; compression takes whole, full chunks; columns have the
  types of their definitions and an instantiated column is in every chunk. Hard:
  `Chunk::append` and `Table::add_column` change several objects in a loop that
  can throw in the middle, and nothing is rolled back; `Chunk::size` looks at one
  column; definitions can exist without columns.
- **PerformanceWarning.** Never a warning while disabled. Hard: a flag, a stack of
  guards and static objects interact.
- **StorageManager and operators.** An operator that is executed after its input
  gives the table it stands on. Hard: names change hands while operators are
  executed, and nothing checks the order of the phases.
- **load_table.** A file gives the table it says, or an exception. Hard: what
  `std::getline` leaves in a variable at the end of a file, empty fields, chunk
  boundaries in the middle of the file.

### The linter

| Part | State it keeps | Operations | Interacts with |
|---|---|---|---|
| nesting (`NestingState`, `_PreprocessorInfo`, `_BlockInfo` and its subclasses) | stack of blocks, checkpoints of it for every open `#if`, the previous top | `Update`, `UpdatePreprocessor`, `CheckCompletedBlocks`, `CheckForNamespaceIndentation` | every check of a line reads the stack |
| text (`RemoveMultiLineComments`, `CleansedLines`, `CleanseRawStrings`) | the lines in four forms; the delimiter of an open raw string | remove comments, raw strings, strings | all other parts see the cleansed lines only |
| expressions (`CloseExpression`, `ReverseCloseExpression`, `_GetTextInside`) | a stack of brackets across lines | find the end or the start of an expression | called by the checks |
| includes (`_IncludeState`) | includes by section of `#if`, section of the order, last header | `CheckIncludeLine`, `ResetSection`, `CheckForIncludeWhatYouUse`, `CheckHeaderFileIncluded` | `CheckLanguage` resets it at directives |
| functions (`_FunctionState`) | lines of the current function | `Begin`, `Count`, `Check`, `End` | verbosity decides the limit |
| driver (`main`, `ProcessFile`, `ProcessFileData`, `ProcessLine`) | the files left | command line, one file after the other | fills all the global state below |
| configuration (`ProcessConfigOverrides`) | globals of the module (line length, root) | `CPPLINT.cfg` files from the inside out | filters, exclusions |
| filters and counts (`_CppLintState`) | filters, backup of them, verbosity, counts | `AddFilters`, back up, restore, `IncrementErrorCount` | `Error` asks all of it |
| suppressions (`_error_suppressions`, `_global_error_suppressions`) | lines by category | `ParseNolintSuppressions`, reset | `Error` asks them |
| style checks (`CheckStyle`, `CheckSpacing`, `CheckBraces`, ...) | none | regular expressions over a line and its neighbours | call `Error` |

What makes each correct, and where it is hard:

- **Nesting.** Of every `#if` the first branch is taken, and the lines of the
  others leave the stack alone; a block is on the stack exactly while its brace is
  open. Hard: `#elif` after `#elif`, `#if`s in skipped branches, heads whose brace
  is lines away, parentheses, forward declarations.
- **Text and expressions.** What is left is the code, and brackets are matched as
  they nest. Hard: four passes that each know one construct; `<` and `>` are
  brackets or operators.
- **Includes and functions.** A duplicate, a wrong order, a missing include and a
  long function are reported where they are. Hard: what is forgotten at `#else`,
  what an error does to the section, limits that double with the verbosity.
- **Driver, configuration, filters, suppressions.** What is shown of a file depends
  on the command line, on its own comments and on the `CPPLINT.cfg` files above it;
  counts and exit code agree with what was shown. Hard: all of it is global state
  that outlives the file, and there are five ways out of `ProcessFile`.

There are no concurrent actors, crashes to recover from or messages to lose:
`lint.sh` runs linters in parallel, but they share nothing.

## 2. Modules

| Module | Models | State | Builds on |
|---|---|---|---|
| `Columns` | both column classes and the attribute vector, as operators on records | none | |
| `ColumnSnapshots` | a value column appended to, and the dictionary column last built from it | the two columns | `Columns` |
| `Table` | `Table` with its `Chunk`s, every public call in any order, also after exceptions | the five members of `Table` | `Columns` |
| `RowStore` | abstract: typed columns and a growing list of complete rows | columns, rows | |
| `FailLoudTable` | `Table` as used by a program that stops at the first exception | that of `Table` | `Table`; implements `RowStore` |
| `PrintedTable` | the cells `Print` reads and the rows it prints | that of `Table` | `FailLoudTable` |
| `LoadTable` | `load_table`, one action per step, as a client of `Table` | the file, a program counter, two loop counters, that of `Table` | `FailLoudTable` |
| `StorageManager` | the registry of tables, as actions | the map of tables | |
| `Operators` | operators on tables of the registry, constructed and executed in any order | the operators, that of `StorageManager` | `StorageManager` |
| `FittedAttributeVector` | one attribute vector, with every index and id | data, width | |
| `PerformanceWarning` | flag, disablers, static warnings | those | |
| `BlockStack` | what one line does to the stack of blocks | none | |
| `TakenBranches` | abstract: a stack that only the lines of first branches change | the stack, one flag for each open `#if` | |
| `NestingState` | `NestingState` from line to line, with its checkpoints | stack, checkpoints | `BlockStack`; implements `TakenBranches` |
| `CleansedLines`, `Expressions` | the passes over the text; the three ways to find the end of an expression | none | |
| `LintText` | a file as it is cleansed | the lines in each form | both |
| `IncludeState`, `FunctionState` | the two states and what the checks make of them | none | |
| `LintedFile` | a file of `#include`s, directives and functions, line by line | both states, history | both |
| `LintState` | filters, `NOLINT` comments and `CPPLINT.cfg` files | none | |
| `LintFiles` | a run of the linter from command line to exit code | all its global state | `LintState` |
| `Induction` | lemmas: induction, flattened sequences, sums | | TLAPS |
| `ColumnProofs`, `ColumnSnapshotsProofs`, `TableProofs`, `OperatorsAndUtilitiesProofs`, `NestingProofs`, `LintedFileProofs`, `LintFilesProofs` | theorems about the modules of these names, `TableProofs` also about `FailLoudTable`, `PrintedTable` and `LoadTable`, `LintedFileProofs` also about `LintText` | | `Induction`, TLAPS |
| `MC...` | instances for TLC | | |

How the library and its model correspond:

- A column is a record. `kind` is its class, `type` its `T`, `owner` (history)
  the definition it was created for. A value column has `values`, a dictionary
  column `dictionary` and `attribute_vector` with the largest value `max` of its
  element type. Rows and columns count from 1, ids from 0.
- A value is an integer, since order and equality are all the code uses.
  `AllTypeVariant` inputs are model strings, and `type_cast` is the partial
  function `TypeCast` from a type and an input to a value: outside its domain the
  cast throws.
- `std::sort`, `unique`, `lower_bound` and `upper_bound` are modelled by what
  they do (`Rank`, `LowerBoundPos`, `UpperBoundPos`) and marked external.
- The widths are constants. TLC mostly uses 1, 3 and 7 for 255, 65535 and 4294967295;
  the proofs assume only that they grow and divide each other as powers of two.
- A call is one action. Where the code throws, the action keeps exactly what had
  been done before: `ChunkAppend` keeps the columns left of the one that threw,
  `ChunksWithColumn` the chunks before the one that refused, `TableAppend` the new
  chunk. `result` tells how the last call ended, and tells the exception of
  `DictionaryColumn::append` from others.
- In `StorageManager` and `Operators` a table is an identity and a `shared_ptr` the
  table it points to or `Nullptr`; shared ownership means that no table goes away
  while an operator holds it. Dereferencing `Nullptr` ends the model.
- In `LoadTable` a line is the sequence of its fields. `Split` drops an empty last
  field, as the loop over `std::getline` does; `TypesLine` is what the variable
  holds when the file has no second line.
- An unknown type name passes `add_column_definition` and throws in
  `make_shared_by_column_type`, hence `SchemaIsKnown` wherever a chunk is created.

How the linter and its model correspond:

- A line is what the code at hand looks for in it. For `BlockStack` that is a
  directive, a balance of parentheses, namespace heads, a class head, an access
  specifier and the tokens `{ } ; )`, in the order in which `Update` consumes them;
  for `CleansedLines` and `Expressions` it is a sequence of tokens; for
  `LintedFile` the kind of the line or the header it includes.
- Tokens have no blanks between them but those of `" >= "`. `FindEndOfExpressionInLine`
  cuts one character off before it looks for `operator` (line 1521), so `IgnoredEnd`
  tells tokens of one character (`OneCharacter`) from longer ones.
- A block is a record with its `kind`. `pp_stack` holds the copies of the whole
  stack that the code makes with `deepcopy`; "the same object" in
  `CheckForNamespaceIndentation` becomes "not popped since" (`TopSurvives`) and "no
  checkpoint restored".
- An include is its name, `include_list` a sequence of sets of names. A header is a
  record of what `_ClassifyInclude` compares (same base name, same directory) and
  of its place in the alphabet.
- A filter is a sign and a name, and `Prefixed` says which categories a name is a
  prefix of. A `CPPLINT.cfg` is the sequence of its options.
- The errors the checks have for a line are input of `LintFiles`: every set of them
  stands for some outcome of the style checks. `ProcessFileData` is cut where the
  suppressions change: what is reported before the lines (`BeginData`), with each
  line (`ProcessLine`), and after them (`EndData`, `CheckNewlines`).

Operators marked "Fault" are plausible mistakes in the definition after them.
No action uses them; they show that the properties would notice the mistake.

## 3. What is checked

| Run | Question | Bounds | Result |
|---|---|---|---|
| `column_snapshots` | does compression lose or confuse anything, do the bounds answer scans? | 6 rows of 4 values with gaps, then up to 5 more of one value (the 11th makes compression be refused), largest values 3, 5 and 11 | holds |
| `table` | what survives every sequence of calls? | 2 names, 3 type names of which one is unknown, 3 chunks of at most 3 columns, 5 column objects, 2 rows a column, chunk sizes unlimited, 1 and 2 | holds |
| `load_table` | does a file give its table, and does every load end? does a table given up at its first exception implement `RowStore`, and does `Print` show its rows? | all files of up to 3 rows over 5 first, 4 second and 6 further lines, cut short or not; chunk sizes 1, 2 and one that narrows to 0; two of the tables, one of them empty, used further: 3 chunks, 4 rows, 2 names | holds |
| `operators_and_utilities` | do operators keep their tables while names change hands? do ids survive the narrow storage? is a warning printed under a disabler? | 2 names, 2 tables, null pointers, 3 operators; sizes to 3, all 8 ids, three widths; 3 places, 3 nested disablers | holds |
| `partial_append` | are all columns of a chunk the same size? | as `table` | violated |
| `lint_nesting` | does the stack follow the taken branches, and does it count their braces? | files of up to 4 lines out of 17, or up to 8 with more directives; all nestings of `#if` that fit | holds |
| `lint_text` | is what is left of a file its code? do the three matchers agree? | 3 lines out of 25 that mix comments, strings and raw strings; 4 lines out of 13 of brackets; 4 characters out of 11 | holds |
| `operator_functions` | is the `>` of `operator>` ignored? | as `lint_text` | violated |
| `lint_includes` | are duplicates, inversions and missing includes reported, none asked for wrongly, and long functions shown? | up to 4 includes of 8 headers or up to 6 directives; functions in files of 30 lines, triggers 2 and 3, verbosity 2 | holds |
| `lint_files` | what does one file leave for the next, which filters apply, do counts agree, does every file get its turn? | command lines of up to 3 of 11 files, 2 filter lists, 3 combinations of counting, verbosity and line length; 5 `CPPLINT.cfg` files | holds |
| `nested_line_length` | does the innermost `CPPLINT.cfg` decide the line length? | as `lint_files` | violated |
| `unsigned_filters` | does the linter take filters without a sign? | as `lint_files` | violated |

The bounds suffice for the interactions the code has. The loops of the library
compare a chunk with those before it and a column with those to its left, so
three of each show first, middle and last. Two rows show a full, a partly full and
an empty chunk; chunk size 1 makes every append create a chunk. In
`column_snapshots` columns of 2 and 3 rows lie on the two sides of the first limit
between widths, those of 4 and 5 rows on the two sides of the second, and 4 values
are as many as the first width would have to hold if its limit were one too high.
The tables of the other runs, with largest values 1, 3 and 7, use the second width.
`NameSymmetry` is sound since names are only compared for equality.

For the linter, a checkpoint of a checkpoint (an `#if` in a skipped branch of an
`#if`) needs five directives with an opening or closing line between; `Budget` counts
directives half so that these fit. `MCNestingState` leaves out, as
`CppSpec` does, files in whose taken lines a closing brace meets a head that awaits
its brace, which is no C++. Comments, strings and raw strings interact through a pair of
lines with one in between. Includes need two headers in inverted order, one that was
out of order between them and a directive. Three files show a file between two
others; the eleven are chosen so that each way out of `ProcessFile`, each
suppression, each rule of `ProcessConfigOverrides` and each error that comes before
its suppression occurs. Filters without a sign are on one command line and in the
`CPPLINT.cfg` above one file. `Verbose = 2` puts the limits of functions at 8 and 12
lines.

### Properties of a table

- `LeftmostIsLongest`, `CapacityIsRespected`: columns may become uneven, but
  only downwards to the right, so the first column still counts every row, and
  the maximum chunk size holds for all.
- `CompressedIsFull`: a compressed chunk is compressed in every column and full in
  every column. `compress_chunk` checks the first column only; it is
  `Chunk::add_column` of the new chunk that refuses an uneven one.
- `AppendIsNeverRefusedAsImmutable`: appending never meets a compressed column.
- `ColumnsHaveTheirDefinedType`, `InstantiatedInEveryChunk`: the schema and the
  chunks agree, also after an `add_column` that stopped half-way.
- `RoundTrip`, `InvalidIdIsFree`, `ScanByBounds`, `ValuesStayPut`: compression and
  later calls keep every cell, and ids may be compared instead of values.
- `ImplementsRowStore`: before the first exception the rows are those appended, in
  order. The refinement maps `columns` to the definitions whose `add_column`
  returned and `rows` to the rows of all chunks that reach the last column.
- `PrintShowsEveryRow`: until the first exception `Print` reads no missing cell,
  writes no width outside its vector, and prints the rows of the row store.

### Properties of the clients of a table

- `LoadedIsTheFile`: what `load_table` returns has the columns of the file and one
  row for every line, in order. `WellFormedFilesAreLoaded`: it always ends, and
  returns a table when the file is well-formed (`WellFormed` spells that out; a
  line whose last field is empty is not).
- `PhasesPreventCrashes`, `OutputIsTheBottomTable`: an operator gives the table at
  the bottom of the operators it stands on, however often it is executed and whatever
  has become of the table's name; without null pointers and with the phases kept,
  nothing null is dereferenced.
- `SmallIdsComeBack`, `NothingPrintedWhileDisabled`: ids smaller than the number of
  rows survive the attribute vector and do not look invalid; nested disablers hold
  until the outermost ends.

`abstract_operator.hpp:16` says that operators "must not call get_output in their
execute method"; the sentence describes construction, and `Print` calls it when
executed, as the second phase intends. It is taken for a slip of the pen.

### Properties of the linter

- `ImplementsTakenBranches`: the refinement maps the abstract stack to the
  checkpoint `stack_before_else` of the outermost `#if` whose first branch is
  over, or to the stack itself. That is the comment at lines 2413-2419, which the
  code achieves with copies and restores in three places.
- `BracesAreBlocks`: outside skipped branches the blocks that have their brace are as
  many as braces are open. It follows that `CheckCompletedBlocks` complains of no
  complete file (`NoFalseCompletionErrors`, proved in `NestingProofs`; no run checks
  it for itself).
- `CheckedWhereItStarts`: the indentation of a block in a namespace is checked on
  the line of its head only, although the check knows that line only through
  `previous_stack_top`.
- `ElidedIsTheLexedCode`: the four passes leave what one lexer (`Modes`) would leave.
  `IsSupported` states what the passes assume: a comment of several lines starts a
  line and ends one, a comment inside a line has no quote and no `//` in it, a string
  ends on its line.
  `OpenCommentIsReported`: exactly the files that end in a comment are reported.
- `MatchersAgree`, `TemplateArgumentsAreBalanced`: the forward, the backward and the
  plain matcher give the same end of every parenthesis, and what is skipped as
  template arguments is whole expressions.
- `DuplicatesAreFound`: a header that was certainly included before is reported.
  `OrderErrorsAreInversions`, `AlphaErrorsAreInversions`: an error means that there
  is an earlier header which should come later; for the order it is "exactly if".
  `UnconditionalIncludesCount`: what is included outside every `#if` is never asked
  for at the end. `NothingAskedWithoutHeader`: nothing is of a source file whose own
  header was not found, since that may include it.
- `LongFunctionsAreShown`: a function that is reported passes the verbosity it is
  reported at, and really is that long.
- `FiltersAreRestored`, `NestedFiltersWin`, `SuppressedByItsFile`, `NolintIsHonoured`:
  what is shown of a file depends on the command line, its directory and its own
  comments, in the order of precedence the usage text describes. `CountsAgree`:
  total, counts by category and exit code are those of the lines printed.
  `EveryFileGetsItsTurn` (liveness): the process exits after all its files, prints the
  usage of nothing but a command line that is no order to lint files, and crashes
  on nothing but a filter without a sign, of the command line or of a `CPPLINT.cfg`
  above the file. The last part of `TypeOK` is the assertion at line 1156: when an
  error is reported, every filter has a sign. It holds because of that crash, which
  the usage text does not tell of (see `unsigned_filters` below).

### Disagreements between comments and code

Each violated run is one, with the sentence quoted in `PROJECT.json`:

1. `chunk.cpp:39` says that all columns have the same size. After an append of
   which a later value cannot be converted they have not.
2. Line 1519 says that the `>` of operator functions is ignored. `operator>` with
   nothing between the two is not, since line 1521 cuts the last letter off; the
   backward scan (line 1617) ignores it.
3. Lines 164-165 say that a nested `CPPLINT.cfg` overrides those above it. For the
   line length it is the outermost that wins, and it also stays for the files
   after. Of several `filter=` lines in one file the first wins.
4. Line 91 says that a filter `FOO` means the same as `-FOO`, and line 95 gives
   `--filter=whitespace,runtime/printf,+runtime/printf_format` as an example. Lines
   880-883 raise a `ValueError` for it that nothing catches: the process ends with a
   traceback before any file is checked. A `CPPLINT.cfg` with such a filter, which
   line 151 says is "similar in function", ends it at the first file it applies to
   (line 5918). The docstring of `SetFilters` (line 863) says what the code does.

Further ones of the same kind that no run is about:

- `table.hpp:34`: `col_count` is not the number of columns of a chunk that was
  created between a column's definition and its `add_column` (`table.cpp:52`).
- `table.hpp:55`: `column_name(n)` need not name the nth column when defined
  columns are added in another order (`table.cpp:37`).
- `fitted_attribute_vector.hpp:33` accepts the index `size()` and writes there.
  `DictionaryColumn` never does; the test at
  `fitted_attribute_vector_test.cpp:29` uses an index one larger.
- `performance_warning.hpp:19`: a place first passed while warnings are disabled
  (as `Print` does with every `ValueColumn::operator[]`, line 67) never warns
  afterwards.
- Line 707: a header included in an `#if` and again in its `#else`, after a nested
  `#if`, is reported as a duplicate, since line 729 empties only the last list.
- Line 794: `_last_header` is emptied for a header out of order and set again at
  line 4494, so the next header is compared with one of another section.
- Lines 1351 and 1286: code after the `*/` of a comment of several lines is lost, and
  `R"(` inside `/* */` starts a raw string.
- Line 5817: `NOLINT` has no effect on what is reported before the first line is
  read: copyright, open comments and a missing guard. The line reported of an open
  comment is the one after it starts (line 1348).
- Lines 70-71 say that `NOLINT` suppresses errors on its line. A check that follows
  an expression to its end reports a line whose `NOLINT` is not parsed yet, as line
  3937 does of an `if` whose condition ends lines later with `);`. `NolintIsHonoured`
  is about errors whose line has been read.
- Line 1821: an unknown category in a `NOLINT` of the header guard's lines is
  reported twice.
- Line 5904: `root` leaks to later files as the line length does.

## 4. Fairness and liveness

The library does something only when it is called and every call ends by itself:
no scheduler, queue or retry whose progress could be a question. The one function
modelled step by step is `load_table`; `LoadSpec` assumes weak fairness of its steps,
that is, that a running function goes on running; of what a program then does with the
table nothing is assumed. `LintFiles` assumes the same of the
linter, a single thread that runs until it exits: `WF_vars(Next)`. The other modules
state no fairness and no liveness.

Deadlock is checked except where the model really stops: in `load_table` when the
function has ended or, if the program goes on with the table, at the first exception;
in `operators_and_utilities` when a null pointer has been dereferenced; in the lint
runs when a file or the process has ended.

## 5. What is proved

The theorems hold for any set of names, types and inputs, any widths under
`WidthAssumption`, chunks, columns and rows in any number, operators and disablers
nested to any depth, and any lines, files, headers and configuration files. The
assumptions on the constants are these; TLC evaluates them in the runs:

| Assumption | What it says and why the code justifies it |
|---|---|
| `TypeAssumption`, `ColumnAssumption` (`Columns`, `ColumnSnapshots`) | known types are type names, a cast succeeds only for a known type, and the column of `ColumnSnapshots` has one |
| `WidthAssumption`, `MaximaAssumption` (`FittedAttributeVector`) | largest values grow and are one less than numbers that divide each other, as powers of two do |
| `TableAssumption` | the chunk sizes of the constructor are natural numbers |
| `FileAssumption` (`LoadTable`) | a field is a string and can serve as a name, a type or a value wherever it stands |
| `NullptrAssumption` (`StorageManager`) | no table is at the null pointer |
| `LinesAssumption` (`NestingState`, `LintedFile`) | the lines of a file are lines; the verbosity is from 0 to 5, as the usage text says (line 84; `SetVerboseLevel` takes any number) |
| `TriggersAssumption` (`FunctionState`) | both triggers are positive, that of tests is not the smaller one (250 and 400 at lines 983-984) |
| `NamesAssumption` (`LintedFile`) | the names of the two errors in the model are not names of headers |
| `FilesAreText` (`LintText`) | a file is a sequence of lines of tokens |
| `FilesAssumption`, `CfgAssumption` (`LintFiles`, `LintState`) | a file has a line, since `str.split` gives one; errors are finitely many, of known categories; a `CPPLINT.cfg` is a sequence of options and a `filter` one of filters |

Three specifications have fewer behaviours than the `Spec` of their module.
`LegalSpec` leaves out files in which an `#else` or `#endif` has no `#if`, as a
preprocessor does: on such a file `ResetSection` drops what was included before.
`CppSpec` leaves out files in whose taken lines a `}` meets a head that still awaits
its brace; lines of other branches may be anything. Both are the files the runs
check. `FailLoudSpec` is a program that stops at the first exception.

### Induction

`Induction` has what the other modules need beyond one step. The prover cannot use
an induction theorem over an operator, so its lemma `NatInduct` is stated for a set:
a set of numbers that holds 0 and with each number the next is `Nat`. It follows from
`LeastElement` and is used by naming the set of the numbers for which a fact holds.
From it the module derives that recursive functions over `0 .. n` exist and are
unique, that `FlattenSeq` joins sequences as one expects (`FlattenAppend`,
`FlattenLast`), that the last (first) sequence with an element of a set decides about
the last (first) one of the joined sequence (`FlattenedIn`), and that a sum over a
finite set adds up element by element, whatever order its `CHOOSE` takes (`SumIs`,
`SumOfClasses`).

### Columns and tables

- `ColumnProofs`. `DecodeEncoded`: for any column the constructor accepts, every
  row decodes to its value and no id looks invalid. The chain: ranks of a finite
  set of integers are distinct and below its cardinality, and every number below
  it is a rank (`RankOnto`); so `Dictionary` is well defined and ascending
  (`DictionaryIsSorted`), looking a stored value up gives its rank
  (`LookupFindsRank`), ids are below the number of rows, which is below the width
  chosen (`WidthFits`), and narrowing keeps them (`NarrowKeeps`).
- `ColumnSnapshotsProofs`. `TypeOK`, `RoundTrip` and `InvalidIdIsFree` are
  inductive together. `ScanByBounds` needs one more: that the dictionary is ascending
  and has at most `INVALID_VALUE_ID` entries (`DictionaryInv`), so that the
  `INVALID_VALUE_ID` which `lower_bound` returns at the end is above every id.
- `TableProofs`, calls in any order. `TypeOK`, `LeftmostIsLongest`,
  `CapacityIsRespected`, `CompressedIsFull`, `AppendIsNeverRefusedAsImmutable`,
  `InvalidIdIsFree` and the action property `ValuesStayPut`. The inductive invariant
  is `TypeOK` together with `ChunkOK` for every chunk: none of the parts is inductive
  alone. That an append never exceeds the capacity needs that the first column is
  the longest; that a column may be added to a chunk of size 0 needs that all its
  columns are empty; that an append meets no compressed column needs that a
  compressed chunk is full. Each operation is shown to keep `ChunkOK` and the cells
  of one chunk (`AddedColumnOK`, `AppendedRowOK`, `CompressedOK`, `NewChunkOK`), and
  three lemmas lift that to a table whose chunks grow or are replaced.
- `TableProofs`, schema. `ColumnsHaveTheirDefinedType` and
  `InstantiatedInEveryChunk`. What any call does to the schema and the chunks is one
  relation, `SchemaStep`: columns keep their owner and type in their place, new
  columns have a definition, and after the call a marked column is in every chunk it
  was not marked for before. Each call satisfies it in every state of the right types
  (`EveryStep`), an `add_column` that threw half-way too, because it leaves the column
  unmarked; both properties are inductive over it. That names are unique is not
  needed.
- `TableProofs`, programs that build tables. `TableImplementsRowStore`: the table of
  a program that stops at the first exception implements `RowStore`. `EvenInv` says
  that until then every definition has its column in every chunk, in order and all of
  one size. With it the rows of the refinement mapping are a flattening of the rows
  of the chunks (`StoredRows`), which compression and a new chunk leave as they are
  and an append makes one longer; the step that throws is shown to stutter. From the
  same invariant `PrintIsComplete`; and `LoadingIsFaithful`, where `LoadedSoFar` says
  of each place in `load_table` which columns and lines the table holds already.

### Operators, attribute vector, performance warnings

`OperatorsAndUtilitiesProofs` is about the instance that TLC checks, which is one of
three specifications (`PartsKeepTheirSpecs`), for any values of its constants.

- `PhasesSuffice`, with `CarefulInv`: in what a careful program has handed in, and in
  what executed operators have handed on, there is no null pointer.
- `OutputsArePassed`: an operator stands on one constructed before it, so that the
  recursion of `Bottom` ends and is determined (`TypesInv`), and an output does not
  change any more once it is there (`OutputsInv`), for careless programs too.
- `IdsComeBack`: what is in the vector is what was last set, cast down (`VectorInv`);
  a cast to a power of two keeps what fits and takes `INVALID_VALUE_ID` to the
  largest value, which no id below the size limit of the constructor reaches.
- `DisablersHold`: every disabler but the outermost remembers that warnings were
  disabled, so only the end of the outermost enables them.

### The linter

- `NestingProofs`, checkpoints. `BranchesAreTaken`: `NestingState` implements
  `TakenBranches`, for any lines and any depth of `#if`s. Each action maps to the one
  of the same name (`IfIsIf`, `ElseIsElse`, `EndifIsEndif`, `OtherIsOther`). What a
  line does to a stack is not opened for this. The invariant `Inv` says that
  checkpoints form a sequence and that an `#if` whose first branch is over has an
  outermost such `#if` around it, which is what makes the mapping (a `CHOOSE`) well
  defined.
- `NestingProofs`, blocks. Here the tokens of a line are gone through one by one.
  `IndentationIsCheckedOnce`: above what was on the stack before a line there are only
  blocks that start on it, and `TopSurvives` tells the two apart.
  `EveryBraceHasItsBlock`: the stack of the taken lines has as many blocks with a
  brace as braces are open in them (`DepthInv`). The count is about `TakenStack`,
  hence about the checkpoint while lines are skipped, and moves with the refinement
  above. `CompleteBlocksAreNotReported` follows for balanced files.
- `LintFilesProofs`. `FiltersComeBack` from `FiltersInv` (while a file is read the
  backup holds the filters of the command line); `SuppressionsAreTheFiles` and
  `NolintIsObeyed` from `LinesInv`: the suppressions in force are those of the
  file's kind and of comments in it, and include all of the lines read so far.
  `TypesAreKept` and `CountsAreRight` from `CountsInv`, with sums over the categories.
  `InnermostFilterWins` from `OverridesInv` (while a file is read the filters are those
  of the command line followed by those of its `CPPLINT.cfg` files): the last filter
  about a category decides (`LastDecides`), and in the filters of all directories those
  of the innermost come last (`FlattenedIn`).
- `LintedFileProofs`, duplicates. `NoDuplicateIsMissed` and `UnconditionalOnesCount`.
  The invariant `IncludedInv` says of each header that was read in a branch still
  open that it is in the lists of the include state, and, if an `#if` was opened
  inside of that branch, in a list other than the last, which is the only one an
  `#else` empties. The second half is what makes it inductive. It needs that a branch
  is told from earlier ones by the line it starts at (`BranchInv`). A header that was
  read in a branch that is over may have been forgotten. For
  `NothingIsAskedWithoutHeader` the other direction suffices, `SeenInv`: what the state
  holds was read.
- `LintedFileProofs`, order. `OrderErrorsAreRight` and `AlphaErrorsAreRight` from
  `SectionInv`: the section is the highest place of the headers recorded since the
  last directive, although `CheckNextIncludeOrder` knows no header but the current one
  (`SectionIsPlace`).
- `LintedFileProofs`, text. `ElidesToTheLexedCode` and `ReportsOpenComments`, for files
  of any number of lines of any length. `PassesInOrder` says what each variable holds
  after which pass, so that both are facts about the passes, proved by two inductions.
  Over the lines: a comment is open after a line for `RemoveMultiLineComments` if and
  only if the lexer is in one (`OpenComments`), and a line is cleansed as the rest of
  a raw string if and only if the lexer starts it in one (`FileRead`). Over the tokens
  of a line: `IsReadSoFar` says, for each mode of the lexer, what `CleanseRawStrings`
  has made of the tokens up to here, for example a line that is read as what was
  emitted, then a quote, then anything without a quote; one lemma for each mode shows
  that the next token keeps it (`TokenRead`). What makes this inductive is `IsRead`:
  the part of the line in which every string and comment is ended. Such parts can be
  joined (`ReadJoined`), because no quote, `//` or `/*` in one reaches into the next:
  the number of quotes before a position adds up (`StringJoined`), the positions in
  delimiters are those of the parts (`EnclosedJoined`), and so the later passes work
  part by part (`CollapseJoined`, `CleanseJoined`).
- `LintedFileProofs`, ends of expressions. `MatchersFindTheSameEnd` and
  `TemplateArgumentsAreWhole`, for every file. The lines are laid out as one text
  (`LaidOut`), in which a scan of `CloseExpression` or `ReverseCloseExpression` over
  several lines is one run (`CloseScans`, `ReverseScans`). A turn of either loop pushes,
  pops, drops pending `<` or fails; without the pending operators a stack is the
  brackets still waited for, and these change at a character in one way only
  (`TurnComes`). A run is therefore a profile: the brackets open after each character
  (`ForwardProfile`, `BackwardProfile`). What is open behind a character determines
  what is open before it (`MovesBack`), so a scan back from the end of an expression
  reads the profile of the scan forwards (`BackwardsAgree`) and can neither stop before
  the start (`ExpressionClosesBack`) nor fail (`ExpressionIsNotStuckBack`) nor miss it
  (`ExpressionIsNotOpenBack`). `_GetTextInside` reads the same profile
  (`InsideFollows`); where `CloseExpression` fails or runs out of text there is none
  that ends (`StuckIsNotInside`, `OpenIsNotInside`). A profile that is empty at both
  ends is that of balanced text (`ProfileIsBalanced`); its length is the depth
  (`DepthIsLength`).
- `LintedFileProofs`, lengths. `TooLongIsShown`: lines counted are lines since the
  function started (`FunctionInv`); `lines > trigger * 2^v` gives
  `lines \div trigger >= 2^v`, hence a level of at least `v` (`LevelIsShown`), by cases
  over the six verbosities.

Model-checked only: liveness (`WellFormedFilesAreLoaded`, `EveryFileGetsItsTurn`),
which is out of the prover's reach. Every other property of the passing runs is also a
theorem.

## 6. Not modelled

Of the library:

- `Table::emplace_chunk`: declared as a member, defined as an empty free function.
- Moving tables, and changing a chunk through the reference `get_chunk` returns (it
  dangles once `push_back` moves the chunks).
- Counts cut to 16 and 32 bits (`col_count`, `chunk_count`, `Chunk::size`).
- NaN in float columns, for which `std::sort` has no defined order.
- `type_cast` beyond succeeding or failing.
- The right input of an operator, which no operator has, and the layout of what
  `Print` prints.
- Reading `col_types` past its end in `load_table`: the model notes it and stops.
- Release builds, in which `DebugAssert` does nothing.
- Headers without implementation, the empty `main` and the tests.

Of the linter:

- The style checks, most of the file by length. Each is a set of regular
  expressions over a line and the lines around it and keeps no state; a model of one
  would repeat its patterns. In `LintFiles` their errors are arbitrary.
- `FileInfo` and the guard `GetHeaderGuardCPPVariable` suggests; `--root`,
  `--extensions`, `--output` and the wording of errors.
- Escapes in strings, character literals and digit separators, and the blanks around
  comments; names and columns of blocks.
- `is_derived`, `class_indent` and `last_line` of a class, which style checks alone
  read.
- The files on disk change nowhere: a `CPPLINT.cfg` is the same for every file of a
  run.

## 7. Plan

Done: all modules of section 2 and the proofs of section 5. What would come next,
in this order:

1. `TypeCast`: the variant tag, `lexical_cast`, the `numeric_cast` fallback, against
   a reference conversion. Bounds: integers of a small width, a few decimals.
2. `FloatDictionary`: the dictionary of partially ordered values (NaN), where
   `std::sort` may leave any order and `lower_bound` may miss.
3. Narrow counts: `col_count` and `size` cut to a small width, for chunks of more
   columns or rows than fit.
4. The composition of `LintedFile` and `NestingState` with `LintFiles`: their errors
   as those of a line, instead of arbitrary ones.
