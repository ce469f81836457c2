------------------------------ MODULE LintFiles ------------------------------
(***************************************************************************)
(* A run of cpplint.py: the command line, one file after the other with    *)
(* the state of the module they share, the errors that are shown, the      *)
(* counts of them and the exit code.                                       *)
(***************************************************************************)
EXTENDS LintState

CONSTANTS
  CommandLines,  \* the command lines: what is asked for ("lint", "categories" for an
                 \* empty --filter, or "usage" for --help and what is not valid),
                 \* filters, counting style, verbosity, line length and files
  DefaultFilters,
  CSuppressed,       \* _DEFAULT_C_SUPPRESSED_CATEGORIES
  KernelSuppressed   \* _DEFAULT_KERNEL_SUPPRESSED_CATEGORIES

\* The files of the command lines.
Files == UNION {ToSet(c.files) : c \in CommandLines}

ErrorsOf(f) == f.comment_errors \cup f.file_errors
                 \cup UNION {f.lines[l].errors : l \in DOMAIN f.lines}

\* A file has at least one line, as str.split gives at least one; its errors are
\* finitely many, of the known categories, and those of comments not about the
\* header guard.  PrintUsage ends what has another counting style.
ASSUME FilesAssumption ==
  /\ \A c \in CommandLines :
       /\ c.files \in Seq(Files) /\ c.filters \in Seq(AllFilters)
       /\ c.counting \in {"total", "toplevel", "detailed"}
  /\ \A f \in Files :
       /\ Len(f.path) \in Nat
       /\ Len(f.lines) \in Nat \ {0} /\ DOMAIN f.lines = 1 .. Len(f.lines)
       /\ f.guard_lines \subseteq DOMAIN f.lines
       /\ IsFiniteSet(ErrorsOf(f)) /\ \A error \in ErrorsOf(f) : error.category \in Categories
       /\ \A error \in f.comment_errors : error.category # "build/header_guard"
  /\ IsFiniteSet(Categories)
  /\ {"build/header_guard", "legal/copyright", "readability/nolint", "whitespace/newline"}
       \subseteq Categories
  /\ DefaultFilters \in Seq(AllFilters)
  /\ \A i \in DOMAIN DefaultFilters : IsFilter(DefaultFilters[i])

VARIABLES
  command_line,
  phase,      \* "arguments", "files", "data", "lines", "end", "newlines", "done",
              \* "usage" or "crashed"
  files,      \* the files still to be processed; the first one is being processed
  linenum,    \* the last line of it that was processed
  filters, filters_backup, verbose_level, line_length,
  error_suppressions, global_error_suppressions,
  error_count, errors_by_category,
  emitted,    \* the errors the last step gave
  shown,      \* those of them that were printed
  printed,    \* history: how many were printed by now
  processed,  \* history: how many files were
  exit_code

settings == <<filters, filters_backup, verbose_level, line_length>>
suppressions == <<error_suppressions, global_error_suppressions>>
counts == <<error_count, errors_by_category, emitted, shown, printed>>
vars == <<command_line, phase, files, linenum, settings, suppressions, counts, processed,
          exit_code>>

file == Head(files)
NumLines == Len(file.lines)

Keys == Categories \cup {CategoryOf[category] : category \in Categories}

Init ==
  /\ command_line \in CommandLines
  /\ phase = "arguments" /\ files = <<>> /\ linenum = 0
  /\ filters = DefaultFilters /\ filters_backup = DefaultFilters
  /\ verbose_level = 1 /\ line_length = 80
  /\ error_suppressions = {} /\ global_error_suppressions = {}
  /\ error_count = 0 /\ errors_by_category = [key \in Keys |-> 0]
  /\ emitted = {} /\ shown = {} /\ printed = 0
  /\ processed = 0 /\ exit_code = -1

----------------------------------------------------------------------------
(* Errors.                                                                  *)

\* _ShouldPrintError.
ShouldPrintError(error, line_suppressions, file_suppressions) ==
  /\ ~IsSuppressed(error, line_suppressions, file_suppressions)
  /\ error.confidence >= verbose_level
  /\ ~IsFiltered(filters, error.category)

\* The keys of errors_by_category an error counts for.
CountedFor(error) ==
  CASE command_line.counting = "toplevel" -> {CategoryOf[error.category]}
    [] command_line.counting = "detailed" -> {error.category}
    [] OTHER -> {}

\* Fault: an error counts for its category even when it is not printed.
IncrementForAll(errors, printing) ==
  [key \in Keys |->
     errors_by_category[key] + Cardinality({error \in errors : key \in CountedFor(error)})]

\* IncrementErrorCount of those that are printed.
IncrementByCategory(errors, printing) ==
  [key \in Keys |->
     errors_by_category[key] + Cardinality({error \in printing : key \in CountedFor(error)})]

\* Error, called for each of some errors.
Emit(errors, printing) ==
  /\ emitted' = errors
  /\ shown' = printing
  /\ printed' = printed + Cardinality(printing)
  /\ error_count' = error_count + Cardinality(printing)
  /\ errors_by_category' = IncrementByCategory(errors, printing)

EmitNothing ==
  /\ emitted' = {} /\ shown' = {}
  /\ UNCHANGED <<error_count, errors_by_category, printed>>

\* The errors that pass the suppressions of the next state.
Emitting(errors) ==
  Emit(errors, {error \in errors :
                  ShouldPrintError(error, error_suppressions', global_error_suppressions')})

----------------------------------------------------------------------------
(* main and ParseArguments.                                                 *)

ParseArguments ==
  /\ phase = "arguments"
  /\ filters' = DefaultFilters \o command_line.filters
  /\ verbose_level' = command_line.verbose /\ line_length' = command_line.line_length
  /\ files' = command_line.files
  /\ phase' = IF command_line.request # "lint" \/ files' = <<>> THEN "usage"
              ELSE IF \A i \in DOMAIN filters' : IsFilter(filters'[i]) THEN "files"
              ELSE "crashed"
  /\ exit_code' = IF phase' = "files" THEN -1
                  ELSE IF command_line.request = "categories" THEN 0 ELSE 1
  /\ UNCHANGED <<command_line, linenum, filters_backup, suppressions, processed>>
  /\ EmitNothing

\* Once all files are processed.
Exit ==
  /\ phase = "files" /\ files = <<>>
  /\ phase' = "done"
  /\ exit_code' = IF error_count > 0 THEN 1 ELSE 0
  /\ UNCHANGED <<command_line, files, linenum, settings, suppressions, processed>>
  /\ EmitNothing

----------------------------------------------------------------------------
(* ProcessFile.                                                             *)

\* Fault: the filters of the CPPLINT.cfg files stay.
KeepFilters == UNCHANGED filters

RestoreFilters == filters' = filters_backup

\* Fault: the file stays the first one.
SameFile ==
  /\ phase' = "files" /\ files' = files /\ linenum' = 0
  /\ processed' = processed

NextFile ==
  /\ phase' = "files" /\ files' = Tail(files) /\ linenum' = 0
  /\ processed' = processed + 1

\* The files do not change while cpplint.py runs.
Cfgs == [path \in {f.path : f \in Files} |-> ReadCfgs(path)]

\* What ProcessConfigOverrides finds for the file.
Cfg == Cfgs[file.path]
Overridden == filters \o FiltersOf(Cfg.cfg_filters)
CanOverride == \A i \in DOMAIN Overridden : IsFilter(Overridden[i])

\* _BackupFilters and ProcessConfigOverrides.
Override ==
  /\ phase = "files" /\ files # <<>>
  /\ filters_backup' = filters
  /\ line_length' = IF Cfg.line_length = NoLength THEN line_length ELSE Cfg.line_length
  /\ UNCHANGED <<command_line, verbose_level, suppressions>>
  /\ EmitNothing

\* A C++ file that can be read.
StartFile ==
  /\ Override
  /\ ~Cfg.excluded /\ CanOverride /\ file.is_readable /\ file.has_valid_extension
  /\ phase' = "data" /\ filters' = Overridden
  /\ UNCHANGED <<files, linenum, processed, exit_code>>

\* An excluded file, one that cannot be read and one that is no C++ file: the
\* filters are restored at once.
SkipFile ==
  /\ Override
  /\ Cfg.excluded \/ (CanOverride /\ (~file.is_readable \/ ~file.has_valid_extension))
  /\ NextFile
  /\ UNCHANGED <<filters, exit_code>>

\* A filter without a sign: nothing catches the ValueError of AddFilters, and no
\* one reads the filters it leaves.
FailToOverride ==
  /\ Override
  /\ ~Cfg.excluded /\ ~CanOverride
  /\ phase' = "crashed" /\ exit_code' = 1
  /\ UNCHANGED <<files, linenum, filters, processed>>

\* Fault: the suppressions of the file before stay.
KeepNolintSuppressions == error_suppressions

\* ResetNolintSuppressions.
NoNolintSuppressions == {}

\* ProcessGlobalSuppresions.
GlobalSuppressions ==
  (IF file.is_c THEN CSuppressed ELSE {}) \cup (IF file.is_kernel THEN KernelSuppressed ELSE {})

HasNolint(category) ==
  \E l \in 1 .. NumLines : file.lines[l].nolint = category /\ ~file.lines[l].nextline

\* The start of ProcessFileData: no copyright found, before the suppressions of
\* the file are known; an open comment, before those of a line are; and for a header
\* that its guard is missing, or its style once the NOLINTs of the lines of the guard
\* are parsed.
BeginData ==
  LET is_checked == ~HasNolint("build/header_guard")
      guard_lines == IF is_checked /\ ~file.lacks_guard THEN file.guard_lines ELSE {}
      copyright == IF file.has_copyright THEN {}
                   ELSE {[category |-> "legal/copyright", confidence |-> 5, linenum |-> 0]}
      no_guard == IF is_checked /\ file.lacks_guard
                  THEN {[category |-> "build/header_guard", confidence |-> 5, linenum |-> 0]}
                  ELSE {}
      guard_errors ==
        {[category |-> "build/header_guard", confidence |-> 5, linenum |-> l] :
           l \in guard_lines \cap file.bad_guard_lines}
        \cup UNION {NolintErrors(file.lines[l], l) : l \in guard_lines}
  IN
  /\ phase = "data"
  /\ global_error_suppressions' = GlobalSuppressions
  /\ error_suppressions' =
       NoNolintSuppressions \cup UNION {NolintSuppressions(file.lines[l], l) : l \in guard_lines}
  /\ Emit(copyright \cup file.comment_errors \cup no_guard \cup guard_errors,
          {error \in copyright : ShouldPrintError(error, NoNolintSuppressions, {})}
          \cup {error \in file.comment_errors \cup no_guard :
                  ShouldPrintError(error, NoNolintSuppressions, global_error_suppressions')}
          \cup {error \in guard_errors :
                  ShouldPrintError(error, error_suppressions', global_error_suppressions')})
  /\ phase' = "lines"
  /\ UNCHANGED <<command_line, files, linenum, settings, processed, exit_code>>

\* ProcessLine: the NOLINT comment, then the checks.  An error may be for a line
\* that comes later.
ProcessLine ==
  LET line == file.lines[linenum'] IN
  /\ phase = "lines"
  /\ linenum' = linenum + 1
  /\ phase' = IF linenum' = NumLines THEN "end" ELSE phase
  /\ error_suppressions' = error_suppressions \cup NolintSuppressions(line, linenum')
  /\ UNCHANGED global_error_suppressions
  /\ Emitting(NolintErrors(line, linenum') \cup line.errors)
  /\ UNCHANGED <<command_line, files, settings, processed, exit_code>>

\* The checks of the whole file: CheckCompletedBlocks to CheckForNewlineAtEOF.
EndData ==
  /\ phase = "end" /\ phase' = "newlines"
  /\ UNCHANGED suppressions
  /\ Emitting(file.file_errors)
  /\ UNCHANGED <<command_line, files, linenum, settings, processed, exit_code>>

\* Lines that end in \r\n, where there are others; the last line has no end.
CheckNewlines ==
  LET ended_lines == 1 .. NumLines - 1
      crlf_lines == {l \in ended_lines : file.lines[l].crlf}
  IN
  /\ phase = "newlines"
  /\ UNCHANGED suppressions
  /\ Emitting({[category |-> "whitespace/newline", confidence |-> 1, linenum |-> l] :
                 l \in IF crlf_lines = ended_lines THEN {} ELSE crlf_lines})
  /\ RestoreFilters /\ UNCHANGED <<filters_backup, verbose_level, line_length>>
  /\ NextFile
  /\ UNCHANGED <<command_line, exit_code>>

Next ==
  \/ ParseArguments \/ StartFile \/ SkipFile \/ FailToOverride
  \/ BeginData \/ ProcessLine \/ EndData \/ CheckNewlines \/ Exit

\* A single thread runs until the process exits.
Spec == Init /\ [][Next]_vars /\ WF_vars(Next)

----------------------------------------------------------------------------
(* Properties                                                               *)

\* The last part is the assertion in _ShouldPrintError that every filter "should
\* have been checked for in SetFilter" (cpplint.py:1156): it is about the steps that
\* report errors.  A filter without a sign ends the process before, contrary to the
\* usage text (UnsignedFiltersAreAccepted).
TypeOK ==
  /\ phase \in {"arguments", "files", "data", "lines", "end", "newlines", "done",
                "usage", "crashed"}
  /\ linenum \in Nat /\ error_count \in Nat /\ processed \in Nat
  /\ errors_by_category \in [Keys -> Nat]
  /\ shown \subseteq emitted
  /\ exit_code \in -1 .. 1
  /\ phase \in {"data", "lines", "end", "newlines"} =>
       \A i \in DOMAIN filters : filters[i].sign # "none"

\* The filters of the CPPLINT.cfg files of one file are gone before the next one,
\* also when it is skipped: only those of the command line are left.
FiltersAreRestored ==
  phase = "files" => filters = DefaultFilters \o command_line.filters

\* The CPPLINT.cfg files that apply to the file, by the length of their
\* directory's path.
CfgsOfFile == {n \in 0 .. Len(file.path) - 1 : IsRead(file.path, n)}

\* The options of a name in one of them.
OptionsOf(n, name) ==
  {option \in ToSet(CfgFiles[SubSeq(file.path, 1, n)].options) : option.name = name}

\* "CPPLINT.cfg has an effect on files in the same directory and all
\* sub-directories, unless overridden by a nested configuration file"
\* (cpplint.py:164-165), for the filters: a category is filtered as one of the
\* innermost filters that name it says, the command line being outermost, and
\* the files processed before make no difference.
NestedFiltersWin ==
  phase \in {"data", "lines", "end", "newlines"} =>
    \A category \in Categories :
      LET signs(n) ==
            {filter.sign : filter \in
               {f \in UNION {ToSet(option.filters) : option \in OptionsOf(n, "filter")} :
                  category \in Prefixed[f.name]}}
          naming == {n \in CfgsOfFile : signs(n) # {}}
      IN  IF naming = {}
          THEN IsFiltered(filters, category)
                 = IsFiltered(DefaultFilters \o command_line.filters, category)
          ELSE (IF IsFiltered(filters, category) THEN "-" ELSE "+") \in signs(Max(naming))

\* A NOLINT comment of a line is about an error: "NOLINT" is about the line it is
\* on, "NOLINTNEXTLINE" about the next one.
NolintIsAbout(l, error) ==
  /\ file.lines[l].nolint \in {error.category, "all"}
  /\ error.linenum = IF file.lines[l].nextline THEN l + 1 ELSE l

\* An error that is confident enough and passes the filters is shown unless the
\* file it is in suppresses it: no comment and no kind of a file processed before
\* does.
SuppressedByItsFile ==
  [][ \A error \in emitted' \ shown' :
        \/ ~(error.confidence >= verbose_level)
        \/ IsFiltered(filters, error.category)
        \/ error.category \in GlobalSuppressions
        \/ \E l \in 1 .. NumLines : NolintIsAbout(l, error) ]_vars

\* The lines whose comments are read before an error of this step is reported; the
\* line of a header guard is read before the guard is checked.
LinesRead(error) ==
  CASE phase = "lines" -> 1 .. linenum + 1
    [] phase = "data" /\ error.category = "build/header_guard" ->
         {error.linenum} \cap 1 .. NumLines
    [] OTHER -> 1 .. linenum

\* "add a 'NOLINT(category)' comment to the line" (cpplint.py:69-70): once the lines up
\* to an error's have been read, no check gets an error shown that a comment of
\* one of them is about, the checks at the end of the file included.
NolintIsHonoured ==
  [][ \A error \in shown' :
        error.linenum \in LinesRead(error) =>
          \A l \in LinesRead(error) : ~NolintIsAbout(l, error) ]_vars

\* "Total errors found" is the number of lines printed, the counts by category
\* add up to it, and the exit code tells whether there was one.
CountsAgree ==
  /\ error_count = printed
  /\ command_line.counting # "total" /\ phase # "arguments" =>
       error_count = MapThenSumSet(LAMBDA key : errors_by_category[key], Keys)
  /\ phase = "done" => (exit_code = 1 <=> printed > 0)

\* The command line, or a CPPLINT.cfg that applies to the file, has a filter without
\* a sign.
HasUnsignedFilter ==
  \/ \E filter \in ToSet(command_line.filters) : filter.sign = "none"
  \/ /\ files # <<>>
     /\ \E n \in CfgsOfFile : \E option \in OptionsOf(n, "filter") :
          \E filter \in ToSet(option.filters) : filter.sign = "none"

\* Every file of a command line gets its turn, whatever becomes of the files before
\* it, and the process exits: it prints the usage only of a command line that is no
\* order to lint files, and crashes only on a filter without a sign.
EveryFileGetsItsTurn ==
  <>(\/ phase = "done" /\ processed = Len(command_line.files)
     \/ phase = "usage" /\ (command_line.request # "lint" \/ command_line.files = <<>>)
     \/ phase = "crashed" /\ HasUnsignedFilter)

----------------------------------------------------------------------------
(* What the usage text says and the code does not do.                       *)

\* '"-FOO" and "FOO" means "do not print categories that start with FOO"'
\* (cpplint.py:91), and the filters of a CPPLINT.cfg are "similar in function to
\* --filter" (cpplint.py:151): no run ends because a filter has no sign.
UnsignedFiltersAreAccepted == HasUnsignedFilter => phase # "crashed"

\* The sentence of NestedFiltersWin (cpplint.py:164-165), for "linelength": the innermost
\* CPPLINT.cfg that has one tells the allowed line length, else the command line.
NestedLineLengthWins ==
  phase \in {"data", "lines", "end", "newlines"} =>
    LET naming == {n \in CfgsOfFile : OptionsOf(n, "linelength") # {}}
    IN  IF naming = {} THEN line_length = command_line.line_length
        ELSE \E option \in OptionsOf(Max(naming), "linelength") : line_length = option.value

=============================================================================
