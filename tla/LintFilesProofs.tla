-------------------------- MODULE LintFilesProofs --------------------------
(***************************************************************************)
(* What a file leaves behind for the next one, for any command lines,      *)
(* files, CPPLINT.cfg files and categories: filters are restored, the      *)
(* suppressions in force are those of the file and of its lines read, the  *)
(* innermost CPPLINT.cfg that names a category decides whether it is       *)
(* filtered, and the errors of each category are counted.                  *)
(***************************************************************************)
EXTENDS LintFiles, Induction

InFile == phase \in {"data", "lines", "end", "newlines"}

CommandLineFilters == DefaultFilters \o command_line.filters

\* Between files the filters are those of the command line, in a file their backup
\* is.
FiltersInv ==
  /\ phase = "files" => filters = CommandLineFilters
  /\ InFile => filters_backup = CommandLineFilters

\* The lines that have been read, and what is suppressed because of them.
LinesInv ==
  /\ command_line \in CommandLines
  /\ files \in Seq(Files)
  /\ linenum \in Nat
  /\ InFile => files # <<>>
  /\ phase = "lines" => linenum < NumLines
  /\ InFile => linenum <= NumLines
  /\ phase \in {"arguments", "files", "data"} => linenum = 0
  /\ phase \in {"lines", "end", "newlines"} =>
       /\ global_error_suppressions = GlobalSuppressions
       /\ \A s \in error_suppressions :
            \E l \in 1 .. NumLines : s \in NolintSuppressions(file.lines[l], l)
       /\ \A l \in 1 .. linenum :
            NolintSuppressions(file.lines[l], l) \subseteq error_suppressions

----------------------------------------------------------------------------
(* Filters.                                                                 *)

\* FiltersInv is an invariant of the runs of cpplint.py.
LEMMA FiltersInvHolds == Spec => []FiltersInv
<1>1. Init => FiltersInv BY DEF Init, FiltersInv, InFile
<1>2. FiltersInv /\ [Next]_vars => FiltersInv'
  <2> SUFFICES ASSUME FiltersInv, [Next]_vars PROVE FiltersInv' OBVIOUS
  <2> USE DEF FiltersInv, InFile, CommandLineFilters
  <2>1. CASE ParseArguments BY <2>1 DEF ParseArguments
  <2>2. CASE StartFile BY <2>2 DEF StartFile, Override
  <2>3. CASE SkipFile BY <2>3 DEF SkipFile, Override, NextFile
  <2>4. CASE FailToOverride BY <2>4 DEF FailToOverride, Override
  <2>5. CASE BeginData BY <2>5 DEF BeginData, settings
  <2>6. CASE ProcessLine BY <2>6 DEF ProcessLine, settings
  <2>7. CASE EndData BY <2>7 DEF EndData, settings
  <2>8. CASE CheckNewlines BY <2>8 DEF CheckNewlines, NextFile, RestoreFilters
  <2>9. CASE Exit BY <2>9 DEF Exit, settings
  <2>10. CASE UNCHANGED vars BY <2>10 DEF vars, settings
  <2>11. QED
    BY <2>1, <2>2, <2>3, <2>4, <2>5, <2>6, <2>7, <2>8, <2>9, <2>10 DEF Next
<1>3. QED BY <1>1, <1>2, PTL DEF Spec

\* Whatever CPPLINT.cfg files a file has, and whether it is checked or skipped,
\* _RestoreFilters brings back the filters of the command line.
THEOREM FiltersComeBack == Spec => []FiltersAreRestored
<1>1. FiltersInv => FiltersAreRestored
  BY DEF FiltersInv, FiltersAreRestored, CommandLineFilters
<1>2. QED BY <1>1, FiltersInvHolds, PTL

----------------------------------------------------------------------------
(* Suppressions.                                                            *)

\* The file is one of the command line's.
LEMMA FileOK ==
  ASSUME LinesInv, files # <<>>
  PROVE  /\ file \in Files /\ Tail(files) \in Seq(Files)
         /\ NumLines \in Nat /\ NumLines > 0 /\ DOMAIN file.lines = 1 .. NumLines
         /\ file.guard_lines \subseteq 1 .. NumLines
         /\ \A error \in ErrorsOf(file) : error.category \in Categories
         /\ \A error \in file.comment_errors : error.category # "build/header_guard"
<1>1. file \in Files /\ Tail(files) \in Seq(Files) BY DEF LinesInv, file
<1>2. QED BY <1>1, FilesAssumption DEF NumLines

\* Every step keeps LinesInv: the lines are read in order and no file's suppressions
\* outlive it.
LEMMA LinesInvInductive ==
  ASSUME LinesInv, [Next]_vars
  PROVE  LinesInv'
<1> USE DEF InFile
<1>1. CASE ParseArguments
  <2>1. files' \in Seq(Files) BY <1>1, FilesAssumption DEF ParseArguments, LinesInv
  <2>2. phase' \in {"usage", "crashed", "files"} BY <1>1 DEF ParseArguments
  <2>3. linenum' = 0 /\ command_line' \in CommandLines BY <1>1 DEF ParseArguments, LinesInv
  <2>4. QED BY <2>1, <2>2, <2>3 DEF LinesInv
<1>2. CASE StartFile
  <2>1. /\ phase = "files" /\ files # <<>> /\ phase' = "data"
        /\ UNCHANGED <<files, linenum, command_line>>
    BY <1>2 DEF StartFile, Override
  <2>2. linenum = 0 BY <2>1 DEF LinesInv
  <2>3. NumLines' = NumLines BY <2>1 DEF NumLines, file
  <2>4. QED BY <2>1, <2>2, <2>3, FileOK DEF LinesInv
<1>3. CASE SkipFile
  <2>1. /\ files # <<>> /\ phase' = "files" /\ files' = Tail(files) /\ linenum' = 0
        /\ UNCHANGED command_line
    BY <1>3 DEF SkipFile, Override, NextFile
  <2>2. QED BY <2>1, FileOK DEF LinesInv
<1>4. CASE FailToOverride
  <2>1. phase' = "crashed" /\ UNCHANGED <<files, linenum, command_line>>
    BY <1>4 DEF FailToOverride, Override
  <2>2. QED BY <2>1 DEF LinesInv
<1>5. CASE BeginData
  <2> DEFINE guard_lines == IF ~HasNolint("build/header_guard") /\ ~file.lacks_guard
                           THEN file.guard_lines ELSE {}
  <2>1. /\ phase = "data" /\ phase' = "lines" /\ UNCHANGED <<files, linenum, command_line>>
        /\ global_error_suppressions' = GlobalSuppressions
        /\ error_suppressions' = NoNolintSuppressions
             \cup UNION {NolintSuppressions(file.lines[l], l) : l \in guard_lines}
    BY <1>5 DEF BeginData
  <2>2. linenum = 0 /\ files # <<>> BY <2>1 DEF LinesInv
  <2>3. file' = file /\ NumLines' = NumLines BY <2>1 DEF NumLines, file
  <2>4. GlobalSuppressions' = GlobalSuppressions BY <2>3 DEF GlobalSuppressions
  <2>5. guard_lines \subseteq 1 .. NumLines BY <2>2, FileOK
  <2>6. \A s \in error_suppressions' :
          \E l \in 1 .. NumLines : s \in NolintSuppressions(file.lines[l], l)
    BY <2>1, <2>5 DEF NoNolintSuppressions
  <2>7. NumLines \in Nat /\ NumLines > 0 BY <2>2, FileOK
  <2> HIDE DEF guard_lines
  <2>8. \A l \in 1 .. linenum' : FALSE BY <2>1, <2>2
  <2>9. linenum' < NumLines' BY <2>1, <2>2, <2>3, <2>7
  <2>10. QED BY <2>1, <2>2, <2>3, <2>4, <2>6, <2>7, <2>8, <2>9 DEF LinesInv
<1>6. CASE ProcessLine
  <2> DEFINE suppressions_of(l) == NolintSuppressions(file.lines[l], l)
  <2>1. /\ phase = "lines" /\ linenum' = linenum + 1
        /\ phase' = IF linenum' = NumLines THEN "end" ELSE phase
        /\ error_suppressions' = error_suppressions \cup suppressions_of(linenum')
        /\ UNCHANGED <<files, command_line, global_error_suppressions>>
    BY <1>6 DEF ProcessLine
  <2>2. file' = file /\ NumLines' = NumLines BY <2>1 DEF NumLines, file
  <2>3. GlobalSuppressions' = GlobalSuppressions BY <2>2 DEF GlobalSuppressions
  <2>4. files # <<>> /\ linenum \in Nat /\ linenum < NumLines BY <2>1 DEF LinesInv
  <2>5. NumLines \in Nat BY <2>4, FileOK
  <2>6. linenum' \in 1 .. NumLines /\ 1 .. linenum' = (1 .. linenum) \cup {linenum'}
    BY <2>1, <2>4, <2>5
  <2>7. \A s \in error_suppressions' : \E l \in 1 .. NumLines : s \in suppressions_of(l)
    BY <2>1, <2>6 DEF LinesInv
  <2>8. \A l \in 1 .. linenum' : suppressions_of(l) \subseteq error_suppressions'
    BY <2>1, <2>6 DEF LinesInv
  <2>9. global_error_suppressions' = GlobalSuppressions' BY <2>1, <2>3 DEF LinesInv
  <2>10. phase' \in {"lines", "end"} /\ (phase' = "lines" => linenum' < NumLines)
    BY <2>1, <2>4, <2>5
  <2>11. linenum' \in Nat /\ linenum' <= NumLines BY <2>1, <2>4, <2>5
  <2>12. QED BY <2>1, <2>2, <2>4, <2>7, <2>8, <2>9, <2>10, <2>11 DEF LinesInv
<1>7. CASE EndData
  <2>1. /\ phase = "end" /\ phase' = "newlines"
        /\ UNCHANGED <<files, linenum, command_line, error_suppressions,
                       global_error_suppressions>>
    BY <1>7 DEF EndData, suppressions
  <2>2. file' = file /\ NumLines' = NumLines BY <2>1 DEF NumLines, file
  <2>3. GlobalSuppressions' = GlobalSuppressions BY <2>2 DEF GlobalSuppressions
  <2>4. QED BY <2>1, <2>2, <2>3 DEF LinesInv
<1>8. CASE CheckNewlines
  <2>1. /\ phase = "newlines" /\ phase' = "files" /\ files' = Tail(files) /\ linenum' = 0
        /\ UNCHANGED command_line
    BY <1>8 DEF CheckNewlines, NextFile
  <2>2. files # <<>> BY <2>1 DEF LinesInv
  <2>3. QED BY <2>1, <2>2, FileOK DEF LinesInv
<1>9. CASE Exit
  <2>1. phase' = "done" /\ UNCHANGED <<files, linenum, command_line>> BY <1>9 DEF Exit
  <2>2. QED BY <2>1 DEF LinesInv
<1>10. CASE UNCHANGED vars
  <2>1. UNCHANGED <<phase, files, linenum, command_line, error_suppressions,
                    global_error_suppressions>>
    BY <1>10 DEF vars, suppressions
  <2>2. file' = file /\ NumLines' = NumLines BY <2>1 DEF NumLines, file
  <2>3. GlobalSuppressions' = GlobalSuppressions BY <2>2 DEF GlobalSuppressions
  <2>4. QED BY <2>1, <2>2, <2>3 DEF LinesInv
<1>11. QED
  BY <1>1, <1>2, <1>3, <1>4, <1>5, <1>6, <1>7, <1>8, <1>9, <1>10 DEF Next

\* LinesInv is an invariant of the runs of cpplint.py.
LEMMA LinesInvHolds == Spec => []LinesInv
<1>1. Init => LinesInv
  <2>1. SUFFICES ASSUME Init PROVE LinesInv OBVIOUS
  <2>2. /\ command_line \in CommandLines /\ files = <<>> /\ linenum = 0
        /\ phase = "arguments"
    BY <2>1 DEF Init
  <2>3. files \in Seq(Files) BY <2>2
  <2>4. QED BY <2>2, <2>3 DEF LinesInv, InFile
<1>2. LinesInv /\ [Next]_vars => LinesInv' BY LinesInvInductive
<1>3. QED BY <1>1, <1>2, PTL DEF Spec


\* An error that is not printed is not confident enough, filtered, or suppressed by what
\* the file or one of its lines says.
LEMMA NotPrinted ==
  ASSUME NEW error, NEW line_suppressions, NEW file_suppressions,
         ~ShouldPrintError(error, line_suppressions, file_suppressions),
         file_suppressions \subseteq GlobalSuppressions,
         \A s \in line_suppressions :
           \E l \in 1 .. NumLines : s \in NolintSuppressions(file.lines[l], l)
  PROVE  \/ ~(error.confidence >= verbose_level)
         \/ IsFiltered(filters, error.category)
         \/ error.category \in GlobalSuppressions
         \/ \E l \in 1 .. NumLines : NolintIsAbout(l, error)
<1>1. CASE ~IsSuppressed(error, line_suppressions, file_suppressions)
  BY <1>1 DEF ShouldPrintError
<1>2. CASE error.category \in file_suppressions BY <1>2
<1>3. ASSUME NEW c \in {error.category, "all"},
             [category |-> c, linenum |-> error.linenum] \in line_suppressions
      PROVE  \E l \in 1 .. NumLines : NolintIsAbout(l, error)
  <2>1. PICK l \in 1 .. NumLines :
          [category |-> c, linenum |-> error.linenum] \in NolintSuppressions(file.lines[l], l)
    BY <1>3
  <2>2. file.lines[l].nolint = c
        /\ error.linenum = IF file.lines[l].nextline THEN l + 1 ELSE l
    BY <2>1 DEF NolintSuppressions
  <2>3. QED BY <2>2 DEF NolintIsAbout
<1>4. QED BY <1>1, <1>2, <1>3 DEF IsSuppressed

\* An error that is printed is not one a comment of the given lines is about.
LEMMA Printed ==
  ASSUME NEW error, error.category \in Categories,
         NEW line_suppressions, NEW file_suppressions,
         ShouldPrintError(error, line_suppressions, file_suppressions),
         NEW L, \A l \in L : NolintSuppressions(file.lines[l], l) \subseteq line_suppressions
  PROVE  \A l \in L : ~NolintIsAbout(l, error)
<1>1. SUFFICES ASSUME NEW l \in L, NolintIsAbout(l, error) PROVE FALSE OBVIOUS
<1> DEFINE c == file.lines[l].nolint
<1>2. c \in {error.category, "all"}
      /\ error.linenum = IF file.lines[l].nextline THEN l + 1 ELSE l
  BY <1>1 DEF NolintIsAbout
<1>3. [category |-> c, linenum |-> error.linenum] \in NolintSuppressions(file.lines[l], l)
  BY <1>2 DEF NolintSuppressions
<1>4. IsSuppressed(error, line_suppressions, file_suppressions)
  BY <1>2, <1>3 DEF IsSuppressed
<1>5. QED BY <1>4 DEF ShouldPrintError

\* The suppressions a line, the end of the file or its line ends are checked with.
LEMMA LaterSteps ==
  ASSUME LinesInv, [Next]_vars, ProcessLine \/ EndData \/ CheckNewlines
  PROVE  /\ shown' = {error \in emitted' :
                        ShouldPrintError(error, error_suppressions',
                                         global_error_suppressions')}
         /\ \A error \in emitted' : error.category \in Categories
         /\ global_error_suppressions' = GlobalSuppressions
         /\ \A s \in error_suppressions' :
              \E l \in 1 .. NumLines : s \in NolintSuppressions(file.lines[l], l)
         /\ \A error : \A l \in LinesRead(error) :
              NolintSuppressions(file.lines[l], l) \subseteq error_suppressions'
<1> USE DEF InFile
<1>1. CASE ProcessLine
  <2>1. /\ phase = "lines" /\ linenum' = linenum + 1 /\ files' = files
        /\ phase' \in {"lines", "end"}
        /\ emitted' = NolintErrors(file.lines[linenum'], linenum')
                        \cup file.lines[linenum'].errors
        /\ shown' = {error \in emitted' : ShouldPrintError(error, error_suppressions',
                                                           global_error_suppressions')}
    BY <1>1 DEF ProcessLine, Emitting, Emit
  <2>2. file' = file /\ NumLines' = NumLines BY <2>1 DEF NumLines, file
  <2>3. GlobalSuppressions' = GlobalSuppressions BY <2>2 DEF GlobalSuppressions
  <2>4. LinesInv' BY LinesInvInductive
  <2>5. linenum' \in 1 .. NumLines /\ files # <<>>
    BY <2>1, FileOK DEF LinesInv
  <2>6. file.lines[linenum'].errors \subseteq ErrorsOf(file) BY <2>5, FileOK DEF ErrorsOf
  <2>7. \A error \in NolintErrors(file.lines[linenum'], linenum') :
          error.category \in Categories
    BY FilesAssumption DEF NolintErrors
  <2>8. \A error : LinesRead(error) = 1 .. linenum' BY <2>1 DEF LinesRead
  <2>9. QED BY <2>1, <2>2, <2>3, <2>4, <2>5, <2>6, <2>7, <2>8, FileOK DEF LinesInv
<1>2. CASE EndData
  <2>1. /\ phase = "end" /\ emitted' = file.file_errors
        /\ shown' = {error \in emitted' : ShouldPrintError(error, error_suppressions',
                                                           global_error_suppressions')}
        /\ error_suppressions' = error_suppressions
        /\ global_error_suppressions' = global_error_suppressions
    BY <1>2 DEF EndData, Emitting, Emit, suppressions
  <2>2. files # <<>> BY <2>1 DEF LinesInv
  <2>3. file.file_errors \subseteq ErrorsOf(file) BY DEF ErrorsOf
  <2>4. \A error : LinesRead(error) = 1 .. linenum BY <2>1 DEF LinesRead
  <2>5. QED BY <2>1, <2>2, <2>3, <2>4, FileOK DEF LinesInv
<1>3. CASE CheckNewlines
  <2>1. /\ phase = "newlines"
        /\ \A error \in emitted' : error.category = "whitespace/newline"
        /\ shown' = {error \in emitted' : ShouldPrintError(error, error_suppressions',
                                                           global_error_suppressions')}
        /\ error_suppressions' = error_suppressions
        /\ global_error_suppressions' = global_error_suppressions
    BY <1>3 DEF CheckNewlines, Emitting, Emit, suppressions
  <2>2. \A error : LinesRead(error) = 1 .. linenum BY <2>1 DEF LinesRead
  <2>3. \A error \in emitted' : error.category \in Categories BY <2>1, FilesAssumption
  <2>4. QED BY <2>1, <2>2, <2>3 DEF LinesInv
<1>4. QED BY <1>1, <1>2, <1>3

\* The suppressions the copyright, the comments and the header guard are checked with.
LEMMA FirstStep ==
  ASSUME LinesInv, BeginData
  PROVE  /\ global_error_suppressions' = GlobalSuppressions
         /\ \A s \in error_suppressions' :
              \E l \in 1 .. NumLines : s \in NolintSuppressions(file.lines[l], l)
         /\ \A error \in emitted' \ shown' :
              \/ ~ShouldPrintError(error, {}, {})
              \/ ~ShouldPrintError(error, {}, GlobalSuppressions)
              \/ ~ShouldPrintError(error, error_suppressions', GlobalSuppressions)
         /\ \A error \in shown' :
              error.category = "build/header_guard" /\ error.linenum \in 1 .. NumLines =>
              /\ ShouldPrintError(error, error_suppressions', GlobalSuppressions)
              /\ NolintSuppressions(file.lines[error.linenum], error.linenum)
                   \subseteq error_suppressions'
<1> DEFINE is_checked == ~HasNolint("build/header_guard")
           guard_lines == IF is_checked /\ ~file.lacks_guard THEN file.guard_lines ELSE {}
           copyright == IF file.has_copyright THEN {}
                        ELSE {[category |-> "legal/copyright", confidence |-> 5, linenum |-> 0]}
           no_guard == IF is_checked /\ file.lacks_guard
                       THEN {[category |-> "build/header_guard", confidence |-> 5, linenum |-> 0]}
                       ELSE {}
           bad_guards == {[category |-> "build/header_guard", confidence |-> 5, linenum |-> l] :
                            l \in guard_lines \cap file.bad_guard_lines}
           bad_nolints == UNION {NolintErrors(file.lines[l], l) : l \in guard_lines}
           guard_errors == bad_guards \cup bad_nolints
<1>1. /\ phase = "data"
      /\ global_error_suppressions' = GlobalSuppressions
      /\ error_suppressions' = NoNolintSuppressions
           \cup UNION {NolintSuppressions(file.lines[l], l) : l \in guard_lines}
      /\ emitted' = copyright \cup file.comment_errors \cup no_guard \cup guard_errors
      /\ shown' =
           {error \in copyright : ShouldPrintError(error, NoNolintSuppressions, {})}
           \cup {error \in file.comment_errors \cup no_guard :
                   ShouldPrintError(error, NoNolintSuppressions, global_error_suppressions')}
           \cup {error \in guard_errors :
                   ShouldPrintError(error, error_suppressions', global_error_suppressions')}
  BY DEF BeginData, Emit
<1>2. files # <<>> BY <1>1 DEF LinesInv, InFile
<1>3. guard_lines \subseteq 1 .. NumLines BY <1>2, FileOK
<1>4. \A s \in error_suppressions' :
        \E l \in 1 .. NumLines : s \in NolintSuppressions(file.lines[l], l)
  BY <1>1, <1>3 DEF NoNolintSuppressions
<1>5. \A error \in copyright \cup file.comment_errors \cup bad_nolints :
        error.category # "build/header_guard"
  BY <1>2, FileOK DEF NolintErrors
<1>6. \A error \in bad_guards :
        NolintSuppressions(file.lines[error.linenum], error.linenum) \subseteq error_suppressions'
  BY <1>1
<1>10. \A error \in no_guard : error.linenum \notin 1 .. NumLines OBVIOUS
<1> HIDE DEF is_checked, guard_lines, copyright, no_guard, bad_guards, bad_nolints
<1>7. \A error \in emitted' \ shown' :
        \/ ~ShouldPrintError(error, {}, {})
        \/ ~ShouldPrintError(error, {}, GlobalSuppressions)
        \/ ~ShouldPrintError(error, error_suppressions', GlobalSuppressions)
  BY <1>1 DEF NoNolintSuppressions
<1>8. \A error \in shown' :
        error.category = "build/header_guard" /\ error.linenum \in 1 .. NumLines =>
        /\ ShouldPrintError(error, error_suppressions', GlobalSuppressions)
        /\ error \in bad_guards
  BY <1>1, <1>5, <1>10
<1>9. QED BY <1>1, <1>4, <1>6, <1>7, <1>8

\* No comment and no kind of another file suppresses an error.
THEOREM SuppressionsAreTheFiles == Spec => SuppressedByItsFile
<1> DEFINE Shown == \A error \in emitted' \ shown' :
             \/ ~(error.confidence >= verbose_level)
             \/ IsFiltered(filters, error.category)
             \/ error.category \in GlobalSuppressions
             \/ \E l \in 1 .. NumLines : NolintIsAbout(l, error)
<1>1. LinesInv /\ [Next]_vars => [Shown]_vars
  <2> SUFFICES ASSUME LinesInv, Next PROVE Shown
    OBVIOUS
  <2>1. CASE ParseArguments \/ StartFile \/ SkipFile \/ FailToOverride \/ Exit
    <3>1. emitted' = {}
      BY <2>1 DEF ParseArguments, StartFile, SkipFile, FailToOverride, Exit, Override, EmitNothing
    <3>2. QED BY <3>1
  <2>2. CASE ProcessLine \/ EndData \/ CheckNewlines
    <3>1. SUFFICES ASSUME NEW error \in emitted' \ shown'
                   PROVE  \/ ~(error.confidence >= verbose_level)
                          \/ IsFiltered(filters, error.category)
                          \/ error.category \in GlobalSuppressions
                          \/ \E l \in 1 .. NumLines : NolintIsAbout(l, error)
      OBVIOUS
    <3>2. ~ShouldPrintError(error, error_suppressions', global_error_suppressions')
      BY <2>2, LaterSteps
    <3>3. QED BY <2>2, <3>2, LaterSteps, NotPrinted
  <2>3. CASE BeginData
    <3>1. SUFFICES ASSUME NEW error \in emitted' \ shown'
                   PROVE  \/ ~(error.confidence >= verbose_level)
                          \/ IsFiltered(filters, error.category)
                          \/ error.category \in GlobalSuppressions
                          \/ \E l \in 1 .. NumLines : NolintIsAbout(l, error)
      OBVIOUS
    <3>2. CASE ~ShouldPrintError(error, {}, {}) BY <3>2, NotPrinted
    <3>3. CASE ~ShouldPrintError(error, {}, GlobalSuppressions) BY <3>3, NotPrinted
    <3>4. CASE ~ShouldPrintError(error, error_suppressions', GlobalSuppressions)
      BY <2>3, <3>4, FirstStep, NotPrinted
    <3>5. QED BY <2>3, <3>2, <3>3, <3>4, FirstStep
  <2>4. QED BY <2>1, <2>2, <2>3 DEF Next
<1>2. QED BY <1>1, LinesInvHolds, PTL DEF Spec, SuppressedByItsFile

\* What a comment of a line that has been read is about is never printed.
THEOREM NolintIsObeyed == Spec => NolintIsHonoured
<1> DEFINE Honoured == \A error \in shown' :
             error.linenum \in LinesRead(error) =>
               \A l \in LinesRead(error) : ~NolintIsAbout(l, error)
<1>1. LinesInv /\ [Next]_vars => [Honoured]_vars
  <2> SUFFICES ASSUME LinesInv, Next PROVE Honoured
    OBVIOUS
  <2>1. CASE ParseArguments \/ StartFile \/ SkipFile \/ FailToOverride \/ Exit
    <3>1. shown' = {}
      BY <2>1 DEF ParseArguments, StartFile, SkipFile, FailToOverride, Exit, Override, EmitNothing
    <3>2. QED BY <3>1
  <2>2. CASE ProcessLine \/ EndData \/ CheckNewlines
    <3>1. SUFFICES ASSUME NEW error \in shown'
                   PROVE  \A l \in LinesRead(error) : ~NolintIsAbout(l, error)
      OBVIOUS
    <3>2. /\ error.category \in Categories
          /\ ShouldPrintError(error, error_suppressions', global_error_suppressions')
          /\ \A l \in LinesRead(error) :
               NolintSuppressions(file.lines[l], l) \subseteq error_suppressions'
      BY <2>2, LaterSteps
    <3>3. QED BY <3>2, Printed
  <2>3. CASE BeginData
    <3>1. SUFFICES ASSUME NEW error \in shown', error.linenum \in LinesRead(error)
                   PROVE  \A l \in LinesRead(error) : ~NolintIsAbout(l, error)
      OBVIOUS
    <3>2. phase = "data" /\ linenum = 0 BY <2>3 DEF BeginData, LinesInv
    <3>3. CASE error.category = "build/header_guard"
      <4>1. LinesRead(error) = {error.linenum} \cap 1 .. NumLines BY <3>2, <3>3 DEF LinesRead
      <4>2. error.linenum \in 1 .. NumLines BY <3>1, <4>1
      <4>3. error.category \in Categories BY <3>3, FilesAssumption
      <4>4. /\ ShouldPrintError(error, error_suppressions', GlobalSuppressions)
            /\ \A l \in LinesRead(error) :
                 NolintSuppressions(file.lines[l], l) \subseteq error_suppressions'
        BY <2>3, <3>3, <4>1, <4>2, FirstStep
      <4>5. QED BY <4>3, <4>4, Printed
    <3>4. CASE error.category # "build/header_guard"
      <4>1. LinesRead(error) = 1 .. 0 BY <3>2, <3>4 DEF LinesRead
      <4>2. QED BY <4>1
    <3>5. QED BY <3>3, <3>4
  <2>4. QED BY <2>1, <2>2, <2>3 DEF Next
<1>2. QED BY <1>1, LinesInvHolds, PTL DEF Spec, NolintIsHonoured

----------------------------------------------------------------------------
(* Counts.                                                                  *)

\* The last part of TypeOK is about all filters there are or will be again.
SignsInv ==
  phase \notin {"arguments", "usage", "crashed"} =>
    /\ \A i \in DOMAIN CommandLineFilters : IsFilter(CommandLineFilters[i])
    /\ \A i \in DOMAIN filters : IsFilter(filters[i])

CountsInv ==
  /\ phase \in {"arguments", "files", "data", "lines", "end", "newlines", "done",
                "usage", "crashed"}
  /\ phase = "arguments" => filters = DefaultFilters
  /\ SignsInv
  /\ processed \in Nat /\ exit_code \in -1 .. 1
  /\ error_count \in Nat /\ printed = error_count
  /\ errors_by_category \in [Keys -> Nat]
  /\ command_line.counting # "total" => error_count = SumOf(errors_by_category, Keys)
  /\ phase = "done" => (exit_code = 1 <=> printed > 0)
  /\ shown \subseteq emitted

\* The keys are finitely many.
LEMMA KeysAreFinite == IsFiniteSet(Keys) /\ \A category \in Categories :
                          category \in Keys /\ CategoryOf[category] \in Keys
<1>1. IsFiniteSet(Categories)
  BY FilesAssumption
<1> DEFINE f == [category \in Categories |-> CategoryOf[category]]
           K == {f[category] : category \in Categories}
<1>2. Keys = Categories \cup K
  BY DEF Keys
<1>3. IsFiniteSet(K)
  <2> HIDE DEF f
  <2>1. DOMAIN f = Categories
    BY DEF f
  <2> QED
    BY <1>1, <2>1, ImageIsFinite
<1>4. IsFiniteSet(Keys)
  <2> HIDE DEF K
  <2> QED
    BY <1>1, <1>2, <1>3, FS_Union
<1> QED
  BY <1>4 DEF Keys

\* Errors that are printed are counted, each for one key if any is.
LEMMA EmitCounts ==
  ASSUME NEW errors, NEW printing, printing \subseteq errors, IsFiniteSet(errors),
         \A error \in errors : error.category \in Categories,
         Emit(errors, printing), command_line' = command_line, command_line \in CommandLines,
         CountsInv
  PROVE  /\ error_count' \in Nat /\ printed' = error_count'
         /\ errors_by_category' \in [Keys -> Nat]
         /\ command_line'.counting # "total" => error_count' = SumOf(errors_by_category', Keys)
         /\ shown' \subseteq emitted'
<1> DEFINE more == [key \in Keys |->
                     Cardinality({error \in printing : key \in CountedFor(error)})]
<1>1. IsFiniteSet(printing) /\ Cardinality(printing) \in Nat
  BY FS_Subset, FS_CardinalityType
<1>2. ASSUME NEW key \in Keys
      PROVE  more[key] \in Nat
  BY <1>1, FS_Subset, FS_CardinalityType
<1>3. more \in [Keys -> Nat]
  BY <1>2
<1>4. /\ errors_by_category \in [Keys -> Nat]
      /\ errors_by_category' = [key \in Keys |-> errors_by_category[key] + more[key]]
  BY DEF Emit, IncrementByCategory, CountsInv
<1>5. /\ error_count \in Nat /\ printed = error_count
      /\ error_count' = error_count + Cardinality(printing)
      /\ printed' = printed + Cardinality(printing)
      /\ emitted' = errors /\ shown' = printing
  BY DEF Emit, CountsInv
<1>6. errors_by_category' \in [Keys -> Nat]
  <2> HIDE DEF more
  <2> QED
    BY <1>3, <1>4
<1>7. ASSUME command_line.counting # "total"
      PROVE  SumOf(more, Keys) = Cardinality(printing)
  <2> DEFINE class == [error \in printing |-> IF command_line.counting = "toplevel"
                                              THEN CategoryOf[error.category]
                                              ELSE error.category]
  <2>1. command_line.counting \in {"toplevel", "detailed"}
    BY <1>7, FilesAssumption
  <2>2. \A error \in printing : CountedFor(error) = {class[error]}
    BY <2>1 DEF CountedFor
  <2>3. class \in [printing -> Keys]
    BY KeysAreFinite
  <2> HIDE DEF class
  <2>4. ASSUME NEW key \in Keys
        PROVE  more[key] = Cardinality({error \in printing : class[error] = key})
    <3>1. {error \in printing : key \in CountedFor(error)}
                  = {error \in printing : class[error] = key}
      BY <2>2
    <3> QED
      BY <3>1
  <2> HIDE DEF more
  <2> QED
    BY <1>1, <1>3, <2>3, <2>4, KeysAreFinite, SumOfClasses
<1>8. SumOf(errors_by_category', Keys) = SumOf(errors_by_category, Keys) + SumOf(more, Keys)
  <2> DEFINE new == errors_by_category'
  <2>1. new \in [Keys -> Nat] /\ \A key \in Keys : new[key] = errors_by_category[key] + more[key]
    BY <1>4, <1>6
  <2> HIDE DEF new, more
  <2>2. SumOf(new, Keys) = SumOf(errors_by_category, Keys) + SumOf(more, Keys)
    BY <1>3, <1>4, <2>1, KeysAreFinite, SumAdds
  <2> QED
    BY <2>2 DEF new
<1> HIDE DEF more
<1>9. command_line.counting # "total" => error_count = SumOf(errors_by_category, Keys)
  BY DEF CountsInv
<1> QED
  BY <1>1, <1>5, <1>6, <1>7, <1>8, <1>9

\* The same error of each of some lines.
ErrorsAt(L, category, confidence) ==
  {[category |-> category, confidence |-> confidence, linenum |-> l] : l \in L}

\* What is given for each of some lines is finite.
LEMMA ErrorsOfLines ==
  ASSUME NEW L, IsFiniteSet(L), NEW category, NEW confidence
  PROVE  IsFiniteSet(ErrorsAt(L, category, confidence))
<1> DEFINE f == [l \in L |-> [category |-> category, confidence |-> confidence, linenum |-> l]]
<1>1. DOMAIN f = L
  OBVIOUS
<1>2. {f[l] : l \in L} = ErrorsAt(L, category, confidence)
  BY DEF ErrorsAt
<1> HIDE DEF f
<1>3. IsFiniteSet({f[l] : l \in L})
  BY <1>1, ImageIsFinite
<1> QED
  BY <1>2, <1>3

\* So are some of the lines.
LEMMA SomeLines ==
  ASSUME NEW n \in Nat, NEW L, L \subseteq 1 .. n
  PROVE  IsFiniteSet(L)
<1>1. IsFiniteSet(1 .. n)
  BY FS_Interval
<1> QED
  BY <1>1, FS_Subset

\* The copyright, the comments and the header guard are counted.
LEMMA BeginDataCounts ==
  ASSUME LinesInv, CountsInv, BeginData
  PROVE  /\ error_count' \in Nat /\ printed' = error_count'
         /\ errors_by_category' \in [Keys -> Nat]
         /\ command_line'.counting # "total" => error_count' = SumOf(errors_by_category', Keys)
         /\ shown' \subseteq emitted'
<1> DEFINE is_checked == ~HasNolint("build/header_guard")
           guard_lines == IF is_checked /\ ~file.lacks_guard THEN file.guard_lines ELSE {}
           copyright == IF file.has_copyright THEN {}
                        ELSE {[category |-> "legal/copyright", confidence |-> 5, linenum |-> 0]}
           no_guard == IF is_checked /\ file.lacks_guard
                       THEN {[category |-> "build/header_guard", confidence |-> 5, linenum |-> 0]}
                       ELSE {}
           bad_guards == {[category |-> "build/header_guard", confidence |-> 5, linenum |-> l] :
                            l \in guard_lines \cap file.bad_guard_lines}
           nolints == ErrorsAt(guard_lines, "readability/nolint", 5)
           bad_nolints == UNION {NolintErrors(file.lines[l], l) : l \in guard_lines}
           errors == copyright \cup file.comment_errors \cup no_guard
                        \cup (bad_guards \cup bad_nolints)
           printing == {error \in copyright : ShouldPrintError(error, NoNolintSuppressions, {})}
             \cup {error \in file.comment_errors \cup no_guard :
                     ShouldPrintError(error, NoNolintSuppressions, global_error_suppressions')}
             \cup {error \in bad_guards \cup bad_nolints :
                     ShouldPrintError(error, error_suppressions', global_error_suppressions')}
<1>1. /\ phase = "data" /\ Emit(errors, printing) /\ command_line' = command_line
      /\ command_line \in CommandLines
  BY DEF BeginData, LinesInv
<1>2. files # <<>>
  BY <1>1 DEF LinesInv, InFile
<1>3. IsFiniteSet(guard_lines)
  <2>1. guard_lines \subseteq 1 .. NumLines /\ NumLines \in Nat
    BY <1>2, FileOK
  <2> HIDE DEF guard_lines
  <2> QED
    BY <2>1, SomeLines
<1>4. IsFiniteSet(copyright) /\ IsFiniteSet(no_guard)
  BY FS_EmptySet, FS_Singleton
<1>5. IsFiniteSet(file.comment_errors)
  <2>1. file \in Files /\ file.comment_errors \subseteq ErrorsOf(file)
    BY <1>2, FileOK DEF ErrorsOf
  <2> QED
    BY <2>1, FilesAssumption, FS_Subset
<1> HIDE DEF guard_lines
<1>6. IsFiniteSet(bad_guards)
  <2> DEFINE bad_lines == guard_lines \cap file.bad_guard_lines
  <2>1. IsFiniteSet(bad_lines)
    BY <1>3, FS_Subset
  <2>2. bad_guards = ErrorsAt(bad_lines, "build/header_guard", 5)
    BY DEF ErrorsAt
  <2> HIDE DEF bad_lines, bad_guards
  <2> QED
    BY <2>1, <2>2, ErrorsOfLines
<1>7. IsFiniteSet(bad_nolints)
  <2>1. IsFiniteSet(nolints)
    BY <1>3, ErrorsOfLines
  <2>2. bad_nolints \subseteq nolints
    BY DEF NolintErrors, ErrorsAt
  <2> QED
    BY <2>1, <2>2, FS_Subset
<1>8. \A error \in errors : error.category \in Categories
  <2>1. \A error \in file.comment_errors : error.category \in Categories
    BY <1>2, FileOK DEF ErrorsOf
  <2> QED
    BY <2>1, FilesAssumption DEF NolintErrors
<1>9. printing \subseteq errors
  OBVIOUS
<1> HIDE DEF copyright, no_guard, bad_guards, bad_nolints, printing
<1>10. IsFiniteSet(errors)
  BY <1>4, <1>5, <1>6, <1>7, FS_Union
<1> HIDE DEF errors
<1> QED
  BY <1>1, <1>8, <1>9, <1>10, EmitCounts

\* So are the errors of a line, of the file and of its line ends.
LEMMA LaterCounts ==
  ASSUME LinesInv, CountsInv, ProcessLine \/ EndData \/ CheckNewlines
  PROVE  /\ error_count' \in Nat /\ printed' = error_count'
         /\ errors_by_category' \in [Keys -> Nat]
         /\ command_line'.counting # "total" => error_count' = SumOf(errors_by_category', Keys)
         /\ shown' \subseteq emitted'
<1> DEFINE printing(errors) ==
             {error \in errors : ShouldPrintError(error, error_suppressions',
                                                  global_error_suppressions')}
<1>1. ASSUME NEW errors, IsFiniteSet(errors), Emitting(errors), command_line' = command_line
      PROVE  /\ error_count' \in Nat /\ printed' = error_count'
             /\ errors_by_category' \in [Keys -> Nat]
             /\ command_line'.counting # "total" => error_count' = SumOf(errors_by_category', Keys)
             /\ shown' \subseteq emitted'
  <2>1. Emit(errors, printing(errors)) /\ printing(errors) \subseteq errors /\ emitted' = errors
    BY <1>1 DEF Emitting, Emit
  <2>2. \A error \in errors : error.category \in Categories
    BY <2>1, LaterSteps DEF Next
  <2> HIDE DEF printing
  <2>3. command_line \in CommandLines
    BY DEF LinesInv
  <2> QED
    BY <1>1, <2>1, <2>2, <2>3, EmitCounts
<1>2. ASSUME files # <<>>
      PROVE  IsFiniteSet(ErrorsOf(file)) /\ NumLines \in Nat
  BY <1>2, FileOK, FilesAssumption
<1>3. CASE ProcessLine
  <2> DEFINE line == file.lines[linenum']
             nolints == NolintErrors(line, linenum')
  <2>1. /\ phase = "lines" /\ linenum' = linenum + 1 /\ Emitting(nolints \cup line.errors)
        /\ command_line' = command_line
    BY <1>3 DEF ProcessLine
  <2>2. files # <<>> /\ linenum < NumLines /\ linenum \in Nat
    BY <2>1 DEF LinesInv, InFile
  <2>3. linenum' \in DOMAIN file.lines
    BY <2>1, <2>2, FileOK
  <2>4. line.errors \subseteq ErrorsOf(file)
    BY <2>3 DEF ErrorsOf
  <2>5. IsFiniteSet(line.errors)
    BY <1>2, <2>2, <2>4, FS_Subset
  <2>6. IsFiniteSet(nolints)
    BY FS_EmptySet, FS_Singleton DEF NolintErrors
  <2> HIDE DEF line, nolints
  <2>7. IsFiniteSet(nolints \cup line.errors)
    BY <2>5, <2>6, FS_Union
  <2> QED
    BY <1>1, <2>1, <2>7
<1>4. CASE EndData
  <2>1. phase = "end" /\ Emitting(file.file_errors) /\ command_line' = command_line
    BY <1>4 DEF EndData
  <2>2. IsFiniteSet(file.file_errors)
    <3>1. files # <<>> /\ file.file_errors \subseteq ErrorsOf(file)
      BY <2>1 DEF LinesInv, InFile, ErrorsOf
    <3> QED
      BY <1>2, <3>1, FS_Subset
  <2> QED
    BY <1>1, <2>1, <2>2
<1>5. CASE CheckNewlines
  <2> DEFINE ended_lines == 1 .. NumLines - 1
             crlf_lines == {l \in ended_lines : file.lines[l].crlf}
             mixed_lines == IF crlf_lines = ended_lines THEN {} ELSE crlf_lines
             errors == {[category |-> "whitespace/newline", confidence |-> 1, linenum |-> l] :
                          l \in mixed_lines}
  <2>1. phase = "newlines" /\ Emitting(errors) /\ command_line' = command_line
    BY <1>5 DEF CheckNewlines
  <2>2. files # <<>> /\ mixed_lines \subseteq 1 .. NumLines - 1
    BY <2>1 DEF LinesInv, InFile
  <2> HIDE DEF mixed_lines
  <2>3. IsFiniteSet(mixed_lines)
    <3>1. NumLines - 1 \in Nat
      BY <2>2, FileOK
    <3> QED
      BY <2>2, <3>1, SomeLines
  <2>4. IsFiniteSet(errors)
    <3>1. errors = ErrorsAt(mixed_lines, "whitespace/newline", 1)
      BY DEF ErrorsAt
    <3> HIDE DEF errors
    <3> QED
      BY <2>3, <3>1, ErrorsOfLines
  <2> HIDE DEF errors
  <2> QED
    BY <1>1, <2>1, <2>4
<1> QED
  BY <1>3, <1>4, <1>5

\* A step that gives no error leaves the counts alone.
LEMMA NothingCounts ==
  ASSUME CountsInv, EmitNothing, command_line' = command_line
  PROVE  /\ error_count' \in Nat /\ printed' = error_count'
         /\ errors_by_category' \in [Keys -> Nat]
         /\ command_line'.counting # "total" => error_count' = SumOf(errors_by_category', Keys)
         /\ shown' \subseteq emitted'
BY DEF CountsInv, EmitNothing

\* Every step keeps the counts, the signs of the filters and the types.
LEMMA CountsInvInductive ==
  ASSUME LinesInv, FiltersInv, CountsInv, [Next]_vars
  PROVE  CountsInv'
<1>1. CASE ParseArguments
  <2>1. /\ filters' = DefaultFilters \o command_line.filters /\ command_line' = command_line
        /\ processed' = processed /\ exit_code' \in -1 .. 1 /\ EmitNothing
        /\ phase' \in {"usage", "files", "crashed"}
        /\ phase' = "files" => \A i \in DOMAIN filters' : IsFilter(filters'[i])
    BY <1>1 DEF ParseArguments
  <2>2. SignsInv'
    BY <2>1 DEF SignsInv, CommandLineFilters, IsFilter
  <2> QED
    BY <2>1, <2>2, NothingCounts DEF CountsInv
<1>2. CASE StartFile \/ SkipFile \/ FailToOverride
  <2>1. /\ EmitNothing /\ command_line' = command_line /\ phase = "files"
        /\ phase' \in {"data", "files", "crashed"}
        /\ processed' \in {processed, processed + 1} /\ exit_code' \in {exit_code, 1}
        /\ \/ filters' = filters
           \/ filters' = Overridden /\ CanOverride
    BY <1>2 DEF StartFile, SkipFile, FailToOverride, Override, NextFile
  <2>2. SignsInv'
    BY <2>1 DEF SignsInv, CountsInv, CommandLineFilters, CanOverride, IsFilter
  <2>3. processed' \in Nat /\ exit_code' \in -1 .. 1
    BY <2>1 DEF CountsInv
  <2> QED
    BY <2>1, <2>2, <2>3, NothingCounts DEF CountsInv
<1>3. CASE BeginData \/ ProcessLine \/ EndData
  <2>1. /\ command_line' = command_line /\ filters' = filters
        /\ processed' = processed /\ exit_code' = exit_code
        /\ phase \in {"data", "lines", "end"} /\ phase' \in {"lines", "end", "newlines"}
    BY <1>3 DEF BeginData, ProcessLine, EndData, settings
  <2>2. SignsInv'
    BY <2>1 DEF SignsInv, CountsInv, CommandLineFilters, IsFilter
  <2> QED
    BY <1>3, <2>1, <2>2, BeginDataCounts, LaterCounts DEF CountsInv
<1>4. CASE CheckNewlines
  <2>1. /\ command_line' = command_line /\ filters' = filters_backup
        /\ processed' = processed + 1 /\ exit_code' = exit_code
        /\ phase = "newlines" /\ phase' = "files"
    BY <1>4 DEF CheckNewlines, RestoreFilters, NextFile
  <2>2. filters' = CommandLineFilters
    BY <2>1 DEF FiltersInv, InFile
  <2>3. SignsInv'
    BY <2>1, <2>2 DEF SignsInv, CountsInv, CommandLineFilters, IsFilter
  <2>4. processed' \in Nat
    BY <2>1 DEF CountsInv
  <2> QED
    BY <1>4, <2>1, <2>3, <2>4, LaterCounts DEF CountsInv
<1>5. CASE Exit
  <2>1. /\ command_line' = command_line /\ filters' = filters /\ processed' = processed
        /\ phase = "files" /\ phase' = "done" /\ EmitNothing
        /\ exit_code' = IF error_count > 0 THEN 1 ELSE 0
    BY <1>5 DEF Exit, settings
  <2>2. SignsInv'
    BY <2>1 DEF SignsInv, CountsInv, CommandLineFilters, IsFilter
  <2>3. exit_code' \in -1 .. 1 /\ (exit_code' = 1 <=> printed' > 0)
    BY <2>1 DEF EmitNothing, CountsInv
  <2> QED
    BY <2>1, <2>2, <2>3, NothingCounts DEF CountsInv
<1>6. CASE UNCHANGED vars
  <2>1. UNCHANGED <<command_line, phase, filters, error_count, errors_by_category, emitted, shown,
                    printed, processed, exit_code>>
    BY <1>6 DEF vars, settings, counts
  <2> QED
    BY <2>1 DEF CountsInv, SignsInv, CommandLineFilters, IsFilter
<1> QED
  BY <1>1, <1>2, <1>3, <1>4, <1>5, <1>6 DEF Next

\* CountsInv is an invariant of the runs of cpplint.py.
LEMMA CountsInvHolds == Spec => []CountsInv
<1>1. Init => CountsInv
  <2> SUFFICES ASSUME Init PROVE CountsInv
    OBVIOUS
  <2>1. /\ phase = "arguments" /\ filters = DefaultFilters /\ processed = 0 /\ exit_code = -1
        /\ error_count = 0 /\ printed = 0 /\ emitted = {} /\ shown = {}
        /\ errors_by_category = [key \in Keys |-> 0]
    BY DEF Init
  <2>2. SumOf(errors_by_category, Keys) = 0
    BY <2>1, KeysAreFinite, SumOfNothing
  <2> QED
    BY <2>1, <2>2 DEF CountsInv, SignsInv
<1>2. LinesInv /\ FiltersInv /\ CountsInv /\ [Next]_vars => CountsInv'
  BY CountsInvInductive
<1> QED
  BY <1>1, <1>2, LinesInvHolds, FiltersInvHolds, PTL DEF Spec

\* The state of cpplint.py is what it should be, and _ShouldPrintError meets no filter
\* without a sign (its assertion, cpplint.py:1156).
THEOREM TypesAreKept == Spec => []TypeOK
<1>1. LinesInv /\ CountsInv => TypeOK
  <2> SUFFICES ASSUME LinesInv, CountsInv PROVE TypeOK
    OBVIOUS
  <2>1. phase \in {"data", "lines", "end", "newlines"}
          => \A i \in DOMAIN filters : IsFilter(filters[i])
    BY FilesAssumption DEF CountsInv, SignsInv
  <2>2. \A i \in DOMAIN filters : IsFilter(filters[i]) => filters[i].sign # "none"
    BY DEF IsFilter
  <2> QED
    BY <2>1, <2>2 DEF TypeOK, CountsInv, LinesInv
<1> QED
  BY <1>1, LinesInvHolds, CountsInvHolds, PTL

\* What is counted is what is printed, in total and by category (Error and
\* IncrementErrorCount), and the exit code says whether that is nothing.
THEOREM CountsAreRight == Spec => []CountsAgree
<1>1. CountsInv => CountsAgree
  BY DEF CountsInv, CountsAgree, SumOf
<1> QED
  BY <1>1, CountsInvHolds, PTL

----------------------------------------------------------------------------
(* The filters of a file.                                                   *)

\* The filters that are about a category.
About(category) == {filter \in AllFilters : category \in Prefixed[filter.name]}

\* The last filter about a category decides; with none it is not filtered.
LEMMA LastDecides ==
  ASSUME NEW s \in Seq(AllFilters), NEW category
  PROVE  /\ HasNone(s, About(category)) => ~IsFiltered(s, category)
         /\ \A filter : LastIn(s, About(category), filter) =>
              (IsFiltered(s, category) <=> filter.sign = "-")
<1> DEFINE n == Len(s)
           I == {i \in 1 .. n : category \in Prefixed[s[i].name]}
           last == IF I # {} THEN Max(I) ELSE 0
<1>1. /\ n \in Nat /\ DOMAIN s = 1 .. n
      /\ \A i \in 1 .. n : s[i] \in AllFilters
  OBVIOUS
<1>2. IsFiltered(s, category) <=> last # 0 /\ s[last].sign = "-"
  BY DEF IsFiltered, SelectLastInSeq
<1>3. I = {i \in 1 .. n : s[i] \in About(category)} BY <1>1 DEF About
<1> HIDE DEF n
<1>4. HasNone(s, About(category)) => I = {}
  <2> HIDE DEF I
  <2>1. QED BY <1>1, <1>3 DEF HasNone
<1>5. ASSUME NEW filter, LastIn(s, About(category), filter)
      PROVE  IsFiltered(s, category) <=> filter.sign = "-"
  <2>1. PICK i \in 1 .. n :
          s[i] = filter /\ \A j \in 1 .. n : j > i => s[j] \notin About(category)
    BY <1>1, <1>5 DEF LastIn
  <2>2. i \in I BY <1>3, <1>5, <2>1 DEF LastIn
  <2>3. \A j \in I : j <= i /\ j \in Nat
    <3> SUFFICES ASSUME NEW j \in I PROVE j <= i /\ j \in Nat OBVIOUS
    <3>1. j \in 1 .. n /\ s[j] \in About(category) BY <1>3
    <3>2. QED BY <2>1, <3>1
  <2>4. Max(I) = i
    <3> HIDE DEF I
    <3>1. \E x \in I : \A y \in I : x >= y BY <2>1, <2>2, <2>3
    <3>2. Max(I) \in I /\ \A y \in I : Max(I) >= y BY <3>1 DEF Max
    <3>3. Max(I) >= i /\ Max(I) <= i /\ Max(I) \in Nat BY <2>2, <2>3, <3>2
    <3>4. QED BY <2>1, <3>3
  <2>5. last = i /\ i # 0 BY <2>1, <2>2, <2>4
  <2> HIDE DEF last
  <2>6. QED BY <1>2, <2>1, <2>5
<1>6. QED BY <1>2, <1>4, <1>5

\* The options for a file by directory, the innermost first.
DirsOf(path) == [k \in 1 .. Len(path) |-> OptionsAt(path, Len(path) - k)]

Entries(path) == UNION {ToSet(DirsOf(path)[k]) : k \in 1 .. Len(path)}

\* The options with a filter about a category.
FiltersAbout(path, category) ==
  {o \in Entries(path) :
     o.option.name = "filter" /\ ~HasNone(o.option.filters, About(category))}

\* The options are sequences, and those of the name "filter" have filters.
LEMMA EntriesOK ==
  ASSUME NEW path, Len(path) \in Nat
  PROVE  /\ DirsOf(path) \in Seq(Seq(Entries(path)))
         /\ \A o \in Entries(path) :
              o.option.name = "filter" => o.option.filters \in Seq(AllFilters)
<1> DEFINE options(k) == CfgFiles[SubSeq(path, 1, Len(path) - k)].options
<1>1. ASSUME NEW k \in 1 .. Len(path)
      PROVE  /\ DirsOf(path)[k] \in Seq(Entries(path))
             /\ \A o \in ToSet(DirsOf(path)[k]) :
                  o.option.name = "filter" => o.option.filters \in Seq(AllFilters)
  <2>1. DirsOf(path)[k] = OptionsAt(path, Len(path) - k) BY DEF DirsOf
  <2>2. ToSet(DirsOf(path)[k]) \subseteq Entries(path) BY DEF Entries
  <2>3. CASE ~IsRead(path, Len(path) - k)
    <3>1. DirsOf(path)[k] = <<>> BY <2>1, <2>3 DEF OptionsAt
    <3>2. QED BY <3>1 DEF ToSet
  <2>4. CASE IsRead(path, Len(path) - k)
    <3> DEFINE entry(i) == [option |-> options(k)[i], base_name |-> path[Len(path) - k + 1]]
    <3>1. DirsOf(path)[k] = [i \in DOMAIN options(k) |-> entry(i)]
      BY <2>1, <2>4 DEF OptionsAt
    <3>2. SubSeq(path, 1, Len(path) - k) \in DOMAIN CfgFiles BY <2>4 DEF IsRead
    <3>3. /\ options(k) \in Seq(ToSet(options(k)))
          /\ \A option \in ToSet(options(k)) :
               option.name = "filter" => option.filters \in Seq(AllFilters)
      BY <3>2, CfgAssumption
    <3> HIDE DEF options
    <3>4. Len(options(k)) \in Nat /\ DOMAIN options(k) = 1 .. Len(options(k)) BY <3>3
    <3>5. \A i \in DOMAIN options(k) : entry(i) \in ToSet(DirsOf(path)[k])
      BY <3>1 DEF ToSet
    <3>6. DirsOf(path)[k] \in [1 .. Len(options(k)) -> Entries(path)]
      BY <2>2, <3>1, <3>4, <3>5
    <3>7. DirsOf(path)[k] \in Seq(Entries(path)) BY <3>4, <3>6
    <3>8. ASSUME NEW o \in ToSet(DirsOf(path)[k])
          PROVE  o.option.name = "filter" => o.option.filters \in Seq(AllFilters)
      <4>1. PICK i \in DOMAIN options(k) : o = entry(i) BY <3>1 DEF ToSet
      <4>2. o.option = options(k)[i] BY <4>1
      <4>3. o.option \in ToSet(options(k)) BY <4>1, <4>2 DEF ToSet
      <4>4. QED BY <3>3, <4>3
    <3>9. QED BY <3>7, <3>8
  <2>5. QED BY <2>3, <2>4
<1>2. DirsOf(path) \in [1 .. Len(path) -> Seq(Entries(path))] BY <1>1 DEF DirsOf
<1>3. DirsOf(path) \in Seq(Seq(Entries(path))) BY <1>2
<1>4. QED BY <1>1, <1>3 DEF Entries

\* The filters of a file none of whose CPPLINT.cfg files excludes it are those of
\* its "filter" options, the last option first.
LEMMA CfgFiltersAre ==
  ASSUME NEW path, Len(path) \in Nat, ~ReadCfgs(path).excluded
  PROVE  LET all == FlattenSeq(DirsOf(path))
             cfg_filters == ReadCfgs(path).cfg_filters
         IN  /\ all \in Seq(Entries(path))
             /\ cfg_filters \in [1 .. Len(all) -> Seq(AllFilters)]
             /\ \A i \in 1 .. Len(all) :
                  cfg_filters[i] = IF all[i].option.name = "filter"
                                   THEN all[i].option.filters ELSE <<>>
<1> DEFINE all == OptionsRead(path)
<1>1. all = FlattenSeq(DirsOf(path)) BY DEF OptionsRead, DirsOf
<1>2. ReadCfgs(path).cfg_filters =
        [i \in DOMAIN all |-> IF all[i].option.name = "filter"
                              THEN all[i].option.filters ELSE <<>>]
  BY DEF ReadCfgs
<1> HIDE DEF all
<1>3. all \in Seq(Entries(path)) BY <1>1, EntriesOK, FlattenAppend
<1>4. ASSUME NEW i \in DOMAIN all
      PROVE  (IF all[i].option.name = "filter" THEN all[i].option.filters ELSE <<>>)
               \in Seq(AllFilters)
  <2>1. all[i] \in Entries(path) BY <1>3
  <2>2. QED BY <2>1, EntriesOK
<1>5. DOMAIN all = 1 .. Len(all) BY <1>3
<1>6. QED BY <1>1, <1>2, <1>3, <1>4, <1>5

\* Reversed sequences have the same elements, the later ones first.
LEMMA Reversed ==
  ASSUME NEW S, NEW n \in Nat, NEW seqs \in [1 .. n -> S]
  PROVE  /\ Reverse(seqs) \in Seq(S) /\ DOMAIN Reverse(seqs) = 1 .. n
         /\ \A i \in 1 .. n : n + 1 - i \in 1 .. n /\ Reverse(seqs)[n + 1 - i] = seqs[i]
         /\ \A i \in 1 .. n : n + 1 - i \in 1 .. n /\ Reverse(seqs)[i] = seqs[n + 1 - i]
<1>1. Len(seqs) = n OBVIOUS
<1>2. Reverse(seqs) = [i \in 1 .. n |-> seqs[(n - i) + 1]] BY <1>1 DEF Reverse
<1>3. \A i \in 1 .. n : (n - i) + 1 \in 1 .. n /\ (n - i) + 1 = n + 1 - i OBVIOUS
<1>4. Reverse(seqs) \in [1 .. n -> S] BY <1>2, <1>3
<1>5. \A i \in 1 .. n : Reverse(seqs)[i] = seqs[n + 1 - i] BY <1>2, <1>3
<1>6. \A i \in 1 .. n : n + 1 - (n + 1 - i) = i OBVIOUS
<1>7. QED BY <1>3, <1>4, <1>5, <1>6

\* The innermost directory with a filter about a category decides about it.
LEMMA InnermostDecides ==
  ASSUME NEW path, Len(path) \in Nat, ~ReadCfgs(path).excluded, NEW category
  PROVE  LET list == FiltersOf(ReadCfgs(path).cfg_filters)
             dirs == DirsOf(path)
             M == FiltersAbout(path, category)
         IN  /\ list \in Seq(AllFilters)
             /\ (\A k \in 1 .. Len(path) : HasNone(dirs[k], M)) =>
                  HasNone(list, About(category))
             /\ \A k \in 1 .. Len(path) :
                  ~HasNone(dirs[k], M) /\ (\A j \in 1 .. Len(path) : j < k => HasNone(dirs[j], M))
                    => \E o \in ToSet(dirs[k]) \cap M : \E filter \in ToSet(o.option.filters) :
                         LastIn(list, About(category), filter)
<1> DEFINE list == FiltersOf(ReadCfgs(path).cfg_filters)
           dirs == DirsOf(path)
           M == FiltersAbout(path, category)
           all == FlattenSeq(dirs)
           n == Len(all)
           cfgs == ReadCfgs(path).cfg_filters
           reversed == Reverse(cfgs)
           A == About(category)
<1>1. /\ all \in Seq(Entries(path)) /\ n \in Nat /\ DOMAIN all = 1 .. n
      /\ cfgs \in [1 .. n -> Seq(AllFilters)]
      /\ \A i \in 1 .. n : cfgs[i] = IF all[i].option.name = "filter"
                                     THEN all[i].option.filters ELSE <<>>
  <2>1. /\ all \in Seq(Entries(path))
        /\ cfgs \in [1 .. n -> Seq(AllFilters)]
        /\ \A i \in 1 .. n : cfgs[i] = IF all[i].option.name = "filter"
                                       THEN all[i].option.filters ELSE <<>>
    BY CfgFiltersAre
  <2> HIDE DEF all, cfgs
  <2>2. n \in Nat /\ DOMAIN all = 1 .. n BY <2>1
  <2>3. QED BY <2>1, <2>2
<1>2. /\ reversed \in Seq(Seq(AllFilters)) /\ DOMAIN reversed = 1 .. n
      /\ \A i \in 1 .. n : n + 1 - i \in 1 .. n /\ reversed[n + 1 - i] = cfgs[i]
      /\ \A i \in 1 .. n : n + 1 - i \in 1 .. n /\ reversed[i] = cfgs[n + 1 - i]
  <2> DEFINE T == Seq(AllFilters)
  <2>1. n \in Nat /\ cfgs \in [1 .. n -> T] BY <1>1
  <2> HIDE DEF n, cfgs, T
  <2>2. /\ Reverse(cfgs) \in Seq(T) /\ DOMAIN Reverse(cfgs) = 1 .. n
        /\ \A i \in 1 .. n : n + 1 - i \in 1 .. n /\ Reverse(cfgs)[n + 1 - i] = cfgs[i]
        /\ \A i \in 1 .. n : n + 1 - i \in 1 .. n /\ Reverse(cfgs)[i] = cfgs[n + 1 - i]
    BY <2>1, Reversed
  <2>3. QED BY <2>2 DEF T
<1>3. list = FlattenSeq(reversed) BY DEF FiltersOf
<1>4. dirs \in Seq(Seq(Entries(path))) /\ DOMAIN dirs = 1 .. Len(path)
  BY EntriesOK DEF DirsOf
<1> HIDE DEF list, dirs, M, n, cfgs, reversed, A
<1>5. list \in Seq(AllFilters) BY <1>2, <1>3, FlattenAppend
<1>6. FlattensIn(reversed, A) BY <1>2, FlattenedIn
<1>7. FlattensIn(dirs, M) BY <1>4, FlattenedIn
<1> HIDE DEF all
<1>8. ASSUME NEW i \in 1 .. n, all[i] \notin M PROVE HasNone(cfgs[i], A)
  <2>1. all[i] \in Entries(path) BY <1>1
  <2>2. CASE all[i].option.name = "filter"
    BY <1>1, <1>8, <2>1, <2>2 DEF M, A, FiltersAbout
  <2>3. CASE all[i].option.name # "filter"
    <3>1. cfgs[i] = <<>> BY <1>1, <2>3
    <3>2. QED BY <3>1 DEF HasNone
  <2>4. QED BY <2>2, <2>3
<1>9. ASSUME \A k \in 1 .. Len(path) : HasNone(dirs[k], M) PROVE HasNone(list, A)
  <2>1. HasNone(all, M) BY <1>4, <1>7, <1>9 DEF FlattensIn, all
  <2>2. \A i \in 1 .. n : HasNone(cfgs[i], A) BY <1>1, <1>8, <2>1 DEF HasNone
  <2>3. \A i \in DOMAIN reversed : HasNone(reversed[i], A) BY <1>2, <2>2
  <2>4. QED BY <1>3, <1>6, <2>3 DEF FlattensIn
<1>10. ASSUME NEW k \in 1 .. Len(path), ~HasNone(dirs[k], M),
              \A j \in 1 .. Len(path) : j < k => HasNone(dirs[j], M)
       PROVE  \E o \in ToSet(dirs[k]) \cap M : \E filter \in ToSet(o.option.filters) :
                LastIn(list, A, filter)
  <2>1. PICK o : FirstIn(dirs[k], M, o)
    <3>1. dirs[k] \in Seq(Entries(path)) BY <1>4
    <3>2. QED BY <1>10, <3>1, SomeLastIn
  <2>2. o \in ToSet(dirs[k]) \cap M BY <2>1 DEF FirstIn, ToSet
  <2>3. FirstIn(all, M, o) BY <1>4, <1>7, <1>10, <2>1 DEF FlattensIn, all
  <2>4. PICK i \in 1 .. n : all[i] = o /\ \A j \in 1 .. n : j < i => all[j] \notin M
    BY <1>1, <2>3 DEF FirstIn
  <2>5. o.option.name = "filter" /\ ~HasNone(o.option.filters, A)
    BY <2>2 DEF M, A, FiltersAbout
  <2>6. cfgs[i] = o.option.filters /\ cfgs[i] \in Seq(AllFilters) BY <1>1, <2>4, <2>5
  <2>7. PICK filter : LastIn(cfgs[i], A, filter) BY <2>5, <2>6, SomeLastIn
  <2>8. filter \in ToSet(o.option.filters) BY <2>6, <2>7 DEF LastIn, ToSet
  <2>9. n + 1 - i \in DOMAIN reversed /\ reversed[n + 1 - i] = cfgs[i] BY <1>2
  <2>10. ASSUME NEW j \in DOMAIN reversed, j > n + 1 - i PROVE HasNone(reversed[j], A)
    <3>1. n + 1 - j \in 1 .. n /\ reversed[j] = cfgs[n + 1 - j] /\ j \in 1 .. n
      BY <1>2, <2>10
    <3>2. n + 1 - j < i BY <1>1, <2>10, <3>1
    <3>3. QED BY <1>8, <2>4, <3>1, <3>2
  <2>11. LastIn(list, A, filter) BY <1>3, <1>6, <2>7, <2>9, <2>10 DEF FlattensIn
  <2>12. QED BY <2>2, <2>8, <2>11
<1>11. QED BY <1>5, <1>9, <1>10 DEF list, dirs, M, A

\* In a file the filters are those of the command line and then those of the
\* CPPLINT.cfg files, none of which excludes it.
OverridesInv ==
  InFile => /\ ~Cfg.excluded
            /\ filters = CommandLineFilters \o FiltersOf(Cfg.cfg_filters)

\* OverridesInv is an invariant of the runs of cpplint.py.
LEMMA OverridesInvHolds == Spec => []OverridesInv
<1>1. Init => OverridesInv BY DEF Init, OverridesInv, InFile
<1>2. FiltersInv /\ OverridesInv /\ [Next]_vars => OverridesInv'
  <2> SUFFICES ASSUME FiltersInv, OverridesInv, [Next]_vars PROVE OverridesInv' OBVIOUS
  <2> USE DEF OverridesInv, InFile
  <2>1. ASSUME InFile, UNCHANGED <<command_line, files, filters>> PROVE OverridesInv'
    <3>1. Cfg' = Cfg /\ CommandLineFilters' = CommandLineFilters
      BY <2>1 DEF Cfg, file, CommandLineFilters
    <3>2. QED BY <2>1, <3>1
  <2>2. CASE StartFile
    <3>1. /\ phase = "files" /\ ~Cfg.excluded
          /\ UNCHANGED <<command_line, files>>
          /\ filters' = filters \o FiltersOf(Cfg.cfg_filters)
      BY <2>2 DEF StartFile, Override, Overridden
    <3>2. Cfg' = Cfg /\ CommandLineFilters' = CommandLineFilters
      BY <3>1 DEF Cfg, file, CommandLineFilters
    <3>3. QED BY <3>1, <3>2 DEF FiltersInv
  <2>3. CASE ParseArguments BY <2>3 DEF ParseArguments
  <2>4. CASE SkipFile BY <2>4 DEF SkipFile, NextFile
  <2>5. CASE FailToOverride BY <2>5 DEF FailToOverride
  <2>6. CASE BeginData BY <2>1, <2>6 DEF BeginData, settings
  <2>7. CASE ProcessLine BY <2>1, <2>7 DEF ProcessLine, settings
  <2>8. CASE EndData BY <2>1, <2>8 DEF EndData, settings
  <2>9. CASE CheckNewlines BY <2>9 DEF CheckNewlines, NextFile
  <2>10. CASE Exit BY <2>10 DEF Exit
  <2>11. CASE UNCHANGED vars
    <3>1. UNCHANGED <<phase, command_line, files, filters>> BY <2>11 DEF vars, settings
    <3>2. CASE InFile BY <2>1, <3>1, <3>2
    <3>3. CASE ~InFile BY <3>1, <3>3
    <3>4. QED BY <3>2, <3>3
  <2>12. QED
    BY <2>2, <2>3, <2>4, <2>5, <2>6, <2>7, <2>8, <2>9, <2>10, <2>11 DEF Next
<1>3. QED BY <1>1, <1>2, FiltersInvHolds, PTL DEF Spec

\* The signs the CPPLINT.cfg file of a directory gives a category.
Signs(n, category) ==
  {filter.sign : filter \in
     {f \in UNION {ToSet(option.filters) : option \in OptionsOf(n, "filter")} :
        category \in Prefixed[f.name]}}

\* A CPPLINT.cfg that is read names a category if one of its entries is about it.
LEMMA NamesCategory ==
  ASSUME LinesInv, InFile, NEW category, NEW k \in 1 .. Len(file.path)
  PROVE  LET n == Len(file.path) - k
             M == FiltersAbout(file.path, category)
             dir == DirsOf(file.path)[k]
         IN  /\ n \in CfgsOfFile /\ Signs(n, category) # {} => ~HasNone(dir, M)
             /\ ~HasNone(dir, M) => n \in CfgsOfFile
             /\ \A o \in ToSet(dir) \cap M : \A filter \in ToSet(o.option.filters) :
                  filter \in About(category) => filter.sign \in Signs(n, category)
<1> DEFINE path == file.path
           n == Len(path) - k
           M == FiltersAbout(path, category)
           dir == DirsOf(path)[k]
           options == CfgFiles[SubSeq(path, 1, n)].options
<1>1. files # <<>> BY DEF LinesInv
<1>2. file \in Files BY <1>1, FileOK
<1>3. Len(path) \in Nat BY <1>2, FilesAssumption
<1>4. n \in 0 .. Len(path) - 1 BY <1>3
<1>5. dir = OptionsAt(path, n) BY DEF DirsOf
<1>6. IsRead(path, n) =>
        dir = [i \in DOMAIN options |-> [option |-> options[i], base_name |-> path[n + 1]]]
  BY <1>5 DEF OptionsAt
<1>7. ~IsRead(path, n) => dir = <<>> BY <1>5 DEF OptionsAt
<1>8. OptionsOf(n, "filter") = {option \in ToSet(options) : option.name = "filter"}
  BY DEF OptionsOf
<1>9. n \in CfgsOfFile <=> IsRead(path, n) BY <1>4 DEF CfgsOfFile
<1> HIDE DEF n, dir, options
<1>10. ASSUME NEW o \in ToSet(dir), o.option.name = "filter"
       PROVE  IsRead(path, n) /\ o.option \in OptionsOf(n, "filter")
  <2>1. IsRead(path, n) BY <1>7 DEF ToSet
  <2>2. PICK i \in DOMAIN options :
          o = [option |-> options[i], base_name |-> path[n + 1]]
    BY <1>6, <2>1 DEF ToSet
  <2>3. o.option \in ToSet(options) BY <2>2 DEF ToSet
  <2>4. QED BY <1>8, <1>10, <2>1, <2>3
<1>11. ASSUME NEW o \in ToSet(dir) \cap M, NEW filter \in ToSet(o.option.filters),
              filter \in About(category)
       PROVE  filter.sign \in Signs(n, category)
  <2>1. o.option \in OptionsOf(n, "filter") BY <1>10 DEF FiltersAbout
  <2>2. category \in Prefixed[filter.name] BY <1>11 DEF About
  <2>3. QED BY <2>1, <2>2 DEF Signs
<1>12. ASSUME ~HasNone(dir, M) PROVE n \in CfgsOfFile
  <2>1. PICK o \in ToSet(dir) : o \in M BY <1>12 DEF HasNone, ToSet
  <2>2. QED BY <1>9, <1>10, <2>1 DEF FiltersAbout
<1>13. ASSUME n \in CfgsOfFile, Signs(n, category) # {} PROVE ~HasNone(dir, M)
  <2>1. PICK option \in OptionsOf(n, "filter") : \E f \in ToSet(option.filters) :
          category \in Prefixed[f.name]
    BY <1>13 DEF Signs
  <2>2. PICK f \in ToSet(option.filters) : category \in Prefixed[f.name] BY <2>1
  <2>3. IsRead(path, n) BY <1>9, <1>13
  <2>4. PICK i \in DOMAIN options : option = options[i]
    BY <1>8 DEF ToSet
  <2> DEFINE o == [option |-> options[i], base_name |-> path[n + 1]]
  <2>5. i \in DOMAIN dir /\ dir[i] = o BY <1>6, <2>3
  <2>6. o.option = option /\ o.option.name = "filter" BY <1>8, <2>4
  <2> HIDE DEF o
  <2>7. o \in Entries(path)
    <3>1. o \in ToSet(dir) BY <2>5 DEF ToSet
    <3>2. QED BY <3>1 DEF Entries, dir
  <2>8. o.option.filters \in Seq(AllFilters) BY <1>3, <2>6, <2>7, EntriesOK
  <2>9. PICK j \in DOMAIN option.filters : f = option.filters[j] BY DEF ToSet
  <2>10. f \in About(category) BY <2>2, <2>6, <2>8, <2>9 DEF About
  <2>11. ~HasNone(o.option.filters, About(category)) BY <2>6, <2>9, <2>10 DEF HasNone
  <2>12. o \in M BY <2>6, <2>7, <2>11 DEF FiltersAbout
  <2>13. QED BY <2>5, <2>12 DEF HasNone
<1>14. QED BY <1>11, <1>12, <1>13 DEF n, dir

\* A filter of the CPPLINT.cfg files is what decides when they have one.
LEMMA JoinedFilters ==
  ASSUME NEW s \in Seq(AllFilters), NEW t \in Seq(AllFilters), NEW category
  PROVE  /\ HasNone(t, About(category)) =>
              IsFiltered(s \o t, category) = IsFiltered(s, category)
         /\ \A filter : LastIn(t, About(category), filter) =>
              (IsFiltered(s \o t, category) <=> filter.sign = "-")
<1>1. s \o t \in Seq(AllFilters) OBVIOUS
<1>2. IsFiltered(s \o t, category) \in BOOLEAN /\ IsFiltered(s, category) \in BOOLEAN
  BY DEF IsFiltered
<1>3. ASSUME HasNone(t, About(category))
      PROVE  IsFiltered(s \o t, category) <=> IsFiltered(s, category)
  <2>1. CASE HasNone(s, About(category))
    BY <1>1, <1>3, <2>1, JoinedIn, LastDecides
  <2>2. CASE ~HasNone(s, About(category))
    <3>1. PICK filter : LastIn(s, About(category), filter) BY <2>2, SomeLastIn
    <3>2. LastIn(s \o t, About(category), filter) BY <1>3, <3>1, JoinedIn
    <3>3. IsFiltered(s, category) <=> filter.sign = "-" BY <3>1, LastDecides
    <3>4. IsFiltered(s \o t, category) <=> filter.sign = "-" BY <1>1, <3>2, LastDecides
    <3>5. QED BY <3>3, <3>4
  <2>3. QED BY <2>1, <2>2
<1>4. ASSUME NEW filter, LastIn(t, About(category), filter)
      PROVE  IsFiltered(s \o t, category) <=> filter.sign = "-"
  <2>1. LastIn(s \o t, About(category), filter) BY <1>4, JoinedIn
  <2>2. QED BY <1>1, <2>1, LastDecides
<1>5. QED BY <1>2, <1>3, <1>4

\* A set of numbers below a bound that is not empty has a largest element.
LEMMA LargestElement ==
  ASSUME NEW b \in Nat, NEW I \in SUBSET (0 .. b - 1), I # {}
  PROVE  Max(I) \in I /\ \A n \in I : n <= Max(I)
<1> DEFINE J == {b - n : n \in I}
<1>1. PICK some \in I : TRUE OBVIOUS
<1>2. J \in SUBSET Nat /\ b - some \in J OBVIOUS
<1> HIDE DEF J
<1>3. PICK j \in J : \A x \in J : j <= x BY <1>2, LeastElement
<1>4. PICK m \in I : j = b - m BY DEF J
<1>5. \A n \in I : m >= n
  <2> SUFFICES ASSUME NEW n \in I PROVE m >= n OBVIOUS
  <2>1. b - m <= b - n BY <1>3, <1>4 DEF J
  <2>2. QED BY <2>1
<1>6. Max(I) \in I /\ \A n \in I : Max(I) >= n BY <1>5 DEF Max
<1>7. QED BY <1>6

\* However deep a file lies and whatever its CPPLINT.cfg files say, a category is
\* filtered as a filter of the innermost that names it says, and as the command
\* line says when none does (cpplint.py:164-165).
THEOREM InnermostFilterWins == Spec => []NestedFiltersWin
<1>1. LinesInv /\ OverridesInv /\ TypeOK => NestedFiltersWin
  <2> SUFFICES ASSUME LinesInv, OverridesInv, TypeOK, InFile, NEW category \in Categories
               PROVE  LET naming == {n \in CfgsOfFile : Signs(n, category) # {}}
                      IN  IF naming = {}
                          THEN IsFiltered(filters, category)
                                 = IsFiltered(DefaultFilters \o command_line.filters, category)
                          ELSE (IF IsFiltered(filters, category) THEN "-" ELSE "+")
                                 \in Signs(Max(naming), category)
    BY DEF NestedFiltersWin, InFile, Signs
  <2> DEFINE naming == {n \in CfgsOfFile : Signs(n, category) # {}}
             path == file.path
             length == Len(path)
             dirs == DirsOf(path)
             M == FiltersAbout(path, category)
             A == About(category)
             list == FiltersOf(Cfg.cfg_filters)
  <2>1. file \in Files /\ length \in Nat
    <3>1. file \in Files BY FileOK DEF LinesInv
    <3>2. QED BY <3>1, FilesAssumption
  <2>2. Cfg = ReadCfgs(path) BY <2>1 DEF Cfg, Cfgs
  <2>3. ~ReadCfgs(path).excluded /\ filters = CommandLineFilters \o list
    BY <2>2 DEF OverridesInv
  <2>4. CommandLineFilters \in Seq(AllFilters)
    <3>1. command_line \in CommandLines BY DEF LinesInv
    <3>2. command_line.filters \in Seq(AllFilters) /\ DefaultFilters \in Seq(AllFilters)
      BY <3>1, FilesAssumption
    <3>3. QED BY <3>2 DEF CommandLineFilters
  <2>5. /\ list \in Seq(AllFilters)
        /\ (\A k \in 1 .. length : HasNone(dirs[k], M)) => HasNone(list, A)
        /\ \A k \in 1 .. length :
             ~HasNone(dirs[k], M) /\ (\A j \in 1 .. length : j < k => HasNone(dirs[j], M))
               => \E o \in ToSet(dirs[k]) \cap M : \E filter \in ToSet(o.option.filters) :
                    LastIn(list, A, filter)
    BY <2>1, <2>2, <2>3, InnermostDecides
  <2>6. \A k \in 1 .. length :
          /\ length - k \in CfgsOfFile /\ Signs(length - k, category) # {} => ~HasNone(dirs[k], M)
          /\ ~HasNone(dirs[k], M) => length - k \in CfgsOfFile
          /\ \A o \in ToSet(dirs[k]) \cap M : \A filter \in ToSet(o.option.filters) :
               filter \in A => filter.sign \in Signs(length - k, category)
    BY NamesCategory
  <2>7. naming \in SUBSET (0 .. length - 1) BY DEF CfgsOfFile
  <2>8. \A n \in naming : n \in CfgsOfFile /\ Signs(n, category) # {} OBVIOUS
  <2>9. \A k \in 1 .. length : ~HasNone(dirs[k], M) => length - k \in CfgsOfFile
    BY <2>6
  <2> HIDE DEF length, dirs, M, list, A
  <2>10. \A k \in 1 .. length : length - k \in naming => ~HasNone(dirs[k], M) BY <2>6, <2>8
  <2>11. ASSUME NEW k \in 1 .. length, ~HasNone(dirs[k], M),
                \A j \in 1 .. length : j < k => HasNone(dirs[j], M)
         PROVE  /\ (IF IsFiltered(filters, category) THEN "-" ELSE "+")
                     \in Signs(length - k, category)
                /\ length - k \in naming
    <3>1. PICK o \in ToSet(dirs[k]) \cap M : \E filter \in ToSet(o.option.filters) :
            LastIn(list, A, filter)
      BY <2>5, <2>11
    <3>2. PICK filter \in ToSet(o.option.filters) : LastIn(list, A, filter) BY <3>1
    <3>3. IsFiltered(filters, category) <=> filter.sign = "-"
      BY <2>3, <2>4, <2>5, <3>2, JoinedFilters DEF A
    <3>4. filter.sign \in Signs(length - k, category)
      BY <2>6, <3>2 DEF LastIn
    <3>5. filter.sign \in {"+", "-"}
      <4>1. filters \in Seq(AllFilters) BY <2>3, <2>4, <2>5
      <4>2. LastIn(filters, A, filter) BY <2>3, <2>4, <2>5, <3>2, JoinedIn
      <4>3. PICK i \in DOMAIN filters : filters[i] = filter BY <4>2 DEF LastIn
      <4>4. filter \in AllFilters BY <4>1, <4>3
      <4>5. filter.sign # "none" BY <4>3 DEF TypeOK, InFile
      <4>6. QED BY <4>4, <4>5 DEF AllFilters
    <3>6. length - k \in CfgsOfFile BY <2>9, <2>11
    <3>7. length - k \in naming BY <3>4, <3>6
    <3>8. QED BY <3>3, <3>4, <3>5, <3>7
  <2> HIDE DEF naming
  <2>12. CASE naming = {}
    <3>1. \A k \in 1 .. length : HasNone(dirs[k], M)
      <4> DEFINE K == {k \in 1 .. length : ~HasNone(dirs[k], M)}
      <4> SUFFICES ASSUME K # {} PROVE FALSE OBVIOUS
      <4>1. K \in SUBSET Nat OBVIOUS
      <4> HIDE DEF K
      <4>2. PICK k \in K : \A j \in K : k <= j BY <4>1, LeastElement
      <4>3. k \in 1 .. length /\ ~HasNone(dirs[k], M) BY DEF K
      <4>4. \A j \in 1 .. length : j < k => HasNone(dirs[j], M)
        <5> SUFFICES ASSUME NEW j \in 1 .. length, j < k, ~HasNone(dirs[j], M) PROVE FALSE
          OBVIOUS
        <5>1. j \in K BY DEF K
        <5>2. QED BY <4>2, <4>3, <5>1
      <4>5. QED BY <2>11, <2>12, <4>3, <4>4
    <3>2. IsFiltered(filters, category) = IsFiltered(CommandLineFilters, category)
      BY <2>3, <2>4, <2>5, <3>1, JoinedFilters DEF A
    <3>3. QED BY <2>12, <3>2 DEF CommandLineFilters, naming
  <2>13. CASE naming # {}
    <3> DEFINE top == Max(naming)
               k == length - top
    <3>1. top \in naming /\ \A n \in naming : n <= top BY <2>1, <2>7, <2>13, LargestElement
    <3> HIDE DEF top
    <3>2. top \in 0 .. length - 1 BY <2>7, <3>1
    <3>3. length \in Nat BY <2>1 DEF length
    <3>4. k \in 1 .. length /\ length - k = top /\ top \in Nat BY <3>2, <3>3
    <3>5. ~HasNone(dirs[k], M) BY <2>10, <3>1, <3>4
    <3>6. \A j \in 1 .. length : j < k => HasNone(dirs[j], M)
      <4> DEFINE K == {j \in 1 .. length : j < k /\ ~HasNone(dirs[j], M)}
      <4> SUFFICES ASSUME K # {} PROVE FALSE OBVIOUS
      <4>1. K \in SUBSET Nat OBVIOUS
      <4> HIDE DEF K
      <4>2. PICK i \in K : \A j \in K : i <= j BY <4>1, LeastElement
      <4>3. i \in 1 .. length /\ i < k /\ ~HasNone(dirs[i], M) BY DEF K
      <4>4. \A j \in 1 .. length : j < i => HasNone(dirs[j], M)
        <5> SUFFICES ASSUME NEW j \in 1 .. length, j < i, ~HasNone(dirs[j], M) PROVE FALSE
          OBVIOUS
        <5>1. j < k BY <2>1, <3>4, <4>3
        <5>2. j \in K BY <5>1 DEF K
        <5>3. QED BY <4>2, <4>3, <5>2
      <4>5. length - i \in naming BY <2>11, <4>3, <4>4
      <4>6. length - i <= top BY <3>1, <4>5
      <4>7. QED BY <2>1, <3>4, <4>3, <4>6
    <3>7. (IF IsFiltered(filters, category) THEN "-" ELSE "+") \in Signs(top, category)
      BY <2>11, <3>4, <3>5, <3>6
    <3>8. QED BY <2>13, <3>7 DEF top, naming
  <2>14. QED BY <2>12, <2>13
<1>2. QED BY <1>1, LinesInvHolds, OverridesInvHolds, TypesAreKept, PTL

=============================================================================
