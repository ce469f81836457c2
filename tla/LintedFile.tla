------------------------------ MODULE LintedFile ------------------------------
(***************************************************************************)
(* The lines of one file as ProcessFileData of cpplint.py takes them: the  *)
(* lengths of functions and the #includes are checked line by line, then   *)
(* the includes as a whole.                                                *)
(***************************************************************************)
EXTENDS IncludeState, FunctionState

CONSTANTS
  Lines,     \* what a line may be: an #include of a header, a directive, or
             \* "start", "test", "declaration", "lost", "end", "blank", "code"
  StdNames,  \* headers of the standard library
  Verbose,   \* the verbosity the file is checked with
  MaxLines   \* bound: lines of a file

ASSUME LinesAssumption ==
  /\ \A line \in Lines : line.kind = "include" => line.header \in HeaderFiles
  /\ Verbose \in 0 .. 5

\* An error is not taken for a header that is asked for.
ASSUME NamesAssumption == {"own header", "fn_size"} \cap (Names \cup StdNames) = {}

VARIABLES
  is_cc,       \* the file's name ends in .cc
  include_state, function_state,
  line_before,
  linenum,
  reported,    \* errors the last line, or the end of the file, gave
  level,       \* confidence of the last readability/fn_size error, or -1
  ended,
  branch,      \* history: where the open branches start, outermost first
  seen,        \* history: the headers included, each with its branch
  since,       \* history: the headers recorded since the last directive
  started      \* history: where the function starts

checks == <<include_state, function_state, line_before, linenum, reported, level, ended>>
history == <<branch, seen, since, started>>
vars == <<is_cc, checks, history>>

Init ==
  /\ is_cc \in BOOLEAN
  /\ include_state = NoIncludes /\ function_state = NoFunction
  /\ line_before = [kind |-> "blank"] /\ linenum = 0
  /\ reported = {} /\ level = -1 /\ ended = FALSE
  /\ branch = <<>> /\ seen = {} /\ since = <<>> /\ started = 0

\* ProcessLine, up to what it makes of the include state.
CheckLine(line, errors) ==
  LET ends == line.kind = "end" /\ IsTooLong(function_state, Verbose)
      fn_size == IF ends \/ line.kind = "lost" THEN {"fn_size"} ELSE {}
  IN
  /\ ~ended /\ linenum < MaxLines
  /\ linenum' = linenum + 1 /\ line_before' = line
  /\ function_state' = FunctionStateAfter(function_state, line.kind)
  /\ reported' = errors \cup fn_size
  /\ level' = CASE ends -> ErrorLevel(function_state)
                [] line.kind = "lost" -> 5
                [] OTHER -> -1
  /\ started' = IF line.kind \in {"start", "test"} THEN linenum' ELSE started
  /\ UNCHANGED <<is_cc, ended>>

\* CheckIncludeLine.
Include(line) ==
  LET errors == IncludeErrors(include_state, line.header, line_before.kind = "include") IN
  /\ line.kind = "include"
  /\ CheckLine(line, errors)
  /\ include_state' = AddInclude(include_state, line.header)
  /\ seen' = seen \cup {[header |-> line.header, branch |-> branch]}
  /\ since' = IF include_state' = include_state THEN since ELSE Append(since, line.header)
  /\ UNCHANGED branch

BranchAfter(directive) ==
  CASE directive = "if" -> Append(branch, linenum')
    [] directive = "else" /\ branch # <<>> -> Append(Front(branch), linenum')
    [] directive = "endif" /\ branch # <<>> -> Front(branch)
    [] OTHER -> branch

\* CheckLanguage of a directive.
Directive(line) ==
  /\ line.kind \in {"if", "else", "endif"}
  /\ CheckLine(line, {})
  /\ include_state' = ResetSection(include_state, line.kind)
  /\ branch' = BranchAfter(line.kind)
  /\ since' = <<>>
  /\ UNCHANGED seen

OtherLine(line) ==
  /\ line.kind \notin {"include", "if", "else", "endif"}
  /\ CheckLine(line, {})
  /\ UNCHANGED <<include_state, branch, seen, since>>

\* What follows the last line, of a file that uses what is in some headers, and
\* whose own header exists or not.
EndOfFile(required, header_exists) ==
  /\ ~ended /\ ended' = TRUE
  /\ reported' = MissingIncludes(include_state, required, is_cc)
                 \cup (IF header_exists /\ LacksItsHeader(include_state)
                       THEN {"own header"} ELSE {})
  /\ level' = -1
  /\ UNCHANGED <<is_cc, include_state, function_state, line_before, linenum, history>>

Next ==
  \/ \E line \in Lines : Include(line) \/ Directive(line) \/ OtherLine(line)
  \/ \E required \in SUBSET StdNames, header_exists \in BOOLEAN :
       EndOfFile(required, header_exists)

Spec == Init /\ [][Next]_vars

\* A directive that goes on with an #if or ends one follows it.
Legal(line) == line.kind \in {"else", "endif"} => branch # <<>>

\* The files that the preprocessor accepts.
LegalNext ==
  \/ \E line \in Lines : Legal(line) /\ (Include(line) \/ Directive(line) \/ OtherLine(line))
  \/ \E required \in SUBSET StdNames, header_exists \in BOOLEAN :
       EndOfFile(required, header_exists)

LegalSpec == Init /\ [][LegalNext]_vars

----------------------------------------------------------------------------
(* Properties                                                               *)

\* "we shouldn't include a file more than once" (cpplint.py:4453): an #include is
\* never missed of a header that whatever branches are taken is included at that
\* line, however the #ifs between are nested and whatever their #else clears.
DuplicatesAreFound ==
  [][ \A line \in Lines :
        Include(line) /\ (\E earlier \in seen :
                            /\ earlier.header = line.header
                            /\ ~line.header.third_party /\ ~line.header.foreign_cc
                            /\ IsPrefix(earlier.branch, branch))
          => "already included" \in reported' ]_vars

\* How far the i-th of some headers puts the order of #includes.
Place(headers, i) ==
  LET type(j) == ClassifyInclude(headers[j]) IN
  IF type(i) = "C system" THEN _C_SECTION
  ELSE IF type(i) = "C++ system" THEN _CPP_SECTION
  ELSE IF \A j \in 1 .. i : type(j) \in {"likely my", "possible my"} THEN _MY_H_SECTION
  ELSE _OTHER_H_SECTION

\* "keeps track of the highest type seen, and complains if we see a lower type
\* after that" (cpplint.py:4480-4482): exactly the system headers that come after
\* a header of a later place since the last directive are out of order, and an
\* error, a duplicate or a third-party header between changes nothing.
OrderErrorsAreInversions ==
  [][ \A line \in Lines :
        Include(line) /\ include_state' # include_state =>
          ("order" \in reported' <=>
             \E i \in DOMAIN since :
               \/ ClassifyInclude(line.header) = "C system" /\ Place(since, i) > _C_SECTION
               \/ ClassifyInclude(line.header) = "C++ system" /\ Place(since, i) > _CPP_SECTION) ]_vars

\* An alphabetical error is about two headers at one place of the order with no
\* directive between them, or follows a header that was itself out of order:
\* headers that are sorted by place and path have none.
AlphaErrorsAreInversions ==
  [][ \A line \in Lines :
        Include(line) /\ "alpha" \in reported' =>
          \E i \in DOMAIN since :
            /\ since[i].path > line.header.path
            /\ \/ Place(since', i) = Place(since', Len(since'))
               \/ \E j \in 1 .. i : Place(since, j) > Place(since, i) ]_vars

\* A header included outside every #if is not asked for at the end of the file, as
\* one of the standard library or as the file's own, whatever conditional
\* #includes of it came before or after.
UnconditionalIncludesCount ==
  ended =>
    \A s \in seen :
      s.branch = <<>> /\ ~s.header.third_party /\ ~s.header.foreign_cc =>
        /\ s.header.name \notin reported
        /\ s.header.name \in OwnNames => "own header" \notin reported

\* "If we can't find the header file for a .cc, assume it's because we don't know
\* where to look. In that case we'll give up" (cpplint.py:5478-5479): a source
\* file that has no #include of a header of its module that can be opened is asked for
\* no other, whatever it uses.
NothingAskedWithoutHeader ==
  ended /\ is_cc /\ (\A s \in seen : s.header.name \notin DOMAIN ModuleHeaders)
    => reported \cap StdNames = {}

\* A function that is too long for the verbosity is reported with a confidence
\* that is shown at that verbosity, and really has that many lines: the trigger
\* doubles with the verbosity as the lines do with the level (cpplint.py:1020-1024).
LongFunctionsAreShown ==
  "fn_size" \in reported /\ line_before.kind = "end" =>
    /\ level >= Verbose
    /\ linenum - started > NormalTrigger * 2 ^ Verbose

=============================================================================
