---------------------------- MODULE MCLintFiles ----------------------------
(***************************************************************************)
(* LintFiles on command lines of up to MaxFiles files, in a directory with *)
(* CPPLINT.cfg files in its subdirectories.                                *)
(***************************************************************************)
EXTENDS LintFiles

CONSTANT MaxFiles  \* bound: the files of a command line

MCCategories ==
  {"build/header_guard", "build/include_alpha", "legal/copyright", "readability/casting",
   "readability/nolint", "whitespace/newline", "whitespace/tab"}

MCCategoryOf ==
  [category \in MCCategories |->
     CASE category \in {"build/header_guard", "build/include_alpha"} -> "build"
       [] category \in {"readability/casting", "readability/nolint"} -> "readability"
       [] category \in {"whitespace/newline", "whitespace/tab"} -> "whitespace"
       [] OTHER -> "legal"]

MCPrefixed ==
  [name \in MCCategories \cup {"", "build", "readability", "whitespace"} |->
     CASE name = "" -> MCCategories
       [] name \in MCCategories -> {name}
       [] OTHER -> {category \in MCCategories : MCCategoryOf[category] = name}]

Minus(name) == [sign |-> "-", name |-> name]
Plus(name) == [sign |-> "+", name |-> name]
Unsigned(name) == [sign |-> "none", name |-> name]

MCDefaultFilters == <<Minus("build/include_alpha")>>
MCCSuppressed == {"readability/casting"}
MCKernelSuppressed == {"whitespace/tab"}

Filter(list) == [name |-> "filter", filters |-> list]

\* / has none; /repo one; below it one that adds to it, one that is the topmost,
\* one that cannot be read and one with a filter that has no sign.
MCCfgFiles ==
  (<<"repo">> :>
     [readable |-> TRUE,
      options |-> <<Filter(<<Minus("whitespace")>>), [name |-> "linelength", value |-> 100]>>])
  @@ (<<"repo", "a">> :>
     [readable |-> TRUE,
      options |-> <<Filter(<<Plus("whitespace/tab")>>), Filter(<<Minus("readability")>>),
                    [name |-> "linelength", value |-> 120],
                    [name |-> "exclude_files", matched |-> {"excluded.cc", "gen"}]>>])
  @@ (<<"repo", "b">> :>
     [readable |-> TRUE,
      options |-> <<[name |-> "set noparent"], [name |-> "root"], Filter(<<Minus("build")>>)>>])
  @@ (<<"repo", "c">> :> [readable |-> FALSE, options |-> <<>>])
  @@ (<<"repo", "d">> :> [readable |-> TRUE, options |-> <<Filter(<<Unsigned("build")>>)>>])

Fault(category, confidence, l) ==
  [category |-> category, confidence |-> confidence, linenum |-> l]

Line == [nolint |-> "none", nextline |-> FALSE, errors |-> {}, crlf |-> FALSE]

File ==
  [path |-> <<"repo", "file.cc">>, is_readable |-> TRUE, has_valid_extension |-> TRUE,
   has_copyright |-> TRUE, is_c |-> FALSE, is_kernel |-> FALSE,
   lacks_guard |-> FALSE, guard_lines |-> {},
   bad_guard_lines |-> {}, comment_errors |-> {}, file_errors |-> {},
   lines |-> <<Line, Line, Line>>]

Tab(l) == Fault("whitespace/tab", 1, l)
Cast(l) == Fault("readability/casting", 4, l)

MCFiles ==
  { \* a C file, mixed line ends, NOLINT of the second line
   [File EXCEPT !.is_c = TRUE, !.has_copyright = FALSE, !.file_errors = {Tab(2)},
     !.lines = <<[Line EXCEPT !.crlf = TRUE, !.errors = {Cast(1)}],
                 [Line EXCEPT !.nolint = "all", !.errors = {Cast(2), Tab(2)}], Line>>],
   \* a header, NOLINTNEXTLINE of a category, errors at the same lines without one
   [File EXCEPT !.path = <<"repo", "a", "file.h">>,
     !.guard_lines = {1, 3}, !.bad_guard_lines = {3},
     !.comment_errors = {Fault("readability/nolint", 5, 2)},
     !.lines = <<[Line EXCEPT !.nolint = "whitespace/tab", !.nextline = TRUE,
                              !.errors = {Tab(1), Cast(2)}],
                 [Line EXCEPT !.errors = {Tab(2), Cast(2)}],
                 [Line EXCEPT !.nolint = "unknown"]>>],
   \* a header whose guard is not looked at, for the Linux kernel
   [File EXCEPT !.path = <<"repo", "b", "file.h">>, !.is_kernel = TRUE,
     !.guard_lines = {1, 2}, !.bad_guard_lines = {1}, !.file_errors = {Cast(1)},
     !.lines = <<[Line EXCEPT !.nolint = "build/header_guard", !.errors = {Tab(1)}],
                 [Line EXCEPT !.crlf = TRUE, !.errors = {Cast(2), Tab(2)}],
                 [Line EXCEPT !.crlf = TRUE]>>],
   \* a header without a guard
   [File EXCEPT !.path = <<"repo", "file.h">>, !.lacks_guard = TRUE,
     !.lines = <<[Line EXCEPT !.nolint = "all", !.errors = {Tab(1)}]>>],
   \* no NOLINT, no kind, its CPPLINT.cfg cannot be read
   [File EXCEPT !.path = <<"repo", "c", "file.cc">>,
     !.lines = <<[Line EXCEPT !.errors = {Cast(1), Tab(1)}],
                 [Line EXCEPT !.errors = {Cast(2), Tab(2)}]>>],
   \* no file of the directories above
   [File EXCEPT !.path = <<"tmp", "file.h">>, !.guard_lines = {1, 2}, !.bad_guard_lines = {1, 2},
     !.lines = <<[Line EXCEPT !.nolint = "all"], [Line EXCEPT !.errors = {Tab(2), Cast(2)}]>>],
   [File EXCEPT !.path = <<"repo", "a", "excluded.cc">>],
   [File EXCEPT !.path = <<"repo", "a", "gen", "file.cc">>],
   [File EXCEPT !.path = <<"repo", "d", "file.cc">>],
   [File EXCEPT !.path = <<"repo", "a", "missing.cc">>, !.is_readable = FALSE],
   [File EXCEPT !.path = <<"repo", "a", "file.py">>, !.has_valid_extension = FALSE]}

CommandLine ==
  [request |-> "lint", filters |-> <<>>, counting |-> "total", verbose |-> 1,
   line_length |-> 80, files |-> <<>>]

MCCommandLines ==
  {[CommandLine EXCEPT !.filters = list, !.counting = how[1], !.verbose = how[2],
                       !.line_length = how[3], !.files = fs] :
     list \in {<<>>, <<Minus("whitespace/tab"), Plus("build")>>},
     how \in {<<"total", 1, 80>>, <<"toplevel", 0, 80>>, <<"detailed", 3, 120>>},
     fs \in SeqOf(MCFiles, MaxFiles)}
  \cup {[CommandLine EXCEPT !.request = "usage"], [CommandLine EXCEPT !.request = "categories"],
        [CommandLine EXCEPT !.filters = <<Unsigned("build")>>, !.files = <<File>>]}

=============================================================================
