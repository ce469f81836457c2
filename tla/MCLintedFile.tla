---------------------------- MODULE MCLintedFile ----------------------------
(***************************************************************************)
(* LintedFile on all short files of #includes and directives, and on long  *)
(* files of functions.                                                     *)
(***************************************************************************)
EXTENDS LintedFile

CONSTANT Budget  \* bound: three times the #includes of a file, and their directives

VARIABLES
  about,  \* what the lines of the file are
  budget

Header(name, path) ==
  [name |-> name, is_system |-> FALSE, is_cpp |-> FALSE, base |-> "other", dir |-> "same",
   path |-> path, third_party |-> FALSE, foreign_cc |-> FALSE]

MCHeaders ==
  {[Header("stdio.h", 5) EXCEPT !.is_system = TRUE],
   [Header("vector", 6) EXCEPT !.is_system = TRUE, !.is_cpp = TRUE],
   [Header("map", 3) EXCEPT !.is_system = TRUE, !.is_cpp = TRUE],
   [Header("table.h", 4) EXCEPT !.base = "same"],
   [Header("chunk.h", 1) EXCEPT !.base = "related"],
   Header("types.h", 2),
   [Header("Lua.h", 1) EXCEPT !.third_party = TRUE],
   [Header("other/a.cc", 1) EXCEPT !.foreign_cc = TRUE]}

MCNames == {h.name : h \in MCHeaders}

MCModuleHeaders == [name \in {"table.h"} |-> {"map"}]

Line(kind) == [kind |-> kind]

IncludeLines ==
  {[kind |-> "include", header |-> h] : h \in MCHeaders}
    \cup {Line("if"), Line("else"), Line("endif"), Line("blank")}

FunctionLines ==
  {Line("start"), Line("test"), Line("declaration"), Line("lost"), Line("end"),
   Line("blank"), Line("code")}

MCLines == IncludeLines \cup FunctionLines

Cost(line) ==
  IF about = "functions" THEN IF line \in FunctionLines THEN 0 ELSE Budget + 1
  ELSE CASE line.kind = "include" -> 3
         [] line.kind # "include" /\ line \in IncludeLines -> 2
         [] OTHER -> Budget + 1

MCInit == Init /\ about \in {"includes", "functions"} /\ budget = Budget

MCNext ==
  \/ \E line \in {l \in MCLines : Legal(l) /\ Cost(l) <= budget} :
       /\ Include(line) \/ Directive(line) \/ OtherLine(line)
       /\ budget' = budget - Cost(line)
       /\ UNCHANGED about
  \/ \E required \in SUBSET StdNames, header_exists \in BOOLEAN :
       EndOfFile(required, header_exists) /\ UNCHANGED <<about, budget>>

MCSpec == MCInit /\ [][MCNext]_<<vars, about, budget>>

=============================================================================
