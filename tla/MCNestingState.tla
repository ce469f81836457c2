--------------------------- MODULE MCNestingState ---------------------------
(***************************************************************************)
(* NestingState on all short files made of lines that meet the cases of    *)
(* Update and are C++ with the first branch of every #if taken.            *)
(***************************************************************************)
EXTENDS NestingState

CONSTANT Budget  \* bound: twice the lines of a file, or more of them directives

VARIABLE budget

Line(tokens) ==
  [macro |-> FALSE, directive |-> "none", parens |-> 0, asm |-> FALSE,
   namespaces |-> <<>>, head |-> "none", access |-> "none", tokens |-> tokens]

Directive(name) == [Line(<<>>) EXCEPT !.directive = name]

MCLines ==
  {Directive("if"), Directive("else"), Directive("endif"),
   Line(<<"{">>), Line(<<"}">>), Line(<<";">>),
   Line(<<"}", "{">>),                                         \* } else {
   Line(<<"extern">>),
   [Line(<<>>) EXCEPT !.namespaces = <<FALSE>>],               \* namespace a
   [Line(<<>>) EXCEPT !.namespaces = <<TRUE, TRUE>>],          \* namespace a { namespace b {
   [Line(<<"{">>) EXCEPT !.head = "class"],                    \* class A {
   [Line(<<>>) EXCEPT !.head = "struct"],                      \* struct A
   [Line(<<";">>) EXCEPT !.head = "class"],                    \* class A;
   [Line(<<"{">>) EXCEPT !.head = "class", !.macro = TRUE],
   [Line(<<>>) EXCEPT !.access = "public"],
   [Line(<<>>) EXCEPT !.parens = 1],                           \* f(
   [Line(<<")", "{">>) EXCEPT !.parens = -1],                  \*   ) {
   [Line(<<>>) EXCEPT !.parens = 1, !.asm = TRUE],             \* asm(
   [Line(<<")", ";">>) EXCEPT !.parens = -1],
   Line(<<"asm">>)}

\* Directives are cheaper than other lines, so that deeper nestings of #if fit.
Cost(line) == IF line.directive = "none" THEN 2 ELSE 1

MCInit == Init /\ budget = Budget

MCNext ==
  \/ \E line \in {l \in MCLines : Cost(l) <= budget} :
       /\ CppLine(line)
       /\ budget' = budget - Cost(line)
  \/ CheckCompletedBlocks /\ UNCHANGED budget

MCSpec == MCInit /\ [][MCNext]_<<vars, budget>>

=============================================================================
