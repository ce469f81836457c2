--------------------------- MODULE TakenBranches ---------------------------
(***************************************************************************)
(* What NestingState promises of conditional compilation (the assumptions  *)
(* of UpdatePreprocessor, cpplint.py:2413-2419): of every #if the first    *)
(* branch is taken, and the lines from its first #else or #elif up to its  *)
(* #endif do not affect the nesting stack.                                 *)
(***************************************************************************)
EXTENDS Naturals, Sequences

CONSTANTS
  SourceLines,          \* the lines a file may have
  Consume(_, _, _)      \* what a taken line, with its number, does to a stack

VARIABLES
  nesting,   \* the stack
  skipping,  \* for each #if that is open: is its first branch over?
  linenum    \* lines read

vars == <<nesting, skipping, linenum>>

Skipped(flags) == \E i \in DOMAIN flags : flags[i]

Init == nesting = <<>> /\ skipping = <<>> /\ linenum = 0

\* A line is taken if the #ifs that are open behind it are in their first branch.
Read(line) ==
  /\ linenum' = linenum + 1
  /\ nesting' = IF Skipped(skipping') THEN nesting
                ELSE Consume(nesting, line, linenum')

If(line) ==
  /\ line.directive = "if"
  /\ skipping' = Append(skipping, FALSE)
  /\ Read(line)

Else(line) ==
  /\ line.directive = "else" /\ skipping # <<>>
  /\ skipping' = [skipping EXCEPT ![Len(skipping)] = TRUE]
  /\ Read(line)

Endif(line) ==
  /\ line.directive = "endif" /\ skipping # <<>>
  /\ skipping' = SubSeq(skipping, 1, Len(skipping) - 1)
  /\ Read(line)

\* Also a directive that belongs to no #if.
Other(line) ==
  /\ line.directive = "none" \/ (line.directive # "if" /\ skipping = <<>>)
  /\ UNCHANGED skipping
  /\ Read(line)

Next == \E line \in SourceLines : If(line) \/ Else(line) \/ Endif(line) \/ Other(line)

Spec == Init /\ [][Next]_vars

=============================================================================
