---------------------------- MODULE NestingState ----------------------------
(***************************************************************************)
(* NestingState of cpplint.py: the stack of blocks as the lines of a file  *)
(* go by, with the checkpoints taken at #if and #else (Update and          *)
(* UpdatePreprocessor), the namespace indentation check that reads it, and *)
(* CheckCompletedBlocks at the end of the file.                            *)
(***************************************************************************)
EXTENDS BlockStack

CONSTANTS
  SourceLines,  \* the lines a file may have
  MaxLines      \* bound: lines of a file

ASSUME LinesAssumption == SourceLines \subseteq Lines

VARIABLES
  stack,
  pp_stack,    \* _PreprocessorInfo of each #if that is open
  linenum,     \* lines read
  checked,     \* the block whose indentation the last line had checked: the top
               \* of the stack, or a forward declaration
  reported,    \* the blocks CheckCompletedBlocks complains about
  ended,
  depth        \* history: braces open in the taken lines

vars == <<stack, pp_stack, linenum, checked, reported, ended, depth>>

Init ==
  /\ stack = <<>> /\ pp_stack = <<>>
  /\ linenum = 0 /\ checked = "none"
  /\ reported = {} /\ ended = FALSE
  /\ depth = 0

PreprocessorInfo(stack_before_if) ==
  [stack_before_if |-> stack_before_if, stack_before_else |-> <<>>, seen_else |-> FALSE]

Skipped(infos) == \E i \in DOMAIN infos : infos[i].seen_else

----------------------------------------------------------------------------
(* CheckForNamespaceIndentation.                                            *)

\* class X;
IsForwardClassDeclaration(line) == line.head = "class" /\ line.tokens = <<";">>

\* IsBlockInNameSpace of a block that is no forward declaration.
IsBlockInNameSpace(blocks) ==
  /\ Len(blocks) > 1
  /\ IsNamed(Last(blocks))
  /\ blocks[Len(blocks) - 1].kind = "namespace"

\* A forward declaration in a namespace.
IsDeclarationInNameSpace(blocks, line) ==
  IsForwardClassDeclaration(line) /\ blocks # <<>> /\ Last(blocks).kind = "namespace"

\* Fault: it is not asked whether the top was pushed on this line.
CheckForAnyNamespaceItem(previous, before, after, line) ==
  CASE ~line.macro /\ IsDeclarationInNameSpace(after, line) -> "forward"
    [] ~line.macro /\ ~IsForwardClassDeclaration(line) /\ IsBlockInNameSpace(after) -> "top"
    [] OTHER -> "none"

\* previous is the stack whose top previous_stack_top was saved, before the
\* stack once the directive is handled: the same objects unless a checkpoint
\* was restored.
CheckForNamespaceIndentation(previous, before, after, line) ==
  CASE ~line.macro /\ IsDeclarationInNameSpace(after, line) -> "forward"
    [] /\ ~line.macro /\ ~IsForwardClassDeclaration(line) /\ IsBlockInNameSpace(after)
       /\ previous = before /\ Len(after) = Len(before) + 1
       /\ TopSurvives(before, line, linenum + 1) -> "top"
    [] OTHER -> "none"

----------------------------------------------------------------------------
(* The lines.                                                               *)

\* The braces open in the text after a line.
DepthAfter(line) ==
  LET opens == Cardinality({i \in DOMAIN line.namespaces : line.namespaces[i]})
      d[n \in 0 .. Len(line.tokens)] ==
        IF n = 0 THEN depth + opens
        ELSE CASE line.tokens[n] \in {"{", "extern", "asm"} -> d[n - 1] + 1
               [] line.tokens[n] = "}" /\ d[n - 1] > 0 -> d[n - 1] - 1
               [] OTHER -> d[n - 1]
  IN  d[Len(line.tokens)]

\* The rest of ProcessLine: the line is consumed by the stack that
\* UpdatePreprocessor leaves.
UpdateFrom(restored, line) ==
  /\ linenum' = linenum + 1
  /\ stack' = ConsumeLine(restored, line, linenum')
  /\ checked' = CheckForNamespaceIndentation(stack, restored, stack', line)
  /\ depth' = IF Skipped(pp_stack') THEN depth ELSE DepthAfter(line)
  /\ UNCHANGED <<reported, ended>>

Reading == ~ended /\ linenum < MaxLines

\* #if, #ifdef, #ifndef.
If(line) ==
  /\ Reading /\ line.directive = "if"
  /\ pp_stack' = Append(pp_stack, PreprocessorInfo(stack))
  /\ UpdateFrom(stack, line)

\* Fault: every #elif and #else saves the stack.
ElseSavingAlways(line) ==
  LET top == Last(pp_stack) IN
  /\ Reading /\ line.directive = "else" /\ pp_stack # <<>>
  /\ pp_stack' = Append(Front(pp_stack),
                   [top EXCEPT !.seen_else = TRUE, !.stack_before_else = stack])
  /\ UpdateFrom(top.stack_before_if, line)

\* #else, #elif: only the first of an #if saves the stack.
Else(line) ==
  LET top == Last(pp_stack) IN
  /\ Reading /\ line.directive = "else" /\ pp_stack # <<>>
  /\ pp_stack' = IF top.seen_else THEN pp_stack
                 ELSE Append(Front(pp_stack),
                        [top EXCEPT !.seen_else = TRUE, !.stack_before_else = stack])
  /\ UpdateFrom(top.stack_before_if, line)

Endif(line) ==
  LET top == Last(pp_stack) IN
  /\ Reading /\ line.directive = "endif" /\ pp_stack # <<>>
  /\ pp_stack' = Front(pp_stack)
  /\ UpdateFrom(IF top.seen_else THEN top.stack_before_else ELSE stack, line)

\* Any other line, and a directive that belongs to no #if.
Other(line) ==
  /\ Reading
  /\ line.directive = "none" \/ (line.directive # "if" /\ pp_stack = <<>>)
  /\ UNCHANGED pp_stack
  /\ UpdateFrom(stack, line)

\* CheckCompletedBlocks, after the last line.
CheckCompletedBlocks ==
  /\ ~ended
  /\ ended' = TRUE
  /\ reported' = {block \in Range(stack) : IsNamed(block)}
  /\ UNCHANGED <<stack, pp_stack, linenum, checked, depth>>

Next ==
  \/ \E line \in SourceLines : If(line) \/ Else(line) \/ Endif(line) \/ Other(line)
  \/ CheckCompletedBlocks

Spec == Init /\ [][Next]_vars

----------------------------------------------------------------------------
(* Properties                                                               *)

\* The stack of the taken lines: the checkpoint of the outermost #if whose
\* first branch is over, or the stack itself.
TakenStack ==
  IF Skipped(pp_stack)
  THEN pp_stack[CHOOSE i \in DOMAIN pp_stack :
                  /\ pp_stack[i].seen_else
                  /\ \A j \in 1 .. i - 1 : ~pp_stack[j].seen_else].stack_before_else
  ELSE stack

\* No "}" meets a head that awaits its brace.
ClosesBlocks(blocks, line) ==
  \A n \in DOMAIN line.tokens :
    line.tokens[n] = "}" => SeenOpenBrace(Stages(blocks, line, linenum + 1)[n - 1])

\* The files that are C++ in their taken lines; the skipped ones can be anything.
CppLine(line) ==
  /\ If(line) \/ Else(line) \/ Endif(line) \/ Other(line)
  /\ ~Skipped(pp_stack') => ClosesBlocks(TakenStack, line)

CppNext == (\E line \in SourceLines : CppLine(line)) \/ CheckCompletedBlocks

CppSpec == Init /\ [][CppNext]_vars

Taken == INSTANCE TakenBranches WITH
  Consume <- ConsumeLine, nesting <- TakenStack,
  skipping <- [i \in DOMAIN pp_stack |-> pp_stack[i].seen_else]

\* "Preprocessor condition evaluates to false from #else/#elif up to #endif
\* [...] these do not affect nesting stack" (cpplint.py:2417-2419), however the
\* #ifs are nested and whatever the skipped lines open, close or modify.
ImplementsTakenBranches == Taken!Spec

\* The blocks whose opening brace was seen are as many as the braces open in the
\* taken lines: a head that is split from its brace, by line ends or
\* #if branches, still gets exactly that brace, and none is taken for a
\* forward declaration or a parameter.
BracesAreBlocks ==
  ~Skipped(pp_stack) =>
    Cardinality({i \in DOMAIN stack : stack[i].seen_open_brace}) = depth

\* "Checks that all classes and namespaces have been completely parsed"
\* (cpplint.py:2637): of a file whose braces are balanced in the taken lines
\* and whose #ifs are closed, no class or namespace is reported that has a body.
\* A consequence of BracesAreBlocks, proved in NestingProofs.
NoFalseCompletionErrors ==
  ended /\ pp_stack = <<>> /\ depth = 0 =>
    \A block \in reported : ~block.seen_open_brace

\* The indentation of a block in a namespace is checked on the line of its head
\* and no other, also when that line opens several blocks or ends an #if.
CheckedWhereItStarts ==
  checked = "top" => Last(stack).starting_linenum = linenum

=============================================================================
