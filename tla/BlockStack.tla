----------------------------- MODULE BlockStack -----------------------------
(***************************************************************************)
(* The blocks cpplint.py keeps on NestingState.stack, and what one cleaned *)
(* line of C++ does to them.  A line is abstracted to the things Update    *)
(* looks for in it; names and columns are left out.                        *)
(***************************************************************************)
EXTENDS Integers, FiniteSets, SequencesExt

AccessSpecifiers == {"public", "private", "protected", "signals"}

\* parens is line.count('(') - line.count(')'); asm whether _MATCH_ASM matches;
\* namespaces the declarations at the start of the line, TRUE where a brace
\* follows; head the class or struct declared after them, if any; then the
\* access specifier, if any, and the tokens, where "extern" and "asm" stand for
\* the opening brace of such a block.  macro is IsMacroDefinition of the line.
Lines ==
  [macro : BOOLEAN, directive : {"none", "if", "else", "endif"}, parens : Int, asm : BOOLEAN,
   namespaces : Seq(BOOLEAN), head : {"none", "class", "struct"},
   access : AccessSpecifiers \cup {"none"},
   tokens : Seq({"{", "extern", "asm", ";", ")", "}"})]

\* kind is "block", "externC", "class" or "namespace"; inline_asm is the state
\* _NO_ASM ("no"), _INSIDE_ASM, _END_ASM or _BLOCK_ASM.
BlockInfo(kind, linenum, seen_open_brace) ==
  [kind |-> kind, starting_linenum |-> linenum,
   seen_open_brace |-> seen_open_brace, open_parentheses |-> 0,
   inline_asm |-> "no", access |-> "none"]

ClassInfo(head, linenum) ==
  [BlockInfo("class", linenum, FALSE) EXCEPT
     !.access = IF head = "struct" THEN "public" ELSE "private"]

\* isinstance(block, (_ClassInfo, _NamespaceInfo)), which is also
\* block.check_namespace_indentation.
IsNamed(block) == block.kind \in {"class", "namespace"}

SeenOpenBrace(stack) == stack # <<>> => Last(stack).seen_open_brace

\* Parentheses count for the innermost block at the start of the line, and tell
\* where inline assembly in it starts and ends.
CountParentheses(stack, line) ==
  IF stack = <<>> THEN stack
  ELSE LET inner == Last(stack)
           open == inner.open_parentheses + line.parens
           entering == line.parens # 0 /\ open = 1 /\ line.asm
       IN  Append(Front(stack),
             [inner EXCEPT
                !.open_parentheses = open,
                !.inline_asm =
                  CASE @ \in {"no", "end"} -> IF entering THEN "inside" ELSE "no"
                    [] @ = "inside" /\ open = 0 -> "end"
                    [] OTHER -> @])

PushNamespaces(stack, line, linenum) ==
  stack \o [i \in DOMAIN line.namespaces |->
              BlockInfo("namespace", linenum, line.namespaces[i])]

\* A class inside parentheses is a parameter.
PushClass(stack, line, linenum) ==
  IF line.head # "none" /\ (stack = <<>> \/ Last(stack).open_parentheses = 0)
  THEN Append(stack, ClassInfo(line.head, linenum))
  ELSE stack

SetAccess(stack, line) ==
  IF line.access # "none" /\ stack # <<>> /\ Last(stack).kind = "class"
  THEN Append(Front(stack), [Last(stack) EXCEPT !.access = line.access])
  ELSE stack

\* Fault: whatever is on top is popped.
EndsAnything(stack, token) == token \in {";", ")"} /\ stack # <<>>

\* A head that awaits its brace was no definition.
EndsDeclaration(stack, token) == token \in {";", ")"} /\ ~SeenOpenBrace(stack)

\* The block a brace opens that completes no head.
OpenedBlock(token, linenum) ==
  [BlockInfo(IF token = "extern" THEN "externC" ELSE "block", linenum, TRUE) EXCEPT
     !.inline_asm = IF token = "asm" THEN "block" ELSE "no"]

\* A brace completes the head that awaits one or opens a block; a semicolon or
\* closing parenthesis shows that such a head was no definition.
ConsumeToken(stack, token, linenum) ==
  CASE EndsDeclaration(stack, token) -> Front(stack)
    [] token = "}" /\ stack # <<>> -> Front(stack)
    [] token \in {"{", "extern", "asm"} /\ ~SeenOpenBrace(stack) ->
         Append(Front(stack), [Last(stack) EXCEPT !.seen_open_brace = TRUE])
    [] token \in {"{", "extern", "asm"} /\ SeenOpenBrace(stack) ->
         Append(stack, OpenedBlock(token, linenum))
    [] OTHER -> stack

\* The stack before the first token, and after each.
Stages(stack, line, linenum) ==
  LET heads == SetAccess(PushClass(PushNamespaces(CountParentheses(stack, line),
                                                  line, linenum), line, linenum), line)
      stage[n \in 0 .. Len(line.tokens)] ==
        IF n = 0 THEN heads ELSE ConsumeToken(stage[n - 1], line.tokens[n], linenum)
  IN  stage

\* What Update does to the stack once UpdatePreprocessor is done.
ConsumeLine(stack, line, linenum) == Stages(stack, line, linenum)[Len(line.tokens)]

\* Whether the innermost block at the start of the line is still on the stack
\* at its end, the same object: no token has popped it.
TopSurvives(stack, line, linenum) ==
  /\ stack # <<>>
  /\ \A n \in 0 .. Len(line.tokens) :
       Len(Stages(stack, line, linenum)[n]) >= Len(stack)

=============================================================================
