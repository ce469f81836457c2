----------------------------- MODULE Expressions -----------------------------
(***************************************************************************)
(* How cpplint.py finds the other end of an expression: CloseExpression,   *)
(* ReverseCloseExpression and _GetTextInside.  Lines are sequences of      *)
(* tokens; a bracket, "<", ">", "=", "-" and ";" are one character each,   *)
(* "operator" is that word, " >= " that operator with its blanks, the only *)
(* ones; all other tokens have several characters.                         *)
(***************************************************************************)
EXTENDS Integers, FiniteSets, SequencesExt

Opening == {"(", "[", "{"}
Closing == {")", "]", "}"}

OneCharacter == Opening \cup Closing \cup {"<", ">", "=", "-", ";"}

Closer(char) == CASE char = "(" -> ")" [] char = "[" -> "]" [] char = "{" -> "}"

\* Fault: any two brackets match.
MatchesAny(open, close) == open \in Opening /\ close \in Closing

Matches(open, close) == open \in Opening /\ Closer(open) = close

Before(line, i) == IF i > 1 THEN line[i - 1] ELSE "none"

\* A scan has found the other end at pos, has failed, or goes on with a stack.
Scanning(stack) == [state |-> "scanning", stack |-> stack, pos |-> 0]
Found(pos) == [state |-> "found", stack |-> <<>>, pos |-> pos]
Failed == [state |-> "failed", stack |-> <<>>, pos |-> 0]

\* Once the stack is empty the other end is found at pos.
FoundAt(pos, stack) == IF stack = <<>> THEN Found(pos) ELSE Scanning(stack)

\* Fault: pending operators stay.
KeepOperators(stack, char) == stack

\* while stack and stack[-1] == char: stack.pop()
DropOperators(stack, char) ==
  SubSeq(stack, 1, SelectLastInSeq(stack, LAMBDA pending : pending # char))

\* A scan over the positions first, first + step, ... of a line, n of them.
ScanLine(Step(_, _), first, step, n, stack) ==
  LET scan[k \in 0 .. n] ==
        IF k = 0 THEN Scanning(stack)
        ELSE IF scan[k - 1].state # "scanning" THEN scan[k - 1]
             ELSE Step(first + (k - 1) * step, scan[k - 1].stack)
  IN  scan[n]

----------------------------------------------------------------------------
(* Forwards.                                                                *)

\* The end of ->, and of a > before which the line ends in the word operator once
\* one more character is cut off: the blank of " >= ", or a token of one character.
IgnoredEnd(line, i) ==
  \/ line[i] = ">" /\ Before(line, i) = "-"
  \/ line[i] = ">" /\ Before(line, i) \in OneCharacter /\ Before(line, i - 1) = "operator"
  \/ line[i] = " >= " /\ Before(line, i) = "operator"

\* One turn of the loop of FindEndOfExpressionInLine.
EndStep(line, i, stack) ==
  LET char == line[i]
      rest == DropOperators(stack, "<")
  IN
  CASE char \in Opening -> Scanning(Append(stack, char))
    [] char = "<" /\ Before(line, i) = "<" ->
         IF stack = <<>> \/ Last(stack) # "<" THEN Scanning(stack)
         ELSE IF Len(stack) = 1 THEN Failed ELSE Scanning(Front(stack))
    [] char = "<" /\ Before(line, i) # "<" ->
         IF Before(line, i) = "operator" THEN Scanning(stack) ELSE Scanning(Append(stack, "<"))
    [] char \in Closing ->
         IF rest = <<>> \/ ~Matches(Last(rest), char) THEN Failed
         ELSE FoundAt(i + 1, Front(rest))
    [] char \in {">", " >= "} ->
         IF IgnoredEnd(line, i) \/ stack = <<>> \/ Last(stack) # "<" THEN Scanning(stack)
         ELSE FoundAt(i + 1, Front(stack))
    [] char = ";" -> IF rest = <<>> THEN Failed ELSE Scanning(rest)
    [] OTHER -> Scanning(stack)

FindEndOfExpressionInLine(line, startpos, stack) ==
  ScanLine(LAMBDA i, pending : EndStep(line, i, pending),
           startpos, 1, Len(line) - startpos + 1, stack)

NoPosition == [linenum |-> 0, pos |-> 0]

MayClose(line, pos) ==
  /\ line[pos] \in Opening \cup {"<"}
  /\ ~(line[pos] = "<" /\ pos < Len(line) /\ line[pos + 1] \in {"<", "="})

\* The position past the end of the expression that starts at pos.
CloseExpression(lines, linenum, pos) ==
  LET scan[l \in linenum .. Len(lines)] ==
        IF l = linenum THEN FindEndOfExpressionInLine(lines[l], pos, <<>>)
        ELSE IF scan[l - 1].state = "scanning" /\ scan[l - 1].stack # <<>>
             THEN FindEndOfExpressionInLine(lines[l], 1, scan[l - 1].stack)
             ELSE scan[l - 1]
      ends == {l \in linenum .. Len(lines) : scan[l].state = "found"}
      first == CHOOSE l \in ends : \A k \in ends : l <= k
  IN  IF MayClose(lines[linenum], pos) /\ ends # {}
      THEN [linenum |-> first, pos |-> scan[first].pos]
      ELSE NoPosition

----------------------------------------------------------------------------
(* Backwards.                                                               *)

IgnoredStart(line, i) ==
  \/ Before(line, i) \in {"-", "operator"}
  \/ line[i] = " >= "

\* A run of < is taken for shift operators, in pairs from its end.
InShift(line, i) ==
  LET next == SelectInSubSeq(line, i + 1, Len(line), LAMBDA char : char # "<")
      angles == (IF next = 0 THEN Len(line) + 1 ELSE next) - i - 1
  IN  angles % 2 = 1 \/ Before(line, i) = "<"

\* One turn of the loop of FindStartOfExpressionInLine.  The character before one
\* that is ignored is skipped with it, which is no bracket.
StartStep(line, i, stack) ==
  LET char == line[i]
      rest == DropOperators(stack, ">")
  IN
  CASE char \in Closing -> Scanning(Append(stack, char))
    [] char \in {">", " >= "} ->
         IF IgnoredStart(line, i) THEN Scanning(stack) ELSE Scanning(Append(stack, ">"))
    [] char = "<" ->
         IF InShift(line, i) \/ stack = <<>> \/ Last(stack) # ">" THEN Scanning(stack)
         ELSE FoundAt(i, Front(stack))
    [] char \in Opening ->
         IF rest = <<>> \/ ~Matches(char, Last(rest)) THEN Failed
         ELSE FoundAt(i, Front(rest))
    [] char = ";" -> IF rest = <<>> THEN Failed ELSE Scanning(rest)
    [] OTHER -> Scanning(stack)

FindStartOfExpressionInLine(line, endpos, stack) ==
  ScanLine(LAMBDA i, pending : StartStep(line, i, pending), endpos, -1, endpos, stack)

\* The position of the start of the expression whose last character is at pos.
ReverseCloseExpression(lines, linenum, pos) ==
  LET scan[l \in 1 .. linenum] ==
        IF l = linenum THEN FindStartOfExpressionInLine(lines[l], pos, <<>>)
        ELSE IF scan[l + 1].state = "scanning" /\ scan[l + 1].stack # <<>>
             THEN FindStartOfExpressionInLine(lines[l], Len(lines[l]), scan[l + 1].stack)
             ELSE scan[l + 1]
      starts == {l \in 1 .. linenum : scan[l].state = "found"}
      last == CHOOSE l \in starts : \A k \in starts : l >= k
  IN  IF lines[linenum][pos] \in Closing \cup {">", " >= "} /\ starts # {}
      THEN [linenum |-> last, pos |-> scan[last].pos]
      ELSE NoPosition

----------------------------------------------------------------------------
(* _GetTextInside, on the text the lines make when they are joined.         *)

Joined(lines) == FlattenSeq(lines)

\* The position of pos of line linenum in that text.
Offset(lines, linenum, pos) == Len(FlattenSeq(SubSeq(lines, 1, linenum - 1))) + pos

\* The position past the punctuation that closes the one at start.
GetTextInside(text, start) ==
  LET scan[k \in start .. Len(text)] ==
        LET stack == scan[k - 1].stack IN
        IF k = start THEN Scanning(<<Closer(text[k])>>)
        ELSE IF scan[k - 1].state # "scanning" THEN scan[k - 1]
        ELSE IF text[k] = Last(stack) THEN FoundAt(k + 1, Front(stack))
        ELSE CASE text[k] \in Closing -> Failed
               [] text[k] \in Opening -> Scanning(Append(stack, Closer(text[k])))
               [] OTHER -> Scanning(stack)
  IN  scan[Len(text)].pos

=============================================================================
