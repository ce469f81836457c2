---------------------------- MODULE CleansedLines ----------------------------
(***************************************************************************)
(* What cpplint.py does to the text of a file before any check reads it:   *)
(* multi-line comments, raw strings, strings and comments are removed, one *)
(* pass after the other.  A line is a sequence of tokens: the delimiters   *)
(* below, "include" for #include, and anything else as one token of code.  *)
(* A collapsed string is the token "str".                                  *)
(***************************************************************************)
EXTENDS Integers, FiniteSets, SequencesExt

\* " and R"( and )" : each has one double quote in it.
Quotes == {"quote", "raw(", ")raw"}

\* The positions of a sequence of length n that lie in a pair of delimiters,
\* delimiters included: the first opening one to the next closing one, and so on
\* from there.  One that is never closed encloses nothing.
Enclosed(opens, closes, n) ==
  {i \in 1 .. n : /\ \E open \in opens : open <= i /\ closes \cap (open .. i - 1) = {}
                  /\ closes \cap (i .. n) # {}}

\* The tokens of a line that are not at the given positions.
Without(line, positions) ==
  FlattenSeq([i \in DOMAIN line |-> IF i \in positions THEN <<>> ELSE <<line[i]>>])

----------------------------------------------------------------------------
(* RemoveMultiLineComments.                                                 *)

\* The line starts with a comment that goes beyond it.
StartsMultiLineComment(line) ==
  line # <<>> /\ Head(line) = "/*" /\ "*/" \notin ToSet(line)

EndsMultiLineComment(line) == line # <<>> /\ Last(line) = "*/"

CommentStarts(lines) == {i \in DOMAIN lines : StartsMultiLineComment(lines[i])}
CommentEnds(lines) == {i \in DOMAIN lines : EndsMultiLineComment(lines[i])}

MultiLineComments(lines) == Enclosed(CommentStarts(lines), CommentEnds(lines), Len(lines))

\* Every line of such a comment becomes /**/.
RemoveMultiLineComments(lines) ==
  [i \in DOMAIN lines |->
     IF i \in MultiLineComments(lines) THEN <<"/*", "*/">> ELSE lines[i]]

\* Fault: a start of a comment before the last one is not looked for.
CommentIsOpenAtLastLine(lines) == Len(lines) \in CommentStarts(lines)

\* 'Could not find end of multi-line comment'.
CommentIsOpen(lines) == CommentStarts(lines) \ MultiLineComments(lines) # {}

----------------------------------------------------------------------------
(* The passes of CleansedLines.                                             *)

\* Fault: any quote before a position puts it in a string.
IsCppStringAfterQuote(line) == \E i \in DOMAIN line : line[i] \in Quotes

IsCppString(line) == Cardinality({i \in DOMAIN line : line[i] \in Quotes}) % 2 = 1

EmptyString == <<"quote", "quote">>

\* The end of the line is in a single-line comment.
IsLineComment(line) ==
  \E i \in DOMAIN line : line[i] = "//" /\ ~IsCppString(SubSeq(line, 1, i - 1))

\* One turn of the loop of CleanseRawStrings: what is left of a line so far, and
\* whether its end is in a raw string.
CleanseRawToken(s, token) ==
  IF s.inside THEN [s EXCEPT !.inside = token # ")raw"]
  ELSE IF token = "raw(" /\ ~IsLineComment(s.line)
  THEN [line |-> s.line \o EmptyString, inside |-> TRUE]
  ELSE [s EXCEPT !.line = @ \o (IF token = ")raw" THEN <<")", "quote">> ELSE <<token>>)]

CleanseRawLine(line, inside) ==
  LET cleansed[i \in 0 .. Len(line)] ==
        IF i = 0 THEN [line |-> IF inside THEN EmptyString ELSE <<>>, inside |-> inside]
        ELSE CleanseRawToken(cleansed[i - 1], line[i])
  IN  cleansed[Len(line)]

CleanseRawStrings(lines) ==
  LET cleansed[i \in 0 .. Len(lines)] ==
        IF i = 0 THEN [line |-> <<>>, inside |-> FALSE]
        ELSE CleanseRawLine(lines[i], cleansed[i - 1].inside)
  IN  [i \in DOMAIN lines |-> cleansed[i].line]

\* Only the first // is looked at.
CleanseComments(line) ==
  LET pos == SelectInSeq(line, LAMBDA token : token = "//")
      code == IF pos # 0 /\ ~IsCppString(SubSeq(line, 1, pos - 1))
              THEN SubSeq(line, 1, pos - 1) ELSE line
      marks(token) == {i \in DOMAIN code : code[i] = token}
  IN  Without(code, Enclosed(marks("/*"), marks("*/"), Len(code)))

\* _CollapseStrings: the quotes of a line are taken in pairs, the last one is
\* left alone when there is no other.
CollapseStrings(line) ==
  LET quotes == {i \in DOMAIN line : line[i] \in Quotes}
      opens == {i \in quotes : ~IsCppString(SubSeq(line, 1, i - 1))}
      strings == Enclosed(opens, quotes \ opens, Len(line))
  IN  IF line # <<>> /\ Head(line) = "include" THEN line
      ELSE Without([i \in DOMAIN line |-> IF i \in strings THEN "str" ELSE line[i]],
                   strings \ opens)

\* CleansedLines.lines and CleansedLines.elided.
CleansedLinesOf(lines) ==
  LET without_raw_strings == CleanseRawStrings(lines)
  IN  [i \in DOMAIN lines |-> CleanseComments(without_raw_strings[i])]

ElidedLinesOf(lines) ==
  LET without_raw_strings == CleanseRawStrings(lines)
  IN  [i \in DOMAIN lines |-> CleanseComments(CollapseStrings(without_raw_strings[i]))]

=============================================================================
