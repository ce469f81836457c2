------------------------------ MODULE LintText ------------------------------
(***************************************************************************)
(* The text of a file from its raw lines to the elided ones, and the ends  *)
(* of the expressions in them: ProcessFileData of cpplint.py runs          *)
(* RemoveMultiLineComments and CleansedLines one after the other, and the  *)
(* checks call CloseExpression, ReverseCloseExpression and _GetTextInside  *)
(* on what comes out.                                                      *)
(***************************************************************************)
EXTENDS CleansedLines, Expressions

CONSTANT Files  \* the files, sequences of lines of tokens

ASSUME FilesAreText == \A text \in Files : text \in Seq(Seq(STRING))

VARIABLES
  file,
  lines,         \* what the passes done so far have made of it
  cleansed,      \* CleansedLines.lines
  elided,        \* CleansedLines.elided
  unterminated,  \* whether the end of a multi-line comment was missed
  phase

text_vars == <<file, lines, cleansed, elided, unterminated, phase>>

TextInit ==
  /\ file \in Files
  /\ lines = file /\ cleansed = <<>> /\ elided = <<>>
  /\ unterminated = FALSE /\ phase = "raw"

RemoveComments ==
  /\ phase = "raw" /\ phase' = "uncommented"
  /\ lines' = RemoveMultiLineComments(lines)
  /\ unterminated' = CommentIsOpen(lines)
  /\ UNCHANGED <<file, cleansed, elided>>

Cleanse ==
  /\ phase = "uncommented" /\ phase' = "cleansed"
  /\ cleansed' = CleansedLinesOf(lines)
  /\ elided' = ElidedLinesOf(lines)
  /\ UNCHANGED <<file, lines, unterminated>>

TextNext == RemoveComments \/ Cleanse

TextSpec == TextInit /\ [][TextNext]_text_vars

----------------------------------------------------------------------------
(* The text as a C++ compiler reads it, in one pass.                        *)

ModeAfter(mode, token) ==
  CASE mode = "code" /\ token = "/*" -> "block_comment"
    [] mode = "code" /\ token = "//" -> "line_comment"
    [] mode = "code" /\ token = "raw(" -> "raw_string"
    [] mode = "code" /\ token \in Quotes \ {"raw("} -> "string"
    [] mode = "string" /\ token \in Quotes -> "code"
    [] mode = "block_comment" /\ token = "*/" -> "code"
    [] mode = "raw_string" /\ token = ")raw" -> "code"
    [] OTHER -> mode

\* The mode after each token of a line.
LineModes(line, start) ==
  LET mode[i \in 0 .. Len(line)] == IF i = 0 THEN start ELSE ModeAfter(mode[i - 1], line[i])
  IN  mode

EndMode(line, start) == LineModes(line, start)[Len(line)]

\* Only the end of its line ends a line comment.
NextLine(mode) == IF mode = "line_comment" THEN "code" ELSE mode

\* StartModes[l]: the mode at the start of line l.
StartModes ==
  LET start[l \in 1 .. Len(file) + 1] ==
        IF l = 1 THEN "code" ELSE NextLine(EndMode(file[l - 1], start[l - 1]))
  IN  start

\* Modes[l][i]: the mode after the first i tokens of line l.
Modes == [l \in DOMAIN file |-> LineModes(file[l], StartModes[l])]

\* The file ends in a comment.
EndsInComment == StartModes[Len(file) + 1] = "block_comment"

\* What a token is read as: "str" for a string, nothing in a comment.
Emitted(mode, token) ==
  IF mode # "code" \/ token \in {"/*", "//"} THEN <<>>
  ELSE IF token \notin Quotes THEN <<token>>
  ELSE IF token = ")raw" THEN <<")", "str">> ELSE <<"str">>

\* The code of a line, with "str" for the rest of a raw string on the lines it goes
\* on to.
LexedCode(mode, line) ==
  (IF mode[0] = "raw_string" THEN <<"str">> ELSE <<>>)
    \o FlattenSeq([i \in DOMAIN line |-> Emitted(mode[i - 1], line[i])])

\* The line starts or ends in a comment of several lines.
IsCommentLine(mode, line) == "block_comment" \in {mode[0], mode[Len(line)]}

\* The lines the passes are made for: a comment of several lines is alone on
\* them; one in a line has no quote and no // in it; a string ends on its line and
\* holds no R"(; a line of a raw string does not look like the start of a
\* comment.
IsSupportedLine(mode, line) ==
  LET end == mode[Len(line)]
      InComment(i) == mode[i] = "block_comment"
  IN
  /\ end # "string"
  /\ mode[0] = "raw_string" => ~StartsMultiLineComment(line)
  /\ end = "block_comment" => InComment(0) \/ StartsMultiLineComment(line)
  /\ \A i \in DOMAIN line :
       /\ InComment(0) /\ mode[i] = "code" => i = Len(line)
       /\ mode[i - 1] = "string" => line[i] # "raw("
       /\ InComment(i - 1) /\ ~IsCommentLine(mode, line) => line[i] \notin Quotes \cup {"//"}

IsSupported(mode) == \A l \in DOMAIN file : IsSupportedLine(mode[l], file[l])

\* #include lines keep their quotes.
HasInclude == \E l \in DOMAIN file : "include" \in ToSet(file[l])

----------------------------------------------------------------------------
(* Properties                                                               *)

\* "elided member contains lines without strings and comments"
\* (cpplint.py:1374): four passes that each know one construct, in this order,
\* leave exactly the code a lexer sees on every line, whatever comment markers
\* are in strings, quotes in comments and either in raw strings.
ElidedIsTheLexedCode ==
  LET mode == Modes IN
  phase = "cleansed" /\ IsSupported(mode) /\ ~HasInclude /\ ~EndsInComment
    => \A l \in DOMAIN file : elided[l] = LexedCode(mode[l], file[l])

\* 'Could not find end of multi-line comment' is reported of exactly the files
\* that end in a comment.
OpenCommentIsReported ==
  LET mode == Modes IN
  phase # "raw" /\ IsSupported(mode)
    => (unterminated <=> EndsInComment)

\* The three ways to find the end of a parenthesis agree: comparisons, shifts and
\* template arguments, which _GetTextInside does not know, never mislead
\* the other two, forwards or backwards and across lines.
MatchersAgree ==
  phase = "cleansed" =>
    \A l \in DOMAIN elided : \A i \in DOMAIN elided[l] :
      elided[l][i] \in Opening =>
        LET end == CloseExpression(elided, l, i)
            past == GetTextInside(Joined(elided), Offset(elided, l, i))
        IN  IF end = NoPosition THEN past = 0
            ELSE /\ past = Offset(elided, end.linenum, end.pos)
                 /\ ReverseCloseExpression(elided, end.linenum, end.pos - 1)
                      = [linenum |-> l, pos |-> i]

\* The brackets of text between two positions match each other.
IsBalanced(text, from, to) ==
  LET depth(i) == Cardinality({j \in from .. i : text[j] \in Opening})
                  - Cardinality({j \in from .. i : text[j] \in Closing})
  IN  /\ depth(to) = 0
      /\ \A i \in from .. to :
           /\ depth(i) >= 0
           /\ text[i] \in Opening => GetTextInside(text, i) \in from .. to + 1

\* What is skipped as a template argument list, from either end, is whole
\* expressions, so that a caller that goes on behind it is at the same nesting.
TemplateArgumentsAreBalanced ==
  phase = "cleansed" =>
    \A l \in DOMAIN elided : \A i \in DOMAIN elided[l] :
      LET end == CloseExpression(elided, l, i)
          start == ReverseCloseExpression(elided, l, i)
          here == Offset(elided, l, i)
      IN  /\ elided[l][i] = "<" /\ Before(elided[l], i) # "operator" /\ end # NoPosition =>
               IsBalanced(Joined(elided), here, Offset(elided, end.linenum, end.pos) - 1)
          /\ elided[l][i] = ">" /\ ~IgnoredStart(elided[l], i) /\ start # NoPosition =>
               IsBalanced(Joined(elided), Offset(elided, start.linenum, start.pos), here)

----------------------------------------------------------------------------
(* What comments in the code say and the code does not do.                  *)

\* 'Ignore "->" and operator functions' (cpplint.py:1519): the > of operator>
\* ends no template argument list.
OperatorFunctionsAreIgnored ==
  phase = "cleansed" =>
    \A l \in DOMAIN elided : \A i \in DOMAIN elided[l] :
      LET end == CloseExpression(elided, l, i) IN
      end # NoPosition /\ elided[end.linenum][end.pos - 1] = ">"
        => Before(elided[end.linenum], end.pos - 1) # "operator"

=============================================================================
