----------------------------- MODULE MCLintText -----------------------------
(***************************************************************************)
(* LintText on all short files of lines that mix comments, strings and raw *)
(* strings, and of lines that mix brackets, comparisons and operators.     *)
(***************************************************************************)
EXTENDS LintText

CONSTANTS
  TextLines,     \* bound: lines of a file of the first kind
  BracketLines,  \* bound: lines of a file of the second kind
  BracketChars   \* bound: characters of a file of one line

Delimited ==
  {<<>>, <<"a">>, <<"/*">>, <<"*/">>, <<"a", "*/">>, <<"/*", "a", "*/">>,
   <<"a", "/*", "b", "*/">>, <<"/*", "a", "*/", "b">>,
   <<"//", "/*">>, <<"/*", "//">>, <<"/*", "quote">>, <<"/*", "raw(">>,
   <<"a", "//", "quote">>, <<"//", "raw(">>,
   <<"quote", "//", "quote", "a">>, <<"quote", "/*", "quote", "b">>,
   <<"quote", "quote", "//", "raw(">>, <<"quote", "//", "quote", "raw(">>,
   <<"raw(">>, <<"raw(", "quote">>, <<")raw">>, <<")raw", "//">>, <<"//", ")raw">>,
   <<"raw(", "//", ")raw", "a">>, <<"include", "quote", "//", "quote", "//">>}

Bracketed ==
  {<<"(">>, <<")">>, <<"{">>, <<"}">>, <<"]", ">">>, <<"<", "[">>, <<"x", ";">>,
   <<"<", "<", "<">>, <<"-", ">", ">">>, <<"(", "<", ")">>, <<"operator", ">">>,
   <<"quote", ")", "quote">>, <<"/*", "(", "*/">>}

Chars == {"(", ")", "[", "]", "<", ">", ";", "-", "=", "operator", " >= "}

MCFiles ==
  [1 .. TextLines -> Delimited] \cup [1 .. BracketLines -> Bracketed]
    \cup {<<line>> : line \in [1 .. BracketChars -> Chars]}

=============================================================================
