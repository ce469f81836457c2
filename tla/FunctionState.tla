---------------------------- MODULE FunctionState ----------------------------
(***************************************************************************)
(* _FunctionState of cpplint.py, which counts the lines of a function for  *)
(* CheckForFunctionLengths.                                                *)
(***************************************************************************)
EXTENDS Integers

CONSTANTS
  NormalTrigger,  \* _NORMAL_TRIGGER, 250
  TestTrigger     \* _TEST_TRIGGER, 400

ASSUME TriggersAssumption ==
  NormalTrigger \in Nat \ {0} /\ TestTrigger \in Nat \ {0} /\ NormalTrigger <= TestTrigger

NoFunction == [in_a_function |-> FALSE, lines_in_function |-> 0, is_test |-> FALSE]

BaseTrigger(state) == IF state.is_test THEN TestTrigger ELSE NormalTrigger

\* _FunctionState.Check: the function is too long for the verbosity.
IsTooLong(state, verbose) ==
  state.in_a_function /\ state.lines_in_function > BaseTrigger(state) * 2 ^ verbose

\* Fault: every level is counted from the trigger of tests.
ErrorLevelOfTests(state) ==
  LET times == state.lines_in_function \div TestTrigger
  IN  CHOOSE level \in 0 .. 5 : 2 ^ level <= times /\ (level = 5 \/ times < 2 ^ (level + 1))

\* int(math.log(lines_in_function / base_trigger, 2)), at most 5.
ErrorLevel(state) ==
  LET times == state.lines_in_function \div BaseTrigger(state)
  IN  CHOOSE level \in 0 .. 5 : 2 ^ level <= times /\ (level = 5 \/ times < 2 ^ (level + 1))

Begin(state, is_test) ==
  [state EXCEPT !.in_a_function = TRUE, !.lines_in_function = 0, !.is_test = is_test]

\* CheckForFunctionLengths.  A line is the "start" of a function or a "test" with
\* a body, a "declaration" that ends before any brace, one for which no brace is
\* found ("lost"), the "end" brace of a function, "blank", as one of inline assembly
\* is treated, or one that counts.
FunctionStateAfter(state, line) ==
  CASE line = "start" -> Begin(state, FALSE)
    [] line = "test" -> Begin(state, TRUE)
    [] line = "end" -> [state EXCEPT !.in_a_function = FALSE]
    [] line \in {"declaration", "lost", "blank"} -> state
    [] OTHER -> IF state.in_a_function THEN [state EXCEPT !.lines_in_function = @ + 1] ELSE state

=============================================================================
