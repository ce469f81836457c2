----------------------------- MODULE Operators -----------------------------
(***************************************************************************)
(* Operators over the tables of the StorageManager: TableWrappers around   *)
(* tables got by name, and Prints on top of other operators.  A program    *)
(* may construct, execute and read them in any order, again and again,     *)
(* while tables are dropped, reset and added under their old names.        *)
(***************************************************************************)
EXTENDS StorageManager, Sequences

CONSTANT MaxOperators  \* bound: operators constructed

VARIABLES
  operators,  \* in the order of construction
  careless    \* history: a null pointer was handed in, or an operator executed
              \* before its input

vars == <<tables, outcome, operators, careless>>

\* _table, _input_left and _output of an operator; name and executed are
\* history: the name its table was got by, whether execute has returned.
TableWrapper(tablename, wrapped) ==
  [kind |-> "wrapper", name |-> tablename, table |-> wrapped,
   input |-> 0, output |-> Nullptr, executed |-> FALSE]

PrintOn(in) ==
  [kind |-> "print", name |-> "", table |-> Nullptr,
   input |-> in, output |-> Nullptr, executed |-> FALSE]

Init ==
  /\ tables = [n \in {} |-> Nullptr]
  /\ outcome = "ok"
  /\ operators = <<>>
  /\ careless = FALSE

Manage ==
  /\ \/ \E name \in TableNames, table \in Pointers :
          AddTable(name, table) /\ careless' = (careless \/ table = Nullptr)
     \/ \E name \in TableNames : DropTable(name) /\ UNCHANGED careless
     \/ ResetTables /\ UNCHANGED careless
     \/ PrintTables /\ UNCHANGED careless
  /\ UNCHANGED operators

\* TableWrapper(sm.get_table(name)); get_table throws for an unknown name.
ConstructWrapper(name) ==
  /\ Len(operators) < MaxOperators
  /\ IF HasTable(name)
     THEN operators' = Append(operators, TableWrapper(name, tables[name])) /\ outcome' = "ok"
     ELSE outcome' = "threw" /\ UNCHANGED operators
  /\ UNCHANGED <<tables, careless>>

\* Print(operators[input]); 0 stands for no input.
ConstructPrint(input) ==
  /\ Len(operators) < MaxOperators
  /\ operators' = Append(operators, PrintOn(input))
  /\ careless' = (careless \/ input = 0)
  /\ outcome' = "ok"
  /\ UNCHANGED tables

\* _input_left->get_output(), for an operator that has an input.
InputTable(operator) == operators[operator.input].output

\* Fault: a wrapper asks for the table of its name when it is executed.
OnExecuteByName(operator) ==
  IF operator.kind = "print" THEN InputTable(operator)
  ELSE IF HasTable(operator.name) THEN tables[operator.name] ELSE operator.table

\* Fault: Print returns no table.
OnExecuteOfSink(operator) ==
  IF operator.kind = "print" THEN Nullptr ELSE operator.table

\* _on_execute: a wrapper returns its table, Print the one it has printed.
OnExecute(operator) ==
  IF operator.kind = "print" THEN InputTable(operator) ELSE operator.table

\* Print dereferences its input, and the table that gives it.
Dereferenceable(operator) ==
  operator.kind = "print" => operator.input # 0 /\ InputTable(operator) # Nullptr

Execute(i) ==
  LET operator == operators[i]
  IN  /\ IF Dereferenceable(operator)
         THEN /\ operators' = [operators EXCEPT ![i].output = OnExecute(operator),
                                                ![i].executed = TRUE]
              /\ outcome' = "ok"
         ELSE outcome' = "crashed" /\ UNCHANGED operators
      /\ careless' = (careless \/
           (operator.input # 0 /\ ~operators[operator.input].executed))
      /\ UNCHANGED tables

\* The static Print::print: a wrapper and a Print for the length of the call.
PrintNow(table) ==
  /\ outcome' = IF table = Nullptr THEN "crashed" ELSE "ok"
  /\ careless' = (careless \/ table = Nullptr)
  /\ UNCHANGED <<tables, operators>>

Next ==
  /\ outcome # "crashed"
  /\ \/ Manage
     \/ \E name \in TableNames : ConstructWrapper(name)
     \/ \E input \in 0 .. Len(operators) : ConstructPrint(input)
     \/ \E i \in DOMAIN operators : Execute(i)
     \/ \E table \in Pointers : PrintNow(table)

Spec == Init /\ [][Next]_vars

----------------------------------------------------------------------------
(* Properties                                                               *)

\* Programs that hand in no null pointer and keep to the phases of
\* abstract_operator.hpp:15-21 never dereference one, however deep the
\* operators are stacked and whatever happens to the names of their tables.
PhasesPreventCrashes == ~careless => outcome # "crashed"

\* The table at the bottom of the operators an operator stands on.
Bottom[i \in DOMAIN operators] ==
  IF operators[i].kind = "wrapper" THEN operators[i].table
  ELSE IF operators[i].input = 0 THEN Nullptr
  ELSE Bottom[operators[i].input]

\* "Is nullptr until the operator is executed" (abstract_operator.hpp:61), and
\* the table at the bottom from then on, "correctly passed" by every Print
\* (print_test.cpp:53).
OutputIsTheBottomTable ==
  \A i \in DOMAIN operators :
    operators[i].output = IF operators[i].executed THEN Bottom[i] ELSE Nullptr

=============================================================================
