-------------------- MODULE OperatorsAndUtilitiesProofs ---------------------
(***************************************************************************)
(* Operators, the attribute vector and the performance warnings, for any   *)
(* number of operators, tables and names, vectors of any size and width,   *)
(* and any number of disablers in each other.                              *)
(***************************************************************************)
EXTENDS MCOperatorsAndUtilities, Induction

----------------------------------------------------------------------------
(* Operators: no null pointer is dereferenced.                              *)

OperatorRecords ==
  [kind : {"wrapper", "print"}, name : TableNames \cup {""}, table : Pointers,
   input : Nat, output : Pointers, executed : BOOLEAN]

\* No operator stands on one that is yet to be constructed.
TypesInv ==
  /\ operators \in Seq(OperatorRecords)
  /\ \A i \in DOMAIN operators : operators[i].input < i
  /\ DOMAIN tables \subseteq TableNames
  /\ \A name \in DOMAIN tables : tables[name] \in Pointers
  /\ careless \in BOOLEAN

\* What an operator of a careful program may rely on.
Careful(operator) ==
  /\ operator.kind = "wrapper" => operator.table # Nullptr
  /\ operator.kind = "print" => operator.input # 0
  /\ operator.executed => operator.output # Nullptr

\* There is no null pointer in what a careful program has handed in, and
\* executed operators have handed on.
CarefulInv ==
  ~careless =>
    /\ outcome # "crashed"
    /\ \A name \in DOMAIN tables : tables[name] # Nullptr
    /\ \A i \in DOMAIN operators : Careful(operators[i])

Inv == TypesInv /\ CarefulInv

----------------------------------------------------------------------------

\* The StorageManager hands out what was handed in.
LEMMA ManageKeepsInv == Inv /\ Manage => Inv'
<1> SUFFICES ASSUME Inv, Manage PROVE Inv' OBVIOUS
<1> USE DEF Inv, TypesInv, CarefulInv
<1>0. UNCHANGED operators BY DEF Manage
<1>1. ASSUME NEW name \in TableNames, NEW table \in Pointers, AddTable(name, table),
             careless' = (careless \/ table = Nullptr)
      PROVE  Inv'
  <2>1. CASE HasTable(name) BY <1>0, <1>1, <2>1 DEF AddTable
  <2>2. CASE ~HasTable(name)
    <3>1. /\ DOMAIN tables' = DOMAIN tables \cup {name}
          /\ \A n \in DOMAIN tables' : tables'[n] = IF n = name THEN table ELSE tables[n]
          /\ outcome' = "ok"
      BY <1>1, <2>2 DEF AddTable
    <3>2. QED BY <1>0, <1>1, <3>1
  <2>3. QED BY <2>1, <2>2
<1>2. ASSUME NEW name \in TableNames, DropTable(name), UNCHANGED careless PROVE Inv'
  <2>1. /\ DOMAIN tables' \subseteq DOMAIN tables
        /\ \A n \in DOMAIN tables' : tables'[n] = tables[n]
        /\ outcome' # "crashed"
    BY <1>2 DEF DropTable, Restrict
  <2>2. QED BY <1>0, <1>2, <2>1
<1>3. CASE ResetTables /\ UNCHANGED careless
  <2>1. DOMAIN tables' = {} /\ outcome' = "ok" BY <1>3 DEF ResetTables
  <2>2. QED BY <1>0, <1>3, <2>1
<1>4. CASE PrintTables /\ UNCHANGED careless
  <2>1. ~careless => outcome' # "crashed" BY <1>4 DEF PrintTables, Range
  <2>2. UNCHANGED tables BY <1>4 DEF PrintTables
  <2>3. QED BY <1>0, <1>4, <2>1, <2>2
<1>5. QED BY <1>1, <1>2, <1>3, <1>4 DEF Manage

\* A new operator has not been executed.
LEMMA ConstructedOK ==
  ASSUME Inv, NEW operator \in OperatorRecords, operator.input <= Len(operators),
         operators' = Append(operators, operator), UNCHANGED tables,
         careless' \in BOOLEAN, ~careless' => ~careless /\ Careful(operator),
         outcome' = "ok"
  PROVE  Inv'
<1> USE DEF Inv, TypesInv, CarefulInv
<1> DEFINE n == Len(operators)
<1>1. n \in Nat /\ DOMAIN operators = 1 .. n OBVIOUS
<1>2. /\ operators' \in Seq(OperatorRecords) /\ Len(operators') = n + 1
      /\ DOMAIN operators' = 1 .. n + 1
  OBVIOUS
<1>3. \A i \in 1 .. n : operators'[i] = operators[i] OBVIOUS
<1>4. operators'[n + 1] = operator OBVIOUS
<1> HIDE DEF n
<1>5. \A i \in DOMAIN operators' : operators'[i].input < i
  <2> SUFFICES ASSUME NEW i \in 1 .. n + 1 PROVE operators'[i].input < i BY <1>2
  <2>1. CASE i = n + 1
    <3>1. operator.input <= n /\ operator.input \in Nat BY DEF OperatorRecords, n
    <3>2. operators'[i].input = operator.input BY <1>4, <2>1
    <3>3. QED BY <1>1, <2>1, <3>1, <3>2
  <2>2. CASE i # n + 1
    <3>1. i \in 1 .. n BY <1>1, <2>2
    <3>2. QED BY <1>1, <1>3, <3>1
  <2>3. QED BY <2>1, <2>2
<1>6. ~careless' => \A i \in DOMAIN operators' : Careful(operators'[i])
  <2> SUFFICES ASSUME ~careless', NEW i \in 1 .. n + 1 PROVE Careful(operators'[i]) BY <1>2
  <2>1. CASE i = n + 1 BY <1>4, <2>1
  <2>2. CASE i # n + 1
    <3>1. i \in 1 .. n BY <1>1, <2>2
    <3>2. QED BY <1>1, <1>3, <3>1
  <2>3. QED BY <2>1, <2>2
<1>7. QED BY <1>2, <1>5, <1>6

\* An operator that is executed after its input finds the output of that one, and a
\* table is all it hands on.
LEMMA ExecuteKeepsInv == ASSUME Inv, NEW i \in DOMAIN operators, Execute(i) PROVE Inv'
<1> USE DEF Inv, TypesInv, CarefulInv
<1> DEFINE operator == operators[i]
           executed == [operator EXCEPT !.output = OnExecute(operator), !.executed = TRUE]
<1>1. operator \in OperatorRecords /\ operator.input \in Nat
  <2>1. operator \in OperatorRecords OBVIOUS
  <2>2. QED BY <2>1 DEF OperatorRecords
<1>2. /\ UNCHANGED tables
      /\ careless' = (careless \/ (operator.input # 0 /\ ~operators[operator.input].executed))
  BY DEF Execute
<1>3. operator.input # 0 => operator.input \in DOMAIN operators BY <1>1
<1>4. ~careless' => ~careless /\ Dereferenceable(operator) /\ OnExecute(operator) # Nullptr
  BY <1>1, <1>2, <1>3 DEF Careful, Dereferenceable, InputTable, OnExecute, OperatorRecords
<1>5. CASE Dereferenceable(operator)
  <2>1. outcome' = "ok" /\ operators' = [operators EXCEPT ![i] = executed]
    BY <1>5 DEF Execute
  <2>2. OnExecute(operator) \in Pointers
    <3>1. CASE operator.kind = "print"
      <4>1. operator.input \in DOMAIN operators BY <1>3, <1>5, <3>1 DEF Dereferenceable
      <4>2. operators[operator.input] \in OperatorRecords BY <4>1
      <4>3. operators[operator.input].output \in Pointers BY <4>2 DEF OperatorRecords
      <4>4. OnExecute(operator) = operators[operator.input].output
        BY <3>1 DEF OnExecute, InputTable
      <4>5. QED BY <4>3, <4>4
    <3>2. CASE operator.kind # "print" BY <1>1, <3>2 DEF OnExecute, OperatorRecords
    <3>3. QED BY <3>1, <3>2
  <2>3. executed \in OperatorRecords /\ executed.input = operator.input
    BY <1>1, <2>2 DEF OperatorRecords
  <2>4. ~careless' => Careful(executed) BY <1>1, <1>4 DEF Careful, OperatorRecords
  <2> HIDE DEF executed
  <2>5. operators' \in Seq(OperatorRecords) /\ Len(operators') = Len(operators)
    BY <2>1, <2>3
  <2>6. \A j \in DOMAIN operators' : operators'[j].input < j
    BY <2>1, <2>3, <2>5
  <2>7. ~careless' => \A j \in DOMAIN operators' : Careful(operators'[j])
    BY <1>4, <2>1, <2>4
  <2>8. careless' \in BOOLEAN BY <1>1, <1>2, <1>3
  <2>9. QED BY <1>2, <1>4, <2>1, <2>5, <2>6, <2>7, <2>8
<1>6. CASE ~Dereferenceable(operator)
  <2>1. UNCHANGED operators BY <1>6 DEF Execute
  <2>2. careless' = TRUE
    <3>1. careless' \in BOOLEAN BY <1>1, <1>2, <1>3
    <3>2. QED BY <1>4, <1>6, <3>1
  <2>3. QED BY <1>2, <2>1, <2>2
<1>7. QED BY <1>5, <1>6

\* The invariant holds in every state of every program.
LEMMA AlwaysInv == Spec => []Inv
<1>1. Init => Inv
  <2> SUFFICES ASSUME Init PROVE Inv OBVIOUS
  <2>1. operators = <<>> /\ DOMAIN tables = {} /\ outcome = "ok" /\ careless = FALSE
    BY DEF Init
  <2>2. operators \in Seq(OperatorRecords) /\ DOMAIN operators = {} BY <2>1
  <2>3. QED BY <2>1, <2>2 DEF Inv, TypesInv, CarefulInv
<1>2. Inv /\ [Next]_vars => Inv'
  <2> SUFFICES ASSUME Inv, [Next]_vars PROVE Inv' OBVIOUS
  <2>1. CASE Manage BY <2>1, ManageKeepsInv
  <2>2. ASSUME NEW name \in TableNames, ConstructWrapper(name) PROVE Inv'
    <3>1. CASE HasTable(name)
      <4> DEFINE wrapper == TableWrapper(name, tables[name])
      <4>0. tables[name] \in Pointers /\ Nullptr \in Pointers
        BY <3>1 DEF HasTable, Inv, TypesInv, Pointers
      <4>1. /\ wrapper \in OperatorRecords
            /\ wrapper.input = 0
            /\ Len(operators) \in Nat
        <5>1. wrapper \in OperatorRecords BY <4>0 DEF TableWrapper, OperatorRecords
        <5>2. wrapper.input = 0 BY DEF TableWrapper
        <5>3. Len(operators) \in Nat BY DEF Inv, TypesInv
        <5>4. QED BY <5>1, <5>2, <5>3
      <4>2. ~careless => Careful(wrapper)
        BY <3>1 DEF Careful, TableWrapper, Inv, CarefulInv, HasTable
      <4>3. careless' \in BOOLEAN /\ (~careless' => ~careless /\ Careful(wrapper))
        BY <2>2, <4>2 DEF ConstructWrapper, Inv, TypesInv
      <4>4. /\ operators' = Append(operators, wrapper)
            /\ UNCHANGED tables /\ outcome' = "ok"
        BY <2>2, <3>1 DEF ConstructWrapper
      <4> HIDE DEF wrapper
      <4>5. wrapper.input <= Len(operators) BY <4>1
      <4>6. QED BY <4>1, <4>3, <4>4, <4>5, ConstructedOK
    <3>2. CASE ~HasTable(name)
      BY <2>2, <3>2 DEF ConstructWrapper, Inv, TypesInv, CarefulInv
    <3>3. QED BY <3>1, <3>2
  <2>3. ASSUME NEW input \in 0 .. Len(operators), ConstructPrint(input) PROVE Inv'
    <3> DEFINE print == PrintOn(input)
    <3>1. print \in OperatorRecords /\ print.input <= Len(operators)
      <4>1. Nullptr \in Pointers BY DEF Pointers
      <4>2. Len(operators) \in Nat BY DEF Inv, TypesInv
      <4>3. input \in Nat /\ input <= Len(operators) BY <4>2
      <4>4. print \in OperatorRecords BY <4>1, <4>3 DEF PrintOn, OperatorRecords
      <4>5. print.input = input BY DEF PrintOn
      <4>6. QED BY <4>3, <4>4, <4>5
    <3>2. input # 0 => Careful(print) BY DEF Careful, PrintOn
    <3>3. careless' \in BOOLEAN /\ (~careless' => ~careless /\ Careful(print))
      BY <2>3, <3>2 DEF ConstructPrint, Inv, TypesInv
    <3>4. operators' = Append(operators, print) /\ UNCHANGED tables /\ outcome' = "ok"
      BY <2>3 DEF ConstructPrint
    <3> HIDE DEF print
    <3>5. QED BY <3>1, <3>3, <3>4, ConstructedOK
  <2>4. ASSUME NEW i \in DOMAIN operators, Execute(i) PROVE Inv' BY <2>4, ExecuteKeepsInv
  <2>5. ASSUME NEW table \in Pointers, PrintNow(table) PROVE Inv'
    BY <2>5 DEF PrintNow, Inv, TypesInv, CarefulInv
  <2>6. CASE UNCHANGED vars BY <2>6 DEF vars, Inv, TypesInv, CarefulInv
  <2>7. QED BY <2>1, <2>2, <2>3, <2>4, <2>5, <2>6 DEF Next
<1>3. QED BY <1>1, <1>2, PTL DEF Spec

\* Programs that hand in no null pointer and execute operators after their inputs
\* never dereference one (abstract_operator.hpp:15-21).
THEOREM PhasesSuffice == Spec => []PhasesPreventCrashes
<1>1. Inv => PhasesPreventCrashes BY DEF Inv, CarefulInv, PhasesPreventCrashes
<1>2. QED BY <1>1, AlwaysInv, PTL

----------------------------------------------------------------------------
(* Operators: the output is the table at the bottom.                        *)

\* One unfolding of Bottom, for operators ops.
BottomStep(ops, f, i) ==
  IF ops[i].kind = "wrapper" THEN ops[i].table
  ELSE IF ops[i].input = 0 THEN Nullptr ELSE f[ops[i].input]

IsBottom(ops, f) == f = [i \in DOMAIN ops |-> BottomStep(ops, f, i)]

HasBottom(ops) == \E f : IsBottom(ops, f)

\* Every operator stands on one constructed before it, or on none.
Ordered(ops) == \A i \in DOMAIN ops : ops[i].input \in Nat /\ ops[i].input < i

\* The recursion of Bottom ends, since inputs come before the operators on them.
LEMMA BottomExists ==
  ASSUME NEW ops, NEW n \in Nat, DOMAIN ops = 1 .. n, Ordered(ops)
  PROVE  HasBottom(ops)
<1> DEFINE Is(f, k) == f = [i \in 1 .. k |-> BottomStep(ops, f, i)]
           T == {k \in Nat : k <= n => \E f : Is(f, k)}
<1>1. 0 \in T
  <2> DEFINE none == [i \in 1 .. 0 |-> Nullptr]
  <2>1. Is(none, 0) OBVIOUS
  <2>2. QED BY <2>1
<1>2. ASSUME NEW k \in Nat, k \in T PROVE k + 1 \in T
  <2> SUFFICES ASSUME k + 1 <= n PROVE \E f : Is(f, k + 1) OBVIOUS
  <2>1. PICK f : Is(f, k) BY <1>2
  <2> DEFINE g == [i \in 1 .. k + 1 |-> BottomStep(ops, f, i)]
  <2>2. ASSUME NEW i \in 1 .. k + 1 PROVE BottomStep(ops, f, i) = BottomStep(ops, g, i)
    <3>1. ops[i].input \in Nat /\ ops[i].input < i BY DEF Ordered
    <3>2. CASE ops[i].input = 0 BY <3>2 DEF BottomStep
    <3>3. CASE ops[i].input # 0
      <4>1. ops[i].input \in 1 .. k /\ ops[i].input \in 1 .. k + 1 BY <3>1, <3>3
      <4>2. f[ops[i].input] = BottomStep(ops, f, ops[i].input) BY <2>1, <4>1
      <4>3. g[ops[i].input] = BottomStep(ops, f, ops[i].input) BY <4>1
      <4>4. QED BY <4>2, <4>3 DEF BottomStep
    <3>4. QED BY <3>2, <3>3
  <2>3. Is(g, k + 1) BY <2>2
  <2>4. QED BY <2>3
<1> HIDE DEF T
<1>3. n \in T BY <1>1, <1>2, NatInduct
<1>4. QED BY <1>3 DEF T, HasBottom, IsBottom

\* What is below an operator does not depend on what is constructed above it.
LEMMA BottomsAgree ==
  ASSUME NEW ops, NEW n \in Nat, DOMAIN ops = 1 .. n, Ordered(ops), NEW new,
         \A i \in 1 .. n : /\ i \in DOMAIN new /\ new[i].kind = ops[i].kind
                           /\ new[i].table = ops[i].table /\ new[i].input = ops[i].input,
         NEW f, IsBottom(ops, f), NEW g, IsBottom(new, g)
  PROVE  \A i \in 1 .. n : f[i] = g[i]
<1> DEFINE Differ == {i \in 1 .. n : f[i] # g[i]}
<1> SUFFICES ASSUME Differ # {} PROVE FALSE OBVIOUS
<1>1. Differ \in SUBSET Nat OBVIOUS
<1> HIDE DEF Differ
<1>2. PICK i \in Differ : \A j \in Differ : i <= j BY <1>1, LeastElement
<1>3. i \in 1 .. n /\ f[i] # g[i] BY <1>2 DEF Differ
<1>4. f[i] = BottomStep(ops, f, i) /\ g[i] = BottomStep(new, g, i)
  BY <1>3 DEF IsBottom
<1>5. ops[i].input \in Nat /\ ops[i].input < i BY <1>3 DEF Ordered
<1>6. ops[i].input # 0 => f[ops[i].input] = g[ops[i].input]
  <2> SUFFICES ASSUME ops[i].input # 0 PROVE ops[i].input \notin Differ
    BY <1>3, <1>5 DEF Differ
  <2>1. QED BY <1>2, <1>3, <1>5
<1>7. QED BY <1>3, <1>4, <1>6 DEF BottomStep

\* Bottom is what its definition says.
LEMMA BottomUnfolds ==
  ASSUME TypesInv PROVE Ordered(operators) /\ IsBottom(operators, Bottom)
<1>1. operators \in Seq(OperatorRecords) BY DEF TypesInv
<1>2. ASSUME NEW i \in DOMAIN operators PROVE operators[i].input \in Nat
  <2>1. operators[i] \in OperatorRecords BY <1>1
  <2>2. QED BY <2>1 DEF OperatorRecords
<1>3. Ordered(operators) BY <1>2 DEF TypesInv, Ordered
<1>4. HasBottom(operators)
  <2>1. Len(operators) \in Nat /\ DOMAIN operators = 1 .. Len(operators) BY <1>1
  <2>2. QED BY <1>3, <2>1, BottomExists
<1>5. QED BY <1>3, <1>4 DEF HasBottom, IsBottom, BottomStep, Bottom

BottomIsRight == Ordered(operators) /\ IsBottom(operators, Bottom)

\* The same after a step.
LEMMA BottomUnfoldsAfter == TypesInv' => BottomIsRight'
<1>1. TypesInv => BottomIsRight BY BottomUnfolds DEF BottomIsRight
<1>2. QED BY <1>1, PTL

\* A step that leaves the operators there are on their inputs leaves Bottom alone.
LEMMA BottomStays ==
  ASSUME TypesInv, TypesInv',
         \A i \in DOMAIN operators :
           /\ i \in DOMAIN operators' /\ operators'[i].kind = operators[i].kind
           /\ operators'[i].table = operators[i].table
           /\ operators'[i].input = operators[i].input
  PROVE  \A i \in DOMAIN operators : Bottom'[i] = Bottom[i]
<1>1. Ordered(operators) /\ IsBottom(operators, Bottom) BY BottomUnfolds
<1>2. IsBottom(operators', Bottom') BY BottomUnfoldsAfter DEF BottomIsRight
<1>3. Len(operators) \in Nat /\ DOMAIN operators = 1 .. Len(operators) BY DEF TypesInv
<1> DEFINE n == Len(operators)
           b == Bottom
           c == Bottom'
           new == operators'
<1> HIDE DEF n, b, c, new
<1>4. QED BY <1>1, <1>2, <1>3, BottomsAgree DEF n, b, c, new

OutputOK(operator, bottom) ==
  operator.output = IF operator.executed THEN bottom ELSE Nullptr

OutputsInv == \A i \in DOMAIN operators : OutputOK(operators[i], Bottom[i])

\* Construction changes no operator there was.
LEMMA ConstructedOutputs ==
  ASSUME TypesInv, TypesInv', OutputsInv, NEW operator,
         operators' = Append(operators, operator),
         operator.executed = FALSE, operator.output = Nullptr
  PROVE  OutputsInv'
<1>1. operators \in Seq(OperatorRecords) BY DEF TypesInv
<1> DEFINE n == Len(operators)
<1>2. /\ DOMAIN operators = 1 .. n /\ n \in Nat /\ DOMAIN operators' = 1 .. n + 1
      /\ \A i \in 1 .. n : operators'[i] = operators[i]
      /\ operators'[n + 1] = operator
  BY <1>1
<1> HIDE DEF n
<1>3. \A i \in 1 .. n : Bottom'[i] = Bottom[i] BY <1>2, BottomStays
<1> SUFFICES ASSUME NEW i \in 1 .. n + 1 PROVE OutputOK(operators'[i], Bottom'[i])
  BY <1>2 DEF OutputsInv
<1>4. CASE i \in 1 .. n BY <1>2, <1>3, <1>4 DEF OutputsInv
<1>5. CASE i = n + 1 BY <1>2, <1>5 DEF OutputOK
<1>6. QED BY <1>2, <1>4, <1>5

\* A Print that finds a table under it finds the one its input was executed with.
LEMMA ExecutedOutputs ==
  ASSUME TypesInv, TypesInv', OutputsInv, NEW i \in DOMAIN operators, Execute(i)
  PROVE  OutputsInv'
<1> DEFINE operator == operators[i]
<1>1. CASE ~Dereferenceable(operator)
  <2>1. UNCHANGED operators BY <1>1 DEF Execute
  <2>2. \A j \in DOMAIN operators : Bottom'[j] = Bottom[j] BY <2>1, BottomStays
  <2>3. QED BY <2>1, <2>2 DEF OutputsInv
<1>2. CASE Dereferenceable(operator)
  <2>1. operators' = [operators EXCEPT ![i] =
                        [operator EXCEPT !.output = OnExecute(operator), !.executed = TRUE]]
    BY <1>2 DEF Execute
  <2>2. operators \in Seq(OperatorRecords) /\ operator \in OperatorRecords
    BY DEF TypesInv
  <2>3. /\ DOMAIN operators' = DOMAIN operators
        /\ \A j \in DOMAIN operators : j # i => operators'[j] = operators[j]
        /\ operators'[i] = [operator EXCEPT !.output = OnExecute(operator), !.executed = TRUE]
    BY <2>1
  <2>4. /\ operators'[i].kind = operator.kind /\ operators'[i].table = operator.table
        /\ operators'[i].input = operator.input
        /\ operators'[i].output = OnExecute(operator) /\ operators'[i].executed = TRUE
    BY <2>2, <2>3 DEF OperatorRecords
  <2>5. \A j \in DOMAIN operators : Bottom'[j] = Bottom[j] BY <2>3, <2>4, BottomStays
  <2>6. OnExecute(operator) = Bottom[i]
    <3>1. Bottom[i] = BottomStep(operators, Bottom, i) BY BottomUnfolds DEF IsBottom
    <3>2. CASE operator.kind = "wrapper"
      BY <3>1, <3>2 DEF BottomStep, OnExecute
    <3>3. CASE operator.kind = "print"
      <4>1. operator.input # 0 /\ operators[operator.input].output # Nullptr
        BY <1>2, <3>3 DEF Dereferenceable, InputTable
      <4>2. operator.input \in DOMAIN operators
        <5>1. operator.input \in Nat /\ operator.input < i BY BottomUnfolds DEF Ordered
        <5>2. QED BY <2>2, <4>1, <5>1
      <4>3. operators[operator.input].output = Bottom[operator.input]
        BY <4>1, <4>2 DEF OutputsInv, OutputOK
      <4>4. QED BY <3>1, <3>3, <4>1, <4>3 DEF BottomStep, OnExecute, InputTable
    <3>4. QED BY <2>2, <3>2, <3>3 DEF OperatorRecords
  <2>7. OutputOK(operators'[i], Bottom'[i]) BY <2>4, <2>5, <2>6 DEF OutputOK
  <2>8. ASSUME NEW j \in DOMAIN operators, j # i PROVE OutputOK(operators'[j], Bottom'[j])
    <3>1. operators'[j] = operators[j] /\ Bottom'[j] = Bottom[j] BY <2>3, <2>5, <2>8
    <3>2. QED BY <3>1 DEF OutputsInv
  <2>9. QED BY <2>3, <2>7, <2>8 DEF OutputsInv
<1>3. QED BY <1>1, <1>2

\* What an operator hands on is nothing before it is executed and the table at the
\* bottom afterwards (abstract_operator.hpp:61), whatever programs do in between and
\* however carelessly.
THEOREM OutputsArePassed == Spec => []OutputIsTheBottomTable
<1>1. Init => OutputsInv
  <2>1. Init => DOMAIN operators = {} BY DEF Init
  <2>2. QED BY <2>1 DEF OutputsInv
<1>2. Inv /\ Inv' /\ OutputsInv /\ [Next]_vars => OutputsInv'
  <2> SUFFICES ASSUME Inv, Inv', OutputsInv, [Next]_vars PROVE OutputsInv' OBVIOUS
  <2>1. TypesInv /\ TypesInv' BY DEF Inv
  <2>2. CASE UNCHANGED operators
    <3>1. \A j \in DOMAIN operators : Bottom'[j] = Bottom[j] BY <2>1, <2>2, BottomStays
    <3>2. QED BY <2>2, <3>1 DEF OutputsInv
  <2>3. ASSUME NEW name \in TableNames, ConstructWrapper(name) PROVE OutputsInv'
    <3>1. CASE HasTable(name)
      <4>1. operators' = Append(operators, TableWrapper(name, tables[name]))
        BY <2>3, <3>1 DEF ConstructWrapper
      <4>2. QED BY <2>1, <4>1, ConstructedOutputs DEF TableWrapper
    <3>2. CASE ~HasTable(name) BY <2>2, <2>3, <3>2 DEF ConstructWrapper
    <3>3. QED BY <3>1, <3>2
  <2>4. ASSUME NEW input \in 0 .. Len(operators), ConstructPrint(input) PROVE OutputsInv'
    <3>1. operators' = Append(operators, PrintOn(input)) BY <2>4 DEF ConstructPrint
    <3>2. QED BY <2>1, <3>1, ConstructedOutputs DEF PrintOn
  <2>5. ASSUME NEW i \in DOMAIN operators, Execute(i) PROVE OutputsInv'
    BY <2>1, <2>5, ExecutedOutputs
  <2>6. CASE Manage BY <2>2, <2>6 DEF Manage
  <2>7. ASSUME NEW table \in Pointers, PrintNow(table) PROVE OutputsInv'
    BY <2>2, <2>7 DEF PrintNow
  <2>8. CASE UNCHANGED vars BY <2>2, <2>8 DEF vars
  <2>9. QED BY <2>3, <2>4, <2>5, <2>6, <2>7, <2>8 DEF Next
<1>3. OutputsInv => OutputIsTheBottomTable
  BY DEF OutputsInv, OutputOK, OutputIsTheBottomTable
<1>4. QED BY <1>1, <1>2, <1>3, AlwaysInv, PTL DEF Spec

----------------------------------------------------------------------------
(* The attribute vector.                                                    *)

\* A vector holds the ids set, cast to the type its constructor found wide enough.
VectorInv ==
  /\ max \in Maxima
  /\ \E size \in 0 .. MaxSize : Vector!Fits(size, max) /\ DOMAIN data = 0 .. size - 1
  /\ DOMAIN last_set = DOMAIN data
  /\ \A i \in DOMAIN data :
       last_set[i] \in Vector!ValueIDs /\ data[i] = Vector!CastTo(last_set[i], max)

\* Casts keep what fits, and make INVALID_VALUE_ID the largest value of the type.
LEMMA Casts ==
  ASSUME NEW m \in Maxima
  PROVE  /\ \A id \in 0 .. m : Vector!CastTo(id, m) = id
         /\ Vector!CastTo(ValueIDMax, m) = m
<1>1. m \in Nat /\ ValueIDMax \in Nat /\ (ValueIDMax + 1) % (m + 1) = 0
  BY MaximaAssumption
<1>2. \A id \in 0 .. m : id % (m + 1) = id BY <1>1
<1>3. ValueIDMax % (m + 1) = m BY <1>1, Z3
<1>4. QED BY <1>2, <1>3 DEF Vector!CastTo

\* Every id handed to set is there, cast, when it is within the vector.
LEMMA VectorAlways == Vector!Spec => []VectorInv
<1>1. Vector!Init => VectorInv
  <2> SUFFICES ASSUME NEW size \in 0 .. MaxSize, max \in Maxima, Vector!Fits(size, max),
                      data = [i \in 0 .. size - 1 |-> 0], last_set = data
               PROVE  VectorInv
    BY DEF Vector!Init
  <2>1. 0 \in Vector!ValueIDs BY MaximaAssumption DEF Vector!ValueIDs
  <2>2. Vector!CastTo(0, max) = 0
    <3>1. max \in Nat BY MaximaAssumption
    <3>2. QED BY <3>1, Casts
  <2>3. DOMAIN data = 0 .. size - 1 /\ \A i \in DOMAIN data : data[i] = 0 OBVIOUS
  <2>4. QED BY <2>1, <2>2, <2>3 DEF VectorInv
<1>2. VectorInv /\ [Vector!Next]_(Vector!vars) => VectorInv'
  <2> SUFFICES ASSUME VectorInv, [Vector!Next]_(Vector!vars) PROVE VectorInv' OBVIOUS
  <2>1. CASE UNCHANGED Vector!vars BY <2>1 DEF VectorInv, Vector!vars
  <2>2. ASSUME NEW i \in 0 .. MaxSize + 1, NEW value_id \in Vector!ValueIDs,
               Vector!Set(i, value_id)
        PROVE  VectorInv'
    <3>1. CASE i \notin DOMAIN data BY <2>2, <3>1 DEF VectorInv, Vector!Set
    <3>2. CASE i \in DOMAIN data
      <4>1. /\ data' = [data EXCEPT ![i] = Vector!CastTo(value_id, max)]
            /\ last_set' = [last_set EXCEPT ![i] = value_id]
            /\ max' = max
        BY <2>2, <3>2 DEF Vector!Set
      <4>2. DOMAIN data' = DOMAIN data /\ DOMAIN last_set' = DOMAIN last_set BY <4>1
      <4>3. ASSUME NEW j \in DOMAIN data
            PROVE  /\ last_set'[j] \in Vector!ValueIDs
                   /\ data'[j] = Vector!CastTo(last_set'[j], max)
        <5>1. CASE j = i BY <2>2, <3>2, <4>1, <5>1 DEF VectorInv
        <5>2. CASE j # i BY <4>1, <5>2 DEF VectorInv
        <5>3. QED BY <5>1, <5>2
      <4>4. QED BY <4>1, <4>2, <4>3 DEF VectorInv
    <3>3. QED BY <3>1, <3>2
  <2>3. ASSUME NEW i \in 0 .. MaxSize + 1, NEW value_id \in Vector!ValueIDs,
               Vector!SetRefused(i, value_id)
        PROVE  VectorInv'
    BY <2>1, <2>3 DEF Vector!SetRefused
  <2>4. QED BY <2>1, <2>2, <2>3 DEF Vector!Next
<1>3. QED BY <1>1, <1>2, PTL DEF Vector!Spec

\* For vectors of any type and size: the size limit of the constructor makes ids
\* below the size fit under the largest value of the type
\* (dictionary_column.hpp:17-18).
THEOREM IdsComeBack == Vector!Spec => []SmallIdsComeBack
<1>1. VectorInv => SmallIdsComeBack
  <2> SUFFICES ASSUME VectorInv, NEW i \in DOMAIN data, last_set[i] < Vector!Size
               PROVE  data[i] = last_set[i] /\ data[i] # Vector!CastTo(ValueIDMax, max)
    BY DEF SmallIdsComeBack, Vector!SmallIdsComeBack
  <2>1. PICK size \in 0 .. MaxSize : Vector!Fits(size, max) /\ DOMAIN data = 0 .. size - 1
    BY DEF VectorInv
  <2>2. Vector!Size \in 0 .. MaxSize /\ DOMAIN data = 0 .. Vector!Size - 1
    BY <2>1 DEF Vector!Size
  <2>3. Vector!Size = size
    <3> DEFINE other == Vector!Size
    <3>1. other \in 0 .. MaxSize /\ 0 .. other - 1 = 0 .. size - 1 BY <2>1, <2>2
    <3> HIDE DEF other
    <3>2. other \in Nat /\ size \in Nat BY <3>1
    <3>3. ~(other < size)
      <4>1. other < size => other \in 0 .. size - 1 BY <3>2
      <4>2. other \notin 0 .. other - 1 BY <3>2
      <4>3. QED BY <3>1, <4>1, <4>2
    <3>4. ~(size < other)
      <4>1. size < other => size \in 0 .. other - 1 BY <3>2
      <4>2. size \notin 0 .. size - 1 BY <3>2
      <4>3. QED BY <3>1, <4>1, <4>2
    <3>5. other = size BY <3>2, <3>3, <3>4
    <3>6. QED BY <3>5 DEF other
  <2>4. /\ last_set[i] \in Vector!ValueIDs /\ max \in Maxima
        /\ data[i] = Vector!CastTo(last_set[i], max)
    BY DEF VectorInv
  <2>5. last_set[i] \in 0 .. max /\ last_set[i] # max
    <3>1. max \in Nat /\ ValueIDMax \in Nat BY <2>4, MaximaAssumption
    <3>2. size \in Nat /\ size <= max BY <2>1 DEF Vector!Fits
    <3>3. last_set[i] \in Nat /\ last_set[i] < size BY <2>3, <2>4, <3>1 DEF Vector!ValueIDs
    <3>4. QED BY <3>1, <3>2, <3>3
  <2>6. QED BY <2>4, <2>5, Casts
<1>2. QED BY <1>1, VectorAlways, PTL

----------------------------------------------------------------------------
(* The performance warnings: a disabler holds until its own end.            *)

\* Every disabler but the outermost remembers that warnings were disabled, so that
\* its end leaves them disabled.
WarningsInv ==
  /\ disablers \in Seq(BOOLEAN)
  /\ disabled \in BOOLEAN
  /\ disablers # <<>> => disabled
  /\ \A i \in 2 .. Len(disablers) : disablers[i]

\* A disabler within another one finds warnings disabled.
LEMMA EnterKeepsInv == WarningsInv /\ Warnings!EnterDisabler => WarningsInv'
<1> SUFFICES ASSUME WarningsInv, Warnings!EnterDisabler PROVE WarningsInv' OBVIOUS
<1> USE DEF WarningsInv, Warnings!EnterDisabler
<1>1. disablers' \in Seq(BOOLEAN) /\ Len(disablers') = Len(disablers) + 1
  BY AppendProperties
<1>2. ASSUME NEW i \in 2 .. Len(disablers') PROVE disablers'[i]
  <2>1. CASE i = Len(disablers) + 1
    <3>1. disablers # <<>> BY <2>1
    <3>2. disablers'[i] = disabled BY <2>1, AppendProperties
    <3>3. QED BY <3>1, <3>2
  <2>2. CASE i # Len(disablers) + 1
    <3>1. i \in 2 .. Len(disablers) BY <1>1, <2>2
    <3>2. disablers'[i] = disablers[i] BY <3>1, AppendProperties
    <3>3. QED BY <3>1, <3>2
  <2>3. QED BY <2>1, <2>2
<1>3. QED BY <1>1, <1>2

\* A sequence without its last element.
LEMMA WithoutLast ==
  ASSUME NEW S, NEW seq \in Seq(S), seq # <<>>
  PROVE  LET rest == SubSeq(seq, 1, Len(seq) - 1) IN
         /\ rest \in Seq(S) /\ Len(rest) = Len(seq) - 1
         /\ \A i \in 1 .. Len(seq) - 1 : rest[i] = seq[i]
<1>1. Len(seq) \in Nat /\ Len(seq) >= 1 /\ DOMAIN seq = 1 .. Len(seq) OBVIOUS
<1>2. QED BY <1>1

\* The end of an inner disabler keeps warnings disabled; that of the outermost
\* leaves no disabler.
LEMMA LeaveKeepsInv == WarningsInv /\ Warnings!LeaveDisabler => WarningsInv'
<1> SUFFICES ASSUME WarningsInv, Warnings!LeaveDisabler PROVE WarningsInv' OBVIOUS
<1> USE DEF WarningsInv, Warnings!LeaveDisabler
<1> DEFINE n == Len(disablers)
<1>1. n \in Nat \ {0} /\ disablers[n] \in BOOLEAN
  BY EmptySeq, ElementOfSeq, LenProperties
<1>2. /\ disablers' \in Seq(BOOLEAN) /\ Len(disablers') = n - 1
      /\ \A i \in 1 .. n - 1 : disablers'[i] = disablers[i]
  BY WithoutLast
<1>3. \A i \in 2 .. Len(disablers') : disablers'[i]
  <2> SUFFICES ASSUME NEW i \in 2 .. Len(disablers') PROVE disablers'[i] OBVIOUS
  <2>1. i \in 2 .. n /\ i \in 1 .. n - 1 BY <1>1, <1>2
  <2>2. QED BY <1>2, <2>1
<1>4. disabled' \in BOOLEAN BY <1>1
<1>5. ASSUME disablers' # <<>> PROVE disabled'
  <2>1. n \in 2 .. n BY <1>1, <1>2, <1>5
  <2>2. QED BY <2>1
<1>6. QED BY <1>2, <1>3, <1>4, <1>5

\* While a disabler lives no warning is printed, however many others have come and
\* gone inside it (performance_warning.hpp:13-18).
THEOREM DisablersHold == Warnings!Spec => NothingPrintedWhileDisabled
<1>1. Warnings!Init => WarningsInv
  <2> SUFFICES ASSUME Warnings!Init PROVE WarningsInv OBVIOUS
  <2>1. disablers = <<>> /\ disablers \in Seq(BOOLEAN) /\ Len(disablers) = 0
    BY EmptySeq DEF Warnings!Init
  <2>2. \A i \in 2 .. Len(disablers) : disablers[i] BY <2>1
  <2>3. disabled = FALSE BY DEF Warnings!Init
  <2>4. QED BY <2>1, <2>2, <2>3 DEF WarningsInv
<1>2. WarningsInv /\ [Warnings!Next]_(Warnings!vars) => WarningsInv'
  <2> SUFFICES ASSUME WarningsInv, [Warnings!Next]_(Warnings!vars) PROVE WarningsInv' OBVIOUS
  <2>1. CASE Warnings!EnterDisabler BY <2>1, EnterKeepsInv
  <2>2. CASE Warnings!LeaveDisabler BY <2>2, LeaveKeepsInv
  <2>3. ASSUME NEW site \in Sites, Warnings!Pass(site) PROVE WarningsInv'
    BY <2>3 DEF WarningsInv, Warnings!Pass
  <2>4. CASE UNCHANGED Warnings!vars BY <2>4 DEF WarningsInv, Warnings!vars
  <2>5. QED BY <2>1, <2>2, <2>3, <2>4 DEF Warnings!Next
<1>3. WarningsInv /\ [Warnings!Next]_(Warnings!vars) =>
        [disablers # <<>> => UNCHANGED printed]_(Warnings!vars)
  <2> SUFFICES ASSUME WarningsInv, Warnings!Next, disablers # <<>> PROVE UNCHANGED printed OBVIOUS
  <2>1. CASE Warnings!EnterDisabler BY <2>1 DEF Warnings!EnterDisabler
  <2>2. CASE Warnings!LeaveDisabler BY <2>2 DEF Warnings!LeaveDisabler
  <2>3. ASSUME NEW site \in Sites, Warnings!Pass(site) PROVE UNCHANGED printed
    BY <2>3 DEF WarningsInv, Warnings!Pass
  <2>4. QED BY <2>1, <2>2, <2>3 DEF Warnings!Next
<1>4. QED BY <1>1, <1>2, <1>3, PTL
  DEF Warnings!Spec, NothingPrintedWhileDisabled, Warnings!NothingPrintedWhileDisabled

----------------------------------------------------------------------------
(* The instance of all three.                                               *)

\* A behaviour of the instance is one of each part, so the theorems are about it.
THEOREM PartsKeepTheirSpecs == MCSpec => Spec /\ Vector!Spec /\ Warnings!Spec
<1>1. MCInit => Init /\ Vector!Init /\ Warnings!Init BY DEF MCInit
<1>2. [MCNext]_<<part, vars, vector_vars, warning_vars>> =>
        [Next]_vars /\ [Vector!Next]_(Vector!vars) /\ [Warnings!Next]_(Warnings!vars)
  BY DEF MCNext, vector_vars, warning_vars, Vector!vars, Warnings!vars
<1>3. QED BY <1>1, <1>2, PTL DEF MCSpec, Spec, Vector!Spec, Warnings!Spec

=============================================================================
