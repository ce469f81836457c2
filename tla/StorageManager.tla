--------------------------- MODULE StorageManager --------------------------
(***************************************************************************)
(* The StorageManager: table names and the shared tables behind them.  A   *)
(* table is an identity here; what is in it is the subject of Table.       *)
(***************************************************************************)
EXTENDS Naturals, Functions

CONSTANTS
  TableNames,
  Tables,   \* table objects
  Nullptr   \* a shared_ptr to no table

ASSUME NullptrAssumption == Nullptr \notin Tables

VARIABLES
  tables,  \* _tables
  outcome  \* how the last call ended

Pointers == Tables \cup {Nullptr}

HasTable(name) == name \in DOMAIN tables

AddTable(name, table) ==
  IF HasTable(name)
  THEN outcome' = "threw" /\ UNCHANGED tables
  ELSE /\ tables' = [n \in DOMAIN tables \cup {name} |-> IF n = name THEN table ELSE tables[n]]
       /\ outcome' = "ok"

DropTable(name) ==
  /\ outcome' = IF HasTable(name) THEN "ok" ELSE "threw"
  /\ tables' = Restrict(tables, DOMAIN tables \ {name})

\* StorageManager::reset
ResetTables ==
  /\ tables' = [n \in {} |-> Nullptr]
  /\ outcome' = "ok"

\* print asks every table for its counts; a null pointer among them is
\* dereferenced.
PrintTables ==
  /\ outcome' = IF Nullptr \in Range(tables) THEN "crashed" ELSE "ok"
  /\ UNCHANGED tables

=============================================================================
