---------------------- MODULE MCOperatorsAndUtilities ----------------------
(***************************************************************************)
(* Three parts of the library that share no state, one instance for all of *)
(* them: the operators over the tables of the StorageManager, the          *)
(* attribute vector and the performance warnings.  A behaviour is one of   *)
(* one part; the others stay in an initial state.                          *)
(***************************************************************************)
EXTENDS Operators, Integers

CONSTANTS
  Maxima, ValueIDMax, MaxSize,  \* of FittedAttributeVector
  Sites, MaxDepth               \* of PerformanceWarning

\* ValueID is as wide as the widest T, and every width is a power of two.
ASSUME MaximaAssumption ==
  /\ Maxima \subseteq Nat
  /\ ValueIDMax \in Nat
  /\ \A m \in Maxima : (ValueIDMax + 1) % (m + 1) = 0

VARIABLES
  part,  \* the part the behaviour is of
  max, data, last_set,
  disabled, disablers, constructed, printed

Vector == INSTANCE FittedAttributeVector
Warnings == INSTANCE PerformanceWarning

vector_vars == <<max, data, last_set>>
warning_vars == <<disabled, disablers, constructed, printed>>

MCInit ==
  /\ part \in {"operators", "vector", "warnings"}
  /\ Init /\ Warnings!Init /\ Vector!Init
  /\ part # "vector" => data = [i \in {} |-> 0] /\ \A m \in Maxima : max <= m

MCNext ==
  /\ UNCHANGED part
  /\ \/ part = "operators" /\ Next /\ UNCHANGED <<vector_vars, warning_vars>>
     \/ part = "vector" /\ Vector!Next /\ UNCHANGED <<vars, warning_vars>>
     \/ part = "warnings" /\ Warnings!Next /\ UNCHANGED <<vars, vector_vars>>

MCSpec == MCInit /\ [][MCNext]_<<part, vars, vector_vars, warning_vars>>

----------------------------------------------------------------------------
(* The properties of the instances, each stated where the part is modelled. *)

\* Ids below the number of rows come back from FittedAttributeVector::get and do
\* not look like INVALID_VALUE_ID.
SmallIdsComeBack == Vector!SmallIdsComeBack

\* No PerformanceWarning is printed while a disabler is alive.
NothingPrintedWhileDisabled == Warnings!NothingPrintedWhileDisabled

=============================================================================
