----------------------- MODULE FittedAttributeVector -----------------------
(***************************************************************************)
(* FittedAttributeVector<T>: a vector of ids held in a narrower type T.    *)
(* Indices are counted from 0, as in the code.                             *)
(***************************************************************************)
EXTENDS Integers

CONSTANTS
  Maxima,     \* numeric_limits<T>::max() of the types T it is used with
  ValueIDMax, \* numeric_limits<ValueID>::max(), which is INVALID_VALUE_ID;
              \* a power of two less one, as all of Maxima are, and the largest
  MaxSize     \* bound: the sizes and indices tried

VARIABLES
  max,       \* numeric_limits<T>::max()
  data,      \* _data, a function on 0 .. size - 1
  last_set   \* history: the ids handed to set, by index; initially 0

vars == <<max, data, last_set>>

ValueIDs == 0 .. ValueIDMax

\* Fault: the limit is the number of values of T, not the largest of them.
FitsByCount(size, type_max) == size <= type_max + 1

\* The constructor's assertion.
Fits(size, type_max) == size <= type_max

Init ==
  \E size \in 0 .. MaxSize :
    /\ max \in Maxima
    /\ Fits(size, max)
    /\ data = [i \in 0 .. size - 1 |-> 0]
    /\ last_set = data

Size == CHOOSE size \in 0 .. MaxSize : DOMAIN data = 0 .. size - 1

\* static_cast<T>(value_id)
CastTo(value_id, type_max) == value_id % (type_max + 1)

\* The assertion lets i = size() pass; the write then hits memory behind the
\* vector, which no get can see.
Set(i, value_id) ==
  /\ i <= Size
  /\ IF i \in DOMAIN data
     THEN /\ data' = [data EXCEPT ![i] = CastTo(value_id, max)]
          /\ last_set' = [last_set EXCEPT ![i] = value_id]
     ELSE UNCHANGED <<data, last_set>>
  /\ UNCHANGED max

\* The assertion throws.
SetRefused(i, value_id) == i > Size /\ UNCHANGED vars

Next ==
  \E i \in 0 .. MaxSize + 1, value_id \in ValueIDs :
    Set(i, value_id) \/ SetRefused(i, value_id)

Spec == Init /\ [][Next]_vars

----------------------------------------------------------------------------
(* Properties                                                               *)

\* Ids that are smaller than the number of rows, all a DictionaryColumn ever
\* sets, come back from get as they were set, and none looks like
\* INVALID_VALUE_ID after its down-cast (dictionary_column.hpp:17-18): the size
\* limit of the constructor makes them fit below the largest value of T.
SmallIdsComeBack ==
  \A i \in DOMAIN data :
    last_set[i] < Size => data[i] = last_set[i] /\ data[i] # CastTo(ValueIDMax, max)

=============================================================================
