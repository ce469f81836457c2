------------------------ MODULE PerformanceWarning -------------------------
(***************************************************************************)
(* The performance warnings of a Debug build (utils/performance_warning):  *)
(* each place in the code that warns has a static object constructed when  *)
(* control first passes it, which prints unless warnings are disabled; a   *)
(* PerformanceWarningDisabler disables them for its own lifetime.          *)
(* Disablers are local variables, so they die in reverse order, by leaving *)
(* their block or by an exception that unwinds it.                         *)
(***************************************************************************)
EXTENDS Naturals, Sequences

CONSTANTS
  Sites,    \* places that warn; ValueColumn<T>::operator[] is one for each T
  MaxDepth  \* bound: disablers alive at a time

VARIABLES
  disabled,      \* PerformanceWarningClass::disabled()
  disablers,     \* _previously_disabled of the disablers alive, innermost last
  constructed,   \* sites whose static object exists
  printed        \* site :> how often its warning was printed

vars == <<disabled, disablers, constructed, printed>>

Init ==
  /\ disabled = FALSE
  /\ disablers = <<>>
  /\ constructed = {}
  /\ printed = [site \in Sites |-> 0]

\* PerformanceWarningDisabler()
EnterDisabler ==
  /\ Len(disablers) < MaxDepth
  /\ disablers' = Append(disablers, disabled)
  /\ disabled' = TRUE
  /\ UNCHANGED <<constructed, printed>>

\* Fault: the destructor enables warnings whatever the state before was.
LeaveDisablerAndEnable ==
  /\ disablers # <<>>
  /\ disablers' = SubSeq(disablers, 1, Len(disablers) - 1)
  /\ disabled' = FALSE
  /\ UNCHANGED <<constructed, printed>>

\* ~PerformanceWarningDisabler()
LeaveDisabler ==
  /\ disablers # <<>>
  /\ disablers' = SubSeq(disablers, 1, Len(disablers) - 1)
  /\ disabled' = (disabled /\ disablers[Len(disablers)])
  /\ UNCHANGED <<constructed, printed>>

\* The PerformanceWarning(text) macro.
Pass(site) ==
  /\ constructed' = constructed \cup {site}
  /\ printed' = IF site \in constructed \/ disabled THEN printed
                ELSE [printed EXCEPT ![site] = @ + 1]
  /\ UNCHANGED <<disabled, disablers>>

Next ==
  \/ EnterDisabler
  \/ LeaveDisabler
  \/ \E site \in Sites : Pass(site)

Spec == Init /\ [][Next]_vars

----------------------------------------------------------------------------
(* Properties                                                               *)

\* Nothing is printed while a disabler is alive, also after an inner one has
\* died (performance_warning.hpp:13-18).
NothingPrintedWhileDisabled ==
  [][disablers # <<>> => UNCHANGED printed]_vars

=============================================================================
