---------------------------- MODULE OperationMutex ----------------------------
(***************************************************************************)
(* What the publisher promises about exclusive operations: at any time at  *)
(* most one operation (a release job or a publisher update) is under way.  *)
(* An operation that dies keeps the installation closed: nothing else may  *)
(* begin until an operator has reviewed it.                                *)
(***************************************************************************)
CONSTANTS Op,   \* the operations that may ever ask for exclusive access
          None  \* nobody, not an operation

VARIABLES holder,    \* the operation that has exclusive access, or None
          abandoned  \* TRUE iff that operation died without giving it back

vars == <<holder, abandoned>>

Init == holder = None /\ abandoned = FALSE

Begin(o) ==
  /\ holder = None
  /\ holder' = o
  /\ UNCHANGED abandoned

End(o) ==
  /\ holder = o
  /\ ~abandoned
  /\ holder' = None
  /\ UNCHANGED abandoned

Abandon(o) ==
  /\ holder = o
  /\ ~abandoned
  /\ abandoned' = TRUE
  /\ UNCHANGED holder

\* Only a reviewed, abandoned operation is cleared from outside.
Review ==
  /\ abandoned
  /\ holder' = None
  /\ abandoned' = FALSE

Next ==
  \/ \E o \in Op : Begin(o) \/ End(o) \/ Abandon(o)
  \/ Review

Spec == Init /\ [][Next]_vars
===============================================================================
