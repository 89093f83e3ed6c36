---------------------------- MODULE MCAccessStore ----------------------------
(* Small instances of AccessStore for TLC.                                 *)
EXTENDS AccessStore, TLC

CONSTANTS r1, r2, a1

(* A weekly window full at 3 that resets at 1, and the next one at 1, in    *)
(* any order: a budget of 2 is reached in one reading or in several.        *)
TwoReadings ==
  {[used |-> 3, duration |-> 7, resetsAt |-> 1],
   [used |-> 1, duration |-> 7, resetsAt |-> 3]}

Swap == Permutations(Accounts) \cup Permutations(Reservations)

BudgetTwo == [r \in Reservations |-> 2]
=============================================================================
