--------------------------- MODULE MCAccountControl ---------------------------
(* Instance of AccountControl for TLC: the primary account and another, and  *)
(* commands in pairs.                                                        *)
EXTENDS AccountControl, TLC

CONSTANTS primary, a1, t1, t2

TwoAccounts == {primary, a1}
Second == {a1}
TwoTasks == {t1, t2}
TaskSymmetry == Permutations(Tasks)
================================================================================
