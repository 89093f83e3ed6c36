----------------------------- MODULE MCAccessSync -----------------------------
(* Small instances of AccessSync for TLC.                                  *)
EXTENDS AccessSync, TLC

CONSTANTS d1, d2, c1, c2

SyncSymmetry == Permutations(Calls) \cup Permutations(Devices)
=============================================================================
