---------------------------- MODULE MCAccountWorker ----------------------------
(* Instance of AccountWorker for TLC: two requests at a time. *)
EXTENDS AccountWorker

CONSTANTS c1, c2

TwoCallers == {c1, c2}
================================================================================
