---------------------------- MODULE MCRegistryFile ----------------------------
(* Instance of RegistryFile for TLC: the host calls two operations and the   *)
(* command line tool one or two.                                             *)
EXTENDS RegistryFile

CONSTANTS c1, c2, c3, host, cli

TwoAndOne == [c \in {c1, c2, c3} |-> IF c = c3 THEN cli ELSE host]
===============================================================================
