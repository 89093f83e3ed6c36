---------------------------- MODULE MCSessionStart ----------------------------
(* A small instance of SessionStart for TLC.                               *)
EXTENDS SessionStart

CONSTANTS h1, h2, r1

StartsAt == [r \in Reservations |-> 0]
EndsAt   == [r \in Reservations |-> 3]
=============================================================================
