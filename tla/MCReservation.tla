---------------------------- MODULE MCReservation ----------------------------
(* Small instances of Reservation for TLC.                                 *)
EXTENDS Reservation, TLC

CONSTANTS r1, r2, a1, t1, t2, c1, c2

BookingSymmetry == Permutations(Reservations) \cup Permutations(Txs)
                   \cup Permutations(Calls)
=============================================================================
