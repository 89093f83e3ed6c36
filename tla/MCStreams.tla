------------------------------- MODULE MCStreams -------------------------------
(* A small instance of Streams for TLC.                                    *)
EXTENDS Streams

CONSTANT s1
=============================================================================
