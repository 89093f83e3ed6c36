-------------------------- MODULE MCProviderRequest --------------------------
(* Small instances of ProviderRequest for TLC.                             *)
EXTENDS ProviderRequest, TLC

CONSTANTS q1, q2, d1

(* All requests use one token, as one client's calls do.                   *)
OneToken == [r \in Requests |-> d1]
=============================================================================
