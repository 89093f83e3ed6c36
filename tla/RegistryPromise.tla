--------------------------- MODULE RegistryPromise ---------------------------
(* What the users of a registry file (access-store.ts) rely on: an operation  *)
(* is one atomic update of the whole registry, and an operation that was      *)
(* reported successful stays in it.  The registry is abstracted to the set of *)
(* operations it reflects.  `broken` is the end of the promise: a lock was    *)
(* taken away from a working holder, or the platform refused to rename over   *)
(* the file and the registry was removed before it was replaced.              *)
CONSTANT Calls

VARIABLES registry,   \* operations the file reflects
          acked,      \* operations that changed it and were reported successful
          broken

pvars == <<registry, acked, broken>>

PInit == registry = {} /\ acked = {} /\ broken = FALSE

(* The registry changes by one whole operation, which no other overlaps. *)
Update(c) == /\ ~broken
             /\ registry' = registry \cup {c}
             /\ UNCHANGED <<acked, broken>>

(* Only an operation in the registry is reported. *)
Ack(c) == /\ ~broken
          /\ c \in registry
          /\ acked' = acked \cup {c}
          /\ UNCHANGED <<registry, broken>>

(* From here on nothing is promised. *)
Break == /\ broken' = TRUE
         /\ registry' \in SUBSET Calls
         /\ acked' \in SUBSET Calls

PNext == Break \/ \E c \in Calls : Update(c) \/ Ack(c)

Promise == PInit /\ [][PNext]_pvars
==============================================================================
