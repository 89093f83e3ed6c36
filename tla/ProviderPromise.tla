--------------------------- MODULE ProviderPromise ---------------------------
(* What the responses proxy promises its clients, without relay, tunnel or *)
(* host: a request is answered once, by one head, by the parts the         *)
(* provider has produced in their order, and by an end.  The end may come  *)
(* early, but an end reported by the host comes after the whole answer.    *)
EXTENDS Naturals

CONSTANT Requests

VARIABLES
  response,  \* what the relay has written for each request
  upstream   \* what the provider has produced for it

vars == <<response, upstream>>

Phases == {"none", "reading", "open", "streaming", "ended"}
Hows   == {"unended", "whole", "cut"}

Init ==
  /\ response = [r \in Requests |->
                   [phase |-> "none", parts |-> 0, how |-> "unended"]]
  /\ upstream = [r \in Requests |-> [parts |-> 0, complete |-> FALSE]]

Advance(r, from, to) ==
  /\ response[r].phase \in from
  /\ response' = [response EXCEPT ![r].phase = to]
  /\ UNCHANGED upstream

Produce(r) ==
  /\ ~upstream[r].complete
  /\ upstream' = [upstream EXCEPT ![r].parts = @ + 1]
  /\ UNCHANGED response

Complete(r) ==
  /\ ~upstream[r].complete
  /\ upstream' = [upstream EXCEPT ![r].complete = TRUE]
  /\ UNCHANGED response

Write(r) ==
  /\ response[r].phase = "streaming"
  /\ response[r].parts < upstream[r].parts
  /\ response' = [response EXCEPT ![r].parts = @ + 1]
  /\ UNCHANGED upstream

EndWhole(r) ==
  /\ response[r].phase = "streaming"
  /\ upstream[r].complete /\ response[r].parts = upstream[r].parts
  /\ response' = [response EXCEPT ![r].phase = "ended", ![r].how = "whole"]
  /\ UNCHANGED upstream

(* Rejections, errors, timeouts and lost tunnels; a lost tunnel ends every *)
(* answer at once.                                                         *)
Cut(S) ==
  /\ S # {}
  /\ \A r \in S : response[r].phase \in Phases \ {"ended"}
  /\ response' = [r \in Requests |->
                    IF r \in S
                    THEN [response[r] EXCEPT !.phase = "ended", !.how = "cut"]
                    ELSE response[r]]
  /\ UNCHANGED upstream

Next ==
  \/ \E r \in Requests :
       \/ Advance(r, {"none"}, "reading")
       \/ Advance(r, {"reading"}, "open")
       \/ Advance(r, {"open"}, "streaming")
       \/ Produce(r) \/ Complete(r)
       \/ Write(r) \/ EndWhole(r)
  \/ \E S \in SUBSET Requests : Cut(S)

Spec == Init /\ [][Next]_vars
=============================================================================
