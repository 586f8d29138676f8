----------------------------- MODULE MCBasicPBFT -----------------------------
(* BasicPBFT on the four nodes of the demo, in two scenarios. *)
EXTENDS BasicPBFT, TLC

CONSTANTS N0, N1, N2, N3, r1, r2

VARIABLE scenario    \* which of the bounds below holds; chosen once

(* Two pipelined requests, no further node closes. *)
Pipelined == down' = Closed

(* One request while a second node closes. *)
Closing == r2 \in todo'

MCInit == Init /\ scenario \in {"pipelined", "closing"}

MCNext == /\ Next
          /\ \/ scenario = "pipelined" /\ Pipelined
             \/ scenario = "closing" /\ Closing
          /\ UNCHANGED scenario

MCSpec == MCInit /\ [][MCNext]_<<vars, scenario>>

(* Without a scenario: the bounds are those of the cfg alone. *)
PlainSpec == /\ Init /\ scenario = "none"
             /\ [][Next /\ UNCHANGED scenario]_<<vars, scenario>>
             /\ Fairness

(* The backups are interchangeable. *)
Backups == Permutations({N1, N2})
=============================================================================
