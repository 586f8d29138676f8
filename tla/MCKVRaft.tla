------------------------------- MODULE MCKVRaft -------------------------------
(* KVRaft with two clerks on one key: one writes twice, the other reads.    *)
EXTENDS KVRaft, TLC

CONSTANTS c1, c2, k

App(v) == [option |-> "Append", key |-> k, value |-> v]
GetOp  == [option |-> "Get", key |-> k, value |-> ""]

WriteAndRead == (c1 :> <<App("x"), App("y")>>) @@ (c2 :> <<GetOp>>)

(* Calls fail, and healthy leaders are slow, only while the writer is at    *)
(* its first operation; no fair action is restricted by it.                 *)
EarlyFailures == fails' # fails => pc[c1] = 1

MCSpec == Init /\ [][Next /\ EarlyFailures]_vars /\ Fairness
=============================================================================
