------------------------------ MODULE MCLabRaft ------------------------------
(* LabRaft on three peers.  One run covers three scenarios; each bounds a   *)
(* different part of the behaviour, so that the others can be large.        *)
EXTENDS LabRaftChosen, LabRaftLog, TLC

CONSTANTS s1, s2, s3, cmd

VARIABLE scenario   \* which of the bounds below holds; chosen once

(* Any peer may stand in any term. *)
AnyTimeout == Server \X (1 .. MaxTerm)

(* s1 stands in term 1, s2 in term 2: every race of an old and a new leader. *)
TwoLeaders == {<<s1, 1>>, <<s2, 2>>}

(* s1 stands in term 1 and nobody ever again: replication by one leader. *)
OneLeader == {<<s1, 1>>}

OnlyStand(pairs) ==
  \A s \in Server : state'[s] = Candidate => <<s, currentTerm'[s]>> \in pairs

(* Overlapping elections with a crash, nothing in the logs: two candidates  *)
(* in term 1, three in term 2.                                              *)
Elections == /\ OnlyStand(AnyTimeout \ {<<s3, 1>>})
             /\ \A s \in Server : Len(log'[s]) = 1
             /\ aeReq' = {} /\ snaps' = 0

(* Two leaders in turn write their logs; no crash, no compaction.  The      *)
(* first one is elected by s3: its request to s2 is lost.                   *)
Replication == /\ OnlyStand(TwoLeaders) /\ crashes' = 0 /\ snaps' = 0
               /\ \A r \in rvRep' : r.argTerm = 1 => r.from = s3

(* One leader, compaction and a crash. *)
Snapshots == OnlyStand(OneLeader)

MCInit == ChosenInit /\ scenario \in {"elections", "replication", "snapshots"}

MCNext == /\ ChosenNext
          /\ \/ scenario = "elections" /\ Elections
             \/ scenario = "replication" /\ Replication
             \/ scenario = "snapshots" /\ Snapshots
          /\ UNCHANGED scenario

MCVars == <<vars, scenario, chosen>>
MCSpec == MCInit /\ [][MCNext]_MCVars
=============================================================================
