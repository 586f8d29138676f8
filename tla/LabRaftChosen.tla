---------------------------- MODULE LabRaftChosen ----------------------------
(* What the peers of LabRaft do together: keep one replicated log.          *)
EXTENDS LabRaft

VARIABLE chosen   \* history: the longest sequence any service has received

(* What some service has received beyond all that went before. *)
NewlyChosen ==
  LET ahead == {s \in Server : Len(applied'[s]) > Len(chosen)}
  IN  IF ahead = {} THEN chosen ELSE applied'[CHOOSE s \in ahead : TRUE]

ChosenInit == Init /\ chosen = << >>
ChosenNext == Next /\ chosen' = NewlyChosen
ChosenSpec == ChosenInit /\ [][ChosenNext]_<<vars, chosen>>

(* The cluster is one replicated log: services receive its entries in       *)
(* order, add to it at its end only, and fall back to a state they had      *)
(* (updateLastApplied, InstallSnapshot, a restart with Make).               *)
Log == INSTANCE ReplicatedLog WITH chosen <- chosen, applied <- applied
ImplementsLog == Log!AbsSpec
=============================================================================
