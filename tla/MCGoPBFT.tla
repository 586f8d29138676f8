------------------------------ MODULE MCGoPBFT -------------------------------
(* GoPBFT on the table of four replicas, three of which run. *)
EXTENDS GoPBFT, TLC

CONSTANTS r0, r1, r2, r3

(* The backups that run are interchangeable. *)
Backups == Permutations(Live \ {Primary})
=============================================================================
