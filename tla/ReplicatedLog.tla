---------------------------- MODULE ReplicatedLog ----------------------------
(***************************************************************************)
(* What a Raft cluster promises to the services on top of it: one log that *)
(* only grows, of which every replica applies the entries one by one from  *)
(* the first.  A replica that is restarted starts over, from nothing or    *)
(* from a state it had before.                                             *)
(***************************************************************************)
EXTENDS Naturals, Sequences

VARIABLES
  chosen,  \* the log
  applied  \* applied[s]: what replica s has applied, in order

absVars == <<chosen, applied>>

IsPrefix(a, b) == Len(a) <= Len(b) /\ SubSeq(b, 1, Len(a)) = a

AbsInit == chosen = << >> /\ \A s \in DOMAIN applied : applied[s] = << >>

(* A replica goes on in the log, at its end by adding to it. *)
Apply(s) ==
  /\ IsPrefix(applied[s], applied'[s])
  /\ \/ chosen' = chosen /\ IsPrefix(applied'[s], chosen)
     \/ chosen' = applied'[s] /\ IsPrefix(chosen, chosen')

(* A replica falls back to something it had applied. *)
Recover(s) == IsPrefix(applied'[s], applied[s]) /\ chosen' = chosen

AbsNext ==
  \E s \in DOMAIN applied :
    /\ \A q \in DOMAIN applied \ {s} : applied'[q] = applied[q]
    /\ Apply(s) \/ Recover(s)

AbsSpec == AbsInit /\ [][AbsNext]_absVars
=============================================================================
