---------------------------- MODULE ThreadPBFTInv -----------------------------
(***************************************************************************)
(* Why the nodes of ThreadPBFT execute in one order: the inductive         *)
(* invariant ThreadPBFTProofs proves.  It holds for any number of          *)
(* proposers, as long as no two posts of the client have the same content: *)
(* a batch then tells its proposer and its number.                         *)
(***************************************************************************)
EXTENDS ThreadPBFT, Functions

SendsDistinct == \A c, e \in Sends : c.req = e.req => c = e

Reqs    == {c.req : c \in Sends}
Batch   == Seq(Reqs) \ {<< >>}
Message == [type : {"preprepare", "prepare", "commit"}, to : Up, from : Up, seq : Nat,
            digest : Batch]

TypeOK ==
  /\ toSend \subseteq Sends
  /\ requestQueue \in [Up -> Seq(Reqs)]
  /\ sequence \in [Up -> Nat \cup {-1}] /\ lastSequence \in [Up -> Nat \cup {-1}]
  /\ prePrepareBuffer \in [Up -> SUBSET Batch]
  /\ prePrepareSet \in [Up -> SUBSET Nat]
  /\ prepareSet \in [Up -> SUBSET (Batch \X Up)] /\ commitSet \in [Up -> SUBSET (Batch \X Up)]
  /\ prepareState \in [Up -> SUBSET Batch] /\ commitState \in [Up -> SUBSET Batch]
  /\ executeQueue \in [Up -> Seq([seq : Nat, digest : Batch])]
  /\ notified \in [Up -> BOOLEAN] /\ stuck \in [Up -> BOOLEAN]
  /\ checked \in [Up -> Message \cup {NoMsg}]
  /\ executed \in [Up -> Seq(Batch)] /\ proposed \in [Up -> Seq(Batch)]
  /\ net \subseteq Message

-----------------------------------------------------------------------------
Proposed(p, s, d) == s + 1 \in DOMAIN proposed[p] /\ proposed[p][s + 1] = d

Votes(x, d) == <<d, x>> \in prepareSet[x]

(* x has voted for d, or will. *)
Backs(x, d) == Votes(x, d) \/ (checked[x] # NoMsg /\ checked[x].digest = d)

Received(p) == {c.req : c \in {e \in Sends \ toSend : e.to = p}}

(* A request is in one batch of one node, which keeps the batch's number.   *)
BatchesApart ==
  \A p \in Up :
    /\ sequence[p] = Len(proposed[p]) - 1
    /\ Range(requestQueue[p]) \subseteq Received(p)
    /\ \A i \in DOMAIN proposed[p] :
         /\ i - 1 \in prePrepareSet[p]
         /\ Range(proposed[p][i]) \subseteq Received(p) \ Range(requestQueue[p])
         /\ \A k \in DOMAIN proposed[p] \ {i} :
              Range(proposed[p][i]) \cap Range(proposed[p][k]) = {}

(* What a message says its sender has done, the sender has done. *)
MessagesTrue ==
  \A m \in net :
    /\ m.from # m.to
    /\ m.type = "preprepare" => Proposed(m.from, m.seq, m.digest)
    /\ m.type = "prepare" => Votes(m.from, m.digest)
    /\ m.type = "commit" => m.digest \in prepareState[m.from]
    /\ \E p \in Up : Proposed(p, m.seq, m.digest)

CheckedTrue ==
  \A n \in Up : LET m == checked[n]
                IN  m # NoMsg => m.from # n /\ Proposed(m.from, m.seq, m.digest)

(* A vote that a node holds was cast, for another node's proposal.  *)
VotesTrue ==
  \A n \in Up : \A v \in prepareSet[n] :
    /\ Votes(v[2], v[1])
    /\ \E p \in Up \ {v[2]}, s \in prePrepareSet[v[2]] : Proposed(p, s, v[1])

(* Two proposals for a number share no voter, and of their proposers at     *)
(* most one is for the other's.                                             *)
VotesApart ==
  \A p, q \in Up : \A i \in DOMAIN proposed[p] \cap DOMAIN proposed[q] : p # q =>
    LET d == proposed[p][i]
        e == proposed[q][i]
    IN  /\ \A x \in Up : ~(Backs(x, d) /\ Backs(x, e))
        /\ ~(Backs(p, e) /\ Backs(q, d))

PreparesCounted ==
  \A n \in Up : \A d \in prepareState[n] :
    Count(prepareSet[n], d) >= 2 * FaultNum /\ \E v \in prepareSet[n] : v[1] = d

CommitsCounted ==
  \A n \in Up :
    /\ \A v \in commitSet[n] : v[1] \in prepareState[v[2]]
    /\ \A d \in commitState[n] :
         d \in prepareState[n] /\ Count(commitSet[n], d) >= 2 * FaultNum + 1

(* The queue ascends, and goes on where execution stopped. *)
QueueInOrder ==
  \A n \in Up : LET q == executeQueue[n] IN
    /\ \A i \in DOMAIN q : /\ q[i].seq > lastSequence[n]
                           /\ q[i].seq \in prePrepareSet[n]
                           /\ q[i].digest \in commitState[n]
                           /\ \E p \in Up : Proposed(p, q[i].seq, q[i].digest)
    /\ \A i, j \in DOMAIN q : i < j => q[i].seq < q[j].seq

ExecutedInOrder ==
  \A n \in Up :
    /\ Len(executed[n]) = lastSequence[n] + 1
    /\ \A i \in DOMAIN executed[n] : /\ executed[n][i] \in commitState[n]
                                     /\ \E p \in Up : Proposed(p, i - 1, executed[n][i])

(* A number that is not executed has a batch in the buffer. *)
BatchesAtHand ==
  \A n \in Up : \A s \in prePrepareSet[n] :
    s <= lastSequence[n] \/ \E p \in Up : \E d \in prePrepareBuffer[n] : Proposed(p, s, d)

ThreadInv ==
  /\ TypeOK /\ BatchesApart
  /\ MessagesTrue /\ CheckedTrue /\ VotesTrue /\ VotesApart /\ PreparesCounted /\ CommitsCounted
  /\ QueueInOrder /\ ExecutedInOrder /\ NothingDueLeft /\ BatchesAtHand

-----------------------------------------------------------------------------
(* No two nodes have prepared different batches for a number. *)
PreparedAgree ==
  \A n, o \in Up : \A d \in prepareState[n], e \in prepareState[o] : \A p, q \in Up :
    \A i \in DOMAIN proposed[p] \cap DOMAIN proposed[q] :
      proposed[p][i] = d /\ proposed[q][i] = e => d = e

(* Batches are executed in one order, each after its quorums and as soon as *)
(* it is due, and the proposing lock is given back.                         *)
ThreadExecutesInOrder ==
  /\ PreparedAgree /\ ExecutedAgree /\ ExecutedBackedByPrepares
  /\ NothingDueLeft /\ LockReleased /\ ThreadInv
=============================================================================
