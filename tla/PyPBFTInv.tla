------------------------------ MODULE PyPBFTInv -------------------------------
(***************************************************************************)
(* Why PyPBFT agrees: the inductive invariants that PyPBFTProofs proves.   *)
(*                                                                         *)
(* AgreeInv, until a node follows view 2 (OneChange): each view has one    *)
(* leader, which proposes once for a slot.  Whoever voted for view 1 sends *)
(* no commit of view 0 any more, and its vote has a certificate for every  *)
(* slot for which it sent one, or a checkpoint past the slot.  So either   *)
(* the new leader learns what was committed, or f+1 nodes refuse the slot  *)
(* for good.  For view 2 none of this holds: a node may lead it by the     *)
(* votes for view 1 (LedByVotes).                                          *)
(*                                                                         *)
(* BubbleInv and HistoryInv, for any number of view changes: no open slot  *)
(* is passed, and what a reply and a client's success rest on.             *)
(***************************************************************************)
EXTENDS PyPBFT

NodesAssumption ==
  /\ N \in Nat /\ f \in Nat \ {0} /\ N = 3 * f + 1
  /\ Live \subseteq Node
  /\ Interval \in Nat \ {0} /\ Retry \in Nat
  /\ MaxSlot \in Nat /\ MaxView \in Nat /\ MaxRequest \in Nat /\ MaxAttempt \in Nat /\ MaxSync \in Nat

(* No node has been asked to change the view a second time. *)
OneChange == \A n \in Node : followView[n] <= 1

Views    == 0 .. MaxView
Proposal == (Nat \X Nat) \ {None}
Counts   == SUBSET (Views \X Proposal \X Node)
Announce == {"preprepare", "more", "slots"}
Phase    == Announce \cup {"prepare", "commit"}

StatusType ==
  [known : BOOLEAN, prepares : Counts, prepared : Proposal \cup {None}, commits : Counts,
   committed : Proposal \cup {None}, done : BOOLEAN]

(* Certificates that travel: proposals of some slots. *)
Certificates(c) == DOMAIN c \subseteq Slot /\ \A s \in DOMAIN c : c[s] \in Proposal

MessageOK(m) ==
  /\ m.to \in Live /\ m.from \in Node
  /\ m.type \in Phase => m.view \in Views /\ m.slot \in Slot /\ m.prop \in Proposal
  /\ m.type \in {"request", "reading"} => m = Msg(m.to, m.type, 0, 0, 0, m.prop) /\ m.prop \in Proposal
  /\ m.type = "reply" => m.view \in Views /\ m.prop \in Proposal
  /\ m.type = "ckpt_vote" => m.slot \in Nat
  /\ m.type = "sync" => m.slot.next \in Nat /\ Certificates(m.prop)
  /\ m.type = "vc_vote" => m.view \in Views \ {0} /\ m.slot.next \in Nat /\ Certificates(m.prop)

(* The votes for checkpoints. *)
BallotsOK ==
  /\ DOMAIN ckptVotes = Node
  /\ \A n \in Node : \A log \in DOMAIN ckptVotes[n] : ckptVotes[n][log].next \in Nat

(* The votes for views. *)
VotesOK ==
  /\ DOMAIN vcVotes = Node
  /\ \A n \in Node : /\ DOMAIN vcVotes[n] = Views
                     /\ \A v \in Views : /\ vcVotes[n][v].from \subseteq Node
                                         /\ Certificates(vcVotes[n][v].certs)

ClientOK ==
  /\ client \in [req : Nat, attempt : Nat, failures : Nat, dest : Node,
                 replies : SUBSET (Views \X Proposal \X Node), ok : BOOLEAN]
  /\ client.ok \/ client.req > 0

TypeOK ==
  /\ followView \in [Node -> Views] /\ view \in [Node -> Views] /\ isLeader \in [Node -> BOOLEAN]
  /\ nextPropose \in [Node -> Nat]
  /\ status \in [Node -> [Slot -> StatusType]]
  /\ DOMAIN ckpt = Node /\ \A n \in Node : ckpt[n].next \in Nat
  /\ BallotsOK /\ VotesOK /\ ClientOK
  /\ \A m \in net : MessageOK(m)

-----------------------------------------------------------------------------
(* The proposals of a view for a slot, in messages and in what was counted. *)
Proposed(v, s) ==
  {m.prop : m \in {k \in net : k.type \in Phase /\ k.view = v /\ k.slot = s}}
    \cup {c[2] : c \in {d \in UNION {status[n][s].prepares \cup status[n][s].commits : n \in Node} :
                          d[1] = v}}

(* The proposals for which node n sent a commit. *)
CommitsSent(n, v, s) ==
  {m.prop : m \in {k \in net : k.type = "commit" /\ k.from = n /\ k.view = v /\ k.slot = s}}
    \cup {c[2] : c \in {d \in UNION {status[o][s].commits : o \in Node} : d[1] = v /\ d[3] = n}}

(* Some node counted a prepare for it. *)
PrepareCounted(s, p) == \E n \in Node : \E c \in status[n][s].prepares : c[2] = p

(* Some node counted the commits of 2f+1 nodes for it. *)
CommitCounted(s, p) ==
  \E n \in Node : \E c \in status[n][s].commits :
    /\ c[2] = p
    /\ Cardinality({d \in status[n][s].commits : d[1] = c[1] /\ d[2] = c[2]}) >= 2 * f + 1

(* Nothing is said of later views. *)
FirstViews ==
  /\ \A m \in net : m.type \in Phase \cup {"vc_vote"} => m.view <= 1
  /\ \A n \in Node, s \in Slot : \A c \in status[n][s].prepares \cup status[n][s].commits : c[1] <= 1

(* Node 0 leads view 0, node 1 leads view 1, nobody else leads or proposes. *)
OneLeader ==
  /\ view[0] = 0 /\ (followView[0] = 0 => isLeader[0])
  /\ \A n \in Node : isLeader[n] => /\ n = 0 => followView[n] = 0
                                    /\ n # 0 => n = 1 /\ followView[n] = 1 /\ view[n] = 1
  /\ \A m \in net : /\ m.type = "reading" => m.to = 0 \/ (m.to = 1 /\ isLeader[1])
                    /\ m.type \in Announce => m.from = m.view

(* A view has one proposal for a slot, and its leader is past the slot. *)
OneProposal ==
  \A v \in {0, 1}, s \in Slot :
    /\ \A p, q \in Proposed(v, s) : p = q
    /\ Proposed(v, s) # {} => /\ v = 0 => s < nextPropose[0]
                              /\ v = 1 => isLeader[1] /\ s < nextPropose[1]

(* Certificates are backed by what was counted. *)
CertificatesBacked ==
  \A n \in Node, s \in Slot :
    LET st == status[n][s]
    IN  /\ st.prepared # None => /\ s < Upperbound(ckpt[n])
                                 /\ \E c \in st.prepares : c[2] = st.prepared
        /\ st.committed # None => CommitCounted(s, st.committed)
        /\ Majority(st.commits) => st.committed # None
        /\ CommitsSent(n, 0, s) # {} => st.prepared # None

SyncsBacked ==
  \A m \in net : m.type = "sync" => \A s \in DOMAIN m.prop : CommitCounted(s, m.prop[s])

(* The certificates of votes, and nodes that voted with them: a slot for    *)
(* which a voter sent a commit has a certificate, or the voter refuses it,  *)
(* and so does whoever heard of its checkpoint next.                        *)
CertsCounted(certs) == \A s \in DOMAIN certs : PrepareCounted(s, certs[s])
Covers(certs, n, next) ==
  /\ followView[n] = 1
  /\ \A s \in Slot :
       CommitsSent(n, 0, s) # {} => s \in DOMAIN certs \/ (ckpt[n].next > s /\ next > s)

VotesCover ==
  /\ \A m \in net :
       m.type = "vc_vote" /\ m.view = 1 => CertsCounted(m.prop) /\ Covers(m.prop, m.from, m.slot.next)
  /\ 1 \in Views =>
       /\ CertsCounted(vcVotes[1][1].certs)
       /\ \A n \in vcVotes[1][1].from : Covers(vcVotes[1][1].certs, n, ckpt[1].next)

(* For slot s view 1 proposes p or nothing, and that is settled. *)
Keeps(s, p) == s < nextPropose[1] /\ Proposed(1, s) \subseteq {p}

(* The voters for the leader of view 1: a commit of view 0 is kept, or its  *)
(* sender takes no part in view 1 for the slot and the leader's checkpoint  *)
(* is past it.                                                              *)
Handover ==
  isLeader[1] =>
    \E V \in SUBSET Node :
      /\ Cardinality(V) >= 2 * f + 1
      /\ \A n \in V :
           /\ followView[n] = 1
           /\ \A s \in Slot : \A p \in CommitsSent(n, 0, s) :
                \/ Keeps(s, p)
                \/ ckpt[n].next > s /\ ckpt[1].next > s /\ CommitsSent(n, 1, s) = {}

AgreeInv ==
  /\ TypeOK /\ FirstViews /\ OneLeader /\ OneProposal /\ CertificatesBacked /\ SyncsBacked
  /\ VotesCover /\ Handover

-----------------------------------------------------------------------------
(* No slot from the checkpoint to last_commit_slot is open, for any number  *)
(* of view changes, whatever is adopted while receive_sync awaits.          *)
NoOpenSlots ==
  /\ lastCommit \in [Node -> Int] /\ \A n \in Node : lastCommit[n] >= -1
  /\ \A n \in Node : \A s \in ckpt[n].next .. lastCommit[n] :
       s < MaxSlot /\ status[n][s].committed # None

BubbleInv == TypeOK /\ NoOpenSlots

-----------------------------------------------------------------------------
(* Before the first checkpoint a node's history is what it committed, and   *)
(* what it replied to stays in it.                                          *)
BeforeCheckpoint == MaxSlot < Interval

InHistory(n, p) == \E s \in 0 .. lastCommit[n] : status[n][s].committed = p

RepliesBacked ==
  /\ \A m \in net : m.type = "reply" => m.from \in Live /\ InHistory(m.from, m.prop)
  /\ \A c \in client.replies : c[3] \in Live /\ InHistory(c[3], c[2])

(* No checkpoint is on its way. *)
NoCheckpoints ==
  /\ \A n \in Node : ckpt[n] = NoCheckpoint
  /\ \A m \in net : /\ m.type # "ckpt_vote"
                    /\ m.type \in {"sync", "vc_vote"} => m.slot.next = 0

HistoryInv ==
  /\ BubbleInv /\ RepliesBacked /\ NoCheckpoints
  /\ client.ok /\ client.req > 0 => Succeeds(client.replies)

(* Until a node follows view 2, nodes agree on what is committed and the    *)
(* leader of view 1 proposes nothing else for its slots.                    *)
AgreesUntilSecondChange == OneChange => Agreement /\ NewViewKeepsCommitted /\ AgreeInv

(* Whatever views come, no open slot is passed and the client goes on only  *)
(* with what is committed.                                                  *)
PyAgreesAcrossViews ==
  AgreesUntilSecondChange /\ NoBubbles /\ SuccessIsCommitted /\ HistoryInv
===============================================================================
