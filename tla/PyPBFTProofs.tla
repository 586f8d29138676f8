----------------------------- MODULE PyPBFTProofs -----------------------------
(***************************************************************************)
(* PyPBFT for every number of nodes of the form 3f+1, any nodes down, any  *)
(* messages lost, any checkpoint interval, any number of views.            *)
(*                                                                         *)
(* Until a node is asked to change the view a second time (OneChange), no  *)
(* two nodes hold commit certificates of different proposals, and the      *)
(* leader of the new view proposes, above its checkpoint, nothing but what *)
(* was committed.  Afterwards LedByVotes fails, and nothing of the kind is *)
(* claimed.  For ever, no slot from the checkpoint to last_commit_slot is  *)
(* open; and if no checkpoint can be reached (BeforeCheckpoint) a client   *)
(* that stops asking was answered by f+1 nodes that hold its request as    *)
(* committed.                                                              *)
(***************************************************************************)
EXTENDS PyPBFTInv, TLAPS, FiniteSetTheorems, WellFoundedInduction, SequenceTheorems

USE DEF NodesAssumption

-----------------------------------------------------------------------------
(* Numbers. *)

(* A set of natural numbers that is not empty has a least one. *)
LEMMA LeastNat ==
  ASSUME NEW T, T \subseteq Nat, T # {}
  PROVE  \E x \in T : \A y \in T : x <= y
<1>1. PICK x \in T : \A y \in T : <<y, x>> \notin OpToRel(<, Nat)
  BY WFMin, NatLessThanWellFounded, Zenon
<1>2. \A y \in T : ~(y < x)
  BY <1>1 DEF OpToRel
<1> QED
  BY <1>2

(* The last slot with a certificate, -1 if there is none. *)
LEMMA LastSlotIsLast ==
  ASSUME NodesAssumption, NEW certs, DOMAIN certs \subseteq Slot
  PROVE  /\ LastSlot(certs) \in Int /\ LastSlot(certs) + 1 \in Nat
         /\ LastSlot(certs) < MaxSlot
         /\ \A s \in DOMAIN certs : s <= LastSlot(certs)
<1> DEFINE U == {k \in Nat : \A s \in DOMAIN certs : s < k}
<1>1. MaxSlot \in U
  BY DEF Slot
<1>2. PICK k \in U : \A j \in U : k <= j
  BY <1>1, LeastNat
<1>3. k <= MaxSlot
  BY <1>1, <1>2
<1>4. k - 1 \in DOMAIN certs \cup {-1}
  <2>1. CASE k = 0
    BY <2>1
  <2>2. ASSUME k # 0, k - 1 \notin DOMAIN certs PROVE FALSE
    <3>1. k - 1 \in Nat /\ k \in Nat
      BY <2>2
    <3>2. ASSUME NEW s \in DOMAIN certs PROVE s < k - 1
      <4>1. s \in Int /\ s < k /\ s # k - 1
        BY <2>2, <3>1 DEF Slot
      <4> QED
        BY <3>1, <4>1
    <3>3. k - 1 \in U
      BY <3>1, <3>2
    <3> QED
      BY <1>2, <3>1, <3>3
  <2> QED
    BY <2>1, <2>2
<1>5. \A s \in DOMAIN certs : s <= k - 1
  BY DEF Slot
<1>6. PICK l : l = LastSlot(certs)
  OBVIOUS
<1>7. l \in DOMAIN certs \cup {-1} /\ \A u \in DOMAIN certs : u <= l
  BY <1>4, <1>5, <1>6 DEF LastSlot
<1>8. l \in Int /\ l + 1 \in Nat /\ l < MaxSlot
  BY <1>7 DEF Slot
<1> QED
  BY <1>6, <1>7, <1>8

(* Two sets of 2f+1 out of 3f+1 nodes have f+1 in common, and that many meet *)
(* every further set of 2f+1.                                               *)
LEMMA ThreeQuorums ==
  ASSUME NodesAssumption, NEW Q \in SUBSET Node, NEW V \in SUBSET Node, NEW R \in SUBSET Node,
         Cardinality(Q) >= 2 * f + 1, Cardinality(V) >= 2 * f + 1, Cardinality(R) >= 2 * f + 1
  PROVE  Q \cap V \cap R # {}
<1>1. IsFiniteSet(Node) /\ Cardinality(Node) = N
  <2>1. 0 <= N - 1 /\ N - 1 \in Int
    OBVIOUS
  <2>2. IsFiniteSet(0 .. N - 1)
    BY <2>1, FS_Interval
  <2>3. PICK c : c = Cardinality(0 .. N - 1)
    OBVIOUS
  <2>4. c = (N - 1) - 0 + 1
    BY <2>1, <2>3, FS_Interval
  <2>5. c = N
    BY <2>4
  <2> QED
    BY <2>2, <2>3, <2>5 DEF Node
<1>2. PICK P : P = Q \cap V
  OBVIOUS
<1>3. /\ IsFiniteSet(Q) /\ IsFiniteSet(V) /\ IsFiniteSet(R) /\ IsFiniteSet(P)
      /\ IsFiniteSet(Q \cup V) /\ IsFiniteSet(P \cup R)
      /\ Q \cup V \subseteq Node /\ P \cup R \subseteq Node
  BY <1>1, <1>2, FS_Subset
<1>4. PICK q, v, r, p, qv, pr, e :
        /\ q = Cardinality(Q) /\ v = Cardinality(V) /\ r = Cardinality(R) /\ p = Cardinality(P)
        /\ qv = Cardinality(Q \cup V) /\ pr = Cardinality(P \cup R) /\ e = Cardinality(P \cap R)
  OBVIOUS
<1>5. IsFiniteSet(P \cap R)
  BY <1>3, FS_Subset
<1>6. q \in Nat /\ v \in Nat /\ r \in Nat /\ p \in Nat /\ qv \in Nat /\ pr \in Nat /\ e \in Nat
  BY <1>3, <1>4, <1>5, FS_CardinalityType
<1>7. qv <= N /\ pr <= N
  BY <1>1, <1>3, <1>4, FS_Subset
<1>8. qv = q + v - p
  BY <1>2, <1>3, <1>4, FS_Union
<1>9. pr = p + r - e
  BY <1>3, <1>4, FS_Union
<1>10. q >= 2 * f + 1 /\ v >= 2 * f + 1 /\ r >= 2 * f + 1
  BY <1>4
<1>11. e > 0
  BY <1>6, <1>7, <1>8, <1>9, <1>10
<1> QED
  BY <1>2, <1>4, <1>11, FS_EmptySet

(* The messages counted for a proposal of a view, and their senders. *)
Group(C, v, p)   == {d \in C : d[1] = v /\ d[2] = p}
Senders(C, v, p) == {a \in Node : <<v, p, a>> \in C}

(* They are as many as their senders. *)
LEMMA GroupIsSenders ==
  ASSUME NodesAssumption, NEW C \in Counts, NEW v, NEW p
  PROVE  /\ Cardinality(Group(C, v, p)) = Cardinality(Senders(C, v, p))
         /\ Cardinality(Group(C, v, p)) \in Nat
         /\ IsFiniteSet(Senders(C, v, p)) /\ Senders(C, v, p) \in SUBSET Node
<1> DEFINE S == Senders(C, v, p)
           G == Group(C, v, p)
           g == [a \in S |-> <<v, p, a>>]
<1>1. IsFiniteSet(S) /\ S \in SUBSET Node
  <2>1. S \in SUBSET Node
    BY DEF Senders
  <2>2. N - 1 \in Int /\ 0 \in Int
    OBVIOUS
  <2>3. IsFiniteSet(Node)
    BY <2>2, FS_Interval DEF Node
  <2> QED
    BY <2>1, <2>3, FS_Subset
<1>2. g \in Bijection(S, G)
  <2>1. \A a \in S : <<v, p, a>> \in G
    BY DEF Senders, Group
  <2>2. ASSUME NEW d \in G PROVE d = <<v, p, d[3]>> /\ d[3] \in S
    <3>1. d \in C /\ d[1] = v /\ d[2] = p
      BY DEF Group
    <3>2. d \in Views \X Proposal \X Node
      BY <3>1 DEF Counts
    <3>3. d = <<d[1], d[2], d[3]>> /\ d[3] \in Node
      BY <3>2
    <3> QED
      BY <3>1, <3>3 DEF Senders
  <2>3. g \in [S -> G]
    BY <2>1
  <2>4. \A x, y \in S : g[x] = g[y] => x = y
    OBVIOUS
  <2>5. \A d \in G : \E x \in S : g[x] = d
    BY <2>2
  <2> HIDE DEF S, G, g
  <2>6. g \in Injection(S, G)
    BY <2>3, <2>4 DEF Injection, IsInjective
  <2>7. g \in Surjection(S, G)
    BY <2>3, <2>5 DEF Surjection
  <2> QED
    BY <2>6, <2>7 DEF Bijection
<1> HIDE DEF S, G, g
<1>3. Cardinality(G) = Cardinality(S)
  <2>1. ExistsBijection(S, G)
    BY <1>2 DEF ExistsBijection
  <2> QED
    BY <1>1, <2>1, FS_Bijection
<1>4. Cardinality(S) \in Nat
  BY <1>1, FS_CardinalityType
<1> QED
  BY <1>1, <1>3, <1>4 DEF S, G

(* More that is counted never loses the quorum. *)
LEMMA GroupGrows ==
  ASSUME NodesAssumption, NEW C \in Counts, NEW D \in Counts, C \subseteq D, NEW v, NEW p,
         Cardinality(Group(C, v, p)) >= 2 * f + 1
  PROVE  Cardinality(Group(D, v, p)) >= 2 * f + 1
<1>1. Senders(C, v, p) \in SUBSET Senders(D, v, p)
  BY DEF Senders
<1>2. Cardinality(Senders(C, v, p)) <= Cardinality(Senders(D, v, p))
  BY <1>1, GroupIsSenders, FS_Subset
<1>3. PICK c, d, a, b : /\ c = Cardinality(Group(C, v, p)) /\ d = Cardinality(Group(D, v, p))
                        /\ a = Cardinality(Senders(C, v, p)) /\ b = Cardinality(Senders(D, v, p))
  OBVIOUS
<1>4. c = a /\ d = b /\ c \in Nat /\ d \in Nat
  BY <1>3, GroupIsSenders
<1> QED
  BY <1>2, <1>3, <1>4

(* A quorum is one of some proposal of a view. *)
LEMMA MajorityIsGroup ==
  ASSUME NEW C
  PROVE  Majority(C) <=> \E c \in C : Cardinality(Group(C, c[1], c[2])) >= 2 * f + 1
BY DEF Majority, Group

(* The same for the commits behind a committed proposal. *)
LEMMA CommitCountedIsGroup ==
  ASSUME NEW s, NEW p
  PROVE  /\ CommitCounted(s, p) <=>
              \E n \in Node : \E c \in status[n][s].commits :
                c[2] = p /\ Cardinality(Group(status[n][s].commits, c[1], p)) >= 2 * f + 1
         /\ CommitCounted(s, p)' <=>
              \E n \in Node : \E c \in status'[n][s].commits :
                c[2] = p /\ Cardinality(Group(status'[n][s].commits, c[1], p)) >= 2 * f + 1
BY ZenonT(30) DEF CommitCounted, Group

-----------------------------------------------------------------------------
(* What is seen of a proposal. *)

LEMMA ProposedIs ==
  ASSUME NEW v, NEW s, NEW p
  PROVE  /\ p \in Proposed(v, s) <=>
              \/ \E m \in net : m.type \in Phase /\ m.view = v /\ m.slot = s /\ m.prop = p
              \/ \E n \in Node : \E c \in status[n][s].prepares \cup status[n][s].commits :
                   c[1] = v /\ c[2] = p
         /\ p \in Proposed(v, s)' <=>
              \/ \E m \in net' : m.type \in Phase /\ m.view = v /\ m.slot = s /\ m.prop = p
              \/ \E n \in Node : \E c \in status'[n][s].prepares \cup status'[n][s].commits :
                   c[1] = v /\ c[2] = p
BY DEF Proposed

LEMMA CommitsSentIs ==
  ASSUME NEW n, NEW v, NEW s, NEW p
  PROVE  /\ p \in CommitsSent(n, v, s) <=>
              \/ \E m \in net : m.type = "commit" /\ m.from = n /\ m.view = v /\ m.slot = s /\ m.prop = p
              \/ \E o \in Node : \E c \in status[o][s].commits : c[1] = v /\ c[2] = p /\ c[3] = n
         /\ p \in CommitsSent(n, v, s)' <=>
              \/ \E m \in net' : m.type = "commit" /\ m.from = n /\ m.view = v /\ m.slot = s /\ m.prop = p
              \/ \E o \in Node : \E c \in status'[o][s].commits : c[1] = v /\ c[2] = p /\ c[3] = n
BY DEF CommitsSent

(* What a commit was sent for was proposed. *)
LEMMA SentIsProposed ==
  ASSUME NEW n, NEW v, NEW s
  PROVE  CommitsSent(n, v, s) \subseteq Proposed(v, s)
BY DEF CommitsSent, Proposed, Phase, Announce

(* The messages of a broadcast. *)
LEMMA PostIs ==
  ASSUME NodesAssumption, NEW type, NEW from, NEW v, NEW s, NEW p, NEW m \in Post(type, from, v, s, p)
  PROVE  /\ m.to \in Live /\ m.to \in Node /\ m.type = type /\ m.from = from
         /\ m.view = v /\ m.slot = s /\ m.prop = p
BY DEF Post, Posted, Msg

(* No messages are new but well-formed ones of some types. *)
Sends(T)  == \A k \in net' : k \in net \/ (k.type \in T /\ MessageOK(k))
Harmless  == {"request", "view_change", "ckpt_vote", "reply", "loop"}

(* A checkpoint vote of a node. *)
LEMMA VoteIs ==
  ASSUME NodesAssumption, NEW n \in Node, NEW st, NEW k, k.next \in Nat, NEW i, NEW j \in Vote(n, st, k, i)
  PROVE  j.type = "ckpt_vote" /\ MessageOK(j)
<1>1. PICK q : q = k.log \o Decisions(st, k, i)
  OBVIOUS
<1>2. PICK x : x = k.next + Interval
  OBVIOUS
<1>3. j \in Post("ckpt_vote", n, 0, x, q)
  BY <1>1, <1>2 DEF Vote
<1>4. j.to \in Live /\ j.type = "ckpt_vote" /\ j.from = n /\ j.slot = x
  BY <1>3, PostIs
<1>5. x \in Nat
  BY <1>2
<1> QED
  BY <1>4, <1>5 DEF MessageOK, Phase, Announce

-----------------------------------------------------------------------------
(* What the handlers do to the status of slots. *)

(* A slot's status only grows: certificates may be replaced, a commit       *)
(* certificate may not.                                                     *)
Grows(old, new) ==
  /\ new \in StatusType
  /\ old.prepares \subseteq new.prepares /\ old.commits \subseteq new.commits
  /\ old.prepared # None => new.prepared # None
  /\ old.committed # None => new.committed = old.committed

Touches(n, s, st) ==
  /\ status' \in [Node -> [Slot -> StatusType]]
  /\ status'[n][s] = st
  /\ \A o \in Node, t \in Slot : o # n \/ t # s => status'[o][t] = status[o][t]

(* The status of one slot is replaced. *)
LEMMA TouchesOne ==
  ASSUME status \in [Node -> [Slot -> StatusType]], NEW n \in Node, NEW s \in Slot,
         NEW st \in StatusType, status' = [status EXCEPT ![n][s] = st]
  PROVE  Touches(n, s, st)
BY DEF Touches

Heard(st) == [st EXCEPT !.known = TRUE]

(* A slot is heard of. *)
LEMMA HeardGrows ==
  ASSUME NEW st \in StatusType
  PROVE  /\ Heard(st) \in StatusType
         /\ Heard(st).prepares = st.prepares /\ Heard(st).commits = st.commits
         /\ Heard(st).prepared = st.prepared /\ Heard(st).committed = st.committed
BY DEF Heard, StatusType

(* A prepare is counted for slot s; it may become the certificate, and then *)
(* is answered with a commit.                                               *)
CountsPrepare(m, n, s, v, p, st) ==
  /\ m.type = "prepare" /\ n = m.to /\ m.slot = s /\ m.view = v /\ m.prop = p
  /\ v >= followView[n] /\ _legal_slot(n, s)
  /\ Touches(n, s, st)
  /\ st.prepares = status[n][s].prepares \cup {<<v, p, m.from>>}
  /\ st.commits = status[n][s].commits /\ st.committed = status[n][s].committed
  /\ \/ st.prepared = status[n][s].prepared /\ net' = net \ {m}
     \/ st.prepared = p /\ net' = (net \ {m}) \cup Post("commit", n, v, s, p)

LEMMA commitDoes ==
  ASSUME NodesAssumption, TypeOK, NEW m \in net, commit(m.to, m)
  PROVE  \/ net' = net \ {m} /\ status' = status
         \/ \E n \in Node, s \in Slot, v \in Views, p \in Proposal, st \in StatusType :
              CountsPrepare(m, n, s, v, p, st)
<1>1. m.type = "prepare" /\ MessageOK(m)
  BY DEF commit, TypeOK
<1>2. PICK n \in Node, s \in Slot, v \in Views, p \in Proposal, a \in Node :
        n = m.to /\ m.slot = s /\ m.view = v /\ m.prop = p /\ a = m.from
  BY <1>1 DEF MessageOK, Phase, Announce
<1>3. CASE ~(Current(m.to, m) /\ _legal_slot(m.to, m.slot))
  BY <1>3 DEF commit
<1>4. CASE Current(m.to, m) /\ _legal_slot(m.to, m.slot)
  <2> DEFINE old == status[n][s]
             new == [old EXCEPT !.known = TRUE, !.prepares = @ \cup {<<v, p, a>>}]
             got == old.prepared # None \/ Majority(new.prepares)
             st  == IF got THEN [new EXCEPT !.prepared = p] ELSE new
  <2>1. /\ status' = [status EXCEPT ![n][s] = st]
        /\ net' = (net \ {m}) \cup (IF got THEN Post("commit", n, v, s, p) ELSE {})
    BY <1>2, <1>4 DEF commit
  <2>2. old \in StatusType /\ new \in StatusType /\ st \in StatusType
    <3>1. old \in StatusType
      BY DEF TypeOK
    <3>2. old.prepares \cup {<<v, p, a>>} \in Counts
      BY <3>1 DEF StatusType, Counts
    <3>3. new \in StatusType
      BY <3>1, <3>2 DEF StatusType
    <3> QED
      BY <3>1, <3>3 DEF StatusType
  <2>3. /\ st.prepares = old.prepares \cup {<<v, p, a>>}
        /\ st.commits = old.commits /\ st.committed = old.committed
        /\ got => st.prepared = p
        /\ ~got => st.prepared = old.prepared
    BY <2>2 DEF StatusType
  <2>4. v >= followView[n] /\ _legal_slot(n, s)
    BY <1>2, <1>4 DEF Current
  <2>5. Touches(n, s, st)
    BY <2>1, <2>2, TouchesOne DEF TypeOK
  <2>6. got \/ ~got
    OBVIOUS
  <2> HIDE DEF old, new, got, st
  <2>7. \/ st.prepared = old.prepared /\ net' = net \ {m}
        \/ st.prepared = p /\ net' = (net \ {m}) \cup Post("commit", n, v, s, p)
    BY <2>1, <2>3, <2>6
  <2> QED
    BY <1>1, <1>2, <2>2, <2>3, <2>4, <2>5, <2>7 DEF old, CountsPrepare
<1> QED
  BY <1>3, <1>4

(* A commit is counted for slot s; its proposal may become the commit       *)
(* certificate, once there is a quorum.                                     *)
CountsCommit(m, n, s, v, p, st) ==
  /\ m.type = "commit" /\ n = m.to /\ m.slot = s /\ m.view = v /\ m.prop = p
  /\ Touches(n, s, st)
  /\ st.commits = status[n][s].commits \cup {<<v, p, m.from>>}
  /\ st.prepares = status[n][s].prepares /\ st.prepared = status[n][s].prepared
  /\ \/ /\ st.committed = status[n][s].committed
        /\ Majority(st.commits) => st.committed # None
     \/ st.committed = p /\ status[n][s].committed = None /\ Majority(st.commits)

(* What a counted commit leaves alone, and one that is not counted. *)
LEMMA replyKeeps ==
  ASSUME NEW n, NEW m, reply(n, m)
  PROVE  /\ m.type = "commit" /\ m.to = n
         /\ followView' = followView /\ view' = view /\ isLeader' = isLeader
         /\ nextPropose' = nextPropose /\ ckpt' = ckpt /\ ckptVotes' = ckptVotes
         /\ vcVotes' = vcVotes /\ syncs' = syncs /\ client' = client
         /\ \/ Current(n, m) /\ _legal_slot(n, m.slot)
            \/ net' = net \ {m} /\ status' = status /\ lastCommit' = lastCommit
BY Zenon DEF reply

LEMMA replyDoes ==
  ASSUME NodesAssumption, TypeOK, NEW m \in net, reply(m.to, m)
  PROVE  /\ Sends(Harmless)
         /\ \/ status' = status
            \/ \E n \in Node, s \in Slot, v \in Views, p \in Proposal, st \in StatusType :
                 CountsCommit(m, n, s, v, p, st)
<1>1. m.type = "commit" /\ MessageOK(m)
  BY replyKeeps DEF TypeOK
<1>2. PICK n \in Node, s \in Slot, v \in Views, p \in Proposal, a \in Node :
        n = m.to /\ m.slot = s /\ m.view = v /\ m.prop = p /\ a = m.from
  BY SMTT(30), <1>1 DEF MessageOK, Phase, Announce
<1>3. CASE ~(Current(m.to, m) /\ _legal_slot(m.to, m.slot))
  BY <1>3, replyKeeps DEF Sends
<1>4. CASE Current(m.to, m) /\ _legal_slot(m.to, m.slot)
  <2> DEFINE old  == status[n][s]
             new  == [old EXCEPT !.known = TRUE, !.commits = @ \cup {<<v, p, a>>}]
             cert == old.committed = None /\ Majority(new.commits)
             goes == cert /\ lastCommit[n] = s - 1 /\ ~old.done
             st   == IF cert THEN [new EXCEPT !.committed = p, !.done = @ \/ goes] ELSE new
             all  == [status[n] EXCEPT ![s] = st]
  <2>1. /\ status' = [status EXCEPT ![n] = all]
        /\ net' = (net \ {m}) \cup
             (IF goes THEN Posted({Msg(n, "reply", n, v, s, p)}) ELSE {}) \cup
             (IF goes /\ FillsCheckpoint(s) THEN Vote(n, all, ckpt[n], s) ELSE {})
    BY Zenon, <1>2, <1>4 DEF reply
  <2>2. old \in StatusType /\ new \in StatusType /\ st \in StatusType
    <3>1. old \in StatusType
      BY DEF TypeOK
    <3>2. old.commits \cup {<<v, p, a>>} \in Counts
      BY <3>1 DEF StatusType, Counts
    <3>3. new \in StatusType
      BY <3>1, <3>2 DEF StatusType
    <3>4. goes \in BOOLEAN
      OBVIOUS
    <3>5. (new.done \/ goes) \in BOOLEAN
      BY <3>3, <3>4 DEF StatusType
    <3> QED
      BY ZenonT(30), <3>1, <3>3, <3>5 DEF StatusType
  <2>3. /\ st.commits = old.commits \cup {<<v, p, a>>}
        /\ st.prepares = old.prepares /\ st.prepared = old.prepared
        /\ cert => st.committed = p
        /\ ~cert => st.committed = old.committed
        /\ new.commits = st.commits
    BY <2>2 DEF StatusType
  <2>4. status' = [status EXCEPT ![n][s] = st]
    BY <2>1
  <2>5. Touches(n, s, st)
    BY <2>2, <2>4, TouchesOne DEF TypeOK
  <2>6. \A k \in Posted({Msg(n, "reply", n, v, s, p)}) : k.type = "reply" /\ MessageOK(k)
    BY DEF Posted, Msg, MessageOK, Phase, Announce
  <2>7. \A k \in Vote(n, all, ckpt[n], s) : k.type = "ckpt_vote" /\ MessageOK(k)
    <3>1. ckpt[n].next \in Nat
      BY DEF TypeOK
    <3> HIDE DEF all
    <3> QED
      BY <3>1, VoteIs
  <2>8. cert \/ ~cert
    OBVIOUS
  <2>9. cert => old.committed = None /\ Majority(st.commits)
    BY <2>3
  <2>10. ~cert => (Majority(st.commits) => old.committed # None)
    BY <2>3
  <2> HIDE DEF old, new, cert, goes, st, all
  <2>11. Sends(Harmless)
    BY <2>1, <2>6, <2>7 DEF Sends, Harmless
  <2>12. \/ /\ st.committed = old.committed
            /\ Majority(st.commits) => st.committed # None
         \/ /\ st.committed = p /\ old.committed = None /\ Majority(st.commits)
    BY <2>3, <2>8, <2>9, <2>10
  <2>13. CountsCommit(m, n, s, v, p, st)
    BY <1>1, <1>2, <2>3, <2>5, <2>12 DEF old, CountsCommit
  <2> QED
    BY SMTT(30), <2>2, <2>11, <2>13
<1> QED
  BY <1>3, <1>4

(* What a synchronisation brings: commit certificates where there were none. *)
TakesCertificates(m) ==
  /\ status' \in [Node -> [Slot -> StatusType]]
  /\ \A o \in Node, t \in Slot :
       LET old == status[o][t]
           new == status'[o][t]
       IN  /\ new.prepares = old.prepares /\ new.commits = old.commits /\ new.prepared = old.prepared
           /\ \/ new.committed = old.committed
              \/ old.committed = None /\ t \in DOMAIN m.prop /\ new.committed = m.prop[t]

(* A checkpoint is never replaced by one that reaches less far. *)
CheckpointsGrow ==
  /\ DOMAIN ckpt' = Node
  /\ \A n \in Node : ckpt'[n].next \in Nat /\ ckpt[n].next <= ckpt'[n].next

LEMMA CheckpointReplaced ==
  ASSUME NodesAssumption, TypeOK, NEW n \in Node, NEW k, k.next \in Nat, ckpt[n].next <= k.next,
         ckpt' = [ckpt EXCEPT ![n] = k]
  PROVE  CheckpointsGrow
<1>1. DOMAIN ckpt = Node /\ \A o \in Node : ckpt[o].next \in Nat
  BY DEF TypeOK
<1>2. ASSUME NEW o \in Node PROVE ckpt'[o].next \in Nat /\ ckpt[o].next <= ckpt'[o].next
  <2>1. CASE o = n
    BY <1>1, <2>1
  <2>2. CASE o # n
    BY <1>1, <2>2
  <2> QED
    BY <2>1, <2>2
<1> QED
  BY <1>1, <1>2 DEF CheckpointsGrow

LEMMA CheckpointsSame ==
  ASSUME NodesAssumption, TypeOK, ckpt' = ckpt
  PROVE  CheckpointsGrow
BY DEF CheckpointsGrow, TypeOK

(* The newer of two checkpoints reaches as far as both. *)
LEMMA NewerIsNewer ==
  ASSUME NEW k, NEW o, k.next \in Nat, o.next \in Nat
  PROVE  /\ Newer(k, o) \in {k, o} /\ Newer(k, o).next \in Nat
         /\ k.next <= Newer(k, o).next /\ o.next <= Newer(k, o).next
BY DEF Newer

(* What a stretch of the loop of receive_sync sends. *)
LEMMA LoopSends ==
  ASSUME NodesAssumption, NEW m \in net, MessageOK(m), m.to \in Node, NEW st, NEW k, k.next \in Nat,
         NEW l, Loop(m.to, m, k, st, l)
  PROVE  Sends(Harmless)
<1>1. PICK i : /\ net' \subseteq net \cup (Vote(m.to, st, k, i) \cup {Msg(m.to, "loop", m.from, 0, 0, None)})
  BY Zenon DEF Loop
<1>2. \A j \in Vote(m.to, st, k, i) : j.type = "ckpt_vote" /\ MessageOK(j)
  BY VoteIs
<1>3. PICK j : j = Msg(m.to, "loop", m.from, 0, 0, None)
  OBVIOUS
<1>4. j.type = "loop" /\ MessageOK(j)
  BY <1>3 DEF Msg, MessageOK, Phase, Announce
<1> QED
  BY <1>1, <1>2, <1>3, <1>4 DEF Sends, Harmless

LEMMA receive_syncDoes ==
  ASSUME NodesAssumption, TypeOK, NEW m \in net, receive_sync(m.to, m)
  PROVE  /\ m.type = "sync"
         /\ TakesCertificates(m) /\ CheckpointsGrow
         /\ Sends(Harmless)
<1>1. /\ m.type = "sync" /\ m.to \in Node /\ m.slot.next \in Nat /\ Certificates(m.prop)
      /\ MessageOK(m)
  BY Zenon DEF receive_sync, TypeOK, MessageOK
<1> DEFINE n  == m.to
           k  == Newer(ckpt[n], m.slot)
           l  == Later(lastCommit[n], k.next - 1)
           st == [s \in Slot |->
                    IF s \in DOMAIN m.prop /\ s >= k.next /\ s < Upperbound(k) /\ status[n][s].committed = None
                    THEN [status[n][s] EXCEPT !.known = TRUE, !.committed = m.prop[s]]
                    ELSE status[n][s]]
<1>2. /\ ckpt' = [ckpt EXCEPT ![n] = k]
      /\ status' = [status EXCEPT ![n] = st]
      /\ Loop(n, m, k, st, l)
  BY Zenon DEF receive_sync
<1>3. n \in Node /\ ckpt[n].next \in Nat
  BY <1>1 DEF TypeOK
<1>5. k.next \in Nat /\ ckpt[n].next <= k.next
  BY SMTT(30), <1>1, <1>3, NewerIsNewer
<1>13. Sends(Harmless)
  <2> HIDE DEF k, st, l
  <2> QED
    BY <1>1, <1>2, <1>5, LoopSends
<1> HIDE DEF n, k
<1>7. CheckpointsGrow
  BY <1>2, <1>3, <1>5, CheckpointReplaced
<1>9. ASSUME NEW s \in Slot
      PROVE  /\ st[s] \in StatusType
             /\ st[s].prepares = status[n][s].prepares /\ st[s].commits = status[n][s].commits
             /\ st[s].prepared = status[n][s].prepared
             /\ \/ st[s].committed = status[n][s].committed
                \/ status[n][s].committed = None /\ s \in DOMAIN m.prop /\ st[s].committed = m.prop[s]
  <2>1. status[n][s] \in StatusType
    BY <1>3 DEF TypeOK
  <2>2. CASE s \in DOMAIN m.prop /\ s >= k.next /\ s < Upperbound(k) /\ status[n][s].committed = None
    <3>1. st[s] = [status[n][s] EXCEPT !.known = TRUE, !.committed = m.prop[s]]
      BY <2>2
    <3>2. m.prop[s] \in Proposal
      BY <1>1, <2>2 DEF Certificates
    <3> HIDE DEF st
    <3> QED
      BY <2>1, <2>2, <3>1, <3>2 DEF StatusType
  <2>3. CASE ~(s \in DOMAIN m.prop /\ s >= k.next /\ s < Upperbound(k) /\ status[n][s].committed = None)
    BY <2>1, <2>3
  <2> QED
    BY <2>2, <2>3
<1>10. DOMAIN st = Slot
  OBVIOUS
<1>11. st = [s \in Slot |-> st[s]]
  OBVIOUS
<1> HIDE DEF st, l
<1>12. TakesCertificates(m)
  <2>1. st \in [Slot -> StatusType]
    BY <1>9, <1>11
  <2>2. status \in [Node -> [Slot -> StatusType]]
    BY DEF TypeOK
  <2>3. status' \in [Node -> [Slot -> StatusType]]
    BY <1>2, <2>1, <2>2
  <2>4. \A o \in Node : status'[o] = IF o = n THEN st ELSE status[o]
    BY <1>2, <2>2
  <2> QED
    BY <1>9, <2>3, <2>4 DEF TakesCertificates
<1> QED
  BY <1>1, <1>7, <1>12, <1>13

-----------------------------------------------------------------------------
(* The kinds of steps, as far as proposals, commits and views go. *)

elections == <<followView, view, isLeader, nextPropose, vcVotes>>

(* Slots may be heard of; nothing is counted. *)
OnlyHeard ==
  /\ status' \in [Node -> [Slot -> StatusType]]
  /\ \A o \in Node, t \in Slot :
       /\ status'[o][t].prepares = status[o][t].prepares /\ status'[o][t].commits = status[o][t].commits
       /\ status'[o][t].prepared = status[o][t].prepared /\ status'[o][t].committed = status[o][t].committed

Idles == Sends(Harmless) /\ status' = status /\ CheckpointsGrow /\ UNCHANGED elections

(* A leader begins to read a request. *)
Reads ==
  /\ UNCHANGED <<status, elections, ckpt>>
  /\ \A k \in net' : k \in net \/ (MessageOK(k) /\ k.type = "reading" /\ isLeader[k.to])

Proposes(n, s, p) ==
  /\ \E m \in net : m.type = "reading" /\ m.to = n
  /\ s = nextPropose[n] /\ nextPropose' = [nextPropose EXCEPT ![n] = s + 1]
  /\ OnlyHeard /\ UNCHANGED <<followView, view, isLeader, vcVotes, ckpt>>
  /\ \A k \in net' : \/ k \in net
                     \/ /\ MessageOK(k) /\ k.type = "preprepare" /\ k.from = n
                        /\ k.view = view[n] /\ k.slot = s /\ k.prop = p

(* A slot that came along is one to echo, too. *)
FromMore(k) ==
  k.type = "slots" /\ \E j \in net : /\ j.type = "more" /\ j.from = k.from
                                     /\ j.view = k.view /\ j.slot = k.slot /\ j.prop = k.prop

Echoes(m) ==
  /\ m.type \in Announce
  /\ OnlyHeard /\ UNCHANGED <<elections, ckpt>>
  /\ \A k \in net' : \/ k \in net
                     \/ /\ MessageOK(k)
                        /\ \/ FromMore(k)
                           \/ /\ k.type = "prepare"
                              /\ k.view = m.view /\ k.slot = m.slot /\ k.prop = m.prop

Prepares(m, n, s, v, p, st) ==
  /\ CountsPrepare(m, n, s, v, p, st) /\ UNCHANGED <<elections, ckpt>>

Commits(m, n, s, v, p, st) ==
  /\ CountsCommit(m, n, s, v, p, st) /\ Sends(Harmless) /\ UNCHANGED <<elections, ckpt>>

Syncs(m) ==
  /\ m.type = "sync"
  /\ TakesCertificates(m) /\ CheckpointsGrow /\ Sends(Harmless) /\ UNCHANGED elections

Offers(n) ==
  /\ UNCHANGED <<status, elections, ckpt>>
  /\ \A k \in net' : \/ k \in net
                     \/ /\ MessageOK(k) /\ k.type = "sync"
                        /\ \A s \in DOMAIN k.prop :
                             k.prop[s] = status[n][s].committed /\ k.prop[s] # None

ChangesView(n) ==
  /\ followView[n] + 1 \in Views /\ followView' = [followView EXCEPT ![n] = @ + 1]
  /\ isLeader' = [isLeader EXCEPT ![n] = FALSE]
  /\ UNCHANGED <<view, nextPropose, status, ckpt, vcVotes>>
  /\ \A k \in net' : \/ k \in net
                     \/ /\ MessageOK(k) /\ k.type = "vc_vote" /\ k.view = followView[n] + 1 /\ k.from = n
                        /\ k.slot = ckpt[n] /\ DOMAIN k.prop = PreparedSlots(n)
                        /\ \A s \in PreparedSlots(n) : k.prop[s] = status[n][s].prepared

(* The votes for a view once m is counted. *)
VotesWith(n, m) ==
  [from  |-> vcVotes[n][m.view].from \cup {m.from},
   certs |-> FirstCert(vcVotes[n][m.view].certs, m.prop)]

Votes(m, n) ==
  /\ m.type = "vc_vote" /\ n = m.to
  /\ vcVotes' = [vcVotes EXCEPT ![n][m.view] = VotesWith(n, m)]
  /\ CheckpointsGrow /\ m.slot.next <= ckpt'[n].next
  /\ UNCHANGED <<followView, status>>

TakesOver(m, n) ==
  LET certs == VotesWith(n, m).certs
      last  == LastSlot(certs)
  IN  /\ Cardinality(VotesWith(n, m).from) >= 2 * f + 1 /\ followView[n] % N = n /\ ~isLeader[n]
      /\ isLeader' = [isLeader EXCEPT ![n] = TRUE]
      /\ view' = [view EXCEPT ![n] = followView[n]]
      /\ nextPropose' = [nextPropose EXCEPT ![n] = last + 1]
      /\ \A k \in net' :
           \/ k \in net
           \/ /\ MessageOK(k) /\ k.type \in {"preprepare", "more"}
              /\ k.from = n /\ k.view = followView[n]
              /\ k.slot \in Slot /\ k.slot <= last
              /\ k.prop = IF k.slot \in DOMAIN certs THEN certs[k.slot] ELSE NoOp

(* Each action of Next is a step of one of these kinds. *)
Kinds ==
  \/ Idles
  \/ Reads
  \/ \E n \in Node, s \in Slot, p \in Proposal : Proposes(n, s, p)
  \/ \E m \in net : Echoes(m)
  \/ \E m \in net, n \in Node, s \in Slot, v \in Views, p \in Proposal, st \in StatusType :
       Prepares(m, n, s, v, p, st) \/ Commits(m, n, s, v, p, st)
  \/ \E m \in net : Syncs(m)
  \/ \E n \in Node : Offers(n) \/ ChangesView(n)
  \/ \E m \in net, n \in Node :
       /\ Votes(m, n)
       /\ \/ TakesOver(m, n)
          \/ net' \subseteq net /\ UNCHANGED <<isLeader, view, nextPropose>>

-----------------------------------------------------------------------------
(* A request is well-formed. *)
LEMMA RequestIs ==
  ASSUME NodesAssumption, NEW to, NEW p \in Proposal, NEW k \in Posted({Msg(to, "request", 0, 0, 0, p)}),
         to \in Node
  PROVE  k.type = "request" /\ MessageOK(k)
BY DEF Posted, Msg, MessageOK, Phase, Announce, Node

LEMMA NextRequestIdles ==
  ASSUME NodesAssumption, TypeOK, NextRequest
  PROVE  Idles /\ ClientOK'
<1> DEFINE c == [req |-> client.req + 1, attempt |-> 1, failures |-> 0, dest |-> 0,
                 replies |-> {}, ok |-> FALSE]
<1>1. client' = c /\ net' = net \cup Request(c) /\ UNCHANGED nodeVars
  BY DEF NextRequest
<1>2. client.req \in Nat /\ 0 \in Node
  BY DEF TypeOK, ClientOK, Node
<1>3. ClientOK'
  BY <1>1, <1>2 DEF ClientOK
<1>4. PICK p : p = <<client.req + 1, 1>>
  OBVIOUS
<1>5. p \in Proposal
  BY <1>2, <1>4 DEF Proposal, None
<1>6. \A k \in Request(c) : k.type = "request" /\ MessageOK(k)
  BY <1>2, <1>4, <1>5, RequestIs DEF Request
<1>7. Sends(Harmless)
  BY <1>1, <1>6 DEF Sends, Harmless
<1>8. CheckpointsGrow
  BY <1>1, CheckpointsSame DEF nodeVars
<1> QED
  BY <1>1, <1>3, <1>7, <1>8 DEF Idles, nodeVars, elections

(* A remainder is below the divisor. *)
LEMMA Remainder ==
  ASSUME NodesAssumption, NEW x \in Nat
  PROVE  x % N \in Node
<1>1. N \in Nat /\ N > 0
  OBVIOUS
<1>2. x % N \in 0 .. N - 1
  BY <1>1
<1> QED
  BY <1>2 DEF Node

LEMMA ResendIdles ==
  ASSUME NodesAssumption, TypeOK, Resend
  PROVE  Idles /\ ClientOK'
<1> DEFINE change == client.failures + 1 = Retry
           c == [client EXCEPT !.attempt = @ + 1, !.replies = {},
                               !.failures = IF change THEN 0 ELSE @ + 1,
                               !.dest = IF change THEN (@ + 1) % N ELSE @]
<1>1. /\ client' = c /\ ~client.ok /\ UNCHANGED nodeVars
      /\ net' = net \cup Request(c) \cup (IF change THEN Post("view_change", 0, 0, 0, None) ELSE {})
  BY DEF Resend
<1>2. /\ client \in [req : Nat, attempt : Nat, failures : Nat, dest : Node,
                     replies : SUBSET (Views \X Proposal \X Node), ok : BOOLEAN]
      /\ client.req > 0 /\ client.attempt \in Nat /\ client.dest \in Nat
  BY <1>1 DEF TypeOK, ClientOK, Node
<1>3. PICK x, d : /\ x = IF change THEN 0 ELSE client.failures + 1
                  /\ d = IF change THEN (client.dest + 1) % N ELSE client.dest
  OBVIOUS
<1>4. x \in Nat /\ d \in Node
  BY <1>2, <1>3, Remainder
<1>5. c = [client EXCEPT !.attempt = client.attempt + 1, !.replies = {}, !.failures = x, !.dest = d]
  BY <1>2, <1>3
<1> HIDE DEF c, change
<1>6. /\ c \in [req : Nat, attempt : Nat, failures : Nat, dest : Node,
                replies : SUBSET (Views \X Proposal \X Node), ok : BOOLEAN]
      /\ c.req = client.req /\ c.attempt = client.attempt + 1 /\ c.dest = d
  <2>1. PICK y : y = client.attempt + 1
    OBVIOUS
  <2>2. y \in Nat /\ {} \in SUBSET (Views \X Proposal \X Node)
    BY <1>2, <2>1
  <2>3. c = [client EXCEPT !.attempt = y, !.replies = {}, !.failures = x, !.dest = d]
    BY <1>5, <2>1
  <2>4. /\ c \in [req : Nat, attempt : Nat, failures : Nat, dest : Node,
                  replies : SUBSET (Views \X Proposal \X Node), ok : BOOLEAN]
    BY <1>2, <1>4, <2>2, <2>3
  <2>5. c.req = client.req /\ c.attempt = y /\ c.dest = d
    BY <1>2, <2>3
  <2> QED
    BY <2>1, <2>4, <2>5
<1>7. PICK p : p = <<c.req, c.attempt>>
  OBVIOUS
<1>13. p \in Proposal
  BY <1>2, <1>6, <1>7 DEF Proposal, None
<1>14. ClientOK'
  BY <1>1, <1>2, <1>6 DEF ClientOK
<1>8. \A k \in Request(c) : k.type = "request" /\ MessageOK(k)
  BY <1>4, <1>6, <1>7, <1>13, RequestIs DEF Request
<1>9. 0 \in Node
  BY DEF Node
<1>10. \A k \in Post("view_change", 0, 0, 0, None) : k.type = "view_change" /\ MessageOK(k)
  BY <1>9, PostIs DEF MessageOK, Phase, Announce
<1>11. Sends(Harmless)
  BY <1>1, <1>8, <1>10 DEF Sends, Harmless
<1>12. CheckpointsGrow
  BY <1>1, CheckpointsSame DEF nodeVars
<1> QED
  BY <1>1, <1>11, <1>12, <1>14 DEF Idles, nodeVars, elections

LEMMA get_replyIdles ==
  ASSUME NodesAssumption, TypeOK, NEW m \in net, get_reply(m)
  PROVE  Idles /\ ClientOK'
<1> DEFINE counted == client.replies \cup {<<m.view, m.prop, m.from>>}
<1>1. /\ m.type = "reply" /\ net' = net \ {m} /\ UNCHANGED nodeVars
      /\ client' = [client EXCEPT !.replies = counted, !.ok = @ \/ Succeeds(counted)]
  BY DEF get_reply
<1>2. m.view \in Views /\ m.prop \in Proposal /\ m.from \in Node
  BY <1>1 DEF TypeOK, MessageOK
<1>3. /\ client \in [req : Nat, attempt : Nat, failures : Nat, dest : Node,
                     replies : SUBSET (Views \X Proposal \X Node), ok : BOOLEAN]
      /\ client.ok \/ client.req > 0
  BY DEF TypeOK, ClientOK
<1>4. counted \in SUBSET (Views \X Proposal \X Node)
  BY <1>2, <1>3
<1>5. (client.ok \/ Succeeds(counted)) \in BOOLEAN
  BY <1>3 DEF Succeeds
<1> HIDE DEF counted
<1>6. ClientOK'
  BY <1>1, <1>3, <1>4, <1>5 DEF ClientOK
<1>7. CheckpointsGrow
  BY <1>1, CheckpointsSame DEF nodeVars
<1> QED
  BY <1>1, <1>6, <1>7 DEF Idles, Sends, nodeVars, elections

(* Slots may be heard of without anything being counted. *)
LEMMA HearsOnly ==
  ASSUME TypeOK, NEW n \in Node, NEW s \in Slot, status' = [status EXCEPT ![n][s].known = TRUE]
  PROVE  OnlyHeard
<1>1. status \in [Node -> [Slot -> StatusType]] /\ status[n][s] \in StatusType
  BY DEF TypeOK
<1>2. status' = [status EXCEPT ![n][s] = Heard(status[n][s])]
  BY DEF Heard
<1>3. Touches(n, s, Heard(status[n][s]))
  BY <1>1, <1>2, TouchesOne, HeardGrows
<1>4. ASSUME NEW o \in Node, NEW t \in Slot
      PROVE  /\ status'[o][t].prepares = status[o][t].prepares /\ status'[o][t].commits = status[o][t].commits
             /\ status'[o][t].prepared = status[o][t].prepared /\ status'[o][t].committed = status[o][t].committed
  <2>1. CASE o = n /\ t = s
    BY <1>1, <1>3, <2>1, HeardGrows DEF Touches
  <2>2. CASE ~(o = n /\ t = s)
    BY <1>3, <2>2 DEF Touches
  <2> QED
    BY <2>1, <2>2
<1> QED
  BY <1>3, <1>4 DEF OnlyHeard, Touches

LEMMA SameHearsOnly ==
  ASSUME TypeOK, status' = status
  PROVE  OnlyHeard
BY DEF OnlyHeard, TypeOK

LEMMA get_requestDoes ==
  ASSUME NodesAssumption, TypeOK, NEW m \in net, get_request(m.to, m)
  PROVE  Idles \/ Reads
<1>1. /\ m.type = "request" /\ MessageOK(m) /\ m.prop \in Proposal /\ m.to \in Node
      /\ UNCHANGED <<status, elections, ckpt>>
  BY DEF get_request, TypeOK, MessageOK, nodeVars, elections
<1>2. PICK n \in Node, p \in Proposal : n = m.to /\ p = m.prop
  BY <1>1
<1>5. m = Msg(n, "request", 0, 0, 0, p)
  BY <1>1, <1>2 DEF MessageOK
<1>3. CASE isLeader[n]
  <2>1. net' = (net \ {m}) \cup {Left(m, "reading")}
    BY <1>2, <1>3 DEF get_request
  <2>2. PICK k : k = Left(m, "reading")
    OBVIOUS
  <2>3. k = Msg(n, "reading", 0, 0, 0, p)
    BY <1>5, <2>2 DEF Left, Msg
  <2>4. k.to = n /\ k.type = "reading" /\ k.from \in Node /\ k.prop = p
    BY <2>3 DEF Msg, Node
  <2>5. n \in Live
    BY <1>1, <1>2 DEF MessageOK
  <2>6. MessageOK(k)
    BY <2>3, <2>4, <2>5 DEF MessageOK, Phase, Announce
  <2> QED
    BY <1>1, <1>3, <2>1, <2>2, <2>4, <2>6 DEF Reads
<1>4. CASE ~isLeader[n]
  <2>1. PICK to : to = followView[n] % N
    OBVIOUS
  <2>2. followView[n] \in Nat
    BY DEF TypeOK, Views
  <2>3. to \in Node
    BY <2>1, <2>2, Remainder
  <2>4. net' = (net \ {m}) \cup Posted({[m EXCEPT !.to = to]} \ {m})
    BY <1>2, <1>4, <2>1 DEF get_request
  <2>5. [m EXCEPT !.to = to] = Msg(to, "request", 0, 0, 0, p)
    BY <1>5 DEF Msg
  <2>6. ASSUME NEW k \in Posted({[m EXCEPT !.to = to]} \ {m}) PROVE k.type = "request" /\ MessageOK(k)
    <3>1. k \in Posted({Msg(to, "request", 0, 0, 0, p)})
      BY <2>5 DEF Posted
    <3> QED
      BY <2>3, <3>1, RequestIs
  <2>7. Sends(Harmless)
    BY <2>4, <2>6 DEF Sends, Harmless
  <2>8. CheckpointsGrow
    BY <1>1, CheckpointsSame
  <2> QED
    BY <1>1, <2>7, <2>8 DEF Idles
<1> QED
  BY <1>3, <1>4

LEMMA preprepareDoes ==
  ASSUME NodesAssumption, TypeOK, NEW m \in net, preprepare(m.to, m)
  PROVE  \E n \in Node, s \in Slot, p \in Proposal : Proposes(n, s, p)
<1>1. /\ m.type = "reading" /\ m.prop \in Proposal /\ m.to \in Node
      /\ UNCHANGED <<followView, view, isLeader, ckpt, vcVotes>>
  BY DEF preprepare, TypeOK, MessageOK
<1>2. PICK n \in Node, s \in Slot, p \in Proposal : n = m.to /\ s = nextPropose[n] /\ p = m.prop
  BY <1>1 DEF preprepare
<1>3. PICK v \in Views : v = view[n]
  BY DEF TypeOK
<1>4. /\ nextPropose' = [nextPropose EXCEPT ![n] = s + 1]
      /\ status' = [status EXCEPT ![n][s].known = TRUE]
      /\ net' = (net \ {m}) \cup Post("preprepare", n, v, s, p)
  BY <1>2, <1>3 DEF preprepare
<1>5. OnlyHeard
  BY <1>4, HearsOnly
<1>6. ASSUME NEW k \in Post("preprepare", n, v, s, p)
      PROVE  /\ MessageOK(k) /\ k.type = "preprepare" /\ k.from = n
             /\ k.view = v /\ k.slot = s /\ k.prop = p
  BY PostIs DEF MessageOK, Phase, Announce
<1>7. Proposes(n, s, p)
  BY <1>1, <1>2, <1>3, <1>4, <1>5, <1>6 DEF Proposes
<1> QED
  BY <1>7

LEMMA prepareDoes ==
  ASSUME NodesAssumption, TypeOK, NEW m \in net, prepare(m.to, m)
  PROVE  Echoes(m)
<1> DEFINE rest == IF m.type = "preprepare" THEN Rest(m) ELSE {}
           left == (net \ ({m} \cup rest)) \cup
                   (IF m.type = "slots" \/ Current(m.to, m) THEN {Left(k, "slots") : k \in rest} ELSE {})
<1>1. /\ m.type \in {"preprepare", "slots"} /\ m.type \in Announce /\ MessageOK(m)
      /\ UNCHANGED <<elections, ckpt>>
  BY DEF prepare, TypeOK, elections, Announce
<1>2. PICK n \in Node, s \in Slot, v \in Views, p \in Proposal :
        n = m.to /\ m.slot = s /\ m.view = v /\ m.prop = p
  BY <1>1 DEF MessageOK, Phase, Announce
<1>5. ASSUME NEW k \in left PROVE k \in net \/ (MessageOK(k) /\ FromMore(k))
  <2>1. ASSUME k \notin net PROVE MessageOK(k) /\ FromMore(k)
    <3>1. PICK j \in Rest(m) : k = Left(j, "slots")
      BY <2>1
    <3>2. j \in net /\ j.type = "more" /\ MessageOK(j)
      BY <3>1 DEF Rest, TypeOK
    <3>4. /\ k.to = j.to /\ k.from = j.from /\ k.view = j.view /\ k.slot = j.slot /\ k.prop = j.prop
          /\ k.type = "slots"
      BY <3>1 DEF Left, Msg
    <3>5. MessageOK(k)
      BY <3>2, <3>4 DEF MessageOK, Phase, Announce
    <3> QED
      BY <3>2, <3>4, <3>5 DEF FromMore
  <2> QED
    BY <2>1
<1>6. \/ status' = [status EXCEPT ![n][s].known = TRUE] /\ net' = left \cup Post("prepare", n, v, s, p)
      \/ status' = status /\ net' = left
  BY <1>2 DEF prepare
<1>7. ASSUME NEW k \in Post("prepare", n, v, s, p)
      PROVE  MessageOK(k) /\ k.type = "prepare" /\ k.view = v /\ k.slot = s /\ k.prop = p
  BY PostIs DEF MessageOK, Phase, Announce
<1> HIDE DEF left
<1>8. OnlyHeard
  BY <1>6, HearsOnly, SameHearsOnly
<1> QED
  BY <1>1, <1>2, <1>5, <1>6, <1>7, <1>8 DEF Echoes

LEMMA receive_ckpt_voteIdles ==
  ASSUME NodesAssumption, TypeOK, NEW m \in net, receive_ckpt_vote(m.to, m)
  PROVE  Idles /\ BallotsOK'
<1> DEFINE n     == m.to
           old   == ckptVotes[n]
           entry == IF m.prop \in DOMAIN old THEN [old[m.prop] EXCEPT !.from = @ \cup {m.from}]
                    ELSE [next |-> m.slot, from |-> {m.from}]
           goes  == entry.next > ckpt[n].next /\ Cardinality(entry.from) >= 2 * f + 1
           all   == [log \in DOMAIN old \cup {m.prop} |-> IF log = m.prop THEN entry ELSE old[log]]
<1>1. /\ m.type = "ckpt_vote" /\ net' = net \ {m}
      /\ UNCHANGED <<status, followView, view, isLeader, nextPropose, vcVotes>>
      /\ ckptVotes' = [ckptVotes EXCEPT ![n] = all]
      /\ ckpt' = [ckpt EXCEPT ![n] = IF goes THEN [next |-> entry.next, log |-> m.prop] ELSE @]
  BY Zenon DEF receive_ckpt_vote
<1>2. m.slot \in Nat /\ n \in Node
  BY <1>1 DEF TypeOK, MessageOK
<1>3. /\ DOMAIN ckptVotes = Node /\ DOMAIN ckpt = Node
      /\ \A o \in Node : \A log \in DOMAIN ckptVotes[o] : ckptVotes[o][log].next \in Nat
      /\ ckpt[n].next \in Nat
  BY <1>2 DEF TypeOK, BallotsOK
<1>4. entry.next \in Nat
  <2>1. CASE m.prop \in DOMAIN old
    <3>1. old[m.prop].next \in Nat
      BY <1>2, <1>3, <2>1
    <3>2. entry = [old[m.prop] EXCEPT !.from = @ \cup {m.from}]
      BY <2>1
    <3> HIDE DEF entry, old
    <3>3. entry.next = old[m.prop].next
      BY <3>2
    <3> QED
      BY <3>1, <3>3
  <2>2. CASE m.prop \notin DOMAIN old
    BY <1>2, <2>2
  <2> QED
    BY <2>1, <2>2
<1>5. DOMAIN all = DOMAIN old \cup {m.prop}
      /\ \A log \in DOMAIN all : all[log] = IF log = m.prop THEN entry ELSE old[log]
  OBVIOUS
<1>6. \A log \in DOMAIN all : all[log].next \in Nat
  <2> HIDE DEF entry, all
  <2> QED
    BY <1>2, <1>3, <1>4, <1>5
<1> HIDE DEF all, entry
<1>7. BallotsOK'
  BY <1>1, <1>2, <1>3, <1>6 DEF BallotsOK
<1>8. CheckpointsGrow
  <2>1. CASE goes
    <3>1. PICK k : k = [next |-> entry.next, log |-> m.prop]
      OBVIOUS
    <3>2. k.next = entry.next
      BY <3>1
    <3>3. ckpt' = [ckpt EXCEPT ![n] = k]
      BY <1>1, <2>1, <3>1
    <3>4. ckpt[n].next <= k.next
      BY <1>3, <1>4, <2>1, <3>2
    <3> QED
      BY <1>2, <1>4, <3>2, <3>3, <3>4, CheckpointReplaced
  <2>2. CASE ~goes
    <3>1. PICK k : k = ckpt[n]
      OBVIOUS
    <3>2. ckpt' = [ckpt EXCEPT ![n] = k]
      BY <1>1, <2>2, <3>1
    <3>3. k.next \in Nat /\ ckpt[n].next <= k.next
      BY <1>3, <3>1
    <3> HIDE DEF n
    <3> QED
      BY <1>2, <3>2, <3>3, CheckpointReplaced
  <2> QED
    BY <2>1, <2>2
<1> QED
  BY <1>1, <1>7, <1>8 DEF Idles, Sends, elections

LEMMA receive_sync_resumesIdles ==
  ASSUME NodesAssumption, TypeOK, NEW m \in net, receive_sync_resumes(m.to, m)
  PROVE  Idles
<1>1. MessageOK(m) /\ m.to \in Node
  BY DEF TypeOK, MessageOK
<1>2. /\ UNCHANGED <<status, elections, ckpt>>
      /\ Loop(m.to, m, ckpt[m.to], status[m.to], lastCommit[m.to])
  BY DEF receive_sync_resumes, elections
<1>3. ckpt[m.to].next \in Nat
  BY <1>1 DEF TypeOK
<1>4. Sends(Harmless)
  BY <1>1, <1>2, <1>3, LoopSends
<1>5. CheckpointsGrow
  BY <1>2, CheckpointsSame
<1> QED
  BY <1>2, <1>4, <1>5 DEF Idles

LEMMA synchronizeOffers ==
  ASSUME NodesAssumption, TypeOK, NEW n \in Live, synchronize(n)
  PROVE  n \in Node /\ Offers(n)
<1> DEFINE certs == {s \in Slot : _legal_slot(n, s) /\ status[n][s].committed # None}
           p     == [s \in certs |-> status[n][s].committed]
<1>1. n \in Node
  OBVIOUS
<1>2. /\ net' = net \cup Post("sync", n, 0, ckpt[n], p)
      /\ UNCHANGED <<status, elections, ckpt>>
  BY DEF synchronize, nodeVars, elections
<1>3. ckpt[n].next \in Nat
  BY <1>1 DEF TypeOK
<1>4. \A s \in certs : p[s] = status[n][s].committed /\ p[s] # None /\ p[s] \in Proposal
  BY <1>1 DEF TypeOK, StatusType
<1>5. DOMAIN p = certs /\ certs \subseteq Slot
  OBVIOUS
<1> HIDE DEF p, certs
<1>6. ASSUME NEW k \in Post("sync", n, 0, ckpt[n], p)
      PROVE  /\ MessageOK(k) /\ k.type = "sync"
             /\ \A s \in DOMAIN k.prop : k.prop[s] = status[n][s].committed /\ k.prop[s] # None
  <2>1. k.to \in Live /\ k.from \in Node /\ k.type = "sync" /\ k.slot = ckpt[n] /\ k.prop = p
    BY <1>1, PostIs
  <2>2. Certificates(p)
    BY <1>4, <1>5 DEF Certificates
  <2> QED
    BY <1>3, <1>4, <1>5, <2>1, <2>2 DEF MessageOK, Phase, Announce
<1> QED
  BY <1>1, <1>2, <1>6 DEF Offers

LEMMA get_view_change_requestDoes ==
  ASSUME NodesAssumption, TypeOK, NEW m \in net, get_view_change_request(m.to, m)
  PROVE  \E n \in Node : ChangesView(n)
<1>1. PICK n \in Node : n = m.to
  BY DEF TypeOK, MessageOK
<1> DEFINE p == [s \in PreparedSlots(n) |-> status[n][s].prepared]
<1>2. PICK v : v = followView[n] + 1
  OBVIOUS
<1>3. /\ v <= MaxView
      /\ followView' = [followView EXCEPT ![n] = v]
      /\ isLeader' = [isLeader EXCEPT ![n] = FALSE]
      /\ net' = (net \ {m}) \cup Post("vc_vote", n, v, ckpt[n], p)
      /\ UNCHANGED <<view, nextPropose, status, ckpt, vcVotes>>
  BY <1>1, <1>2 DEF get_view_change_request
<1>4. v \in Views \ {0} /\ ckpt[n].next \in Nat
  <2>1. followView[n] \in Views
    BY DEF TypeOK
  <2> QED
    BY <1>2, <1>3, <2>1 DEF TypeOK, Views
<1>5. \A s \in PreparedSlots(n) : p[s] = status[n][s].prepared /\ p[s] \in Proposal /\ s \in Slot
  BY DEF TypeOK, StatusType, PreparedSlots
<1>6. DOMAIN p = PreparedSlots(n)
  OBVIOUS
<1> HIDE DEF p
<1>7. ASSUME NEW k \in Post("vc_vote", n, v, ckpt[n], p)
      PROVE  /\ MessageOK(k) /\ k.type = "vc_vote" /\ k.view = v /\ k.from = n
             /\ k.slot = ckpt[n] /\ DOMAIN k.prop = PreparedSlots(n)
             /\ \A s \in PreparedSlots(n) : k.prop[s] = status[n][s].prepared
  <2>1. /\ k.to \in Live /\ k.from = n /\ k.type = "vc_vote" /\ k.view = v
        /\ k.slot = ckpt[n] /\ k.prop = p
    BY PostIs
  <2>2. Certificates(p)
    BY <1>5, <1>6 DEF Certificates
  <2> QED
    BY <1>4, <1>5, <1>6, <2>1, <2>2 DEF MessageOK, Phase, Announce
<1>8. followView' = [followView EXCEPT ![n] = @ + 1]
  BY <1>2, <1>3
<1>9. ChangesView(n)
  BY <1>2, <1>3, <1>4, <1>7, <1>8 DEF ChangesView
<1> QED
  BY <1>9

(* A node counts votes with their certificates. *)
LEMMA VotesWithIs ==
  ASSUME NodesAssumption, TypeOK, NEW m \in net, m.type = "vc_vote", NEW n \in Node
  PROVE  /\ VotesWith(n, m).from = vcVotes[n][m.view].from \cup {m.from}
         /\ VotesWith(n, m).from \subseteq Node
         /\ VotesWith(n, m).certs = FirstCert(vcVotes[n][m.view].certs, m.prop)
         /\ Certificates(VotesWith(n, m).certs)
<1>1. m.view \in Views /\ m.from \in Node /\ Certificates(m.prop)
  BY DEF TypeOK, MessageOK
<1>2. vcVotes[n][m.view].from \subseteq Node /\ Certificates(vcVotes[n][m.view].certs)
  BY <1>1 DEF TypeOK, VotesOK
<1>3. Certificates(FirstCert(vcVotes[n][m.view].certs, m.prop))
  BY <1>1, <1>2 DEF Certificates, FirstCert
<1> QED
  BY <1>1, <1>2, <1>3 DEF VotesWith

LEMMA receive_view_change_voteDoes ==
  ASSUME NodesAssumption, TypeOK, NEW m \in net, receive_view_change_vote(m.to, m)
  PROVE  \E n \in Node :
           /\ Votes(m, n)
           /\ \/ TakesOver(m, n)
              \/ net' \subseteq net /\ UNCHANGED <<isLeader, view, nextPropose>>
<1> DEFINE n     == m.to
           k     == Newer(ckpt[n], m.slot)
           votes == VotesWith(n, m)
           takes == Cardinality(votes.from) >= 2 * f + 1 /\ followView[n] % N = n /\ ~isLeader[n]
           last  == LastSlot(votes.certs)
           open  == {s \in k.next .. last :
                       s \in DOMAIN votes.certs => status[n][s].committed = None}
           fails == \E s \in k.next .. last : s \in DOMAIN votes.certs /\ ~status[n][s].known
           prop(s) == IF s \in DOMAIN votes.certs THEN votes.certs[s] ELSE NoOp
           type(s) == IF \E u \in open : u < s THEN "more" ELSE "preprepare"
<1>1. /\ m.type = "vc_vote" /\ UNCHANGED <<followView, status>>
      /\ ckpt' = [ckpt EXCEPT ![n] = k]
      /\ vcVotes' = [vcVotes EXCEPT ![n][m.view] = votes]
      /\ isLeader' = [isLeader EXCEPT ![n] = @ \/ takes]
      /\ view' = [view EXCEPT ![n] = IF takes THEN followView[n] ELSE @]
      /\ nextPropose' = [nextPropose EXCEPT ![n] = IF takes THEN last + 1 ELSE @]
      /\ net' = (net \ {m}) \cup
                (IF takes /\ ~fails
                 THEN UNION {Post(type(s), n, followView[n], s, prop(s)) : s \in open}
                 ELSE {})
  BY Zenon DEF receive_view_change_vote, VotesWith
<1>2. n \in Node /\ m.slot.next \in Nat
  BY <1>1 DEF TypeOK, MessageOK
<1>3. ckpt[n].next \in Nat
  BY <1>2 DEF TypeOK
<1>4. k.next \in Nat /\ ckpt[n].next <= k.next /\ m.slot.next <= k.next
  BY <1>2, <1>3, NewerIsNewer
<1>5. Certificates(votes.certs)
  BY <1>1, <1>2, VotesWithIs
<1>6. last \in Int /\ last < MaxSlot
  BY <1>5, LastSlotIsLast DEF Certificates
<1> HIDE DEF k, votes, last
<1>7. CheckpointsGrow
  BY <1>1, <1>2, <1>4, CheckpointReplaced
<1>12. m.slot.next <= ckpt'[n].next
  <2>1. ckpt'[n] = k
    BY <1>1, <1>2 DEF TypeOK
  <2> QED
    BY <1>4, <2>1
<1>8. Votes(m, n)
  BY <1>1, <1>7, <1>12 DEF Votes, votes
<1>9. /\ isLeader \in [Node -> BOOLEAN] /\ view \in [Node -> Views] /\ nextPropose \in [Node -> Nat]
      /\ followView[n] \in Views
  BY <1>2 DEF TypeOK
<1>10. CASE takes
  <2>1. ASSUME NEW s \in open, NEW j \in Post(type(s), n, followView[n], s, prop(s))
        PROVE  /\ MessageOK(j) /\ j.type \in {"preprepare", "more"}
               /\ j.from = n /\ j.view = followView[n]
               /\ j.slot \in Slot /\ j.slot <= last
               /\ j.prop = IF j.slot \in DOMAIN votes.certs THEN votes.certs[j.slot] ELSE NoOp
    <3>1. s \in Slot /\ s <= last
      BY <1>4, <1>6 DEF Slot
    <3>2. PICK p : p = prop(s)
      OBVIOUS
    <3>3. p \in Proposal
      BY <1>5, <3>2 DEF Certificates, Proposal, NoOp, None
    <3>4. PICK y \in {"preprepare", "more"} : y = type(s)
      OBVIOUS
    <3>5. j \in Post(y, n, followView[n], s, p)
      BY <2>1, <3>2, <3>4
    <3>6. /\ j.to \in Live /\ j.from = n /\ j.type = y /\ j.view = followView[n]
          /\ j.slot = s /\ j.prop = p
      BY <3>5, PostIs
    <3>7. MessageOK(j)
      BY <1>2, <1>9, <3>1, <3>3, <3>4, <3>6 DEF MessageOK, Phase, Announce
    <3> QED
      BY <3>1, <3>2, <3>4, <3>6, <3>7
  <2>2. \A j \in net' : \/ j \in net
                        \/ \E s \in open : j \in Post(type(s), n, followView[n], s, prop(s))
    BY <1>1
  <2>3. /\ isLeader' = [isLeader EXCEPT ![n] = TRUE]
        /\ view' = [view EXCEPT ![n] = followView[n]]
        /\ nextPropose' = [nextPropose EXCEPT ![n] = last + 1]
    BY <1>1, <1>10
  <2>4. TakesOver(m, n)
    <3>1. \A j \in net' :
           \/ j \in net
           \/ /\ MessageOK(j) /\ j.type \in {"preprepare", "more"}
              /\ j.from = n /\ j.view = followView[n]
              /\ j.slot \in Slot /\ j.slot <= last
              /\ j.prop = IF j.slot \in DOMAIN votes.certs THEN votes.certs[j.slot] ELSE NoOp
      BY <2>1, <2>2
    <3> HIDE DEF n
    <3> QED
      BY <1>10, <2>3, <3>1, Zenon DEF TakesOver, votes, last
  <2> QED
    BY <1>2, <1>8, <2>4
<1>11. CASE ~takes
  <2>1. net' \subseteq net
    BY <1>1, <1>11
  <2>2. UNCHANGED <<isLeader, view, nextPropose>>
    BY <1>1, <1>9, <1>11
  <2> QED
    BY <1>2, <1>8, <2>1, <2>2
<1> QED
  BY <1>10, <1>11

-----------------------------------------------------------------------------
(* Every step is of one of the kinds. *)

LEMMA StepIsKind ==
  ASSUME NodesAssumption, TypeOK, [Next]_vars
  PROVE  Kinds /\ BallotsOK' /\ ClientOK'
<1>1. CASE UNCHANGED vars
  <2>1. CheckpointsGrow
    BY <1>1, CheckpointsSame DEF vars, nodeVars
  <2>2. Idles
    BY <1>1, <2>1 DEF vars, nodeVars, Idles, Sends, elections
  <2>3. BallotsOK' /\ ClientOK'
    BY <1>1 DEF TypeOK, BallotsOK, ClientOK, vars, nodeVars
  <2> QED
    BY <2>2, <2>3 DEF Kinds
<1>2. CASE NextRequest
  <2>1. BallotsOK'
    BY <1>2 DEF NextRequest, nodeVars, TypeOK, BallotsOK
  <2> QED
    BY <1>2, <2>1, NextRequestIdles DEF Kinds
<1>3. CASE Resend
  <2>1. BallotsOK'
    BY <1>3 DEF Resend, nodeVars, TypeOK, BallotsOK
  <2> QED
    BY <1>3, <2>1, ResendIdles DEF Kinds
<1>4. ASSUME NEW n \in Live, synchronize(n) PROVE Kinds /\ BallotsOK' /\ ClientOK'
  <2>1. BallotsOK' /\ ClientOK'
    BY <1>4 DEF synchronize, nodeVars, TypeOK, BallotsOK, ClientOK
  <2> QED
    BY <1>4, <2>1, synchronizeOffers DEF Kinds
<1>5. ASSUME NEW m \in net, get_reply(m) PROVE Kinds /\ BallotsOK' /\ ClientOK'
  <2>1. BallotsOK'
    BY <1>5 DEF get_reply, nodeVars, TypeOK, BallotsOK
  <2> QED
    BY <1>5, <2>1, get_replyIdles DEF Kinds
<1>6. ASSUME NEW m \in net, get_request(m.to, m) PROVE Kinds /\ BallotsOK' /\ ClientOK'
  <2>1. BallotsOK' /\ ClientOK'
    BY <1>6 DEF get_request, nodeVars, TypeOK, BallotsOK, ClientOK
  <2> QED
    BY <1>6, <2>1, get_requestDoes DEF Kinds
<1>14. ASSUME NEW m \in net, preprepare(m.to, m) PROVE Kinds /\ BallotsOK' /\ ClientOK'
  <2>1. BallotsOK' /\ ClientOK'
    BY <1>14 DEF preprepare, TypeOK, BallotsOK, ClientOK
  <2> QED
    BY <1>14, <2>1, preprepareDoes DEF Kinds
<1>7. ASSUME NEW m \in net, prepare(m.to, m) PROVE Kinds /\ BallotsOK' /\ ClientOK'
  <2>1. BallotsOK' /\ ClientOK'
    BY <1>7 DEF prepare, TypeOK, BallotsOK, ClientOK
  <2> QED
    BY <1>7, <2>1, prepareDoes DEF Kinds
<1>8. ASSUME NEW m \in net, commit(m.to, m) PROVE Kinds /\ BallotsOK' /\ ClientOK'
  <2>1. BallotsOK' /\ ClientOK'
    BY <1>8 DEF commit, TypeOK, BallotsOK, ClientOK
  <2>2. UNCHANGED <<elections, ckpt>>
    BY <1>8 DEF commit, elections
  <2>3. CASE net' = net \ {m} /\ status' = status
    <3>1. CheckpointsGrow
      BY <2>2, CheckpointsSame
    <3> QED
      BY <2>1, <2>2, <2>3, <3>1 DEF Kinds, Idles, Sends
  <2>4. ASSUME NEW n \in Node, NEW s \in Slot, NEW v \in Views, NEW p \in Proposal, NEW st \in StatusType,
               CountsPrepare(m, n, s, v, p, st)
        PROVE  Kinds
    BY <2>2, <2>4 DEF Kinds, Prepares
  <2> QED
    BY SMTT(30), <1>8, <2>1, <2>3, <2>4, commitDoes
<1>9. ASSUME NEW m \in net, reply(m.to, m) PROVE Kinds /\ BallotsOK' /\ ClientOK'
  <2>1. BallotsOK' /\ ClientOK'
    BY <1>9, replyKeeps DEF TypeOK, BallotsOK, ClientOK
  <2>2. UNCHANGED <<elections, ckpt>>
    BY <1>9, replyKeeps DEF elections
  <2>3. Sends(Harmless)
    BY <1>9, replyDoes
  <2>4. CASE status' = status
    <3>1. CheckpointsGrow
      BY <2>2, CheckpointsSame
    <3> QED
      BY <2>1, <2>2, <2>3, <2>4, <3>1 DEF Kinds, Idles
  <2>5. ASSUME NEW n \in Node, NEW s \in Slot, NEW v \in Views, NEW p \in Proposal, NEW st \in StatusType,
               CountsCommit(m, n, s, v, p, st)
        PROVE  Kinds
    BY <2>2, <2>3, <2>5 DEF Kinds, Commits
  <2> QED
    BY SMTT(30), <1>9, <2>1, <2>4, <2>5, replyDoes
<1>10. ASSUME NEW m \in net, receive_ckpt_vote(m.to, m) PROVE Kinds /\ BallotsOK' /\ ClientOK'
  <2>1. ClientOK'
    BY <1>10 DEF receive_ckpt_vote, TypeOK, ClientOK
  <2> QED
    BY <1>10, <2>1, receive_ckpt_voteIdles DEF Kinds
<1>11. ASSUME NEW m \in net, receive_sync(m.to, m) PROVE Kinds /\ BallotsOK' /\ ClientOK'
  <2>1. BallotsOK' /\ ClientOK' /\ UNCHANGED elections
    BY Zenon, <1>11 DEF receive_sync, TypeOK, BallotsOK, ClientOK, elections
  <2>2. Syncs(m)
    BY <1>11, <2>1, receive_syncDoes DEF Syncs
  <2> QED
    BY SMTT(30), <1>11, <2>1, <2>2 DEF Kinds
<1>15. ASSUME NEW m \in net, receive_sync_resumes(m.to, m) PROVE Kinds /\ BallotsOK' /\ ClientOK'
  <2>1. BallotsOK' /\ ClientOK'
    BY <1>15 DEF receive_sync_resumes, TypeOK, BallotsOK, ClientOK
  <2> QED
    BY <1>15, <2>1, receive_sync_resumesIdles DEF Kinds
<1>12. ASSUME NEW m \in net, get_view_change_request(m.to, m) PROVE Kinds /\ BallotsOK' /\ ClientOK'
  <2>1. BallotsOK' /\ ClientOK'
    BY <1>12 DEF get_view_change_request, TypeOK, BallotsOK, ClientOK
  <2> QED
    BY <1>12, <2>1, get_view_change_requestDoes DEF Kinds
<1>13. ASSUME NEW m \in net, receive_view_change_vote(m.to, m) PROVE Kinds /\ BallotsOK' /\ ClientOK'
  <2>1. BallotsOK' /\ ClientOK'
    BY Zenon, <1>13 DEF receive_view_change_vote, TypeOK, BallotsOK, ClientOK
  <2> QED
    BY SMTT(30), <1>13, <2>1, receive_view_change_voteDoes DEF Kinds
<1> QED
  BY <1>1, <1>2, <1>3, <1>4, <1>5, <1>6, <1>7, <1>8, <1>9, <1>10, <1>11, <1>12, <1>13,
     <1>14, <1>15 DEF Next

-----------------------------------------------------------------------------
(* A step, seen from one slot of one node, from one message, and from the   *)
(* views.                                                                   *)

(* What one message does to the status of a slot, if it does anything. *)
Unmoved(old, new) ==
  /\ new.prepares = old.prepares /\ new.commits = old.commits
  /\ new.prepared = old.prepared /\ new.committed = old.committed

TakesPrepare(m, o, t, old, new) ==
  /\ m.type = "prepare" /\ m.slot = t
  /\ new.prepares = old.prepares \cup {<<m.view, m.prop, m.from>>}
  /\ new.commits = old.commits /\ new.committed = old.committed
  /\ \/ new.prepared = old.prepared
     \/ new.prepared = m.prop /\ m.prop # None /\ _legal_slot(o, t)

TakesCommit(m, t, old, new) ==
  /\ m.type = "commit" /\ m.slot = t /\ m.prop # None
  /\ new.commits = old.commits \cup {<<m.view, m.prop, m.from>>}
  /\ new.prepares = old.prepares /\ new.prepared = old.prepared
  /\ \/ new.committed = old.committed /\ (Majority(new.commits) => new.committed # None)
     \/ new.committed = m.prop /\ old.committed = None /\ Majority(new.commits)

TakesSync(m, t, old, new) ==
  /\ m.type = "sync"
  /\ new.prepares = old.prepares /\ new.commits = old.commits /\ new.prepared = old.prepared
  /\ old.committed = None /\ t \in DOMAIN m.prop /\ new.committed = m.prop[t]

SlotStep(o, t) ==
  LET old == status[o][t]
      new == status'[o][t]
  IN  \/ Unmoved(old, new)
      \/ \E m \in net : TakesPrepare(m, o, t, old, new)
      \/ \E m \in net : TakesCommit(m, t, old, new)
      \/ \E m \in net : TakesSync(m, t, old, new)

(* Node n starts to propose p for slot s in view v. *)
NewProposal(n, v, s, p) ==
  \/ Proposes(n, s, p) /\ v = view[n]
  \/ \E m \in net :
       LET certs == VotesWith(n, m).certs
       IN  /\ Votes(m, n) /\ TakesOver(m, n) /\ v = followView[n] /\ s <= LastSlot(certs)
           /\ p = IF s \in DOMAIN certs THEN certs[s] ELSE NoOp

Sent(k) ==
  \/ k.type \in Harmless
  \/ k.type = "reading" /\ isLeader[k.to] /\ UNCHANGED elections
  \/ k.type \in {"preprepare", "more"} /\ NewProposal(k.from, k.view, k.slot, k.prop)
  \/ FromMore(k)
  \/ /\ k.type = "prepare"
     /\ \E m \in net : m.type \in Phase /\ m.view = k.view /\ m.slot = k.slot /\ m.prop = k.prop
  \/ /\ k.type = "commit" /\ k.view >= followView[k.from] /\ _legal_slot(k.from, k.slot)
     /\ status'[k.from][k.slot].prepared = k.prop
     /\ \E m \in net : m.type \in Phase /\ m.view = k.view /\ m.slot = k.slot /\ m.prop = k.prop
  \/ /\ k.type = "sync"
     /\ \E n \in Node : \A s \in DOMAIN k.prop : k.prop[s] = status[n][s].committed /\ k.prop[s] # None
  \/ /\ k.type = "vc_vote" /\ ChangesView(k.from) /\ k.view = followView[k.from] + 1
     /\ k.slot = ckpt[k.from] /\ DOMAIN k.prop = PreparedSlots(k.from)
     /\ \A s \in PreparedSlots(k.from) : k.prop[s] = status[k.from][s].prepared

ElectionStep ==
  \/ UNCHANGED elections
  \/ \E n \in Node, s \in Slot, p \in Proposal : Proposes(n, s, p)
  \/ \E n \in Node : ChangesView(n)
  \/ \E m \in net, n \in Node :
       Votes(m, n) /\ (TakesOver(m, n) \/ UNCHANGED <<isLeader, view, nextPropose>>)

Summary ==
  /\ CheckpointsGrow
  /\ status' \in [Node -> [Slot -> StatusType]]
  /\ \A o \in Node, t \in Slot : SlotStep(o, t)
  /\ \A k \in net' : k \in net \/ (MessageOK(k) /\ Sent(k))
  /\ ElectionStep

(* Nothing is counted. *)
LEMMA HeardSlots ==
  ASSUME OnlyHeard
  PROVE  status' \in [Node -> [Slot -> StatusType]] /\ \A o \in Node, t \in Slot : SlotStep(o, t)
BY DEF OnlyHeard, SlotStep, Unmoved

(* The slots that a message does not touch do not move. *)
LEMMA OneSlotMoves ==
  ASSUME NEW n, NEW s, NEW st, Touches(n, s, st), SlotStep(n, s)
  PROVE  \A o \in Node, t \in Slot : SlotStep(o, t)
<1> SUFFICES ASSUME NEW o \in Node, NEW t \in Slot PROVE SlotStep(o, t)
  OBVIOUS
<1>1. CASE o = n /\ t = s
  BY <1>1
<1>2. CASE o # n \/ t # s
  <2>1. status'[o][t] = status[o][t]
    BY <1>2 DEF Touches
  <2>2. Unmoved(status[o][t], status'[o][t])
    BY <2>1 DEF Unmoved
  <2> QED
    BY <2>2 DEF SlotStep
<1> QED
  BY <1>1, <1>2

LEMMA StepSummary ==
  ASSUME NodesAssumption, TypeOK, Kinds
  PROVE  Summary
<1>0. /\ status \in [Node -> [Slot -> StatusType]]
      /\ (status' = status => OnlyHeard) /\ (ckpt' = ckpt => CheckpointsGrow)
  BY SameHearsOnly, CheckpointsSame DEF TypeOK
<1>1. CASE Idles
  BY <1>0, <1>1, HeardSlots DEF Idles, Sends, Sent, Summary, ElectionStep
<1>10. CASE Reads
  BY <1>0, <1>10, HeardSlots DEF Reads, Sent, Summary, ElectionStep
<1>2. ASSUME NEW n \in Node, NEW s \in Slot, NEW p \in Proposal, Proposes(n, s, p) PROVE Summary
  <2>1. ASSUME NEW k \in net', k \notin net PROVE MessageOK(k) /\ Sent(k)
    BY <1>2, <2>1 DEF Proposes, Sent, NewProposal
  <2>2. OnlyHeard /\ CheckpointsGrow
    BY <1>0, <1>2 DEF Proposes
  <2>3. ElectionStep
    BY <1>2 DEF ElectionStep
  <2> QED
    BY <2>1, <2>2, <2>3, HeardSlots DEF Summary
<1>3. ASSUME NEW m \in net, Echoes(m) PROVE Summary
  <2>1. ASSUME NEW k \in net', k \notin net PROVE MessageOK(k) /\ Sent(k)
    BY <1>3, <2>1 DEF Echoes, Sent, Phase
  <2> QED
    BY <1>0, <1>3, <2>1, HeardSlots DEF Summary, ElectionStep, Echoes
<1>4. ASSUME NEW m \in net, NEW n \in Node, NEW s \in Slot, NEW v \in Views, NEW p \in Proposal,
             NEW st \in StatusType, Prepares(m, n, s, v, p, st)
      PROVE  Summary
  <2>1. /\ CountsPrepare(m, n, s, v, p, st) /\ Touches(n, s, st) /\ UNCHANGED <<elections, ckpt>>
        /\ m.type = "prepare" /\ n = m.to /\ m.slot = s /\ m.view = v /\ m.prop = p
        /\ v >= followView[n] /\ _legal_slot(n, s)
    BY <1>4 DEF Prepares, CountsPrepare
  <2>2. ASSUME NEW k \in net', k \notin net PROVE MessageOK(k) /\ Sent(k)
    <3>1. k \in Post("commit", n, v, s, p) /\ st.prepared = p
      BY <2>1, <2>2 DEF CountsPrepare
    <3>2. k.to \in Live /\ k.type = "commit" /\ k.from = n /\ k.view = v /\ k.slot = s /\ k.prop = p
      BY <3>1, PostIs
    <3>3. status'[n][s].prepared = p
      BY <2>1, <3>1 DEF Touches
    <3>4. MessageOK(k)
      BY <3>2 DEF MessageOK, Phase, Announce
    <3>5. Sent(k)
      BY <2>1, <3>2, <3>3 DEF Sent, Phase, Announce
    <3> QED
      BY <3>4, <3>5
  <2>3. p # None
    BY SMTT(30) DEF Proposal
  <2>4. SlotStep(n, s)
    <3>1. status'[n][s] = st
      BY <2>1 DEF Touches
    <3>2. /\ st.prepares = status[n][s].prepares \cup {<<m.view, m.prop, m.from>>}
          /\ st.commits = status[n][s].commits /\ st.committed = status[n][s].committed
          /\ st.prepared = status[n][s].prepared \/ st.prepared = m.prop
      BY SMTT(30), <2>1 DEF CountsPrepare
    <3>3. TakesPrepare(m, n, s, status[n][s], st)
      BY <2>1, <2>3, <3>2 DEF TakesPrepare
    <3> QED
      BY <3>1, <3>3 DEF SlotStep
  <2>5. \A o \in Node, t \in Slot : SlotStep(o, t)
    BY <2>1, <2>4, OneSlotMoves
  <2> QED
    BY <1>0, <2>1, <2>2, <2>5 DEF Summary, ElectionStep, Touches
<1>5. ASSUME NEW m \in net, NEW n \in Node, NEW s \in Slot, NEW v \in Views, NEW p \in Proposal,
             NEW st \in StatusType, Commits(m, n, s, v, p, st)
      PROVE  Summary
  <2>1. /\ CountsCommit(m, n, s, v, p, st) /\ Touches(n, s, st) /\ UNCHANGED <<elections, ckpt>>
        /\ m.type = "commit" /\ n = m.to /\ m.slot = s /\ m.view = v /\ m.prop = p /\ Sends(Harmless)
    BY SMTT(30), <1>5 DEF Commits, CountsCommit
  <2>2. p # None
    BY DEF Proposal
  <2>3. SlotStep(n, s)
    <3>1. status'[n][s] = st
      BY <2>1 DEF Touches
    <3>2. /\ st.commits = status[n][s].commits \cup {<<m.view, m.prop, m.from>>}
          /\ st.prepares = status[n][s].prepares /\ st.prepared = status[n][s].prepared
          /\ \/ st.committed = status[n][s].committed /\ (Majority(st.commits) => st.committed # None)
             \/ st.committed = m.prop /\ status[n][s].committed = None /\ Majority(st.commits)
      BY SMTT(30), <2>1 DEF CountsCommit
    <3>3. TakesCommit(m, s, status[n][s], st)
      BY <2>1, <2>2, <3>2 DEF TakesCommit
    <3> QED
      BY <3>1, <3>3 DEF SlotStep
  <2>4. \A o \in Node, t \in Slot : SlotStep(o, t)
    BY <2>1, <2>3, OneSlotMoves
  <2> QED
    BY <1>0, <2>1, <2>4 DEF Summary, ElectionStep, Touches, Sends, Sent
<1>6. ASSUME NEW m \in net, Syncs(m) PROVE Summary
  <2>1. \A o \in Node, t \in Slot : SlotStep(o, t)
    BY <1>6 DEF Syncs, TakesCertificates, SlotStep, Unmoved, TakesSync
  <2> QED
    BY <1>6, <2>1 DEF Summary, ElectionStep, Syncs, TakesCertificates, Sends, Sent
<1>7. ASSUME NEW n \in Node, Offers(n) PROVE Summary
  <2>1. ASSUME NEW k \in net', k \notin net PROVE MessageOK(k) /\ Sent(k)
    BY <1>7, <2>1 DEF Offers, Sent
  <2> QED
    BY <1>0, <1>7, <2>1, HeardSlots DEF Summary, ElectionStep, Offers
<1>8. ASSUME NEW n \in Node, ChangesView(n) PROVE Summary
  <2>1. ASSUME NEW k \in net', k \notin net PROVE MessageOK(k) /\ Sent(k)
    <3>1. /\ MessageOK(k) /\ k.type = "vc_vote" /\ k.view = followView[n] + 1 /\ k.from = n
          /\ k.slot = ckpt[n] /\ DOMAIN k.prop = PreparedSlots(n)
          /\ \A s \in PreparedSlots(n) : k.prop[s] = status[n][s].prepared
      BY <1>8, <2>1 DEF ChangesView
    <3> QED
      BY <1>8, <3>1 DEF Sent
  <2>2. OnlyHeard /\ CheckpointsGrow
    BY <1>0, <1>8 DEF ChangesView
  <2>3. ElectionStep
    BY <1>8 DEF ElectionStep
  <2> QED
    BY <2>1, <2>2, <2>3, HeardSlots DEF Summary
<1>9. ASSUME NEW m \in net, NEW n \in Node, Votes(m, n),
             TakesOver(m, n) \/ (net' \subseteq net /\ UNCHANGED <<isLeader, view, nextPropose>>)
      PROVE  Summary
  <2>1. ASSUME NEW k \in net', k \notin net PROVE MessageOK(k) /\ Sent(k)
    <3>1. TakesOver(m, n)
      BY <1>9, <2>1
    <3>2. /\ MessageOK(k) /\ k.type \in {"preprepare", "more"}
          /\ k.from = n /\ k.view = followView[n]
          /\ k.slot <= LastSlot(VotesWith(n, m).certs)
          /\ k.prop = IF k.slot \in DOMAIN VotesWith(n, m).certs THEN VotesWith(n, m).certs[k.slot] ELSE NoOp
      BY <2>1, <3>1 DEF TakesOver
    <3>3. NewProposal(k.from, k.view, k.slot, k.prop)
      BY <1>9, <3>1, <3>2 DEF NewProposal
    <3> QED
      BY <3>2, <3>3 DEF Sent
  <2>2. OnlyHeard /\ CheckpointsGrow
    BY <1>0, <1>9 DEF Votes
  <2>3. ElectionStep
    BY <1>9 DEF ElectionStep
  <2> QED
    BY <2>1, <2>2, <2>3, HeardSlots DEF Summary
<1> QED
  BY <1>1, <1>2, <1>3, <1>4, <1>5, <1>6, <1>7, <1>8, <1>9, <1>10 DEF Kinds

-----------------------------------------------------------------------------
(* What no step undoes, and what is new after one. *)

LEMMA SlotsGrow ==
  ASSUME Summary
  PROVE  \A o \in Node, t \in Slot : Grows(status[o][t], status'[o][t])
<1>1. ASSUME NEW o \in Node, NEW t \in Slot PROVE Grows(status[o][t], status'[o][t])
  <2>1. status'[o][t] \in StatusType /\ SlotStep(o, t)
    BY DEF Summary
  <2> QED
    BY Zenon, <2>1 DEF SlotStep, Unmoved, TakesPrepare, TakesCommit, TakesSync, Grows
<1> QED
  BY SMTT(30), <1>1

Announced(v, s, p) ==
  /\ \E n \in Node : NewProposal(n, v, s, p)
  /\ \E k \in net' \ net : k.prop = p

LEMMA ProposedStep ==
  ASSUME TypeOK, Summary, NEW v, NEW s \in Slot, NEW p \in Proposed(v, s)'
  PROVE  p \in Proposed(v, s) \/ Announced(v, s, p)
<1>1. \A m \in net : m.type \in Phase /\ m.view = v /\ m.slot = s /\ m.prop = p => p \in Proposed(v, s)
  BY ProposedIs
<1>2. ASSUME NEW k \in net', k.type \in Phase, k.view = v, k.slot = s, k.prop = p
      PROVE  p \in Proposed(v, s) \/ Announced(v, s, p)
  <2>1. k \in net \/ (k \notin net /\ Sent(k) /\ k.from \in Node)
    BY DEF Summary, MessageOK
  <2>2. CASE k \in net
    BY <1>1, <1>2, <2>2
  <2>3. ASSUME k \notin net, k.type \in {"preprepare", "more"} PROVE Announced(v, s, p)
    <3>1. NewProposal(k.from, v, s, p) /\ k.from \in Node
      BY <1>2, <2>1, <2>3 DEF Sent, Harmless, FromMore
    <3> QED
      BY <1>2, <2>3, <3>1 DEF Announced
  <2>4. ASSUME k \notin net, k.type \notin {"preprepare", "more"} PROVE p \in Proposed(v, s)
    <3>1. \E m \in net : m.type \in Phase /\ m.view = v /\ m.slot = s /\ m.prop = p
      <4>1. k.type \in {"slots", "prepare", "commit"}
        BY <1>2, <2>4 DEF Phase, Announce
      <4> QED
        BY <1>2, <2>1, <2>4, <4>1 DEF Sent, Harmless, FromMore, Phase, Announce
    <3> QED
      BY <1>1, <3>1
  <2> QED
    BY <2>1, <2>2, <2>3, <2>4
<1>3. ASSUME NEW n \in Node, NEW c \in status'[n][s].prepares \cup status'[n][s].commits, c[1] = v, c[2] = p
      PROVE  p \in Proposed(v, s)
  <2>1. SlotStep(n, s)
    BY DEF Summary
  <2>2. \/ c \in status[n][s].prepares \cup status[n][s].commits
        \/ \E m \in net : m.type \in Phase /\ m.slot = s /\ c = <<m.view, m.prop, m.from>>
    BY Zenon, <1>3, <2>1 DEF SlotStep, Unmoved, TakesPrepare, TakesCommit, TakesSync, Phase, Announce
  <2> QED
    BY <1>1, <1>3, <2>2, ProposedIs
<1> QED
  BY <1>2, <1>3, ProposedIs

LEMMA CommitsSentStep ==
  ASSUME TypeOK, Summary, NEW n, NEW v, NEW s \in Slot, NEW p \in CommitsSent(n, v, s)'
  PROVE  \/ p \in CommitsSent(n, v, s)
         \/ /\ n \in Node /\ v >= followView[n] /\ _legal_slot(n, s)
            /\ status'[n][s].prepared = p /\ p \in Proposed(v, s) /\ p # None
<1>1. ASSUME NEW k \in net', k.type = "commit", k.from = n, k.view = v, k.slot = s, k.prop = p, k \notin net
      PROVE  /\ n \in Node /\ v >= followView[n] /\ _legal_slot(n, s)
             /\ status'[n][s].prepared = p /\ p \in Proposed(v, s) /\ p # None
  <2>1. MessageOK(k) /\ Sent(k)
    BY <1>1 DEF Summary
  <2>2. /\ v >= followView[n] /\ _legal_slot(n, s) /\ status'[n][s].prepared = p
        /\ \E m \in net : m.type \in Phase /\ m.view = v /\ m.slot = s /\ m.prop = p
    BY <1>1, <2>1 DEF Sent, Harmless, FromMore
  <2>3. n \in Node /\ p # None
    BY <1>1, <2>1 DEF MessageOK, Phase, Announce, Proposal
  <2> QED
    BY <2>2, <2>3, ProposedIs
<1>2. ASSUME NEW o \in Node, NEW c \in status'[o][s].commits, c[1] = v, c[2] = p, c[3] = n
      PROVE  p \in CommitsSent(n, v, s)
  <2>1. SlotStep(o, s)
    BY DEF Summary
  <2>2. \/ c \in status[o][s].commits
        \/ \E m \in net : m.type = "commit" /\ m.slot = s /\ c = <<m.view, m.prop, m.from>>
    BY Zenon, <1>2, <2>1 DEF SlotStep, Unmoved, TakesPrepare, TakesCommit, TakesSync
  <2> QED
    BY <1>2, <2>2, CommitsSentIs
<1>3. (\E k \in net : k.type = "commit" /\ k.from = n /\ k.view = v /\ k.slot = s /\ k.prop = p)
        => p \in CommitsSent(n, v, s)
  BY CommitsSentIs
<1> QED
  BY <1>1, <1>2, <1>3, CommitsSentIs

ViewsTyped ==
  /\ followView \in [Node -> Views] /\ view \in [Node -> Views]
  /\ isLeader \in [Node -> BOOLEAN] /\ nextPropose \in [Node -> Nat] /\ VotesOK

LEMMA ViewsTypedStep ==
  ASSUME NodesAssumption, TypeOK, Summary
  PROVE  ViewsTyped'
<1>0. ViewsTyped
  BY DEF TypeOK, ViewsTyped
<1>1. CASE UNCHANGED elections
  BY <1>0, <1>1 DEF elections, VotesOK, ViewsTyped
<1>2. ASSUME NEW n \in Node, NEW s \in Slot, NEW p \in Proposal, Proposes(n, s, p) PROVE ViewsTyped'
  <2>1. s + 1 \in Nat
    BY DEF Slot
  <2> QED
    BY <1>0, <1>2, <2>1 DEF Proposes, VotesOK, ViewsTyped
<1>3. ASSUME NEW n \in Node, ChangesView(n) PROVE ViewsTyped'
  BY <1>0, <1>3 DEF ChangesView, VotesOK, ViewsTyped
<1>4. ASSUME NEW m \in net, NEW n \in Node, Votes(m, n),
             TakesOver(m, n) \/ UNCHANGED <<isLeader, view, nextPropose>>
      PROVE  ViewsTyped'
  <2>1. m.type = "vc_vote" /\ m.view \in Views
    BY <1>4 DEF Votes, TypeOK, MessageOK
  <2>2. PICK w : w = VotesWith(n, m)
    OBVIOUS
  <2>3. w.from \subseteq Node /\ Certificates(w.certs)
    BY <2>1, <2>2, VotesWithIs
  <2>4. vcVotes' = [vcVotes EXCEPT ![n][m.view] = w] /\ followView' = followView
    BY <1>4, <2>2 DEF Votes
  <2>5. VotesOK'
    BY <1>0, <2>1, <2>3, <2>4 DEF VotesOK, ViewsTyped
  <2>6. CASE TakesOver(m, n)
    <3>1. PICK x : x = LastSlot(w.certs) + 1
      OBVIOUS
    <3>2. x \in Nat
      BY <2>3, <3>1, LastSlotIsLast DEF Certificates
    <3>3. /\ isLeader' = [isLeader EXCEPT ![n] = TRUE]
          /\ view' = [view EXCEPT ![n] = followView[n]]
          /\ nextPropose' = [nextPropose EXCEPT ![n] = x]
      BY <2>2, <2>6, <3>1 DEF TakesOver
    <3> QED
      BY <1>0, <2>4, <2>5, <3>2, <3>3 DEF ViewsTyped
  <2>7. CASE UNCHANGED <<isLeader, view, nextPropose>>
    BY <1>0, <2>4, <2>5, <2>7 DEF ViewsTyped
  <2> QED
    BY <1>4, <2>6, <2>7
<1> QED
  BY <1>1, <1>2, <1>3, <1>4 DEF Summary, ElectionStep

LEMMA TypeStep ==
  ASSUME NodesAssumption, TypeOK, Summary, BallotsOK', ClientOK'
  PROVE  TypeOK'
<1>1. ViewsTyped'
  BY ViewsTypedStep
<1>2. status' \in [Node -> [Slot -> StatusType]]
  BY DEF Summary
<1>3. DOMAIN ckpt' = Node /\ \A n \in Node : ckpt'[n].next \in Nat
  BY DEF Summary, CheckpointsGrow
<1>4. \A m \in net' : MessageOK(m)
  BY DEF Summary, TypeOK
<1> QED
  BY <1>1, <1>2, <1>3, <1>4 DEF TypeOK, ViewsTyped

-----------------------------------------------------------------------------
(* The leaders of the two views. *)

LEMMA SmallRemainders ==
  ASSUME NodesAssumption
  PROVE  0 % N = 0 /\ 1 % N = 1 /\ 0 \in Node /\ 1 \in Node
<1>1. N \in Nat /\ N > 3
  OBVIOUS
<1> QED
  BY <1>1 DEF Node

LEMMA FollowsTwo ==
  ASSUME NodesAssumption, OneChange, TypeOK
  PROVE  \A n \in Node : followView[n] \in Views /\ followView[n] \in {0, 1}
<1> SUFFICES ASSUME NEW n \in Node PROVE followView[n] \in Views /\ followView[n] \in {0, 1}
  OBVIOUS
<1>1. followView[n] \in Views /\ followView[n] <= 1
  BY DEF OneChange, TypeOK
<1>2. followView[n] \in Int /\ followView[n] >= 0
  BY <1>1 DEF Views
<1> QED
  BY <1>1, <1>2

(* Only node 1 takes over, for view 1, and by votes for view 1. *)
LEMMA WhoTakesOver ==
  ASSUME NodesAssumption, OneChange, TypeOK, FirstViews, OneLeader, NEW m \in net, NEW n \in Node,
         Votes(m, n), TakesOver(m, n)
  PROVE  n = 1 /\ followView[1] = 1 /\ ~isLeader[1] /\ m.view = 1 /\ 1 \in Views
<1>1. followView[n] \in Views /\ followView[n] \in {0, 1} /\ n \in Nat
  BY FollowsTwo DEF Node
<1>2. followView[n] % N = n /\ ~isLeader[n] /\ m.view \in Views \ {0}
  BY DEF TakesOver, Votes, TypeOK, MessageOK
<1>3. followView[n] # 0
  BY <1>1, <1>2, SmallRemainders DEF OneLeader
<1>4. n = 1
  BY <1>1, <1>2, <1>3, SmallRemainders
<1>5. m.view <= 1
  BY DEF FirstViews, Votes
<1> QED
  BY <1>1, <1>2, <1>3, <1>4, <1>5 DEF Views

(* Node 0 proposes in view 0, node 1 in view 1, nobody else does. *)
LEMMA WhoProposes ==
  ASSUME OneLeader, NEW n \in Node, NEW s, NEW p, Proposes(n, s, p)
  PROVE  n \in {0, 1} /\ view[n] = n /\ (n = 1 => isLeader[1])
<1>1. PICK m \in net : m.type = "reading" /\ m.to = n
  BY DEF Proposes
<1>2. n = 0 \/ (n = 1 /\ isLeader[1])
  BY <1>1 DEF OneLeader
<1> QED
  BY <1>2 DEF OneLeader

(* The same of a leader that takes over. *)
LEMMA WhoAnnounces ==
  ASSUME NodesAssumption, OneChange, TypeOK, FirstViews, OneLeader,
         NEW n \in Node, NEW v, NEW s, NEW p, NewProposal(n, v, s, p)
  PROVE  v = n /\ v \in {0, 1}
<1>1. CASE Proposes(n, s, p) /\ v = view[n]
  BY <1>1, WhoProposes
<1>2. CASE ~(Proposes(n, s, p) /\ v = view[n])
  <2>1. PICK m \in net : Votes(m, n) /\ TakesOver(m, n) /\ v = followView[n]
    BY <1>2 DEF NewProposal
  <2> QED
    BY <2>1, WhoTakesOver
<1> QED
  BY <1>1, <1>2

(* What the views keep: nobody goes back to an earlier view, a leader of     *)
(* view 1 stays one, and a leader proposes for ever later slots.             *)
ViewsGrow ==
  /\ \A n \in Node : followView[n] <= followView'[n]
  /\ nextPropose[0] <= nextPropose'[0]
  /\ isLeader[1] => isLeader'[1] /\ nextPropose[1] <= nextPropose'[1]

(* Who leads, whatever is under way. *)
Leaders ==
  /\ view[0] = 0 /\ (followView[0] = 0 => isLeader[0])
  /\ \A n \in Node : isLeader[n] => /\ n = 0 => followView[n] = 0
                                    /\ n # 0 => n = 1 /\ followView[n] = 1 /\ view[n] = 1

LEMMA LeadersStep ==
  ASSUME NodesAssumption, OneChange, OneChange', TypeOK, FirstViews, OneLeader, Summary
  PROVE  Leaders' /\ ViewsGrow
<1>0. /\ followView \in [Node -> Views] /\ view \in [Node -> Views]
      /\ isLeader \in [Node -> BOOLEAN] /\ nextPropose \in [Node -> Nat]
      /\ 0 \in Node /\ 1 \in Node /\ \A n \in Node : followView[n] \in {0, 1}
  BY SmallRemainders, FollowsTwo DEF TypeOK
<1>6. Leaders
  BY DEF OneLeader, Leaders
<1>1. CASE UNCHANGED elections
  BY <1>0, <1>1, <1>6 DEF elections, Leaders, ViewsGrow
<1>2. ASSUME NEW n \in Node, NEW s \in Slot, NEW p \in Proposal, Proposes(n, s, p)
      PROVE  Leaders' /\ ViewsGrow
  <2>1. s \in Nat /\ s = nextPropose[n] /\ nextPropose' = [nextPropose EXCEPT ![n] = s + 1]
        /\ UNCHANGED <<followView, view, isLeader>>
    BY <1>2 DEF Proposes, Slot
  <2>2. nextPropose[0] <= nextPropose'[0] /\ nextPropose[1] <= nextPropose'[1]
    BY <1>0, <2>1
  <2> QED
    BY <1>0, <1>6, <2>1, <2>2 DEF Leaders, ViewsGrow
<1>3. ASSUME NEW n \in Node, ChangesView(n) PROVE Leaders' /\ ViewsGrow
  <2>1. /\ followView[n] + 1 \in Views /\ followView' = [followView EXCEPT ![n] = @ + 1]
        /\ isLeader' = [isLeader EXCEPT ![n] = FALSE] /\ UNCHANGED <<view, nextPropose>>
    BY <1>3 DEF ChangesView
  <2>2. followView[n] = 0 /\ followView'[n] = 1
    <3>1. followView'[n] = followView[n] + 1 /\ followView'[n] <= 1
      BY <1>0, <2>1 DEF OneChange
    <3> QED
      BY <1>0, <3>1
  <2>3. \A o \in Node : o # n => followView'[o] = followView[o] /\ isLeader'[o] = isLeader[o]
    BY <1>0, <2>1
  <2>4. isLeader'[n] = FALSE
    BY <1>0, <2>1
  <2>5. isLeader[1] => n # 1
    BY <1>6, <2>2, SmallRemainders DEF Leaders
  <2>6. Leaders'
    BY <1>0, <1>6, <2>1, <2>2, <2>3, <2>4 DEF Leaders
  <2>7. ViewsGrow
    BY <1>0, <2>1, <2>2, <2>3, <2>5 DEF ViewsGrow
  <2> QED
    BY <2>6, <2>7
<1>4. ASSUME NEW m \in net, NEW n \in Node, Votes(m, n), TakesOver(m, n) PROVE Leaders' /\ ViewsGrow
  <2>1. n = 1 /\ followView[1] = 1 /\ ~isLeader[1]
    BY <1>4, WhoTakesOver
  <2>2. PICK x : x = LastSlot(VotesWith(n, m).certs) + 1
    OBVIOUS
  <2>3. /\ isLeader' = [isLeader EXCEPT ![1] = TRUE] /\ view' = [view EXCEPT ![1] = 1]
        /\ nextPropose' = [nextPropose EXCEPT ![1] = x] /\ followView' = followView
    BY <1>4, <2>1, <2>2 DEF TakesOver, Votes
  <2> QED
    BY <1>0, <1>6, <2>1, <2>3 DEF Leaders, ViewsGrow
<1>5. ASSUME NEW m \in net, NEW n \in Node, Votes(m, n), UNCHANGED <<isLeader, view, nextPropose>>
      PROVE  Leaders' /\ ViewsGrow
  <2>1. UNCHANGED followView
    BY <1>5 DEF Votes
  <2> QED
    BY <1>0, <1>5, <1>6, <2>1 DEF Leaders, ViewsGrow
<1> QED
  BY <1>1, <1>2, <1>3, <1>4, <1>5 DEF Summary, ElectionStep

LEMMA OneLeaderStep ==
  ASSUME NodesAssumption, OneChange, OneChange', TypeOK, FirstViews, OneLeader, Summary
  PROVE  OneLeader' /\ ViewsGrow
<1>1. Leaders' /\ ViewsGrow
  BY LeadersStep
<1>2. ASSUME NEW m \in net'
      PROVE  /\ m.type = "reading" => m.to = 0 \/ (m.to = 1 /\ isLeader'[1])
             /\ m.type \in Announce => m.from = m.view
  <2>1. CASE m \in net
    BY <1>1, <2>1 DEF OneLeader, ViewsGrow
  <2>2. ASSUME m \notin net, m.type = "reading" PROVE m.to = 0 \/ (m.to = 1 /\ isLeader'[1])
    <3>1. MessageOK(m) /\ isLeader[m.to] /\ UNCHANGED elections
      BY <2>2 DEF Summary, Sent, Harmless, FromMore
    <3>2. m.to \in Node
      BY <3>1 DEF MessageOK
    <3> QED
      BY <3>1, <3>2 DEF OneLeader, elections
  <2>3. ASSUME m \notin net, m.type \in Announce PROVE m.from = m.view
    <3>1. MessageOK(m) /\ Sent(m)
      BY <2>3 DEF Summary
    <3>2. CASE FromMore(m)
      BY <3>2 DEF FromMore, OneLeader, Announce
    <3>3. CASE ~FromMore(m)
      <4>1. NewProposal(m.from, m.view, m.slot, m.prop) /\ m.from \in Node
        BY <2>3, <3>1, <3>3 DEF Sent, Harmless, Announce, MessageOK
      <4> QED
        BY <4>1, WhoAnnounces
    <3> QED
      BY <3>2, <3>3
  <2> QED
    BY <2>1, <2>2, <2>3
<1> QED
  <2>1. (\A m \in net :
           /\ m.type = "reading" => m.to = 0 \/ (m.to = 1 /\ isLeader[1])
           /\ m.type \in Announce => m.from = m.view)'
    BY <1>2
  <2>2. (view[0] = 0 /\ (followView[0] = 0 => isLeader[0]))'
    BY <1>1 DEF Leaders
  <2>3. (\A n \in Node :
           isLeader[n] => /\ n = 0 => followView[n] = 0
                          /\ n # 0 => n = 1 /\ followView[n] = 1 /\ view[n] = 1)'
    BY <1>1 DEF Leaders
  <2>4. OneLeader'
    BY <2>1, <2>2, <2>3 DEF OneLeader
  <2> QED
    BY <1>1, <2>4

LEMMA FirstViewsStep ==
  ASSUME NodesAssumption, OneChange, OneChange', TypeOK, FirstViews, OneLeader, Summary
  PROVE  FirstViews'
<1>1. ASSUME NEW m \in net', m.type \in Phase \cup {"vc_vote"} PROVE m.view <= 1
  <2>1. CASE m \in net
    BY <1>1, <2>1 DEF FirstViews
  <2>2. ASSUME m \notin net PROVE MessageOK(m) /\ Sent(m) /\ m.from \in Node
    BY <2>2 DEF Summary, MessageOK
  <2>3. ASSUME m \notin net, m.type \in {"preprepare", "more"} PROVE m.view <= 1
    <3>1. NewProposal(m.from, m.view, m.slot, m.prop)
      BY <2>2, <2>3 DEF Sent, Harmless, FromMore
    <3> QED
      BY <2>2, <2>3, <3>1, WhoAnnounces
  <2>4. ASSUME m \notin net, m.type \in {"slots", "prepare", "commit"} PROVE m.view <= 1
    <3>1. \E j \in net : j.type \in Phase /\ j.view = m.view
      BY <2>2, <2>4 DEF Sent, Harmless, FromMore, Phase, Announce
    <3> QED
      BY <3>1 DEF FirstViews
  <2>5. ASSUME m \notin net, m.type = "vc_vote" PROVE m.view <= 1
    <3>1. m.from \in Node /\ ChangesView(m.from) /\ m.view = followView[m.from] + 1
      BY <2>2, <2>5 DEF Sent, Harmless, FromMore
    <3>2. followView'[m.from] = m.view
      BY <3>1 DEF ChangesView, TypeOK
    <3> QED
      BY <3>1, <3>2 DEF OneChange
  <2> QED
    BY <1>1, <2>1, <2>3, <2>4, <2>5 DEF Phase, Announce
<1>2. ASSUME NEW n \in Node, NEW s \in Slot, NEW c \in status'[n][s].prepares \cup status'[n][s].commits
      PROVE  c[1] <= 1
  <2>1. SlotStep(n, s)
    BY DEF Summary
  <2>2. \/ c \in status[n][s].prepares \cup status[n][s].commits
        \/ \E m \in net : m.type \in Phase /\ c = <<m.view, m.prop, m.from>>
    BY Zenon, <1>2, <2>1 DEF SlotStep, Unmoved, TakesPrepare, TakesCommit, TakesSync, Phase
  <2> QED
    BY <2>2 DEF FirstViews
<1> QED
  BY <1>1, <1>2 DEF FirstViews

-----------------------------------------------------------------------------
(* One proposal for a slot of a view. *)

(* A leader announces one proposal for a slot, which had none. *)
LEMMA AnnouncedIs ==
  ASSUME NodesAssumption, OneChange, TypeOK, FirstViews, OneLeader, OneProposal, Summary,
         NEW v \in {0, 1}, NEW s \in Slot, NEW p, Announced(v, s, p)
  PROVE  /\ Proposed(v, s) = {}
         /\ v = 0 => s < nextPropose'[0]
         /\ v = 1 => isLeader'[1] /\ s < nextPropose'[1] /\ (isLeader[1] => s >= nextPropose[1])
         /\ \A q : Announced(v, s, q) => q = p
<1>0. /\ isLeader \in [Node -> BOOLEAN] /\ nextPropose \in [Node -> Nat] /\ s \in Nat
      /\ 0 \in Node /\ 1 \in Node
  BY SmallRemainders DEF TypeOK, Slot
<1>1. /\ v = 0 /\ Proposed(v, s) # {} => s < nextPropose[0]
      /\ v = 1 /\ Proposed(v, s) # {} => isLeader[1] /\ s < nextPropose[1]
  BY DEF OneProposal
<1>2. ASSUME NEW n \in Node, Proposes(n, s, p), v = view[n]
      PROVE  /\ Proposed(v, s) = {}
             /\ v = 0 => s < nextPropose'[0]
             /\ v = 1 => isLeader'[1] /\ s < nextPropose'[1] /\ s >= nextPropose[1]
             /\ \A q : Announced(v, s, q) => q = p
  <2>1. /\ s = nextPropose[n] /\ nextPropose' = [nextPropose EXCEPT ![n] = s + 1]
        /\ isLeader' = isLeader
    BY <1>2 DEF Proposes
  <2>2. n = v /\ (n = 1 => isLeader[1])
    BY <1>2, WhoProposes
  <2>3. nextPropose'[n] = s + 1
    BY <1>0, <2>1
  <2>4. n = 1 => isLeader'[1]
    BY <2>1, <2>2
  <2>5. Proposed(v, s) = {}
    BY <1>0, <1>1, <2>1, <2>2
  <2>6. ASSUME NEW q, Announced(v, s, q) PROVE q = p
    <3>1. PICK k \in net' \ net : k.prop = q
      BY <2>6 DEF Announced
    <3> QED
      BY <1>2, <3>1 DEF Proposes
  <2> QED
    BY <1>0, <2>1, <2>2, <2>3, <2>4, <2>5, <2>6
<1>3. ASSUME NEW m \in net, NEW n \in Node, Votes(m, n), TakesOver(m, n), v = followView[n],
             s <= LastSlot(VotesWith(n, m).certs),
             p = IF s \in DOMAIN VotesWith(n, m).certs THEN VotesWith(n, m).certs[s] ELSE NoOp
      PROVE  /\ Proposed(v, s) = {} /\ v = 1
             /\ isLeader'[1] /\ s < nextPropose'[1] /\ ~isLeader[1]
             /\ \A q : Announced(v, s, q) => q = p
  <2>1. n = 1 /\ v = 1 /\ ~isLeader[1] /\ m.view = 1 /\ 1 \in Views
    BY <1>3, WhoTakesOver
  <2>2. PICK w : w = VotesWith(1, m)
    OBVIOUS
  <2>3. m.type = "vc_vote" /\ vcVotes' = [vcVotes EXCEPT ![1][1] = w]
    BY <1>3, <2>1, <2>2 DEF Votes
  <2>4. DOMAIN vcVotes = Node /\ DOMAIN vcVotes[1] = Views
    BY <1>0 DEF TypeOK, VotesOK
  <2>5. vcVotes'[1][1] = w
    BY <1>0, <2>1, <2>3, <2>4
  <2>6. LastSlot(w.certs) \in Int
    BY <1>0, <2>2, <2>3, VotesWithIs, LastSlotIsLast DEF Certificates
  <2>7. isLeader'[1] /\ nextPropose'[1] = LastSlot(w.certs) + 1
    BY <1>0, <1>3, <2>1, <2>2 DEF TakesOver
  <2>8. s < nextPropose'[1]
    BY <1>0, <1>3, <2>1, <2>2, <2>6, <2>7
  <2>9. Proposed(v, s) = {}
    BY <1>1, <2>1
  <2>10. ASSUME NEW q, Announced(v, s, q) PROVE q = p
    <3>1. ASSUME NEW o \in Node, Proposes(o, s, q), v = view[o] PROVE FALSE
      <4>1. o = 1 /\ isLeader[1]
        BY <2>1, <3>1, WhoProposes
      <4> QED
        BY <2>1, <4>1
    <3>2. ASSUME NEW m2 \in net, NEW o \in Node, Votes(m2, o), TakesOver(m2, o),
                 q = IF s \in DOMAIN VotesWith(o, m2).certs THEN VotesWith(o, m2).certs[s] ELSE NoOp
          PROVE  q = p
      <4>1. o = 1 /\ m2.view = 1
        BY <3>2, WhoTakesOver
      <4>2. vcVotes' = [vcVotes EXCEPT ![1][1] = VotesWith(1, m2)]
        BY <3>2, <4>1 DEF Votes
      <4>3. vcVotes'[1][1] = VotesWith(1, m2)
        BY <1>0, <2>1, <2>4, <4>2
      <4> QED
        BY <1>3, <2>1, <2>2, <2>5, <3>2, <4>1, <4>3
    <3> QED
      BY <2>10, <3>1, <3>2 DEF Announced, NewProposal
  <2> QED
    BY <2>1, <2>7, <2>8, <2>9, <2>10
<1>4. \E n \in Node : NewProposal(n, v, s, p)
  BY DEF Announced
<1>5. (\E n \in Node : Proposes(n, s, p) /\ v = view[n]) => (v = 1 => s >= nextPropose[1])
  BY <1>2
<1> QED
  BY <1>2, <1>3, <1>4 DEF NewProposal

LEMMA OneProposalStep ==
  ASSUME NodesAssumption, OneChange, OneChange', TypeOK, FirstViews, OneLeader, OneProposal, Summary
  PROVE  OneProposal'
<1>1. ASSUME NEW v \in {0, 1}, NEW s \in Slot
      PROVE  /\ \A p, q \in Proposed(v, s)' : p = q
             /\ Proposed(v, s)' # {} => /\ v = 0 => s < nextPropose'[0]
                                        /\ v = 1 => isLeader'[1] /\ s < nextPropose'[1]
  <2>1. \A p \in Proposed(v, s)' : p \in Proposed(v, s) \/ Announced(v, s, p)
    BY ProposedStep
  <2>2. /\ \A p, q \in Proposed(v, s) : p = q
        /\ Proposed(v, s) # {} => /\ v = 0 => s < nextPropose[0]
                                  /\ v = 1 => isLeader[1] /\ s < nextPropose[1]
    BY DEF OneProposal
  <2>3. \A p : Announced(v, s, p) =>
           /\ Proposed(v, s) = {}
           /\ v = 0 => s < nextPropose'[0]
           /\ v = 1 => isLeader'[1] /\ s < nextPropose'[1]
           /\ \A q : Announced(v, s, q) => q = p
    BY AnnouncedIs
  <2>4. /\ nextPropose[0] <= nextPropose'[0]
        /\ isLeader[1] => isLeader'[1] /\ nextPropose[1] <= nextPropose'[1]
    BY OneLeaderStep DEF ViewsGrow
  <2>5. s \in Nat /\ nextPropose[0] \in Nat /\ nextPropose[1] \in Nat
    BY SmallRemainders DEF TypeOK, Slot
  <2>6. nextPropose'[0] \in Int /\ nextPropose'[1] \in Int
    BY SmallRemainders, ViewsTypedStep DEF ViewsTyped
  <2>7. \A p, q \in Proposed(v, s)' : p = q
    BY <2>1, <2>2, <2>3
  <2>8. ASSUME NEW p \in Proposed(v, s)'
        PROVE  /\ v = 0 => s < nextPropose'[0]
               /\ v = 1 => isLeader'[1] /\ s < nextPropose'[1]
    <3>1. CASE p \in Proposed(v, s)
      BY <2>2, <2>4, <2>5, <2>6, <3>1
    <3>2. CASE Announced(v, s, p)
      BY <2>3, <3>2
    <3> QED
      BY <2>1, <3>1, <3>2
  <2> QED
    BY <2>7, <2>8
<1> QED
  BY <1>1 DEF OneProposal

-----------------------------------------------------------------------------
(* What backs a certificate stays. *)

LEMMA BackingStays ==
  ASSUME NodesAssumption, TypeOK, Summary, NEW s \in Slot, NEW p
  PROVE  /\ PrepareCounted(s, p) => PrepareCounted(s, p)'
         /\ CommitCounted(s, p) => CommitCounted(s, p)'
<1>1. \A n \in Node : Grows(status[n][s], status'[n][s])
  BY SlotsGrow
<1>2. PrepareCounted(s, p) => PrepareCounted(s, p)'
  BY <1>1 DEF PrepareCounted, Grows
<1>3. ASSUME CommitCounted(s, p) PROVE CommitCounted(s, p)'
  <2>1. PICK n \in Node : \E c \in status[n][s].commits :
          c[2] = p /\ Cardinality(Group(status[n][s].commits, c[1], p)) >= 2 * f + 1
    BY <1>3, CommitCountedIsGroup
  <2>2. PICK c \in status[n][s].commits :
          c[2] = p /\ Cardinality(Group(status[n][s].commits, c[1], p)) >= 2 * f + 1
    BY <2>1
  <2>3. /\ status[n][s].commits \in Counts /\ status'[n][s].commits \in Counts
        /\ status[n][s].commits \subseteq status'[n][s].commits
    BY <1>1 DEF TypeOK, StatusType, Grows
  <2>4. Cardinality(Group(status'[n][s].commits, c[1], p)) >= 2 * f + 1
    BY <2>2, <2>3, GroupGrows
  <2> QED
    BY <2>2, <2>3, <2>4, CommitCountedIsGroup
<1> QED
  BY <1>2, <1>3

(* The first quorum of commits is one for the proposal of the last commit. *)
LEMMA FirstQuorum ==
  ASSUME NodesAssumption, TypeOK, NEW C, NEW v, NEW p, NEW a, ~Majority(C),
         Majority(C \cup {<<v, p, a>>})
  PROVE  Cardinality(Group(C \cup {<<v, p, a>>}, v, p)) >= 2 * f + 1
<1> DEFINE D == C \cup {<<v, p, a>>}
<1>1. PICK c \in D : Cardinality(Group(D, c[1], c[2])) >= 2 * f + 1
  BY MajorityIsGroup
<1>2. CASE c[1] = v /\ c[2] = p
  BY <1>1, <1>2
<1>3. CASE ~(c[1] = v /\ c[2] = p)
  <2>1. c \in C
    BY <1>3
  <2>2. Group(D, c[1], c[2]) = Group(C, c[1], c[2])
    BY <1>3 DEF Group
  <2>3. Majority(C)
    BY <1>1, <2>1, <2>2, MajorityIsGroup
  <2> QED
    BY <2>3
<1> QED
  BY <1>2, <1>3

LEMMA CertificatesBackedStep ==
  ASSUME NodesAssumption, TypeOK, CertificatesBacked, SyncsBacked, Summary
  PROVE  CertificatesBacked'
<1> DEFINE Backed(n, s) ==
             /\ status[n][s].prepared # None => /\ s < Upperbound(ckpt[n])
                                                /\ \E c \in status[n][s].prepares : c[2] = status[n][s].prepared
             /\ status[n][s].committed # None => CommitCounted(s, status[n][s].committed)
             /\ Majority(status[n][s].commits) => status[n][s].committed # None
             /\ CommitsSent(n, 0, s) # {} => status[n][s].prepared # None
<1> SUFFICES ASSUME NEW n \in Node, NEW s \in Slot PROVE Backed(n, s)'
  BY DEF CertificatesBacked
<1> DEFINE old == status[n][s]
           new == status'[n][s]
<1>1. /\ old.prepared # None => /\ s < Upperbound(ckpt[n])
                                /\ \E c \in old.prepares : c[2] = old.prepared
      /\ old.committed # None => CommitCounted(s, old.committed)
      /\ Majority(old.commits) => old.committed # None
      /\ CommitsSent(n, 0, s) # {} => old.prepared # None
  BY DEF CertificatesBacked
<1>2. SlotStep(n, s) /\ Grows(old, new)
  BY SlotsGrow DEF Summary
<1>3. s < Upperbound(ckpt[n]) => s < Upperbound(ckpt'[n])
  <2>1. ckpt[n].next \in Nat /\ ckpt'[n].next \in Nat /\ ckpt[n].next <= ckpt'[n].next
    BY SMTT(30) DEF Summary, CheckpointsGrow, TypeOK
  <2> QED
    BY <2>1 DEF Upperbound, Slot
<1>4. new.prepared # None => /\ s < Upperbound(ckpt'[n])
                             /\ \E c \in new.prepares : c[2] = new.prepared
  <2>1. CASE new.prepared = old.prepared
    BY <1>1, <1>2, <1>3, <2>1 DEF Grows
  <2>2. ASSUME NEW m \in net, new.prepared = m.prop, _legal_slot(n, s),
               new.prepares = old.prepares \cup {<<m.view, m.prop, m.from>>}
        PROVE  /\ s < Upperbound(ckpt'[n])
               /\ \E c \in new.prepares : c[2] = new.prepared
    <3>1. <<m.view, m.prop, m.from>> \in new.prepares
      BY <2>2
    <3>2. <<m.view, m.prop, m.from>>[2] = new.prepared
      BY <2>2
    <3>3. s < Upperbound(ckpt[n])
      BY SMTT(30), <2>2 DEF _legal_slot
    <3> QED
      BY <1>3, <3>1, <3>2, <3>3
  <2> QED
    BY Zenon, <1>2, <2>1, <2>2 DEF SlotStep, Unmoved, TakesPrepare, TakesCommit, TakesSync
<1>5. /\ \A p : p = new.committed /\ p # None => CommitCounted(s, p)'
      /\ Majority(new.commits) => new.committed # None
  <2>1. CASE new.committed = old.committed
    <3>1. \A p : p = new.committed /\ p # None => CommitCounted(s, p)'
      BY <1>1, <2>1, BackingStays
    <3>2. Majority(new.commits) => new.committed # None
      BY Zenon, <1>1, <1>2, <2>1 DEF SlotStep, Unmoved, TakesPrepare, TakesCommit, TakesSync
    <3> QED
      BY <3>1, <3>2
  <2>2. ASSUME NEW m \in net, new.commits = old.commits \cup {<<m.view, m.prop, m.from>>},
               new.committed = m.prop, m.prop # None, old.committed = None, Majority(new.commits)
        PROVE  new.committed # None /\ \A p : p = new.committed => CommitCounted(s, p)'
    <3>1. ~Majority(old.commits)
      BY <1>1, <2>2
    <3>2. PICK v, p, a : v = m.view /\ p = m.prop /\ a = m.from
      OBVIOUS
    <3>3. new.commits = old.commits \cup {<<v, p, a>>}
      BY <2>2, <3>2
    <3>4. Cardinality(Group(new.commits, v, p)) >= 2 * f + 1
      <4>1. PICK C : C = old.commits
        OBVIOUS
      <4>2. ~Majority(C) /\ new.commits = C \cup {<<v, p, a>>} /\ Majority(C \cup {<<v, p, a>>})
        BY <2>2, <3>1, <3>3, <4>1
      <4>3. Cardinality(Group(C \cup {<<v, p, a>>}, v, p)) >= 2 * f + 1
        BY <4>2, FirstQuorum
      <4> QED
        BY <4>2, <4>3
    <3>5. <<v, p, a>> \in new.commits /\ <<v, p, a>>[1] = v /\ <<v, p, a>>[2] = p
      BY <3>3
    <3>6. CommitCounted(s, p)'
      BY <3>4, <3>5, CommitCountedIsGroup
    <3> QED
      BY <2>2, <3>2, <3>6
  <2>3. ASSUME NEW m \in net, m.type = "sync", s \in DOMAIN m.prop, new.committed = m.prop[s],
               old.committed = None, new.commits = old.commits
        PROVE  /\ \A p : p = new.committed => CommitCounted(s, p)'
               /\ Majority(new.commits) => new.committed # None
    <3>1. CommitCounted(s, m.prop[s])
      BY <2>3 DEF SyncsBacked
    <3> QED
      BY <1>1, <2>3, <3>1, BackingStays
  <2> QED
    BY Zenon, <1>2, <2>1, <2>2, <2>3 DEF SlotStep, Unmoved, TakesPrepare, TakesCommit, TakesSync
<1>6. CommitsSent(n, 0, s)' # {} => new.prepared # None
  <2>1. ASSUME NEW p \in CommitsSent(n, 0, s)' PROVE new.prepared # None
    <3>1. p \in CommitsSent(n, 0, s) \/ (new.prepared = p /\ p # None)
      BY CommitsSentStep
    <3> QED
      BY <1>1, <1>2, <3>1 DEF Grows
  <2> QED
    BY <2>1
<1>7. (status[n][s].committed # None => CommitCounted(s, status[n][s].committed))'
  BY ZenonT(30), <1>5 DEF CommitCounted
<1>8. Majority(status[n][s].commits)' => new.committed # None
  BY <1>5 DEF Majority
<1>9. (status[n][s].prepared # None => /\ s < Upperbound(ckpt[n])
                                      /\ \E c \in status[n][s].prepares : c[2] = status[n][s].prepared)'
  BY <1>4 DEF Upperbound
<1> QED
  BY <1>6, <1>7, <1>8, <1>9

LEMMA SyncsBackedStep ==
  ASSUME NodesAssumption, TypeOK, CertificatesBacked, SyncsBacked, Summary
  PROVE  SyncsBacked'
<1>1. ASSUME NEW m \in net', m.type = "sync", NEW s \in DOMAIN m.prop PROVE CommitCounted(s, m.prop[s])'
  <2>1. CASE m \in net
    <3>1. s \in Slot
      BY <1>1, <2>1 DEF TypeOK, MessageOK, Certificates
    <3> QED
      BY <1>1, <2>1, <3>1, BackingStays DEF SyncsBacked
  <2>2. CASE m \notin net
    <3>1. MessageOK(m) /\ Sent(m)
      BY <2>2 DEF Summary
    <3>2. s \in Slot
      BY <1>1, <3>1 DEF MessageOK, Certificates
    <3>3. PICK n \in Node : m.prop[s] = status[n][s].committed /\ m.prop[s] # None
      BY <1>1, <3>1 DEF Sent, Harmless, FromMore
    <3>4. CommitCounted(s, m.prop[s])
      BY <3>2, <3>3 DEF CertificatesBacked
    <3> QED
      BY <3>2, <3>4, BackingStays
  <2> QED
    BY <2>1, <2>2
<1> QED
  BY <1>1 DEF SyncsBacked

-----------------------------------------------------------------------------
(* The votes for view 1. *)

(* Nobody goes back to an earlier view. *)
LEMMA FollowsOn ==
  ASSUME NodesAssumption, TypeOK, Summary
  PROVE  \A n \in Node : followView[n] \in Nat /\ followView'[n] \in Nat /\ followView[n] <= followView'[n]
<1> SUFFICES ASSUME NEW n \in Node
             PROVE  followView[n] \in Nat /\ followView'[n] \in Nat /\ followView[n] <= followView'[n]
  OBVIOUS
<1>1. followView \in [Node -> Views] /\ followView[n] \in Nat
  BY DEF TypeOK, Views
<1>2. followView'[n] = followView[n] \/ followView'[n] = followView[n] + 1
  <2>1. CASE UNCHANGED followView
    BY <2>1
  <2>2. ASSUME NEW o \in Node, ChangesView(o) PROVE followView'[n] \in {followView[n], followView[n] + 1}
    BY <1>1, <2>2 DEF ChangesView
  <2>3. UNCHANGED followView \/ \E o \in Node : ChangesView(o)
    BY DEF Summary, ElectionStep, elections, Proposes, Votes
  <2> QED
    BY <2>1, <2>2, <2>3
<1> QED
  BY <1>1, <1>2

(* So no node followed a second view before. *)
LEMMA OneChangeWas ==
  ASSUME NodesAssumption, TypeOK, Summary, OneChange'
  PROVE  OneChange
BY FollowsOn DEF OneChange

LEMMA FollowsFirstStill ==
  ASSUME NodesAssumption, TypeOK, Summary, OneChange', NEW n \in Node, followView[n] = 1
  PROVE  followView'[n] = 1
<1>1. followView'[n] \in Nat /\ 1 <= followView'[n]
  BY FollowsOn
<1>2. followView'[n] <= 1
  BY DEF OneChange
<1> QED
  BY <1>1, <1>2

(* Who follows view 1 follows it for good, and sends no commit of view 0. *)
LEMMA FollowersStay ==
  ASSUME NodesAssumption, OneChange', TypeOK, Summary,
         NEW n \in Node, followView[n] = 1, NEW s \in Slot
  PROVE  followView'[n] = 1 /\ CommitsSent(n, 0, s)' \subseteq CommitsSent(n, 0, s)
<1>1. followView'[n] = 1
  BY FollowsFirstStill
<1>3. ~(0 >= followView[n])
  OBVIOUS
<1> QED
  BY <1>1, <1>3, CommitsSentStep

(* More certificates and a further checkpoint cover what fewer did. *)
LEMMA CoversStays ==
  ASSUME NodesAssumption, OneChange', TypeOK, Summary, NEW n \in Node,
         NEW c, NEW d, DOMAIN c \subseteq DOMAIN d, NEW a \in Nat, NEW b \in Nat, a <= b, Covers(c, n, a)
  PROVE  Covers(d, n, b)'
<1>1. followView[n] = 1
  BY DEF Covers
<1>2. followView'[n] = 1
  BY <1>1, FollowsFirstStill
<1>3. ckpt[n].next \in Nat /\ ckpt'[n].next \in Nat /\ ckpt[n].next <= ckpt'[n].next
  BY DEF Summary, CheckpointsGrow, TypeOK
<1>4. ASSUME NEW s \in Slot, CommitsSent(n, 0, s)' # {}
      PROVE  s \in DOMAIN d \/ (ckpt'[n].next > s /\ b > s)
  <2>1. CommitsSent(n, 0, s) # {}
    BY <1>1, <1>4, FollowersStay
  <2>2. s \in DOMAIN c \/ (ckpt[n].next > s /\ a > s)
    BY <2>1 DEF Covers
  <2> QED
    BY <1>3, <2>2 DEF Slot
<1> QED
  BY <1>2, <1>4 DEF Covers

LEMMA CountedStays ==
  ASSUME NodesAssumption, TypeOK, Summary, NEW c, Certificates(c), CertsCounted(c)
  PROVE  CertsCounted(c)'
BY BackingStays DEF CertsCounted, Certificates

LEMMA VotesCoverStep ==
  ASSUME NodesAssumption, OneChange', TypeOK, CertificatesBacked, VotesCover, Summary
  PROVE  VotesCover'
<1>1. ASSUME NEW m \in net', m.type = "vc_vote", m.view = 1
      PROVE  CertsCounted(m.prop)' /\ Covers(m.prop, m.from, m.slot.next)'
  <2>1. CASE m \in net
    <3>1. /\ m.from \in Node /\ m.slot.next \in Nat /\ Certificates(m.prop) /\ CertsCounted(m.prop)
          /\ Covers(m.prop, m.from, m.slot.next)
      BY <1>1, <2>1 DEF TypeOK, MessageOK, VotesCover
    <3>2. m.slot.next <= m.slot.next
      BY <3>1
    <3> QED
      BY <3>1, <3>2, CountedStays, CoversStays
  <2>2. CASE m \notin net
    <3>1. MessageOK(m) /\ Sent(m)
      BY <2>2 DEF Summary
    <3>2. PICK n \in Node : n = m.from
      BY <3>1 DEF MessageOK
    <3>3. /\ ChangesView(n) /\ m.slot = ckpt[n] /\ m.view = followView[n] + 1
          /\ DOMAIN m.prop = PreparedSlots(n)
          /\ \A s \in PreparedSlots(n) : m.prop[s] = status[n][s].prepared
      BY <1>1, <3>1, <3>2 DEF Sent, Harmless, FromMore
    <3>4. Certificates(m.prop)
      BY <1>1, <3>1 DEF MessageOK
    <3>5. CertsCounted(m.prop)
      <4>1. ASSUME NEW s \in DOMAIN m.prop PROVE PrepareCounted(s, m.prop[s])
        <5>1. s \in Slot /\ status[n][s].prepared # None /\ m.prop[s] = status[n][s].prepared
          BY <3>3 DEF PreparedSlots
        <5>2. \E c \in status[n][s].prepares : c[2] = status[n][s].prepared
          BY <5>1 DEF CertificatesBacked
        <5> QED
          BY <5>1, <5>2 DEF PrepareCounted
      <4> QED
        BY <4>1 DEF CertsCounted
    <3>6. followView'[n] = 1
      <4>1. followView \in [Node -> Views]
        BY DEF TypeOK
      <4>2. followView'[n] = followView[n] + 1
        BY <3>3, <4>1 DEF ChangesView
      <4> QED
        BY <1>1, <3>3, <4>2
    <3>7. ckpt[n].next \in Nat /\ ckpt'[n].next \in Nat /\ ckpt[n].next <= ckpt'[n].next
      BY DEF Summary, CheckpointsGrow, TypeOK
    <3>8. ASSUME NEW s \in Slot, CommitsSent(n, 0, s)' # {}
          PROVE  s \in DOMAIN m.prop \/ (ckpt'[n].next > s /\ m.slot.next > s)
      <4>1. status'[n][s].prepared # None
        BY <3>8, CommitsSentStep, SlotsGrow DEF CertificatesBacked, Grows
      <4>2. status[n][s].prepared # None
        BY <3>3, <4>1 DEF ChangesView
      <4>3. s < Upperbound(ckpt[n])
        BY <4>2 DEF CertificatesBacked
      <4>4. s \in PreparedSlots(n) \/ ~(s >= ckpt[n].next)
        BY <4>2, <4>3 DEF PreparedSlots, _legal_slot
      <4> QED
        BY <3>3, <3>7, <4>4 DEF Slot
    <3>9. Covers(m.prop, n, m.slot.next)'
      BY <3>6, <3>8 DEF Covers
    <3> QED
      BY <3>2, <3>4, <3>5, <3>9, CountedStays
  <2> QED
    BY <2>1, <2>2
<1>2. PICK x, y : x = ckpt[1].next /\ y = ckpt'[1].next
  OBVIOUS
<1>3. x \in Nat /\ y \in Nat /\ x <= y
  BY <1>2, SmallRemainders DEF Summary, CheckpointsGrow, TypeOK
<1>4. ASSUME 1 \in Views
      PROVE  \A w : w = vcVotes'[1][1] => CertsCounted(w.certs)' /\ \A n \in w.from : Covers(w.certs, n, y)'
  <2>1. /\ CertsCounted(vcVotes[1][1].certs) /\ Certificates(vcVotes[1][1].certs)
        /\ \A n \in vcVotes[1][1].from : n \in Node /\ Covers(vcVotes[1][1].certs, n, x)
    BY <1>2, <1>4, SmallRemainders DEF VotesCover, TypeOK, VotesOK
  <2>5. PICK u : u = vcVotes[1][1]
    OBVIOUS
  <2>2. CASE vcVotes'[1][1] = vcVotes[1][1]
    BY <1>3, <2>1, <2>2, <2>5, CountedStays, CoversStays
  <2>3. ASSUME NEW m \in net, NEW n \in Node, Votes(m, n), vcVotes'[1][1] # vcVotes[1][1]
        PROVE  \A w : w = vcVotes'[1][1] => CertsCounted(w.certs)' /\ \A o \in w.from : Covers(w.certs, o, y)'
    <3>1. /\ m.type = "vc_vote" /\ vcVotes' = [vcVotes EXCEPT ![n][m.view] = VotesWith(n, m)]
          /\ m.slot.next <= ckpt'[n].next
      BY <2>3 DEF Votes
    <3>2. DOMAIN vcVotes = Node /\ DOMAIN vcVotes[1] = Views /\ m.view \in Views /\ m.from \in Node
          /\ Certificates(m.prop) /\ m.slot.next \in Nat
      BY <3>1, SmallRemainders DEF TypeOK, VotesOK, MessageOK
    <3>3. n = 1 /\ m.view = 1
      BY <1>4, <2>3, <3>1, <3>2, SmallRemainders
    <3>4. PICK w : w = VotesWith(1, m)
      OBVIOUS
    <3>5. vcVotes'[1][1] = w
      BY <1>4, <3>1, <3>2, <3>3, <3>4, SmallRemainders
    <3>6. /\ w.from = u.from \cup {m.from}
          /\ w.certs = FirstCert(u.certs, m.prop) /\ Certificates(w.certs)
      BY <2>5, <3>1, <3>3, <3>4, VotesWithIs
    <3>7. DOMAIN u.certs \subseteq DOMAIN w.certs /\ DOMAIN m.prop \subseteq DOMAIN w.certs
      BY <3>6 DEF FirstCert
    <3>8. CertsCounted(m.prop) /\ Covers(m.prop, m.from, m.slot.next)
      BY <3>1, <3>3 DEF VotesCover
    <3>9. CertsCounted(w.certs)
      BY <2>1, <2>5, <3>6, <3>8 DEF CertsCounted, FirstCert
    <3>10. CertsCounted(w.certs)'
      BY <3>6, <3>9, CountedStays
    <3>11. ASSUME NEW o \in w.from PROVE Covers(w.certs, o, y)'
      <4>1. CASE o \in u.from
        BY <1>3, <2>1, <2>5, <3>7, <4>1, CoversStays
      <4>2. CASE o = m.from
        <5>1. m.slot.next <= y
          BY <1>2, <3>1, <3>3
        <5> QED
          BY <1>3, <3>2, <3>7, <3>8, <4>2, <5>1, CoversStays
      <4> QED
        BY <3>6, <4>1, <4>2
    <3> QED
      BY <3>5, <3>10, <3>11
  <2>4. vcVotes'[1][1] = vcVotes[1][1] \/ \E m \in net, n \in Node : Votes(m, n)
    BY DEF Summary, ElectionStep, elections, Proposes, ChangesView
  <2> QED
    BY <2>2, <2>3, <2>4
<1> QED
  <2>1. (\A m \in net : m.type = "vc_vote" /\ m.view = 1 =>
           CertsCounted(m.prop) /\ Covers(m.prop, m.from, m.slot.next))'
    BY <1>1 DEF CertsCounted, Covers, PrepareCounted
  <2>2. 1 \in Views => /\ CertsCounted(vcVotes[1][1].certs)'
                       /\ (\A n \in vcVotes[1][1].from : Covers(vcVotes[1][1].certs, n, ckpt[1].next))'
    BY <1>2, <1>4 DEF CertsCounted, Covers, PrepareCounted
  <2> QED
    BY <2>1, <2>2 DEF VotesCover

-----------------------------------------------------------------------------
(* What the leader of view 1 is handed. *)

(* A settled slot stays settled. *)
LEMMA KeepsStays ==
  ASSUME NodesAssumption, OneChange, OneChange', TypeOK, FirstViews, OneLeader, OneProposal, Summary,
         isLeader[1], NEW s \in Slot, NEW p, Keeps(s, p)
  PROVE  Keeps(s, p)'
<1>1. s < nextPropose[1] /\ Proposed(1, s) \subseteq {p}
  BY DEF Keeps
<1>2. /\ nextPropose[1] \in Nat /\ nextPropose'[1] \in Nat /\ nextPropose[1] <= nextPropose'[1] /\ s \in Nat
  BY SmallRemainders, OneLeaderStep, ViewsTypedStep DEF ViewsGrow, ViewsTyped, TypeOK, Slot
<1>4. ASSUME NEW q \in Proposed(1, s)' PROVE q = p
  <2>1. ~Announced(1, s, q)
    BY <1>1, <1>2, AnnouncedIs
  <2> QED
    BY <1>1, <2>1, ProposedStep
<1> QED
  BY <1>1, <1>2, <1>4 DEF Keeps

(* A node that takes no part in view 1 for a slot never will. *)
LEMMA AbsentStays ==
  ASSUME NodesAssumption, TypeOK, Summary, NEW n \in Node, NEW s \in Slot, ckpt[n].next > s
  PROVE  ckpt'[n].next > s /\ CommitsSent(n, 1, s)' \subseteq CommitsSent(n, 1, s)
<1>1. ckpt[n].next \in Nat /\ ckpt'[n].next \in Nat /\ ckpt[n].next <= ckpt'[n].next /\ s \in Nat
  BY DEF Summary, CheckpointsGrow, TypeOK, Slot
<1>2. ~_legal_slot(n, s)
  BY <1>1 DEF _legal_slot
<1> QED
  BY <1>1, <1>2, CommitsSentStep

(* Until node 1 leads, what was prepared was proposed in view 0. *)
LEMMA PreparedInFirstView ==
  ASSUME NodesAssumption, TypeOK, FirstViews, OneProposal, ~isLeader[1],
         NEW s \in Slot, NEW p, PrepareCounted(s, p)
  PROVE  p \in Proposed(0, s)
<1>1. PICK n \in Node : \E c \in status[n][s].prepares : c[2] = p
  BY DEF PrepareCounted
<1>2. PICK c \in status[n][s].prepares : c[2] = p
  BY <1>1
<1>3. c[1] \in Views /\ c[1] \in {0, 1}
  <2>1. c[1] \in Views /\ c[1] <= 1
    BY <1>2 DEF TypeOK, StatusType, Counts, FirstViews
  <2> QED
    BY <2>1 DEF Views
<1>4. p \in Proposed(c[1], s)
  BY <1>2, ProposedIs
<1>5. c[1] # 1
  BY <1>3, <1>4 DEF OneProposal
<1> QED
  BY <1>3, <1>4, <1>5

Settled(V) ==
  \A n \in V :
    /\ followView[n] = 1
    /\ \A s \in Slot : \A p \in CommitsSent(n, 0, s) :
         Keeps(s, p) \/ (ckpt[n].next > s /\ ckpt[1].next > s /\ CommitsSent(n, 1, s) = {})

LEMMA HandoverIs ==
  Handover <=> (isLeader[1] => \E V \in SUBSET Node : Cardinality(V) >= 2 * f + 1 /\ Settled(V))
BY DEF Handover, Settled

LEMMA SettledStays ==
  ASSUME NodesAssumption, OneChange, OneChange', TypeOK, FirstViews, OneLeader, OneProposal, Summary,
         isLeader[1], NEW V \in SUBSET Node, Settled(V)
  PROVE  Settled(V)'
<1>1. ASSUME NEW n \in V PROVE followView'[n] = 1
  <2>1. followView[n] = 1 /\ n \in Node
    BY DEF Settled
  <2> QED
    BY <2>1, FollowsFirstStill
<1>2. ASSUME NEW n \in V, NEW s \in Slot, NEW p \in CommitsSent(n, 0, s)'
      PROVE  Keeps(s, p)' \/ (ckpt'[n].next > s /\ ckpt'[1].next > s /\ CommitsSent(n, 1, s)' = {})
  <2>1. followView[n] = 1 /\ n \in Node
    BY DEF Settled
  <2>2. p \in CommitsSent(n, 0, s)
    BY <1>2, <2>1, FollowersStay
  <2>3. Keeps(s, p) \/ (ckpt[n].next > s /\ ckpt[1].next > s /\ CommitsSent(n, 1, s) = {})
    BY <2>2 DEF Settled
  <2>4. CASE Keeps(s, p)
    BY <2>4, KeepsStays
  <2>5. CASE ckpt[n].next > s /\ ckpt[1].next > s /\ CommitsSent(n, 1, s) = {}
    BY <2>1, <2>5, AbsentStays, SmallRemainders
  <2> QED
    BY <2>3, <2>4, <2>5
<1> QED
  BY <1>1, <1>2 DEF Settled

(* The votes with which node 1 takes over settle every slot. *)
LEMMA TakeoverSettles ==
  ASSUME NodesAssumption, OneChange, OneChange', TypeOK, FirstViews, OneLeader, OneProposal,
         VotesCover, VotesCover', Summary, NEW m \in net, NEW n \in Node, Votes(m, n), TakesOver(m, n)
  PROVE  \E V \in SUBSET Node : Cardinality(V) >= 2 * f + 1 /\ Settled(V)'
<1>1. n = 1 /\ followView[1] = 1 /\ ~isLeader[1] /\ m.view = 1 /\ 1 \in Views
  BY WhoTakesOver
<1>2. PICK w : w = VotesWith(1, m)
  OBVIOUS
<1>3. m.type = "vc_vote" /\ vcVotes' = [vcVotes EXCEPT ![1][1] = w] /\ UNCHANGED <<followView, status>>
  BY <1>1, <1>2 DEF Votes
<1>4. DOMAIN vcVotes = Node /\ DOMAIN vcVotes[1] = Views /\ 1 \in Node
  BY SmallRemainders DEF TypeOK, VotesOK
<1>5. vcVotes'[1][1] = w
  BY <1>1, <1>3, <1>4
<1>6. /\ w.from \in SUBSET Node /\ Certificates(w.certs)
      /\ w.from = vcVotes[1][1].from \cup {m.from}
      /\ w.certs = FirstCert(vcVotes[1][1].certs, m.prop)
  BY <1>1, <1>2, <1>3, <1>4, VotesWithIs
<1>7. Cardinality(w.from) >= 2 * f + 1
  BY <1>1, <1>2 DEF TakesOver
<1>8. CertsCounted(w.certs)
  <2>1. CertsCounted(vcVotes[1][1].certs) /\ CertsCounted(m.prop)
    BY <1>1, <1>3 DEF VotesCover
  <2> QED
    BY <1>6, <2>1 DEF CertsCounted, FirstCert
<1>16. /\ m.slot.next \in Nat /\ ckpt[1].next \in Nat /\ ckpt'[1].next \in Nat
       /\ m.slot.next <= ckpt'[1].next /\ ckpt[1].next <= ckpt'[1].next
  <2>1. m.slot.next \in Nat /\ m.slot.next <= ckpt'[1].next
    BY <1>1, <1>3 DEF Votes, TypeOK, MessageOK
  <2> QED
    BY <1>4, <2>1 DEF Summary, CheckpointsGrow, TypeOK
<1>9. ASSUME NEW o \in w.from PROVE Covers(w.certs, o, ckpt'[1].next)
  <2>1. Covers(vcVotes[1][1].certs, o, ckpt[1].next) \/ Covers(m.prop, o, m.slot.next)
    BY <1>1, <1>3, <1>6, <1>9 DEF VotesCover
  <2> QED
    BY <1>6, <1>16, <2>1 DEF Covers, FirstCert, Slot
<1>10. nextPropose'[1] = LastSlot(w.certs) + 1 /\ LastSlot(w.certs) \in Int
       /\ \A s \in DOMAIN w.certs : s <= LastSlot(w.certs)
  <2>1. nextPropose \in [Node -> Nat] /\ nextPropose' = [nextPropose EXCEPT ![1] = LastSlot(w.certs) + 1]
    BY <1>1, <1>2 DEF TakesOver, TypeOK
  <2> QED
    BY <1>4, <1>6, <2>1, LastSlotIsLast DEF Certificates
<1>11. \A s \in Slot : Proposed(1, s) = {}
  BY <1>1 DEF OneProposal
<1>12. ASSUME NEW s \in DOMAIN w.certs PROVE Keeps(s, w.certs[s])'
  <2>1. s \in Slot /\ s \in Nat /\ s < nextPropose'[1]
    BY <1>6, <1>10 DEF Certificates, Slot
  <2>2. ASSUME NEW q \in Proposed(1, s)' PROVE q = w.certs[s]
    <3>1. \E o \in Node : NewProposal(o, 1, s, q)
      BY <1>11, <2>1, ProposedStep DEF Announced
    <3>2. ASSUME NEW o \in Node, Proposes(o, s, q), 1 = view[o] PROVE FALSE
      <4>1. o = 1 /\ isLeader[1]
        BY <3>2, WhoProposes
      <4> QED
        BY <1>1, <4>1
    <3>3. PICK m2 \in net, o \in Node :
            /\ Votes(m2, o) /\ TakesOver(m2, o)
            /\ q = IF s \in DOMAIN VotesWith(o, m2).certs THEN VotesWith(o, m2).certs[s] ELSE NoOp
      BY <3>1, <3>2 DEF NewProposal
    <3>4. o = 1 /\ m2.view = 1
      BY <3>3, WhoTakesOver
    <3>5. vcVotes' = [vcVotes EXCEPT ![1][1] = VotesWith(1, m2)]
      BY <3>3, <3>4 DEF Votes
    <3>6. vcVotes'[1][1] = VotesWith(1, m2)
      BY <1>1, <1>4, <3>5
    <3> QED
      BY <1>5, <3>3, <3>4, <3>6
  <2> QED
    BY <2>1, <2>2 DEF Keeps
<1>13. ASSUME NEW o \in w.from PROVE followView'[o] = 1
  BY <1>3, <1>9, <1>13 DEF Covers
<1>14. ASSUME NEW o \in w.from, NEW s \in Slot, NEW p \in CommitsSent(o, 0, s)'
       PROVE  Keeps(s, p)' \/ (ckpt'[o].next > s /\ ckpt'[1].next > s /\ CommitsSent(o, 1, s)' = {})
  <2>1. followView[o] = 1 /\ o \in Node
    BY <1>6, <1>9 DEF Covers
  <2>2. p \in CommitsSent(o, 0, s)
    BY <1>14, <2>1, FollowersStay
  <2>3. s \in DOMAIN w.certs \/ (ckpt[o].next > s /\ ckpt'[1].next > s)
    BY <1>9, <2>2 DEF Covers
  <2>4. CASE s \in DOMAIN w.certs
    <3>1. w.certs[s] \in Proposed(0, s)
      BY <1>1, <1>8, <2>4, PreparedInFirstView DEF CertsCounted
    <3>2. p \in Proposed(0, s)
      BY <2>2, SentIsProposed
    <3>4. p = w.certs[s]
      BY <3>1, <3>2 DEF OneProposal
    <3> QED
      BY <1>12, <2>4, <3>4
  <2>5. CASE ckpt[o].next > s /\ ckpt'[1].next > s
    <3>1. CommitsSent(o, 1, s) = {}
      BY <1>11, SentIsProposed
    <3> QED
      BY <2>1, <2>5, <3>1, AbsentStays
  <2> QED
    BY <2>3, <2>4, <2>5
<1>15. Settled(w.from)'
  BY <1>13, <1>14 DEF Settled
<1> QED
  BY <1>6, <1>7, <1>15

LEMMA HandoverStep ==
  ASSUME NodesAssumption, OneChange, OneChange', TypeOK, FirstViews, OneLeader, OneProposal,
         VotesCover, VotesCover', Handover, Summary
  PROVE  Handover'
<1>1. CASE isLeader[1]
  <2>1. PICK V \in SUBSET Node : Cardinality(V) >= 2 * f + 1 /\ Settled(V)
    BY <1>1, HandoverIs
  <2>2. Settled(V)'
    BY <1>1, <2>1, SettledStays
  <2> QED
    BY <2>1, <2>2 DEF Handover, Settled
<1>2. CASE ~isLeader[1] /\ isLeader'[1]
  <2>0. isLeader \in [Node -> BOOLEAN] /\ 1 \in Node
    BY SmallRemainders DEF TypeOK
  <2>1. PICK m \in net, n \in Node : Votes(m, n) /\ TakesOver(m, n)
    BY <1>2, <2>0 DEF Summary, ElectionStep, elections, Proposes, ChangesView
  <2>2. PICK V \in SUBSET Node : Cardinality(V) >= 2 * f + 1 /\ Settled(V)'
    BY <2>1, TakeoverSettles
  <2> QED
    BY <2>2 DEF Handover, Settled
<1>3. CASE ~isLeader'[1]
  BY <1>3 DEF Handover
<1> QED
  BY <1>1, <1>2, <1>3

-----------------------------------------------------------------------------
(* Agreement. *)

LEMMA CommitCountedIsSent ==
  ASSUME NodesAssumption, TypeOK, FirstViews, NEW s \in Slot, NEW p, CommitCounted(s, p)
  PROVE  \E v \in {0, 1}, Q \in SUBSET Node :
           Cardinality(Q) >= 2 * f + 1 /\ \A n \in Q : p \in CommitsSent(n, v, s)
<1>1. PICK o \in Node : \E c \in status[o][s].commits :
        c[2] = p /\ Cardinality(Group(status[o][s].commits, c[1], p)) >= 2 * f + 1
  BY CommitCountedIsGroup
<1>2. PICK C : C = status[o][s].commits
  OBVIOUS
<1>3. PICK c \in C : c[2] = p /\ Cardinality(Group(C, c[1], p)) >= 2 * f + 1
  BY <1>1, <1>2
<1>4. C \in Counts
  BY <1>2 DEF TypeOK, StatusType
<1>5. c[1] \in {0, 1}
  <2>1. c[1] \in Views /\ c[1] <= 1
    BY <1>2, <1>3, <1>4 DEF Counts, FirstViews
  <2> QED
    BY <2>1 DEF Views
<1>6. PICK v \in {0, 1} : v = c[1]
  BY <1>5
<1>7. Cardinality(Senders(C, v, p)) >= 2 * f + 1 /\ Senders(C, v, p) \in SUBSET Node
  BY <1>3, <1>4, <1>6, GroupIsSenders
<1>8. ASSUME NEW n \in Senders(C, v, p) PROVE p \in CommitsSent(n, v, s)
  <2>1. <<v, p, n>> \in status[o][s].commits
    BY <1>2, <1>8 DEF Senders
  <2>2. <<v, p, n>>[1] = v /\ <<v, p, n>>[2] = p /\ <<v, p, n>>[3] = n
    OBVIOUS
  <2> QED
    BY <2>1, <2>2, CommitsSentIs
<1> QED
  BY <1>7, <1>8

LEMMA CommittedOnce ==
  ASSUME NodesAssumption, AgreeInv, NEW s \in Slot, NEW p, NEW q,
         CommitCounted(s, p), CommitCounted(s, q)
  PROVE  p = q
<1>1. PICK v \in {0, 1}, Q \in SUBSET Node :
        Cardinality(Q) >= 2 * f + 1 /\ \A n \in Q : p \in CommitsSent(n, v, s)
  BY CommitCountedIsSent DEF AgreeInv
<1>2. PICK w \in {0, 1}, R \in SUBSET Node :
        Cardinality(R) >= 2 * f + 1 /\ \A n \in R : q \in CommitsSent(n, w, s)
  BY CommitCountedIsSent DEF AgreeInv
<1>3. ASSUME NEW V \in SUBSET Node, Cardinality(V) >= 2 * f + 1
      PROVE  \E n \in V : p \in CommitsSent(n, v, s) /\ q \in CommitsSent(n, w, s)
  BY <1>1, <1>2, <1>3, ThreeQuorums
<1>4. Cardinality(Node) >= 2 * f + 1
  <2>1. PICK n : n \in Q /\ p \in CommitsSent(n, v, s) /\ q \in CommitsSent(n, w, s)
    BY <1>1, <1>3
  <2>2. IsFiniteSet(Node) /\ Cardinality(Q) <= Cardinality(Node)
    <3>1. N - 1 \in Int /\ 0 \in Int
      OBVIOUS
    <3>2. IsFiniteSet(Node)
      BY <3>1, FS_Interval DEF Node
    <3> QED
      BY <3>2, FS_Subset
  <2>3. Cardinality(Q) \in Nat /\ Cardinality(Node) \in Nat
    BY <2>2, FS_Subset, FS_CardinalityType
  <2>4. 2 * f + 1 \in Nat
    OBVIOUS
  <2> QED
    BY <1>1, <2>2, <2>3, <2>4
<1>5. /\ \E n \in Node : p \in CommitsSent(n, v, s)
      /\ p \in Proposed(v, s) /\ q \in Proposed(w, s)
  BY <1>3, <1>4, SentIsProposed
<1>6. CASE v = w
  BY <1>5, <1>6 DEF AgreeInv, OneProposal
<1>7. ASSUME NEW a, NEW b, NEW x, NEW y, a = 0, b = 1,
             x \in Proposed(a, s), y \in Proposed(b, s),
             \A V \in SUBSET Node : Cardinality(V) >= 2 * f + 1 =>
               \E n \in V : x \in CommitsSent(n, a, s) /\ y \in CommitsSent(n, b, s)
      PROVE  x = y
  <2>1. isLeader[1]
    BY <1>7 DEF AgreeInv, OneProposal
  <2>2. PICK V \in SUBSET Node : Cardinality(V) >= 2 * f + 1 /\ Settled(V)
    BY <2>1, HandoverIs DEF AgreeInv
  <2>3. PICK n \in V : x \in CommitsSent(n, 0, s) /\ y \in CommitsSent(n, 1, s)
    BY <1>7, <2>2
  <2>4. Keeps(s, x)
    BY <2>2, <2>3 DEF Settled
  <2> QED
    BY <1>7, <2>4 DEF Keeps
<1> QED
  BY <1>3, <1>5, <1>6, <1>7

LEMMA AgreeInvAgrees ==
  ASSUME NodesAssumption, AgreeInv
  PROVE  Agreement
<1>1. ASSUME NEW n \in Live, NEW o \in Live, NEW s \in Slot,
             status[n][s].committed # None, status[o][s].committed # None
      PROVE  status[n][s].committed = status[o][s].committed
  <2>1. CommitCounted(s, status[n][s].committed) /\ CommitCounted(s, status[o][s].committed)
    BY <1>1 DEF AgreeInv, CertificatesBacked
  <2> QED
    BY <2>1, CommittedOnce
<1> QED
  BY <1>1 DEF Agreement

LEMMA AgreeInvStep ==
  ASSUME NodesAssumption, OneChange, OneChange', AgreeInv, Summary, TypeOK'
  PROVE  AgreeInv'
<1>1. /\ TypeOK /\ FirstViews /\ OneLeader /\ OneProposal /\ CertificatesBacked /\ SyncsBacked
      /\ VotesCover /\ Handover
  BY DEF AgreeInv
<1>2. FirstViews'
  BY <1>1, FirstViewsStep
<1>3. OneLeader'
  BY <1>1, OneLeaderStep
<1>4. OneProposal'
  BY <1>1, OneProposalStep
<1>5. CertificatesBacked'
  BY <1>1, CertificatesBackedStep
<1>6. SyncsBacked'
  BY <1>1, SyncsBackedStep
<1>7. VotesCover'
  BY <1>1, VotesCoverStep
<1>8. Handover'
  BY <1>1, <1>7, HandoverStep
<1> QED
  BY <1>2, <1>3, <1>4, <1>5, <1>6, <1>7, <1>8 DEF AgreeInv

(* Nothing is counted at the start. *)
LEMMA NothingSent ==
  ASSUME Init, NEW s \in Slot
  PROVE  /\ \A v : Proposed(v, s) = {}
         /\ \A n, v : CommitsSent(n, v, s) = {}
<1>1. net = {} /\ \A n \in Node : status[n][s].prepares = {} /\ status[n][s].commits = {}
  BY DEF Init, NoStatus
<1>2. ASSUME NEW v, NEW p \in Proposed(v, s) PROVE FALSE
  BY <1>1, ProposedIs
<1>3. ASSUME NEW n, NEW v, NEW p \in CommitsSent(n, v, s) PROVE FALSE
  BY <1>1, CommitsSentIs
<1> QED
  BY <1>2, <1>3

LEMMA TypeInit ==
  ASSUME NodesAssumption, Init
  PROVE  TypeOK
<1>1. 0 \in Views /\ 0 \in Node
  BY SmallRemainders DEF Views
<1>2. NoStatus \in StatusType
  BY DEF NoStatus, StatusType, Counts
<1>3. status \in [Node -> [Slot -> StatusType]]
  BY <1>2 DEF Init
<1>4. /\ followView \in [Node -> Views] /\ view \in [Node -> Views]
      /\ isLeader \in [Node -> BOOLEAN] /\ nextPropose \in [Node -> Nat]
  BY <1>1 DEF Init
<1>5. DOMAIN ckpt = Node /\ \A n \in Node : ckpt[n].next \in Nat
  BY DEF Init, NoCheckpoint
<1>6. BallotsOK
  BY DEF Init, BallotsOK
<1>7. VotesOK
  BY DEF Init, VotesOK, Views, Certificates
<1>8. ClientOK
  BY <1>1 DEF Init, ClientOK, IdleClient
<1>9. net = {}
  BY DEF Init
<1> QED
  BY <1>3, <1>4, <1>5, <1>6, <1>7, <1>8, <1>9 DEF TypeOK

LEMMA AgreeInvInit ==
  ASSUME NodesAssumption, Init
  PROVE  AgreeInv
<1>1. TypeOK
  BY TypeInit
<1>2. 0 \in Node /\ 1 \in Node
  BY SmallRemainders
<1>3. net = {} /\ \A n \in Node, s \in Slot : status[n][s] = NoStatus
  BY DEF Init
<1>4. OneLeader
  BY <1>2 DEF Init, OneLeader
<1>10. FirstViews
  BY <1>3 DEF FirstViews, NoStatus
<1>5. OneProposal
  BY NothingSent DEF OneProposal
<1>6. CertificatesBacked
  BY <1>3, NothingSent DEF CertificatesBacked, NoStatus, Majority
<1>7. SyncsBacked
  BY <1>3 DEF SyncsBacked
<1>8. VotesCover
  <2>1. 1 \in Views => vcVotes[1][1] = [from |-> {}, certs |-> << >>]
    BY <1>2 DEF Init, Views
  <2> QED
    BY <1>3, <2>1 DEF VotesCover, CertsCounted
<1>9. Handover
  <2>1. ~isLeader[1]
    <3>1. isLeader = [n \in Node |-> n = 0]
      BY DEF Init
    <3>2. 1 \in Node /\ 1 # 0
      BY <1>2
    <3> QED
      BY <3>1, <3>2
  <2> QED
    BY <2>1 DEF Handover
<1> QED
  BY <1>1, <1>4, <1>5, <1>6, <1>7, <1>8, <1>9, <1>10 DEF AgreeInv

(* The state of nodes, messages and client is well-formed, whatever the      *)
(* number of view changes.                                                  *)
THEOREM TypesHold ==
  ASSUME NodesAssumption
  PROVE  Spec => []TypeOK
<1>1. Init => TypeOK
  BY TypeInit
<1>2. TypeOK /\ [Next]_vars => TypeOK'
  BY StepIsKind, StepSummary, TypeStep
<1> QED
  BY <1>1, <1>2, PTL DEF Spec

(* Until a node is asked to change the view a second time, each view has    *)
(* one proposal for a slot, certificates are backed by quorums, and what    *)
(* nodes committed in view 0 is handed to the leader of view 1.             *)
THEOREM AgreeInvHolds ==
  ASSUME NodesAssumption
  PROVE  Spec => [](OneChange => AgreeInv)
<1> DEFINE Inv == TypeOK /\ (OneChange => AgreeInv)
<1>1. Init => Inv
  BY TypeInit, AgreeInvInit
<1>2. Inv /\ [Next]_vars => Inv'
  <2> SUFFICES ASSUME Inv, [Next]_vars PROVE Inv'
    OBVIOUS
  <2>1. Summary /\ TypeOK'
    BY StepIsKind, StepSummary, TypeStep
  <2>2. ASSUME OneChange' PROVE AgreeInv'
    <3>1. OneChange
      BY <2>1, <2>2, OneChangeWas
    <3> QED
      BY <2>1, <2>2, <3>1, AgreeInvStep
  <2> QED
    BY <2>1, <2>2
<1>3. Inv => (OneChange => AgreeInv)
  OBVIOUS
<1> QED
  BY <1>1, <1>2, <1>3, PTL DEF Spec

(* Until then two nodes never hold commit certificates of different         *)
(* proposals for a slot, whether they come from the commit messages of      *)
(* either view or from a synchronisation.                                   *)
THEOREM NodesAgree ==
  ASSUME NodesAssumption
  PROVE  Spec => [](OneChange => Agreement)
<1>1. (OneChange => AgreeInv) => (OneChange => Agreement)
  BY AgreeInvAgrees
<1> QED
  BY <1>1, AgreeInvHolds, PTL

-----------------------------------------------------------------------------
(* Checkpoints and the last commit slot. *)

(* The while loop stops at the first slot that fills a checkpoint, or before *)
(* the first open one.                                                       *)
LEMMA AdvanceIs ==
  ASSUME NodesAssumption, NEW st, DOMAIN st = Slot, NEW l \in Int, l >= -1
  PROVE  /\ Advance(st, l) \in Int /\ Advance(st, l) >= l
         /\ \A s \in l + 1 .. Advance(st, l) : s \in Slot /\ st[s].committed # None
<1> DEFINE T == {k \in Nat :
                   /\ k > l
                   /\ k \in Slot => \/ st[k].committed = None
                                    \/ k - 1 > l /\ FillsCheckpoint(k - 1)}
<1>1. T # {} /\ T \in SUBSET Nat
  <2>1. PICK k \in Nat : k > l /\ k >= MaxSlot
    <3>1. CASE l >= MaxSlot
      BY <3>1, l + 1 \in Nat
    <3>2. CASE ~(l >= MaxSlot)
      BY <3>2, MaxSlot \in Nat
    <3> QED
      BY <3>1, <3>2
  <2>2. k \notin Slot
    BY <2>1 DEF Slot
  <2> QED
    BY <2>1, <2>2
<1>2. PICK x \in T : \A y \in T : x <= y
  BY <1>1, LeastNat
<1>3. x \in Nat /\ x > l
  BY <1>2
<1>4. \A s \in l + 1 .. x - 1 :
        s \in Slot /\ st[s].committed # None /\ ~(s - 1 > l /\ FillsCheckpoint(s - 1))
  <2> SUFFICES ASSUME NEW s \in l + 1 .. x - 1
               PROVE  /\ s \in Slot /\ st[s].committed # None
                      /\ ~(s - 1 > l /\ FillsCheckpoint(s - 1))
    OBVIOUS
  <2>1. s \in Nat /\ s > l /\ s < x
    BY <1>3
  <2>2. s \notin T
    BY <1>2, <2>1
  <2> QED
    BY <2>1, <2>2
<1>5. PICK k : k = x - 1
  OBVIOUS
<1>6. k \in Int /\ k >= l /\ x = k + 1
  BY <1>3, <1>5
<1>7. k \in {l} \cup l + 1 .. MaxSlot - 1
  <2>1. ASSUME k # l PROVE k \in l + 1 .. MaxSlot - 1
    BY <1>4, <1>6, <2>1 DEF Slot
  <2> QED
    BY <2>1
<1>8. \A s \in l + 1 .. k : s \in Slot /\ st[s].committed # None
  BY <1>4, <1>5
<1>9. \A s \in l + 1 .. k - 1 : ~FillsCheckpoint(s)
  <2> SUFFICES ASSUME NEW s \in l + 1 .. k - 1, FillsCheckpoint(s) PROVE FALSE
    OBVIOUS
  <2>1. s + 1 \in l + 1 .. x - 1 /\ (s + 1) - 1 = s /\ s > l
    BY <1>3, <1>5
  <2> QED
    BY <1>4, <2>1
<1>10. (k > l /\ FillsCheckpoint(k)) \/ (k + 1 \in DOMAIN st => st[k + 1].committed = None)
  BY <1>2, <1>5, <1>6
<1> HIDE DEF T
<1>11. PICK y : y = Advance(st, l)
  OBVIOUS
<1>12. /\ y \in {l} \cup l + 1 .. MaxSlot - 1
       /\ \A s \in l + 1 .. y : st[s].committed # None
  BY <1>7, <1>8, <1>9, <1>10, <1>11 DEF Advance
<1>13. y \in Int /\ y >= l
  BY <1>12
<1>14. ASSUME NEW s \in l + 1 .. y PROVE s \in Slot
  BY <1>12, <1>14 DEF Slot
<1> QED
  BY <1>11, <1>12, <1>13, <1>14

(* No slot is opened again. *)
Stays == \A o \in Node, t \in Slot : status[o][t].committed # None => status'[o][t].committed # None

LEMMA StepStays ==
  ASSUME Summary
  PROVE  Stays
<1>1. ASSUME NEW o \in Node, NEW t \in Slot, status[o][t].committed # None
      PROVE  status'[o][t].committed # None
  <2>1. Grows(status[o][t], status'[o][t])
    BY SlotsGrow
  <2> QED
    BY <1>1, <2>1 DEF Grows
<1> QED
  BY <1>1 DEF Stays

(* A slot of the past stays closed, and one from a later checkpoint on is   *)
(* one from the former.                                                     *)
LEMMA ClosedStays ==
  ASSUME NodesAssumption, TypeOK, NoOpenSlots, Stays, CheckpointsGrow, NEW n \in Node,
         NEW s \in ckpt'[n].next .. lastCommit[n]
  PROVE  s < MaxSlot /\ status'[n][s].committed # None
<1>1. /\ ckpt[n].next \in Nat /\ ckpt'[n].next \in Nat /\ ckpt[n].next <= ckpt'[n].next
      /\ lastCommit[n] \in Int
  BY DEF TypeOK, CheckpointsGrow, NoOpenSlots
<1>2. s \in ckpt[n].next .. lastCommit[n] /\ s \in Nat
  BY <1>1
<1>3. s < MaxSlot /\ status[n][s].committed # None
  BY <1>2 DEF NoOpenSlots
<1>4. s \in Slot
  BY <1>2, <1>3 DEF Slot
<1> QED
  BY <1>3, <1>4 DEF Stays

(* Where last_commit_slot stays, no slot comes in question. *)
LEMMA SameBooked ==
  ASSUME NodesAssumption, TypeOK, NoOpenSlots, Stays, CheckpointsGrow, lastCommit' = lastCommit
  PROVE  NoOpenSlots'
BY ClosedStays DEF NoOpenSlots

(* A commit either leaves the last commit slot alone or completes the next  *)
(* slot, which is answered and may fill a checkpoint.                       *)
Completes(n, s, p) ==
  /\ n \in Live /\ n \in Node /\ s \in Slot /\ p \in Proposal
  /\ s >= ckpt[n].next /\ lastCommit[n] = s - 1
  /\ lastCommit' = [lastCommit EXCEPT ![n] = s] /\ status'[n][s].committed = p
  /\ \A k \in net' : \/ k \in net
                     \/ k.type = "reply" /\ k.from = n /\ k.prop = p
                     \/ FillsCheckpoint(s) /\ k \in Vote(n, status'[n], ckpt[n], s)

LEMMA replyCompletes ==
  ASSUME NodesAssumption, TypeOK, NoOpenSlots, NEW m \in net, reply(m.to, m)
  PROVE  /\ UNCHANGED <<ckpt, ckptVotes>>
         /\ \/ net' = net \ {m} /\ lastCommit' = lastCommit
            \/ \E n \in Node, s \in Slot, p \in Proposal : Completes(n, s, p)
<1>1. m.type = "commit" /\ MessageOK(m)
  BY replyKeeps DEF TypeOK
<1>2. PICK n \in Node, s \in Slot, v \in Views, p \in Proposal, a \in Node :
        n = m.to /\ m.slot = s /\ m.view = v /\ m.prop = p /\ a = m.from /\ n \in Live
  BY SMTT(30), <1>1 DEF MessageOK, Phase, Announce
<1>3. UNCHANGED <<ckpt, ckptVotes>>
  BY replyKeeps
<1>4. CASE ~(Current(m.to, m) /\ _legal_slot(m.to, m.slot))
  BY <1>3, <1>4, replyKeeps
<1>5. CASE Current(m.to, m) /\ _legal_slot(m.to, m.slot)
  <2> DEFINE old  == status[n][s]
             new  == [old EXCEPT !.known = TRUE, !.commits = @ \cup {<<v, p, a>>}]
             cert == old.committed = None /\ Majority(new.commits)
             goes == cert /\ lastCommit[n] = s - 1 /\ ~old.done
             st   == IF cert THEN [new EXCEPT !.committed = p, !.done = @ \/ goes] ELSE new
             all  == [status[n] EXCEPT ![s] = st]
  <2>1. /\ status' = [status EXCEPT ![n] = all]
        /\ lastCommit' = [lastCommit EXCEPT ![n] = IF goes THEN s ELSE @]
        /\ net' = (net \ {m}) \cup
             (IF goes THEN Posted({Msg(n, "reply", n, v, s, p)}) ELSE {}) \cup
             (IF goes /\ FillsCheckpoint(s) THEN Vote(n, all, ckpt[n], s) ELSE {})
    BY Zenon, <1>2, <1>5 DEF reply
  <2>2. \A k \in Posted({Msg(n, "reply", n, v, s, p)}) : k.type = "reply" /\ k.from = n /\ k.prop = p
    BY DEF Posted, Msg
  <2>3. CASE ~goes
    <3>1. lastCommit' = lastCommit /\ net' = net \ {m}
      BY <2>1, <2>3 DEF NoOpenSlots
    <3> QED
      BY <1>3, <3>1
  <2>4. CASE goes
    <3>1. lastCommit' = [lastCommit EXCEPT ![n] = s] /\ lastCommit[n] = s - 1
      BY <2>1, <2>4
    <3>2. status'[n] = all
      BY <2>1 DEF TypeOK
    <3>3. status'[n][s].committed = p
      <4>1. all[s] = st
        BY DEF TypeOK
      <4>2. st = [new EXCEPT !.committed = p, !.done = @ \/ goes]
        BY <2>4
      <4>3. new \in StatusType
        <5>1. old \in StatusType
          BY DEF TypeOK
        <5>2. old.commits \cup {<<v, p, a>>} \in Counts
          BY <5>1 DEF StatusType, Counts
        <5> QED
          BY <5>1, <5>2 DEF StatusType
      <4>4. st.committed = p
        <5> HIDE DEF new, goes
        <5> QED
          BY <4>2, <4>3 DEF StatusType
      <4> QED
        BY <3>2, <4>1, <4>4
    <3>4. s >= ckpt[n].next
      BY <1>2, <1>5 DEF _legal_slot
    <3> HIDE DEF old, new, cert, goes, st, all
    <3>5. Completes(n, s, p)
      BY <1>2, <2>1, <2>2, <3>1, <3>2, <3>3, <3>4 DEF Completes
    <3> QED
      BY <1>3, <3>5
  <2> QED
    BY SMTT(30), <2>3, <2>4
<1> QED
  BY SMTT(30), <1>4, <1>5

(* last_commit_slot of one node moves, over slots that are closed. *)
LEMMA MovedBooked ==
  ASSUME NodesAssumption, TypeOK, NoOpenSlots, Stays, CheckpointsGrow, NEW n \in Node,
         NEW l \in Int, l >= -1, lastCommit' = [lastCommit EXCEPT ![n] = l],
         \A s \in ckpt'[n].next .. l : s <= lastCommit[n] \/ (s < MaxSlot /\ status'[n][s].committed # None)
  PROVE  NoOpenSlots'
<1>1. lastCommit \in [Node -> Int] /\ \A o \in Node : lastCommit[o] >= -1
  BY DEF NoOpenSlots
<1>2. lastCommit' \in [Node -> Int] /\ \A o \in Node : lastCommit'[o] = IF o = n THEN l ELSE lastCommit[o]
  BY <1>1
<1>3. ASSUME NEW o \in Node, NEW s \in ckpt'[o].next .. lastCommit'[o]
      PROVE  s < MaxSlot /\ status'[o][s].committed # None
  <2>1. CASE o # n
    BY <1>2, <1>3, <2>1, ClosedStays
  <2>2. CASE o = n /\ s <= lastCommit[n]
    <3>1. ckpt'[n].next \in Nat
      BY DEF CheckpointsGrow
    <3>2. s \in ckpt'[n].next .. lastCommit[n]
      BY <1>1, <1>2, <1>3, <2>2, <3>1
    <3> QED
      BY <2>2, <3>2, ClosedStays
  <2>3. CASE o = n /\ ~(s <= lastCommit[n])
    BY <1>2, <1>3, <2>3
  <2> QED
    BY <2>1, <2>2, <2>3
<1>4. \A o \in Node : lastCommit'[o] >= -1
  BY <1>1, <1>2
<1> QED
  BY <1>2, <1>3, <1>4 DEF NoOpenSlots

LEMMA replyBooked ==
  ASSUME NodesAssumption, TypeOK, NoOpenSlots, Stays, CheckpointsGrow, NEW m \in net, reply(m.to, m)
  PROVE  NoOpenSlots'
<1>1. CASE lastCommit' = lastCommit
  BY <1>1, SameBooked
<1>2. ASSUME NEW n \in Node, NEW s \in Slot, NEW p \in Proposal, Completes(n, s, p) PROVE NoOpenSlots'
  <2>1. /\ lastCommit' = [lastCommit EXCEPT ![n] = s] /\ lastCommit[n] = s - 1
        /\ status'[n][s].committed = p /\ p # None
    BY <1>2 DEF Completes, Proposal
  <2>2. s \in Int /\ s >= -1 /\ s < MaxSlot
    BY DEF Slot
  <2>3. ckpt'[n].next \in Nat
    BY DEF CheckpointsGrow
  <2>4. ASSUME NEW t \in ckpt'[n].next .. s
        PROVE  t <= lastCommit[n] \/ (t < MaxSlot /\ status'[n][t].committed # None)
    BY <2>1, <2>2, <2>3
  <2> QED
    BY <2>1, <2>2, <2>4, MovedBooked
<1> QED
  BY <1>1, <1>2, replyCompletes

LEMMA receive_view_change_voteBooked ==
  ASSUME NodesAssumption, TypeOK, NoOpenSlots, Stays, CheckpointsGrow, NEW m \in net,
         receive_view_change_vote(m.to, m)
  PROVE  NoOpenSlots'
<1>1. PICK n \in Node : n = m.to
  BY DEF TypeOK, MessageOK
<1>2. PICK k : k = Newer(ckpt[n], m.slot)
  BY SMTT(30)
<1>3. /\ ckpt' = [ckpt EXCEPT ![n] = k]
      /\ lastCommit' = [lastCommit EXCEPT ![n] = Later(@, k.next - 1)]
  BY <1>1, <1>2 DEF receive_view_change_vote
<1>4. ckpt'[n] = k /\ k.next \in Nat
  BY <1>3 DEF TypeOK, CheckpointsGrow
<1>5. PICK l : l = Later(lastCommit[n], k.next - 1)
  OBVIOUS
<1>6. lastCommit[n] \in Int /\ lastCommit[n] >= -1
  BY DEF NoOpenSlots
<1>7. l \in Int /\ l >= -1 /\ (l = lastCommit[n] \/ l = k.next - 1)
  BY <1>4, <1>5, <1>6 DEF Later
<1>8. lastCommit' = [lastCommit EXCEPT ![n] = l]
  BY <1>3, <1>5
<1>9. \A s \in ckpt'[n].next .. l : s <= lastCommit[n]
  BY <1>4, <1>6, <1>7
<1> QED
  BY <1>7, <1>8, <1>9, MovedBooked

(* A stretch of the loop of receive_sync, from last_commit_slot or from the *)
(* checkpoint.                                                              *)
LEMMA LoopBooked ==
  ASSUME NodesAssumption, TypeOK, NoOpenSlots, Stays, CheckpointsGrow, NEW n \in Node, NEW m, NEW st,
         DOMAIN st = Slot, status'[n] = st, NEW k, ckpt'[n] = k,
         NEW l, l = lastCommit[n] \/ l = Later(lastCommit[n], k.next - 1), Loop(n, m, k, st, l)
  PROVE  NoOpenSlots'
<1>1. lastCommit[n] \in Int /\ lastCommit[n] >= -1 /\ k.next \in Nat
  BY DEF NoOpenSlots, CheckpointsGrow
<1>2. l \in Int /\ l >= -1 /\ (l = lastCommit[n] \/ l = k.next - 1)
  BY <1>1 DEF Later
<1>3. PICK l2 : l2 = Advance(st, l)
  OBVIOUS
<1>4. l2 \in Int /\ l2 >= l /\ \A s \in l + 1 .. l2 : s \in Slot /\ st[s].committed # None
  BY <1>2, <1>3, AdvanceIs
<1>5. lastCommit' = [lastCommit EXCEPT ![n] = l2]
  BY <1>3, Zenon DEF Loop
<1>6. ASSUME NEW s \in ckpt'[n].next .. l2
      PROVE  s <= lastCommit[n] \/ (s < MaxSlot /\ status'[n][s].committed # None)
  <2>1. CASE s > l
    <3>1. s \in l + 1 .. l2
      BY <1>1, <1>2, <1>4, <2>1
    <3> QED
      BY <1>4, <3>1 DEF Slot
  <2>2. CASE ~(s > l)
    BY <1>1, <1>2, <1>4, <2>2
  <2> QED
    BY <2>1, <2>2
<1>7. l2 >= -1
  BY <1>2, <1>4
<1> QED
  BY <1>4, <1>5, <1>6, <1>7, MovedBooked

LEMMA receive_syncBooked ==
  ASSUME NodesAssumption, TypeOK, NoOpenSlots, Stays, CheckpointsGrow, NEW m \in net, receive_sync(m.to, m)
  PROVE  NoOpenSlots'
<1> DEFINE n  == m.to
           k  == Newer(ckpt[n], m.slot)
           l  == Later(lastCommit[n], k.next - 1)
           st == [s \in Slot |->
                    IF s \in DOMAIN m.prop /\ s >= k.next /\ s < Upperbound(k) /\ status[n][s].committed = None
                    THEN [status[n][s] EXCEPT !.known = TRUE, !.committed = m.prop[s]]
                    ELSE status[n][s]]
<1>1. /\ ckpt' = [ckpt EXCEPT ![n] = k]
      /\ status' = [status EXCEPT ![n] = st]
      /\ Loop(n, m, k, st, l)
  BY Zenon DEF receive_sync
<1>2. n \in Node
  BY DEF TypeOK, MessageOK
<1>3. DOMAIN st = Slot
  OBVIOUS
<1> HIDE DEF n, k, st
<1>4. status'[n] = st /\ ckpt'[n] = k
  BY <1>1, <1>2 DEF TypeOK
<1> QED
  BY <1>1, <1>2, <1>3, <1>4, LoopBooked

LEMMA receive_sync_resumesBooked ==
  ASSUME NodesAssumption, TypeOK, NoOpenSlots, Stays, CheckpointsGrow, NEW m \in net,
         receive_sync_resumes(m.to, m)
  PROVE  NoOpenSlots'
<1>1. PICK n \in Node : n = m.to
  BY DEF TypeOK, MessageOK
<1>2. PICK st, k, l : st = status[n] /\ k = ckpt[n] /\ l = lastCommit[n]
  OBVIOUS
<1>3. /\ UNCHANGED <<status, ckpt>> /\ Loop(n, m, k, st, l)
  BY <1>1, <1>2 DEF receive_sync_resumes
<1>4. DOMAIN st = Slot /\ status'[n] = st /\ ckpt'[n] = k
  BY <1>2, <1>3 DEF TypeOK
<1> QED
  BY <1>2, <1>3, <1>4, LoopBooked

LEMMA BubbleInvStep ==
  ASSUME NodesAssumption, BubbleInv, [Next]_vars
  PROVE  BubbleInv'
<1>1. TypeOK /\ NoOpenSlots
  BY DEF BubbleInv
<1>2. Summary /\ TypeOK'
  BY <1>1, StepIsKind, StepSummary, TypeStep
<1>3. Stays /\ CheckpointsGrow
  BY <1>2, StepStays DEF Summary
<1>4. ASSUME lastCommit' = lastCommit PROVE NoOpenSlots'
  BY <1>1, <1>3, <1>4, SameBooked
<1>5. ASSUME NEW m \in net, reply(m.to, m) PROVE NoOpenSlots'
  BY <1>1, <1>3, <1>5, replyBooked
<1>6. ASSUME NEW m \in net, receive_sync(m.to, m) PROVE NoOpenSlots'
  BY ZenonT(30), <1>1, <1>3, <1>6, receive_syncBooked
<1>7. ASSUME NEW m \in net, receive_sync_resumes(m.to, m) PROVE NoOpenSlots'
  BY <1>1, <1>3, <1>7, receive_sync_resumesBooked
<1>8. ASSUME NEW m \in net, receive_view_change_vote(m.to, m) PROVE NoOpenSlots'
  BY <1>1, <1>3, <1>8, receive_view_change_voteBooked
<1>9. \/ lastCommit' = lastCommit
      \/ \E m \in net : \/ reply(m.to, m)
                        \/ receive_sync(m.to, m)
                        \/ receive_sync_resumes(m.to, m)
                        \/ receive_view_change_vote(m.to, m)
  BY ZenonT(30) DEF Next, vars, nodeVars, NextRequest, Resend, get_reply, get_request, preprepare, prepare, commit,
         receive_ckpt_vote, synchronize, get_view_change_request
<1>10. NoOpenSlots'
  BY <1>4, <1>5, <1>6, <1>7, <1>8, <1>9
<1> QED
  BY <1>2, <1>10 DEF BubbleInv

LEMMA BubbleInvInit ==
  ASSUME NodesAssumption, Init
  PROVE  BubbleInv
<1>1. NoOpenSlots
  BY DEF Init, NoOpenSlots, NoCheckpoint
<1> QED
  BY <1>1, TypeInit DEF BubbleInv

(* No open slot lies between a node's checkpoint and its last commit slot,  *)
(* whatever commits, synchronisations, checkpoints and view changes come in *)
(* whatever order: get_commit_decisions finds a certificate for each.       *)
THEOREM NoBubblesHolds ==
  ASSUME NodesAssumption
  PROVE  Spec => []NoBubbles
<1>1. Init => BubbleInv
  BY BubbleInvInit
<1>2. BubbleInv /\ [Next]_vars => BubbleInv'
  BY BubbleInvStep
<1>3. BubbleInv => NoBubbles
  BY DEF BubbleInv, NoOpenSlots, NoBubbles
<1> QED
  BY <1>1, <1>2, <1>3, PTL DEF Spec

-----------------------------------------------------------------------------
(* What the leader of view 1 proposes. *)

(* It lies above the leader's checkpoint, so a voter that committed is one  *)
(* whose commit is kept.                                                    *)
LEMMA AgreeInvKeepsCommitted ==
  ASSUME NodesAssumption, AgreeInv
  PROVE  NewViewKeepsCommitted
<1> SUFFICES ASSUME NEW m \in net, NEW o \in Live, m.type \in Announce, m.view > 0,
                    m.slot >= ckpt[m.from].next, status[o][m.slot].committed # None
             PROVE  m.prop = status[o][m.slot].committed
  BY DEF NewViewKeepsCommitted, Announce
<1>1. PICK s \in Slot : s = m.slot
  BY DEF AgreeInv, TypeOK, MessageOK, Phase
<1>2. m.view = 1
  <2>1. m.view \in Nat /\ m.view <= 1
    BY DEF AgreeInv, TypeOK, MessageOK, Phase, FirstViews, Views
  <2> QED
    BY <2>1
<1>3. m.prop \in Proposed(1, s)
  BY <1>1, <1>2, ProposedIs DEF Phase
<1>4. m.from = 1
  BY <1>2 DEF AgreeInv, OneLeader
<1>5. PICK p : p = status[o][s].committed
  OBVIOUS
<1>6. CommitCounted(s, p)
  BY <1>1, <1>5 DEF AgreeInv, CertificatesBacked, TypeOK, NodesAssumption
<1>7. PICK v \in {0, 1}, Q \in SUBSET Node :
        Cardinality(Q) >= 2 * f + 1 /\ \A n \in Q : p \in CommitsSent(n, v, s)
  BY <1>6, CommitCountedIsSent DEF AgreeInv
<1>8. isLeader[1]
  BY <1>3 DEF AgreeInv, OneProposal
<1>9. PICK V \in SUBSET Node : Cardinality(V) >= 2 * f + 1 /\ Settled(V)
  BY <1>8, HandoverIs DEF AgreeInv
<1>10. PICK n : n \in Q /\ n \in V
  BY <1>7, <1>9, ThreeQuorums
<1>11. p \in CommitsSent(n, v, s) /\ p \in Proposed(v, s) /\ n \in Node
  BY <1>7, <1>10, SentIsProposed
<1>12. CASE v = 1
  BY <1>1, <1>3, <1>5, <1>11, <1>12 DEF AgreeInv, OneProposal
<1>13. CASE v = 0
  <2>1. ~(ckpt[1].next > s)
    <3>1. s >= ckpt[1].next /\ ckpt[1].next \in Nat
      BY <1>1, <1>4 DEF AgreeInv, TypeOK, MessageOK
    <3> QED
      BY <3>1 DEF Slot
  <2>2. Keeps(s, p)
    BY <1>9, <1>10, <1>11, <1>13, <2>1 DEF Settled
  <2> QED
    BY <1>1, <1>3, <1>5, <2>2 DEF Keeps
<1> QED
  BY <1>7, <1>12, <1>13

(* Until a node is asked to change the view a second time, the leader of    *)
(* view 1 proposes, for a slot above its checkpoint that some node has      *)
(* committed, nothing but the committed proposal.                           *)
THEOREM NewViewKeepsCommittedHolds ==
  ASSUME NodesAssumption
  PROVE  Spec => [](OneChange => NewViewKeepsCommitted)
<1>1. (OneChange => AgreeInv) => (OneChange => NewViewKeepsCommitted)
  BY AgreeInvKeepsCommitted
<1> QED
  BY <1>1, AgreeInvHolds, PTL

-----------------------------------------------------------------------------
(* Before the first checkpoint: what the client was told. *)

(* No slot fills a checkpoint. *)
LEMMA NoneFills ==
  ASSUME NodesAssumption, BeforeCheckpoint, NEW s \in Slot
  PROVE  ~FillsCheckpoint(s)
<1>1. PICK x : x = s + 1
  OBVIOUS
<1>2. x \in Nat /\ 0 < x /\ x < Interval
  BY <1>1 DEF Slot, BeforeCheckpoint
<1>3. x % Interval = x
  BY <1>2
<1> QED
  BY <1>1, <1>2, <1>3 DEF FillsCheckpoint

(* What a step sends carries no checkpoint, and a reply names what its       *)
(* sender committed.                                                        *)
Sound(k) ==
  /\ k.type # "ckpt_vote"
  /\ k.type \in {"sync", "vc_vote"} => k.slot.next = 0
  /\ k.type = "reply" => k.from \in Live /\ InHistory(k.from, k.prop)'

(* No node goes back, or takes a checkpoint. *)
LastGrows   == \A o \in Node : lastCommit[o] <= lastCommit'[o]
SoundSends  == \A k \in net' : k \in net \/ Sound(k)
NoneReached == \A o \in Node : ckpt'[o] = ckpt[o]

StepSound == LastGrows /\ NoneReached /\ SoundSends

(* Most actions leave all of it alone. *)
LEMMA PlainIsSound ==
  ASSUME NodesAssumption, NoOpenSlots, lastCommit' = lastCommit, ckpt' = ckpt,
         \A k \in net' : k \in net \/ k.type \notin {"ckpt_vote", "sync", "vc_vote", "reply"}
  PROVE  StepSound
<1>1. LastGrows
  BY DEF LastGrows, NoOpenSlots
<1>2. SoundSends
  BY DEF SoundSends, Sound
<1> QED
  BY <1>1, <1>2 DEF StepSound, NoneReached

LEMMA replyIsSound ==
  ASSUME NodesAssumption, BeforeCheckpoint, TypeOK, NoOpenSlots, NEW m \in net, reply(m.to, m)
  PROVE  StepSound
<1>1. lastCommit \in [Node -> Int] /\ NoneReached
  BY replyKeeps DEF NoOpenSlots, NoneReached
<1>2. ASSUME net' = net \ {m}, lastCommit' = lastCommit PROVE StepSound
  BY <1>1, <1>2 DEF LastGrows, SoundSends, StepSound
<1>3. ASSUME NEW n \in Node, NEW s \in Slot, NEW p \in Proposal, Completes(n, s, p)
      PROVE  StepSound
  <2>1. s \in Nat /\ lastCommit' = [lastCommit EXCEPT ![n] = s] /\ lastCommit[n] = s - 1
    BY <1>3 DEF Completes, Slot
  <2>2. lastCommit'[n] = s
    BY <1>1, <2>1
  <2>3. InHistory(n, p)'
    BY <1>3, <2>1, <2>2 DEF InHistory, Completes
  <2>4. ~FillsCheckpoint(s)
    BY NoneFills
  <2>5. SoundSends
    BY <1>3, <2>3, <2>4 DEF SoundSends, Sound, Completes
  <2>6. LastGrows
    BY <1>1, <2>1 DEF LastGrows
  <2> QED
    BY <1>1, <2>5, <2>6 DEF StepSound
<1> QED
  BY <1>2, <1>3, replyCompletes

(* A stretch of the loop of receive_sync fills nothing. *)
LEMMA LoopIsSound ==
  ASSUME NodesAssumption, BeforeCheckpoint, NoOpenSlots, NEW n \in Node, NEW m \in net, NEW st,
         DOMAIN st = Slot, NEW k, Loop(n, m, k, st, lastCommit[n])
  PROVE  LastGrows /\ SoundSends
<1>1. PICK l : l = lastCommit[n]
  OBVIOUS
<1>2. l \in Int /\ l >= -1
  BY <1>1 DEF NoOpenSlots
<1>3. PICK l2 : l2 = Advance(st, l)
  OBVIOUS
<1>4. l2 \in Int /\ l2 >= l /\ \A s \in l + 1 .. l2 : s \in Slot
  BY <1>2, <1>3, AdvanceIs
<1>5. ~(l2 > l /\ FillsCheckpoint(l2))
  <2>1. ASSUME l2 > l PROVE l2 \in Slot
    BY <1>2, <1>4, <2>1
  <2> QED
    BY <2>1, NoneFills
<1>6. /\ lastCommit' = [lastCommit EXCEPT ![n] = l2]
      /\ net' = (net \ {m}) \cup (IF l2 > l /\ FillsCheckpoint(l2)
                                  THEN Vote(n, st, k, l2) \cup {Msg(n, "loop", m.from, 0, 0, None)}
                                  ELSE {})
  BY <1>1, <1>3, Zenon DEF Loop
<1>7. net' = net \ {m}
  BY <1>5, <1>6
<1>8. LastGrows
  BY <1>1, <1>2, <1>4, <1>6 DEF LastGrows, NoOpenSlots
<1> QED
  BY <1>7, <1>8 DEF SoundSends

(* Every checkpoint that is heard of is the first. *)
LEMMA NewerStays ==
  ASSUME NodesAssumption, NoCheckpoints, NEW m \in net, m.type \in {"sync", "vc_vote"}, NEW n \in Node
  PROVE  /\ Newer(ckpt[n], m.slot) = ckpt[n] /\ ckpt[n].next = 0
         /\ m.type = "sync" => m.slot.next = 0
BY DEF NoCheckpoints, Newer, NoCheckpoint

LEMMA receive_syncIsSound ==
  ASSUME NodesAssumption, BeforeCheckpoint, TypeOK, NoOpenSlots, NoCheckpoints, NEW m \in net,
         receive_sync(m.to, m)
  PROVE  StepSound
<1>1. m.type = "sync" /\ m.to \in Node
  BY Zenon DEF receive_sync, TypeOK, MessageOK
<1> DEFINE n  == m.to
           k  == Newer(ckpt[n], m.slot)
           st == [s \in Slot |->
                    IF s \in DOMAIN m.prop /\ s >= k.next /\ s < Upperbound(k) /\ status[n][s].committed = None
                    THEN [status[n][s] EXCEPT !.known = TRUE, !.committed = m.prop[s]]
                    ELSE status[n][s]]
<1>2. /\ ckpt' = [ckpt EXCEPT ![n] = k]
      /\ Loop(n, m, k, st, Later(lastCommit[n], k.next - 1))
  BY Zenon DEF receive_sync
<1>3. DOMAIN st = Slot
  OBVIOUS
<1>4. n \in Node
  BY <1>1
<1>5. k = ckpt[n] /\ k.next = 0
  BY <1>1, NewerStays
<1> HIDE DEF n, k, st
<1>6. Later(lastCommit[n], k.next - 1) = lastCommit[n]
  BY <1>4, <1>5 DEF Later, NoOpenSlots
<1>7. m \in net
  OBVIOUS
<1>8. LastGrows /\ SoundSends
  BY <1>2, <1>3, <1>4, <1>6, <1>7, LoopIsSound
<1>9. NoneReached
  BY <1>2, <1>4, <1>5 DEF NoneReached, TypeOK
<1> QED
  BY <1>8, <1>9 DEF StepSound

LEMMA receive_sync_resumesIsSound ==
  ASSUME NodesAssumption, BeforeCheckpoint, TypeOK, NoOpenSlots, NEW m \in net,
         receive_sync_resumes(m.to, m)
  PROVE  StepSound
<1>1. m.to \in Node
  BY DEF TypeOK, MessageOK
<1>2. PICK st, k : st = status[m.to] /\ k = ckpt[m.to]
  OBVIOUS
<1>3. ckpt' = ckpt /\ Loop(m.to, m, k, st, lastCommit[m.to])
  BY <1>2 DEF receive_sync_resumes
<1>4. DOMAIN st = Slot
  BY <1>1, <1>2 DEF TypeOK
<1>5. LastGrows /\ SoundSends
  BY <1>1, <1>3, <1>4, LoopIsSound
<1> QED
  BY <1>3, <1>5 DEF StepSound, NoneReached

LEMMA receive_view_change_voteIsSound ==
  ASSUME NodesAssumption, TypeOK, NoOpenSlots, NoCheckpoints, NEW m \in net,
         receive_view_change_vote(m.to, m)
  PROVE  StepSound
<1>1. PICK n \in Node : n = m.to
  BY DEF TypeOK, MessageOK
<1>2. PICK k : k = Newer(ckpt[n], m.slot)
  BY Zenon
<1>3. /\ m.type = "vc_vote"
      /\ ckpt' = [ckpt EXCEPT ![n] = k]
      /\ lastCommit' = [lastCommit EXCEPT ![n] = Later(@, k.next - 1)]
  BY <1>1, <1>2 DEF receive_view_change_vote
<1>4. k = ckpt[n] /\ k.next = 0
  BY <1>2, <1>3, NewerStays
<1>5. lastCommit \in [Node -> Int] /\ lastCommit[n] >= -1
  BY DEF NoOpenSlots
<1>6. LastGrows
  BY <1>3, <1>4, <1>5 DEF LastGrows, Later
<1>7. NoneReached
  BY <1>3, <1>4 DEF NoneReached, TypeOK
<1>8. ASSUME NEW o \in Node, TakesOver(m, o) PROVE SoundSends
  BY <1>8 DEF TakesOver, SoundSends, Sound
<1>9. ASSUME net' \subseteq net PROVE SoundSends
  BY <1>9 DEF SoundSends
<1> QED
  BY <1>6, <1>7, <1>8, <1>9, receive_view_change_voteDoes DEF StepSound

LEMMA StepIsSound ==
  ASSUME NodesAssumption, BeforeCheckpoint, TypeOK, NoOpenSlots, NoCheckpoints, [Next]_vars
  PROVE  StepSound
<1> USE DEF NoCheckpoints
<1>1. ASSUME UNCHANGED vars PROVE StepSound
  BY <1>1, PlainIsSound DEF vars, nodeVars
<1>2. ASSUME NextRequest PROVE StepSound
  <2>1. lastCommit' = lastCommit /\ ckpt' = ckpt
    BY <1>2 DEF NextRequest, nodeVars
  <2>2. \A k \in net' : k \in net \/ k.type = "request"
    BY <1>2 DEF NextRequest, Request, Posted, Msg
  <2> QED
    BY <2>1, <2>2, PlainIsSound
<1>3. ASSUME Resend PROVE StepSound
  <2>1. lastCommit' = lastCommit /\ ckpt' = ckpt
    BY <1>3 DEF Resend, nodeVars
  <2>2. PICK c : net' \subseteq net \cup Request(c) \cup Post("view_change", 0, 0, 0, None)
    BY <1>3 DEF Resend
  <2>3. \A k \in Request(c) \cup Post("view_change", 0, 0, 0, None) : k.type \in {"request", "view_change"}
    BY DEF Request, Post, Posted, Msg
  <2> QED
    BY <2>1, <2>2, <2>3, PlainIsSound
<1>4. ASSUME NEW m \in net, get_reply(m) PROVE StepSound
  BY <1>4, PlainIsSound DEF get_reply, nodeVars
<1>5. ASSUME NEW m \in net, get_request(m.to, m) PROVE StepSound
  <2>1. m.type = "request" /\ lastCommit' = lastCommit /\ ckpt' = ckpt
    BY <1>5 DEF get_request, nodeVars
  <2>2. \A k \in Posted({[m EXCEPT !.to = followView[m.to] % N]} \ {m}) : k.type = "request"
    <3>1. m = Msg(m.to, "request", 0, 0, 0, m.prop)
      BY <2>1 DEF TypeOK, MessageOK
    <3> QED
      BY <3>1 DEF Posted, Msg
  <2>3. Left(m, "reading").type = "reading"
    BY DEF Left, Msg
  <2>4. \A k \in net' : k \in net \/ k.type \in {"request", "reading"}
    BY <1>5, <2>2, <2>3 DEF get_request
  <2> QED
    BY <2>1, <2>4, PlainIsSound
<1>6. ASSUME NEW m \in net, preprepare(m.to, m) PROVE StepSound
  <2>1. PICK v, s : /\ net' = (net \ {m}) \cup Post("preprepare", m.to, v, s, m.prop)
                    /\ lastCommit' = lastCommit /\ ckpt' = ckpt
    BY <1>6 DEF preprepare
  <2> QED
    BY <2>1, PostIs, PlainIsSound
<1>7. ASSUME NEW m \in net, prepare(m.to, m) PROVE StepSound
  <2>1. lastCommit' = lastCommit /\ ckpt' = ckpt
    BY <1>7 DEF prepare
  <2>2. \A k \in net' : k \in net \/ k.type \in {"slots", "prepare"}
    <3>1. \A k \in Post("prepare", m.to, m.view, m.slot, m.prop) : k.type = "prepare"
      BY PostIs
    <3>2. \A k \in Rest(m) : Left(k, "slots").type = "slots"
      BY DEF Left, Msg
    <3> QED
      BY <1>7, <3>1, <3>2 DEF prepare
  <2> QED
    BY <2>1, <2>2, PlainIsSound
<1>8. ASSUME NEW m \in net, commit(m.to, m) PROVE StepSound
  <2>1. /\ net' \subseteq net \cup Post("commit", m.to, m.view, m.slot, m.prop)
        /\ lastCommit' = lastCommit /\ ckpt' = ckpt
    BY <1>8 DEF commit
  <2> QED
    BY <2>1, PostIs, PlainIsSound
<1>9. ASSUME NEW m \in net, receive_ckpt_vote(m.to, m) PROVE FALSE
  BY <1>9 DEF receive_ckpt_vote
<1>10. ASSUME NEW n \in Live, synchronize(n) PROVE StepSound
  <2>1. PICK c : net' = net \cup Post("sync", n, 0, ckpt[n], c)
    BY <1>10 DEF synchronize
  <2>2. lastCommit' = lastCommit /\ ckpt' = ckpt
    BY <1>10 DEF synchronize, nodeVars
  <2>3. ckpt[n].next = 0
    BY DEF NoCheckpoint
  <2>4. SoundSends
    BY <2>1, <2>3, PostIs DEF SoundSends, Sound
  <2> QED
    BY <2>2, <2>4 DEF StepSound, LastGrows, NoneReached, NoOpenSlots
<1>11. ASSUME NEW m \in net, get_view_change_request(m.to, m) PROVE StepSound
  <2>1. PICK c, v : net' = (net \ {m}) \cup Post("vc_vote", m.to, v, ckpt[m.to], c)
    BY <1>11 DEF get_view_change_request
  <2>2. lastCommit' = lastCommit /\ ckpt' = ckpt
    BY <1>11 DEF get_view_change_request
  <2>3. ckpt[m.to].next = 0
    BY DEF NoCheckpoint, TypeOK, MessageOK
  <2>4. SoundSends
    BY <2>1, <2>3, PostIs DEF SoundSends, Sound
  <2> QED
    BY <2>2, <2>4 DEF StepSound, LastGrows, NoneReached, NoOpenSlots
<1> QED
  BY <1>1, <1>2, <1>3, <1>4, <1>5, <1>6, <1>7, <1>8, <1>9, <1>10, <1>11, replyIsSound,
     receive_syncIsSound, receive_sync_resumesIsSound, receive_view_change_voteIsSound DEF Next

(* f+1 replies of one view stay f+1 when more are counted. *)
LEMMA SucceedsStays ==
  ASSUME NodesAssumption, NEW C \in Counts, NEW D \in Counts, C \subseteq D, Succeeds(C)
  PROVE  Succeeds(D)
<1>1. PICK c \in C : Cardinality(Group(C, c[1], c[2])) >= f + 1
  BY DEF Succeeds, Group
<1>2. PICK v, p : v = c[1] /\ p = c[2]
  OBVIOUS
<1>3. Senders(C, v, p) \in SUBSET Senders(D, v, p)
  BY DEF Senders
<1>4. Cardinality(Senders(C, v, p)) <= Cardinality(Senders(D, v, p))
  BY <1>3, GroupIsSenders, FS_Subset
<1>5. PICK x, y : x = Cardinality(Group(C, v, p)) /\ y = Cardinality(Group(D, v, p))
  OBVIOUS
<1>6. x \in Nat /\ y \in Nat /\ x <= y
  BY <1>4, <1>5, GroupIsSenders
<1>7. Cardinality(Group(D, v, p)) >= f + 1
  BY <1>1, <1>2, <1>5, <1>6
<1>8. c \in D
  BY <1>1
<1> QED
  BY <1>2, <1>7, <1>8 DEF Succeeds, Group

(* What a node committed stays in its history. *)
LEMMA HistoryStays ==
  ASSUME NodesAssumption, HistoryInv, Summary, LastGrows, BubbleInv',
         NEW n \in Node, NEW p, InHistory(n, p)
  PROVE  InHistory(n, p)'
<1>1. PICK s \in 0 .. lastCommit[n] : status[n][s].committed = p
  BY DEF InHistory
<1>2. ckpt[n].next = 0 /\ lastCommit[n] \in Int
  BY DEF HistoryInv, NoCheckpoints, NoCheckpoint, BubbleInv, NoOpenSlots
<1>3. s \in Slot /\ status[n][s].committed # None
  BY <1>1, <1>2 DEF HistoryInv, BubbleInv, NoOpenSlots, Slot
<1>4. status'[n][s].committed = p
  <2>1. Grows(status[n][s], status'[n][s])
    BY <1>3, SlotsGrow
  <2> QED
    BY <1>1, <1>3, <2>1 DEF Grows
<1>5. s \in 0 .. lastCommit'[n]
  <2>1. lastCommit[n] \in Int /\ lastCommit'[n] \in Int /\ lastCommit[n] <= lastCommit'[n]
    BY DEF HistoryInv, BubbleInv, NoOpenSlots, LastGrows
  <2> QED
    BY <1>1, <2>1
<1> QED
  BY <1>4, <1>5 DEF InHistory

(* What the client counts it was told; it goes on with f+1 replies. *)
LEMMA ClientCounts ==
  ASSUME NodesAssumption, TypeOK, HistoryInv, [Next]_vars
  PROVE  /\ \A c \in client'.replies :
              \/ c \in client.replies
              \/ \E m \in net : m.type = "reply" /\ c[2] = m.prop /\ c[3] = m.from
         /\ client'.ok /\ client'.req > 0 => Succeeds(client'.replies)
<1> USE DEF HistoryInv
<1>1. client \in [req : Nat, attempt : Nat, failures : Nat, dest : Node,
                  replies : SUBSET (Views \X Proposal \X Node), ok : BOOLEAN]
  BY DEF TypeOK, ClientOK
<1>2. CASE client' = client
  BY <1>2
<1>3. CASE NextRequest
  <2>1. client' = [req |-> client.req + 1, attempt |-> 1, failures |-> 0, dest |-> 0,
                   replies |-> {}, ok |-> FALSE]
    BY <1>3 DEF NextRequest
  <2> QED
    BY <2>1
<1>4. CASE Resend
  <2>1. ~client.ok /\ client'.replies = {} /\ client'.ok = client.ok
    BY <1>1, <1>4 DEF Resend
  <2> QED
    BY <2>1
<1>5. ASSUME NEW m \in net, get_reply(m)
      PROVE  /\ \A c \in client'.replies : c \in client.replies \/ (m.type = "reply" /\ c[2] = m.prop /\ c[3] = m.from)
             /\ client'.ok /\ client'.req > 0 => Succeeds(client'.replies)
  <2>1. PICK counted : counted = client.replies \cup {<<m.view, m.prop, m.from>>}
    OBVIOUS
  <2>2. /\ m.type = "reply"
        /\ client' = [client EXCEPT !.replies = counted, !.ok = @ \/ Succeeds(counted)]
    BY <1>5, <2>1 DEF get_reply
  <2>3. client'.replies = counted /\ client'.req = client.req
        /\ client'.ok = (client.ok \/ Succeeds(counted))
    BY <1>1, <2>2
  <2>4. <<m.view, m.prop, m.from>>[2] = m.prop /\ <<m.view, m.prop, m.from>>[3] = m.from
    OBVIOUS
  <2>5. client.replies \in Counts /\ counted \in Counts
    <3>1. m.view \in Views /\ m.prop \in Proposal /\ m.from \in Node
      BY <2>2 DEF TypeOK, MessageOK
    <3> QED
      BY <1>1, <2>1, <3>1 DEF Counts
  <2>6. Succeeds(client.replies) => Succeeds(counted)
    BY <2>1, <2>5, SucceedsStays
  <2> QED
    BY <2>1, <2>2, <2>3, <2>4, <2>6
<1>6. CASE \E m \in net : get_reply(m)
  BY <1>5, <1>6
<1>7. CASE \/ UNCHANGED vars
           \/ \E n \in Live : synchronize(n)
           \/ \E m \in net : \/ get_request(m.to, m) \/ preprepare(m.to, m) \/ prepare(m.to, m)
                             \/ commit(m.to, m) \/ reply(m.to, m) \/ receive_ckpt_vote(m.to, m)
                             \/ receive_sync(m.to, m) \/ receive_sync_resumes(m.to, m)
                             \/ get_view_change_request(m.to, m) \/ receive_view_change_vote(m.to, m)
  <2>1. CASE UNCHANGED vars
    BY <1>2, <2>1 DEF vars
  <2>2. CASE \E n \in Live : synchronize(n)
    <3>1. client' = client
      BY Zenon, <2>2 DEF synchronize
    <3> QED
      BY <1>2, <3>1
  <2>3. CASE \E m \in net : \/ get_request(m.to, m) \/ preprepare(m.to, m) \/ prepare(m.to, m)
                            \/ commit(m.to, m)
    <3>1. client' = client
      BY Zenon, <2>3 DEF get_request, preprepare, prepare, commit
    <3> QED
      BY <1>2, <3>1
  <2>4. CASE \E m \in net : reply(m.to, m)
    <3>1. client' = client
      BY Zenon, <2>4, replyKeeps
    <3> QED
      BY <1>2, <3>1
  <2>5. CASE \E m \in net : \/ receive_ckpt_vote(m.to, m) \/ receive_sync(m.to, m)
                            \/ receive_sync_resumes(m.to, m)
    <3>1. client' = client
      BY Zenon, <2>5 DEF receive_ckpt_vote, receive_sync, receive_sync_resumes
    <3> QED
      BY <1>2, <3>1
  <2>6. CASE \E m \in net : get_view_change_request(m.to, m) \/ receive_view_change_vote(m.to, m)
    <3>1. client' = client
      BY Zenon, <2>6 DEF get_view_change_request, receive_view_change_vote
    <3> QED
      BY <1>2, <3>1
  <2> QED
    BY Zenon, <1>7, <2>1, <2>2, <2>3, <2>4, <2>5, <2>6
<1> QED
  BY <1>3, <1>4, <1>6, <1>7 DEF Next

LEMMA HistoryInvStep ==
  ASSUME NodesAssumption, BeforeCheckpoint, HistoryInv, [Next]_vars
  PROVE  HistoryInv'
<1>1. TypeOK /\ BubbleInv /\ BubbleInv'
  BY BubbleInvStep DEF HistoryInv, BubbleInv
<1>2. Summary /\ LastGrows /\ NoneReached /\ SoundSends
  BY <1>1, StepIsKind, StepSummary, StepIsSound DEF HistoryInv, BubbleInv, StepSound
<1>3. NoCheckpoints'
  BY <1>2 DEF NoneReached, SoundSends, Sound, NoCheckpoints, HistoryInv
<1>4. \A m \in net' : m.type = "reply" => m.from \in Live /\ InHistory(m.from, m.prop)'
  <2> SUFFICES ASSUME NEW m \in net', m.type = "reply"
               PROVE  m.from \in Live /\ InHistory(m.from, m.prop)'
    OBVIOUS
  <2>1. CASE m \in net
    <3>1. m.from \in Live /\ m.from \in Node /\ InHistory(m.from, m.prop)
      BY <2>1 DEF HistoryInv, RepliesBacked
    <3> QED
      BY <1>1, <1>2, <3>1, HistoryStays
  <2>2. CASE m \notin net
    BY <1>2, <2>2 DEF SoundSends, Sound
  <2> QED
    BY <2>1, <2>2
<1>5. \A c \in client'.replies : c[3] \in Live /\ InHistory(c[3], c[2])'
  <2> SUFFICES ASSUME NEW c \in client'.replies PROVE c[3] \in Live /\ InHistory(c[3], c[2])'
    OBVIOUS
  <2>1. c[3] \in Live /\ c[3] \in Node /\ InHistory(c[3], c[2])
    BY <1>1, ClientCounts DEF HistoryInv, RepliesBacked
  <2> QED
    BY <1>1, <1>2, <2>1, HistoryStays
<1>6. client'.ok /\ client'.req > 0 => Succeeds(client'.replies)
  BY <1>1, ClientCounts
<1>7. RepliesBacked'
  BY <1>4, <1>5 DEF RepliesBacked
<1>8. Succeeds(client.replies)' <=> Succeeds(client'.replies)
  BY DEF Succeeds
<1> QED
  BY <1>1, <1>3, <1>6, <1>7, <1>8 DEF HistoryInv

(* Before the first checkpoint the dump file holds what was committed. *)
LEMMA DumpHolds ==
  ASSUME NodesAssumption, HistoryInv, NEW n \in Node, NEW p, InHistory(n, p)
  PROVE  \E i \in 1 .. Len(Dump(n)) : Dump(n)[i] = p
<1>1. lastCommit[n] \in Int /\ ckpt[n].next = 0 /\ ckpt[n].log = << >>
  BY DEF HistoryInv, BubbleInv, NoOpenSlots, NoCheckpoints, NoCheckpoint
<1>2. PICK s \in 0 .. lastCommit[n] : status[n][s].committed = p
  BY DEF InHistory
<1>3. PICK l : l = lastCommit[n] + 1
  OBVIOUS
<1>4. l \in Nat /\ s \in Nat /\ s < l
  BY <1>1, <1>2, <1>3
<1> DEFINE h == [i \in 1 .. l |-> status[n][i - 1].committed]
           T == {status[n][i - 1].committed : i \in 1 .. l}
<1>5. Decisions(status[n], ckpt[n], lastCommit[n]) = h
  <2>1. Later(lastCommit[n] + 1 - ckpt[n].next, 0) = l
    BY <1>1, <1>3, <1>4 DEF Later
  <2>2. ckpt[n].next = 0
    BY <1>1
  <2>3. \A i \in 1 .. l : ckpt[n].next + i - 1 = i - 1
    BY <2>2
  <2> QED
    BY <2>1, <2>3 DEF Decisions
<1>6. h \in Seq(T) /\ Len(h) = l
  <2>1. h \in [1 .. l -> T]
    OBVIOUS
  <2>2. DOMAIN h = 1 .. l
    OBVIOUS
  <2> HIDE DEF h, T
  <2>3. h \in Seq(T)
    BY <1>4, <2>1, SeqDef
  <2>4. Len(h) = l
    BY <1>4, <2>2, <2>3, LenProperties
  <2> QED
    BY <2>3, <2>4
<1>7. h[s + 1] = p
  <2>1. s + 1 \in 1 .. l /\ (s + 1) - 1 = s
    BY <1>4
  <2> QED
    BY <1>2, <2>1
<1> HIDE DEF h, T
<1>8. Dump(n) = h
  <2>1. << >> \o h = h
    BY <1>6, EmptySeq, ConcatEmptySeq
  <2> QED
    BY <1>1, <1>5, <2>1 DEF Dump
<1>9. s + 1 \in 1 .. Len(Dump(n))
  BY <1>4, <1>6, <1>8
<1> QED
  BY <1>7, <1>8, <1>9

LEMMA HistoryInvSucceeds ==
  ASSUME NodesAssumption, HistoryInv
  PROVE  SuccessIsCommitted
<1> SUFFICES ASSUME client.ok, client.req > 0
             PROVE  \E p \in {c[2] : c \in client.replies} :
                      Cardinality({n \in Live : \E i \in 1 .. Len(Dump(n)) : Dump(n)[i] = p}) >= f + 1
  BY DEF SuccessIsCommitted
<1>1. PICK C : C = client.replies
  OBVIOUS
<1>2. C \in Counts
  BY <1>1 DEF HistoryInv, BubbleInv, TypeOK, ClientOK, Counts
<1>3. PICK c \in C : Cardinality(Group(C, c[1], c[2])) >= f + 1
  BY <1>1 DEF HistoryInv, Succeeds, Group
<1>4. PICK v, p : v = c[1] /\ p = c[2]
  OBVIOUS
<1> DEFINE H == {n \in Live : \E i \in 1 .. Len(Dump(n)) : Dump(n)[i] = p}
<1>5. ASSUME NEW a \in Senders(C, v, p) PROVE a \in H
  <2>1. <<v, p, a>> \in client.replies /\ <<v, p, a>>[2] = p /\ <<v, p, a>>[3] = a
    BY <1>1, <1>5 DEF Senders
  <2>2. a \in Live /\ a \in Node /\ InHistory(a, p)
    BY <2>1 DEF HistoryInv, RepliesBacked
  <2> QED
    BY <2>2, DumpHolds
<1>6. H \subseteq Node
  OBVIOUS
<1> HIDE DEF H
<1>7. IsFiniteSet(H)
  <2>1. 0 \in Int /\ N - 1 \in Int
    OBVIOUS
  <2>2. IsFiniteSet(Node)
    BY <2>1, FS_Interval DEF Node
  <2> QED
    BY <1>6, <2>2, FS_Subset
<1>8. Senders(C, v, p) \in SUBSET H
  BY <1>5
<1>9. Cardinality(Senders(C, v, p)) <= Cardinality(H) /\ Cardinality(H) \in Nat
  BY <1>7, <1>8, FS_Subset, FS_CardinalityType
<1>10. PICK x, y, z : /\ x = Cardinality(Group(C, v, p)) /\ y = Cardinality(Senders(C, v, p))
                      /\ z = Cardinality(H)
  OBVIOUS
<1>11. x = y /\ x \in Nat
  BY <1>2, <1>10, GroupIsSenders
<1>12. z >= f + 1
  BY <1>3, <1>4, <1>9, <1>10, <1>11
<1>13. p \in {d[2] : d \in client.replies}
  BY <1>1, <1>3, <1>4
<1> QED
  BY <1>10, <1>12, <1>13 DEF H

(* What was replied stays committed, whatever the number of view changes. *)
LEMMA HistoryInvHolds ==
  ASSUME NodesAssumption, BeforeCheckpoint
  PROVE  Spec => []HistoryInv
<1>1. Init => HistoryInv
  <2> SUFFICES ASSUME Init PROVE HistoryInv
    OBVIOUS
  <2>1. \A n \in Node : ckpt[n] = NoCheckpoint
    BY DEF Init
  <2>2. net = {} /\ client.replies = {} /\ client.req = 0
    BY DEF Init, IdleClient
  <2> QED
    BY <2>1, <2>2, BubbleInvInit DEF HistoryInv, RepliesBacked, NoCheckpoints
<1>2. HistoryInv /\ [Next]_vars => HistoryInv'
  BY HistoryInvStep
<1> QED
  BY <1>1, <1>2, PTL DEF Spec

(* Before the first checkpoint, whatever the number of view changes: when   *)
(* the client goes on, f+1 nodes have its request in their history.         *)
THEOREM SuccessIsCommittedHolds ==
  ASSUME NodesAssumption, BeforeCheckpoint
  PROVE  Spec => []SuccessIsCommitted
BY HistoryInvHolds, HistoryInvSucceeds, PTL

(* Together: agreement until a second view change is asked for, and         *)
(* whatever views come no bubbles and no false success, before the first    *)
(* checkpoint.                                                              *)
THEOREM PyAgreesAcrossViewsHolds ==
  ASSUME NodesAssumption, BeforeCheckpoint
  PROVE  Spec => []PyAgreesAcrossViews
BY AgreeInvHolds, NodesAgree, NewViewKeepsCommittedHolds, NoBubblesHolds,
   HistoryInvHolds, SuccessIsCommittedHolds, PTL DEF PyAgreesAcrossViews, AgreesUntilSecondChange
==============================================================================
