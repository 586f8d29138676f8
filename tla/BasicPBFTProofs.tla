--------------------------- MODULE BasicPBFTProofs ---------------------------
(***************************************************************************)
(* The quorums of BasicPBFT for every node table and any number of         *)
(* requests: what a node commits to, 2f backups hold; what a node stores,  *)
(* 2f + 1 nodes have committed to.                                         *)
(***************************************************************************)
EXTENDS BasicPBFT, TLAPS, FiniteSetTheorems

Inv == TypeOK /\ QuorumInv

USE NodeAssumption, DownAssumption

(* nodeCount / 3 is a natural number. *)
LEMMA FNat == F \in Nat
<1>1. nodeCount \in Nat
  BY FS_CardinalityType DEF nodeCount
<1> QED
  BY <1>1 DEF F

(* Adding a node to a count never lowers it. *)
LEMMA CountGrows ==
  ASSUME NEW S \in SUBSET Node, NEW p
  PROVE  Cardinality(S \cup {p}) \in Nat /\ Cardinality(S) \in Nat
         /\ Cardinality(S \cup {p}) >= Cardinality(S)
<1>1. IsFiniteSet(S)
  BY FS_Subset
<1>2. IsFiniteSet(S \cup {p})
  BY <1>1, FS_AddElement
<1>3. S \in SUBSET (S \cup {p})
  OBVIOUS
<1>4. Cardinality(S) <= Cardinality(S \cup {p})
  BY <1>2, <1>3, FS_Subset
<1> QED
  BY <1>1, <1>2, <1>4, FS_CardinalityType

(* What a broadcast sends, and to whom. *)
LEMMA BroadcastShape ==
  ASSUME NEW type, NEW d, NEW seq, NEW n, NEW m \in Broadcast(type, d, seq, n)
  PROVE  /\ m.type = type /\ m.digest = d /\ m.seq = seq /\ m.from = n
         /\ m.to \in Node /\ m.to # n
BY DEF Broadcast

(* A broadcast of well-typed fields is a set of messages. *)
LEMMA BroadcastType ==
  ASSUME NEW type \in {"preprepare", "prepare", "commit"}, NEW d \in Request,
         NEW seq \in Nat, NEW n \in Node
  PROVE  Broadcast(type, d, seq, n) \subseteq Message
BY DEF Broadcast, Message

-----------------------------------------------------------------------------
(* The state keeps its shape. *)
LEMMA TypeStep ==
  ASSUME TypeOK, [Next]_vars
  PROVE  TypeOK'
<1>1. ASSUME NEW d \in todo, handleClientRequest(d) PROVE TypeOK'
  <2>1. d \in Request /\ sequenceID[Primary] + 1 \in Nat
    BY <1>1 DEF TypeOK
  <2>2. Broadcast("preprepare", d, sequenceID[Primary] + 1, Primary) \subseteq Message
    BY <2>1, BroadcastType
  <2>3. \A x \in Broadcast("preprepare", d, sequenceID[Primary] + 1, Primary) : x.from # x.to
    BY BroadcastShape
  <2> QED
    BY <1>1, <2>1, <2>2, <2>3 DEF TypeOK, handleClientRequest
<1>2. ASSUME NEW m \in net, handlePrePrepare(m) PROVE TypeOK'
  <2>1. m.to \in Node /\ m.digest \in Request /\ m.seq \in Nat
    BY DEF TypeOK, Message
  <2>2. Broadcast("prepare", m.digest, m.seq, m.to) \subseteq Message
    BY <2>1, BroadcastType
  <2>3. \A x \in Broadcast("prepare", m.digest, m.seq, m.to) : x.from # x.to
    BY BroadcastShape
  <2>4. CASE ExpectedNext(m.to, m)
    <3>1. net' \subseteq Message /\ \A x \in net' : x.from # x.to
      BY <1>2, <2>2, <2>3, <2>4 DEF TypeOK, handlePrePrepare
    <3>2. sequenceID' \in [Node -> Nat] /\ messagePool' \in [Node -> SUBSET Request]
      <4>1. /\ sequenceID' = [sequenceID EXCEPT ![m.to] = m.seq]
            /\ messagePool' = [messagePool EXCEPT ![m.to] = @ \cup {m.digest}]
        BY <1>2, <2>4 DEF handlePrePrepare
      <4>2. sequenceID \in [Node -> Nat] /\ messagePool \in [Node -> SUBSET Request]
        BY DEF TypeOK
      <4> QED
        BY <2>1, <4>1, <4>2
    <3> QED
      BY <1>2, <3>1, <3>2 DEF TypeOK, handlePrePrepare
  <2>5. CASE ~ExpectedNext(m.to, m)
    BY <1>2, <2>5 DEF TypeOK, handlePrePrepare
  <2> QED
    BY <2>4, <2>5
<1>3. ASSUME NEW m \in net, handlePrepare(m) PROVE TypeOK'
  <2>1. m.to \in Node /\ m.from \in Node /\ m.digest \in Request /\ m.seq \in Nat
    BY DEF TypeOK, Message
  <2>2. Broadcast("commit", m.digest, m.seq, m.to) \subseteq Message
    BY <2>1, BroadcastType
  <2>3. \A x \in Broadcast("commit", m.digest, m.seq, m.to) : x.from # x.to
    BY BroadcastShape
  <2>4. net' \subseteq net \cup Broadcast("commit", m.digest, m.seq, m.to)
    BY <1>3 DEF handlePrepare
  <2>5. prePareConfirmCount' \in [Node -> [Request -> SUBSET Node]]
    <3>1. CASE m.digest \in messagePool[m.to] /\ SameNumber(m.to, m)
      <4>1. prePareConfirmCount' = [prePareConfirmCount EXCEPT ![m.to][m.digest] =
                prePareConfirmCount[m.to][m.digest] \cup {m.from}]
        BY <1>3, <3>1 DEF handlePrepare
      <4>2. prePareConfirmCount \in [Node -> [Request -> SUBSET Node]]
        BY DEF TypeOK
      <4> QED
        BY <2>1, <4>1, <4>2
    <3>2. CASE ~(m.digest \in messagePool[m.to] /\ SameNumber(m.to, m))
      BY <1>3, <3>2 DEF TypeOK, handlePrepare
    <3> QED
      BY <3>1, <3>2
  <2>6. isCommitBordcast' \in [Node -> SUBSET Request]
    <3>1. CASE m.digest \in messagePool[m.to] /\ SameNumber(m.to, m)
      <4>1. isCommitBordcast' = [isCommitBordcast EXCEPT ![m.to] =
                IF /\ Cardinality(prePareConfirmCount[m.to][m.digest] \cup {m.from}) >= PrepareQuorum(m.to)
                   /\ m.digest \notin isCommitBordcast[m.to]
                THEN @ \cup {m.digest} ELSE @]
        BY <1>3, <3>1 DEF handlePrepare
      <4>2. isCommitBordcast \in [Node -> SUBSET Request]
        BY DEF TypeOK
      <4> QED
        BY <2>1, <4>1, <4>2
    <3>2. CASE ~(m.digest \in messagePool[m.to] /\ SameNumber(m.to, m))
      BY <1>3, <3>2 DEF TypeOK, handlePrepare
    <3> QED
      BY <3>1, <3>2
  <2> QED
    BY <1>3, <2>2, <2>3, <2>4, <2>5, <2>6 DEF TypeOK, handlePrepare
<1>4. ASSUME NEW m \in net, handleCommit(m) PROVE TypeOK'
  <2>1. m.to \in Node /\ m.from \in Node /\ m.digest \in Request /\ m.seq \in Nat
    BY DEF TypeOK, Message
  <2>2. commitConfirmCount' \in [Node -> [Request -> SUBSET Node]]
    <3>1. CASE prePareConfirmCount[m.to][m.digest] # {} /\ SameNumber(m.to, m)
      <4>1. commitConfirmCount' = [commitConfirmCount EXCEPT ![m.to][m.digest] =
                commitConfirmCount[m.to][m.digest] \cup {m.from}]
        BY <1>4, <3>1 DEF handleCommit
      <4>2. commitConfirmCount \in [Node -> [Request -> SUBSET Node]]
        BY DEF TypeOK
      <4> QED
        BY <2>1, <4>1, <4>2
    <3>2. CASE ~(prePareConfirmCount[m.to][m.digest] # {} /\ SameNumber(m.to, m))
      BY <1>4, <3>2 DEF TypeOK, handleCommit
    <3> QED
      BY <3>1, <3>2
  <2>3. isReply' \in [Node -> SUBSET Request]
    <3>1. CASE prePareConfirmCount[m.to][m.digest] # {} /\ SameNumber(m.to, m)
      <4>1. isReply' = [isReply EXCEPT ![m.to] =
                IF /\ Cardinality(commitConfirmCount[m.to][m.digest] \cup {m.from}) >= CommitQuorum
                   /\ NotReplied(m.to, m.digest) /\ m.digest \in isCommitBordcast[m.to]
                THEN @ \cup {m.digest} ELSE @]
        BY <1>4, <3>1 DEF handleCommit
      <4>2. isReply \in [Node -> SUBSET Request]
        BY DEF TypeOK
      <4> QED
        BY <2>1, <4>1, <4>2
    <3>2. CASE ~(prePareConfirmCount[m.to][m.digest] # {} /\ SameNumber(m.to, m))
      BY <1>4, <3>2 DEF TypeOK, handleCommit
    <3> QED
      BY <3>1, <3>2
  <2>4. [seq |-> m.seq, digest |-> m.digest] \in Stored
    BY <2>1 DEF Stored
  <2>5. localMessagePool' \in [Node -> Seq(Stored)]
    <3> DEFINE e == [seq |-> m.seq, digest |-> m.digest]
    <3>1. e \in Stored
      BY <2>4
    <3>2. \/ localMessagePool' = localMessagePool
          \/ localMessagePool' = [localMessagePool EXCEPT ![m.to] = Append(@, e)]
      BY ZenonT(30), <1>4, <2>1 DEF TypeOK, handleCommit
    <3>3. Append(localMessagePool[m.to], e) \in Seq(Stored)
      <4> HIDE DEF e
      <4> QED
        BY <3>1, <2>1 DEF TypeOK
    <3> HIDE DEF e
    <3> QED
      BY ZenonT(30), <3>2, <3>3, <2>1 DEF TypeOK
  <2> QED
    BY <1>4, <2>2, <2>3, <2>5 DEF TypeOK, handleCommit
<1>5. ASSUME NEW n \in Node, Close(n) PROVE TypeOK'
  BY <1>5 DEF TypeOK, Close
<1>6. ASSUME NEW m \in net, Lost(m) PROVE TypeOK'
  BY <1>6 DEF TypeOK, Lost
<1>7. ASSUME NEW m \in net, WriteFails(m) PROVE TypeOK'
  <2>1. m.from \in Node
    BY DEF TypeOK, Message
  <2> QED
    BY <1>7, <2>1 DEF TypeOK, WriteFails
<1>8. CASE UNCHANGED vars
  BY <1>8 DEF TypeOK, vars
<1> QED
  BY <1>1, <1>2, <1>3, <1>4, <1>5, <1>6, <1>7, <1>8 DEF Next

-----------------------------------------------------------------------------
(* A step that leaves pools, counts, flags and the store alone and adds no  *)
(* message keeps the quorum invariant.                                      *)
LEMMA NothingCounted ==
  ASSUME QuorumInv, net' \subseteq net,
         UNCHANGED <<messagePool, prePareConfirmCount, commitConfirmCount,
                     isCommitBordcast, localMessagePool>>
  PROVE  QuorumInv'
BY DEF QuorumInv, MessagesBacked, CountsBacked, FlagsBacked

(* The three parts after the step of each handler. *)
LEMMA RequestStep ==
  ASSUME Inv, NEW d \in todo, handleClientRequest(d)
  PROVE  QuorumInv'
<1>1. TypeOK /\ MessagesBacked /\ CountsBacked /\ FlagsBacked
  BY DEF Inv, QuorumInv
<1>2. \A n \in Node : messagePool[n] \subseteq messagePool'[n]
  BY <1>1 DEF TypeOK, handleClientRequest
<1>3. MessagesBacked'
  <2> SUFFICES ASSUME NEW m \in net'
               PROVE  /\ m.type = "preprepare" => m.to # Primary
                      /\ m.type = "prepare" => m.from # Primary /\ m.digest \in messagePool'[m.from]
                      /\ m.type = "commit" => m.digest \in isCommitBordcast'[m.from]
    BY DEF MessagesBacked
  <2>1. CASE m \in net
    BY <1>1, <1>2, <2>1 DEF TypeOK, Message, MessagesBacked, handleClientRequest
  <2>2. CASE m \in Broadcast("preprepare", d, sequenceID[Primary] + 1, Primary)
    BY <2>2, BroadcastShape
  <2> QED
    BY <2>1, <2>2 DEF handleClientRequest
<1>4. CountsBacked'
  BY <1>1, <1>2 DEF TypeOK, CountsBacked, handleClientRequest
<1>5. FlagsBacked'
  BY <1>1, <1>2 DEF TypeOK, FlagsBacked, handleClientRequest, PrepareQuorum, CommitQuorum
<1> QED
  BY <1>3, <1>4, <1>5 DEF QuorumInv

(* handlePrePrepare sends prepares, none of them counted yet. *)
LEMMA PrePrepareStep ==
  ASSUME Inv, NEW m \in net, handlePrePrepare(m)
  PROVE  QuorumInv'
<1>1. TypeOK /\ MessagesBacked /\ CountsBacked /\ FlagsBacked
  BY DEF Inv, QuorumInv
<1>2. m.to \in Node /\ m.digest \in Request /\ m.to # Primary
  BY <1>1 DEF TypeOK, Message, MessagesBacked, handlePrePrepare
<1>3. \A n \in Node : messagePool[n] \subseteq messagePool'[n]
  <2>1. \/ UNCHANGED messagePool
        \/ messagePool' = [messagePool EXCEPT ![m.to] = @ \cup {m.digest}]
    BY DEF handlePrePrepare
  <2> QED
    BY ZenonT(30), <1>1, <1>2, <2>1 DEF TypeOK
<1>4. CASE ~ExpectedNext(m.to, m)
  BY <1>4, NothingCounted DEF handlePrePrepare, Inv
<1>5. CASE ExpectedNext(m.to, m)
  <2>1. MessagesBacked'
    <3> SUFFICES ASSUME NEW x \in net'
                 PROVE  /\ x.type = "preprepare" => x.to # Primary
                        /\ x.type = "prepare" => x.from # Primary /\ x.digest \in messagePool'[x.from]
                        /\ x.type = "commit" => x.digest \in isCommitBordcast'[x.from]
      BY DEF MessagesBacked
    <3>1. CASE x \in net
      BY <1>1, <1>3, <3>1 DEF TypeOK, Message, MessagesBacked, handlePrePrepare
    <3>2. CASE x \in Broadcast("prepare", m.digest, m.seq, m.to)
      <4>1. m.digest \in messagePool'[m.to]
        BY <1>1, <1>2, <1>5 DEF TypeOK, handlePrePrepare
      <4> QED
        BY <1>2, <3>2, <4>1, BroadcastShape
    <3> QED
      BY <1>5, <3>1, <3>2 DEF handlePrePrepare
  <2>2. CountsBacked'
    BY <1>1, <1>3 DEF TypeOK, CountsBacked, handlePrePrepare
  <2>3. FlagsBacked'
    BY <1>1, <1>3 DEF TypeOK, FlagsBacked, handlePrePrepare, PrepareQuorum, CommitQuorum
  <2> QED
    BY <2>1, <2>2, <2>3 DEF QuorumInv
<1> QED
  BY <1>4, <1>5

(* handlePrepare counts one more prepare, and commits only upon a quorum. *)
LEMMA PrepareStep ==
  ASSUME Inv, NEW m \in net, handlePrepare(m)
  PROVE  QuorumInv'
<1> DEFINE n == m.to
           d == m.digest
           got == prePareConfirmCount[n][d] \cup {m.from}
           ready == Cardinality(got) >= PrepareQuorum(n) /\ d \notin isCommitBordcast[n]
<1>1. TypeOK /\ MessagesBacked /\ CountsBacked /\ FlagsBacked
  BY DEF Inv, QuorumInv
<1>2. /\ n \in Node /\ d \in Request /\ m.from \in Node /\ m.from # n
      /\ m.from # Primary /\ d \in messagePool[m.from]
  BY <1>1 DEF TypeOK, Message, MessagesBacked, handlePrepare
<1>3. CASE ~(d \in messagePool[n] /\ SameNumber(n, m))
  BY <1>3, NothingCounted DEF handlePrepare, Inv
<1>4. CASE d \in messagePool[n] /\ SameNumber(n, m)
  <2>1. /\ prePareConfirmCount' = [prePareConfirmCount EXCEPT ![n][d] = got]
        /\ isCommitBordcast' = [isCommitBordcast EXCEPT ![n] = IF ready THEN @ \cup {d} ELSE @]
        /\ net' = (net \ {m}) \cup (IF ready THEN Broadcast("commit", d, m.seq, n) ELSE {})
        /\ UNCHANGED <<messagePool, commitConfirmCount, localMessagePool>>
    BY <1>4 DEF handlePrepare
  <2>2. \A p \in Node : isCommitBordcast[p] \subseteq isCommitBordcast'[p]
    BY <1>1, <1>2, <2>1 DEF TypeOK
  <2>3. /\ prePareConfirmCount'[n][d] = got
        /\ \A p \in Node : \A e \in Request :
             <<p, e>> # <<n, d>> => prePareConfirmCount'[p][e] = prePareConfirmCount[p][e]
    BY <1>1, <1>2, <2>1 DEF TypeOK
  <2>4. MessagesBacked'
    <3> SUFFICES ASSUME NEW x \in net'
                 PROVE  /\ x.type = "preprepare" => x.to # Primary
                        /\ x.type = "prepare" => x.from # Primary /\ x.digest \in messagePool'[x.from]
                        /\ x.type = "commit" => x.digest \in isCommitBordcast'[x.from]
      BY DEF MessagesBacked
    <3>1. CASE x \in net
      BY <1>1, <2>1, <2>2, <3>1 DEF TypeOK, Message, MessagesBacked
    <3>2. CASE ready /\ x \in Broadcast("commit", d, m.seq, n)
      <4>1. d \in isCommitBordcast'[n]
        BY <1>1, <1>2, <2>1, <3>2 DEF TypeOK
      <4> QED
        BY <3>2, <4>1, BroadcastShape
    <3> QED
      BY <2>1, <3>1, <3>2
  <2>5. CountsBacked'
    <3>1. \A p \in Node : \A e \in Request : \A q \in prePareConfirmCount'[p][e] :
             q \notin {p, Primary} /\ e \in messagePool'[q]
      BY <1>1, <1>2, <2>1, <2>3 DEF CountsBacked
    <3>2. \A p \in Node : \A e \in Request : \A q \in commitConfirmCount'[p][e] :
             q # p /\ e \in isCommitBordcast'[q]
      BY <1>1, <2>1, <2>2 DEF TypeOK, CountsBacked
    <3> QED
      BY <3>1, <3>2 DEF CountsBacked
  <2>6. FlagsBacked'
    <3>1. Cardinality(got) \in Nat /\ Cardinality(prePareConfirmCount[n][d]) \in Nat
          /\ Cardinality(got) >= Cardinality(prePareConfirmCount[n][d])
      <4>1. prePareConfirmCount[n][d] \in SUBSET Node
        BY <1>1, <1>2 DEF TypeOK
      <4> QED
        BY <4>1, CountGrows
    <3>2. PrepareQuorum(n) \in Int
      BY FNat DEF PrepareQuorum
    <3>3. ASSUME NEW p \in Node, NEW e \in isCommitBordcast'[p]
          PROVE  e \in messagePool'[p] /\ Cardinality(prePareConfirmCount'[p][e]) >= PrepareQuorum(p)
      <4>0. e \in Request
        BY <1>1, <1>2, <2>1 DEF TypeOK
      <4>1. CASE p = n /\ e = d
        <5>1. e \in messagePool'[p]
          BY <1>4, <2>1, <4>1
        <5>2. Cardinality(got) >= PrepareQuorum(n)
          <6>1. CASE d \in isCommitBordcast[n]
            BY <6>1, <1>1, <1>2, <3>1, <3>2 DEF FlagsBacked
          <6>2. CASE d \notin isCommitBordcast[n]
            BY <6>2, <1>1, <1>2, <2>1, <4>1 DEF TypeOK
          <6> QED
            BY <6>1, <6>2
        <5> QED
          BY <5>1, <5>2, <2>3, <4>1
      <4>2. CASE ~(p = n /\ e = d)
        <5>1. e \in isCommitBordcast[p]
          BY <1>1, <1>2, <2>1, <4>2 DEF TypeOK
        <5>2. prePareConfirmCount'[p][e] = prePareConfirmCount[p][e]
          BY <2>3, <4>0, <4>2
        <5> QED
          BY <1>1, <2>1, <5>1, <5>2 DEF FlagsBacked
      <4> QED
        BY <4>1, <4>2
    <3>4. ASSUME NEW p \in Node, NEW i \in DOMAIN localMessagePool'[p]
          PROVE  /\ localMessagePool'[p][i].digest \in isCommitBordcast'[p]
                 /\ Cardinality(commitConfirmCount'[p][localMessagePool'[p][i].digest]) >= CommitQuorum
      BY <1>1, <2>1, <2>2 DEF FlagsBacked
    <3>5. PrepareQuorum(n)' = PrepareQuorum(n) /\ CommitQuorum' = CommitQuorum
      BY DEF PrepareQuorum, CommitQuorum
    <3> QED
      BY <3>3, <3>4 DEF FlagsBacked, PrepareQuorum, CommitQuorum
  <2> QED
    BY <2>4, <2>5, <2>6 DEF QuorumInv
<1> QED
  BY <1>3, <1>4

(* handleCommit counts one more commit, and replies only upon a quorum. *)
LEMMA CommitStep ==
  ASSUME Inv, NEW m \in net, handleCommit(m)
  PROVE  QuorumInv'
<1> DEFINE n == m.to
           d == m.digest
           got == commitConfirmCount[n][d] \cup {m.from}
           done == /\ Cardinality(got) >= CommitQuorum
                   /\ NotReplied(n, d) /\ d \in isCommitBordcast[n]
           e == [seq |-> m.seq, digest |-> d]
<1>1. TypeOK /\ MessagesBacked /\ CountsBacked /\ FlagsBacked
  BY DEF Inv, QuorumInv
<1>2. /\ n \in Node /\ d \in Request /\ m.from \in Node /\ m.from # n
      /\ m.seq \in Nat /\ d \in isCommitBordcast[m.from]
  BY <1>1 DEF TypeOK, Message, MessagesBacked, handleCommit
<1>3. CASE ~(prePareConfirmCount[n][d] # {} /\ SameNumber(n, m))
  BY <1>3, NothingCounted DEF handleCommit, Inv
<1>4. CASE prePareConfirmCount[n][d] # {} /\ SameNumber(n, m)
  <2>1. /\ commitConfirmCount' = [commitConfirmCount EXCEPT ![n][d] = got]
        /\ localMessagePool' = [localMessagePool EXCEPT ![n] = IF done THEN Append(@, e) ELSE @]
        /\ net' = net \ {m}
        /\ UNCHANGED <<messagePool, prePareConfirmCount, isCommitBordcast>>
    BY <1>4 DEF handleCommit
  <2>2. /\ commitConfirmCount'[n][d] = got
        /\ \A p \in Node : \A f \in Request :
             <<p, f>> # <<n, d>> => commitConfirmCount'[p][f] = commitConfirmCount[p][f]
    BY <1>1, <1>2, <2>1 DEF TypeOK
  <2>3. MessagesBacked'
    BY <1>1, <2>1 DEF MessagesBacked
  <2>4. CountsBacked'
    <3>1. \A p \in Node : \A f \in Request : \A q \in commitConfirmCount'[p][f] :
             q # p /\ f \in isCommitBordcast'[q]
      BY <1>1, <1>2, <2>1, <2>2 DEF CountsBacked
    <3> QED
      BY <1>1, <2>1, <3>1 DEF CountsBacked
  <2>5. \A p \in Node : \A f \in Request :
          Cardinality(commitConfirmCount[p][f]) >= CommitQuorum
            => Cardinality(commitConfirmCount'[p][f]) >= CommitQuorum
    <3>1. Cardinality(got) \in Nat /\ Cardinality(commitConfirmCount[n][d]) \in Nat
          /\ Cardinality(got) >= Cardinality(commitConfirmCount[n][d])
      <4>1. commitConfirmCount[n][d] \in SUBSET Node
        BY <1>1, <1>2 DEF TypeOK
      <4> QED
        BY <4>1, CountGrows
    <3>2. CommitQuorum \in Nat
      BY FNat DEF CommitQuorum
    <3> HIDE DEF got
    <3> SUFFICES ASSUME NEW p \in Node, NEW f \in Request,
                        Cardinality(commitConfirmCount[p][f]) >= CommitQuorum
                 PROVE  Cardinality(commitConfirmCount'[p][f]) >= CommitQuorum
      OBVIOUS
    <3>3. CASE p = n /\ f = d
      BY <2>2, <3>1, <3>2, <3>3
    <3>4. CASE ~(p = n /\ f = d)
      BY <2>2, <3>4
    <3> QED
      BY <3>3, <3>4
  <2>6. ASSUME NEW p \in Node, NEW i \in DOMAIN localMessagePool'[p]
        PROVE  /\ localMessagePool'[p][i].digest \in isCommitBordcast'[p]
               /\ Cardinality(commitConfirmCount'[p][localMessagePool'[p][i].digest]) >= CommitQuorum
    <3>1. CASE i \in DOMAIN localMessagePool[p] /\ localMessagePool'[p][i] = localMessagePool[p][i]
      <4>1. localMessagePool[p][i].digest \in Request
        BY <1>1, <3>1 DEF TypeOK, FlagsBacked
      <4> QED
        BY <1>1, <2>1, <2>5, <3>1, <4>1 DEF FlagsBacked
    <3>2. CASE p = n /\ done /\ localMessagePool'[p][i] = e
      <4>1. d \in isCommitBordcast'[n] /\ Cardinality(commitConfirmCount'[n][d]) >= CommitQuorum
        BY <2>1, <2>2, <3>2
      <4> QED
        BY <3>2, <4>1
    <3>3. localMessagePool[p] \in Seq(Stored) /\ e \in Stored
      BY <1>1, <1>2 DEF TypeOK, Stored
    <3>4. \/ localMessagePool'[p] = localMessagePool[p]
          \/ p = n /\ done /\ localMessagePool'[p] = Append(localMessagePool[p], e)
      BY <1>1, <1>2, <2>1 DEF TypeOK
    <3> HIDE DEF e, done
    <3>5. \/ i \in DOMAIN localMessagePool[p] /\ localMessagePool'[p][i] = localMessagePool[p][i]
          \/ p = n /\ done /\ localMessagePool'[p][i] = e
      BY SMTT(30), <3>3, <3>4
    <3> QED
      BY <3>1, <3>2, <3>5
  <2>7. FlagsBacked'
    BY <1>1, <2>1, <2>6 DEF FlagsBacked, PrepareQuorum, CommitQuorum
  <2> QED
    BY <2>3, <2>4, <2>7 DEF QuorumInv
<1> QED
  BY <1>3, <1>4

(* Every step keeps the quorum invariant. *)
LEMMA QuorumStep ==
  ASSUME Inv, [Next]_vars
  PROVE  QuorumInv'
<1>1. ASSUME NEW n \in Node, Close(n) PROVE QuorumInv'
  BY <1>1, NothingCounted DEF Inv, Close
<1>2. ASSUME NEW m \in net, Lost(m) PROVE QuorumInv'
  BY <1>2, NothingCounted DEF Inv, Lost
<1>3. ASSUME NEW m \in net, WriteFails(m) PROVE QuorumInv'
  BY <1>3, NothingCounted DEF Inv, WriteFails
<1>4. CASE UNCHANGED vars
  BY <1>4, NothingCounted DEF Inv, vars
<1> QED
  BY <1>1, <1>2, <1>3, <1>4, RequestStep, PrePrepareStep, PrepareStep, CommitStep DEF Next

-----------------------------------------------------------------------------
(* The initial state counts nothing. *)
LEMMA InvInit == Init => Inv
<1> SUFFICES ASSUME Init PROVE Inv
  OBVIOUS
<1>1. TypeOK
  BY DEF Init, TypeOK
<1>2. QuorumInv
  BY DEF Init, QuorumInv, MessagesBacked, CountsBacked, FlagsBacked
<1> QED
  BY <1>1, <1>2 DEF Inv

(* handlePrepare and handleCommit count each node once, and only nodes that  *)
(* hold the request or broadcast its Commit: the quorum invariant holds for  *)
(* every node table.                                                        *)
THEOREM QuorumInvariant == Spec => [](TypeOK /\ QuorumInv)
<1>1. Inv /\ [Next]_vars => Inv'
  BY TypeStep, QuorumStep DEF Inv
<1>2. Spec => []Inv
  BY InvInit, <1>1, PTL DEF Spec
<1> QED
  BY <1>2, PTL DEF Inv

(* The Prepares a node counts, with its own if it is a backup, are 2f backups. *)
LEMMA PrepareQuorumMeans ==
  ASSUME Inv PROVE CommitBackedByPrepares
<1> SUFFICES ASSUME NEW n \in Node, NEW d \in isCommitBordcast[n]
             PROVE  Cardinality({p \in Node \ {Primary} : d \in messagePool[p]}) >= 2 * F
  BY DEF CommitBackedByPrepares
<1> DEFINE S == prePareConfirmCount[n][d]
           H == {p \in Node \ {Primary} : d \in messagePool[p]}
<1>1. TypeOK /\ CountsBacked /\ FlagsBacked
  BY DEF Inv, QuorumInv
<1>2. /\ d \in Request /\ S \subseteq H /\ S \subseteq Node /\ n \notin S
      /\ d \in messagePool[n] /\ Cardinality(S) >= PrepareQuorum(n)
  BY <1>1 DEF TypeOK, CountsBacked, FlagsBacked
<1>3. IsFiniteSet(H) /\ IsFiniteSet(S)
  BY <1>2, FS_Subset
<1>4. CASE n = Primary
  <2>1. Cardinality(S) <= Cardinality(H)
    BY <1>2, <1>3, FS_Subset
  <2> QED
    BY <1>2, <1>3, <1>4, <2>1, FNat, FS_CardinalityType DEF PrepareQuorum
<1>5. CASE n # Primary
  <2>1. S \cup {n} \subseteq H
    BY <1>2, <1>5
  <2>2. IsFiniteSet(S \cup {n}) /\ Cardinality(S \cup {n}) = Cardinality(S) + 1
    BY <1>2, <1>3, FS_AddElement
  <2>3. Cardinality(S \cup {n}) <= Cardinality(H)
    BY <1>3, <2>1, FS_Subset
  <2> QED
    BY <1>2, <1>3, <1>5, <2>2, <2>3, FNat, FS_CardinalityType DEF PrepareQuorum
<1> QED
  BY <1>4, <1>5

(* The Commits a node counts, and its own, are those of 2f + 1 nodes. *)
LEMMA CommitQuorumMeans ==
  ASSUME Inv PROVE StoredBackedByCommits
<1> SUFFICES ASSUME NEW n \in Node, NEW i \in DOMAIN localMessagePool[n]
             PROVE  Cardinality({p \in Node : localMessagePool[n][i].digest \in isCommitBordcast[p]})
                      >= 2 * F + 1
  BY DEF StoredBackedByCommits
<1> DEFINE d == localMessagePool[n][i].digest
           S == commitConfirmCount[n][d]
           H == {p \in Node : d \in isCommitBordcast[p]}
<1>1. TypeOK /\ CountsBacked /\ FlagsBacked
  BY DEF Inv, QuorumInv
<1>2. d \in isCommitBordcast[n] /\ Cardinality(S) >= CommitQuorum
  BY <1>1 DEF FlagsBacked
<1>3. S \subseteq H /\ S \subseteq Node /\ n \notin S
  BY <1>1, <1>2 DEF TypeOK, CountsBacked
<1>4. IsFiniteSet(H) /\ IsFiniteSet(S)
  BY <1>3, FS_Subset
<1>5. IsFiniteSet(S \cup {n}) /\ Cardinality(S \cup {n}) = Cardinality(S) + 1
  BY <1>3, <1>4, FS_AddElement
<1>6. Cardinality(S \cup {n}) <= Cardinality(H)
  BY <1>2, <1>3, <1>4, FS_Subset
<1> HIDE DEF S, H
<1>7. Cardinality(H) >= 2 * F + 1
  BY <1>2, <1>4, <1>5, <1>6, FNat, FS_CardinalityType DEF CommitQuorum
<1> QED
  BY <1>7 DEF H

(* handlePrepare: a node that has broadcast a Commit for a request is one   *)
(* of, or has heard from, 2f backups that hold it.                          *)
THEOREM CommitIsBacked == Spec => []CommitBackedByPrepares
<1>1. Inv => CommitBackedByPrepares
  BY PrepareQuorumMeans
<1> QED
  BY <1>1, QuorumInvariant, PTL DEF Inv

(* handleCommit: what a node has put in its localMessagePool, 2f + 1 nodes  *)
(* have broadcast a Commit for.                                             *)
THEOREM StoreIsBacked == Spec => []StoredBackedByCommits
<1>1. Inv => StoredBackedByCommits
  BY CommitQuorumMeans
<1> QED
  BY <1>1, QuorumInvariant, PTL DEF Inv

-----------------------------------------------------------------------------
(* The order of what is stored. *)

(* What is stored has a number and a request. *)
LEMMA StoredType ==
  ASSUME TypeOK, NEW n \in Node, NEW i \in DOMAIN localMessagePool[n]
  PROVE  localMessagePool[n][i].seq \in Nat /\ localMessagePool[n][i].digest \in Request
<1>1. localMessagePool[n] \in Seq(Stored)
  BY DEF TypeOK
<1>2. localMessagePool[n][i] \in Stored
  BY <1>1
<1> QED
  BY <1>2 DEF Stored

(* A step that passes on the number and the request of a message under way, *)
(* or stores them, makes no new pair of number and request.                 *)
LEMMA NoNewNumber ==
  ASSUME NEW m \in net,
         \A x \in net' : x \in net \/ (x.seq = m.seq /\ x.digest = m.digest),
         \A n \in Node : \A i \in DOMAIN localMessagePool'[n] :
           \/ i \in DOMAIN localMessagePool[n] /\ localMessagePool'[n][i] = localMessagePool[n][i]
           \/ localMessagePool'[n][i].seq = m.seq /\ localMessagePool'[n][i].digest = m.digest,
         NEW seq, NEW d, Numbered(seq, d)'
  PROVE  Numbered(seq, d)
<1>1. CASE \E x \in net' : x.seq = seq /\ x.digest = d
  BY <1>1 DEF Numbered
<1>2. CASE \E n \in Node : \E i \in DOMAIN localMessagePool'[n] :
             localMessagePool'[n][i].seq = seq /\ localMessagePool'[n][i].digest = d
  <2>0. PICK n \in Node : \E i \in DOMAIN localMessagePool'[n] :
          localMessagePool'[n][i].seq = seq /\ localMessagePool'[n][i].digest = d
    BY <1>2
  <2>1. PICK i \in DOMAIN localMessagePool'[n] :
          localMessagePool'[n][i].seq = seq /\ localMessagePool'[n][i].digest = d
    BY <2>0
  <2>2. CASE i \in DOMAIN localMessagePool[n] /\ localMessagePool'[n][i] = localMessagePool[n][i]
    BY <2>1, <2>2 DEF Numbered
  <2>3. CASE localMessagePool'[n][i].seq = m.seq /\ localMessagePool'[n][i].digest = m.digest
    BY <2>1, <2>3 DEF Numbered
  <2> QED
    BY <2>1, <2>2, <2>3
<1> QED
  BY <1>1, <1>2 DEF Numbered

(* What a step needs that stores nothing and numbers nothing anew. *)
LEMMA OrderKept ==
  ASSUME TypeOK, TypeOK', OrderInv, UNCHANGED localMessagePool,
         \A seq, d : Numbered(seq, d)' => Numbered(seq, d),
         \A n \in Node : sequenceID[n] <= sequenceID'[n] /\ isReply[n] \subseteq isReply'[n]
  PROVE  OrderInv'
<1>1. OneRequestPerNumber'
  BY DEF OrderInv, OneRequestPerNumber
<1>2. NumbersGiven'
  BY DEF OrderInv, NumbersGiven, TypeOK
<1>3. StoredIsPast'
  <2> SUFFICES ASSUME NEW n \in Node, NEW i \in DOMAIN localMessagePool[n]
               PROVE  /\ localMessagePool[n][i].seq <= sequenceID'[n]
                      /\ localMessagePool[n][i].digest \in isReply'[n]
    BY DEF StoredIsPast
  <2>1. localMessagePool[n][i].seq \in Nat /\ sequenceID[n] \in Nat /\ sequenceID'[n] \in Nat
    BY StoredType DEF TypeOK
  <2> QED
    BY <2>1 DEF OrderInv, StoredIsPast
<1>4. StoredInOrder'
  BY DEF OrderInv, StoredInOrder
<1> QED
  BY <1>1, <1>2, <1>3, <1>4 DEF OrderInv

(* handleClientRequest: the primary's next number is new. *)
LEMMA RequestOrder ==
  ASSUME Inv, Inv', OrderInv, NEW d \in todo, handleClientRequest(d)
  PROVE  OrderInv'
<1> DEFINE new == sequenceID[Primary] + 1
<1>1. TypeOK /\ TypeOK' /\ OneRequestPerNumber /\ NumbersGiven /\ StoredIsPast /\ StoredInOrder
  BY DEF Inv, OrderInv
<1>2. d \in Request /\ new \in Nat /\ sequenceID[Primary] \in Nat /\ sequenceID'[Primary] = new
  BY <1>1 DEF TypeOK, handleClientRequest
<1>3. ASSUME NEW seq, NEW e, Numbered(seq, e)'
      PROVE  Numbered(seq, e) \/ (seq = new /\ e = d)
  <2>1. UNCHANGED localMessagePool /\ net' = net \cup Broadcast("preprepare", d, new, Primary)
    BY DEF handleClientRequest
  <2>2. \A x \in net' : x \in net \/ (x.seq = new /\ x.digest = d)
    BY <2>1, BroadcastShape
  <2> QED
    BY <1>3, <2>1, <2>2 DEF Numbered
<1>4. OneRequestPerNumber'
  BY <1>1, <1>2, <1>3 DEF OneRequestPerNumber, NumbersGiven
<1>5. NumbersGiven'
  BY <1>1, <1>2, <1>3 DEF NumbersGiven
<1>6. StoredIsPast'
  <2> SUFFICES ASSUME NEW n \in Node, NEW i \in DOMAIN localMessagePool[n]
               PROVE  /\ localMessagePool[n][i].seq <= sequenceID'[n]
                      /\ localMessagePool[n][i].digest \in isReply[n]
    BY DEF StoredIsPast, handleClientRequest
  <2>1. localMessagePool[n][i].seq \in Nat /\ sequenceID[n] \in Nat /\ sequenceID[n] <= sequenceID'[n]
    BY <1>1, StoredType DEF TypeOK, handleClientRequest
  <2> QED
    BY SMTT(30), <1>1, <2>1 DEF StoredIsPast, TypeOK
<1>7. StoredInOrder'
  BY <1>1 DEF StoredInOrder, handleClientRequest
<1> QED
  BY <1>4, <1>5, <1>6, <1>7 DEF OrderInv

(* handlePrePrepare and handlePrepare pass on what they got. *)
LEMMA PrePrepareOrder ==
  ASSUME Inv, Inv', OrderInv, NEW m \in net, handlePrePrepare(m)
  PROVE  OrderInv'
<1>1. TypeOK /\ TypeOK' /\ m.to \in Node /\ m.seq \in Nat
  BY DEF Inv, TypeOK, Message
<1>2. \A x \in net' : x \in net \/ (x.seq = m.seq /\ x.digest = m.digest)
  BY BroadcastShape DEF handlePrePrepare
<1>3. UNCHANGED <<localMessagePool, isReply>>
  BY DEF handlePrePrepare
<1>4. \A seq, d : Numbered(seq, d)' => Numbered(seq, d)
  BY <1>2, <1>3, NoNewNumber
<1>5. \A n \in Node : sequenceID[n] <= sequenceID'[n]
  <2>1. \/ UNCHANGED sequenceID
        \/ ExpectedNext(m.to, m) /\ sequenceID' = [sequenceID EXCEPT ![m.to] = m.seq]
    BY DEF handlePrePrepare
  <2>2. \A n \in Node : sequenceID[n] \in Nat
    BY <1>1 DEF TypeOK
  <2>3. CASE ExpectedNext(m.to, m) /\ sequenceID' = [sequenceID EXCEPT ![m.to] = m.seq]
    <3>1. m.seq = sequenceID[m.to] + 1
      BY <2>3 DEF ExpectedNext
    <3>2. \A n \in Node : sequenceID'[n] = IF n = m.to THEN m.seq ELSE sequenceID[n]
      BY <1>1, <2>3 DEF TypeOK
    <3> QED
      BY <1>1, <2>2, <3>1, <3>2
  <2> QED
    BY <2>1, <2>2, <2>3
<1> QED
  BY <1>1, <1>3, <1>4, <1>5, OrderKept

(* handlePrepare executes nothing: the order of execution stays. *)
LEMMA PrepareOrder ==
  ASSUME Inv, Inv', OrderInv, NEW m \in net, handlePrepare(m)
  PROVE  OrderInv'
<1>1. TypeOK /\ TypeOK'
  BY DEF Inv
<1>2. \A x \in net' : x \in net \/ (x.seq = m.seq /\ x.digest = m.digest)
  BY BroadcastShape DEF handlePrepare
<1>3. UNCHANGED <<localMessagePool, isReply, sequenceID>>
  BY DEF handlePrepare
<1>4. \A seq, d : Numbered(seq, d)' => Numbered(seq, d)
  BY <1>2, <1>3, NoNewNumber
<1> QED
  BY <1>1, <1>3, <1>4, OrderKept DEF TypeOK

(* Closing, and what is lost by it, sends nothing. *)
LEMMA QuietOrder ==
  ASSUME Inv, Inv', OrderInv, net' \subseteq net,
         UNCHANGED <<localMessagePool, isReply, sequenceID>>
  PROVE  OrderInv'
<1>1. TypeOK /\ TypeOK'
  BY DEF Inv
<1>2. \A seq, d : Numbered(seq, d)' => Numbered(seq, d)
  BY DEF Numbered
<1> QED
  BY <1>1, <1>2, OrderKept DEF TypeOK
(* handleCommit: what is stored has the node's present number, and nothing  *)
(* stored before has it.                                                    *)
LEMMA CommitOrder ==
  ASSUME Inv, Inv', OrderInv, NEW m \in net, handleCommit(m)
  PROVE  OrderInv'
<1> DEFINE n == m.to
           d == m.digest
           new == [seq |-> m.seq, digest |-> d]
           old == localMessagePool[n]
<1>1. /\ TypeOK /\ TypeOK' /\ OneRequestPerNumber /\ NumbersGiven /\ StoredIsPast /\ StoredInOrder
      /\ n \in Node /\ d \in Request /\ m.seq \in Nat
  BY DEF Inv, OrderInv, TypeOK, Message
<1>2. net' \subseteq net /\ UNCHANGED sequenceID
  BY DEF handleCommit
<1>3. CASE UNCHANGED <<localMessagePool, isReply>>
  BY <1>2, <1>3, QuietOrder
<1> DEFINE stores ==
             /\ SameNumber(n, m) /\ NotReplied(n, d)
             /\ localMessagePool' = [localMessagePool EXCEPT ![n] = Append(old, new)]
             /\ isReply' = [isReply EXCEPT ![n] = isReply[n] \cup {d}]
<1>4. CASE stores
  <2>1. /\ \A p \in Node \ {n} : localMessagePool'[p] = localMessagePool[p] /\ isReply'[p] = isReply[p]
        /\ localMessagePool'[n] = Append(old, new) /\ isReply'[n] = isReply[n] \cup {d}
        /\ old \in Seq(Stored) /\ new \in Stored
    BY <1>1, <1>4 DEF TypeOK, Stored
  <2>2. /\ DOMAIN localMessagePool'[n] = 1 .. Len(old) + 1 /\ Len(old) \in Nat
        /\ localMessagePool'[n][Len(old) + 1] = new
        /\ \A i \in 1 .. Len(old) : localMessagePool'[n][i] = old[i]
        /\ DOMAIN old = 1 .. Len(old)
    BY <2>1
  <2>3. \A p \in Node : \A i \in DOMAIN localMessagePool'[p] :
           \/ i \in DOMAIN localMessagePool[p] /\ localMessagePool'[p][i] = localMessagePool[p][i]
           \/ p = n /\ localMessagePool'[p][i] = new
    <3> SUFFICES ASSUME NEW p \in Node, NEW i \in DOMAIN localMessagePool'[p]
                 PROVE  \/ i \in DOMAIN localMessagePool[p] /\ localMessagePool'[p][i] = localMessagePool[p][i]
                        \/ p = n /\ localMessagePool'[p][i] = new
      OBVIOUS
    <3>1. CASE p # n
      BY <2>1, <3>1
    <3>2. CASE p = n
      <4>1. i \in 1 .. Len(old) \/ i = Len(old) + 1
        BY SMTT(30), <2>2, <3>2
      <4> QED
        BY <2>2, <3>2, <4>1
    <3> QED
      BY <3>1, <3>2
  <2>4. \A seq, e : Numbered(seq, e)' => Numbered(seq, e)
    BY <1>2, <2>3, NoNewNumber
  <2>5. OneRequestPerNumber' /\ NumbersGiven'
    BY <1>1, <1>2, <2>4 DEF OneRequestPerNumber, NumbersGiven
  <2>6. StoredIsPast'
    <3> SUFFICES ASSUME NEW p \in Node, NEW i \in DOMAIN localMessagePool'[p]
                 PROVE  /\ localMessagePool'[p][i].seq <= sequenceID[p]
                        /\ localMessagePool'[p][i].digest \in isReply'[p]
      BY <1>2 DEF StoredIsPast
    <3>1. CASE i \in DOMAIN localMessagePool[p] /\ localMessagePool'[p][i] = localMessagePool[p][i]
      BY <1>1, <2>1, <3>1 DEF StoredIsPast
    <3>2. CASE p = n /\ localMessagePool'[p][i] = new
      BY <1>1, <1>4, <2>1, <3>2 DEF SameNumber
    <3> QED
      BY <2>3, <3>1, <3>2
  <2>7. \A i \in DOMAIN old : old[i].seq < m.seq
    <3> SUFFICES ASSUME NEW i \in DOMAIN old
                 PROVE  old[i].seq < m.seq
      OBVIOUS
    <3>1. old[i].seq \in Nat /\ old[i].digest \in Request /\ old[i].seq <= m.seq
      BY <1>1, <1>4, StoredType DEF StoredIsPast, SameNumber
    <3>2. old[i].digest # d
      BY <1>1, <1>4 DEF StoredIsPast, NotReplied
    <3>3. Numbered(m.seq, d) /\ Numbered(old[i].seq, old[i].digest)
      BY <1>1 DEF Numbered
    <3>4. old[i].seq # m.seq
      BY <1>1, <3>1, <3>2, <3>3 DEF OneRequestPerNumber
    <3> QED
      BY <1>1, <3>1, <3>4
  <2>8. StoredInOrder'
    <3> SUFFICES ASSUME NEW p \in Node, NEW i \in DOMAIN localMessagePool'[p],
                        NEW j \in DOMAIN localMessagePool'[p], i < j
                 PROVE  localMessagePool'[p][i].seq < localMessagePool'[p][j].seq
      BY DEF StoredInOrder
    <3>1. CASE p # n
      BY <1>1, <2>1, <3>1 DEF StoredInOrder
    <3>2. CASE p = n /\ j \in 1 .. Len(old)
      <4>1. i \in DOMAIN old /\ j \in DOMAIN old
        BY SMTT(30), <2>2, <3>2
      <4> QED
        BY <1>1, <2>2, <3>2, <4>1 DEF StoredInOrder
    <3>3. CASE p = n /\ j = Len(old) + 1
      <4>1. i \in DOMAIN old
        BY <2>2, <3>3
      <4> QED
        BY SMTT(30), <2>2, <2>7, <3>3, <4>1
    <3> QED
      BY SMTT(30), <2>2, <3>1, <3>2, <3>3
  <2> QED
    BY <2>5, <2>6, <2>8 DEF OrderInv
<1>5. UNCHANGED <<localMessagePool, isReply>> \/ stores
  <2> DEFINE got  == commitConfirmCount[n][d] \cup {m.from}
             done == /\ Cardinality(got) >= CommitQuorum
                     /\ NotReplied(n, d) /\ d \in isCommitBordcast[n]
  <2>1. CASE ~(prePareConfirmCount[n][d] # {} /\ SameNumber(n, m))
    BY <2>1 DEF handleCommit
  <2>2. CASE prePareConfirmCount[n][d] # {} /\ SameNumber(n, m)
    <3>1. /\ localMessagePool' = [localMessagePool EXCEPT ![n] = IF done THEN Append(old, new) ELSE old]
          /\ isReply' = [isReply EXCEPT ![n] = IF done THEN isReply[n] \cup {d} ELSE isReply[n]]
      BY <2>2 DEF handleCommit
    <3>2. CASE done
      BY <2>2, <3>1, <3>2
    <3>3. CASE ~done
      BY <1>1, <3>1, <3>3 DEF TypeOK
    <3> QED
      BY <3>2, <3>3
  <2> QED
    BY <2>1, <2>2
<1> QED
  BY <1>3, <1>4, <1>5

(* Every step keeps the order. *)
LEMMA OrderStep ==
  ASSUME Inv, Inv', OrderInv, [Next]_vars
  PROVE  OrderInv'
<1>1. CASE \E d \in todo : handleClientRequest(d)
  BY <1>1, RequestOrder
<1>2. CASE \E m \in net : handlePrePrepare(m)
  BY <1>2, PrePrepareOrder
<1>3. CASE \E m \in net : handlePrepare(m)
  BY <1>3, PrepareOrder
<1>4. CASE \E m \in net : handleCommit(m)
  BY <1>4, CommitOrder
<1>5. CASE \E n \in Node : Close(n)
  BY <1>5, QuietOrder DEF Close
<1>6. CASE \E m \in net : Lost(m)
  BY <1>6, QuietOrder DEF Lost
<1>7. CASE \E m \in net : WriteFails(m)
  BY <1>7, QuietOrder DEF WriteFails
<1>8. CASE UNCHANGED vars
  BY <1>8, QuietOrder DEF vars
<1> QED
  BY <1>1, <1>2, <1>3, <1>4, <1>5, <1>6, <1>7, <1>8 DEF Next

(* A node stores requests in the order of their numbers, none twice, for    *)
(* any node table and any number of pipelined requests (handleCommit).      *)
THEOREM StoreIsInOrder == Spec => []StoredInOrder
<1>1. Init => OrderInv
  BY DEF Init, OrderInv, OneRequestPerNumber, NumbersGiven, StoredIsPast, StoredInOrder, Numbered
<1>2. Inv /\ Inv' /\ OrderInv /\ [Next]_vars => OrderInv'
  BY OrderStep
<1>3. Spec => [](TypeOK /\ QuorumInv)
  BY QuorumInvariant
<1>4. Spec => []Inv
  BY <1>3, PTL DEF Inv
<1>5. Spec => []OrderInv
  BY <1>1, <1>2, <1>4, PTL DEF Spec
<1>6. OrderInv => StoredInOrder
  BY DEF OrderInv
<1> QED
  BY <1>5, <1>6, PTL
=============================================================================
