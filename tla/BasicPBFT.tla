------------------------------ MODULE BasicPBFT ------------------------------
(***************************************************************************)
(* The three-phase PBFT demo of pbft/pbft.go: a fixed primary N0, no view  *)
(* change, no retransmission.  A node accepts one TCP connection after the *)
(* other and handles its message to the end, so a handler is one action;   *)
(* every message is dialled by a goroutine of its own (broadcast), so      *)
(* messages arrive in any order, and a message for a node that is closed   *)
(* is gone.  Requests stand for their digests (their random ID and their   *)
(* timestamp make them differ); these nodes' signatures always verify.     *)
(***************************************************************************)
EXTENDS Integers, Sequences, FiniteSets

CONSTANTS
  Node,       \* the node table
  Primary,    \* "N0"
  Request,    \* requests the client will send, told apart by their digests
  Closed,     \* nodes that are closed before the client starts
  MaxDown     \* bound: nodes closed by a user, those included

ASSUME NodeAssumption    == IsFiniteSet(Node) /\ Primary \in Node /\ Cardinality(Node) >= 4
ASSUME RequestAssumption == IsFiniteSet(Request)
ASSUME DownAssumption    == Closed \subseteq Node /\ MaxDown \in Nat

nodeCount == Cardinality(Node)
F == nodeCount \div 3

VARIABLES
  sequenceID,            \* sequence number a node is at
  messagePool,           \* requests a node knows
  prePareConfirmCount,   \* prePareConfirmCount[n][d]: whose Prepare n has counted
  commitConfirmCount,    \* commitConfirmCount[n][d]: whose Commit n has counted
  isCommitBordcast,      \* requests n has broadcast a Commit for
  isReply,               \* requests n has answered
  localMessagePool,      \* what n has committed, in order
  net,                   \* messages under way
  todo,                  \* requests the client has not sent yet
  down                   \* nodes that are closed

vars == <<sequenceID, messagePool, prePareConfirmCount, commitConfirmCount,
          isCommitBordcast, isReply, localMessagePool, net, todo, down>>

Init ==
  /\ sequenceID = [n \in Node |-> 0]
  /\ messagePool = [n \in Node |-> {}]
  /\ prePareConfirmCount = [n \in Node |-> [d \in Request |-> {}]]
  /\ commitConfirmCount = [n \in Node |-> [d \in Request |-> {}]]
  /\ isCommitBordcast = [n \in Node |-> {}]
  /\ isReply = [n \in Node |-> {}]
  /\ localMessagePool = [n \in Node |-> << >>]
  /\ net = {} /\ todo = Request /\ down = Closed

-----------------------------------------------------------------------------
(* Mutant of Broadcast: the node's own entry is not skipped. *)
BroadcastToAll(type, d, seq, n) ==
  {[type |-> type, digest |-> d, seq |-> seq, from |-> n, to |-> p] : p \in Node \ down}

(* broadcast: a message to every other node; a closed node never gets it. *)
Broadcast(type, d, seq, n) ==
  {[type |-> type, digest |-> d, seq |-> seq, from |-> n, to |-> p] : p \in Node \ (down \cup {n})}

(* The client hands a request to the primary: handleClientRequest. *)
handleClientRequest(d) ==
  /\ d \in todo /\ Primary \notin down
  /\ todo' = todo \ {d}
  /\ sequenceID' = [sequenceID EXCEPT ![Primary] = @ + 1]
  /\ messagePool' = [messagePool EXCEPT ![Primary] = @ \cup {d}]
  /\ net' = net \cup Broadcast("preprepare", d, sequenceID[Primary] + 1, Primary)
  /\ UNCHANGED <<prePareConfirmCount, commitConfirmCount, isCommitBordcast, isReply,
                 localMessagePool, down>>

ExpectedNext(n, m) == sequenceID[n] + 1 = m.seq

handlePrePrepare(m) ==
  LET n == m.to IN
  /\ m.type = "preprepare" /\ m.to \notin down
  /\ IF ExpectedNext(n, m)
     THEN /\ sequenceID' = [sequenceID EXCEPT ![n] = m.seq]
          /\ messagePool' = [messagePool EXCEPT ![n] = @ \cup {m.digest}]
          /\ net' = (net \ {m}) \cup Broadcast("prepare", m.digest, m.seq, n)
     ELSE /\ net' = net \ {m}
          /\ UNCHANGED <<sequenceID, messagePool>>
  /\ UNCHANGED <<prePareConfirmCount, commitConfirmCount, isCommitBordcast, isReply,
                 localMessagePool, todo, down>>

(* Mutant of SameNumber: the number of a Prepare or Commit is not compared. *)
AnyNumber(n, m) == TRUE

(* Prepares and Commits count only for the number the node is at. *)
SameNumber(n, m) == sequenceID[n] = m.seq

(* Mutant of PrepareQuorum: a backup does not count its own Prepare's slot. *)
PrepareQuorumLow(n) == IF n = Primary THEN 2 * F - 1 ELSE 2 * F - 2

(* The Prepares to receive: 2f, the node's own one not among them. *)
PrepareQuorum(n) == IF n = Primary THEN 2 * F ELSE 2 * F - 1

handlePrepare(m) ==
  LET n     == m.to
      d     == m.digest
      got   == prePareConfirmCount[n][d] \cup {m.from}
      ready == Cardinality(got) >= PrepareQuorum(n) /\ d \notin isCommitBordcast[n]
  IN  /\ m.type = "prepare" /\ m.to \notin down
      /\ IF d \in messagePool[n] /\ SameNumber(n, m)
         THEN /\ prePareConfirmCount' = [prePareConfirmCount EXCEPT ![n][d] = got]
              /\ isCommitBordcast' = [isCommitBordcast EXCEPT ![n] =
                                        IF ready THEN @ \cup {d} ELSE @]
              /\ net' = (net \ {m}) \cup
                        (IF ready THEN Broadcast("commit", d, m.seq, n) ELSE {})
         ELSE net' = net \ {m} /\ UNCHANGED <<prePareConfirmCount, isCommitBordcast>>
      /\ UNCHANGED <<sequenceID, messagePool, commitConfirmCount, isReply,
                     localMessagePool, todo, down>>

(* Mutant of CommitQuorum: one Commit fewer. *)
CommitQuorumLow == 2 * F - 1

(* The Commits to receive: 2f, and the node's own makes 2f + 1. *)
CommitQuorum == 2 * F

NotReplied(n, d) == d \notin isReply[n]

handleCommit(m) ==
  LET n    == m.to
      d    == m.digest
      got  == commitConfirmCount[n][d] \cup {m.from}
      done == /\ Cardinality(got) >= CommitQuorum
              /\ NotReplied(n, d) /\ d \in isCommitBordcast[n]
  IN  /\ m.type = "commit" /\ m.to \notin down
      /\ IF prePareConfirmCount[n][d] # {} /\ SameNumber(n, m)
         THEN /\ commitConfirmCount' = [commitConfirmCount EXCEPT ![n][d] = got]
              /\ localMessagePool' = [localMessagePool EXCEPT ![n] =
                                        IF done THEN Append(@, [seq |-> m.seq, digest |-> d]) ELSE @]
              /\ isReply' = [isReply EXCEPT ![n] = IF done THEN @ \cup {d} ELSE @]
         ELSE UNCHANGED <<commitConfirmCount, localMessagePool, isReply>>
      /\ net' = net \ {m}
      /\ UNCHANGED <<sequenceID, messagePool, prePareConfirmCount, isCommitBordcast, todo, down>>

(* A node is closed by its user. *)
Close(n) ==
  /\ Cardinality(down) < MaxDown /\ n \notin down
  /\ down' = down \cup {n}
  /\ UNCHANGED <<sequenceID, messagePool, prePareConfirmCount, commitConfirmCount,
                 isCommitBordcast, isReply, localMessagePool, net, todo>>

(* A message under way ends with the process at either end: the dial is     *)
(* refused, or the goroutine that dials dies with its node.                 *)
Lost(m) ==
  /\ {m.from, m.to} \cap down # {}
  /\ net' = net \ {m}
  /\ UNCHANGED <<sequenceID, messagePool, prePareConfirmCount, commitConfirmCount,
                 isCommitBordcast, isReply, localMessagePool, todo, down>>

(* tcpDial had connected when the other node closed: the write fails, and   *)
(* log.Fatal ends the sender.                                               *)
WriteFails(m) ==
  /\ m.to \in down /\ m.from \notin down
  /\ net' = net \ {m}
  /\ down' = down \cup {m.from}
  /\ UNCHANGED <<sequenceID, messagePool, prePareConfirmCount, commitConfirmCount,
                 isCommitBordcast, isReply, localMessagePool, todo>>

handleRequest(m) == handlePrePrepare(m) \/ handlePrepare(m) \/ handleCommit(m)

Next ==
  \/ \E d \in todo : handleClientRequest(d)
  \/ \E m \in net : handlePrePrepare(m)
  \/ \E m \in net : handlePrepare(m)
  \/ \E m \in net : handleCommit(m)
  \/ \E n \in Node : Close(n)
  \/ \E m \in net : Lost(m)
  \/ \E m \in net : WriteFails(m)

Spec == Init /\ [][Next]_vars

(* TCP delivers what was dialled, in no particular order; the client sends. *)
Fairness ==
  /\ WF_vars(\E d \in todo : handleClientRequest(d))
  /\ WF_vars(\E m \in net : handleRequest(m) \/ Lost(m))

FairSpec == Spec /\ Fairness

-----------------------------------------------------------------------------
(* Properties. *)

Message == [type : {"preprepare", "prepare", "commit"}, digest : Request,
            seq : Nat, from : Node, to : Node]
Stored  == [seq : Nat, digest : Request]

(* Shape of the state; broadcast never dials its own node. *)
TypeOK ==
  /\ sequenceID \in [Node -> Nat]
  /\ messagePool \in [Node -> SUBSET Request]
  /\ prePareConfirmCount \in [Node -> [Request -> SUBSET Node]]
  /\ commitConfirmCount \in [Node -> [Request -> SUBSET Node]]
  /\ isCommitBordcast \in [Node -> SUBSET Request] /\ isReply \in [Node -> SUBSET Request]
  /\ localMessagePool \in [Node -> Seq(Stored)]
  /\ net \subseteq Message /\ (\A m \in net : m.from # m.to)
  /\ todo \subseteq Request /\ down \subseteq Node

(* handlePrepare's quorum ("至少收到了2f个prepare的消息（包括自己）"): a node     *)
(* broadcasts a Commit only for a request that 2f backups hold.             *)
CommitBackedByPrepares ==
  \A n \in Node : \A d \in isCommitBordcast[n] :
    Cardinality({p \in Node \ {Primary} : d \in messagePool[p]}) >= 2 * F

(* handleCommit's quorum ("至少收到了2f+1个commit消息（包括自己）"): what a node   *)
(* stores, 2f + 1 nodes have committed to.                                  *)
StoredBackedByCommits ==
  \A n \in Node : \A i \in DOMAIN localMessagePool[n] :
    Cardinality({p \in Node : localMessagePool[n][i].digest \in isCommitBordcast[p]}) >= 2 * F + 1

(* A node stores requests in the order of their numbers, none twice         *)
(* (sequenceID and isReply).                                                *)
StoredInOrder ==
  \A n \in Node : \A i, j \in DOMAIN localMessagePool[n] :
    i < j => localMessagePool[n][i].seq < localMessagePool[n][j].seq

(* Why the quorums count distinct nodes: a Prepare, in the network or        *)
(* counted, comes from a backup that holds the request, a Commit from a     *)
(* node that broadcast it, and the flags are set at a quorum only.          *)
MessagesBacked ==
  \A m \in net :
    /\ m.type = "preprepare" => m.to # Primary
    /\ m.type = "prepare" => m.from # Primary /\ m.digest \in messagePool[m.from]
    /\ m.type = "commit" => m.digest \in isCommitBordcast[m.from]

CountsBacked ==
  \A n \in Node : \A d \in Request :
    /\ \A p \in prePareConfirmCount[n][d] : p \notin {n, Primary} /\ d \in messagePool[p]
    /\ \A p \in commitConfirmCount[n][d] : p # n /\ d \in isCommitBordcast[p]

FlagsBacked ==
  /\ \A n \in Node : \A d \in isCommitBordcast[n] :
       d \in messagePool[n] /\ Cardinality(prePareConfirmCount[n][d]) >= PrepareQuorum(n)
  /\ \A n \in Node : \A i \in DOMAIN localMessagePool[n] :
       LET d == localMessagePool[n][i].digest
       IN  d \in isCommitBordcast[n] /\ Cardinality(commitConfirmCount[n][d]) >= CommitQuorum

QuorumInv == MessagesBacked /\ CountsBacked /\ FlagsBacked

(* Why requests are stored in order: the primary gives a number once, so    *)
(* that a number under way or stored belongs to one request, and what a     *)
(* node stored it has answered and is not numbered past the node.           *)
Numbered(seq, d) ==
  \/ \E m \in net : m.seq = seq /\ m.digest = d
  \/ \E n \in Node : \E i \in DOMAIN localMessagePool[n] :
       localMessagePool[n][i].seq = seq /\ localMessagePool[n][i].digest = d

OneRequestPerNumber ==
  \A seq \in Nat : \A d, e \in Request : Numbered(seq, d) /\ Numbered(seq, e) => d = e

NumbersGiven == \A seq \in Nat : \A d \in Request : Numbered(seq, d) => seq <= sequenceID[Primary]

StoredIsPast ==
  \A n \in Node : \A i \in DOMAIN localMessagePool[n] :
    /\ localMessagePool[n][i].seq <= sequenceID[n]
    /\ localMessagePool[n][i].digest \in isReply[n]

OrderInv == OneRequestPerNumber /\ NumbersGiven /\ StoredIsPast /\ StoredInOrder

(* With at most f nodes closed the client still gets a reply to what it     *)
(* sent ("客户端依然会接收到reply").                                          *)
ClientGetsReply ==
  \A d \in Request : <>(\E n \in Node : d \in isReply[n])
=============================================================================
