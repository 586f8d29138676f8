------------------------------ MODULE ThreadPBFT ------------------------------
(***************************************************************************)
(* The PBFT node with one goroutine per phase over a shared buffer         *)
(* (node/*.go, message/buffer.go).  One action is one turn of a goroutine's*)
(* loop.  Every message is posted by a goroutine of its own: messages are  *)
(* lost or arrive in any order, at most once.                              *)
(*                                                                         *)
(* IsPrimary decides nothing in requestRecvThread, lastReply and           *)
(* executeNum are never written, so they are left out: whoever gets a      *)
(* request proposes it.                                                    *)
(***************************************************************************)
EXTENDS Integers, Sequences, FiniteSets

CONSTANTS
  Up,       \* the nodes of the table that run
  FaultNum, \* FaultNum
  WaterL, WaterH,
  Sends     \* bound: the client's posts, [req, to] with an id of their own

(* FaultNum and the table come from the configuration: 3 * FaultNum + 1     *)
(* nodes, of which some may be down.  What the theorems ask of the          *)
(* constants.                                                               *)
NodesAssumption ==
  /\ FaultNum \in Nat
  /\ IsFiniteSet(Up) /\ Cardinality(Up) <= 3 * FaultNum + 1
  /\ WaterL \in Int /\ WaterH \in Int

VARIABLES
  toSend,       \* posts the client has not made
  requestQueue,
  sequence,
  lastSequence,
  prePrepareBuffer, \* digests: the requests themselves, a sequence
  prePrepareSet,    \* sequence numbers seen, the view being fixed
  checked,      \* the pre-prepare that passed checkPrePrepareMsg and is not buffered yet
  prepareSet,       \* <<digest, id>>
  prepareState,     \* digests
  commitSet, commitState,
  executeQueue,
  notified,     \* executeNotify: the commit goroutine waits for the executing one
  stuck,        \* FetchRequest returned with prePrepareLocker held
  executed,     \* the digests BatchExecute returned, in order
  proposed,     \* history: the batches a node proposed, in the order of their numbers
  net

buffers == <<requestQueue, prePrepareBuffer, prePrepareSet, prepareSet, prepareState,
             commitSet, commitState, executeQueue>>
vars == <<toSend, buffers, sequence, lastSequence, checked, notified, stuck, executed, proposed, net>>

Msg(type, to, from, seq, d) == [type |-> type, to |-> to, from |-> from, seq |-> seq, digest |-> d]
NoMsg == [type |-> "none"]
BroadCast(type, n, seq, d) == {Msg(type, to, n, seq, d) : to \in Up \ {n}}

Init ==
  /\ toSend = Sends
  /\ requestQueue = [n \in Up |-> << >>]
  /\ sequence = [n \in Up |-> -1]
  /\ lastSequence = [n \in Up |-> -1]
  /\ prePrepareBuffer = [n \in Up |-> {}]
  /\ prePrepareSet = [n \in Up |-> {}]
  /\ prepareSet = [n \in Up |-> {}]
  /\ prepareState = [n \in Up |-> {}]
  /\ commitSet = [n \in Up |-> {}]
  /\ commitState = [n \in Up |-> {}]
  /\ executeQueue = [n \in Up |-> << >>]
  /\ notified = [n \in Up |-> FALSE]
  /\ stuck = [n \in Up |-> FALSE]
  /\ checked = [n \in Up |-> NoMsg]
  /\ executed = [n \in Up |-> << >>]
  /\ proposed = [n \in Up |-> << >>]
  /\ net = {}

-----------------------------------------------------------------------------
(* The goroutine waits until prePrepareSendThread has taken its notice; a   *)
(* second request can come in before the queue is read, a third cannot.     *)
requestRecv(c) ==
  /\ c \in toSend /\ c.to \in Up /\ Len(requestQueue[c.to]) < 2
  /\ toSend' = toSend \ {c}
  /\ requestQueue' = [requestQueue EXCEPT ![c.to] = Append(@, c.req)]
  /\ UNCHANGED <<prePrepareBuffer, prePrepareSet, prepareSet, prepareState, commitSet,
                 commitState, executeQueue, sequence, lastSequence, checked, notified, stuck,
                 executed, proposed, net>>

(* By notice or by timer; a batch is the whole queue. *)
prePrepareSend(n) ==
  LET seq == sequence[n] + 1
      d   == requestQueue[n]
  IN  /\ requestQueue[n] # << >> /\ ~stuck[n]
      /\ requestQueue' = [requestQueue EXCEPT ![n] = << >>]
      /\ sequence' = [sequence EXCEPT ![n] = seq]
      /\ prePrepareBuffer' = [prePrepareBuffer EXCEPT ![n] = @ \cup {d}]
      /\ prePrepareSet' = [prePrepareSet EXCEPT ![n] = @ \cup {seq}]
      /\ proposed' = [proposed EXCEPT ![n] = Append(@, d)]
      /\ net' = net \cup BroadCast("preprepare", n, seq, d)
      /\ UNCHANGED <<toSend, prepareSet, prepareState, commitSet, commitState, executeQueue,
                     lastSequence, checked, notified, stuck, executed>>

CheckBound(n, seq) == seq >= lastSequence[n] /\ seq >= WaterL /\ seq <= WaterH

(* Mutant of checkPrePrepareMsg: IsExistPreprepareMsg is not asked. *)
checkPrePrepareBlind(n, m) == CheckBound(n, m.seq)

(* The view is fixed, and a digest is the batch itself. *)
checkPrePrepareMsg(n, m) == m.seq \notin prePrepareSet[n] /\ CheckBound(n, m.seq)

(* The node may propose the same number before the message is buffered. *)
checkPrePrepare(m) ==
  LET n == m.to
  IN  /\ m.type = "preprepare" /\ checked[n] = NoMsg /\ ~stuck[n]
      /\ checked' = IF checkPrePrepareMsg(n, m) THEN [checked EXCEPT ![n] = m] ELSE checked
      /\ net' = net \ {m}
      /\ UNCHANGED <<toSend, buffers, sequence, lastSequence, notified, stuck, executed, proposed>>

(* The node's own prepare is stored, but not looked at. *)
prePrepareRecv(n) ==
  LET m == checked[n]
  IN  /\ m # NoMsg /\ ~stuck[n]
      /\ checked' = [checked EXCEPT ![n] = NoMsg]
      /\ prePrepareBuffer' = [prePrepareBuffer EXCEPT ![n] = @ \cup {m.digest}]
      /\ prePrepareSet' = [prePrepareSet EXCEPT ![n] = @ \cup {m.seq}]
      /\ prepareSet' = [prepareSet EXCEPT ![n] = @ \cup {<<m.digest, n>>}]
      /\ net' = net \cup BroadCast("prepare", n, m.seq, m.digest)
      /\ UNCHANGED <<toSend, requestQueue, prepareState, commitSet, commitState, executeQueue,
                     sequence, lastSequence, notified, stuck, executed, proposed>>

Count(set, d) == Cardinality({x \in set : x[1] = d})

IsTrueOfPrepareMsg(set, state, d) == Count(set, d) >= 2 * FaultNum /\ d \notin state

(* No pre-prepare is asked for. *)
prepareRecv(m) ==
  LET n    == m.to
      set  == prepareSet[n] \cup {<<m.digest, m.from>>}
      goes == IsTrueOfPrepareMsg(set, prepareState[n], m.digest)
  IN  /\ m.type = "prepare"
      /\ IF CheckBound(n, m.seq)
         THEN /\ prepareSet' = [prepareSet EXCEPT ![n] = set]
              /\ prepareState' = [prepareState EXCEPT ![n] = IF goes THEN @ \cup {m.digest} ELSE @]
              /\ commitSet' = [commitSet EXCEPT ![n] = IF goes THEN @ \cup {<<m.digest, n>>} ELSE @]
              /\ net' = (net \ {m}) \cup
                        (IF goes THEN BroadCast("commit", n, m.seq, m.digest) ELSE {})
         ELSE net' = net \ {m} /\ UNCHANGED <<prepareSet, prepareState, commitSet>>
      /\ UNCHANGED <<toSend, requestQueue, prePrepareBuffer, prePrepareSet, commitState,
                     executeQueue, sequence, lastSequence, checked, notified, stuck, executed,
                     proposed>>

(* Mutant of IsReadyToExecute: no pre-prepare is asked for. *)
IsReadyToExecuteBlind(n, set, m) ==
  m.digest \in prepareState[n] /\ Count(set, m.digest) >= 2 * FaultNum + 1
    /\ m.digest \notin commitState[n]

(* Mutant of IsReadyToExecute: 2*FaultNum for 2*FaultNum+1. *)
IsReadyToExecuteLow(n, set, m) ==
  m.seq \in prePrepareSet[n] /\ m.digest \in prepareState[n]
    /\ Count(set, m.digest) >= 2 * FaultNum /\ m.digest \notin commitState[n]

(* A pre-prepare for the number, whatever its digest; IsTrueOfCommitMsg. *)
IsReadyToExecute(n, set, m) ==
  m.seq \in prePrepareSet[n] /\ m.digest \in prepareState[n]
    /\ Count(set, m.digest) >= 2 * FaultNum + 1 /\ m.digest \notin commitState[n]

(* Mutant of AppendToExecuteQueue: no sorting. *)
AppendAtEnd(q, m) == Append(q, m)

(* Insertion behind the last element with a number not above m's. *)
AppendToExecuteQueue(q, m) ==
  LET k == Cardinality({i \in DOMAIN q : q[i].seq <= m.seq})
  IN  SubSeq(q, 1, k) \o <<m>> \o SubSeq(q, k + 1, Len(q))

commitRecv(m) ==
  LET n    == m.to
      set  == commitSet[n] \cup {<<m.digest, m.from>>}
      goes == IsReadyToExecute(n, set, m)
  IN  /\ m.type = "commit" /\ ~notified[n] /\ ~stuck[n]
      /\ IF CheckBound(n, m.seq)
         THEN /\ commitSet' = [commitSet EXCEPT ![n] = set]
              /\ commitState' = [commitState EXCEPT ![n] = IF goes THEN @ \cup {m.digest} ELSE @]
              /\ executeQueue' = [executeQueue EXCEPT ![n] =
                   IF goes THEN AppendToExecuteQueue(@, [seq |-> m.seq, digest |-> m.digest]) ELSE @]
              /\ notified' = [notified EXCEPT ![n] = goes]
         ELSE UNCHANGED <<commitSet, commitState, executeQueue, notified>>
      /\ net' = net \ {m}
      /\ UNCHANGED <<toSend, requestQueue, prePrepareBuffer, prePrepareSet, prepareSet,
                     prepareState, sequence, lastSequence, checked, stuck, executed, proposed>>

(* Mutant of BatchExecute: gaps are skipped. *)
BatchExecuteAll(q, last) == Len(q)

(* How many of the queue follow on lastSequence without a gap. *)
BatchExecute(q, last) ==
  CHOOSE k \in 0 .. Len(q) :
    /\ \A i \in 1 .. k : q[i].seq = last + i
    /\ k < Len(q) => q[k + 1].seq # last + k + 1

(* A digest that FetchRequest does not find leaves prePrepareLocker held. *)
FetchRequestFails(n, ds) == \E i \in DOMAIN ds : ds[i] \notin prePrepareBuffer[n]

executeAndReply(n) ==
  LET k  == BatchExecute(executeQueue[n], lastSequence[n])
      ds == [i \in 1 .. k |-> executeQueue[n][i].digest]
  IN  /\ notified[n] /\ ~stuck[n]
      /\ notified' = [notified EXCEPT ![n] = FALSE]
      /\ executeQueue' = [executeQueue EXCEPT ![n] = SubSeq(@, k + 1, Len(@))]
      /\ lastSequence' = [lastSequence EXCEPT ![n] = @ + k]
      /\ executed' = [executed EXCEPT ![n] = @ \o ds]
      /\ stuck' = [stuck EXCEPT ![n] = FetchRequestFails(n, ds)]
      /\ prePrepareBuffer' = [prePrepareBuffer EXCEPT ![n] = @ \ {ds[i] : i \in 1 .. k}]
      /\ UNCHANGED <<toSend, requestQueue, prePrepareSet, prepareSet, prepareState, commitSet,
                     commitState, sequence, checked, proposed, net>>

Next ==
  \/ \E c \in Sends : requestRecv(c)
  \/ \E n \in Up : prePrepareSend(n) \/ prePrepareRecv(n) \/ executeAndReply(n)
  \/ \E m \in net : checkPrePrepare(m) \/ prepareRecv(m) \/ commitRecv(m)

Spec == Init /\ [][Next]_vars

-----------------------------------------------------------------------------
(* Properties *)

(* Two nodes execute the same batches in the same order, as far as both are. *)
ExecutedAgree ==
  \A n, o \in Up : \A i \in DOMAIN executed[n] \cap DOMAIN executed[o] :
    executed[n][i] = executed[o][i]

(* A batch is executed at the position of its sequence number, only after   *)
(* 2*FaultNum + 1 nodes had 2*FaultNum prepares for it.                     *)
ExecutedBackedByPrepares ==
  \A n \in Up : \A i \in DOMAIN executed[n] :
    Cardinality({o \in Up : executed[n][i] \in prepareState[o]}) >= 2 * FaultNum + 1

(* The executing goroutine never goes to sleep with a batch in the queue    *)
(* that is next in order.                                                   *)
NothingDueLeft ==
  \A n \in Up : ~notified[n] /\ ~stuck[n] =>
    \A i \in DOMAIN executeQueue[n] : executeQueue[n][i].seq > lastSequence[n] + 1

(* With a single proposer FetchRequest always finds the batch. *)
LockReleased == (\A c, e \in Sends : c.to = e.to) => \A n \in Up : ~stuck[n]
=============================================================================
