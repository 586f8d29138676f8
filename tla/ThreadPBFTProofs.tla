--------------------------- MODULE ThreadPBFTProofs ---------------------------
(***************************************************************************)
(* ThreadPBFT for every table of nodes, any water marks and any number of  *)
(* proposers: nodes execute one sequence of batches.  The client's posts   *)
(* differ in content (SendsDistinct), so that a batch tells its proposer   *)
(* and its number.                                                         *)
(*                                                                         *)
(* A node votes for one proposal per number.  Two proposals with 2f votes  *)
(* each, none of them the proposer's own, would need all 3f + 1 nodes and  *)
(* both proposers to vote for each other (VotesApart).                     *)
(***************************************************************************)
EXTENDS ThreadPBFTInv, TLAPS, FiniteSetTheorems, SequenceTheorems, WellFoundedInduction

USE DEF NodesAssumption

-----------------------------------------------------------------------------
(* Numbers and sequences. *)

(* A set of natural numbers that is not empty has a least one. *)
LEMMA LeastNat ==
  ASSUME NEW T, T \subseteq Nat, T # {}
  PROVE  \E x \in T : \A y \in T : x <= y
<1>1. PICK x \in T : \A y \in T : <<y, x>> \notin OpToRel(<, Nat)
  BY WFMin, NatLessThanWellFounded, Zenon
<1>2. \A y \in T : ~(y < x)
  BY <1>1 DEF OpToRel
<1> QED
  BY <1>2

(* What is left of a sequence without its first k elements. *)
LEMMA Rest ==
  ASSUME NEW S, NEW q \in Seq(S), NEW k \in 0 .. Len(q), NEW r, r = SubSeq(q, k + 1, Len(q))
  PROVE  r \in Seq(S) /\ Len(r) = Len(q) - k /\ \A i \in 1 .. Len(q) - k : r[i] = q[k + i]
<1>1. /\ Len(q) \in Nat /\ k \in Nat /\ k <= Len(q) /\ k + 1 \in Int
      /\ \A i \in k + 1 .. Len(q) : q[i] \in S
  BY LenProperties, ElementOfSeq
<1>2. SubSeq(q, k + 1, Len(q)) \in Seq(S)
  BY <1>1, SubSeqProperties
<1>3. Len(SubSeq(q, k + 1, Len(q))) = Len(q) - k
  BY <1>1, SubSeqProperties
<1>4. ASSUME NEW i \in 1 .. Len(q) - k PROVE SubSeq(q, k + 1, Len(q))[i] = q[k + i]
  <2>1. i \in 1 .. Len(q) - (k + 1) + 1 /\ (k + 1) + i - 1 = k + i
    BY <1>1
  <2>2. SubSeq(q, k + 1, Len(q))[i] = q[(k + 1) + i - 1]
    BY <1>1, <2>1, SubSeqProperties
  <2> QED
    BY <2>1, <2>2
<1> QED
  BY <1>2, <1>3, <1>4

Inserted(q, k, m) == SubSeq(q, 1, k) \o <<m>> \o SubSeq(q, k + 1, Len(q))

HasBehind(r, q, k, m) ==
  /\ Len(r) = Len(q) + 1
  /\ \A i \in 1 .. Len(q) + 1 : r[i] = IF i <= k THEN q[i] ELSE IF i = k + 1 THEN m ELSE q[i - 1]

(* An element put into a sequence behind the first k. *)
LEMMA InsertAt ==
  ASSUME NEW S, NEW q \in Seq(S), NEW m \in S, NEW k \in 0 .. Len(q)
  PROVE  Inserted(q, k, m) \in Seq(S) /\ HasBehind(Inserted(q, k, m), q, k, m)
<1>0. Len(q) \in Nat /\ \A i \in 1 .. Len(q) : q[i] \in S
  BY LenProperties, ElementOfSeq
<1>1. PICK a : a = SubSeq(q, 1, k)
  OBVIOUS
<1>2. PICK b : b = SubSeq(q, k + 1, Len(q))
  OBVIOUS
<1>3. a \in Seq(S) /\ Len(a) = k /\ \A i \in 1 .. k : a[i] = q[i]
  BY <1>0, <1>1, SubSeqProperties
<1>4. b \in Seq(S) /\ Len(b) = Len(q) - k /\ \A i \in 1 .. Len(q) - k : b[i] = q[k + i]
  BY <1>2, Rest
<1>5. <<m>> \in Seq(S) /\ Len(<<m>>) = 1 /\ <<m>>[1] = m
  OBVIOUS
<1>6. PICK c : c = a \o <<m>>
  OBVIOUS
<1>7. c \in Seq(S) /\ Len(c) = k + 1 /\ \A i \in 1 .. k + 1 : c[i] = IF i <= k THEN q[i] ELSE m
  BY <1>3, <1>5, <1>6, ConcatProperties
<1>8. /\ c \o b \in Seq(S) /\ Len(c \o b) = Len(q) + 1
      /\ \A i \in 1 .. Len(q) + 1 : (c \o b)[i] = IF i <= k + 1 THEN c[i] ELSE b[i - (k + 1)]
  <2>1. /\ c \o b \in Seq(S) /\ Len(c \o b) = Len(c) + Len(b)
        /\ \A i \in 1 .. Len(c) + Len(b) : (c \o b)[i] = IF i <= Len(c) THEN c[i] ELSE b[i - Len(c)]
    BY <1>4, <1>7, ConcatProperties
  <2>2. Len(c) + Len(b) = Len(q) + 1 /\ Len(c) = k + 1
    BY <1>0, <1>4, <1>7
  <2> QED
    BY <2>1, <2>2
<1>r. PICK r : r = c \o b
  OBVIOUS
<1>11. r = Inserted(q, k, m)
  BY <1>1, <1>2, <1>6, <1>r DEF Inserted
<1>9. /\ r \in Seq(S) /\ Len(r) = Len(q) + 1
      /\ \A i \in 1 .. Len(q) + 1 : r[i] = IF i <= k + 1 THEN c[i] ELSE b[i - (k + 1)]
  BY <1>r, <1>8
<1>10. ASSUME NEW i \in 1 .. Len(q) + 1
       PROVE  r[i] = IF i <= k THEN q[i] ELSE IF i = k + 1 THEN m ELSE q[i - 1]
  <2>1. r[i] = IF i <= k + 1 THEN c[i] ELSE b[i - (k + 1)]
    BY <1>9
  <2>2. CASE i <= k + 1
    <3>1. c[i] = IF i <= k THEN q[i] ELSE m
      BY <1>7, <2>2
    <3> QED
      BY <2>1, <2>2, <3>1
  <2>3. CASE i > k + 1
    <3>1. i - (k + 1) \in 1 .. Len(q) - k /\ k + (i - (k + 1)) = i - 1
      BY <1>0, <2>3
    <3>2. b[i - (k + 1)] = q[i - 1]
      BY <1>4, <3>1
    <3> QED
      BY <1>0, <2>1, <2>3, <3>2
  <2> QED
    BY <1>0, <2>2, <2>3
<1> QED
  BY <1>9, <1>10, <1>11 DEF HasBehind

Entry == [seq : Nat, digest : Batch]

(* The place AppendToExecuteQueue finds. *)
LEMMA PlaceType ==
  ASSUME NEW q \in Seq(Entry), NEW s \in Nat
  PROVE  Cardinality({i \in DOMAIN q : q[i].seq <= s}) \in 0 .. Len(q)
<1>1. DOMAIN q = 1 .. Len(q) /\ Len(q) \in Nat
  BY LenProperties
<1>2. IsFiniteSet(1 .. Len(q)) /\ Cardinality(1 .. Len(q)) = Len(q)
  <2>0. 1 \in Int /\ Len(q) \in Int
    BY <1>1
  <2>1. /\ IsFiniteSet(1 .. Len(q))
        /\ Cardinality(1 .. Len(q)) = IF 1 > Len(q) THEN 0 ELSE Len(q) - 1 + 1
    BY <2>0, FS_Interval
  <2> QED
    BY <1>1, <2>1
<1>3. {i \in DOMAIN q : q[i].seq <= s} \in SUBSET (1 .. Len(q))
  BY <1>1
<1>4. /\ IsFiniteSet({i \in DOMAIN q : q[i].seq <= s})
      /\ Cardinality({i \in DOMAIN q : q[i].seq <= s}) <= Len(q)
  BY <1>2, <1>3, FS_Subset
<1> QED
  BY <1>4, <1>1, FS_CardinalityType

(* What BatchExecute finds: the elements that follow on without a gap. *)
LEMMA BatchPrefix ==
  ASSUME NEW q \in Seq(Entry), NEW last \in Int
  PROVE  LET k == BatchExecute(q, last)
         IN  /\ k \in 0 .. Len(q)
             /\ \A i \in 1 .. k : q[i].seq = last + i
             /\ k < Len(q) => q[k + 1].seq # last + k + 1
<1> DEFINE T == {k \in 0 .. Len(q) : k < Len(q) => q[k + 1].seq # last + k + 1}
<1>1. Len(q) \in Nat
  BY LenProperties
<1>2. Len(q) \in T /\ T \subseteq Nat
  BY <1>1
<1>3. PICK k \in T : \A y \in T : k <= y
  <2> HIDE DEF T
  <2> QED
    BY <1>2, LeastNat
<1>4. ASSUME NEW i \in 1 .. k PROVE q[i].seq = last + i
  <2>1. i - 1 \in 0 .. Len(q) /\ i - 1 < Len(q) /\ ~(k <= i - 1) /\ (i - 1) + 1 = i
    BY <1>1
  <2>2. i - 1 \notin T
    BY <1>3, <2>1
  <2>3. q[(i - 1) + 1].seq = last + (i - 1) + 1
    BY <2>1, <2>2
  <2> QED
    BY <2>1, <2>3
<1>5. /\ k \in 0 .. Len(q)
      /\ \A i \in 1 .. k : q[i].seq = last + i
      /\ k < Len(q) => q[k + 1].seq # last + k + 1
  BY <1>4
<1> QED
  BY <1>5 DEF BatchExecute

-----------------------------------------------------------------------------
(* Messages. *)

(* The fields of a message. *)
LEMMA Fields ==
  \A m \in Message : /\ m.type \in {"preprepare", "prepare", "commit"}
                     /\ m.to \in Up /\ m.from \in Up /\ m.seq \in Nat /\ m.digest \in Batch
                     /\ m # NoMsg
BY DEF Message, NoMsg

(* What BroadCast posts. *)
LEMMA Posted ==
  ASSUME NEW type \in {"preprepare", "prepare", "commit"}, NEW n \in Up, NEW s \in Nat,
         NEW d \in Batch
  PROVE  /\ BroadCast(type, n, s, d) \subseteq Message
         /\ \A m \in BroadCast(type, n, s, d) :
              m.type = type /\ m.from = n /\ m.to # n /\ m.seq = s /\ m.digest = d
BY DEF BroadCast, Msg, Message

-----------------------------------------------------------------------------
(* Types. *)

(* request.go:7: the queue gets a request. *)
LEMMA requestRecvType ==
  ASSUME TypeOK, NEW c \in Sends, requestRecv(c)
  PROVE  TypeOK'
<1>1. c.req \in Reqs
  BY DEF Reqs
<1>2. Append(requestQueue[c.to], c.req) \in Seq(Reqs)
  BY <1>1 DEF TypeOK, requestRecv
<1> QED
  BY <1>2 DEF TypeOK, requestRecv

(* A queue that is not empty is a batch. *)
LEMMA QueueIsBatch ==
  ASSUME TypeOK, NEW n \in Up, requestQueue[n] # << >>
  PROVE  requestQueue[n] \in Batch
BY DEF TypeOK, Batch

(* preprepare.go:11: the proposer's next number. *)
LEMMA NextNumber ==
  ASSUME TypeOK, NEW n \in Up
  PROVE  sequence[n] + 1 \in Nat
<1>1. sequence[n] \in Nat \/ sequence[n] = -1
  BY DEF TypeOK
<1> QED
  BY <1>1

(* preprepare.go:11: a batch is proposed. *)
LEMMA prePrepareSendType ==
  ASSUME TypeOK, NEW n \in Up, prePrepareSend(n)
  PROVE  TypeOK'
<1>1. PICK d \in {requestQueue[n]}, s \in {sequence[n] + 1} : TRUE
  OBVIOUS
<1>2. d \in Batch /\ s \in Nat
  BY <1>1, QueueIsBatch, NextNumber DEF prePrepareSend
<1>3. BroadCast("preprepare", n, s, d) \subseteq Message
  BY <1>2, Posted
<1>4. Append(proposed[n], d) \in Seq(Batch)
  BY <1>2 DEF TypeOK
<1>5. << >> \in Seq(Reqs)
  OBVIOUS
<1>6. /\ requestQueue' = [requestQueue EXCEPT ![n] = << >>]
      /\ sequence' = [sequence EXCEPT ![n] = s]
      /\ prePrepareBuffer' = [prePrepareBuffer EXCEPT ![n] = @ \cup {d}]
      /\ prePrepareSet' = [prePrepareSet EXCEPT ![n] = @ \cup {s}]
      /\ proposed' = [proposed EXCEPT ![n] = Append(@, d)]
      /\ net' = net \cup BroadCast("preprepare", n, s, d)
      /\ UNCHANGED <<toSend, prepareSet, prepareState, commitSet, commitState, executeQueue,
                     lastSequence, checked, notified, stuck, executed>>
  BY <1>1 DEF prePrepareSend
<1> QED
  BY <1>2, <1>3, <1>4, <1>5, <1>6 DEF TypeOK

(* preprepare.go:66: a message is set aside or dropped. *)
LEMMA checkPrePrepareType ==
  ASSUME TypeOK, NEW m \in net, checkPrePrepare(m)
  PROVE  TypeOK'
<1>1. m \in Message /\ m.to \in Up
  BY Fields DEF TypeOK
<1> QED
  BY <1>1 DEF TypeOK, checkPrePrepare, buffers

(* preprepare.go:48: a proposal is buffered and voted for. *)
LEMMA prePrepareRecvType ==
  ASSUME TypeOK, NEW n \in Up, prePrepareRecv(n)
  PROVE  TypeOK'
<1>1. PICK m \in {checked[n]} : TRUE
  OBVIOUS
<1>2. m \in Message /\ m.seq \in Nat /\ m.digest \in Batch
  BY <1>1, Fields DEF TypeOK, prePrepareRecv
<1>3. BroadCast("prepare", n, m.seq, m.digest) \subseteq Message
  BY <1>2, Posted
<1>4. /\ checked' = [checked EXCEPT ![n] = NoMsg]
      /\ prePrepareBuffer' = [prePrepareBuffer EXCEPT ![n] = @ \cup {m.digest}]
      /\ prePrepareSet' = [prePrepareSet EXCEPT ![n] = @ \cup {m.seq}]
      /\ prepareSet' = [prepareSet EXCEPT ![n] = @ \cup {<<m.digest, n>>}]
      /\ net' = net \cup BroadCast("prepare", n, m.seq, m.digest)
      /\ UNCHANGED <<toSend, requestQueue, prepareState, commitSet, commitState, executeQueue,
                     sequence, lastSequence, notified, stuck, executed, proposed>>
  BY <1>1 DEF prePrepareRecv
<1>5. <<m.digest, n>> \in Batch \X Up
  BY <1>2
<1>6. prepareSet' \in [Up -> SUBSET (Batch \X Up)]
  BY <1>4, <1>5 DEF TypeOK
<1>7. prePrepareBuffer' \in [Up -> SUBSET Batch] /\ prePrepareSet' \in [Up -> SUBSET Nat]
  BY <1>2, <1>4 DEF TypeOK
<1>8. checked' \in [Up -> Message \cup {NoMsg}] /\ net' \subseteq Message
  BY Zenon, <1>2, <1>3, <1>4 DEF TypeOK
<1> QED
  BY Zenon, <1>4, <1>6, <1>7, <1>8 DEF TypeOK

(* prepare.go:8: m is stored, and so far nothing more. *)
PrepareStored(m) ==
  /\ prepareSet' = [prepareSet EXCEPT ![m.to] = @ \cup {<<m.digest, m.from>>}]
  /\ UNCHANGED <<prepareState, commitSet>>
  /\ net' = net \ {m}

(* prepare.go:8: m completes a quorum. *)
PrepareQuorum(m) ==
  /\ prepareSet' = [prepareSet EXCEPT ![m.to] = @ \cup {<<m.digest, m.from>>}]
  /\ Count(prepareSet[m.to] \cup {<<m.digest, m.from>>}, m.digest) >= 2 * FaultNum
  /\ prepareState' = [prepareState EXCEPT ![m.to] = @ \cup {m.digest}]
  /\ commitSet' = [commitSet EXCEPT ![m.to] = @ \cup {<<m.digest, m.to>>}]
  /\ net' = (net \ {m}) \cup BroadCast("commit", m.to, m.seq, m.digest)

(* prepare.go:8: what may become of a prepare. *)
LEMMA PrepareCases ==
  ASSUME TypeOK, NEW m \in net, prepareRecv(m)
  PROVE  /\ \/ UNCHANGED <<prepareSet, prepareState, commitSet>> /\ net' = net \ {m}
            \/ PrepareStored(m)
            \/ PrepareQuorum(m)
         /\ m.type = "prepare" /\ m.to \in Up /\ m.from \in Up /\ m.seq \in Nat /\ m.digest \in Batch
         /\ UNCHANGED <<toSend, requestQueue, prePrepareBuffer, prePrepareSet, commitState,
                        executeQueue, sequence, lastSequence, checked, notified, stuck, executed,
                        proposed>>
<1> DEFINE goes == IsTrueOfPrepareMsg(prepareSet[m.to] \cup {<<m.digest, m.from>>}, prepareState[m.to], m.digest)
<1>4. \/ UNCHANGED <<prepareSet, prepareState, commitSet>> /\ net' = net \ {m}
      \/ PrepareStored(m)
      \/ PrepareQuorum(m)
  <2>1. CASE CheckBound(m.to, m.seq) /\ goes
    <3>1. /\ prepareSet' = [prepareSet EXCEPT ![m.to] = @ \cup {<<m.digest, m.from>>}]
          /\ prepareState' = [prepareState EXCEPT ![m.to] = @ \cup {m.digest}]
          /\ commitSet' = [commitSet EXCEPT ![m.to] = @ \cup {<<m.digest, m.to>>}]
          /\ net' = (net \ {m}) \cup BroadCast("commit", m.to, m.seq, m.digest)
      BY <2>1 DEF prepareRecv, TypeOK
    <3> QED
      BY <2>1, <3>1 DEF IsTrueOfPrepareMsg, PrepareQuorum
  <2>2. CASE CheckBound(m.to, m.seq) /\ ~goes
    BY <2>2 DEF prepareRecv, TypeOK, PrepareStored
  <2>3. CASE ~CheckBound(m.to, m.seq)
    BY <2>3 DEF prepareRecv
  <2> QED
    BY <2>1, <2>2, <2>3
<1>5. m.to \in Up /\ m.from \in Up /\ m.seq \in Nat /\ m.digest \in Batch
  BY Fields DEF TypeOK
<1> HIDE DEF goes
<1> QED
  BY <1>4, <1>5 DEF prepareRecv

(* prepare.go:8: what of a node a prepare changes. *)
LEMMA PrepareChanges ==
  ASSUME TypeOK, NEW m \in net, prepareRecv(m)
  PROVE  /\ \/ prepareSet' = prepareSet
            \/ prepareSet' = [prepareSet EXCEPT ![m.to] = @ \cup {<<m.digest, m.from>>}]
         /\ \/ prepareState' = prepareState
            \/ prepareState' = [prepareState EXCEPT ![m.to] = @ \cup {m.digest}]
         /\ \/ commitSet' = commitSet
            \/ commitSet' = [commitSet EXCEPT ![m.to] = @ \cup {<<m.digest, m.to>>}]
         /\ net' \subseteq net \cup BroadCast("commit", m.to, m.seq, m.digest)
<1>1. \/ UNCHANGED <<prepareSet, prepareState, commitSet>> /\ net' = net \ {m}
      \/ PrepareStored(m)
      \/ PrepareQuorum(m)
  BY PrepareCases
<1>2. CASE UNCHANGED <<prepareSet, prepareState, commitSet>> /\ net' = net \ {m}
  BY <1>2
<1>3. CASE PrepareStored(m)
  BY <1>3 DEF PrepareStored
<1>4. CASE PrepareQuorum(m)
  BY <1>4, Zenon DEF PrepareQuorum
<1> QED
  BY <1>1, <1>2, <1>3, <1>4

(* prepare.go:8: a vote is stored, and may complete a quorum. *)
LEMMA prepareRecvType ==
  ASSUME TypeOK, NEW m \in net, prepareRecv(m)
  PROVE  TypeOK'
<1>1. m.to \in Up /\ m.from \in Up /\ m.seq \in Nat /\ m.digest \in Batch
  BY PrepareCases
<1>2. BroadCast("commit", m.to, m.seq, m.digest) \subseteq Message
  BY <1>1, Posted
<1>3. <<m.digest, m.from>> \in Batch \X Up /\ <<m.digest, m.to>> \in Batch \X Up
  BY <1>1
<1>4. /\ prepareSet \in [Up -> SUBSET (Batch \X Up)] /\ commitSet \in [Up -> SUBSET (Batch \X Up)]
      /\ prepareState \in [Up -> SUBSET Batch] /\ net \subseteq Message
  BY DEF TypeOK
<1>5. prepareSet' \in [Up -> SUBSET (Batch \X Up)]
  BY <1>1, <1>3, <1>4, PrepareChanges
<1>6. commitSet' \in [Up -> SUBSET (Batch \X Up)]
  BY <1>1, <1>3, <1>4, PrepareChanges
<1>8. prepareState' \in [Up -> SUBSET Batch]
  BY <1>1, <1>4, PrepareChanges
<1>7. net' \subseteq Message
  BY <1>2, <1>4, PrepareChanges
<1> QED
  BY <1>5, <1>6, <1>7, <1>8, PrepareCases DEF TypeOK

(* buffer.go: AppendToExecuteQueue returns a queue. *)
LEMMA InsertedType ==
  ASSUME NEW q \in Seq(Entry), NEW m \in Entry
  PROVE  AppendToExecuteQueue(q, m) \in Seq(Entry)
<1>1. PICK k \in {Cardinality({i \in DOMAIN q : q[i].seq <= m.seq})} : TRUE
  OBVIOUS
<1>2. m.seq \in Nat
  BY DEF Entry
<1>3. k \in 0 .. Len(q)
  BY <1>1, <1>2, PlaceType
<1>4. AppendToExecuteQueue(q, m) = Inserted(q, k, m)
  BY Zenon, <1>1 DEF AppendToExecuteQueue, Inserted
<1> QED
  BY <1>3, <1>4, InsertAt

(* What a node executes from, and where it is. *)
LEMMA QueueType ==
  ASSUME TypeOK, NEW n \in Up
  PROVE  /\ executeQueue[n] \in Seq(Entry) /\ Len(executeQueue[n]) \in Nat
         /\ \A i \in 1 .. Len(executeQueue[n]) :
              executeQueue[n][i].seq \in Nat /\ executeQueue[n][i].digest \in Batch
         /\ lastSequence[n] \in Int /\ (lastSequence[n] \in Nat \/ lastSequence[n] = -1)
<1>1. executeQueue \in [Up -> Seq(Entry)]
  BY DEF TypeOK, Entry
<1>2. executeQueue[n] \in Seq(Entry)
  BY <1>1
<1>3. Len(executeQueue[n]) \in Nat /\ \A i \in 1 .. Len(executeQueue[n]) : executeQueue[n][i] \in Entry
  BY <1>2, LenProperties, ElementOfSeq
<1>4. lastSequence[n] \in Nat \cup {-1}
  BY DEF TypeOK
<1> QED
  BY <1>2, <1>3, <1>4 DEF Entry

Executable(m) == [seq |-> m.seq, digest |-> m.digest]

(* commit.go:7: m lets its batch be executed. *)
CommitQuorum(m) ==
  /\ CheckBound(m.to, m.seq)
  /\ IsReadyToExecute(m.to, commitSet[m.to] \cup {<<m.digest, m.from>>}, m)
  /\ commitSet' = [commitSet EXCEPT ![m.to] = @ \cup {<<m.digest, m.from>>}]
  /\ commitState' = [commitState EXCEPT ![m.to] = @ \cup {m.digest}]
  /\ executeQueue' = [executeQueue EXCEPT ![m.to] = AppendToExecuteQueue(@, Executable(m))]
  /\ notified' = [notified EXCEPT ![m.to] = TRUE]

(* commit.go:7: what may become of a commit. *)
LEMMA CommitCases ==
  ASSUME TypeOK, NEW m \in net, commitRecv(m)
  PROVE  /\ \/ /\ UNCHANGED <<commitState, executeQueue, notified>>
               /\ \/ UNCHANGED commitSet
                  \/ commitSet' = [commitSet EXCEPT ![m.to] = @ \cup {<<m.digest, m.from>>}]
            \/ CommitQuorum(m)
         /\ m.type = "commit" /\ m.to \in Up /\ m.from \in Up /\ m.seq \in Nat /\ m.digest \in Batch
         /\ ~notified[m.to] /\ ~stuck[m.to]
         /\ net' = net \ {m}
         /\ UNCHANGED <<toSend, requestQueue, prePrepareBuffer, prePrepareSet, prepareSet,
                        prepareState, sequence, lastSequence, checked, stuck, executed, proposed>>
<1>0. m.to \in Up /\ m.from \in Up /\ m.seq \in Nat /\ m.digest \in Batch
  BY Fields DEF TypeOK
<1>1. PICK goes \in {IsReadyToExecute(m.to, commitSet[m.to] \cup {<<m.digest, m.from>>}, m)} : TRUE
  OBVIOUS
<1>2. goes \in BOOLEAN
  BY <1>1 DEF IsReadyToExecute
<1>5. \/ /\ UNCHANGED <<commitState, executeQueue, notified>>
         /\ \/ UNCHANGED commitSet
            \/ commitSet' = [commitSet EXCEPT ![m.to] = @ \cup {<<m.digest, m.from>>}]
      \/ CommitQuorum(m)
  <2>3. CASE ~CheckBound(m.to, m.seq)
    BY <2>3 DEF commitRecv
  <2>4. CASE CheckBound(m.to, m.seq)
    <3>1. /\ commitSet' = [commitSet EXCEPT ![m.to] = @ \cup {<<m.digest, m.from>>}]
          /\ commitState' = [commitState EXCEPT ![m.to] = IF goes THEN @ \cup {m.digest} ELSE @]
          /\ executeQueue' = [executeQueue EXCEPT ![m.to] =
                                IF goes THEN AppendToExecuteQueue(@, Executable(m)) ELSE @]
          /\ notified' = [notified EXCEPT ![m.to] = goes]
          /\ ~notified[m.to]
      BY <1>1, <2>4, Zenon DEF commitRecv, Executable
    <3>2. CASE goes
      <4>1. /\ IsReadyToExecute(m.to, commitSet[m.to] \cup {<<m.digest, m.from>>}, m)
            /\ goes = TRUE
        BY <1>1, <1>2, <3>2
      <4>2. CommitQuorum(m)
        BY <2>4, <3>1, <4>1 DEF CommitQuorum
      <4> QED
        BY <4>2
    <3>3. CASE ~goes
      <4>1. goes = FALSE
        BY <1>2, <3>3
      <4>2. UNCHANGED <<commitState, executeQueue, notified>>
        BY <1>0, <3>1, <4>1 DEF TypeOK
      <4> QED
        BY <3>1, <4>2
    <3> QED
      BY <3>2, <3>3
  <2> QED
    BY <2>3, <2>4
<1> QED
  BY <1>0, <1>5 DEF commitRecv

(* commit.go:7: what of a node a commit changes. *)
LEMMA CommitChanges ==
  ASSUME TypeOK, NEW m \in net, commitRecv(m)
  PROVE  /\ \/ commitSet' = commitSet
            \/ commitSet' = [commitSet EXCEPT ![m.to] = @ \cup {<<m.digest, m.from>>}]
         /\ \/ UNCHANGED <<commitState, executeQueue, notified>>
            \/ /\ commitState' = [commitState EXCEPT ![m.to] = @ \cup {m.digest}]
               /\ executeQueue' = [executeQueue EXCEPT ![m.to] = AppendToExecuteQueue(@, Executable(m))]
               /\ notified' = [notified EXCEPT ![m.to] = TRUE]
<1>1. \/ /\ UNCHANGED <<commitState, executeQueue, notified>>
         /\ \/ UNCHANGED commitSet
            \/ commitSet' = [commitSet EXCEPT ![m.to] = @ \cup {<<m.digest, m.from>>}]
      \/ CommitQuorum(m)
  BY CommitCases
<1>2. CASE CommitQuorum(m)
  BY <1>2, Zenon DEF CommitQuorum
<1> QED
  BY <1>1, <1>2

(* commit.go:7: a vote is stored, and may let its batch be executed. *)
LEMMA commitRecvType ==
  ASSUME TypeOK, NEW m \in net, commitRecv(m)
  PROVE  TypeOK'
<1>1. m.to \in Up /\ m.from \in Up /\ m.seq \in Nat /\ m.digest \in Batch
  BY CommitCases
<1>2. <<m.digest, m.from>> \in Batch \X Up
  BY <1>1
<1>3. Executable(m) \in Entry
  BY <1>1 DEF Executable, Entry
<1>4. AppendToExecuteQueue(executeQueue[m.to], Executable(m)) \in Seq(Entry)
  BY <1>1, <1>3, QueueType, InsertedType
<1>5. executeQueue \in [Up -> Seq(Entry)]
  BY DEF TypeOK, Entry
<1>9. /\ commitSet \in [Up -> SUBSET (Batch \X Up)] /\ commitState \in [Up -> SUBSET Batch]
      /\ notified \in [Up -> BOOLEAN]
  BY DEF TypeOK
<1>6. commitSet' \in [Up -> SUBSET (Batch \X Up)]
  BY <1>1, <1>2, <1>9, CommitChanges
<1>7. commitState' \in [Up -> SUBSET Batch]
  BY <1>1, <1>9, CommitChanges
<1>10. notified' \in [Up -> BOOLEAN]
  BY <1>9, CommitChanges
<1>8. executeQueue' \in [Up -> Seq(Entry)]
  BY ZenonT(30), <1>1, <1>4, <1>5, CommitChanges
<1> QED
  BY <1>6, <1>7, <1>8, <1>10, CommitCases DEF TypeOK, Entry

(* buffer.go, BatchExecute: n executes the first k of its queue, ds. *)
Turn(n, k, ds) ==
  /\ Len(ds) = k
  /\ \A i \in 1 .. k : /\ ds[i] = executeQueue[n][i].digest
                       /\ executeQueue[n][i].seq = lastSequence[n] + i
  /\ k < Len(executeQueue[n]) => executeQueue[n][k + 1].seq # lastSequence[n] + k + 1
  /\ executeQueue' = [executeQueue EXCEPT ![n] = SubSeq(@, k + 1, Len(@))]
  /\ lastSequence' = [lastSequence EXCEPT ![n] = @ + k]
  /\ executed' = [executed EXCEPT ![n] = @ \o ds]
  /\ stuck' = [stuck EXCEPT ![n] = FetchRequestFails(n, ds)]
  /\ prePrepareBuffer' = [prePrepareBuffer EXCEPT ![n] = @ \ {ds[i] : i \in 1 .. k}]

(* buffer.go, BatchExecute: what a turn of the executing goroutine does. *)
LEMMA Executes ==
  ASSUME TypeOK, NEW n \in Up, executeAndReply(n)
  PROVE  \E k \in 0 .. Len(executeQueue[n]), ds \in Seq(Batch) : Turn(n, k, ds)
<1>1. PICK q \in {executeQueue[n]}, last \in {lastSequence[n]} : TRUE
  OBVIOUS
<1>2. q \in Seq(Entry) /\ last \in Int
  BY <1>1, QueueType
<1>3. PICK k \in {BatchExecute(q, last)} : TRUE
  OBVIOUS
<1>4. /\ k \in 0 .. Len(q)
      /\ \A i \in 1 .. k : q[i].seq = last + i
      /\ k < Len(q) => q[k + 1].seq # last + k + 1
  BY ZenonT(30), <1>2, <1>3, BatchPrefix
<1>5. PICK ds : ds = [i \in 1 .. k |-> q[i].digest]
  OBVIOUS
<1>6. ds \in Seq(Batch) /\ Len(ds) = k
  <2>1. Len(q) \in Nat /\ k \in Nat /\ \A i \in 1 .. k : i \in 1 .. Len(q)
    BY <1>2, <1>4, LenProperties
  <2>2. \A i \in 1 .. k : q[i].digest \in Batch
    BY <1>1, <2>1, QueueType
  <2>3. ds \in [1 .. k -> Batch]
    BY <1>5, <2>2
  <2> QED
    BY <2>1, <2>3, SeqDef, LenProperties
<1>7. \A i \in 1 .. k : ds[i] = q[i].digest
  BY <1>5
<1>8. /\ executeQueue' = [executeQueue EXCEPT ![n] = SubSeq(@, k + 1, Len(@))]
      /\ lastSequence' = [lastSequence EXCEPT ![n] = @ + k]
      /\ executed' = [executed EXCEPT ![n] = @ \o ds]
      /\ stuck' = [stuck EXCEPT ![n] = FetchRequestFails(n, ds)]
      /\ prePrepareBuffer' = [prePrepareBuffer EXCEPT ![n] = @ \ {ds[i] : i \in 1 .. k}]
  BY <1>1, <1>3, <1>5, Zenon DEF executeAndReply
<1>9. /\ k \in 0 .. Len(executeQueue[n])
      /\ \A i \in 1 .. k : ds[i] = executeQueue[n][i].digest /\ executeQueue[n][i].seq = lastSequence[n] + i
      /\ k < Len(executeQueue[n]) => executeQueue[n][k + 1].seq # lastSequence[n] + k + 1
  BY <1>1, <1>4, <1>7
<1>10. Turn(n, k, ds)
  BY <1>6, <1>8, <1>9 DEF Turn
<1> QED
  BY <1>6, <1>9, <1>10

(* reply.go:9: a prefix of the queue is executed. *)
LEMMA executeAndReplyType ==
  ASSUME TypeOK, NEW n \in Up, executeAndReply(n)
  PROVE  TypeOK'
<1>0. PICK k \in 0 .. Len(executeQueue[n]), ds \in Seq(Batch) : Turn(n, k, ds)
  BY Executes
<1>1. /\ executeQueue' = [executeQueue EXCEPT ![n] = SubSeq(@, k + 1, Len(@))]
      /\ lastSequence' = [lastSequence EXCEPT ![n] = @ + k]
      /\ executed' = [executed EXCEPT ![n] = @ \o ds]
      /\ stuck' = [stuck EXCEPT ![n] = FetchRequestFails(n, ds)]
      /\ prePrepareBuffer' = [prePrepareBuffer EXCEPT ![n] = @ \ {ds[i] : i \in 1 .. k}]
  BY <1>0 DEF Turn
<1>2. PICK q \in {executeQueue[n]}, last \in {lastSequence[n]} : TRUE
  OBVIOUS
<1>3. q \in Seq(Entry) /\ (last \in Nat \/ last = -1)
  BY <1>2, QueueType
<1>4. Len(q) \in Nat /\ k \in Nat
  BY <1>1, <1>2, <1>3, LenProperties
<1>5. SubSeq(q, k + 1, Len(q)) \in Seq(Entry)
  <2>1. k \in 0 .. Len(q)
    BY <1>2
  <2> QED
    BY <1>3, <2>1, Rest
<1>6. executeQueue' \in [Up -> Seq(Entry)]
  BY <1>1, <1>2, <1>5 DEF TypeOK, Entry
<1>7. lastSequence' \in [Up -> Nat \cup {-1}]
  <2>2. last + k \in Nat \/ last + k = -1
    BY <1>3, <1>4
  <2> QED
    BY <1>1, <1>2, <2>2 DEF TypeOK
<1>8. executed' \in [Up -> Seq(Batch)]
  <2>1. executed[n] \o ds \in Seq(Batch)
    BY <1>1, ConcatProperties DEF TypeOK
  <2> QED
    BY <1>1, <2>1 DEF TypeOK
<1>9. stuck' \in [Up -> BOOLEAN]
  <2>1. FetchRequestFails(n, ds) \in BOOLEAN
    BY DEF FetchRequestFails
  <2> QED
    BY <1>1, <2>1 DEF TypeOK
<1>10. prePrepareBuffer' \in [Up -> SUBSET Batch]
  BY <1>1 DEF TypeOK
<1>11. /\ notified' = [notified EXCEPT ![n] = FALSE]
       /\ UNCHANGED <<toSend, requestQueue, prePrepareSet, prepareSet, prepareState, commitSet,
                      commitState, sequence, checked, proposed, net>>
  BY DEF executeAndReply
<1> QED
  BY <1>6, <1>7, <1>8, <1>9, <1>10, <1>11 DEF TypeOK, Entry

(* Every step keeps the types. *)
LEMMA TypeStep ==
  ASSUME TypeOK, [Next]_vars
  PROVE  TypeOK'
<1>1. CASE UNCHANGED vars
  BY <1>1 DEF vars, buffers, TypeOK
<1>2. CASE Next
  BY <1>2, requestRecvType, prePrepareSendType, checkPrePrepareType, prePrepareRecvType,
     prepareRecvType, commitRecvType, executeAndReplyType DEF Next
<1> QED
  BY <1>1, <1>2

-----------------------------------------------------------------------------
(* Batches. *)

(* What an append leaves as it was. *)
LEMMA AppendKeeps ==
  ASSUME NEW S, NEW s \in Seq(S), NEW x \in S
  PROVE  /\ DOMAIN Append(s, x) = DOMAIN s \cup {Len(s) + 1}
         /\ Len(s) \in Nat /\ DOMAIN s = 1 .. Len(s) /\ Len(Append(s, x)) = Len(s) + 1
         /\ \A i \in DOMAIN s : Append(s, x)[i] = s[i]
         /\ Append(s, x)[Len(s) + 1] = x
<1>1. Len(s) \in Nat /\ DOMAIN s = 1 .. Len(s)
  BY LenProperties
<1>2. /\ Append(s, x) \in Seq(S) /\ Len(Append(s, x)) = Len(s) + 1
      /\ \A i \in 1 .. Len(s) : Append(s, x)[i] = s[i]
      /\ Append(s, x)[Len(s) + 1] = x
  BY AppendProperties
<1>3. DOMAIN Append(s, x) = 1 .. Len(s) + 1
  BY <1>2, LenProperties
<1> QED
  BY <1>1, <1>2, <1>3

(* The elements of a sequence that got one more. *)
LEMMA RangeAppend ==
  ASSUME NEW S, NEW s \in Seq(S), NEW x \in S
  PROVE  Range(Append(s, x)) = Range(s) \cup {x}
<1>1. PICK t \in {Append(s, x)} : TRUE
  OBVIOUS
<1>2. /\ DOMAIN t = DOMAIN s \cup {Len(s) + 1}
      /\ \A i \in DOMAIN s : t[i] = s[i]
      /\ t[Len(s) + 1] = x
  BY <1>1, AppendKeeps
<1>3. Range(t) = Range(s) \cup {x}
  BY <1>2 DEF Range
<1> QED
  BY <1>1, <1>3

(* A batch tells its proposer and its number. *)
LEMMA BatchTells ==
  ASSUME SendsDistinct, TypeOK, BatchesApart, NEW p \in Up, NEW q \in Up, NEW s \in Int,
         NEW r \in Int, NEW d, Proposed(p, s, d), Proposed(q, r, d)
  PROVE  p = q /\ s = r
<1>1. /\ s + 1 \in DOMAIN proposed[p] /\ proposed[p][s + 1] = d
      /\ r + 1 \in DOMAIN proposed[q] /\ proposed[q][r + 1] = d
  BY DEF Proposed
<1>2. d \in Batch
  <2>1. proposed[p] \in Seq(Batch)
    BY DEF TypeOK
  <2> QED
    BY <1>1, <2>1
<1>3. Range(d) # {}
  <2>1. d \in Seq(Reqs) /\ d # << >>
    BY <1>2 DEF Batch
  <2>2. 1 \in DOMAIN d
    BY <2>1
  <2> QED
    BY <2>2 DEF Range
<1>4. PICK x \in Range(d) : TRUE
  BY <1>3
<1>5. x \in Received(p) /\ x \in Received(q)
  BY <1>1, <1>4 DEF BatchesApart
<1>6. p = q
  BY <1>5 DEF Received, SendsDistinct
<1>7. s + 1 = r + 1
  <2>1. ASSUME s + 1 # r + 1 PROVE FALSE
    <3>1. Range(proposed[p][s + 1]) \cap Range(proposed[p][r + 1]) = {}
      BY <1>1, <1>6, <2>1 DEF BatchesApart
    <3> QED
      BY <1>1, <1>4, <1>6, <3>1
  <2> QED
    BY <2>1
<1> QED
  BY <1>6, <1>7

(* What a node has proposed, numbered, voted for and counted stays. *)
Grows ==
  /\ \A p \in Up : \A i \in DOMAIN proposed[p] :
       i \in DOMAIN proposed'[p] /\ proposed'[p][i] = proposed[p][i]
  /\ \A n \in Up : /\ prePrepareSet[n] \subseteq prePrepareSet'[n]
                   /\ prepareSet[n] \subseteq prepareSet'[n]
                   /\ prepareState[n] \subseteq prepareState'[n]
                   /\ commitSet[n] \subseteq commitSet'[n]
                   /\ commitState[n] \subseteq commitState'[n]

(* No step forgets. *)
LEMMA StepGrows ==
  ASSUME TypeOK, [Next]_vars
  PROVE  Grows
<1>0. /\ DOMAIN prepareSet = Up /\ DOMAIN prepareState = Up
      /\ DOMAIN commitSet = Up /\ DOMAIN commitState = Up
  BY DEF TypeOK
<1>1. ASSUME NEW c \in Sends, requestRecv(c) PROVE Grows
  BY <1>1 DEF requestRecv, Grows
<1>2. ASSUME NEW n \in Up, prePrepareSend(n) PROVE Grows
  <2>1. requestQueue[n] \in Batch /\ proposed[n] \in Seq(Batch)
    BY <1>2, QueueIsBatch DEF prePrepareSend, TypeOK
  <2>2. proposed' = [proposed EXCEPT ![n] = Append(@, requestQueue[n])]
    BY <1>2 DEF prePrepareSend
  <2>3. \A i \in DOMAIN proposed[n] : /\ i \in DOMAIN Append(proposed[n], requestQueue[n])
                                      /\ Append(proposed[n], requestQueue[n])[i] = proposed[n][i]
    BY <2>1, AppendKeeps
  <2>4. \A p \in Up : \A i \in DOMAIN proposed[p] :
          i \in DOMAIN proposed'[p] /\ proposed'[p][i] = proposed[p][i]
    BY <2>2, <2>3 DEF TypeOK
  <2> QED
    BY <1>2, <2>4 DEF prePrepareSend, Grows, TypeOK
<1>3. ASSUME NEW m \in net, checkPrePrepare(m) PROVE Grows
  BY <1>3 DEF checkPrePrepare, Grows, buffers
<1>4. ASSUME NEW n \in Up, prePrepareRecv(n) PROVE Grows
  BY <1>4 DEF prePrepareRecv, Grows, TypeOK
<1>5. ASSUME NEW m \in net, prepareRecv(m) PROVE Grows
  <2>1. /\ m.to \in Up /\ m.from \in Up
        /\ UNCHANGED <<proposed, prePrepareSet, commitState>>
    BY <1>5, PrepareCases
  <2> QED
    <3>1. \A n \in Up : /\ prepareSet[n] \subseteq prepareSet'[n]
                         /\ prepareState[n] \subseteq prepareState'[n]
                         /\ commitSet[n] \subseteq commitSet'[n]
      BY <1>0, <1>5, PrepareChanges
    <3> QED
      BY <2>1, <3>1 DEF Grows
<1>6. ASSUME NEW m \in net, commitRecv(m) PROVE Grows
  <2>1. /\ m.to \in Up /\ m.from \in Up
        /\ UNCHANGED <<proposed, prePrepareSet, prepareSet, prepareState>>
    BY <1>6, CommitCases
  <2> QED
    <3>1. \A n \in Up : commitSet[n] \subseteq commitSet'[n] /\ commitState[n] \subseteq commitState'[n]
      BY <1>0, <1>6, CommitChanges
    <3> QED
      BY <2>1, <3>1 DEF Grows
<1>7. ASSUME NEW n \in Up, executeAndReply(n) PROVE Grows
  BY <1>7 DEF executeAndReply, Grows
<1>8. CASE UNCHANGED vars
  BY <1>8 DEF vars, buffers, Grows
<1> QED
  BY <1>1, <1>2, <1>3, <1>4, <1>5, <1>6, <1>7, <1>8 DEF Next

(* A proposal stays one. *)
LEMMA ProposedStays ==
  ASSUME Grows, NEW p \in Up, NEW s, NEW d, Proposed(p, s, d)
  PROVE  Proposed(p, s, d)'
BY DEF Grows, Proposed

(* The part of BatchesApart about one node. *)
NodeApart(p) ==
  /\ sequence[p] = Len(proposed[p]) - 1
  /\ Range(requestQueue[p]) \subseteq Received(p)
  /\ \A i \in DOMAIN proposed[p] :
       /\ i - 1 \in prePrepareSet[p]
       /\ Range(proposed[p][i]) \subseteq Received(p) \ Range(requestQueue[p])
       /\ \A k \in DOMAIN proposed[p] \ {i} :
            Range(proposed[p][i]) \cap Range(proposed[p][k]) = {}

(* BatchesApart, node by node. *)
LEMMA NodesApart == BatchesApart <=> \A p \in Up : NodeApart(p)
BY DEF BatchesApart, NodeApart

(* request.go:7: the new request is in no batch yet. *)
LEMMA requestRecvApart ==
  ASSUME SendsDistinct, TypeOK, BatchesApart, NEW c \in Sends, requestRecv(c)
  PROVE  BatchesApart'
<1>1. /\ c \in toSend /\ c.to \in Up
      /\ toSend' = toSend \ {c}
      /\ requestQueue' = [requestQueue EXCEPT ![c.to] = Append(@, c.req)]
      /\ UNCHANGED <<sequence, prePrepareSet, proposed>>
  BY DEF requestRecv
<1>2. ASSUME NEW p \in Up PROVE NodeApart(p)'
  <2>1. NodeApart(p)
    BY NodesApart
  <2>2. Received(p) \subseteq Received(p)'
    BY <1>1 DEF Received
  <2>3. CASE p # c.to
    <3>1. requestQueue'[p] = requestQueue[p]
      BY <1>1, <2>3 DEF TypeOK
    <3> QED
      BY <1>1, <2>1, <2>2, <3>1 DEF NodeApart
  <2>4. CASE p = c.to
    <3>1. c.req \in Reqs /\ requestQueue[p] \in Seq(Reqs)
      BY DEF Reqs, TypeOK
    <3>2. Range(requestQueue'[p]) = Range(requestQueue[p]) \cup {c.req}
      BY <1>1, <2>4, <3>1, RangeAppend DEF TypeOK
    <3>3. c.req \in Received(p)'
      <4>1. c \in (Sends \ toSend)' /\ c.to = p
        BY <1>1, <2>4
      <4> QED
        BY <4>1 DEF Received
    <3>4. c.req \notin Received(p)
      BY <1>1 DEF Received, SendsDistinct
    <3> QED
      BY ZenonT(30), <1>1, <2>1, <2>2, <3>2, <3>3, <3>4 DEF NodeApart
  <2> QED
    BY <2>3, <2>4
<1> QED
  BY <1>2 DEF BatchesApart, NodeApart

(* preprepare.go:11: the whole queue becomes a batch. *)
LEMMA prePrepareSendApart ==
  ASSUME TypeOK, BatchesApart, NEW n \in Up, prePrepareSend(n)
  PROVE  BatchesApart'
<1>1. /\ requestQueue' = [requestQueue EXCEPT ![n] = << >>]
      /\ sequence' = [sequence EXCEPT ![n] = sequence[n] + 1]
      /\ prePrepareSet' = [prePrepareSet EXCEPT ![n] = @ \cup {sequence[n] + 1}]
      /\ proposed' = [proposed EXCEPT ![n] = Append(@, requestQueue[n])]
      /\ toSend' = toSend
  BY DEF prePrepareSend
<1>2. ASSUME NEW p \in Up PROVE NodeApart(p)'
  <2>1. NodeApart(p) /\ Received(p)' = Received(p)
    BY <1>1, NodesApart DEF Received
  <2>2. CASE p # n
    <3>1. /\ requestQueue'[p] = requestQueue[p] /\ sequence'[p] = sequence[p]
          /\ prePrepareSet'[p] = prePrepareSet[p] /\ proposed'[p] = proposed[p]
      BY <1>1, <2>2 DEF TypeOK
    <3> QED
      BY <2>1, <3>1 DEF NodeApart
  <2>3. CASE p = n
    <3>1. PICK d \in {requestQueue[p]}, L \in {Len(proposed[p])}, ps \in {proposed[p]} : TRUE
      OBVIOUS
    <3>2. d \in Batch /\ ps \in Seq(Batch) /\ L \in Nat
      <4>1. d \in Batch
        BY <2>3, <3>1, QueueIsBatch DEF prePrepareSend
      <4>2. proposed[p] \in Seq(Batch)
        BY DEF TypeOK
      <4> QED
        BY <3>1, <4>1, <4>2, LenProperties
    <3>3. /\ requestQueue'[p] = << >> /\ sequence'[p] = sequence[p] + 1
          /\ prePrepareSet'[p] = prePrepareSet[p] \cup {sequence[p] + 1}
          /\ proposed'[p] = Append(ps, d)
      BY <1>1, <2>3, <3>1 DEF TypeOK
    <3>4. PICK qs \in {Append(ps, d)} : TRUE
      OBVIOUS
    <3>5. /\ DOMAIN qs = DOMAIN ps \cup {L + 1} /\ Len(qs) = L + 1 /\ DOMAIN ps = 1 .. L
          /\ \A i \in DOMAIN ps : qs[i] = ps[i]
          /\ qs[L + 1] = d
      <4>1. Len(ps) = L
        BY <3>1
      <4>2. /\ DOMAIN Append(ps, d) = DOMAIN ps \cup {Len(ps) + 1}
            /\ Len(Append(ps, d)) = Len(ps) + 1 /\ DOMAIN ps = 1 .. Len(ps)
            /\ \A i \in DOMAIN ps : Append(ps, d)[i] = ps[i]
            /\ Append(ps, d)[Len(ps) + 1] = d
        BY <3>2, AppendKeeps
      <4> QED
        BY <3>4, <4>1, <4>2
    <3>6. sequence[p] = L - 1 /\ sequence[p] + 1 = L
      BY <2>1, <3>1, <3>2 DEF NodeApart
    <3>7. Range(<< >>) = {}
      BY DEF Range
    <3>8. ASSUME NEW i \in DOMAIN qs
          PROVE  i - 1 \in prePrepareSet'[p] /\ Range(qs[i]) \subseteq Received(p)
      <4>1. CASE i \in DOMAIN ps
        BY <2>1, <3>1, <3>3, <3>5, <4>1 DEF NodeApart
      <4>2. CASE i = L + 1
        <5>1. i - 1 = sequence[p] + 1 /\ qs[i] = requestQueue[p]
          BY <3>1, <3>2, <3>5, <3>6, <4>2
        <5> QED
          BY <2>1, <3>3, <5>1 DEF NodeApart
      <4> QED
        BY <3>5, <3>8, <4>1, <4>2
    <3>9. ASSUME NEW i \in DOMAIN qs, NEW k \in DOMAIN qs \ {i}
          PROVE  Range(qs[i]) \cap Range(qs[k]) = {}
      <4>0. \A j \in DOMAIN ps : qs[j] = proposed[p][j] /\ j \in DOMAIN proposed[p]
        BY <3>1, <3>5
      <4>1. CASE i \in DOMAIN ps /\ k \in DOMAIN ps
        BY <2>1, <4>0, <4>1 DEF NodeApart
      <4>2. CASE i \in DOMAIN ps /\ k = L + 1
        <5>1. qs[k] = requestQueue[p]
          BY <3>1, <3>5, <4>2
        <5> QED
          BY <2>1, <4>0, <4>2, <5>1 DEF NodeApart
      <4>3. CASE i = L + 1 /\ k \in DOMAIN ps
        <5>1. qs[i] = requestQueue[p]
          BY <3>1, <3>5, <4>3
        <5> QED
          BY <2>1, <4>0, <4>3, <5>1 DEF NodeApart
      <4> QED
        BY <3>5, <3>9, <4>1, <4>2, <4>3
    <3>10. sequence'[p] = Len(qs) - 1
      BY <3>2, <3>3, <3>5, <3>6
    <3>11. proposed'[p] = qs
      BY <3>3, <3>4
    <3> QED
      BY <2>1, <3>3, <3>7, <3>8, <3>9, <3>10, <3>11 DEF NodeApart
  <2> QED
    BY <2>2, <2>3
<1> QED
  BY <1>2 DEF BatchesApart, NodeApart

(* Batches stay apart. *)
LEMMA ApartStep ==
  ASSUME SendsDistinct, TypeOK, BatchesApart, [Next]_vars
  PROVE  BatchesApart'
<1>1. ASSUME UNCHANGED <<toSend, requestQueue, sequence, proposed>> PROVE BatchesApart'
  <2>1. Grows
    BY StepGrows
  <2> QED
    BY ZenonT(30), <1>1, <2>1 DEF BatchesApart, Grows, Received
<1>2. CASE UNCHANGED vars
  BY <1>1, <1>2 DEF vars, buffers
<1>3. ASSUME NEW n \in Up, prePrepareRecv(n) \/ executeAndReply(n) PROVE BatchesApart'
  BY <1>1, <1>3 DEF prePrepareRecv, executeAndReply
<1>4. ASSUME NEW m \in net, checkPrePrepare(m) \/ prepareRecv(m) \/ commitRecv(m)
      PROVE  BatchesApart'
  BY <1>1, <1>4 DEF checkPrePrepare, prepareRecv, commitRecv, buffers
<1> QED
  BY <1>2, <1>3, <1>4, requestRecvApart, prePrepareSendApart DEF Next

-----------------------------------------------------------------------------
(* Counting votes. *)

Voters(S, d) == {x \in Up : <<d, x>> \in S}

(* The votes for a batch are as many as the nodes that cast them. *)
LEMMA CountVoters ==
  ASSUME NodesAssumption, NEW S \in SUBSET (Batch \X Up), NEW d
  PROVE  /\ Count(S, d) = Cardinality(Voters(S, d)) /\ Count(S, d) \in Nat
         /\ IsFiniteSet(Voters(S, d))
<1> DEFINE V == {v \in S : v[1] = d}
           f == [x \in Voters(S, d) |-> <<d, x>>]
<1>1. IsFiniteSet(Voters(S, d))
  <2>1. Voters(S, d) \in SUBSET Up
    BY DEF Voters
  <2> QED
    BY <2>1, FS_Subset
<1>2. f \in Bijection(Voters(S, d), V)
  <2>1. \A x \in Voters(S, d) : <<d, x>> \in V
    BY DEF Voters
  <2>2. \A v \in V : v = <<d, v[2]>> /\ v[2] \in Voters(S, d)
    <3> TAKE v \in V
    <3>1. v \in Batch \X Up /\ v \in S /\ v[1] = d
      OBVIOUS
    <3>2. v = <<v[1], v[2]>> /\ v[2] \in Up
      BY <3>1
    <3> QED
      BY <3>1, <3>2 DEF Voters
  <2>3. f \in [Voters(S, d) -> V]
    BY <2>1
  <2>4. \A x, y \in Voters(S, d) : f[x] = f[y] => x = y
    OBVIOUS
  <2>5. \A v \in V : \E x \in Voters(S, d) : f[x] = v
    BY <2>2
  <2> HIDE DEF V, f
  <2>6. f \in Injection(Voters(S, d), V)
    BY <2>3, <2>4 DEF Injection, IsInjective
  <2>7. f \in Surjection(Voters(S, d), V)
    BY <2>3, <2>5 DEF Surjection
  <2> QED
    BY <2>6, <2>7 DEF Bijection
<1> HIDE DEF V, f
<1>3. Cardinality(V) = Cardinality(Voters(S, d))
  <2>1. ExistsBijection(Voters(S, d), V)
    BY <1>2 DEF ExistsBijection
  <2> QED
    BY <1>1, <2>1, FS_Bijection
<1>4. Count(S, d) = Cardinality(V)
  BY DEF Count, V
<1>5. Cardinality(Voters(S, d)) \in Nat
  BY <1>1, FS_CardinalityType
<1> QED
  BY <1>1, <1>3, <1>4, <1>5

(* More votes count for no less. *)
LEMMA CountGrows ==
  ASSUME NodesAssumption, NEW T \in SUBSET (Batch \X Up), NEW S \in SUBSET T, NEW d
  PROVE  Count(S, d) <= Count(T, d) /\ Count(S, d) \in Nat /\ Count(T, d) \in Nat
<1>1. S \in SUBSET (Batch \X Up)
  OBVIOUS
<1>2. Voters(S, d) \in SUBSET Voters(T, d)
  BY DEF Voters
<1>3. IsFiniteSet(Voters(T, d))
  BY CountVoters
<1>4. Cardinality(Voters(S, d)) <= Cardinality(Voters(T, d))
  BY <1>2, <1>3, FS_Subset
<1>5. Count(S, d) = Cardinality(Voters(S, d)) /\ Count(S, d) \in Nat
  BY <1>1, CountVoters
<1>6. Count(T, d) = Cardinality(Voters(T, d)) /\ Count(T, d) \in Nat
  BY CountVoters
<1> QED
  BY <1>4, <1>5, <1>6

-----------------------------------------------------------------------------
(* Messages and votes are true. *)

MessageTrue(m) ==
  /\ m.from # m.to
  /\ m.type = "preprepare" => Proposed(m.from, m.seq, m.digest)
  /\ m.type = "prepare" => Votes(m.from, m.digest)
  /\ m.type = "commit" => m.digest \in prepareState[m.from]
  /\ \E p \in Up : Proposed(p, m.seq, m.digest)

VoteTrue(v) ==
  /\ Votes(v[2], v[1])
  /\ \E p \in Up \ {v[2]}, s \in prePrepareSet[v[2]] : Proposed(p, s, v[1])

(* A true message stays true. *)
LEMMA MessageStays ==
  ASSUME Grows, NEW m \in Message, MessageTrue(m)
  PROVE  MessageTrue(m)'
<1>1. m.from \in Up
  BY Fields
<1> QED
  BY <1>1 DEF Grows, MessageTrue, Proposed, Votes

(* So do those in the network, when what is posted is true. *)
LEMMA NetStep ==
  ASSUME TypeOK, MessagesTrue, Grows, NEW New, net' \subseteq net \cup New,
         \A m \in New : MessageTrue(m)'
  PROVE  MessagesTrue'
<1>1. ASSUME NEW m \in net' PROVE MessageTrue(m)'
  <2>1. CASE m \in net
    <3>1. m \in Message /\ MessageTrue(m)
      BY <2>1 DEF TypeOK, MessagesTrue, MessageTrue
    <3> QED
      BY <3>1, MessageStays
  <2> QED
    BY <1>1, <2>1
<1> QED
  BY <1>1 DEF MessagesTrue, MessageTrue

(* preprepare.go, prepare.go: what is posted is true. *)
LEMMA MessagesStep ==
  ASSUME TypeOK, BatchesApart, MessagesTrue, CheckedTrue, [Next]_vars
  PROVE  MessagesTrue'
<1>0. Grows
  BY StepGrows
<1>1. ASSUME net' \subseteq net PROVE MessagesTrue'
  <2>1. PICK none \in {{}} : TRUE
    OBVIOUS
  <2>2. net' \subseteq net \cup none /\ \A m \in none : MessageTrue(m)'
    BY <1>1, <2>1
  <2> QED
    BY <1>0, <2>2, NetStep
<1>2. ASSUME NEW n \in Up, prePrepareSend(n) PROVE MessagesTrue'
  <2>1. PICK d \in {requestQueue[n]}, s \in {sequence[n] + 1} : TRUE
    OBVIOUS
  <2>2. d \in Batch /\ s \in Nat /\ net' = net \cup BroadCast("preprepare", n, s, d)
    BY <1>2, <2>1, QueueIsBatch, NextNumber DEF prePrepareSend
  <2>3. Proposed(n, s, d)'
    <3>1. proposed[n] \in Seq(Batch)
      BY DEF TypeOK
    <3>2. proposed'[n] = Append(proposed[n], d)
      BY <1>2, <2>1 DEF prePrepareSend, TypeOK
    <3>3. sequence[n] = Len(proposed[n]) - 1
      BY DEF BatchesApart
    <3>4. Len(proposed[n]) \in Nat
      BY <3>1, LenProperties
    <3>5. s + 1 = Len(proposed[n]) + 1
      BY <2>1, <3>3, <3>4
    <3>6. /\ Len(proposed[n]) + 1 \in DOMAIN Append(proposed[n], d)
          /\ Append(proposed[n], d)[Len(proposed[n]) + 1] = d
      BY <2>2, <3>1, AppendKeeps
    <3> QED
      BY <3>2, <3>5, <3>6 DEF Proposed
  <2>4. \A m \in BroadCast("preprepare", n, s, d) : MessageTrue(m)'
    BY <2>2, <2>3, Posted DEF MessageTrue
  <2> QED
    BY <1>0, <2>2, <2>4, NetStep
<1>3. ASSUME NEW n \in Up, prePrepareRecv(n) PROVE MessagesTrue'
  <2>1. PICK c \in {checked[n]} : TRUE
    OBVIOUS
  <2>2. c \in Message /\ c.seq \in Nat /\ c.digest \in Batch /\ c.from \in Up
    BY <1>3, <2>1, Fields DEF TypeOK, prePrepareRecv
  <2>3. net' = net \cup BroadCast("prepare", n, c.seq, c.digest)
    BY <1>3, <2>1 DEF prePrepareRecv
  <2>4. Votes(n, c.digest)'
    BY <1>3, <2>1 DEF prePrepareRecv, Votes, TypeOK
  <2>5. Proposed(c.from, c.seq, c.digest)'
    <3>1. Proposed(c.from, c.seq, c.digest)
      BY <1>3, <2>1 DEF CheckedTrue, prePrepareRecv
    <3> QED
      BY <1>0, <2>2, <3>1, ProposedStays
  <2>6. \A m \in BroadCast("prepare", n, c.seq, c.digest) : MessageTrue(m)'
    BY <2>2, <2>4, <2>5, Posted DEF MessageTrue
  <2> QED
    BY <1>0, <2>3, <2>6, NetStep
<1>4. ASSUME NEW m \in net, prepareRecv(m) PROVE MessagesTrue'
  <2>1. \/ net' \subseteq net
        \/ PrepareQuorum(m)
    BY <1>4, PrepareCases DEF PrepareStored
  <2>2. CASE PrepareQuorum(m)
    <3>1. /\ m.to \in Up /\ m.seq \in Nat /\ m.digest \in Batch
      BY <1>4, PrepareCases
    <3>2. net' \subseteq net \cup BroadCast("commit", m.to, m.seq, m.digest)
      BY <2>2 DEF PrepareQuorum
    <3>3. m.digest \in prepareState'[m.to]
      <4>1. prepareState' = [prepareState EXCEPT ![m.to] = @ \cup {m.digest}]
        BY <2>2 DEF PrepareQuorum
      <4> QED
        BY <3>1, <4>1 DEF TypeOK
    <3>4. \E p \in Up : Proposed(p, m.seq, m.digest)'
      <4>1. PICK p \in Up : Proposed(p, m.seq, m.digest)
        BY DEF MessagesTrue
      <4> QED
        BY <1>0, <4>1, ProposedStays
    <3>5. \A o \in BroadCast("commit", m.to, m.seq, m.digest) : MessageTrue(o)'
      BY <3>1, <3>3, <3>4, Posted DEF MessageTrue
    <3> QED
      BY <1>0, <3>2, <3>5, NetStep
  <2> QED
    BY <1>1, <2>1, <2>2
<1>5. CASE UNCHANGED vars
  BY <1>1, <1>5 DEF vars
<1>6. ASSUME NEW c \in Sends, requestRecv(c) PROVE MessagesTrue'
  BY <1>1, <1>6 DEF requestRecv
<1>7. ASSUME NEW m \in net, checkPrePrepare(m) \/ commitRecv(m) PROVE MessagesTrue'
  BY <1>1, <1>7 DEF checkPrePrepare, commitRecv
<1>8. ASSUME NEW n \in Up, executeAndReply(n) PROVE MessagesTrue'
  BY <1>1, <1>8 DEF executeAndReply
<1> QED
  BY <1>2, <1>3, <1>4, <1>5, <1>6, <1>7, <1>8 DEF Next

NodeChecked(n) ==
  checked[n] # NoMsg =>
    checked[n].from # n /\ Proposed(checked[n].from, checked[n].seq, checked[n].digest)

(* preprepare.go:66: what is set aside is a proposal of another node. *)
LEMMA CheckedStep ==
  ASSUME TypeOK, MessagesTrue, CheckedTrue, [Next]_vars
  PROVE  CheckedTrue'
<1>0. Grows
  BY StepGrows
<1>1. \A n \in Up : NodeChecked(n) /\ (checked[n] # NoMsg => checked[n].from \in Up)
  BY Fields DEF TypeOK, CheckedTrue, NodeChecked
<1>2. ASSUME NEW n \in Up, checked'[n] = checked[n] \/ checked'[n] = NoMsg
      PROVE  NodeChecked(n)'
  <2>1. CASE checked[n] = NoMsg
    BY <1>2, <2>1 DEF NodeChecked, NoMsg
  <2>2. CASE checked[n] # NoMsg
    <3>1. PICK c \in {checked[n]} : TRUE
      OBVIOUS
    <3>2. c.from \in Up /\ c.from # n /\ Proposed(c.from, c.seq, c.digest)
      BY <1>1, <2>2, <3>1 DEF NodeChecked
    <3>3. Proposed(c.from, c.seq, c.digest)'
      BY <1>0, <3>2, ProposedStays
    <3>4. checked'[n] = c \/ checked'[n] = NoMsg'
      BY <1>2, <3>1 DEF NoMsg
    <3> QED
      BY <3>2, <3>3, <3>4 DEF NodeChecked
  <2> QED
    BY <2>1, <2>2
<1>3. ASSUME \A n \in Up : checked'[n] = checked[n] \/ checked'[n] = NoMsg PROVE CheckedTrue'
  <2>1. \A n \in Up : NodeChecked(n)'
    BY <1>2, <1>3
  <2> QED
    BY <2>1 DEF CheckedTrue, NodeChecked
<1>4. ASSUME NEW m \in net, checkPrePrepare(m) PROVE CheckedTrue'
  <2>1. m \in Message /\ m.to \in Up /\ m.from \in Up
    BY Fields DEF TypeOK
  <2>2. checked' = checked \/ checked' = [checked EXCEPT ![m.to] = m]
    BY <1>4 DEF checkPrePrepare
  <2>3. CASE checked' = checked
    BY <1>3, <2>3
  <2>4. CASE checked' = [checked EXCEPT ![m.to] = m]
    <3>1. m.from # m.to /\ Proposed(m.from, m.seq, m.digest)
      BY <1>4 DEF MessagesTrue, checkPrePrepare
    <3>2. Proposed(m.from, m.seq, m.digest)'
      BY <1>0, <2>1, <3>1, ProposedStays
    <3>3. checked'[m.to] = m /\ \A n \in Up \ {m.to} : checked'[n] = checked[n]
      BY <2>1, <2>4 DEF TypeOK
    <3>4. NodeChecked(m.to)'
      BY <3>1, <3>2, <3>3 DEF NodeChecked
    <3>5. \A n \in Up \ {m.to} : NodeChecked(n)'
      BY <1>2, <3>3
    <3>6. \A n \in Up : NodeChecked(n)'
      BY <3>4, <3>5
    <3> QED
      BY <3>6 DEF CheckedTrue, NodeChecked
  <2> QED
    BY <2>2, <2>3, <2>4
<1>5. ASSUME NEW n \in Up, prePrepareRecv(n) PROVE CheckedTrue'
  <2>1. checked' = [checked EXCEPT ![n] = NoMsg]
    BY <1>5 DEF prePrepareRecv
  <2> QED
    BY <1>3, <2>1 DEF TypeOK
<1>6. ASSUME checked' = checked PROVE CheckedTrue'
  BY <1>3, <1>6
<1>7. CASE UNCHANGED vars
  BY <1>6, <1>7 DEF vars
<1>8. ASSUME NEW c \in Sends, requestRecv(c) PROVE CheckedTrue'
  BY <1>6, <1>8 DEF requestRecv
<1>9. ASSUME NEW n \in Up, prePrepareSend(n) \/ executeAndReply(n) PROVE CheckedTrue'
  BY <1>6, <1>9 DEF prePrepareSend, executeAndReply
<1>10. ASSUME NEW m \in net, prepareRecv(m) \/ commitRecv(m) PROVE CheckedTrue'
  BY <1>6, <1>10 DEF prepareRecv, commitRecv
<1> QED
  BY <1>4, <1>5, <1>7, <1>8, <1>9, <1>10 DEF Next

(* A true vote stays true. *)
LEMMA VoteStays ==
  ASSUME Grows, NEW v \in Batch \X Up, VoteTrue(v)
  PROVE  VoteTrue(v)'
<1>1. v[2] \in Up
  OBVIOUS
<1>2. v[2] \in Up /\ prePrepareSet[v[2]] \subseteq prePrepareSet'[v[2]]
      /\ prepareSet[v[2]] \subseteq prepareSet'[v[2]]
  BY <1>1 DEF Grows
<1>3. PICK p \in Up \ {v[2]}, s \in prePrepareSet[v[2]] : Proposed(p, s, v[1])
  BY DEF VoteTrue
<1>4. Proposed(p, s, v[1])'
  BY <1>3, ProposedStays
<1>5. Votes(v[2], v[1])'
  BY <1>2 DEF VoteTrue, Votes
<1> QED
  BY <1>2, <1>3, <1>4, <1>5 DEF VoteTrue

(* preprepare.go:48, prepare.go:8: what is counted was cast. *)
LEMMA VotesStep ==
  ASSUME TypeOK, MessagesTrue, CheckedTrue, VotesTrue, [Next]_vars
  PROVE  VotesTrue'
<1>0. Grows
  BY StepGrows
<1>1. \A n \in Up : prepareSet[n] \subseteq Batch \X Up /\ \A v \in prepareSet[n] : VoteTrue(v)
  BY DEF TypeOK, VotesTrue, VoteTrue
<1>2. ASSUME NEW new, \A n \in Up : prepareSet'[n] \subseteq prepareSet[n] \cup {new},
             VoteTrue(new)'
      PROVE  VotesTrue'
  <2>1. ASSUME NEW n \in Up, NEW v \in prepareSet'[n] PROVE VoteTrue(v)'
    <3>1. CASE v \in prepareSet[n]
      <4>1. v \in Batch \X Up /\ VoteTrue(v)
        BY <1>1, <3>1
      <4> QED
        BY <1>0, <4>1, VoteStays
    <3>2. CASE v = new
      BY <1>2, <3>2
    <3> QED
      BY <1>2, <3>1, <3>2
  <2> QED
    BY <2>1 DEF VotesTrue, VoteTrue
<1>3. ASSUME \A n \in Up : prepareSet'[n] = prepareSet[n] PROVE VotesTrue'
  <2>1. ASSUME NEW n \in Up, NEW v \in prepareSet'[n] PROVE VoteTrue(v)'
    <3>1. v \in Batch \X Up /\ VoteTrue(v)
      BY <1>1, <1>3
    <3> QED
      BY <1>0, <3>1, VoteStays
  <2> QED
    BY <2>1 DEF VotesTrue, VoteTrue
<1>4. ASSUME NEW n \in Up, prePrepareRecv(n) PROVE VotesTrue'
  <2>1. PICK c \in {checked[n]} : TRUE
    OBVIOUS
  <2>2. c \in Message /\ c.seq \in Nat /\ c.digest \in Batch /\ c.from \in Up
    BY <1>4, <2>1, Fields DEF TypeOK, prePrepareRecv
  <2>3. PICK v \in {<<c.digest, n>>} : TRUE
    OBVIOUS
  <2>4. v[1] = c.digest /\ v[2] = n
    BY <2>3
  <2>5. prepareSet' = [prepareSet EXCEPT ![n] = @ \cup {v}]
        /\ prePrepareSet' = [prePrepareSet EXCEPT ![n] = @ \cup {c.seq}]
    BY <1>4, <2>1, <2>3 DEF prePrepareRecv
  <2>6. c.from # n /\ Proposed(c.from, c.seq, c.digest)
    BY <1>4, <2>1 DEF CheckedTrue, prePrepareRecv
  <2>7. Proposed(c.from, c.seq, c.digest)'
    BY <1>0, <2>2, <2>6, ProposedStays
  <2>8. Votes(n, c.digest)' /\ c.seq \in prePrepareSet'[n]
    BY <2>3, <2>5 DEF Votes, TypeOK
  <2>9. VoteTrue(v)'
    BY <2>2, <2>4, <2>6, <2>7, <2>8 DEF VoteTrue
  <2>10. \A o \in Up : prepareSet'[o] \subseteq prepareSet[o] \cup {v}
    BY <2>5 DEF TypeOK
  <2> QED
    BY <1>2, <2>9, <2>10
<1>5. ASSUME NEW m \in net, prepareRecv(m) PROVE VotesTrue'
  <2>1. PICK v \in {<<m.digest, m.from>>} : TRUE
    OBVIOUS
  <2>2. v[1] = m.digest /\ v[2] = m.from
    BY <2>1
  <2>3. prepareSet' = prepareSet \/ prepareSet' = [prepareSet EXCEPT ![m.to] = @ \cup {v}]
    BY <1>5, <2>1, PrepareChanges
  <2>4. m.from \in Up /\ m.to \in Up /\ m.digest \in Batch
    BY <1>5, PrepareCases
  <2>5. v \in prepareSet[m.from]
    BY <1>5, <2>1 DEF MessagesTrue, prepareRecv, Votes
  <2>6. v \in Batch \X Up /\ VoteTrue(v)
    BY <1>1, <2>4, <2>5
  <2>7. VoteTrue(v)'
    BY <1>0, <2>6, VoteStays
  <2>8. \A o \in Up : prepareSet'[o] \subseteq prepareSet[o] \cup {v}
    BY ZenonT(30), <2>3 DEF TypeOK
  <2> QED
    BY <1>2, <2>7, <2>8
<1>6. CASE UNCHANGED vars
  BY <1>3, <1>6 DEF vars, buffers
<1>7. ASSUME NEW c \in Sends, requestRecv(c) PROVE VotesTrue'
  BY <1>3, <1>7 DEF requestRecv
<1>8. ASSUME NEW n \in Up, prePrepareSend(n) \/ executeAndReply(n) PROVE VotesTrue'
  BY <1>3, <1>8 DEF prePrepareSend, executeAndReply
<1>9. ASSUME NEW m \in net, checkPrePrepare(m) \/ commitRecv(m) PROVE VotesTrue'
  BY <1>3, <1>9 DEF checkPrePrepare, commitRecv, buffers
<1> QED
  BY <1>4, <1>5, <1>6, <1>7, <1>8, <1>9 DEF Next

NodePrepared(n) ==
  \A d \in prepareState[n] :
    Count(prepareSet[n], d) >= 2 * FaultNum /\ \E v \in prepareSet[n] : v[1] = d

(* prepare.go:8: a node has prepared on 2f votes, which stay. *)
LEMMA PreparesStep ==
  ASSUME NodesAssumption, TypeOK, PreparesCounted, [Next]_vars
  PROVE  PreparesCounted'
<1>0. Grows /\ TypeOK'
  BY StepGrows, TypeStep
<1>1. ASSUME NEW n \in Up, NEW d \in prepareState[n]
      PROVE  Count(prepareSet'[n], d) >= 2 * FaultNum /\ \E v \in prepareSet'[n] : v[1] = d
  <2>1. Count(prepareSet[n], d) >= 2 * FaultNum /\ \E v \in prepareSet[n] : v[1] = d
    BY <1>1 DEF PreparesCounted
  <2>2. prepareSet'[n] \in SUBSET (Batch \X Up) /\ prepareSet[n] \in SUBSET prepareSet'[n]
    BY <1>0 DEF TypeOK, Grows
  <2>3. PICK S \in {prepareSet[n]}, T \in {prepareSet'[n]} : TRUE
    OBVIOUS
  <2>4. Count(S, d) <= Count(T, d) /\ Count(S, d) \in Nat /\ Count(T, d) \in Nat
    BY <2>2, <2>3, CountGrows
  <2>5. Count(T, d) >= 2 * FaultNum
    BY <2>1, <2>3, <2>4
  <2> QED
    BY <2>1, <2>2, <2>3, <2>5
<1>2. ASSUME prepareState' = prepareState PROVE PreparesCounted'
  BY <1>1, <1>2 DEF PreparesCounted
<1>3. ASSUME NEW m \in net, prepareRecv(m) PROVE PreparesCounted'
  <2>1. prepareState' = prepareState \/ PrepareQuorum(m)
    BY <1>3, PrepareCases DEF PrepareStored
  <2>2. CASE PrepareQuorum(m)
    <3>1. m.to \in Up /\ m.digest \in Batch
      BY <1>3, PrepareCases
    <3>2. PICK v \in {<<m.digest, m.from>>} : TRUE
      OBVIOUS
    <3>3. /\ prepareState' = [prepareState EXCEPT ![m.to] = @ \cup {m.digest}]
          /\ prepareSet' = [prepareSet EXCEPT ![m.to] = @ \cup {v}]
          /\ Count(prepareSet[m.to] \cup {v}, m.digest) >= 2 * FaultNum
      BY <2>2, <3>2 DEF PrepareQuorum
    <3>4. prepareSet'[m.to] = prepareSet[m.to] \cup {v} /\ v[1] = m.digest
      BY <3>1, <3>2, <3>3 DEF TypeOK
    <3>5. Count(prepareSet'[m.to], m.digest) >= 2 * FaultNum /\ \E w \in prepareSet'[m.to] : w[1] = m.digest
      BY <3>3, <3>4
    <3>6. \A n \in Up : \A d \in prepareState'[n] :
            d \in prepareState[n] \/ (n = m.to /\ d = m.digest)
      BY <3>3 DEF TypeOK
    <3>7. \A n \in Up : \A d \in prepareState'[n] :
            Count(prepareSet'[n], d) >= 2 * FaultNum /\ \E w \in prepareSet'[n] : w[1] = d
      BY <1>1, <3>5, <3>6
    <3> QED
      BY <3>7 DEF PreparesCounted
  <2> QED
    BY <1>2, <2>1, <2>2
<1>4. CASE UNCHANGED vars
  BY <1>2, <1>4 DEF vars, buffers
<1>5. ASSUME NEW c \in Sends, requestRecv(c) PROVE PreparesCounted'
  BY <1>2, <1>5 DEF requestRecv
<1>6. ASSUME NEW n \in Up, prePrepareSend(n) \/ prePrepareRecv(n) \/ executeAndReply(n)
      PROVE  PreparesCounted'
  BY <1>2, <1>6 DEF prePrepareSend, prePrepareRecv, executeAndReply
<1>7. ASSUME NEW m \in net, checkPrePrepare(m) \/ commitRecv(m) PROVE PreparesCounted'
  BY <1>2, <1>7 DEF checkPrePrepare, commitRecv, buffers
<1> QED
  BY <1>3, <1>4, <1>5, <1>6, <1>7 DEF Next

(* commit.go:7: commits are of nodes that prepared, and 2f + 1 of them let   *)
(* a batch be executed.                                                     *)
LEMMA CommitsStep ==
  ASSUME NodesAssumption, TypeOK, MessagesTrue, CommitsCounted, [Next]_vars
  PROVE  CommitsCounted'
<1>0. Grows /\ TypeOK'
  BY StepGrows, TypeStep
<1>1. ASSUME NEW n \in Up, NEW v \in commitSet[n] PROVE v[1] \in prepareState'[v[2]]
  <2>1. v \in Batch \X Up
    BY <1>1 DEF TypeOK
  <2>2. v[2] \in Up
    BY <2>1
  <2>3. v[1] \in prepareState[v[2]]
    BY <1>1 DEF CommitsCounted
  <2> QED
    BY <1>0, <2>2, <2>3 DEF Grows
<1>2. ASSUME NEW n \in Up, NEW d \in commitState[n]
      PROVE  d \in prepareState'[n] /\ Count(commitSet'[n], d) >= 2 * FaultNum + 1
  <2>1. d \in prepareState[n] /\ Count(commitSet[n], d) >= 2 * FaultNum + 1
    BY <1>2 DEF CommitsCounted
  <2>2. commitSet'[n] \in SUBSET (Batch \X Up) /\ commitSet[n] \in SUBSET commitSet'[n]
        /\ prepareState[n] \subseteq prepareState'[n]
    BY <1>0 DEF TypeOK, Grows
  <2>3. PICK S \in {commitSet[n]}, T \in {commitSet'[n]} : TRUE
    OBVIOUS
  <2>4. Count(S, d) <= Count(T, d) /\ Count(S, d) \in Nat /\ Count(T, d) \in Nat
    BY <2>2, <2>3, CountGrows
  <2>5. Count(T, d) >= 2 * FaultNum + 1
    BY <2>1, <2>3, <2>4
  <2> QED
    BY <2>1, <2>2, <2>3, <2>5
<1>3. ASSUME commitSet' = commitSet, commitState' = commitState PROVE CommitsCounted'
  BY <1>1, <1>2, <1>3 DEF CommitsCounted
<1>4. ASSUME NEW m \in net, prepareRecv(m) PROVE CommitsCounted'
  <2>1. (commitSet' = commitSet \/ PrepareQuorum(m)) /\ commitState' = commitState
    BY <1>4, PrepareCases DEF PrepareStored
  <2>2. CASE PrepareQuorum(m)
    <3>1. m.to \in Up /\ m.digest \in Batch
      BY <1>4, PrepareCases
    <3>2. PICK v \in {<<m.digest, m.to>>} : TRUE
      OBVIOUS
    <3>3. /\ prepareState' = [prepareState EXCEPT ![m.to] = @ \cup {m.digest}]
          /\ commitSet' = [commitSet EXCEPT ![m.to] = @ \cup {v}]
      BY <2>2, <3>2 DEF PrepareQuorum
    <3>4. v[1] \in prepareState'[v[2]]
      BY <3>1, <3>2, <3>3 DEF TypeOK
    <3>5. \A n \in Up : \A w \in commitSet'[n] : w \in commitSet[n] \/ w = v
      BY <3>3 DEF TypeOK
    <3>6. \A n \in Up : \A w \in commitSet'[n] : w[1] \in prepareState'[w[2]]
      BY <1>1, <3>4, <3>5
    <3> QED
      BY <1>2, <2>1, <3>6 DEF CommitsCounted
  <2> QED
    BY <1>3, <2>1, <2>2
<1>5. ASSUME NEW m \in net, commitRecv(m) PROVE CommitsCounted'
  <2>1. m.to \in Up /\ m.from \in Up /\ m.digest \in Batch /\ m.type = "commit" /\ prepareState' = prepareState
    BY <1>5, CommitCases
  <2>2. PICK v \in {<<m.digest, m.from>>} : TRUE
    OBVIOUS
  <2>3. v[1] = m.digest /\ v[2] = m.from
    BY <2>2
  <2>4. commitSet' = commitSet \/ commitSet' = [commitSet EXCEPT ![m.to] = @ \cup {v}]
    BY <1>5, <2>2, CommitChanges
  <2>5. m.digest \in prepareState[m.from]
    BY <1>5, <2>1 DEF MessagesTrue
  <2>6. \A n \in Up : \A w \in commitSet'[n] : w \in commitSet[n] \/ w = v
    <3>1. DOMAIN commitSet = Up
      BY DEF TypeOK
    <3>2. CASE commitSet' = commitSet
      BY <3>2
    <3>3. CASE commitSet' = [commitSet EXCEPT ![m.to] = @ \cup {v}]
      BY <3>1, <3>3
    <3> QED
      BY <2>4, <3>2, <3>3
  <2>7. \A n \in Up : \A w \in commitSet'[n] : w[1] \in prepareState'[w[2]]
    BY <1>1, <2>1, <2>3, <2>5, <2>6
  <2>8. commitState' = commitState \/ CommitQuorum(m)
    BY <1>5, CommitCases
  <2>9. CASE commitState' = commitState
    BY <1>2, <2>7, <2>9 DEF CommitsCounted
  <2>10. CASE CommitQuorum(m)
    <3>1. /\ commitState' = [commitState EXCEPT ![m.to] = @ \cup {m.digest}]
          /\ commitSet' = [commitSet EXCEPT ![m.to] = @ \cup {v}]
          /\ IsReadyToExecute(m.to, commitSet[m.to] \cup {v}, m)
      BY <2>2, <2>10 DEF CommitQuorum
    <3>2. commitSet'[m.to] = commitSet[m.to] \cup {v}
      BY <2>1, <3>1 DEF TypeOK
    <3>3. m.digest \in prepareState'[m.to] /\ Count(commitSet'[m.to], m.digest) >= 2 * FaultNum + 1
      BY <2>1, <3>1, <3>2 DEF IsReadyToExecute
    <3>4. \A n \in Up : \A d \in commitState'[n] :
            d \in commitState[n] \/ (n = m.to /\ d = m.digest)
      BY <3>1 DEF TypeOK
    <3>5. \A n \in Up : \A d \in commitState'[n] :
            d \in prepareState'[n] /\ Count(commitSet'[n], d) >= 2 * FaultNum + 1
      BY <1>2, <3>3, <3>4
    <3> QED
      BY <2>7, <3>5 DEF CommitsCounted
  <2> QED
    BY <2>8, <2>9, <2>10
<1>6. CASE UNCHANGED vars
  BY <1>3, <1>6 DEF vars, buffers
<1>7. ASSUME NEW c \in Sends, requestRecv(c) PROVE CommitsCounted'
  BY <1>3, <1>7 DEF requestRecv
<1>8. ASSUME NEW n \in Up, prePrepareSend(n) \/ prePrepareRecv(n) \/ executeAndReply(n)
      PROVE  CommitsCounted'
  BY <1>3, <1>8 DEF prePrepareSend, prePrepareRecv, executeAndReply
<1>9. ASSUME NEW m \in net, checkPrePrepare(m) PROVE CommitsCounted'
  BY <1>3, <1>9 DEF checkPrePrepare, buffers
<1> QED
  BY <1>4, <1>5, <1>6, <1>7, <1>8, <1>9 DEF Next

-----------------------------------------------------------------------------
(* Votes for two proposals of a number. *)

Truth == TypeOK /\ BatchesApart /\ MessagesTrue /\ CheckedTrue /\ VotesTrue

(* What a node backs was proposed by another; what it voted for has its      *)
(* number taken.                                                            *)
LEMMA BackedIsProposed ==
  ASSUME Truth, NEW x \in Up, NEW d, Backs(x, d)
  PROVE  \E p \in Up \ {x}, s \in Nat :
           Proposed(p, s, d) /\ (Votes(x, d) => s \in prePrepareSet[x])
<1>1. CASE Votes(x, d)
  <2>1. PICK v \in {<<d, x>>} : TRUE
    OBVIOUS
  <2>2. v \in prepareSet[x] /\ v[1] = d /\ v[2] = x
    BY <1>1, <2>1 DEF Votes
  <2>3. PICK p \in Up \ {x}, s \in prePrepareSet[x] : Proposed(p, s, d)
    BY <2>2 DEF Truth, VotesTrue
  <2>4. s \in Nat
    BY DEF Truth, TypeOK
  <2> QED
    BY <2>3, <2>4
<1>2. CASE ~Votes(x, d)
  <2>1. checked[x] # NoMsg /\ checked[x].digest = d
    BY <1>2 DEF Backs
  <2>2. checked[x].from \in Up /\ checked[x].seq \in Nat
    BY <2>1, Fields DEF Truth, TypeOK
  <2>3. checked[x].from # x /\ Proposed(checked[x].from, checked[x].seq, d)
    BY <2>1 DEF Truth, CheckedTrue
  <2> QED
    BY <1>2, <2>2, <2>3
<1> QED
  BY <1>1, <1>2

(* A voter for a proposal has its number taken, and is not the proposer. *)
LEMMA VoterKnows ==
  ASSUME SendsDistinct, Truth, NEW x \in Up, NEW p \in Up, NEW s \in Int, NEW d,
         Proposed(p, s, d)
  PROVE  /\ Backs(x, d) => p # x
         /\ Votes(x, d) => s \in prePrepareSet[x]
<1>1. ASSUME Backs(x, d) PROVE p # x /\ (Votes(x, d) => s \in prePrepareSet[x])
  <2>1. PICK q \in Up \ {x}, r \in Nat : Proposed(q, r, d) /\ (Votes(x, d) => r \in prePrepareSet[x])
    BY <1>1, BackedIsProposed
  <2>2. q = p /\ r = s
    <3>1. q \in Up /\ r \in Int
      BY <2>1
    <3> QED
      BY <2>1, <3>1, BatchTells DEF Truth
  <2> QED
    BY <2>1, <2>2
<1> QED
  BY <1>1 DEF Backs

Apart(p, q, d, e) ==
  /\ \A x \in Up : ~(Backs(x, d) /\ Backs(x, e))
  /\ ~(Backs(p, e) /\ Backs(q, d))

(* VotesApart in terms of Proposed. *)
LEMMA ApartAt ==
  ASSUME VotesApart, NEW p \in Up, NEW q \in Up, p # q, NEW i \in DOMAIN proposed[p],
         i \in DOMAIN proposed[q]
  PROVE  Apart(p, q, proposed[p][i], proposed[q][i])
BY DEF VotesApart, Apart

(* Positions are numbers. *)
LEMMA Position ==
  ASSUME TypeOK, NEW p \in Up, NEW i \in DOMAIN proposed[p]
  PROVE  i - 1 \in Nat /\ Proposed(p, i - 1, proposed[p][i])
<1>1. proposed[p] \in Seq(Batch)
  BY DEF TypeOK
<1>2. DOMAIN proposed[p] = 1 .. Len(proposed[p]) /\ Len(proposed[p]) \in Nat
  BY <1>1, LenProperties
<1>3. i - 1 \in Nat /\ (i - 1) + 1 = i
  BY <1>2
<1> QED
  BY <1>3 DEF Proposed

(* preprepare.go:66: a node sets aside no proposal whose number it has taken,*)
(* neither for another's nor for its own.                                   *)
LEMMA checkPrePrepareVotes ==
  ASSUME SendsDistinct, Truth, VotesApart, NEW m \in net, checkPrePrepare(m)
  PROVE  VotesApart'
<1>1. m \in Message /\ m.to \in Up /\ m.from \in Up /\ m.seq \in Nat
  BY Fields DEF Truth, TypeOK
<1>2. proposed' = proposed /\ prepareSet' = prepareSet /\ checked[m.to] = NoMsg
  BY DEF checkPrePrepare, buffers
<1>3. CASE checked' = checked
  BY SMTT(30), <1>2, <1>3 DEF VotesApart, Backs, Votes, NoMsg
<1>4. CASE checked' # checked
  <2>1. checked' = [checked EXCEPT ![m.to] = m] /\ m.seq \notin prePrepareSet[m.to]
    BY <1>4 DEF checkPrePrepare, checkPrePrepareMsg
  <2>2. Proposed(m.from, m.seq, m.digest)
    BY DEF checkPrePrepare, Truth, MessagesTrue
  <2>3. ASSUME NEW x \in Up, NEW d, Backs(x, d)'
        PROVE  Backs(x, d) \/ (x = m.to /\ d = m.digest)
    <3>1. Votes(x, d)' <=> Votes(x, d)
      BY <1>2 DEF Votes
    <3>2. CASE x = m.to
      <4>1. checked'[x] = m
        BY <1>1, <2>1, <3>2 DEF Truth, TypeOK
      <4> QED
        BY <2>3, <3>1, <3>2, <4>1 DEF Backs
    <3>3. CASE x # m.to
      <4>1. checked'[x] = checked[x]
        BY <2>1, <3>3 DEF Truth, TypeOK
      <4> QED
        BY <2>3, <3>1, <4>1 DEF Backs, NoMsg
    <3> QED
      BY <3>2, <3>3
  <2>4. \A d : Backs(m.to, d) => Votes(m.to, d)
    BY <1>2 DEF Backs
  <2>5. ASSUME NEW p \in Up, NEW q \in Up, p # q, NEW i \in DOMAIN proposed[p],
               i \in DOMAIN proposed[q]
        PROVE  Apart(p, q, proposed[p][i], proposed[q][i])'
    <3>1. PICK d \in {proposed[p][i]}, e \in {proposed[q][i]} : TRUE
      OBVIOUS
    <3>2. Apart(p, q, d, e)
      BY <2>5, <3>1, ApartAt
    <3>3. i - 1 \in Nat /\ Proposed(p, i - 1, d) /\ Proposed(q, i - 1, e)
      BY <2>5, <3>1, Position DEF Truth
    <3>4. i - 1 \in prePrepareSet[p] /\ i - 1 \in prePrepareSet[q]
      BY <2>5 DEF Truth, BatchesApart
    <3>5. d = m.digest => m.seq = i - 1
      BY <1>1, <2>2, <3>3, BatchTells DEF Truth
    <3>6. e = m.digest => m.seq = i - 1
      BY <1>1, <2>2, <3>3, BatchTells DEF Truth
    <3>7. d # e
      BY <2>5, <3>3, BatchTells DEF Truth
    <3>8. ASSUME NEW x \in Up, Backs(x, d)', Backs(x, e)' PROVE FALSE
      <4>1. Backs(x, d) \/ (x = m.to /\ d = m.digest)
        BY <2>3, <3>8
      <4>2. Backs(x, e) \/ (x = m.to /\ e = m.digest)
        BY <2>3, <3>8
      <4>3. CASE Backs(x, d) /\ Backs(x, e)
        BY <3>2, <4>3 DEF Apart
      <4>4. CASE x = m.to /\ d = m.digest /\ Backs(x, e)
        <5>1. Votes(x, e)
          BY <2>4, <4>4
        <5>2. i - 1 \in prePrepareSet[x]
          BY <3>3, <5>1, VoterKnows
        <5> QED
          BY <2>1, <3>5, <4>4, <5>2
      <4>5. CASE x = m.to /\ e = m.digest /\ Backs(x, d)
        <5>1. Votes(x, d)
          BY <2>4, <4>5
        <5>2. i - 1 \in prePrepareSet[x]
          BY <3>3, <5>1, VoterKnows
        <5> QED
          BY <2>1, <3>6, <4>5, <5>2
      <4> QED
        BY <3>7, <4>1, <4>2, <4>3, <4>4, <4>5
    <3>9. ASSUME Backs(p, e)', Backs(q, d)' PROVE FALSE
      <4>1. Backs(p, e) \/ (p = m.to /\ e = m.digest)
        BY <2>3, <3>9
      <4>2. Backs(q, d) \/ (q = m.to /\ d = m.digest)
        BY <2>3, <3>9
      <4>3. ~(p = m.to /\ e = m.digest) /\ ~(q = m.to /\ d = m.digest)
        BY <2>1, <3>4, <3>5, <3>6
      <4> QED
        BY <3>2, <4>1, <4>2, <4>3 DEF Apart
    <3>10. proposed'[p][i] = d /\ proposed'[q][i] = e
      BY <1>2, <3>1
    <3> QED
      BY <3>8, <3>9, <3>10 DEF Apart
  <2> QED
    BY <1>2, <2>5 DEF VotesApart, Apart
<1> QED
  BY <1>3, <1>4

(* Nothing of VotesApart changes when nobody backs more and nothing is       *)
(* proposed.                                                                *)
LEMMA BacksSame ==
  ASSUME VotesApart, proposed' = proposed,
         \A x \in Up : \A d : Backs(x, d)' => Backs(x, d)
  PROVE  VotesApart'
<1>1. ASSUME NEW p \in Up, NEW q \in Up, p # q, NEW i \in DOMAIN proposed[p],
             i \in DOMAIN proposed[q]
      PROVE  Apart(p, q, proposed[p][i], proposed[q][i])'
  <2>1. PICK d \in {proposed[p][i]}, e \in {proposed[q][i]} : TRUE
    OBVIOUS
  <2>2. Apart(p, q, d, e)
    BY <1>1, <2>1, ApartAt
  <2>3. Apart(p, q, d, e)'
    BY <2>2 DEF Apart
  <2>4. proposed'[p][i] = d /\ proposed'[q][i] = e
    BY <2>1
  <2> QED
    BY <2>3, <2>4 DEF Apart
<1> QED
  BY <1>1 DEF VotesApart, Apart

(* preprepare.go:11: nobody is yet for a new proposal. *)
LEMMA prePrepareSendVotes ==
  ASSUME SendsDistinct, Truth, VotesApart, NEW n \in Up, prePrepareSend(n)
  PROVE  VotesApart'
<1>1. PICK new \in {requestQueue[n]}, L \in {Len(proposed[n])} : TRUE
  OBVIOUS
<1>2. new \in Batch /\ proposed[n] \in Seq(Batch) /\ L \in Nat
  <2>1. proposed[n] \in Seq(Batch)
    BY DEF Truth, TypeOK
  <2> QED
    BY <1>1, <2>1, QueueIsBatch, LenProperties DEF prePrepareSend, Truth
<1>3. proposed' = [proposed EXCEPT ![n] = Append(@, new)] /\ UNCHANGED <<checked, prepareSet>>
  BY <1>1 DEF prePrepareSend
<1>4. PICK qs \in {Append(proposed[n], new)} : TRUE
  OBVIOUS
<1>5. /\ DOMAIN qs = DOMAIN proposed[n] \cup {L + 1}
      /\ \A i \in DOMAIN proposed[n] : qs[i] = proposed[n][i]
      /\ qs[L + 1] = new /\ L + 1 \notin DOMAIN proposed[n]
  <2>1. Len(proposed[n]) = L
    BY <1>1
  <2>2. /\ DOMAIN Append(proposed[n], new) = DOMAIN proposed[n] \cup {Len(proposed[n]) + 1}
        /\ DOMAIN proposed[n] = 1 .. Len(proposed[n])
        /\ \A i \in DOMAIN proposed[n] : Append(proposed[n], new)[i] = proposed[n][i]
        /\ Append(proposed[n], new)[Len(proposed[n]) + 1] = new
    BY <1>2, AppendKeeps
  <2> QED
    BY <1>2, <1>4, <2>1, <2>2
<1>6. proposed'[n] = qs /\ \A p \in Up \ {n} : proposed'[p] = proposed[p]
  BY <1>3, <1>4 DEF Truth, TypeOK
<1>7. Grows /\ TypeOK' /\ BatchesApart'
  BY StepGrows, TypeStep, ApartStep DEF Truth, Next
<1>8. ASSUME NEW x \in Up, Backs(x, new) PROVE FALSE
  <2>1. PICK p \in Up \ {x}, s \in Nat : Proposed(p, s, new)
    BY <1>8, BackedIsProposed
  <2>2. /\ s + 1 \in DOMAIN proposed[p] /\ proposed[p][s + 1] = new
        /\ Range(new) \subseteq Received(p) \ Range(requestQueue[p])
    BY <2>1 DEF Proposed, Truth, BatchesApart
  <2>3. Range(new) \subseteq Received(n) /\ Range(new) # {}
    <3>1. new \in Seq(Reqs) /\ new # << >>
      BY <1>2 DEF Batch
    <3>2. 1 \in DOMAIN new
      BY <3>1
    <3> QED
      BY <1>1, <3>2 DEF Range, Truth, BatchesApart
  <2>4. PICK r \in Range(new) : TRUE
    BY <2>3
  <2>5. p = n
    BY <2>2, <2>3, <2>4 DEF Received, SendsDistinct
  <2> QED
    BY <1>1, <2>2, <2>4, <2>5
<1>9. \A x \in Up : \A d : Backs(x, d)' <=> Backs(x, d)
  BY <1>3 DEF Backs, Votes, NoMsg
<1>10. ASSUME NEW p \in Up, NEW q \in Up, p # q, NEW i \in DOMAIN proposed'[p],
              i \in DOMAIN proposed'[q]
       PROVE  Apart(p, q, proposed[p][i], proposed[q][i])'
  <2>1. PICK d \in {proposed'[p][i]}, e \in {proposed'[q][i]} : TRUE
    OBVIOUS
  <2>2. CASE i \in DOMAIN proposed[p] /\ i \in DOMAIN proposed[q]
    <3>1. d = proposed[p][i] /\ e = proposed[q][i]
      BY <1>5, <1>6, <2>1, <2>2
    <3>2. Apart(p, q, d, e)
      BY <1>10, <2>2, <3>1, ApartAt
    <3>3. Apart(p, q, d, e)'
      BY <1>9, <3>2 DEF Apart
    <3> QED
      BY <2>1, <3>3 DEF Apart
  <2>3. CASE i \notin DOMAIN proposed[p] \/ i \notin DOMAIN proposed[q]
    <3>1. d = new \/ e = new
      BY <1>5, <1>6, <1>10, <2>1, <2>3
    <3>2. Apart(p, q, d, e)'
      BY <1>8, <1>9, <3>1 DEF Apart
    <3> QED
      BY <2>1, <3>2 DEF Apart
  <2> QED
    BY <2>2, <2>3
<1> QED
  BY <1>10 DEF VotesApart, Apart

(* preprepare.go, prepare.go: two proposals for a number stay apart. *)
LEMMA ApartVotesStep ==
  ASSUME SendsDistinct, Truth, VotesApart, [Next]_vars
  PROVE  VotesApart'
<1>1. ASSUME UNCHANGED <<proposed, checked, prepareSet>> PROVE VotesApart'
  <2>1. \A x \in Up : \A d : Backs(x, d)' => Backs(x, d)
    BY <1>1 DEF Backs, Votes, NoMsg
  <2> QED
    BY <1>1, <2>1, BacksSame
<1>2. ASSUME NEW n \in Up, prePrepareRecv(n) PROVE VotesApart'
  <2>1. PICK c \in {checked[n]} : TRUE
    OBVIOUS
  <2>2. /\ c # NoMsg /\ proposed' = proposed
        /\ checked' = [checked EXCEPT ![n] = NoMsg]
        /\ prepareSet' = [prepareSet EXCEPT ![n] = @ \cup {<<c.digest, n>>}]
    BY <1>2, <2>1 DEF prePrepareRecv
  <2>3. ASSUME NEW x \in Up, NEW d, Backs(x, d)' PROVE Backs(x, d)
    <3>1. CASE x = n
      <4>1. checked'[x] = NoMsg /\ prepareSet'[x] = prepareSet[x] \cup {<<c.digest, n>>}
        BY <2>2, <3>1 DEF Truth, TypeOK
      <4>2. Votes(x, d)'
        BY <2>3, <4>1 DEF Backs, NoMsg
      <4>3. Votes(x, d) \/ d = c.digest
        BY <4>1, <4>2 DEF Votes
      <4> QED
        BY <2>1, <2>2, <3>1, <4>3 DEF Backs
    <3>2. CASE x # n
      <4>1. checked'[x] = checked[x] /\ prepareSet'[x] = prepareSet[x]
        BY <2>2, <3>2 DEF Truth, TypeOK
      <4> QED
        BY <2>3, <4>1 DEF Backs, Votes, NoMsg
    <3> QED
      BY <3>1, <3>2
  <2> QED
    BY <2>2, <2>3, BacksSame
<1>3. ASSUME NEW m \in net, prepareRecv(m) PROVE VotesApart'
  <2>1. m.from \in Up /\ m.to \in Up /\ proposed' = proposed /\ checked' = checked
    BY <1>3, PrepareCases DEF Truth
  <2>2. m.from # m.to
    BY DEF Truth, MessagesTrue
  <2>3. \/ prepareSet' = prepareSet
        \/ prepareSet' = [prepareSet EXCEPT ![m.to] = @ \cup {<<m.digest, m.from>>}]
    BY <1>3, PrepareChanges DEF Truth
  <2>4. \A x \in Up : \A d : Votes(x, d)' => Votes(x, d)
    <3>1. DOMAIN prepareSet = Up
      BY DEF Truth, TypeOK
    <3>2. CASE prepareSet' = prepareSet
      BY <3>2 DEF Votes
    <3>3. CASE prepareSet' = [prepareSet EXCEPT ![m.to] = @ \cup {<<m.digest, m.from>>}]
      <4> SUFFICES ASSUME NEW x \in Up, NEW d, Votes(x, d)' PROVE Votes(x, d)
        OBVIOUS
      <4>1. <<d, x>> \in prepareSet[x] \/ (x = m.to /\ <<d, x>> = <<m.digest, m.from>>)
        BY <3>1, <3>3 DEF Votes
      <4> QED
        BY <2>2, <4>1 DEF Votes
    <3> QED
      BY <2>3, <3>2, <3>3
  <2>5. \A x \in Up : \A d : Backs(x, d)' => Backs(x, d)
    BY <2>1, <2>4 DEF Backs, NoMsg
  <2> QED
    BY <2>1, <2>5, BacksSame
<1>4. CASE UNCHANGED vars
  BY <1>1, <1>4 DEF vars, buffers
<1>5. ASSUME NEW c \in Sends, requestRecv(c) PROVE VotesApart'
  BY <1>1, <1>5 DEF requestRecv
<1>6. ASSUME NEW n \in Up, executeAndReply(n) PROVE VotesApart'
  BY <1>1, <1>6 DEF executeAndReply
<1>7. ASSUME NEW m \in net, commitRecv(m) PROVE VotesApart'
  BY <1>1, <1>7 DEF commitRecv
<1> QED
  BY <1>2, <1>3, <1>4, <1>5, <1>6, <1>7, checkPrePrepareVotes, prePrepareSendVotes DEF Next

-----------------------------------------------------------------------------
(* Quorums. *)

(* Two sets of 2f nodes that share none leave no node out, unless there is   *)
(* only one.                                                                *)
LEMMA NoRoom ==
  ASSUME NodesAssumption,
         NEW X \in SUBSET Up, NEW Y \in SUBSET Up, NEW p \in Up, NEW q \in Up, p # q,
         Cardinality(X) >= 2 * FaultNum, Cardinality(Y) >= 2 * FaultNum, X \cap Y = {}
  PROVE  p \in X \cup Y
<1>1. ASSUME p \notin X \cup Y PROVE FALSE
  <2>1. IsFiniteSet(X) /\ IsFiniteSet(Y) /\ X \cup Y \in SUBSET (Up \ {p})
    BY <1>1, FS_Subset
  <2>2. /\ IsFiniteSet(Up \ {p})
        /\ Cardinality(Up \ {p}) = Cardinality(Up) - 1
    BY FS_RemoveElement
  <2>3. Cardinality(X \cup Y) <= Cardinality(Up \ {p})
    BY <2>1, <2>2, FS_Subset
  <2>4. Cardinality(X \cup Y) = Cardinality(X) + Cardinality(Y) - Cardinality(X \cap Y)
    BY <2>1, FS_Union
  <2>5. Cardinality(X \cap Y) = 0
    BY FS_EmptySet
  <2>6. Cardinality(X) \in Nat /\ Cardinality(Y) \in Nat /\ Cardinality(Up) \in Nat
    BY <2>1, FS_CardinalityType
  <2>7. PICK x \in {Cardinality(X)}, y \in {Cardinality(Y)}, u \in {Cardinality(Up)} : TRUE
    OBVIOUS
  <2>8. x + y <= u - 1
    BY <2>2, <2>3, <2>4, <2>5, <2>6, <2>7
  <2>9. u <= 1
    BY <2>6, <2>7, <2>8
  <2>10. Cardinality({p, q}) = 2
    <3>1. IsFiniteSet({p}) /\ Cardinality({p}) = 1
      BY FS_Singleton
    <3>2. Cardinality({p} \cup {q}) = Cardinality({p}) + 1
      BY <3>1, FS_AddElement
    <3>3. {p} \cup {q} = {p, q}
      OBVIOUS
    <3>4. PICK a \in {Cardinality({p})}, b \in {Cardinality({p} \cup {q})} : TRUE
      OBVIOUS
    <3>5. a = 1 /\ b = a + 1
      BY <3>1, <3>2, <3>4
    <3>6. b = 2
      BY <3>5
    <3> QED
      BY <3>3, <3>4, <3>6
  <2>11. Cardinality({p, q}) <= Cardinality(Up)
    <3>1. {p, q} \in SUBSET Up
      OBVIOUS
    <3> QED
      BY <3>1, FS_Subset
  <2> QED
    BY <2>6, <2>7, <2>9, <2>10, <2>11
<1> QED
  BY <1>1

Core == Truth /\ VotesApart /\ PreparesCounted /\ CommitsCounted

(* Those who voted for what a node prepared. *)
LEMMA PreparedVoters ==
  ASSUME NodesAssumption, SendsDistinct, Core, NEW n \in Up, NEW d \in prepareState[n],
         NEW X, X = {x \in Up : Votes(x, d)}
  PROVE  Cardinality(X) >= 2 * FaultNum /\ X \in SUBSET Up
<1>1. PICK S \in {prepareSet[n]} : TRUE
  OBVIOUS
<1>2. S \in SUBSET (Batch \X Up) /\ Count(S, d) >= 2 * FaultNum
  BY <1>1 DEF Core, Truth, TypeOK, PreparesCounted
<1>3. Voters(S, d) \in SUBSET X
  <2>1. ASSUME NEW x \in Voters(S, d) PROVE x \in X
    <3>1. PICK v \in {<<d, x>>} : TRUE
      OBVIOUS
    <3>2. v \in prepareSet[n] /\ v[1] = d /\ v[2] = x /\ x \in Up
      BY <1>1, <2>1, <3>1 DEF Voters
    <3>3. Votes(x, d)
      BY <3>2 DEF Core, Truth, VotesTrue
    <3> QED
      BY <3>2, <3>3
  <2> QED
    BY <2>1
<1>4. X \in SUBSET Up /\ IsFiniteSet(X)
  BY FS_Subset
<1>5. Cardinality(Voters(S, d)) <= Cardinality(X) /\ Cardinality(X) \in Nat
  BY <1>3, <1>4, FS_Subset, FS_CardinalityType
<1>6. Count(S, d) = Cardinality(Voters(S, d)) /\ Count(S, d) \in Nat
  BY <1>2, CountVoters
<1> QED
  BY <1>2, <1>4, <1>5, <1>6

(* No two nodes prepare different batches for a number. *)
LEMMA PreparedAreOne ==
  ASSUME NodesAssumption,
         SendsDistinct, Core, NEW n \in Up, NEW o \in Up, NEW d \in prepareState[n],
         NEW e \in prepareState[o], NEW p \in Up, NEW q \in Up, NEW s \in Int,
         Proposed(p, s, d), Proposed(q, s, e)
  PROVE  d = e
<1>1. CASE p = q
  BY <1>1 DEF Proposed
<1>2. CASE p # q
  <2>1. PICK X : X = {x \in Up : Votes(x, d)}
    OBVIOUS
  <2>2. PICK Y : Y = {x \in Up : Votes(x, e)}
    OBVIOUS
  <2>3. Cardinality(X) >= 2 * FaultNum /\ X \in SUBSET Up
    BY <2>1, PreparedVoters
  <2>4. Cardinality(Y) >= 2 * FaultNum /\ Y \in SUBSET Up
    BY <2>2, PreparedVoters
  <2>5. Apart(p, q, d, e)
    <3>1. /\ s + 1 \in DOMAIN proposed[p] /\ proposed[p][s + 1] = d
          /\ s + 1 \in DOMAIN proposed[q] /\ proposed[q][s + 1] = e
      BY DEF Proposed
    <3>2. Apart(p, q, proposed[p][s + 1], proposed[q][s + 1])
      BY <1>2, <3>1, ApartAt DEF Core
    <3> QED
      BY <3>1, <3>2
  <2>6. X \cap Y = {}
    BY <2>1, <2>2, <2>5 DEF Apart, Backs
  <2>7. p \notin X /\ q \notin Y
    <3>1. ~Votes(p, d)
      BY VoterKnows DEF Core, Backs
    <3>2. ~Votes(q, e)
      BY VoterKnows DEF Core, Backs
    <3> QED
      BY <2>1, <2>2, <3>1, <3>2
  <2>8. p \in Y
    BY <1>2, <2>3, <2>4, <2>6, <2>7, NoRoom
  <2>9. q \in X
    <3>1. q \in X \cup Y
      BY <1>2, <2>3, <2>4, <2>6, NoRoom
    <3> QED
      BY <2>7, <3>1
  <2>10. Votes(p, e) /\ Votes(q, d)
    BY <2>1, <2>2, <2>8, <2>9
  <2> QED
    BY <2>5, <2>10 DEF Apart, Backs
<1> QED
  BY <1>1, <1>2

-----------------------------------------------------------------------------
(* The queue. *)

Ascends(q) == \A i, j \in DOMAIN q : i < j => q[i].seq < q[j].seq

(* A set of positions that has every position before one of its own is a     *)
(* beginning.                                                               *)
LEMMA Beginning ==
  ASSUME NEW L \in Nat, NEW C \in SUBSET (1 .. L),
         \A i, j \in 1 .. L : i < j /\ j \in C => i \in C
  PROVE  C = 1 .. Cardinality(C) /\ Cardinality(C) \in 0 .. L
<1> DEFINE T == {j \in 1 .. L + 1 : j \notin C}
<1>1. L + 1 \in T /\ T \subseteq Nat
  OBVIOUS
<1>2. PICK x \in T : \A y \in T : x <= y
  <2> HIDE DEF T
  <2> QED
    BY <1>1, LeastNat
<1>3. x \in 1 .. L + 1 /\ x \notin C
  OBVIOUS
<1>4. \A y \in 1 .. L : y < x => y \in C
  BY <1>2, <1>3
<1>5. \A y \in C : y < x
  BY <1>3
<1>6. C = 1 .. x - 1
  <2>1. \A y \in C : y \in 1 .. x - 1
    BY <1>3, <1>5
  <2>2. \A y \in 1 .. x - 1 : y \in C
    <3>1. \A y \in 1 .. x - 1 : y \in 1 .. L /\ y < x
      BY <1>3
    <3> QED
      BY <1>4, <3>1
  <2> QED
    BY <2>1, <2>2
<1>7. Cardinality(1 .. x - 1) = x - 1
  <2>1. 1 \in Int /\ x - 1 \in Int
    BY <1>3
  <2>2. Cardinality(1 .. x - 1) = IF 1 > x - 1 THEN 0 ELSE (x - 1) - 1 + 1
    BY <2>1, FS_Interval
  <2> QED
    BY <1>3, <2>2
<1>8. Cardinality(C) = x - 1
  BY <1>6, <1>7
<1> QED
  BY <1>3, <1>6, <1>8

(* buffer.go: AppendToExecuteQueue keeps the order. *)
LEMMA InsertedInOrder ==
  ASSUME NEW q \in Seq(Entry), NEW m \in Entry, Ascends(q),
         \A i \in DOMAIN q : q[i].seq # m.seq
  PROVE  /\ Ascends(AppendToExecuteQueue(q, m))
         /\ \A i \in DOMAIN AppendToExecuteQueue(q, m) :
              \/ AppendToExecuteQueue(q, m)[i] = m
              \/ \E j \in DOMAIN q : AppendToExecuteQueue(q, m)[i] = q[j]
<1>1. PICK L \in {Len(q)}, C \in {{i \in DOMAIN q : q[i].seq <= m.seq}} : TRUE
  OBVIOUS
<1>2. DOMAIN q = 1 .. L /\ L \in Nat /\ m.seq \in Nat /\ \A i \in 1 .. L : q[i].seq \in Nat
  <2>1. DOMAIN q = 1 .. L /\ L \in Nat
    BY <1>1, LenProperties
  <2>2. \A i \in 1 .. L : q[i] \in Entry
    BY <1>1, ElementOfSeq
  <2> QED
    BY <2>1, <2>2 DEF Entry
<1>3. C = {i \in 1 .. L : q[i].seq <= m.seq}
  BY <1>1, <1>2
<1>4. PICK k \in {Cardinality(C)} : TRUE
  OBVIOUS
<1>5. C = 1 .. k /\ k \in 0 .. L
  <2>1. \A i, j \in 1 .. L : i < j /\ j \in C => i \in C
    <3> SUFFICES ASSUME NEW i \in 1 .. L, NEW j \in 1 .. L, i < j, j \in C PROVE i \in C
      OBVIOUS
    <3>1. q[i].seq < q[j].seq /\ q[j].seq <= m.seq
      BY <1>2, <1>3 DEF Ascends
    <3>2. q[i].seq <= m.seq
      BY <1>2, <3>1
    <3> QED
      BY <1>3, <3>2
  <2>2. C \in SUBSET (1 .. L)
    BY <1>3
  <2> QED
    BY <1>2, <1>4, <2>1, <2>2, Beginning
<1>6. PICK r \in {AppendToExecuteQueue(q, m)} : TRUE
  OBVIOUS
<1>7. /\ r \in Seq(Entry) /\ Len(r) = L + 1
      /\ \A i \in 1 .. L + 1 : r[i] = IF i <= k THEN q[i] ELSE IF i = k + 1 THEN m ELSE q[i - 1]
  <2>1. r = Inserted(q, k, m)
    BY Zenon, <1>1, <1>4, <1>6 DEF AppendToExecuteQueue, Inserted
  <2>2. k \in 0 .. Len(q)
    BY <1>1, <1>5
  <2>3. r \in Seq(Entry) /\ HasBehind(r, q, k, m)
    BY <2>1, <2>2, InsertAt
  <2> QED
    BY <1>1, <2>3 DEF HasBehind
<1>8. DOMAIN r = 1 .. L + 1
  BY <1>7, LenProperties
<1>9. \A i \in 1 .. k : q[i].seq < m.seq
  <2>1. \A i \in 1 .. k : q[i].seq <= m.seq /\ i \in 1 .. L
    BY <1>2, <1>3, <1>5
  <2> QED
    BY <1>2, <2>1
<1>10. \A i \in 1 .. L : i > k => m.seq < q[i].seq
  <2>1. ASSUME NEW i \in 1 .. L, i > k PROVE ~(q[i].seq <= m.seq)
    <3>1. i \notin C
      BY <1>5, <2>1
    <3> QED
      BY <1>3, <3>1
  <2> QED
    BY <1>2, <2>1
<1>11. ASSUME NEW i \in 1 .. L + 1
       PROVE  r[i] = m \/ \E j \in 1 .. L : r[i] = q[j]
  <2>1. CASE i <= k
    BY <1>2, <1>5, <1>7, <2>1
  <2>2. CASE i = k + 1
    BY <1>2, <1>5, <1>7, <2>2
  <2>3. CASE i > k + 1
    <3>1. i - 1 \in 1 .. L /\ r[i] = q[i - 1]
      BY <1>2, <1>5, <1>7, <2>3
    <3> QED
      BY <3>1
  <2> QED
    BY <1>2, <1>5, <2>1, <2>2, <2>3
<1>12. ASSUME NEW i \in 1 .. L + 1, NEW j \in 1 .. L + 1, i < j
       PROVE  r[i].seq < r[j].seq
  <2>0. \A a, b \in 1 .. L : a < b => q[a].seq < q[b].seq
    BY <1>2 DEF Ascends
  <2>1. CASE j <= k
    <3>1. r[i] = q[i] /\ r[j] = q[j] /\ i \in 1 .. L /\ j \in 1 .. L
      BY <1>2, <1>5, <1>7, <1>12, <2>1
    <3> QED
      BY <1>12, <2>0, <3>1
  <2>2. CASE j = k + 1
    <3>1. r[i] = q[i] /\ r[j] = m /\ i \in 1 .. k
      BY <1>2, <1>5, <1>7, <1>12, <2>2
    <3> QED
      BY <1>9, <3>1
  <2>3. CASE j > k + 1 /\ i <= k
    <3>1. r[i] = q[i] /\ r[j] = q[j - 1] /\ i \in 1 .. L /\ j - 1 \in 1 .. L /\ i < j - 1
      BY <1>2, <1>5, <1>7, <1>12, <2>3
    <3> QED
      BY <2>0, <3>1
  <2>4. CASE j > k + 1 /\ i = k + 1
    <3>1. r[i] = m /\ r[j] = q[j - 1] /\ j - 1 \in 1 .. L /\ j - 1 > k
      BY <1>2, <1>5, <1>7, <1>12, <2>4
    <3> QED
      BY <1>10, <3>1
  <2>5. CASE j > k + 1 /\ i > k + 1
    <3>1. r[i] = q[i - 1] /\ r[j] = q[j - 1] /\ i - 1 \in 1 .. L /\ j - 1 \in 1 .. L /\ i - 1 < j - 1
      BY <1>2, <1>5, <1>7, <1>12, <2>5
    <3> QED
      BY <2>0, <3>1
  <2> QED
    BY <1>2, <1>5, <2>1, <2>2, <2>3, <2>4, <2>5
<1>13. Ascends(r) /\ \A i \in DOMAIN r : r[i] = m \/ \E j \in DOMAIN q : r[i] = q[j]
  BY <1>2, <1>8, <1>11, <1>12 DEF Ascends
<1> QED
  BY <1>6, <1>13

(* A batch that is not committed at a node has a number of its own there. *)
LEMMA Fresh ==
  ASSUME NodesAssumption,
         SendsDistinct, Core, NEW n \in Up, NEW d \in prepareState[n], d \notin commitState[n],
         NEW p \in Up, NEW s \in Int, Proposed(p, s, d),
         NEW e \in commitState[n], NEW q \in Up, NEW r \in Int, Proposed(q, r, e)
  PROVE  r # s
<1>1. e \in prepareState[n]
  BY DEF Core, CommitsCounted
<1>2. r = s => d = e
  BY <1>1, PreparedAreOne
<1> QED
  BY <1>2

EntryTrue(n, e) ==
  /\ e.seq \in prePrepareSet[n]
  /\ e.digest \in commitState[n]
  /\ \E p \in Up : Proposed(p, e.seq, e.digest)

NodeQueue(n) ==
  /\ \A i \in DOMAIN executeQueue[n] :
       executeQueue[n][i].seq > lastSequence[n] /\ EntryTrue(n, executeQueue[n][i])
  /\ Ascends(executeQueue[n])

(* An entry of the queue stays what it says. *)
LEMMA EntryStays ==
  ASSUME Grows, NEW n \in Up, NEW e \in Entry, EntryTrue(n, e)
  PROVE  EntryTrue(n, e)'
<1>1. PICK p \in Up : Proposed(p, e.seq, e.digest)
  BY DEF EntryTrue
<1>2. PICK s \in {e.seq}, d \in {e.digest} : TRUE
  OBVIOUS
<1>3. Proposed(p, s, d)'
  BY <1>1, <1>2, ProposedStays
<1>4. s \in prePrepareSet'[n] /\ d \in commitState'[n]
  BY <1>2 DEF EntryTrue, Grows
<1> QED
  BY <1>2, <1>3, <1>4 DEF EntryTrue

(* commit.go:7: what is new in the queue has a number after the last one     *)
(* executed, and of no other entry.                                         *)
LEMMA QuorumIsNew ==
  ASSUME NodesAssumption,
         SendsDistinct, Core, QueueInOrder, ExecutedInOrder, NEW m \in net, commitRecv(m),
         CommitQuorum(m)
  PROVE  /\ m.seq > lastSequence[m.to]
         /\ \A i \in DOMAIN executeQueue[m.to] : executeQueue[m.to][i].seq # m.seq
         /\ EntryTrue(m.to, Executable(m))'
<1>0. TypeOK
  BY DEF Core, Truth
<1>1. PICK n \in {m.to}, s \in {m.seq}, d \in {m.digest} : TRUE
  OBVIOUS
<1>2. n \in Up /\ s \in Nat
  BY <1>0, <1>1, CommitCases
<1>3. PICK p \in Up : Proposed(p, s, d)
  BY <1>1 DEF Core, Truth, MessagesTrue
<1>4. /\ s >= lastSequence[n] /\ s \in prePrepareSet[n]
      /\ d \in prepareState[n] /\ d \notin commitState[n]
  BY <1>1 DEF CommitQuorum, CheckBound, IsReadyToExecute
<1>5. s # lastSequence[n]
  <2>1. SUFFICES ASSUME s = lastSequence[n] PROVE FALSE
    OBVIOUS
  <2>2. executed[n] \in Seq(Batch) /\ Len(executed[n]) = s + 1
    BY <1>0, <1>2, <2>1 DEF TypeOK, ExecutedInOrder
  <2>3. s + 1 \in DOMAIN executed[n]
    BY <1>2, <2>2, LenProperties
  <2>4. PICK e \in {executed[n][s + 1]} : TRUE
    OBVIOUS
  <2>5. e \in commitState[n] /\ \E q \in Up : Proposed(q, (s + 1) - 1, e)
    BY <1>2, <2>3, <2>4 DEF ExecutedInOrder
  <2>6. PICK q \in Up : Proposed(q, s, e)
    BY <1>2, <2>5
  <2> QED
    BY <1>2, <1>3, <1>4, <2>5, <2>6, Fresh
<1>6. ASSUME NEW i \in DOMAIN executeQueue[n] PROVE executeQueue[n][i].seq # s
  <2>1. PICK r \in {executeQueue[n][i].seq}, e \in {executeQueue[n][i].digest} : TRUE
    OBVIOUS
  <2>2. r \in Nat
    <3>1. executeQueue[n] \in Seq(Entry) /\ i \in 1 .. Len(executeQueue[n])
      BY <1>0, <1>2, <1>6, QueueType, LenProperties
    <3> QED
      BY <1>0, <1>2, <2>1, <3>1, QueueType
  <2>3. e \in commitState[n] /\ \E q \in Up : Proposed(q, r, e)
    BY <1>2, <1>6, <2>1 DEF QueueInOrder
  <2>4. PICK q \in Up : Proposed(q, r, e)
    BY <2>3
  <2> QED
    BY <1>2, <1>3, <1>4, <2>1, <2>2, <2>3, <2>4, Fresh
<1>7. EntryTrue(n, [seq |-> s, digest |-> d])'
  <2>1. Proposed(p, s, d)'
    BY <1>0, <1>1, <1>3, CommitCases DEF Proposed
  <2>2. s \in prePrepareSet'[n] /\ d \in commitState'[n]
    <3>1. commitState' = [commitState EXCEPT ![n] = @ \cup {d}]
      BY Zenon, <1>1 DEF CommitQuorum
    <3>2. prePrepareSet' = prePrepareSet
      BY <1>0, CommitCases
    <3> QED
      BY <1>0, <1>2, <1>4, <3>1, <3>2 DEF TypeOK
  <2> QED
    BY <2>1, <2>2 DEF EntryTrue
<1>8. s > lastSequence[n]
  BY <1>0, <1>2, <1>4, <1>5, QueueType
<1> QED
  BY <1>1, <1>6, <1>7, <1>8 DEF Executable

(* commit.go:7: a quorum's batch goes to its place in the queue. *)
LEMMA QuorumQueue ==
  ASSUME NodesAssumption,
         SendsDistinct, Core, QueueInOrder, ExecutedInOrder, NEW m \in net, commitRecv(m),
         CommitQuorum(m), Grows
  PROVE  NodeQueue(m.to)'
<1>0. TypeOK
  BY DEF Core, Truth
<1>1. PICK n \in {m.to}, e \in {Executable(m)} : TRUE
  OBVIOUS
<1>2. n \in Up /\ e \in Entry /\ e.seq = m.seq
  BY <1>0, <1>1, CommitCases DEF Executable, Entry
<1>3. PICK q \in {executeQueue[n]}, r \in {AppendToExecuteQueue(executeQueue[n], e)} : TRUE
  OBVIOUS
<1>4. q \in Seq(Entry) /\ r \in Seq(Entry)
  BY <1>0, <1>2, <1>3, QueueType, InsertedType
<1>5. executeQueue'[n] = r
  BY <1>0, <1>1, <1>2, <1>3 DEF CommitQuorum, TypeOK
<1>6. lastSequence'[n] = lastSequence[n]
  BY <1>0, CommitCases
<1>7. \A i \in DOMAIN q : q[i].seq > lastSequence[n] /\ EntryTrue(n, q[i]) /\ q[i].seq # e.seq
  <2>1. \A i \in DOMAIN q : q[i].seq > lastSequence[n] /\ EntryTrue(n, q[i])
    BY <1>2, <1>3 DEF QueueInOrder, EntryTrue
  <2>2. \A i \in DOMAIN q : q[i].seq # e.seq
    BY <1>1, <1>2, <1>3, QuorumIsNew
  <2> QED
    BY <2>1, <2>2
<1>8. Ascends(q)
  BY <1>2, <1>3 DEF QueueInOrder, Ascends
<1>9. Ascends(r) /\ \A i \in DOMAIN r : r[i] = e \/ \E j \in DOMAIN q : r[i] = q[j]
  BY <1>2, <1>3, <1>4, <1>7, <1>8, InsertedInOrder
<1>10. e.seq > lastSequence[n] /\ EntryTrue(n, e)'
  <2>1. EntryTrue(m.to, Executable(m))' /\ m.seq > lastSequence[m.to]
    BY QuorumIsNew
  <2> QED
    BY <1>1, <1>2, <2>1
<1>11. ASSUME NEW j \in DOMAIN q PROVE EntryTrue(n, q[j])'
  <2>1. PICK x \in {q[j]} : TRUE
    OBVIOUS
  <2>2. x \in Entry
    BY <1>4, <2>1, LenProperties, ElementOfSeq
  <2>3. EntryTrue(n, x)
    BY <1>7, <2>1
  <2>4. EntryTrue(n, x)'
    BY <1>2, <2>2, <2>3, EntryStays
  <2> QED
    BY <2>1, <2>4
<1>12. ASSUME NEW i \in DOMAIN r PROVE r[i].seq > lastSequence[n] /\ EntryTrue(n, r[i])'
  <2>1. CASE r[i] = e
    BY <1>10, <2>1
  <2>2. CASE \E j \in DOMAIN q : r[i] = q[j]
    BY <1>7, <1>11, <2>2
  <2> QED
    BY <1>9, <2>1, <2>2
<1>13. NodeQueue(n)'
  BY <1>5, <1>6, <1>9, <1>12 DEF NodeQueue
<1> QED
  BY <1>1, <1>13

PartOf(r, q) == \A i \in DOMAIN r : \E j \in DOMAIN q : r[i] = q[j]

After(q, x) == \A i \in DOMAIN q : q[i].seq > x

TurnOf(q, last, k) ==
  /\ \A i \in 1 .. k : q[i].seq = last + i
  /\ k < Len(q) => q[k + 1].seq # last + k + 1

(* The next number but one. *)
LEMMA OneFurther == \A x \in Nat, y \in Int : x > y /\ x # y + 1 => x > y + 1
OBVIOUS

(* buffer.go, BatchExecute: what is left of the queue is after the next      *)
(* number.                                                                  *)
LEMMA LeftOver ==
  ASSUME NEW q \in Seq(Entry), NEW last \in Int, NEW k \in 0 .. Len(q), Ascends(q),
         After(q, last), TurnOf(q, last, k), NEW r, r = SubSeq(q, k + 1, Len(q))
  PROVE  Ascends(r) /\ After(r, last + k + 1) /\ PartOf(r, q)
<1>0. /\ Len(q) \in Nat /\ DOMAIN q = 1 .. Len(q) /\ k \in Nat /\ k <= Len(q)
      /\ \A i \in 1 .. Len(q) : q[i] \in Entry
  BY LenProperties, ElementOfSeq
<1>1. \A i \in 1 .. Len(q) : q[i].seq \in Nat
  BY <1>0 DEF Entry
<1>2. /\ DOMAIN r = 1 .. Len(q) - k
      /\ \A i \in 1 .. Len(q) - k : r[i] = q[k + i] /\ k + i \in 1 .. Len(q)
  <2>2. Len(r) = Len(q) - k /\ \A i \in 1 .. Len(q) - k : r[i] = q[k + i]
    BY Rest
  <2>3. DOMAIN r = 1 .. Len(r)
    BY Rest, LenProperties
  <2>4. \A i \in 1 .. Len(q) - k : k + i \in 1 .. Len(q)
    BY <1>0
  <2> QED
    BY <2>2, <2>3, <2>4
<1>3. ASSUME k < Len(q) PROVE q[k + 1].seq > last + k + 1
  <2>1. q[k + 1].seq > last + k
    <3>1. CASE k = 0
      BY <1>0, <1>1, <1>3, <3>1 DEF After
    <3>2. CASE k > 0
      <4>1. q[k].seq = last + k /\ k \in DOMAIN q /\ k + 1 \in DOMAIN q /\ k < k + 1
        BY <1>0, <1>3, <3>2 DEF TurnOf
      <4>2. q[k].seq < q[k + 1].seq
        BY <4>1 DEF Ascends
      <4> QED
        BY <4>1, <4>2
    <3> QED
      BY <1>0, <3>1, <3>2
  <2>2. q[k + 1].seq \in Nat /\ q[k + 1].seq # last + k + 1
    BY <1>0, <1>1, <1>3 DEF TurnOf
  <2>3. last + k \in Int
    BY <1>0
  <2> QED
    BY <2>1, <2>2, <2>3, OneFurther
<1>4. ASSUME NEW i \in DOMAIN r PROVE r[i].seq > last + k + 1
  <2>1. r[i] = q[k + i] /\ k + i \in 1 .. Len(q) /\ i \in 1 .. Len(q) - k /\ k < Len(q)
    BY SMTT(30), <1>0, <1>2
  <2>2. CASE i = 1
    BY <1>3, <2>1, <2>2
  <2>3. CASE i > 1
    <3>0. k + 1 \in DOMAIN q /\ k + i \in DOMAIN q /\ k + 1 < k + i
      BY <1>0, <2>1, <2>3
    <3>1. q[k + 1].seq < q[k + i].seq
      BY <3>0 DEF Ascends
    <3>2. k + 1 \in 1 .. Len(q)
      BY <1>0, <2>1
    <3> QED
      BY SMTT(30), <1>0, <1>1, <1>3, <2>1, <3>1, <3>2
  <2> QED
    BY <2>1, <2>2, <2>3
<1>5. Ascends(r)
  <2> SUFFICES ASSUME NEW i \in DOMAIN r, NEW j \in DOMAIN r, i < j PROVE r[i].seq < r[j].seq
    BY DEF Ascends
  <2>1. r[i] = q[k + i] /\ r[j] = q[k + j] /\ k + i \in DOMAIN q /\ k + j \in DOMAIN q /\ k + i < k + j
    <3>1. ASSUME NEW x \in DOMAIN r PROVE x \in Nat /\ r[x] = q[k + x] /\ k + x \in DOMAIN q
      BY <1>0, <1>2
    <3>2. i \in Nat /\ j \in Nat
      BY <3>1
    <3> QED
      BY <1>0, <3>1, <3>2
  <2> QED
    BY <2>1 DEF Ascends
<1> QED
  BY <1>0, <1>2, <1>4, <1>5 DEF After, PartOf

(* reply.go:9: what is left of the queue after a turn. *)
LEMMA TurnQueue ==
  ASSUME TypeOK, QueueInOrder, Grows, NEW n \in Up, NEW k \in 0 .. Len(executeQueue[n]), NEW ds,
         Turn(n, k, ds)
  PROVE  /\ NodeQueue(n)'
         /\ After(executeQueue'[n], lastSequence'[n] + 1)
<1>1. PICK q \in {executeQueue[n]}, last \in {lastSequence[n]} : TRUE
  OBVIOUS
<1>2. PICK r : r = SubSeq(q, k + 1, Len(q))
  OBVIOUS
<1>3. q \in Seq(Entry) /\ last \in Int /\ k \in Nat /\ Len(q) \in Nat
  BY <1>1, QueueType
<1>4. executeQueue'[n] = r /\ lastSequence'[n] = last + k
  BY <1>1, <1>2 DEF Turn, TypeOK
<1>5. /\ Ascends(q) /\ \A i \in DOMAIN q : q[i].seq > last /\ EntryTrue(n, q[i])
  BY <1>1 DEF QueueInOrder, Ascends, EntryTrue
<1>6. TurnOf(q, last, k) /\ k \in 0 .. Len(q)
  BY <1>1 DEF Turn, TurnOf
<1>7. After(q, last)
  BY <1>5 DEF After
<1>9. Ascends(r) /\ After(r, last + k + 1) /\ PartOf(r, q)
  BY <1>2, <1>3, <1>5, <1>6, <1>7, LeftOver
<1>8. ASSUME NEW i \in DOMAIN r PROVE r[i].seq > last + k /\ EntryTrue(n, r[i])'
  <2>1. PICK j \in DOMAIN q : r[i] = q[j]
    BY <1>9 DEF PartOf
  <2>2. PICK x \in {q[j]} : TRUE
    OBVIOUS
  <2>3. x \in Entry
    BY <1>3, <2>2, LenProperties, ElementOfSeq
  <2>4. EntryTrue(n, x)'
    BY <1>5, <2>2, <2>3, EntryStays
  <2>5. r[i].seq \in Nat
    BY <2>1, <2>2, <2>3 DEF Entry
  <2>6. r[i].seq > last + k
    BY <1>3, <1>9, <2>5 DEF After
  <2> QED
    BY <2>1, <2>2, <2>4, <2>6
<1> QED
  BY <1>4, <1>8, <1>9 DEF NodeQueue

(* No step leaves a queue out of order. *)
LEMMA QueueStep ==
  ASSUME NodesAssumption, SendsDistinct, Core, QueueInOrder, ExecutedInOrder, [Next]_vars
  PROVE  QueueInOrder'
<1>0. TypeOK
  BY DEF Core, Truth
<1>1. Grows
  BY <1>0, StepGrows
<1>2. ASSUME NEW n \in Up, executeQueue'[n] = executeQueue[n], lastSequence'[n] = lastSequence[n]
      PROVE  NodeQueue(n)'
  <2>1. PICK q \in {executeQueue[n]} : TRUE
    OBVIOUS
  <2>2. q \in Seq(Entry)
    BY <1>0, <2>1, QueueType
  <2>3. \A i \in DOMAIN q : q[i].seq > lastSequence[n] /\ EntryTrue(n, q[i])
    BY <2>1 DEF QueueInOrder, EntryTrue
  <2>4. ASSUME NEW i \in DOMAIN q PROVE EntryTrue(n, q[i])'
    <3>1. PICK e \in {q[i]} : TRUE
      OBVIOUS
    <3>2. e \in Entry /\ EntryTrue(n, e)
      BY <2>2, <2>3, <3>1, LenProperties, ElementOfSeq
    <3>3. EntryTrue(n, e)'
      BY <1>1, <3>2, EntryStays
    <3> QED
      BY <3>1, <3>3
  <2>5. Ascends(q)
    BY <2>1 DEF QueueInOrder, Ascends
  <2> QED
    BY <1>2, <2>1, <2>3, <2>4, <2>5 DEF NodeQueue
<1>3. SUFFICES \A n \in Up : NodeQueue(n)'
  BY DEF NodeQueue, QueueInOrder, EntryTrue, Ascends
<1>4. ASSUME executeQueue' = executeQueue, lastSequence' = lastSequence
      PROVE  \A n \in Up : NodeQueue(n)'
  BY <1>2, <1>4
<1>5. ASSUME NEW m \in net, commitRecv(m) PROVE \A n \in Up : NodeQueue(n)'
  <2>1. /\ executeQueue' = executeQueue \/ CommitQuorum(m)
        /\ lastSequence' = lastSequence
    BY <1>0, <1>5, CommitCases
  <2>2. CASE CommitQuorum(m)
    <3>1. NodeQueue(m.to)'
      BY <1>1, <1>5, <2>2, QuorumQueue
    <3>2. \A n \in Up : n # m.to => executeQueue'[n] = executeQueue[n]
      BY <1>0, <2>2 DEF CommitQuorum, TypeOK
    <3> QED
      BY <1>2, <2>1, <3>1, <3>2
  <2> QED
    BY <1>4, <2>1, <2>2
<1>6. ASSUME NEW o \in Up, executeAndReply(o) PROVE \A n \in Up : NodeQueue(n)'
  <2>1. PICK k \in 0 .. Len(executeQueue[o]), ds \in Seq(Batch) : Turn(o, k, ds)
    BY <1>0, <1>6, Executes
  <2>2. NodeQueue(o)'
    BY <1>0, <1>1, <2>1, TurnQueue
  <2>3. \A n \in Up : n # o => executeQueue'[n] = executeQueue[n] /\ lastSequence'[n] = lastSequence[n]
    BY <1>0, <2>1 DEF Turn, TypeOK
  <2> QED
    BY <1>2, <2>2, <2>3
<1>7. CASE UNCHANGED vars
  BY <1>4, <1>7 DEF vars, buffers
<1>8. ASSUME NEW c \in Sends, requestRecv(c) PROVE \A n \in Up : NodeQueue(n)'
  BY <1>4, <1>8 DEF requestRecv
<1>9. ASSUME NEW o \in Up, prePrepareSend(o) \/ prePrepareRecv(o) PROVE \A n \in Up : NodeQueue(n)'
  BY <1>4, <1>9 DEF prePrepareSend, prePrepareRecv
<1>10. ASSUME NEW m \in net, checkPrePrepare(m) PROVE \A n \in Up : NodeQueue(n)'
  BY <1>4, <1>10 DEF checkPrePrepare, buffers
<1>11. ASSUME NEW m \in net, prepareRecv(m) PROVE \A n \in Up : NodeQueue(n)'
  BY <1>4, <1>11 DEF prepareRecv
<1> QED
  BY <1>5, <1>6, <1>7, <1>8, <1>9, <1>10, <1>11 DEF Next

(* reply.go:9: the executing goroutine leaves nothing that is due. *)
LEMMA DueStep ==
  ASSUME TypeOK, QueueInOrder, NothingDueLeft, [Next]_vars
  PROVE  NothingDueLeft'
<1>0. Grows
  BY StepGrows
<1>1. ASSUME NEW n \in Up, executeQueue'[n] = executeQueue[n], lastSequence'[n] = lastSequence[n],
             notified'[n] = notified[n], stuck'[n] = stuck[n], ~notified'[n], ~stuck'[n]
      PROVE  After(executeQueue'[n], lastSequence'[n] + 1)
  BY <1>1 DEF NothingDueLeft, After
<1>2. SUFFICES ASSUME NEW n \in Up, ~notified'[n], ~stuck'[n]
               PROVE  After(executeQueue'[n], lastSequence'[n] + 1)
  BY DEF NothingDueLeft, After
<1>3. ASSUME UNCHANGED <<executeQueue, lastSequence, notified, stuck>>
      PROVE  After(executeQueue'[n], lastSequence'[n] + 1)
  BY <1>1, <1>2, <1>3
<1>4. ASSUME NEW m \in net, commitRecv(m)
      PROVE  After(executeQueue'[n], lastSequence'[n] + 1)
  <2>1. /\ UNCHANGED <<executeQueue, notified>> \/ CommitQuorum(m)
        /\ UNCHANGED <<lastSequence, stuck>>
        /\ m.to \in Up
    BY <1>4, CommitCases
  <2>2. CASE CommitQuorum(m)
    <3>1. notified'[m.to] = TRUE
      BY <2>1, <2>2 DEF CommitQuorum, TypeOK
    <3>2. n # m.to
      BY <1>2, <3>1
    <3>3. executeQueue'[n] = executeQueue[n] /\ notified'[n] = notified[n]
      BY <2>2, <3>2 DEF CommitQuorum, TypeOK
    <3> QED
      BY <1>1, <1>2, <2>1, <3>3
  <2> QED
    BY <1>3, <2>1, <2>2
<1>5. ASSUME NEW o \in Up, executeAndReply(o)
      PROVE  After(executeQueue'[n], lastSequence'[n] + 1)
  <2>1. PICK k \in 0 .. Len(executeQueue[o]), ds \in Seq(Batch) : Turn(o, k, ds)
    BY <1>5, Executes
  <2>2. CASE n = o
    BY <1>0, <2>1, <2>2, TurnQueue
  <2>3. CASE n # o
    <3>1. /\ executeQueue'[n] = executeQueue[n] /\ lastSequence'[n] = lastSequence[n]
          /\ notified'[n] = notified[n] /\ stuck'[n] = stuck[n]
      BY <1>5, <2>1, <2>3 DEF Turn, TypeOK, executeAndReply
    <3> QED
      BY <1>1, <1>2, <3>1
  <2> QED
    BY <2>2, <2>3
<1>6. CASE UNCHANGED vars
  BY <1>3, <1>6 DEF vars, buffers
<1>7. ASSUME NEW c \in Sends, requestRecv(c)
      PROVE  After(executeQueue'[n], lastSequence'[n] + 1)
  BY <1>3, <1>7 DEF requestRecv
<1>8. ASSUME NEW o \in Up, prePrepareSend(o) \/ prePrepareRecv(o)
      PROVE  After(executeQueue'[n], lastSequence'[n] + 1)
  BY <1>3, <1>8 DEF prePrepareSend, prePrepareRecv
<1>9. ASSUME NEW m \in net, checkPrePrepare(m) \/ prepareRecv(m)
      PROVE  After(executeQueue'[n], lastSequence'[n] + 1)
  BY <1>3, <1>9 DEF checkPrePrepare, prepareRecv, buffers
<1> QED
  BY <1>4, <1>5, <1>6, <1>7, <1>8, <1>9 DEF Next

-----------------------------------------------------------------------------
(* What was executed. *)

DoneTrue(n, s, d) == d \in commitState[n] /\ \E p \in Up : Proposed(p, s, d)

NodeExecuted(n) ==
  /\ Len(executed[n]) = lastSequence[n] + 1
  /\ \A i \in DOMAIN executed[n] : DoneTrue(n, i - 1, executed[n][i])

(* What was executed stays so. *)
LEMMA DoneStays ==
  ASSUME Grows, NEW n \in Up, NEW s, NEW d, DoneTrue(n, s, d)
  PROVE  DoneTrue(n, s, d)'
<1>1. PICK p \in Up : Proposed(p, s, d)
  BY DEF DoneTrue
<1>2. Proposed(p, s, d)'
  BY <1>1, ProposedStays
<1> QED
  BY <1>2 DEF DoneTrue, Grows

(* reply.go:9: a turn executes the batches of the next numbers. *)
LEMMA TurnExecutes ==
  ASSUME TypeOK, QueueInOrder, ExecutedInOrder, Grows, NEW n \in Up,
         NEW k \in 0 .. Len(executeQueue[n]), NEW ds \in Seq(Batch), Turn(n, k, ds)
  PROVE  NodeExecuted(n)'
<1>1. PICK q \in {executeQueue[n]}, last \in {lastSequence[n]}, x \in {executed[n]} : TRUE
  OBVIOUS
<1>2. PICK r : r = x \o ds
  OBVIOUS
<1>3. /\ q \in Seq(Entry) /\ DOMAIN q = 1 .. Len(q) /\ Len(q) \in Nat /\ k \in Nat /\ k <= Len(q)
      /\ last \in Int
  BY <1>1, QueueType, LenProperties
<1>4. x \in Seq(Batch) /\ Len(x) \in Nat /\ DOMAIN x = 1 .. Len(x) /\ Len(x) = last + 1
  BY <1>1, LenProperties DEF TypeOK, ExecutedInOrder
<1>5. executed'[n] = r /\ lastSequence'[n] = last + k
  BY <1>1, <1>2 DEF Turn, TypeOK
<1>6. Len(ds) = k /\ \A i \in 1 .. k : ds[i] = q[i].digest /\ q[i].seq = last + i
  BY <1>1 DEF Turn
<1>7. r \in Seq(Batch) /\ Len(r) = Len(x) + Len(ds)
  BY <1>2, <1>4, ConcatProperties
<1>8. \A i \in 1 .. Len(x) + Len(ds) : r[i] = IF i <= Len(x) THEN x[i] ELSE ds[i - Len(x)]
  BY <1>2, <1>4, ConcatProperties
<1>9. DOMAIN r = 1 .. Len(x) + k /\ Len(r) = last + k + 1
  BY <1>3, <1>4, <1>6, <1>7, LenProperties
<1>10. ASSUME NEW i \in DOMAIN r PROVE DoneTrue(n, i - 1, r[i])'
  <2>1. i \in 1 .. Len(x) + k
    BY <1>9
  <2>2. CASE i <= Len(x)
    <3>1. PICK d \in {x[i]}, s \in {i - 1} : TRUE
      OBVIOUS
    <3>2. r[i] = d
      BY <1>6, <1>8, <2>1, <2>2, <3>1
    <3>3. DoneTrue(n, s, d)
      <4>1. i \in DOMAIN x
        BY <1>4, <2>1, <2>2
      <4> QED
        BY <1>1, <3>1, <4>1 DEF ExecutedInOrder, DoneTrue
    <3>4. DoneTrue(n, s, d)'
      BY <3>3, DoneStays
    <3> QED
      BY <3>1, <3>2, <3>4
  <2>3. CASE i > Len(x)
    <3>0. i \in Int /\ Len(x) \in Int /\ i > Len(x) /\ i <= Len(x) + k /\ Len(x) = last + 1
      BY <1>3, <1>4, <2>1, <2>3
    <3>1. PICK j : j = i - Len(x)
      OBVIOUS
    <3>2. j \in 1 .. k /\ last + j = i - 1 /\ j \in DOMAIN q
      <4>1. j \in 1 .. k
        BY <1>3, <3>0, <3>1
      <4>2. last + j = i - 1
        BY <1>3, <3>0, <3>1
      <4> QED
        BY <1>3, <4>1, <4>2
    <3>3. r[i] = ds[j]
      BY <1>4, <1>6, <1>8, <2>1, <2>3, <3>1
    <3>4. PICK d \in {q[j].digest}, s \in {q[j].seq} : TRUE
      OBVIOUS
    <3>5. r[i] = d /\ s = i - 1
      BY <1>6, <3>2, <3>3, <3>4
    <3>6. DoneTrue(n, s, d)
      BY <1>1, <3>2, <3>4 DEF QueueInOrder, DoneTrue
    <3>7. DoneTrue(n, s, d)'
      BY <3>6, DoneStays
    <3> QED
      BY <3>5, <3>7
  <2> QED
    BY <1>4, <2>1, <2>2, <2>3
<1> QED
  BY <1>5, <1>9, <1>10 DEF NodeExecuted

(* What is executed is committed at its number, and the numbers have no gap. *)
LEMMA ExecutedStep ==
  ASSUME TypeOK, QueueInOrder, ExecutedInOrder, [Next]_vars
  PROVE  ExecutedInOrder'
<1>0. Grows
  BY StepGrows
<1>1. ASSUME NEW n \in Up, executed'[n] = executed[n], lastSequence'[n] = lastSequence[n]
      PROVE  NodeExecuted(n)'
  <2>1. PICK x \in {executed[n]} : TRUE
    OBVIOUS
  <2>2. ASSUME NEW i \in DOMAIN x PROVE DoneTrue(n, i - 1, x[i])'
    <3>1. PICK d \in {x[i]}, s \in {i - 1} : TRUE
      OBVIOUS
    <3>2. DoneTrue(n, s, d)
      BY <2>1, <3>1 DEF ExecutedInOrder, DoneTrue
    <3>3. DoneTrue(n, s, d)'
      BY <1>0, <3>2, DoneStays
    <3> QED
      BY <3>1, <3>3
  <2> QED
    BY <1>1, <2>1, <2>2 DEF ExecutedInOrder, NodeExecuted
<1>2. SUFFICES \A n \in Up : NodeExecuted(n)'
  BY DEF NodeExecuted, ExecutedInOrder, DoneTrue
<1>3. ASSUME executed' = executed, lastSequence' = lastSequence PROVE \A n \in Up : NodeExecuted(n)'
  BY <1>1, <1>3
<1>4. ASSUME NEW o \in Up, executeAndReply(o) PROVE \A n \in Up : NodeExecuted(n)'
  <2>1. PICK k \in 0 .. Len(executeQueue[o]), ds \in Seq(Batch) : Turn(o, k, ds)
    BY <1>4, Executes
  <2>2. NodeExecuted(o)'
    BY <1>0, <2>1, TurnExecutes
  <2>3. \A n \in Up : n # o => executed'[n] = executed[n] /\ lastSequence'[n] = lastSequence[n]
    BY <2>1 DEF Turn, TypeOK
  <2> QED
    BY <1>1, <2>2, <2>3
<1>5. CASE UNCHANGED vars
  BY <1>3, <1>5 DEF vars
<1>6. ASSUME NEW c \in Sends, requestRecv(c) PROVE \A n \in Up : NodeExecuted(n)'
  BY <1>3, <1>6 DEF requestRecv
<1>7. ASSUME NEW o \in Up, prePrepareSend(o) \/ prePrepareRecv(o) PROVE \A n \in Up : NodeExecuted(n)'
  BY <1>3, <1>7 DEF prePrepareSend, prePrepareRecv
<1>8. ASSUME NEW m \in net, checkPrePrepare(m) \/ prepareRecv(m) \/ commitRecv(m)
      PROVE  \A n \in Up : NodeExecuted(n)'
  BY <1>3, <1>8 DEF checkPrePrepare, prepareRecv, commitRecv
<1> QED
  BY <1>4, <1>5, <1>6, <1>7, <1>8 DEF Next

AtHand(n, s) ==
  s <= lastSequence[n] \/ \E p \in Up : \E d \in prePrepareBuffer[n] : Proposed(p, s, d)

(* reply.go:9: a turn takes out of the buffer what it executes, and no other *)
(* number's batch.                                                          *)
LEMMA TurnTakesItsOwn ==
  ASSUME NodesAssumption, SendsDistinct, TypeOK, BatchesApart, QueueInOrder, Grows, NEW n \in Up,
         NEW k \in 0 .. Len(executeQueue[n]), NEW ds \in Seq(Batch), Turn(n, k, ds),
         NEW s \in Nat, AtHand(n, s)
  PROVE  AtHand(n, s)'
<1>1. PICK q \in {executeQueue[n]}, last \in {lastSequence[n]} : TRUE
  OBVIOUS
<1>2. /\ q \in Seq(Entry) /\ DOMAIN q = 1 .. Len(q) /\ Len(q) \in Nat /\ k \in Nat /\ k <= Len(q)
      /\ last \in Int
  BY <1>1, QueueType, LenProperties
<1>3. lastSequence'[n] = last + k
  BY <1>1 DEF Turn, TypeOK
<1>4. prePrepareBuffer'[n] = prePrepareBuffer[n] \ {ds[i] : i \in 1 .. k}
  BY DEF Turn, TypeOK
<1>5. CASE s <= last
  BY <1>2, <1>3, <1>5 DEF AtHand
<1>6. CASE ~(s <= last)
  <2>1. PICK p \in Up, d \in prePrepareBuffer[n] : Proposed(p, s, d)
    BY <1>1, <1>6 DEF AtHand
  <2>2. Proposed(p, s, d)'
    BY <2>1, ProposedStays
  <2>3. CASE d \in prePrepareBuffer'[n]
    BY <2>2, <2>3 DEF AtHand
  <2>4. CASE d \notin prePrepareBuffer'[n]
    <3>1. PICK i \in 1 .. k : d = ds[i]
      BY <1>4, <2>4
    <3>2. i \in DOMAIN q /\ d = q[i].digest /\ q[i].seq = last + i
      <4>1. i \in DOMAIN q
        BY <1>2
      <4>2. /\ ds[i] = executeQueue[n][i].digest
            /\ executeQueue[n][i].seq = lastSequence[n] + i
        BY Zenon DEF Turn
      <4> QED
        BY Zenon, <1>1, <3>1, <4>1, <4>2
    <3>3. PICK o \in Up : Proposed(o, q[i].seq, q[i].digest)
      BY <1>1, <3>2 DEF QueueInOrder
    <3>4. Proposed(o, last + i, d)
      BY <3>2, <3>3
    <3>5. last + i \in Int
      BY <1>2
    <3>6. s = last + i
      BY <2>1, <3>4, <3>5, BatchTells
    <3> QED
      BY <1>2, <1>3, <3>6 DEF AtHand
  <2> QED
    BY <2>3, <2>4
<1> QED
  BY <1>5, <1>6

(* preprepare.go: a number is taken together with its batch. *)
LEMMA HandStep ==
  ASSUME NodesAssumption,
         SendsDistinct, TypeOK, BatchesApart, CheckedTrue, QueueInOrder, BatchesAtHand, [Next]_vars
  PROVE  BatchesAtHand'
<1>0. Grows
  BY StepGrows
<1>1. ASSUME NEW n \in Up, NEW s \in prePrepareSet[n], lastSequence'[n] = lastSequence[n],
             prePrepareBuffer[n] \subseteq prePrepareBuffer'[n]
      PROVE  AtHand(n, s)'
  <2>1. CASE s <= lastSequence[n]
    BY <1>1, <2>1 DEF AtHand
  <2>2. CASE ~(s <= lastSequence[n])
    <3>1. PICK p \in Up, d \in prePrepareBuffer[n] : Proposed(p, s, d)
      BY <1>1, <2>2 DEF BatchesAtHand
    <3>2. Proposed(p, s, d)'
      BY <1>0, <3>1, ProposedStays
    <3> QED
      BY <1>1, <3>1, <3>2 DEF AtHand
  <2> QED
    BY <2>1, <2>2
<1>2. SUFFICES \A n \in Up : \A s \in prePrepareSet'[n] : AtHand(n, s)'
  BY DEF AtHand, BatchesAtHand
<1>3. ASSUME UNCHANGED <<prePrepareSet, prePrepareBuffer, lastSequence>>
      PROVE  \A n \in Up : \A s \in prePrepareSet'[n] : AtHand(n, s)'
  BY <1>1, <1>3
<1>4. ASSUME NEW n \in Up, prePrepareSend(n)
      PROVE  \A o \in Up : \A s \in prePrepareSet'[o] : AtHand(o, s)'
  <2>1. PICK t \in {sequence[n] + 1}, d \in {requestQueue[n]} : TRUE
    OBVIOUS
  <2>2. /\ prePrepareBuffer' = [prePrepareBuffer EXCEPT ![n] = @ \cup {d}]
        /\ prePrepareSet' = [prePrepareSet EXCEPT ![n] = @ \cup {t}]
        /\ proposed' = [proposed EXCEPT ![n] = Append(@, d)]
        /\ lastSequence' = lastSequence /\ d # << >>
    BY <1>4, <2>1 DEF prePrepareSend
  <2>3. Proposed(n, t, d)'
    <3>1. PICK x \in {proposed[n]} : TRUE
      OBVIOUS
    <3>2. x \in Seq(Batch) /\ d \in Batch
      BY ZenonT(30), <2>1, <2>2, <3>1, QueueIsBatch DEF TypeOK
    <3>3. /\ Len(x) + 1 \in DOMAIN Append(x, d) /\ Append(x, d)[Len(x) + 1] = d /\ Len(x) \in Nat
      BY <3>2, AppendKeeps
    <3>4. t + 1 = Len(x) + 1
      <4>1. sequence[n] = Len(x) - 1
        BY <3>1 DEF BatchesApart
      <4> QED
        BY <2>1, <3>3, <4>1
    <3>5. proposed'[n] = Append(x, d)
      BY <2>2, <3>1 DEF TypeOK
    <3> QED
      BY <3>3, <3>4, <3>5 DEF Proposed
  <2>4. AtHand(n, t)'
    BY <2>2, <2>3 DEF AtHand, TypeOK
  <2>5. \A o \in Up : \A s \in prePrepareSet'[o] : s \in prePrepareSet[o] \/ (o = n /\ s = t)
    BY <2>2 DEF TypeOK
  <2>6. \A o \in Up : prePrepareBuffer[o] \subseteq prePrepareBuffer'[o]
    BY <2>2 DEF TypeOK
  <2> QED
    BY <1>1, <2>2, <2>4, <2>5, <2>6
<1>5. ASSUME NEW n \in Up, prePrepareRecv(n)
      PROVE  \A o \in Up : \A s \in prePrepareSet'[o] : AtHand(o, s)'
  <2>1. PICK t \in {checked[n].seq}, d \in {checked[n].digest}, p \in {checked[n].from} : TRUE
    OBVIOUS
  <2>2. /\ prePrepareBuffer' = [prePrepareBuffer EXCEPT ![n] = @ \cup {d}]
        /\ prePrepareSet' = [prePrepareSet EXCEPT ![n] = @ \cup {t}]
        /\ lastSequence' = lastSequence /\ checked[n] # NoMsg
    BY <1>5, <2>1 DEF prePrepareRecv
  <2>3. p \in Up /\ Proposed(p, t, d)
    <3>1. checked[n] \in Message
      BY <2>2 DEF TypeOK
    <3>2. p \in Up
      BY <2>1, <3>1, Fields
    <3> QED
      BY <2>1, <2>2, <3>2 DEF CheckedTrue
  <2>4. Proposed(p, t, d)'
    BY <1>0, <2>3, ProposedStays
  <2>7. AtHand(n, t)'
    BY <2>2, <2>3, <2>4 DEF AtHand, TypeOK
  <2>5. \A o \in Up : \A s \in prePrepareSet'[o] : s \in prePrepareSet[o] \/ (o = n /\ s = t)
    BY <2>2 DEF TypeOK
  <2>6. \A o \in Up : prePrepareBuffer[o] \subseteq prePrepareBuffer'[o]
    BY <2>2 DEF TypeOK
  <2> QED
    BY <1>1, <2>2, <2>5, <2>6, <2>7
<1>6. ASSUME NEW o \in Up, executeAndReply(o)
      PROVE  \A n \in Up : \A s \in prePrepareSet'[n] : AtHand(n, s)'
  <2>1. PICK k \in 0 .. Len(executeQueue[o]), ds \in Seq(Batch) : Turn(o, k, ds)
    BY <1>6, Executes
  <2>2. prePrepareSet' = prePrepareSet
    BY <1>6 DEF executeAndReply
  <2>3. \A s \in prePrepareSet[o] : s \in Nat /\ AtHand(o, s)
    BY DEF TypeOK, BatchesAtHand, AtHand
  <2>4. \A s \in prePrepareSet[o] : AtHand(o, s)'
    BY <1>0, <2>1, <2>3, TurnTakesItsOwn
  <2>5. \A n \in Up : n # o => /\ prePrepareBuffer[n] \subseteq prePrepareBuffer'[n]
                               /\ lastSequence'[n] = lastSequence[n]
    BY <2>1 DEF Turn, TypeOK
  <2> QED
    BY <1>1, <2>2, <2>4, <2>5
<1>7. CASE UNCHANGED vars
  BY <1>3, <1>7 DEF vars, buffers
<1>8. ASSUME NEW c \in Sends, requestRecv(c)
      PROVE  \A n \in Up : \A s \in prePrepareSet'[n] : AtHand(n, s)'
  BY <1>3, <1>8 DEF requestRecv
<1>9. ASSUME NEW m \in net, checkPrePrepare(m) \/ prepareRecv(m) \/ commitRecv(m)
      PROVE  \A n \in Up : \A s \in prePrepareSet'[n] : AtHand(n, s)'
  BY <1>3, <1>9 DEF checkPrePrepare, prepareRecv, commitRecv, buffers
<1> QED
  BY <1>4, <1>5, <1>6, <1>7, <1>8, <1>9 DEF Next

-----------------------------------------------------------------------------
(* The invariant. *)

(* The nodes start with empty buffers. *)
LEMMA StartInv ==
  ASSUME Init
  PROVE  ThreadInv
<1>1. TypeOK
  BY DEF Init, TypeOK, NoMsg
<1>2. \A n \in Up : /\ proposed[n] = << >> /\ requestQueue[n] = << >> /\ executeQueue[n] = << >>
                    /\ executed[n] = << >> /\ sequence[n] = -1 /\ lastSequence[n] = -1
                    /\ checked[n] = NoMsg /\ prepareSet[n] = {} /\ prepareState[n] = {}
                    /\ commitSet[n] = {} /\ commitState[n] = {} /\ prePrepareSet[n] = {}
  BY DEF Init
<1>3. net = {}
  BY DEF Init
<1>4. DOMAIN << >> = {} /\ Len(<< >>) = 0
  OBVIOUS
<1>5. BatchesApart
  BY <1>2, <1>4 DEF BatchesApart, Range
<1>6. MessagesTrue /\ CheckedTrue /\ VotesTrue
  BY <1>2, <1>3 DEF MessagesTrue, CheckedTrue, VotesTrue
<1>7. VotesApart
  BY <1>2, <1>4 DEF VotesApart
<1>8. PreparesCounted /\ CommitsCounted
  BY <1>2 DEF PreparesCounted, CommitsCounted
<1>9. QueueInOrder /\ ExecutedInOrder /\ NothingDueLeft /\ BatchesAtHand
  BY <1>2, <1>4 DEF QueueInOrder, ExecutedInOrder, NothingDueLeft, BatchesAtHand
<1> QED
  BY <1>1, <1>5, <1>6, <1>7, <1>8, <1>9 DEF ThreadInv

(* Every step keeps the invariant. *)
LEMMA InvStep ==
  ASSUME NodesAssumption, SendsDistinct, ThreadInv, [Next]_vars
  PROVE  ThreadInv'
<1>1. /\ TypeOK /\ BatchesApart /\ MessagesTrue /\ CheckedTrue /\ VotesTrue /\ VotesApart
      /\ PreparesCounted /\ CommitsCounted /\ QueueInOrder /\ ExecutedInOrder /\ NothingDueLeft
      /\ BatchesAtHand
  BY DEF ThreadInv
<1>2. Truth /\ Core
  BY <1>1 DEF Truth, Core
<1>3. TypeOK' /\ BatchesApart' /\ MessagesTrue' /\ CheckedTrue' /\ VotesTrue'
  BY <1>1, TypeStep, ApartStep, MessagesStep, CheckedStep, VotesStep
<1>4. VotesApart' /\ PreparesCounted' /\ CommitsCounted'
  BY <1>1, <1>2, ApartVotesStep, PreparesStep, CommitsStep
<1>5. QueueInOrder' /\ ExecutedInOrder' /\ NothingDueLeft' /\ BatchesAtHand'
  BY <1>1, <1>2, QueueStep, ExecutedStep, DueStep, HandStep
<1> QED
  BY <1>3, <1>4, <1>5 DEF ThreadInv

(* What the goroutines of all nodes keep among them, however their turns     *)
(* interleave and the posts are lost or late.                               *)
THEOREM ThreadInvHolds ==
  ASSUME NodesAssumption, SendsDistinct
  PROVE  Spec => []ThreadInv
<1>1. Init => ThreadInv
  BY StartInv
<1>2. ThreadInv /\ [Next]_vars => ThreadInv'
  BY InvStep
<1> QED
  BY <1>1, <1>2, PTL DEF Spec

-----------------------------------------------------------------------------
(* The properties. *)

(* prepare.go:8: 2 * FaultNum prepares, none asked of the proposer, are      *)
(* enough: no two nodes prepare different batches for a number, whoever      *)
(* proposed them.                                                           *)
THEOREM PreparedAgreeHolds ==
  ASSUME NodesAssumption, SendsDistinct
  PROVE  Spec => []PreparedAgree
<1>1. ThreadInv => PreparedAgree
  <2> SUFFICES ASSUME ThreadInv, NEW n \in Up, NEW o \in Up, NEW d \in prepareState[n],
                      NEW e \in prepareState[o], NEW p \in Up, NEW q \in Up,
                      NEW i \in DOMAIN proposed[p] \cap DOMAIN proposed[q],
                      proposed[p][i] = d, proposed[q][i] = e
               PROVE  d = e
    BY DEF PreparedAgree
  <2>1. Core /\ TypeOK
    BY DEF ThreadInv, Core, Truth
  <2>2. i - 1 \in Int /\ Proposed(p, i - 1, d)
    BY <2>1, Position
  <2>3. Proposed(q, i - 1, e)
    BY <2>1, Position
  <2> QED
    BY <2>1, <2>2, <2>3, PreparedAreOne
<1> QED
  BY <1>1, ThreadInvHolds, PTL

(* reply.go:9: two nodes execute the same batches in the same order,        *)
(* although a commit may arrive before its pre-prepare and BatchExecute is   *)
(* only told that something is due.                                         *)
THEOREM ExecutedAgreeHolds ==
  ASSUME NodesAssumption, SendsDistinct
  PROVE  Spec => []ExecutedAgree
<1>1. ThreadInv => ExecutedAgree
  <2> SUFFICES ASSUME ThreadInv, NEW n \in Up, NEW o \in Up,
                      NEW i \in DOMAIN executed[n] \cap DOMAIN executed[o]
               PROVE  executed[n][i] = executed[o][i]
    BY DEF ExecutedAgree
  <2>0. Core /\ TypeOK /\ ExecutedInOrder /\ CommitsCounted
    BY DEF ThreadInv, Core, Truth
  <2>1. PICK d \in {executed[n][i]}, e \in {executed[o][i]}, s \in {i - 1} : TRUE
    OBVIOUS
  <2>2. s \in Int
    <3>1. executed[n] \in Seq(Batch)
      BY <2>0 DEF TypeOK
    <3>2. i \in 1 .. Len(executed[n]) /\ Len(executed[n]) \in Nat
      BY <3>1, LenProperties
    <3> QED
      BY <2>1, <3>2
  <2>3. d \in commitState[n] /\ \E p \in Up : Proposed(p, s, d)
    BY <2>0, <2>1 DEF ExecutedInOrder
  <2>4. e \in commitState[o] /\ \E p \in Up : Proposed(p, s, e)
    BY <2>0, <2>1 DEF ExecutedInOrder
  <2>5. d \in prepareState[n] /\ e \in prepareState[o]
    BY <2>0, <2>3, <2>4 DEF CommitsCounted
  <2>6. d = e
    BY <2>0, <2>2, <2>3, <2>4, <2>5, PreparedAreOne
  <2> QED
    BY <2>1, <2>6
<1> QED
  BY <1>1, ThreadInvHolds, PTL

(* commit.go:7: a batch is executed only after 2 * FaultNum + 1 nodes had     *)
(* prepared it.                                                             *)
THEOREM ExecutedBackedHolds ==
  ASSUME NodesAssumption, SendsDistinct
  PROVE  Spec => []ExecutedBackedByPrepares
<1>1. ThreadInv => ExecutedBackedByPrepares
  <2> SUFFICES ASSUME ThreadInv, NEW n \in Up, NEW i \in DOMAIN executed[n]
               PROVE  Cardinality({o \in Up : executed[n][i] \in prepareState[o]}) >= 2 * FaultNum + 1
    BY DEF ExecutedBackedByPrepares
  <2>0. TypeOK /\ ExecutedInOrder /\ CommitsCounted
    BY DEF ThreadInv
  <2>1. PICK d \in {executed[n][i]}, S \in {commitSet[n]} : TRUE
    OBVIOUS
  <2>2. PICK X : X = {o \in Up : d \in prepareState[o]}
    OBVIOUS
  <2>3. S \in SUBSET (Batch \X Up)
    BY <2>0, <2>1 DEF TypeOK
  <2>4. Count(S, d) >= 2 * FaultNum + 1
    BY <2>0, <2>1 DEF ExecutedInOrder, CommitsCounted
  <2>5. Voters(S, d) \subseteq X
    <3> SUFFICES ASSUME NEW x \in Up, <<d, x>> \in S PROVE d \in prepareState[x]
      BY <2>2 DEF Voters
    <3>1. PICK v \in {<<d, x>>} : TRUE
      OBVIOUS
    <3>2. v \in commitSet[n] /\ v[1] = d /\ v[2] = x
      BY <2>1, <3>1
    <3> QED
      BY <2>0, <3>2 DEF CommitsCounted
  <2>6. IsFiniteSet(X)
    BY <2>2, FS_Subset
  <2>7. Cardinality(Voters(S, d)) <= Cardinality(X) /\ Cardinality(X) \in Nat
    BY <2>5, <2>6, FS_Subset, FS_CardinalityType
  <2>8. Count(S, d) = Cardinality(Voters(S, d)) /\ Count(S, d) \in Nat
    BY <2>3, CountVoters
  <2>9. Cardinality(X) >= 2 * FaultNum + 1
    BY <2>4, <2>7, <2>8
  <2> QED
    BY <2>1, <2>2, <2>9
<1> QED
  BY <1>1, ThreadInvHolds, PTL

(* buffer.go, BatchExecute: the executing goroutine never sleeps over a       *)
(* batch that is next, although it is woken once per commit quorum only.     *)
THEOREM NothingDueLeftHolds ==
  ASSUME NodesAssumption, SendsDistinct
  PROVE  Spec => []NothingDueLeft
<1>1. ThreadInv => NothingDueLeft
  BY DEF ThreadInv
<1> QED
  BY <1>1, ThreadInvHolds, PTL

OneProposer == \A c, e \in Sends : c.to = e.to

(* A batch is of a node that got a post. *)
LEMMA ProposerGotPost ==
  ASSUME TypeOK, BatchesApart, NEW p \in Up, NEW s, NEW d, Proposed(p, s, d)
  PROVE  \E c \in Sends : c.to = p
<1>1. PICK i \in {s + 1} : TRUE
  OBVIOUS
<1>2. i \in DOMAIN proposed[p] /\ proposed[p][i] = d
  BY <1>1 DEF Proposed
<1>3. Range(d) \subseteq Received(p)
  BY <1>2 DEF BatchesApart
<1>4. d \in Batch
  <2>1. proposed[p] \in Seq(Batch)
    BY DEF TypeOK
  <2> QED
    BY <1>2, <2>1, LenProperties, ElementOfSeq
<1>5. d[1] \in Range(d)
  <2>1. d \in Seq(Reqs) /\ d # << >>
    BY <1>4 DEF Batch
  <2>2. 1 \in DOMAIN d
    BY <2>1, EmptySeq, LenProperties
  <2> QED
    BY <2>2 DEF Range
<1> QED
  BY <1>3, <1>5 DEF Received

(* reply.go:9: with one proposer a turn finds the batches it executes.       *)
LEMMA TurnFinds ==
  ASSUME ThreadInv, OneProposer, NEW n \in Up, NEW k \in 0 .. Len(executeQueue[n]),
         NEW ds \in Seq(Batch), Turn(n, k, ds)
  PROVE  ~FetchRequestFails(n, ds)
<1>0. TypeOK /\ BatchesApart /\ QueueInOrder /\ BatchesAtHand
  BY DEF ThreadInv
<1>1. PICK q \in {executeQueue[n]} : TRUE
  OBVIOUS
<1>2. /\ q \in Seq(Entry) /\ DOMAIN q = 1 .. Len(q) /\ Len(q) \in Nat /\ k \in Nat /\ k <= Len(q)
      /\ lastSequence[n] \in Int
  BY <1>0, <1>1, QueueType, LenProperties
<1>3. SUFFICES ASSUME NEW i \in DOMAIN ds PROVE ds[i] \in prePrepareBuffer[n]
  BY DEF FetchRequestFails
<1>4. i \in 1 .. k
  <2>1. DOMAIN ds = 1 .. Len(ds) /\ Len(ds) = k
    BY LenProperties DEF Turn
  <2> QED
    BY <2>1
<1>5. i \in DOMAIN q /\ ds[i] = q[i].digest
  BY SMTT(30), <1>1, <1>2, <1>4 DEF Turn
<1>6. PICK s \in {q[i].seq}, d \in {q[i].digest} : TRUE
  OBVIOUS
<1>7. /\ s > lastSequence[n] /\ s \in prePrepareSet[n] /\ \E p \in Up : Proposed(p, s, d)
  BY <1>0, <1>1, <1>5, <1>6 DEF QueueInOrder
<1>8. s \in Nat
  BY <1>0, <1>7 DEF TypeOK
<1>9. PICK o \in Up, e \in prePrepareBuffer[n] : Proposed(o, s, e)
  <2>1. ~(s <= lastSequence[n])
    BY <1>2, <1>7, <1>8
  <2> QED
    BY <1>0, <1>7, <2>1 DEF BatchesAtHand
<1>10. PICK p \in Up : Proposed(p, s, d)
  BY <1>7
<1>11. p = o
  BY <1>0, <1>9, <1>10, ProposerGotPost DEF OneProposer
<1>12. d = e
  BY <1>9, <1>10, <1>11 DEF Proposed
<1> QED
  BY <1>5, <1>6, <1>9, <1>12

(* reply.go:9: with one proposer FetchRequest never returns with            *)
(* prePrepareLocker held, so no goroutine waits for it for ever.             *)
THEOREM LockReleasedHolds ==
  ASSUME NodesAssumption, SendsDistinct
  PROVE  Spec => []LockReleased
<1> DEFINE Free == \A n \in Up : ~stuck[n]
<1>1. Init => LockReleased
  BY DEF Init, LockReleased
<1>2. ThreadInv /\ LockReleased /\ [Next]_vars => LockReleased'
  <2> SUFFICES ASSUME ThreadInv, [Next]_vars, OneProposer, Free PROVE Free'
    BY DEF LockReleased, OneProposer
  <2>0. TypeOK
    BY DEF ThreadInv
  <2>1. stuck' = stuck => Free'
    OBVIOUS
  <2>2. ASSUME NEW o \in Up, executeAndReply(o) PROVE Free'
    <3>1. PICK k \in 0 .. Len(executeQueue[o]), ds \in Seq(Batch) : Turn(o, k, ds)
      BY <2>0, <2>2, Executes
    <3>2. FetchRequestFails(o, ds) = FALSE
      <4>1. ~FetchRequestFails(o, ds) /\ FetchRequestFails(o, ds) \in BOOLEAN
        BY <3>1, TurnFinds DEF FetchRequestFails
      <4> QED
        BY <4>1
    <3>3. stuck' = [stuck EXCEPT ![o] = FALSE]
      BY <3>1, <3>2 DEF Turn
    <3> QED
      BY <2>0, <3>3 DEF TypeOK
  <2>3. CASE UNCHANGED vars
    BY <2>1, <2>3 DEF vars
  <2>4. ASSUME NEW c \in Sends, requestRecv(c) PROVE Free'
    BY <2>1, <2>4 DEF requestRecv
  <2>5. ASSUME NEW o \in Up, prePrepareSend(o) \/ prePrepareRecv(o) PROVE Free'
    BY <2>1, <2>5 DEF prePrepareSend, prePrepareRecv
  <2>6. ASSUME NEW m \in net, checkPrePrepare(m) \/ prepareRecv(m) \/ commitRecv(m) PROVE Free'
    BY <2>1, <2>6 DEF checkPrePrepare, prepareRecv, commitRecv
  <2> HIDE DEF Free
  <2> QED
    BY <2>2, <2>3, <2>4, <2>5, <2>6 DEF Next
<1> QED
  BY <1>1, <1>2, ThreadInvHolds, PTL DEF Spec

(* Together, for any water marks and proposers.                             *)
THEOREM ThreadExecutesInOrderHolds ==
  ASSUME NodesAssumption, SendsDistinct
  PROVE  Spec => []ThreadExecutesInOrder
BY ThreadInvHolds, PreparedAgreeHolds, ExecutedAgreeHolds, ExecutedBackedHolds,
   NothingDueLeftHolds, LockReleasedHolds, PTL DEF ThreadExecutesInOrder
=============================================================================
