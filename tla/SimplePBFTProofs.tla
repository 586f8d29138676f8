-------------------------- MODULE SimplePBFTProofs --------------------------
(***************************************************************************)
(* The votes of SimplePBFT for every table of nodes, any requests, any     *)
(* posts that fail and any number of alarms: nodes that prepared, prepared *)
(* one request, and what is committed 2f others have prepared.             *)
(*                                                                         *)
(* A node's request is set once and its pools only grow, so that a vote    *)
(* that was true when it was cast stays true wherever it is (VotesBacked). *)
(* 2f prepares of others and the node itself are 2f + 1 of 3f + 1 nodes    *)
(* that hold the request; two such sets meet.                              *)
(***************************************************************************)
EXTENDS SimplePBFT, TLAPS, FiniteSetTheorems, SequenceTheorems

USE DEF NodesAssumption

Inv == TypeOK /\ VotesBacked

-----------------------------------------------------------------------------
(* Sequences: what the channels do with them. *)

(* Taking the first element of a sequence and leaving the others. *)
LEMMA HeadAndTail ==
  ASSUME NEW S, NEW s \in Seq(S), s # << >>
  PROVE  Head(s) \in S /\ Tail(s) \in Seq(S)
OBVIOUS

(* Putting an element at the end. *)
LEMMA AppendOne ==
  ASSUME NEW S, NEW s \in Seq(S), NEW x \in S
  PROVE  Append(s, x) \in Seq(S) /\ Append(s, x) # << >>
BY AppendProperties

(* A sequence over a set is one over every larger set. *)
LEMMA SeqGrows ==
  ASSUME NEW S, NEW T, S \subseteq T
  PROVE  Seq(S) \subseteq Seq(T)
BY SeqMonotonic

(* The posts of a broadcast. *)
LEMMA PostsAreSeq ==
  ASSUME NEW S, NEW U, NEW peers \in Seq(U), NEW m,
         \A i \in DOMAIN peers : [to |-> peers[i], msg |-> m] \in S
  PROVE  [i \in DOMAIN peers |-> [to |-> peers[i], msg |-> m]] \in Seq(S)
<1>1. Len(peers) \in Nat /\ DOMAIN peers = 1 .. Len(peers)
  BY LenProperties
<1>2. [i \in DOMAIN peers |-> [to |-> peers[i], msg |-> m]] \in [1 .. Len(peers) -> S]
  BY <1>1
<1> QED
  BY <1>1, <1>2, SeqDef

-----------------------------------------------------------------------------
(* The parts of VotesBacked, for one node. *)

PoolBacked(n) ==
  state[n] # Nil => /\ state[n].prepares \subseteq Holders(n, state[n].req)
                    /\ state[n].commits \subseteq Certified(n, state[n].req)
CommittedBacked(n) ==
  committed[n] # << >> => /\ state[n] # Nil /\ isCommitted(state[n])
                          /\ committed[n][1] = state[n].req
BufferBacked(n) == \A t \in Types : buffer[n][t] \in Seq({m \in Backed(n) : m.type = t})
DeliveryBacked(n) == delivery[n] \in Seq(Seq(Resolvable(n)))
BatchBacked(n) == batch[n] \in Seq(Resolvable(n))
OutboxBacked(n) == outbox[n] \in Seq({p \in Post : p.msg \in Backed(p.to)})

(* VotesBacked is the conjunction of its parts over the nodes. *)
LEMMA VotesBackedParts ==
  VotesBacked <=> \A n \in Up : /\ PoolBacked(n) /\ CommittedBacked(n) /\ BufferBacked(n)
                                /\ DeliveryBacked(n) /\ BatchBacked(n) /\ OutboxBacked(n)
BY DEF VotesBacked, PoolBacked, CommittedBacked, BufferBacked, DeliveryBacked, BatchBacked,
       OutboxBacked

(* A consensus state is not the nil pointer. *)
LEMMA NotNil ==
  ASSUME NEW s \in ConsensusState
  PROVE  s # Nil
BY DEF ConsensusState, Nil

(* A vote makes a consensus state out of a consensus state, for the same     *)
(* request and with pools that are no smaller.                              *)
LEMMA VoteKeeps ==
  ASSUME NEW s \in ConsensusState, NEW m \in Message, m.from \in Up,
         NEW t \in {Prepare(s, m), Commit(s, m)}
  PROVE  /\ t \in ConsensusState /\ t.req = s.req
         /\ s.prepares \subseteq t.prepares /\ s.commits \subseteq t.commits
<1>1. CASE t = Prepare(s, m)
  BY <1>1 DEF Prepare, ConsensusState
<1>2. CASE t = Commit(s, m)
  BY <1>2 DEF Commit, ConsensusState
<1> QED
  BY <1>1, <1>2

(* What a vote adds to the pools is its sender, if the vote is for the       *)
(* request of the state.                                                    *)
LEMMA VoteAdds ==
  ASSUME NEW s \in ConsensusState, NEW m \in Message
  PROVE  /\ Prepare(s, m).prepares = IF m.req = s.req THEN s.prepares \cup {m.from} ELSE s.prepares
         /\ Prepare(s, m).commits = s.commits
         /\ Commit(s, m).prepares = s.prepares
         /\ Commit(s, m).commits = IF m.req = s.req THEN s.commits \cup {m.from} ELSE s.commits
BY DEF Prepare, Commit, verifyMsg, ConsensusState

(* More prepares never lose the quorum. *)
LEMMA PreparedGrows ==
  ASSUME NodesAssumption,
         NEW s \in ConsensusState, NEW t \in ConsensusState, s.prepares \subseteq t.prepares,
         prepared(s)
  PROVE  prepared(t)
<1>1. t.prepares \subseteq Up
  BY DEF ConsensusState
<1>2. IsFiniteSet(t.prepares)
  BY <1>1, FS_Subset
<1>3. Cardinality(s.prepares) <= Cardinality(t.prepares) /\ IsFiniteSet(s.prepares)
  BY <1>2, FS_Subset
<1>4. Cardinality(s.prepares) \in Nat /\ Cardinality(t.prepares) \in Nat
  BY <1>2, <1>3, FS_CardinalityType
<1> QED
  BY <1>3, <1>4 DEF prepared

(* The same for the quorum of commits. *)
LEMMA CommittedGrows ==
  ASSUME NodesAssumption,
         NEW s \in ConsensusState, NEW t \in ConsensusState, s.prepares \subseteq t.prepares,
         s.commits \subseteq t.commits, isCommitted(s)
  PROVE  isCommitted(t)
<1>1. t.commits \subseteq Up
  BY DEF ConsensusState
<1>2. IsFiniteSet(t.commits)
  BY <1>1, FS_Subset
<1>3. Cardinality(s.commits) <= Cardinality(t.commits) /\ IsFiniteSet(s.commits)
  BY <1>2, FS_Subset
<1>4. Cardinality(s.commits) \in Nat /\ Cardinality(t.commits) \in Nat
  BY <1>2, <1>3, FS_CardinalityType
<1>5. prepared(t)
  BY PreparedGrows DEF isCommitted
<1> QED
  BY <1>3, <1>4, <1>5 DEF isCommitted

-----------------------------------------------------------------------------
(* What a step does to the states: a node's request is set once and its     *)
(* pools only grow.                                                         *)
StatesGrow ==
  \A n \in Up : state[n] # Nil => /\ state'[n] # Nil
                                  /\ state'[n].req = state[n].req
                                  /\ state[n].prepares \subseteq state'[n].prepares
                                  /\ state[n].commits \subseteq state'[n].commits

(* What holds a request goes on holding it. *)
LEMMA HoldersGrow ==
  ASSUME NodesAssumption, TypeOK, TypeOK', StatesGrow, NEW n \in Up, NEW r
  PROVE  Holders(n, r) \subseteq Holders(n, r)' /\ Certified(n, r) \subseteq Certified(n, r)'
<1>1. Holders(n, r) \subseteq Holders(n, r)'
  BY DEF Holders, StatesGrow
<1>2. ASSUME NEW o \in Certified(n, r)
      PROVE  o \in Certified(n, r)'
  <2>1. o \in Holders(n, r) /\ prepared(state[o])
    BY <1>2 DEF Certified
  <2>2. o \in Up /\ state[o] # Nil /\ state[o].req = r
    BY <2>1 DEF Holders
  <2>3. state[o] \in ConsensusState /\ state'[o] \in ConsensusState
    BY <2>2 DEF TypeOK, StatesGrow
  <2>4. state[o].prepares \subseteq state'[o].prepares
    BY <2>2 DEF StatesGrow
  <2>5. prepared(state'[o])
    BY <2>1, <2>3, <2>4, PreparedGrows
  <2> QED
    BY <1>1, <2>1, <2>5 DEF Certified
<1> QED
  BY <1>1, <1>2

(* What was true to say goes on being true. *)
LEMMA BackedGrows ==
  ASSUME NodesAssumption, TypeOK, TypeOK', StatesGrow, NEW n \in Up
  PROVE  Backed(n) \subseteq Backed(n)' /\ Resolvable(n) \subseteq Resolvable(n)'
<1>1. Backed(n) \subseteq Backed(n)'
  BY HoldersGrow DEF Backed
<1>2. state[n] # Nil => state'[n] # Nil
  BY DEF StatesGrow
<1> QED
  BY <1>1, <1>2 DEF Resolvable

(* So a part of VotesBacked holds on where a step leaves its variable alone. *)
LEMMA KeepPool ==
  ASSUME NodesAssumption,
         TypeOK, TypeOK', StatesGrow, NEW n \in Up, PoolBacked(n), state'[n] = state[n]
  PROVE  PoolBacked(n)'
BY HoldersGrow DEF PoolBacked

(* The same of what was committed, when the state changes as well. *)
LEMMA KeepCommitted ==
  ASSUME NodesAssumption, TypeOK, TypeOK', StatesGrow, NEW n \in Up, CommittedBacked(n),
         committed'[n] = committed[n]
  PROVE  CommittedBacked(n)'
<1> SUFFICES ASSUME committed'[n] # << >>
             PROVE  /\ state'[n] # Nil /\ isCommitted(state'[n])
                    /\ committed'[n][1] = state'[n].req
  BY DEF CommittedBacked
<1>1. state[n] # Nil /\ isCommitted(state[n]) /\ committed[n][1] = state[n].req
  BY DEF CommittedBacked
<1>2. /\ state'[n] # Nil /\ state'[n].req = state[n].req
      /\ state[n].prepares \subseteq state'[n].prepares
      /\ state[n].commits \subseteq state'[n].commits
  BY <1>1 DEF StatesGrow
<1>3. state[n] \in ConsensusState /\ state'[n] \in ConsensusState
  BY <1>1, <1>2 DEF TypeOK
<1>4. isCommitted(state'[n])
  BY <1>1, <1>2, <1>3, CommittedGrows
<1> QED
  BY <1>1, <1>2, <1>4

(* The same of the buffer. *)
LEMMA KeepBuffer ==
  ASSUME NodesAssumption,
         TypeOK, TypeOK', StatesGrow, NEW n \in Up, BufferBacked(n), buffer'[n] = buffer[n]
  PROVE  BufferBacked(n)'
<1> SUFFICES ASSUME NEW t \in Types
             PROVE  buffer'[n][t] \in Seq({m \in Backed(n)' : m.type = t})
  BY DEF BufferBacked
<1>1. {m \in Backed(n) : m.type = t} \subseteq {m \in Backed(n)' : m.type = t}
  BY BackedGrows
<1>2. Seq({m \in Backed(n) : m.type = t}) \subseteq Seq({m \in Backed(n)' : m.type = t})
  BY <1>1, SeqGrows
<1> QED
  BY <1>2 DEF BufferBacked

(* The same of the batches that wait. *)
LEMMA KeepDelivery ==
  ASSUME NodesAssumption, TypeOK, TypeOK', StatesGrow, NEW n \in Up, DeliveryBacked(n),
         delivery'[n] = delivery[n]
  PROVE  DeliveryBacked(n)'
<1>1. Seq(Resolvable(n)) \subseteq Seq(Resolvable(n)')
  BY BackedGrows, SeqGrows
<1>2. Seq(Seq(Resolvable(n))) \subseteq Seq(Seq(Resolvable(n)'))
  BY <1>1, SeqGrows
<1> QED
  BY <1>2 DEF DeliveryBacked

(* The same of the batch that is resolved. *)
LEMMA KeepBatch ==
  ASSUME NodesAssumption,
         TypeOK, TypeOK', StatesGrow, NEW n \in Up, BatchBacked(n), batch'[n] = batch[n]
  PROVE  BatchBacked(n)'
<1>1. Seq(Resolvable(n)) \subseteq Seq(Resolvable(n)')
  BY BackedGrows, SeqGrows
<1> QED
  BY <1>1 DEF BatchBacked

(* The same of the posts to make. *)
LEMMA KeepOutbox ==
  ASSUME NodesAssumption,
         TypeOK, TypeOK', StatesGrow, NEW n \in Up, OutboxBacked(n), outbox'[n] = outbox[n]
  PROVE  OutboxBacked(n)'
<1>1. {p \in Post : p.msg \in Backed(p.to)} \subseteq {p \in Post : p.msg \in Backed(p.to)'}
  BY BackedGrows DEF Post
<1>2. Seq({p \in Post : p.msg \in Backed(p.to)}) \subseteq Seq({p \in Post : p.msg \in Backed(p.to)'})
  BY <1>1, SeqGrows
<1> QED
  BY <1>2 DEF OutboxBacked

-----------------------------------------------------------------------------
(* The type invariant, and the growth of the states, one action at a time.  *)

(* A message that is routed keeps the shapes of the two channels.           *)
LEMMA RouteType ==
  ASSUME TypeOK, NEW n \in Up, NEW m \in Message, routeMsg(n, m)
  PROVE  buffer' \in [Up -> [Types -> Seq(Message)]] /\ delivery' \in [Up -> Seq(Seq(Message))]
<1>1. m.type \in Types
  BY DEF Message
<1>2. buffer[n] \in [Types -> Seq(Message)] /\ buffer[n][m.type] \in Seq(Message)
  BY <1>1 DEF TypeOK
<1>3. PICK all \in {Append(buffer[n][m.type], m)} : TRUE
  OBVIOUS
<1>4. all \in Seq(Message)
  BY <1>2, <1>3, AppendOne
<1>5. CASE Awaited(state[n], m.type)
  <2>1. /\ delivery' = [delivery EXCEPT ![n] = <<all>>]
        /\ buffer' = [buffer EXCEPT ![n][m.type] = << >>]
    BY <1>3, <1>5 DEF routeMsg
  <2>2. <<all>> \in Seq(Seq(Message)) /\ << >> \in Seq(Message)
    BY <1>4
  <2> QED
    BY <1>1, <1>2, <2>1, <2>2 DEF TypeOK
<1>6. CASE ~Awaited(state[n], m.type)
  <2>1. delivery' = delivery /\ buffer' = [buffer EXCEPT ![n][m.type] = all]
    BY <1>3, <1>6 DEF routeMsg
  <2> QED
    BY <1>1, <1>2, <1>4, <2>1 DEF TypeOK
<1> QED
  BY <1>5, <1>6

(* A broadcast makes posts to other nodes. *)
LEMMA BroadcastType ==
  ASSUME NodesAssumption, TypeOK, NEW n \in Up, NEW m \in Message, Broadcast(n, m)
  PROVE  /\ outbox' \in [Up -> Seq(Post)]
         /\ outbox'[n] \in Seq({p \in Post : p.to # n /\ p.msg = m})
         /\ \A o \in Up \ {n} : outbox'[o] = outbox[o]
<1>1. PICK peers \in Orders :
        /\ {peers[i] : i \in DOMAIN peers} = {o \in Up \ {n} : <<m.type, o>> \notin Failing}
        /\ outbox' = [outbox EXCEPT ![n] = [i \in DOMAIN peers |-> [to |-> peers[i], msg |-> m]]]
  BY DEF Broadcast
<1>2. peers \in Seq(Up)
  OBVIOUS
<1>3. \A i \in DOMAIN peers : peers[i] \in Up \ {n}
  BY <1>1
<1>4. \A i \in DOMAIN peers : [to |-> peers[i], msg |-> m] \in {p \in Post : p.to # n /\ p.msg = m}
  BY <1>3 DEF Post
<1>5. PICK posts \in {[i \in DOMAIN peers |-> [to |-> peers[i], msg |-> m]]} : TRUE
  OBVIOUS
<1>6. posts \in Seq({p \in Post : p.to # n /\ p.msg = m})
  BY <1>2, <1>4, <1>5, PostsAreSeq
<1>7. posts \in Seq(Post)
  BY <1>6, SeqGrows
<1>8. outbox' = [outbox EXCEPT ![n] = posts]
  BY <1>1, <1>5
<1> QED
  BY <1>6, <1>7, <1>8 DEF TypeOK

(* What the resolver is to handle next it may handle. *)
LEMMA HeadOfBatch ==
  ASSUME Inv, NEW n \in Up, batch[n] # << >>
  PROVE  /\ Head(batch[n]) \in Message /\ Head(batch[n]) \in Resolvable(n)
         /\ Tail(batch[n]) \in Seq(Message) /\ Tail(batch[n]) \in Seq(Resolvable(n))
<1>1. batch[n] \in Seq(Message) /\ batch[n] \in Seq(Resolvable(n))
  BY VotesBackedParts DEF Inv, TypeOK, BatchBacked
<1> QED
  BY <1>1, HeadAndTail

(* A vote that the resolver is to handle comes from another node, which     *)
(* holds its request, and finds a state.                                    *)
LEMMA VoteToHandle ==
  ASSUME Inv, NEW n \in Up, NEW m \in Resolvable(n), m.type \in {"prepare", "commit"}
  PROVE  /\ state[n] \in ConsensusState /\ state[n] # Nil
         /\ m \in Message /\ m.from \in Up /\ m.from \in Holders(n, m.req)
         /\ m.type = "commit" => m.from \in Certified(n, m.req)
<1>1. m \in Backed(n) /\ state[n] # Nil
  BY DEF Resolvable
<1>2. m \in Message /\ m.from \in Holders(n, m.req)
      /\ (m.type = "commit" => m.from \in Certified(n, m.req))
  BY <1>1 DEF Backed, Certified
<1>3. m.from \in Up
  BY <1>2 DEF Holders
<1> QED
  BY <1>1, <1>2, <1>3 DEF Inv, TypeOK

(* The request at which a consensus starts becomes that of the new state.   *)
LEMMA StartedType ==
  ASSUME NEW m \in Message
  PROVE  /\ StartConsensus(CreateState, m.req) \in ConsensusState
         /\ PrePrepare(CreateState, m) \in ConsensusState
         /\ StartConsensus(CreateState, m.req).req = m.req
         /\ PrePrepare(CreateState, m).req = m.req
         /\ StartConsensus(CreateState, m.req).prepares = {}
         /\ StartConsensus(CreateState, m.req).commits = {}
         /\ PrePrepare(CreateState, m).prepares = {}
         /\ PrePrepare(CreateState, m).commits = {}
BY DEF StartConsensus, PrePrepare, CreateState, ConsensusState, Message

(* A step that leaves the states alone. *)
LEMMA SameStates ==
  ASSUME state' = state
  PROVE  StatesGrow
BY DEF StatesGrow

(* proxy_server.go:41: a client's post leaves every state as it was.       *)
LEMMA getReqType ==
  ASSUME NodesAssumption, Inv, NEW r \in DOMAIN Requests, getReq(r)
  PROVE  TypeOK' /\ StatesGrow
<1>1. Msg("req", "client", r) \in Message /\ Requests[r] \in Up
  BY DEF Msg, Message, Types
<1>2. routeMsg(Requests[r], Msg("req", "client", r))
  BY DEF getReq
<1>3. TypeOK
  BY DEF Inv
<1>4. buffer' \in [Up -> [Types -> Seq(Message)]] /\ delivery' \in [Up -> Seq(Seq(Message))]
  BY <1>1, <1>2, <1>3, RouteType
<1> QED
  BY <1>3, <1>4, SameStates DEF TypeOK, getReq

(* The post under way, and those that are left. *)
LEMMA HeadOfOutbox ==
  ASSUME Inv, NEW o \in Up, outbox[o] # << >>
  PROVE  /\ Head(outbox[o]).to \in Up /\ Head(outbox[o]).msg \in Message
         /\ Head(outbox[o]).msg \in Backed(Head(outbox[o]).to)
         /\ Tail(outbox[o]) \in Seq(Post)
         /\ Tail(outbox[o]) \in Seq({p \in Post : p.msg \in Backed(p.to)})
<1>1. outbox[o] \in Seq(Post) /\ outbox[o] \in Seq({p \in Post : p.msg \in Backed(p.to)})
  BY VotesBackedParts DEF Inv, TypeOK, OutboxBacked
<1>2. Head(outbox[o]) \in {p \in Post : p.msg \in Backed(p.to)}
  BY <1>1, HeadAndTail
<1>3. Tail(outbox[o]) \in Seq(Post) /\ Tail(outbox[o]) \in Seq({p \in Post : p.msg \in Backed(p.to)})
  BY <1>1, HeadAndTail
<1> QED
  BY <1>2, <1>3 DEF Post

(* proxy_server.go:52: neither does the post of a node touch a state.      *)
LEMMA getPostType ==
  ASSUME Inv, NEW o \in Up, getPost(o)
  PROVE  TypeOK' /\ StatesGrow
<1>1. outbox[o] # << >> /\ routeMsg(Head(outbox[o]).to, Head(outbox[o]).msg)
  BY DEF getPost
<1>2. Head(outbox[o]).to \in Up /\ Head(outbox[o]).msg \in Message /\ Tail(outbox[o]) \in Seq(Post)
  BY <1>1, HeadOfOutbox
<1>3. TypeOK
  BY DEF Inv
<1>4. buffer' \in [Up -> [Types -> Seq(Message)]] /\ delivery' \in [Up -> Seq(Seq(Message))]
  BY <1>1, <1>2, <1>3, RouteType
<1>5. outbox' \in [Up -> Seq(Post)]
  BY <1>2, <1>3 DEF TypeOK, getPost
<1> QED
  BY <1>3, <1>4, <1>5, SameStates DEF TypeOK, getPost

(* The sequence of what an alarm finds due has the elements of the buffers. *)
LEMMA DueIsSeq ==
  ASSUME NEW S, NEW a \in Seq(S), NEW b \in Seq(S), NEW c \in Seq(S), NEW d \in Seq(S)
  PROVE  a \o b \o c \o d \in Seq(S)
<1>1. a \o b \in Seq(S)
  BY ConcatProperties
<1>2. (a \o b) \o c \in Seq(S)
  BY <1>1, ConcatProperties
<1> QED
  BY <1>2, ConcatProperties

(* node.go:349: an alarm only hands messages on.                           *)
LEMMA routeMsgWhenAlarmedType ==
  ASSUME NodesAssumption, Inv, NEW n \in Up, routeMsgWhenAlarmed(n)
  PROVE  TypeOK' /\ StatesGrow
<1> DEFINE Due(t) == IF Awaited(state[n], t) /\ buffer[n][t] # << >>
                     THEN <<buffer[n][t]>> ELSE << >>
<1>1. TypeOK
  BY DEF Inv
<1>2. \A t \in Types : Due(t) \in Seq(Seq(Message))
  BY <1>1 DEF TypeOK
<1>3. {"req", "preprepare", "prepare", "commit"} \subseteq Types
  BY DEF Types
<1> HIDE DEF Due
<1>4. PICK all \in {Due("req") \o Due("preprepare") \o Due("prepare") \o Due("commit")} : TRUE
  OBVIOUS
<1>5. all \in Seq(Seq(Message))
  <2>1. /\ Due("req") \in Seq(Seq(Message)) /\ Due("preprepare") \in Seq(Seq(Message))
        /\ Due("prepare") \in Seq(Seq(Message)) /\ Due("commit") \in Seq(Seq(Message))
    BY <1>2, <1>3
  <2>2. Due("req") \o Due("preprepare") \o Due("prepare") \o Due("commit") \in Seq(Seq(Message))
    BY SMTT(30), <2>1, DueIsSeq
  <2> QED
    BY <1>4, <2>2
<1>6. delivery' = [delivery EXCEPT ![n] = all] /\ alarms < MaxAlarm /\ alarms' = alarms + 1
      /\ UNCHANGED <<requested, state, committed, buffer, batch, outbox>>
  BY Zenon, <1>4 DEF routeMsgWhenAlarmed, Due
<1>7. StatesGrow
  BY <1>1, <1>6, SameStates
<1>8. delivery' \in [Up -> Seq(Seq(Message))]
  BY <1>1, <1>5, <1>6 DEF TypeOK
<1>9. alarms' \in 0 .. MaxAlarm
  BY <1>1, <1>6 DEF TypeOK
<1> QED
  BY <1>1, <1>6, <1>7, <1>8, <1>9 DEF TypeOK

(* node.go:390: the resolver only takes the next batch.                    *)
LEMMA resolveMsgType ==
  ASSUME Inv, NEW n \in Up, resolveMsg(n)
  PROVE  TypeOK' /\ StatesGrow
<1>1. TypeOK /\ delivery[n] # << >> /\ delivery[n] \in Seq(Seq(Message))
  BY DEF Inv, TypeOK, resolveMsg
<1>2. Head(delivery[n]) \in Seq(Message) /\ Tail(delivery[n]) \in Seq(Seq(Message))
  BY <1>1, HeadAndTail
<1> QED
  BY <1>1, <1>2, SameStates DEF TypeOK, resolveMsg

(* A node without a state takes one, with empty pools; one that has a state *)
(* keeps it.                                                                *)
LEMMA createStateType ==
  ASSUME NodesAssumption, TypeOK, NEW n \in Up, NEW s \in ConsensusState, NEW m \in Message,
         createStateForNewConsensus(n, s, m)
  PROVE  /\ state' \in [Up -> {Nil} \cup ConsensusState] /\ outbox' \in [Up -> Seq(Post)]
         /\ StatesGrow
         /\ \A o \in Up \ {n} : state'[o] = state[o] /\ outbox'[o] = outbox[o]
         /\ \/ state' = state /\ outbox' = outbox
            \/ state[n] = Nil /\ state'[n] = s /\ Broadcast(n, m)
<1>1. CASE state[n] = Nil
  <2>1. state' = [state EXCEPT ![n] = s] /\ Broadcast(n, m)
    BY <1>1 DEF createStateForNewConsensus
  <2>2. state \in [Up -> {Nil} \cup ConsensusState]
    BY DEF TypeOK
  <2>3. StatesGrow
    BY <1>1, <2>1, <2>2 DEF StatesGrow
  <2> QED
    BY <1>1, <2>1, <2>2, <2>3, BroadcastType
<1>2. CASE state[n] # Nil
  BY <1>2, SameStates DEF createStateForNewConsensus, TypeOK
<1> QED
  BY <1>1, <1>2

(* What a handler leaves of the batch. *)
LEMMA HandlesType ==
  ASSUME Inv, NEW n \in Up, NEW type, Handles(n, type)
  PROVE  /\ batch[n] # << >> /\ outbox[n] = << >> /\ Head(batch[n]).type = type
         /\ batch' = [batch EXCEPT ![n] = Tail(batch[n])] /\ batch' \in [Up -> Seq(Message)]
         /\ UNCHANGED <<requested, buffer, delivery, alarms>>
<1>1. batch[n] # << >> /\ batch' = [batch EXCEPT ![n] = Tail(batch[n])]
      /\ batch \in [Up -> Seq(Message)]
  BY DEF Handles, Inv, TypeOK
<1>2. Tail(batch[n]) \in Seq(Message)
  BY <1>1, HeadOfBatch
<1> QED
  BY <1>1, <1>2 DEF Handles

(* node.go:126: a request starts a consensus where there is none.          *)
LEMMA GetReqType ==
  ASSUME NodesAssumption, Inv, NEW n \in Up, GetReq(n)
  PROVE  TypeOK' /\ StatesGrow
<1>1. PICK m \in {Head(batch[n])} : TRUE
  OBVIOUS
<1>2. /\ Handles(n, "req") /\ UNCHANGED committed
      /\ createStateForNewConsensus(n, StartConsensus(CreateState, m.req), Msg("preprepare", n, m.req))
  BY <1>1 DEF GetReq
<1>3. TypeOK
  BY DEF Inv
<1>4. m \in Message
  BY <1>1, <1>2, HandlesType, HeadOfBatch
<1>5. StartConsensus(CreateState, m.req) \in ConsensusState
  BY <1>4, StartedType
<1>6. Msg("preprepare", n, m.req) \in Message
  BY <1>4 DEF Msg, Message, Types
<1>7. state' \in [Up -> {Nil} \cup ConsensusState] /\ outbox' \in [Up -> Seq(Post)] /\ StatesGrow
  BY <1>2, <1>3, <1>5, <1>6, createStateType
<1> QED
  BY <1>2, <1>3, <1>7, HandlesType DEF TypeOK

(* node.go:154: so does a pre-prepare.                                     *)
LEMMA GetPrePrepareType ==
  ASSUME NodesAssumption, Inv, NEW n \in Up, GetPrePrepare(n)
  PROVE  TypeOK' /\ StatesGrow
<1>1. PICK m \in {Head(batch[n])} : TRUE
  OBVIOUS
<1>2. /\ Handles(n, "preprepare") /\ UNCHANGED committed
      /\ createStateForNewConsensus(n, PrePrepare(CreateState, m), Msg("prepare", n, m.req))
  BY <1>1 DEF GetPrePrepare
<1>3. TypeOK
  BY DEF Inv
<1>4. m \in Message
  BY <1>1, <1>2, HandlesType, HeadOfBatch
<1>5. PrePrepare(CreateState, m) \in ConsensusState
  BY <1>4, StartedType
<1>6. Msg("prepare", n, m.req) \in Message
  BY <1>4 DEF Msg, Message, Types
<1>7. state' \in [Up -> {Nil} \cup ConsensusState] /\ outbox' \in [Up -> Seq(Post)] /\ StatesGrow
  BY <1>2, <1>3, <1>5, <1>6, createStateType
<1> QED
  BY <1>2, <1>3, <1>7, HandlesType DEF TypeOK

(* A node's state after a vote. *)
LEMMA VoteStates ==
  ASSUME TypeOK, NEW n \in Up, NEW m \in Message, m.from \in Up, state[n] \in ConsensusState,
         NEW s \in {Prepare(state[n], m), Commit(state[n], m)},
         state' = [state EXCEPT ![n] = s]
  PROVE  /\ state' \in [Up -> {Nil} \cup ConsensusState] /\ StatesGrow
         /\ state'[n] = s /\ s \in ConsensusState
         /\ \A o \in Up \ {n} : state'[o] = state[o]
<1>1. /\ s \in ConsensusState /\ s.req = state[n].req
      /\ state[n].prepares \subseteq s.prepares /\ state[n].commits \subseteq s.commits
  <2>1. PICK old : old = state[n]
    OBVIOUS
  <2>2. s \in {Prepare(old, m), Commit(old, m)} /\ old \in ConsensusState
    BY <2>1
  <2>3. /\ s \in ConsensusState /\ s.req = old.req
        /\ old.prepares \subseteq s.prepares /\ old.commits \subseteq s.commits
    BY Zenon, <2>2, VoteKeeps
  <2> QED
    BY <2>1, <2>3
<1>2. s # Nil
  BY <1>1, NotNil
<1>3. state \in [Up -> {Nil} \cup ConsensusState]
  BY DEF TypeOK
<1>4. state'[n] = s /\ \A o \in Up \ {n} : state'[o] = state[o]
  BY <1>3
<1>5. StatesGrow
  BY <1>1, <1>2, <1>4 DEF StatesGrow
<1> QED
  BY <1>1, <1>3, <1>4, <1>5

(* node.go:180: a prepare goes into the pool of the state that is there.   *)
LEMMA GetPrepareType ==
  ASSUME NodesAssumption, Inv, NEW n \in Up, GetPrepare(n)
  PROVE  TypeOK' /\ StatesGrow
<1>1. PICK m \in {Head(batch[n])} : TRUE
  OBVIOUS
<1>2. PICK s \in {Prepare(state[n], m)} : TRUE
  OBVIOUS
<1>3. /\ Handles(n, "prepare") /\ UNCHANGED committed /\ state' = [state EXCEPT ![n] = s]
      /\ Broadcast(n, Msg("commit", n, m.req)) \/ UNCHANGED outbox
  BY <1>1, <1>2 DEF GetPrepare
<1>4. TypeOK
  BY DEF Inv
<1>5. m \in Resolvable(n) /\ m.type = "prepare"
  BY <1>1, <1>3, HandlesType, HeadOfBatch
<1>6. state[n] \in ConsensusState /\ m \in Message /\ m.from \in Up
  BY <1>5, VoteToHandle
<1>7. state' \in [Up -> {Nil} \cup ConsensusState] /\ StatesGrow
  BY <1>2, <1>3, <1>4, <1>6, VoteStates
<1>8. Msg("commit", n, m.req) \in Message
  BY <1>6 DEF Msg, Message, Types
<1>9. outbox' \in [Up -> Seq(Post)]
  BY <1>3, <1>4, <1>8, BroadcastType DEF TypeOK
<1> QED
  BY <1>3, <1>4, <1>7, <1>9, HandlesType DEF TypeOK

(* node.go:200: so does a commit.                                          *)
LEMMA GetCommitType ==
  ASSUME Inv, NEW n \in Up, GetCommit(n)
  PROVE  TypeOK' /\ StatesGrow
<1>1. PICK m \in {Head(batch[n])} : TRUE
  OBVIOUS
<1>2. PICK s \in {Commit(state[n], m)} : TRUE
  OBVIOUS
<1>3. /\ Handles(n, "commit") /\ UNCHANGED outbox /\ state' = [state EXCEPT ![n] = s]
      /\ Reply(n, s) \/ UNCHANGED committed
  BY <1>1, <1>2 DEF GetCommit
<1>4. TypeOK
  BY DEF Inv
<1>5. m \in Resolvable(n) /\ m.type = "commit"
  BY <1>1, <1>3, HandlesType, HeadOfBatch
<1>6. state[n] \in ConsensusState /\ m \in Message /\ m.from \in Up
  BY <1>5, VoteToHandle
<1>7. state' \in [Up -> {Nil} \cup ConsensusState] /\ StatesGrow /\ s \in ConsensusState
  BY ZenonT(30), <1>2, <1>3, <1>4, <1>6, VoteStates
<1>8. s.req \in DOMAIN Requests
  BY <1>7 DEF ConsensusState
<1>9. Append(committed[n], s.req) \in Seq(DOMAIN Requests)
  BY <1>4, <1>8, AppendOne DEF TypeOK
<1>10. committed' \in [Up -> Seq(DOMAIN Requests)]
  BY <1>3, <1>4, <1>9 DEF TypeOK, Reply
<1> QED
  BY <1>3, <1>4, <1>7, <1>10, HandlesType DEF TypeOK

(* Every step keeps the types and lets states grow only. *)
LEMMA TypeStep ==
  ASSUME NodesAssumption, Inv, [Next]_vars
  PROVE  TypeOK' /\ StatesGrow
<1>1. CASE UNCHANGED vars
  BY <1>1, SameStates DEF vars, Inv, TypeOK, ConsensusState, Message, Post
<1>2. CASE Next
  BY <1>2, getReqType, getPostType, routeMsgWhenAlarmedType, resolveMsgType, GetReqType,
     GetPrePrepareType, GetPrepareType, GetCommitType DEF Next
<1> QED
  BY <1>1, <1>2

-----------------------------------------------------------------------------
(* The votes, one action at a time. *)

NodeBacked(n) == /\ PoolBacked(n) /\ CommittedBacked(n) /\ BufferBacked(n)
                 /\ DeliveryBacked(n) /\ BatchBacked(n) /\ OutboxBacked(n)

(* Nothing that waits and nothing that was counted or committed is disturbed *)
(* by a step that does not touch it.                                        *)
LEMMA KeepNode ==
  ASSUME NodesAssumption, TypeOK, TypeOK', StatesGrow, NEW n \in Up, NodeBacked(n)
  PROVE  /\ state'[n] = state[n] => PoolBacked(n)'
         /\ committed'[n] = committed[n] => CommittedBacked(n)'
         /\ buffer'[n] = buffer[n] => BufferBacked(n)'
         /\ delivery'[n] = delivery[n] => DeliveryBacked(n)'
         /\ batch'[n] = batch[n] => BatchBacked(n)'
         /\ outbox'[n] = outbox[n] => OutboxBacked(n)'
BY KeepPool, KeepCommitted, KeepBuffer, KeepDelivery, KeepBatch, KeepOutbox DEF NodeBacked

(* A node that holds what waits in its buffer gets it delivered by type: the *)
(* votes of a buffer that is due find a state.                              *)
LEMMA DueIsResolvable ==
  ASSUME NEW n \in Up, NEW t \in Types, Awaited(state[n], t)
  PROVE  {m \in Backed(n) : m.type = t} \subseteq Resolvable(n)
<1>1. t \in {"prepare", "commit"} => state[n] # Nil
  BY DEF Awaited, Nil
<1> QED
  BY <1>1 DEF Resolvable

(* Routing a message puts it into the buffer of its type or hands it over. *)
LEMMA RouteBacked ==
  ASSUME TypeOK, TypeOK', state' = state, NEW n \in Up, NEW m \in Backed(n), BufferBacked(n), DeliveryBacked(n),
         routeMsg(n, m)
  PROVE  /\ BufferBacked(n)' /\ DeliveryBacked(n)'
         /\ \A o \in Up \ {n} : buffer'[o] = buffer[o] /\ delivery'[o] = delivery[o]
<1>1. m.type \in Types
  BY DEF Backed, Message
<1>2. Backed(n)' = Backed(n) /\ Resolvable(n)' = Resolvable(n)
  BY DEF Backed, Resolvable, Holders, Certified
<1>3. PICK all \in {Append(buffer[n][m.type], m)} : TRUE
  OBVIOUS
<1>4. all \in Seq({x \in Backed(n) : x.type = m.type})
  <2>1. m \in {x \in Backed(n) : x.type = m.type}
    OBVIOUS
  <2>2. buffer[n][m.type] \in Seq({x \in Backed(n) : x.type = m.type})
    BY <1>1 DEF BufferBacked
  <2> QED
    BY <1>3, <2>1, <2>2, AppendOne
<1>5. /\ buffer \in [Up -> [Types -> Seq(Message)]] /\ delivery \in [Up -> Seq(Seq(Message))]
  BY DEF TypeOK
<1>6. CASE Awaited(state[n], m.type)
  <2>1. /\ delivery' = [delivery EXCEPT ![n] = <<all>>]
        /\ buffer' = [buffer EXCEPT ![n][m.type] = << >>]
    BY <1>3, <1>6 DEF routeMsg
  <2>2. {x \in Backed(n) : x.type = m.type} \subseteq Resolvable(n)
    BY <1>1, <1>6, DueIsResolvable
  <2>3. all \in Seq(Resolvable(n))
    BY <1>4, <2>2, SeqGrows
  <2>4. delivery'[n] = <<all>> /\ <<all>> \in Seq(Seq(Resolvable(n)))
    BY <1>5, <2>1, <2>3
  <2>5. DeliveryBacked(n)'
    BY <1>2, <2>4 DEF DeliveryBacked
  <2>6. \A t \in Types : buffer'[n][t] = buffer[n][t] \/ buffer'[n][t] = << >>
    BY <1>1, <1>5, <2>1
  <2>7. ASSUME NEW t \in Types
        PROVE  buffer'[n][t] \in Seq({x \in Backed(n)' : x.type = t})
    <3>1. CASE buffer'[n][t] = << >>
      BY <3>1, EmptySeq
    <3>2. CASE buffer'[n][t] = buffer[n][t]
      BY <1>2, <3>2 DEF BufferBacked
    <3> QED
      BY <2>6, <3>1, <3>2
  <2>8. BufferBacked(n)'
    BY <2>7 DEF BufferBacked
  <2> QED
    BY <1>5, <2>1, <2>5, <2>8
<1>7. CASE ~Awaited(state[n], m.type)
  <2>1. delivery' = delivery /\ buffer' = [buffer EXCEPT ![n][m.type] = all]
    BY <1>3, <1>7 DEF routeMsg
  <2>2. \A t \in Types : buffer'[n][t] = buffer[n][t] \/ (t = m.type /\ buffer'[n][t] = all)
    BY <1>1, <1>5, <2>1
  <2>3. BufferBacked(n)'
    BY <1>2, <1>4, <2>2 DEF BufferBacked
  <2>4. DeliveryBacked(n)'
    BY <1>2, <2>1 DEF DeliveryBacked
  <2> QED
    BY <1>5, <2>1, <2>3, <2>4
<1> QED
  BY <1>6, <1>7

(* What a broadcast says is true to say to any other node. *)
LEMMA BroadcastBacked ==
  ASSUME NodesAssumption, TypeOK, NEW n \in Up, NEW m \in Message, Broadcast(n, m),
         \A o \in Up \ {n} : m \in Backed(o)'
  PROVE  OutboxBacked(n)'
<1>1. outbox'[n] \in Seq({p \in Post : p.to # n /\ p.msg = m})
  BY BroadcastType
<1>2. {p \in Post : p.to # n /\ p.msg = m} \subseteq {p \in Post : p.msg \in Backed(p.to)'}
  BY DEF Post
<1>3. outbox'[n] \in Seq({p \in Post : p.msg \in Backed(p.to)'})
  BY <1>1, <1>2, SeqGrows
<1> QED
  BY <1>3 DEF OutboxBacked

(* A step's invariant, node by node. *)
LEMMA NodeParts ==
  ASSUME Inv, NEW n \in Up
  PROVE  TypeOK /\ NodeBacked(n)
BY VotesBackedParts DEF Inv, NodeBacked

(* ... and put together again. *)
LEMMA NodesTogether ==
  ASSUME \A n \in Up : NodeBacked(n)'
  PROVE  VotesBacked'
BY VotesBackedParts DEF NodeBacked, VotesBacked, PoolBacked, CommittedBacked, BufferBacked, DeliveryBacked, BatchBacked,
       OutboxBacked

(* proxy_server.go:41: a client's post says nothing about a node.          *)
LEMMA getReqVotes ==
  ASSUME NodesAssumption, Inv, TypeOK', StatesGrow, NEW r \in DOMAIN Requests, getReq(r)
  PROVE  VotesBacked'
<1>1. PICK q \in Up : q = Requests[r]
  OBVIOUS
<1>2. PICK m \in {Msg("req", "client", r)} : TRUE
  OBVIOUS
<1>3. /\ routeMsg(q, m) /\ state' = state /\ UNCHANGED <<committed, batch, outbox>>
  BY <1>1, <1>2 DEF getReq
<1>4. m \in Backed(q)
  BY <1>2 DEF Backed, Msg, Message, Types
<1>5. /\ BufferBacked(q)' /\ DeliveryBacked(q)'
      /\ \A o \in Up \ {q} : buffer'[o] = buffer[o] /\ delivery'[o] = delivery[o]
  BY <1>3, <1>4, NodeParts, RouteBacked DEF NodeBacked
<1>6. ASSUME NEW n \in Up
      PROVE  NodeBacked(n)'
  <2>1. TypeOK /\ NodeBacked(n)
    BY NodeParts
  <2>2. BufferBacked(n)' /\ DeliveryBacked(n)'
    BY <1>5, <2>1, KeepNode
  <2>3. PoolBacked(n)' /\ CommittedBacked(n)' /\ BatchBacked(n)' /\ OutboxBacked(n)'
    BY <1>3, <2>1, KeepNode
  <2> QED
    BY <2>2, <2>3 DEF NodeBacked
<1> QED
  BY <1>6, NodesTogether

(* proxy_server.go:52: a post that arrives is still true.                  *)
LEMMA getPostVotes ==
  ASSUME NodesAssumption, Inv, TypeOK', StatesGrow, NEW o \in Up, getPost(o)
  PROVE  VotesBacked'
<1>1. PICK p \in {Head(outbox[o])} : TRUE
  OBVIOUS
<1>2. /\ outbox[o] # << >> /\ routeMsg(p.to, p.msg) /\ state' = state
      /\ outbox' = [outbox EXCEPT ![o] = Tail(outbox[o])] /\ UNCHANGED <<committed, batch>>
  BY <1>1 DEF getPost
<1>3. /\ p.to \in Up /\ p.msg \in Backed(p.to)
      /\ Tail(outbox[o]) \in Seq({q \in Post : q.msg \in Backed(q.to)})
  BY <1>1, <1>2, HeadOfOutbox
<1>4. /\ BufferBacked(p.to)' /\ DeliveryBacked(p.to)'
      /\ \A n \in Up \ {p.to} : buffer'[n] = buffer[n] /\ delivery'[n] = delivery[n]
  BY <1>2, <1>3, NodeParts, RouteBacked DEF NodeBacked
<1>5. \A n \in Up : Backed(n)' = Backed(n)
  BY <1>2 DEF Backed, Holders, Certified
<1>6. outbox'[o] = Tail(outbox[o]) /\ \A n \in Up \ {o} : outbox'[n] = outbox[n]
  BY <1>2, NodeParts DEF TypeOK
<1>7. OutboxBacked(o)'
  <2>1. {q \in Post : q.msg \in Backed(q.to)'} = {q \in Post : q.msg \in Backed(q.to)}
    BY <1>5 DEF Post
  <2> QED
    BY <1>3, <1>6, <2>1 DEF OutboxBacked
<1>8. ASSUME NEW n \in Up
      PROVE  NodeBacked(n)'
  <2>1. TypeOK /\ NodeBacked(n)
    BY NodeParts
  <2>2. BufferBacked(n)' /\ DeliveryBacked(n)'
    BY <1>4, <2>1, KeepNode
  <2>3. PoolBacked(n)' /\ CommittedBacked(n)' /\ BatchBacked(n)'
    BY <1>2, <2>1, KeepNode
  <2>4. OutboxBacked(n)'
    BY <1>6, <1>7, <2>1, KeepNode
  <2> QED
    BY <2>2, <2>3, <2>4 DEF NodeBacked
<1> QED
  BY <1>8, NodesTogether

(* node.go:349: what an alarm hands on is true and finds a state.          *)
LEMMA routeMsgWhenAlarmedVotes ==
  ASSUME NodesAssumption, Inv, TypeOK', StatesGrow, NEW n \in Up, routeMsgWhenAlarmed(n)
  PROVE  VotesBacked'
<1> DEFINE Due(t) == IF Awaited(state[n], t) /\ buffer[n][t] # << >>
                     THEN <<buffer[n][t]>> ELSE << >>
<1>1. ASSUME NEW t \in Types
      PROVE  Due(t) \in Seq(Seq(Resolvable(n)))
  <2>1. CASE Awaited(state[n], t)
    <3>1. buffer[n][t] \in Seq({m \in Backed(n) : m.type = t})
      BY NodeParts DEF NodeBacked, BufferBacked
    <3>2. buffer[n][t] \in Seq(Resolvable(n))
      BY <2>1, <3>1, DueIsResolvable, SeqGrows
    <3> QED
      BY <3>2
  <2>2. CASE ~Awaited(state[n], t)
    BY <2>2
  <2> QED
    BY <2>1, <2>2
<1>2. {"req", "preprepare", "prepare", "commit"} \subseteq Types
  BY DEF Types
<1> HIDE DEF Due
<1>3. PICK all \in {Due("req") \o Due("preprepare") \o Due("prepare") \o Due("commit")} : TRUE
  OBVIOUS
<1>4. all \in Seq(Seq(Resolvable(n)))
  <2>1. /\ Due("req") \in Seq(Seq(Resolvable(n))) /\ Due("preprepare") \in Seq(Seq(Resolvable(n)))
        /\ Due("prepare") \in Seq(Seq(Resolvable(n))) /\ Due("commit") \in Seq(Seq(Resolvable(n)))
    BY <1>1, <1>2
  <2>2. Due("req") \o Due("preprepare") \o Due("prepare") \o Due("commit")
          \in Seq(Seq(Resolvable(n)))
    BY <2>1, DueIsSeq
  <2> QED
    BY <1>3, <2>2
<1>5. delivery' = [delivery EXCEPT ![n] = all]
      /\ UNCHANGED <<requested, state, committed, buffer, batch, outbox>>
  BY Zenon, <1>3 DEF routeMsgWhenAlarmed, Due
<1>6. Resolvable(n)' = Resolvable(n)
  BY <1>5 DEF Backed, Resolvable, Holders, Certified
<1>7. delivery'[n] = all /\ \A o \in Up \ {n} : delivery'[o] = delivery[o]
  BY <1>5, NodeParts DEF TypeOK
<1>8. DeliveryBacked(n)'
  BY <1>4, <1>6, <1>7 DEF DeliveryBacked
<1>9. ASSUME NEW o \in Up
      PROVE  NodeBacked(o)'
  <2>1. TypeOK /\ NodeBacked(o)
    BY NodeParts
  <2>2. DeliveryBacked(o)'
    BY <1>7, <1>8, <2>1, KeepNode
  <2>3. PoolBacked(o)' /\ CommittedBacked(o)' /\ BufferBacked(o)' /\ BatchBacked(o)' /\ OutboxBacked(o)'
    BY <1>5, <2>1, KeepNode
  <2> QED
    BY <2>2, <2>3 DEF NodeBacked
<1> QED
  BY <1>9, NodesTogether

(* node.go:390: what the resolver takes is what was handed to it.          *)
LEMMA resolveMsgVotes ==
  ASSUME NodesAssumption, Inv, TypeOK', StatesGrow, NEW n \in Up, resolveMsg(n)
  PROVE  VotesBacked'
<1>1. /\ delivery[n] # << >> /\ batch' = [batch EXCEPT ![n] = Head(delivery[n])]
      /\ delivery' = [delivery EXCEPT ![n] = Tail(delivery[n])]
      /\ UNCHANGED <<state, committed, buffer, outbox>>
  BY DEF resolveMsg
<1>2. delivery[n] \in Seq(Seq(Resolvable(n)))
  BY NodeParts DEF NodeBacked, DeliveryBacked
<1>3. Head(delivery[n]) \in Seq(Resolvable(n)) /\ Tail(delivery[n]) \in Seq(Seq(Resolvable(n)))
  BY <1>1, <1>2, HeadAndTail
<1>4. Resolvable(n)' = Resolvable(n)
  BY <1>1 DEF Backed, Resolvable, Holders, Certified
<1>5. /\ batch'[n] = Head(delivery[n]) /\ delivery'[n] = Tail(delivery[n])
      /\ \A o \in Up \ {n} : batch'[o] = batch[o] /\ delivery'[o] = delivery[o]
  BY <1>1, NodeParts DEF TypeOK
<1>6. BatchBacked(n)' /\ DeliveryBacked(n)'
  BY <1>3, <1>4, <1>5 DEF BatchBacked, DeliveryBacked
<1>7. ASSUME NEW o \in Up
      PROVE  NodeBacked(o)'
  <2>1. TypeOK /\ NodeBacked(o)
    BY NodeParts
  <2>2. BatchBacked(o)' /\ DeliveryBacked(o)'
    BY <1>5, <1>6, <2>1, KeepNode
  <2>3. PoolBacked(o)' /\ CommittedBacked(o)' /\ BufferBacked(o)' /\ OutboxBacked(o)'
    BY <1>1, <2>1, KeepNode
  <2> QED
    BY <2>2, <2>3 DEF NodeBacked
<1> QED
  BY <1>7, NodesTogether

(* What is left of the batch a handler may still handle. *)
LEMMA HandlesBacked ==
  ASSUME NodesAssumption, Inv, TypeOK', StatesGrow, NEW n \in Up, NEW type, Handles(n, type)
  PROVE  /\ BatchBacked(n)' /\ \A o \in Up \ {n} : batch'[o] = batch[o]
         /\ UNCHANGED <<buffer, delivery>>
<1>1. /\ batch[n] # << >> /\ batch' = [batch EXCEPT ![n] = Tail(batch[n])]
      /\ UNCHANGED <<buffer, delivery>>
  BY HandlesType
<1>2. Tail(batch[n]) \in Seq(Resolvable(n))
  BY <1>1, HeadOfBatch
<1>3. Seq(Resolvable(n)) \subseteq Seq(Resolvable(n)')
  BY NodeParts, BackedGrows, SeqGrows
<1>4. batch'[n] = Tail(batch[n]) /\ \A o \in Up \ {n} : batch'[o] = batch[o]
  BY <1>1, NodeParts DEF TypeOK
<1> QED
  BY <1>1, <1>2, <1>3, <1>4 DEF BatchBacked

(* A node that starts with a request says of itself only that it holds it.  *)
LEMMA StartVotes ==
  ASSUME NodesAssumption, Inv, TypeOK', StatesGrow, NEW n \in Up, NEW type, Handles(n, type),
         committed' = committed,
         NEW s \in ConsensusState, s.prepares = {}, s.commits = {},
         NEW m \in Message, m.from = n, m.req = s.req, m.type \in {"preprepare", "prepare"},
         createStateForNewConsensus(n, s, m)
  PROVE  VotesBacked'
<1>1. TypeOK
  BY DEF Inv
<1>2. /\ \A o \in Up \ {n} : state'[o] = state[o] /\ outbox'[o] = outbox[o]
      /\ \/ state' = state /\ outbox' = outbox
         \/ state[n] = Nil /\ state'[n] = s /\ Broadcast(n, m)
  BY <1>1, createStateType
<1>3. NodeBacked(n)
  BY NodeParts
<1>4. PoolBacked(n)' /\ OutboxBacked(n)'
  <2>1. CASE state' = state /\ outbox' = outbox
    BY <1>1, <1>3, <2>1, KeepNode
  <2>2. CASE state'[n] = s /\ Broadcast(n, m)
    <3>1. state'[n] # Nil /\ state'[n].req = m.req
      BY <2>2, NotNil
    <3>2. \A o \in Up \ {n} : n \in Holders(o, m.req)'
      BY <3>1 DEF Holders
    <3>3. \A o \in Up \ {n} : m \in Backed(o)'
      BY <3>2 DEF Backed
    <3>4. OutboxBacked(n)'
      BY <1>1, <2>2, <3>3, BroadcastBacked
    <3>5. PoolBacked(n)'
      BY <2>2 DEF PoolBacked
    <3> QED
      BY <3>4, <3>5
  <2> QED
    BY <1>2, <2>1, <2>2
<1>5. ASSUME NEW o \in Up
      PROVE  NodeBacked(o)'
  <2>1. NodeBacked(o)
    BY NodeParts
  <2>2. BatchBacked(o)' /\ BufferBacked(o)' /\ DeliveryBacked(o)' /\ CommittedBacked(o)'
    BY <1>1, <2>1, HandlesBacked, KeepNode
  <2>3. PoolBacked(o)' /\ OutboxBacked(o)'
    BY <1>1, <1>2, <1>4, <2>1, KeepNode
  <2> QED
    BY <2>2, <2>3 DEF NodeBacked
<1> QED
  BY <1>5, NodesTogether

(* node.go:126: the pre-prepare of a started consensus is no vote.         *)
LEMMA GetReqVotes ==
  ASSUME NodesAssumption, Inv, TypeOK', StatesGrow, NEW n \in Up, GetReq(n)
  PROVE  VotesBacked'
<1>1. PICK m \in {Head(batch[n])} : TRUE
  OBVIOUS
<1>2. /\ Handles(n, "req") /\ committed' = committed
      /\ createStateForNewConsensus(n, StartConsensus(CreateState, m.req), Msg("preprepare", n, m.req))
  BY <1>1 DEF GetReq
<1>3. m \in Message
  BY <1>1, <1>2, HandlesType, HeadOfBatch
<1>4. PICK s \in {StartConsensus(CreateState, m.req)}, x \in {Msg("preprepare", n, m.req)} : TRUE
  OBVIOUS
<1>5. s \in ConsensusState /\ s.prepares = {} /\ s.commits = {} /\ s.req = m.req
  BY <1>3, <1>4, StartedType
<1>6. x \in Message /\ x.from = n /\ x.req = m.req /\ x.type = "preprepare"
  BY <1>3, <1>4 DEF Msg, Message, Types
<1>7. createStateForNewConsensus(n, s, x)
  BY <1>2, <1>4
<1> QED
  BY <1>2, <1>5, <1>6, <1>7, StartVotes

(* node.go:154: a prepare is sent for the request that is now held.        *)
LEMMA GetPrePrepareVotes ==
  ASSUME NodesAssumption, Inv, TypeOK', StatesGrow, NEW n \in Up, GetPrePrepare(n)
  PROVE  VotesBacked'
<1>1. PICK m \in {Head(batch[n])} : TRUE
  OBVIOUS
<1>2. /\ Handles(n, "preprepare") /\ committed' = committed
      /\ createStateForNewConsensus(n, PrePrepare(CreateState, m), Msg("prepare", n, m.req))
  BY <1>1 DEF GetPrePrepare
<1>3. m \in Message
  BY <1>1, <1>2, HandlesType, HeadOfBatch
<1>4. PICK s \in {PrePrepare(CreateState, m)}, x \in {Msg("prepare", n, m.req)} : TRUE
  OBVIOUS
<1>5. s \in ConsensusState /\ s.prepares = {} /\ s.commits = {} /\ s.req = m.req
  BY <1>3, <1>4, StartedType
<1>6. x \in Message /\ x.from = n /\ x.req = m.req /\ x.type = "prepare"
  BY <1>3, <1>4 DEF Msg, Message, Types
<1>7. createStateForNewConsensus(n, s, x)
  BY <1>2, <1>4
<1> QED
  BY <1>2, <1>5, <1>6, <1>7, StartVotes

(* A vote that is counted is one of those that the pool may hold. *)
LEMMA VotePool ==
  ASSUME NodesAssumption, Inv, TypeOK', StatesGrow, NEW n \in Up,
         NEW m \in Resolvable(n),
         NEW s, \/ s = Prepare(state[n], m) /\ m.type = "prepare"
                \/ s = Commit(state[n], m) /\ m.type = "commit",
         state' = [state EXCEPT ![n] = s]
  PROVE  PoolBacked(n)'
<1>1. m.type \in {"prepare", "commit"}
  OBVIOUS
<1>2. /\ state[n] \in ConsensusState /\ state[n] # Nil
      /\ m \in Message /\ m.from \in Up /\ m.from \in Holders(n, m.req)
      /\ m.type = "commit" => m.from \in Certified(n, m.req)
  BY <1>1, VoteToHandle
<1>3. PICK old \in {state[n]} : TRUE
  OBVIOUS
<1>4. TypeOK /\ old \in ConsensusState
  BY <1>2, <1>3 DEF Inv
<1>5. state'[n] = s /\ s \in ConsensusState /\ s.req = old.req
  <2>1. s \in {Prepare(old, m), Commit(old, m)}
    BY <1>3
  <2>2. s \in ConsensusState /\ s.req = old.req
    BY Zenon, <1>2, <1>4, <2>1, VoteKeeps
  <2>3. DOMAIN state = Up
    BY <1>4 DEF TypeOK
  <2>4. state'[n] = s
    BY <2>3
  <2> QED
    BY <2>2, <2>4
<1>6. /\ Prepare(old, m).prepares = IF m.req = old.req THEN old.prepares \cup {m.from} ELSE old.prepares
      /\ Prepare(old, m).commits = old.commits
      /\ Commit(old, m).prepares = old.prepares
      /\ Commit(old, m).commits = IF m.req = old.req THEN old.commits \cup {m.from} ELSE old.commits
  BY <1>2, <1>4, VoteAdds
<1>7. old.prepares \subseteq Holders(n, old.req) /\ old.commits \subseteq Certified(n, old.req)
  BY <1>2, <1>3, NodeParts DEF NodeBacked, PoolBacked
<1>8. s.prepares \subseteq Holders(n, old.req) /\ s.commits \subseteq Certified(n, old.req)
  BY <1>2, <1>3, <1>6, <1>7
<1>9. s.prepares \subseteq Holders(n, old.req)' /\ s.commits \subseteq Certified(n, old.req)'
  BY <1>4, <1>8, HoldersGrow
<1> QED
  BY <1>5, <1>9 DEF PoolBacked

(* node.go:180: a commit is sent with 2f prepares in the pool.             *)
LEMMA GetPrepareVotes ==
  ASSUME NodesAssumption, Inv, TypeOK', StatesGrow, NEW n \in Up, GetPrepare(n)
  PROVE  VotesBacked'
<1>1. PICK m \in {Head(batch[n])} : TRUE
  OBVIOUS
<1>2. PICK s \in {Prepare(state[n], m)} : TRUE
  OBVIOUS
<1>3. PICK x \in {Msg("commit", n, m.req)} : TRUE
  OBVIOUS
<1>4. /\ Handles(n, "prepare") /\ committed' = committed /\ state' = [state EXCEPT ![n] = s]
      /\ \/ verifyMsg(state[n], m) /\ prepared(s) /\ Broadcast(n, x)
         \/ outbox' = outbox
  BY <1>1, <1>2, <1>3 DEF GetPrepare
<1>5. m \in Resolvable(n) /\ m.type = "prepare"
  BY <1>1, <1>4, HandlesType, HeadOfBatch
<1>6. state[n] \in ConsensusState /\ m \in Message /\ m.from \in Up
  BY <1>5, VoteToHandle
<1>7. TypeOK /\ NodeBacked(n)
  BY NodeParts
<1>8. /\ state'[n] = s /\ s \in ConsensusState /\ s # Nil /\ s.req = state[n].req
      /\ \A o \in Up \ {n} : state'[o] = state[o]
  <2>1. PICK old : old = state[n]
    OBVIOUS
  <2>2. s \in {Prepare(old, m), Commit(old, m)} /\ old \in ConsensusState
    BY <1>2, <1>6, <2>1
  <2>3. s \in ConsensusState /\ s.req = old.req
    BY Zenon, <1>6, <2>2, VoteKeeps
  <2>4. DOMAIN state = Up
    BY <1>7 DEF TypeOK
  <2>5. state'[n] = s /\ \A o \in Up \ {n} : state'[o] = state[o]
    BY <1>4, <2>4
  <2>6. s # Nil
    BY <2>3, NotNil
  <2> QED
    BY <2>1, <2>3, <2>5, <2>6
<1>9. s.req = state[n].req
  BY <1>8
<1>10. PoolBacked(n)'
  BY <1>2, <1>4, <1>5, VotePool
<1>11. OutboxBacked(n)' /\ \A o \in Up \ {n} : outbox'[o] = outbox[o]
  <2>1. CASE outbox' = outbox
    BY <1>7, <2>1, KeepNode
  <2>2. CASE verifyMsg(state[n], m) /\ prepared(s) /\ Broadcast(n, x)
    <3>1. x \in Message /\ x.from = n /\ x.req = m.req /\ x.type = "commit"
      BY <1>3, <1>6 DEF Msg, Message, Types
    <3>2. s.req = m.req
      BY <1>9, <2>2 DEF verifyMsg
    <3>3. \A o \in Up \ {n} : n \in Certified(o, m.req)'
      BY <1>8, <2>2, <3>2 DEF Certified, Holders
    <3>4. \A o \in Up \ {n} : x \in Backed(o)'
      BY <3>1, <3>3 DEF Backed
    <3> QED
      BY <1>7, <2>2, <3>1, <3>4, BroadcastBacked, BroadcastType
  <2> QED
    BY <1>4, <2>1, <2>2
<1>12. ASSUME NEW o \in Up
       PROVE  NodeBacked(o)'
  <2>1. NodeBacked(o)
    BY NodeParts
  <2>2. BatchBacked(o)' /\ BufferBacked(o)' /\ DeliveryBacked(o)' /\ CommittedBacked(o)'
    BY <1>4, <1>7, <2>1, HandlesBacked, KeepNode
  <2>3. PoolBacked(o)' /\ OutboxBacked(o)'
    BY <1>7, <1>8, <1>10, <1>11, <2>1, KeepNode
  <2> QED
    BY <2>2, <2>3 DEF NodeBacked
<1> QED
  BY <1>12, NodesTogether

(* node.go:200: what is committed is held with both quorums.               *)
LEMMA GetCommitVotes ==
  ASSUME NodesAssumption, Inv, TypeOK', StatesGrow, NEW n \in Up, GetCommit(n)
  PROVE  VotesBacked'
<1>1. PICK m \in {Head(batch[n])} : TRUE
  OBVIOUS
<1>2. PICK s \in {Commit(state[n], m)} : TRUE
  OBVIOUS
<1>3. /\ Handles(n, "commit") /\ outbox' = outbox /\ state' = [state EXCEPT ![n] = s]
      /\ \/ isCommitted(s) /\ Reply(n, s)
         \/ committed' = committed
  BY <1>1, <1>2 DEF GetCommit
<1>4. m \in Resolvable(n) /\ m.type = "commit"
  BY <1>1, <1>3, HandlesType, HeadOfBatch
<1>5. state[n] \in ConsensusState /\ m \in Message /\ m.from \in Up
  BY <1>4, VoteToHandle
<1>6. TypeOK /\ NodeBacked(n)
  BY NodeParts
<1>7. /\ state'[n] = s /\ s \in ConsensusState /\ s # Nil /\ s.req = state[n].req
      /\ \A o \in Up \ {n} : state'[o] = state[o]
  <2>1. PICK old : old = state[n]
    OBVIOUS
  <2>2. s \in {Prepare(old, m), Commit(old, m)} /\ old \in ConsensusState
    BY <1>2, <1>5, <2>1
  <2>3. s \in ConsensusState /\ s.req = old.req
    BY Zenon, <1>5, <2>2, VoteKeeps
  <2>4. DOMAIN state = Up
    BY <1>6 DEF TypeOK
  <2>5. state'[n] = s /\ \A o \in Up \ {n} : state'[o] = state[o]
    BY <1>3, <2>4
  <2>6. s # Nil
    BY <2>3, NotNil
  <2> QED
    BY <2>1, <2>3, <2>5, <2>6
<1>8. s.req = state[n].req
  BY <1>7
<1>9. PoolBacked(n)'
  BY <1>2, <1>3, <1>4, VotePool
<1>10. CommittedBacked(n)' /\ \A o \in Up \ {n} : committed'[o] = committed[o]
  <2>1. CASE committed' = committed
    BY <1>6, <2>1, KeepNode
  <2>2. CASE isCommitted(s) /\ Reply(n, s)
    <3>1. committed[n] \in Seq(DOMAIN Requests) /\ s.req \in DOMAIN Requests
      BY <1>6, <1>7 DEF TypeOK, ConsensusState
    <3>2. committed[n] # << >> => committed[n][1] = s.req
      BY <1>6, <1>8 DEF NodeBacked, CommittedBacked
    <3>3. Append(committed[n], s.req)[1] = s.req
      <4>1. CASE committed[n] = << >>
        BY <4>1
      <4>2. CASE committed[n] # << >>
        BY <3>1, <3>2, <4>2, AppendProperties, EmptySeq
      <4> QED
        BY <4>1, <4>2
    <3>4. /\ committed'[n] = Append(committed[n], s.req)
          /\ \A o \in Up \ {n} : committed'[o] = committed[o]
      BY <1>6, <2>2 DEF TypeOK, Reply
    <3> QED
      BY <1>7, <2>2, <3>3, <3>4 DEF CommittedBacked
  <2> QED
    BY <1>3, <2>1, <2>2
<1>11. ASSUME NEW o \in Up
       PROVE  NodeBacked(o)'
  <2>1. NodeBacked(o)
    BY NodeParts
  <2>2. BatchBacked(o)' /\ BufferBacked(o)' /\ DeliveryBacked(o)' /\ OutboxBacked(o)'
    BY <1>3, <1>6, <2>1, HandlesBacked, KeepNode
  <2>3. PoolBacked(o)' /\ CommittedBacked(o)'
    BY <1>6, <1>7, <1>9, <1>10, <2>1, KeepNode
  <2> QED
    BY <2>2, <2>3 DEF NodeBacked
<1> QED
  BY <1>11, NodesTogether

-----------------------------------------------------------------------------
(* The invariant holds at the start, and every step keeps it. *)
LEMMA InvInit ==
  ASSUME NodesAssumption, Init
  PROVE  Inv
<1>1. TypeOK
  BY EmptySeq DEF Init, TypeOK
<1>2. \A n \in Up : /\ state[n] = Nil /\ committed[n] = << >> /\ delivery[n] = << >>
                    /\ batch[n] = << >> /\ outbox[n] = << >>
                    /\ \A t \in Types : buffer[n][t] = << >>
  BY DEF Init
<1>3. VotesBacked
  BY <1>2, EmptySeq DEF VotesBacked
<1> QED
  BY <1>1, <1>3 DEF Inv

(* Every step keeps the invariant.                                         *)
LEMMA InvStep ==
  ASSUME NodesAssumption, Inv, [Next]_vars
  PROVE  Inv'
<1>1. TypeOK' /\ StatesGrow
  BY TypeStep
<1>2. CASE UNCHANGED vars
  <2>1. ASSUME NEW n \in Up PROVE NodeBacked(n)'
    BY <1>1, <1>2, NodeParts, KeepNode DEF vars, NodeBacked
  <2> QED
    BY <1>1, <2>1, NodesTogether DEF Inv
<1>3. CASE Next
  BY <1>1, <1>3, getReqVotes, getPostVotes, routeMsgWhenAlarmedVotes, resolveMsgVotes,
     GetReqVotes, GetPrePrepareVotes, GetPrepareVotes, GetCommitVotes DEF Next, Inv
<1> QED
  BY <1>2, <1>3

-----------------------------------------------------------------------------
(* Two quorums of prepares meet in a node that holds both requests. *)
LEMMA PreparedMeet ==
  ASSUME NodesAssumption, Inv, NEW n \in Up, NEW o \in Up, state[n] # Nil, state[o] # Nil,
         prepared(state[n]), prepared(state[o])
  PROVE  state[n].req = state[o].req
<1> DEFINE Q(p) == state[p].prepares \cup {p}
<1>1. ASSUME NEW p \in Up, state[p] # Nil, prepared(state[p])
      PROVE  /\ Q(p) \subseteq Up /\ IsFiniteSet(Q(p)) /\ Cardinality(Q(p)) >= 2 * f + 1
             /\ Cardinality(Q(p)) \in Nat
             /\ \A q \in Q(p) : state[q].req = state[p].req
  <2>1. state[p].prepares \subseteq Holders(p, state[p].req)
    BY <1>1, NodeParts DEF NodeBacked, PoolBacked
  <2>2. state[p].prepares \subseteq Up \ {p}
    BY <2>1 DEF Holders
  <2>3. IsFiniteSet(state[p].prepares)
    BY <2>2, FS_Subset
  <2>4. Cardinality(Q(p)) = Cardinality(state[p].prepares) + 1 /\ IsFiniteSet(Q(p))
    BY <2>2, <2>3, FS_AddElement
  <2>5. Cardinality(state[p].prepares) >= 2 * f /\ Cardinality(state[p].prepares) \in Nat
    BY <1>1, <2>3, FS_CardinalityType DEF prepared
  <2> QED
    BY <2>1, <2>2, <2>4, <2>5 DEF Holders
<1>2. PICK A \in {Q(n)}, B \in {Q(o)} : TRUE
  OBVIOUS
<1>3. /\ A \subseteq Up /\ IsFiniteSet(A) /\ Cardinality(A) >= 2 * f + 1 /\ Cardinality(A) \in Nat
      /\ B \subseteq Up /\ IsFiniteSet(B) /\ Cardinality(B) >= 2 * f + 1 /\ Cardinality(B) \in Nat
  BY <1>1, <1>2
<1>4. Cardinality(A \cup B) <= Cardinality(Up) /\ Cardinality(A \cup B) \in Nat
      /\ Cardinality(Up) \in Nat
  BY <1>3, FS_Subset, FS_CardinalityType
<1>5. Cardinality(A \cup B) = Cardinality(A) + Cardinality(B) - Cardinality(A \cap B)
      /\ Cardinality(A \cap B) \in Nat
  BY <1>3, FS_Union, FS_Intersection, FS_CardinalityType
<1>6. A \cap B # {}
  <2>1. PICK a \in Nat, b \in Nat, i \in Nat, u \in Nat, all \in Nat :
          /\ a = Cardinality(A) /\ b = Cardinality(B) /\ i = Cardinality(A \cap B)
          /\ u = Cardinality(A \cup B) /\ all = Cardinality(Up)
    BY <1>3, <1>4, <1>5
  <2>2. a >= 2 * f + 1 /\ b >= 2 * f + 1 /\ u <= all /\ all <= 3 * f + 1 /\ u = a + b - i
    BY <1>3, <1>4, <1>5, <2>1
  <2>3. i >= 1
    BY SMTT(30), <2>2
  <2>4. Cardinality({}) = 0
    BY FS_EmptySet
  <2>5. ASSUME A \cap B = {} PROVE FALSE
    <3>1. i = 0
      BY <2>1, <2>4, <2>5
    <3> QED
      BY <2>3, <3>1
  <2> QED
    BY <2>5
<1>7. PICK q \in A \cap B : TRUE
  BY <1>6
<1> QED
  BY ZenonT(30), <1>1, <1>2, <1>7

(* network/node.go, consensus/pbft_impl.go: every vote is true wherever it   *)
(* waits or is counted, and no resolver gets a vote before its node has a    *)
(* state.                                                                   *)
THEOREM VotesAreBacked ==
  ASSUME NodesAssumption
  PROVE  Spec => [](TypeOK /\ VotesBacked)
<1>1. Init => Inv
  BY InvInit
<1>2. Inv /\ [Next]_vars => Inv'
  BY InvStep
<1> QED
  BY <1>1, <1>2, PTL DEF Spec, Inv

(* consensus/pbft_impl.go:189: whichever nodes the clients turn to, nodes    *)
(* that reached 2f prepares reached them for one request.                   *)
THEOREM PreparedAgreeHolds ==
  ASSUME NodesAssumption
  PROVE  Spec => []PreparedAgree
<1>1. Init => Inv
  BY InvInit
<1>2. Inv /\ [Next]_vars => Inv'
  BY InvStep
<1>3. Inv => PreparedAgree
  BY PreparedMeet DEF PreparedAgree
<1> QED
  BY <1>1, <1>2, <1>3, PTL DEF Spec

(* consensus/pbft_impl.go:201: 2f others have prepared what a node commits.  *)
THEOREM CommitBackedHolds ==
  ASSUME NodesAssumption
  PROVE  Spec => []CommitBackedByPrepares
<1>1. Init => Inv
  BY InvInit
<1>2. Inv /\ [Next]_vars => Inv'
  BY InvStep
<1>3. Inv => CommitBackedByPrepares
  <2> SUFFICES ASSUME Inv, NEW n \in Up, committed[n] # << >>
               PROVE  Cardinality({o \in Up \ {n} : state[o] # Nil /\ state[o].req = committed[n][1]
                                                    /\ prepared(state[o])}) >= 2 * f
    BY DEF CommitBackedByPrepares
  <2>1. state[n] # Nil /\ isCommitted(state[n]) /\ committed[n][1] = state[n].req
    BY NodeParts DEF NodeBacked, CommittedBacked
  <2>2. state[n].commits \subseteq Certified(n, state[n].req)
    BY <2>1, NodeParts DEF NodeBacked, PoolBacked
  <2>3. PICK C \in {Certified(n, state[n].req)} : TRUE
    OBVIOUS
  <2>4. C = {o \in Up \ {n} : state[o] # Nil /\ state[o].req = committed[n][1]
                              /\ prepared(state[o])}
    BY <2>1, <2>3 DEF Certified, Holders
  <2>5. IsFiniteSet(C)
    BY <2>4, FS_Subset
  <2>6. Cardinality(state[n].commits) <= Cardinality(C) /\ IsFiniteSet(state[n].commits)
    BY <2>2, <2>3, <2>5, FS_Subset
  <2>7. Cardinality(state[n].commits) \in Nat /\ Cardinality(C) \in Nat
    BY <2>5, <2>6, FS_CardinalityType
  <2>8. Cardinality(state[n].commits) >= 2 * f
    BY <2>1 DEF isCommitted
  <2> QED
    BY <2>4, <2>6, <2>7, <2>8
<1> QED
  BY <1>1, <1>2, <1>3, PTL DEF Spec

(* Together, for any clients, lost posts and alarms: votes are true and the  *)
(* quorums counted from them overlap.                                       *)
THEOREM SimpleQuorumsHoldAlways ==
  ASSUME NodesAssumption
  PROVE  Spec => []SimpleQuorumsHold
BY VotesAreBacked, PreparedAgreeHolds, CommitBackedHolds, PTL DEF SimpleQuorumsHold
=============================================================================
