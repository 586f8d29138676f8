------------------------------ MODULE SimplePBFT ------------------------------
(***************************************************************************)
(* The PBFT demo with a message pool (network/node.go, consensus/          *)
(* pbft_impl.go).  A node has two goroutines that share CurrentState       *)
(* without a lock: the dispatcher takes a message that an HTTP handler     *)
(* offers on MsgEntrance and routes it, the resolver handles the batches   *)
(* that it gets on MsgDelivery.  Both channels are unbuffered and http.Post*)
(* returns only when the receiver's dispatcher took the message, so a      *)
(* resolver that broadcasts waits for the dispatchers of its peers.        *)
(***************************************************************************)
EXTENDS Integers, Sequences, FiniteSets

CONSTANTS
  f,        \* tolerated faults
  Up,       \* the nodes of NodeTable that run; a post to another one fails at once
  Failing,  \* bound: <<type, to>> of the posts that fail
  Requests, \* requests: a function from each request to the node it is sent to
  Orders,   \* bound: the orders in which nodes may come out of NodeTable, none twice
  MaxAlarm  \* bound: alarms that find something to deliver

(* f = (n - 1) / 3 and n nodes in NodeTable: no more than 3f + 1 are up.    *)
(* What the theorems ask of the constants.                                  *)
NodesAssumption ==
  /\ f \in Nat
  /\ IsFiniteSet(Up) /\ Cardinality(Up) <= 3 * f + 1
  /\ Requests \in [DOMAIN Requests -> Up]
  /\ Orders \subseteq Seq(Up)
  /\ MaxAlarm \in Nat

VARIABLES
  requested, \* requests the client still has to send
  state,     \* CurrentState
  committed, \* CommittedMsgs
  buffer,    \* MsgBuffer: one sequence per message type
  delivery,  \* batches the dispatcher waits to hand over
  batch,     \* messages the resolver still has to handle
  outbox,    \* posts the resolver still has to make, the one under way first
  alarms     \* alarms so far

vars == <<requested, state, committed, buffer, delivery, batch, outbox, alarms>>

(* A request gets a new sequence number, which its digest covers: the       *)
(* request stands for number and digest.                                    *)
Msg(type, from, req) == [type |-> type, from |-> from, req |-> req]
Types == {"req", "preprepare", "prepare", "commit"}
Message == [type : Types, from : Up \cup {"client"}, req : DOMAIN Requests]

Nil == [stage |-> "nil"]

(* CreateState.  CurrentState is never reset, so that there is one consensus *)
(* and LastSequenceID is always -1.                                          *)
CreateState == [stage |-> "idle", req |-> "none", prepares |-> {}, commits |-> {}]

(* StartConsensus at the node that got the request, PrePrepare at the others: *)
(* there verifyMsg holds, the digest is that of the request just stored.      *)
StartConsensus(s, r) == [s EXCEPT !.req = r, !.stage = "preprepared"]
PrePrepare(s, m) == [s EXCEPT !.req = m.req, !.stage = "preprepared"]

Init ==
  /\ requested = DOMAIN Requests
  /\ state = [n \in Up |-> Nil]
  /\ committed = [n \in Up |-> << >>]
  /\ buffer = [n \in Up |-> [t \in Types |-> << >>]]
  /\ delivery = [n \in Up |-> << >>]
  /\ batch = [n \in Up |-> << >>]
  /\ outbox = [n \in Up |-> << >>]
  /\ alarms = 0

-----------------------------------------------------------------------------
(* The dispatcher *)

(* The stage in which a message of type t is delivered and not buffered. *)
Awaited(s, t) ==
  s.stage = [req |-> "nil", preprepare |-> "nil", prepare |-> "preprepared",
             commit |-> "prepared"][t]

routeMsg(n, m) ==
  /\ delivery[n] = << >>
  /\ LET all == Append(buffer[n][m.type], m)
     IN  IF Awaited(state[n], m.type)
         THEN /\ delivery' = [delivery EXCEPT ![n] = <<all>>]
              /\ buffer' = [buffer EXCEPT ![n][m.type] = << >>]
         ELSE /\ buffer' = [buffer EXCEPT ![n][m.type] = all]
              /\ UNCHANGED delivery

(* getReq: the client's post. *)
getReq(r) ==
  /\ r \in requested
  /\ requested' = requested \ {r}
  /\ routeMsg(Requests[r], Msg("req", "client", r))
  /\ UNCHANGED <<state, committed, batch, outbox, alarms>>

(* getPrePrepare, getPrepare and getCommit: the post under way at o. *)
getPost(o) ==
  /\ outbox[o] # << >>
  /\ routeMsg(Head(outbox[o]).to, Head(outbox[o]).msg)
  /\ outbox' = [outbox EXCEPT ![o] = Tail(@)]
  /\ UNCHANGED <<requested, state, committed, batch, alarms>>

(* What is delivered on an alarm also stays in the buffer. *)
routeMsgWhenAlarmed(n) ==
  LET Due(t) == IF Awaited(state[n], t) /\ buffer[n][t] # << >> THEN <<buffer[n][t]>> ELSE << >>
      all == Due("req") \o Due("preprepare") \o Due("prepare") \o Due("commit")
  IN  /\ delivery[n] = << >> /\ all # << >>
      /\ alarms < MaxAlarm /\ alarms' = alarms + 1
      /\ delivery' = [delivery EXCEPT ![n] = all]
      /\ UNCHANGED <<requested, state, committed, buffer, batch, outbox>>

-----------------------------------------------------------------------------
(* The resolver *)

resolveMsg(n) ==
  /\ delivery[n] # << >> /\ batch[n] = << >> /\ outbox[n] = << >>
  /\ batch' = [batch EXCEPT ![n] = Head(delivery[n])]
  /\ delivery' = [delivery EXCEPT ![n] = Tail(@)]
  /\ UNCHANGED <<requested, state, committed, buffer, outbox, alarms>>

(* The next message of the batch, once the posts for the last one are made. *)
Handles(n, type) == /\ batch[n] # << >> /\ outbox[n] = << >> /\ Head(batch[n]).type = type
                    /\ batch' = [batch EXCEPT ![n] = Tail(@)]
                    /\ UNCHANGED <<requested, buffer, delivery, alarms>>

(* Broadcast goes through NodeTable in an order that Go leaves open. *)
Broadcast(n, m) ==
  \E peers \in Orders :
    /\ {peers[i] : i \in DOMAIN peers} = {o \in Up \ {n} : <<m.type, o>> \notin Failing}
    /\ outbox' = [outbox EXCEPT ![n] = [i \in DOMAIN peers |-> [to |-> peers[i], msg |-> m]]]

(* createStateForNewConsensus fails when there is a state. *)
createStateForNewConsensus(n, started, reply) ==
  IF state[n] = Nil
  THEN state' = [state EXCEPT ![n] = started] /\ Broadcast(n, reply)
  ELSE UNCHANGED <<state, outbox>>

GetReq(n) ==
  LET m == Head(batch[n])
  IN  /\ Handles(n, "req")
      /\ createStateForNewConsensus(n, StartConsensus(CreateState, m.req), Msg("preprepare", n, m.req))
      /\ UNCHANGED committed

GetPrePrepare(n) ==
  LET m == Head(batch[n])
  IN  /\ Handles(n, "preprepare")
      /\ createStateForNewConsensus(n, PrePrepare(CreateState, m), Msg("prepare", n, m.req))
      /\ UNCHANGED committed

(* Mutant of verifyMsg: the digest is not compared. *)
verifyMsgBlind(s, m) == TRUE
(* verifyMsg *)
verifyMsg(s, m) == m.req = s.req

(* prepared *)
prepared(s) == Cardinality(s.prepares) >= 2 * f

(* Mutant of isCommitted: only prepared is asked. *)
isCommittedLow(s) == prepared(s) /\ Cardinality(s.commits) >= f
(* committed *)
isCommitted(s) == prepared(s) /\ Cardinality(s.commits) >= 2 * f

(* The stage is not looked at: a late prepare takes it back. *)
Prepare(s, m) ==
  LET new == [s EXCEPT !.prepares = @ \cup {m.from}]
  IN  IF ~verifyMsg(s, m) THEN s
      ELSE IF prepared(new) THEN [new EXCEPT !.stage = "prepared"] ELSE new

Commit(s, m) ==
  LET new == [s EXCEPT !.commits = @ \cup {m.from}]
  IN  IF ~verifyMsg(s, m) THEN s
      ELSE IF isCommitted(new) THEN [new EXCEPT !.stage = "committed"] ELSE new

GetPrepare(n) ==
  LET m == Head(batch[n])
      s == Prepare(state[n], m)
  IN  /\ Handles(n, "prepare")
      /\ state' = [state EXCEPT ![n] = s]
      /\ IF verifyMsg(state[n], m) /\ prepared(s)
         THEN Broadcast(n, Msg("commit", n, m.req)) ELSE UNCHANGED outbox
      /\ UNCHANGED committed

(* Reply only prints, here and at the primary, without the dispatcher. *)
Reply(n, s) == committed' = [committed EXCEPT ![n] = Append(@, s.req)]

GetCommit(n) ==
  LET m == Head(batch[n])
      s == Commit(state[n], m)
  IN  /\ Handles(n, "commit")
      /\ state' = [state EXCEPT ![n] = s]
      /\ IF verifyMsg(state[n], m) /\ isCommitted(s) THEN Reply(n, s) ELSE UNCHANGED committed
      /\ UNCHANGED outbox

Next ==
  \/ \E r \in DOMAIN Requests : getReq(r)
  \/ \E n \in Up :
       \/ getPost(n)
       \/ routeMsgWhenAlarmed(n)
       \/ resolveMsg(n)
       \/ GetReq(n)
       \/ GetPrePrepare(n)
       \/ GetPrepare(n)
       \/ GetCommit(n)

Spec == Init /\ [][Next]_vars

-----------------------------------------------------------------------------
(* Properties *)

ConsensusState ==
  [stage : {"preprepared", "prepared", "committed"}, req : DOMAIN Requests,
   prepares : SUBSET Up, commits : SUBSET Up]
Post == [to : Up, msg : Message]

(* The type invariant. *)
TypeOK ==
  /\ requested \subseteq DOMAIN Requests
  /\ state \in [Up -> {Nil} \cup ConsensusState]
  /\ committed \in [Up -> Seq(DOMAIN Requests)]
  /\ buffer \in [Up -> [Types -> Seq(Message)]]
  /\ delivery \in [Up -> Seq(Seq(Message))]
  /\ batch \in [Up -> Seq(Message)]
  /\ outbox \in [Up -> Seq(Post)]
  /\ alarms \in 0 .. MaxAlarm

(* The nodes but n that hold request r, and those of them with 2f prepares. *)
Holders(n, r) == {o \in Up \ {n} : state[o] # Nil /\ state[o].req = r}
Certified(n, r) == {o \in Holders(n, r) : prepared(state[o])}

(* The messages that n may get: a vote is another node's, for the request   *)
(* which that node holds; and those that n's resolver may get: votes only   *)
(* once there is a state to count them in.                                  *)
Backed(n) == {m \in Message : /\ m.type = "prepare" => m.from \in Holders(n, m.req)
                              /\ m.type = "commit" => m.from \in Certified(n, m.req)}
Resolvable(n) == {m \in Backed(n) : m.type \in {"prepare", "commit"} => state[n] # Nil}

(* Votes stay true from the resolver that casts them through the post, the  *)
(* dispatcher's buffer, the batch and the pool of the node that counts      *)
(* them, whatever the order; no node's resolver gets a vote without a state *)
(* (node.go:181 and 201 would follow a nil pointer); and what a node        *)
(* committed it committed with both quorums, for the request that it holds. *)
VotesBacked ==
  \A n \in Up :
    /\ state[n] # Nil => /\ state[n].prepares \subseteq Holders(n, state[n].req)
                         /\ state[n].commits \subseteq Certified(n, state[n].req)
    /\ committed[n] # << >> => /\ state[n] # Nil /\ isCommitted(state[n])
                               /\ committed[n][1] = state[n].req
    /\ \A t \in Types : buffer[n][t] \in Seq({m \in Backed(n) : m.type = t})
    /\ delivery[n] \in Seq(Seq(Resolvable(n)))
    /\ batch[n] \in Seq(Resolvable(n))
    /\ outbox[n] \in Seq({p \in Post : p.msg \in Backed(p.to)})

(* Whichever nodes clients turn to, and however the two goroutines race,    *)
(* nodes that reached 2f prepares reached them for one request; as many     *)
(* prepares come after a commit, so that they commit one request only.      *)
PreparedAgree ==
  \A n, o \in Up : state[n] # Nil /\ state[o] # Nil /\ prepared(state[n]) /\ prepared(state[o])
    => state[n].req = state[o].req

(* A node that committed knows 2f others that had 2f prepares when they     *)
(* sent their commit.                                                       *)
CommitBackedByPrepares ==
  \A n \in Up : committed[n] # << >> =>
    Cardinality({o \in Up \ {n} : state[o] # Nil /\ state[o].req = committed[n][1]
                                  /\ prepared(state[o])}) >= 2 * f

(* o's resolver waits for n: it posts to n, whose dispatcher waits for n's   *)
(* resolver, which is not free.                                             *)
WaitsFor(o, n) ==
  /\ outbox[o] # << >> /\ Head(outbox[o]).to = n
  /\ delivery[n] # << >> /\ outbox[n] # << >>

(* No two resolvers wait for each other forever. *)
NoCircularWait == \A n, o \in Up : ~(WaitsFor(n, o) /\ WaitsFor(o, n))

(* The two quorums of a round overlap as they are counted, and what they    *)
(* count is what was voted.                                                 *)
SimpleQuorumsHold == TypeOK /\ VotesBacked /\ PreparedAgree /\ CommitBackedByPrepares
=============================================================================
