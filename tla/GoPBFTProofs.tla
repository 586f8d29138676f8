---------------------------- MODULE GoPBFTProofs -----------------------------
(***************************************************************************)
(* The quorums of GoPBFT for every table of replicas, every period and any *)
(* number of requests, although the handlers count log entries and not     *)
(* replicas; and the proof that a checkpoint never becomes stable.  Then   *)
(* the view change of GoPBFTViewChange, for every table, logs and messages *)
(* of the faulty replicas.                                                 *)
(***************************************************************************)
EXTENDS GoPBFT, TLAPS, FiniteSetTheorems, SequenceTheorems

USE ReplicaAssumption, PeriodAssumption, BoundAssumption

(* Two thirds of the replicas is a natural number. *)
LEMMA ThirdNat == N \in Nat /\ (2 * N) \div 3 \in Nat
<1>1. N \in Nat
  BY FS_CardinalityType DEF N
<1> QED
  BY <1>1

(* A request built from well-typed fields is a log entry. *)
LEMMA ReqType ==
  ASSUME NEW type, NEW D, NEW s \in Nat, NEW d \in D, NEW r \in Replica,
         NEW via \in {"own", "net"}
  PROVE  Req(type, s, d, r, via) \in Log(type, D)
BY DEF Req, Log

(* The fields of a request, and of a log entry. *)
LEMMA ReqFields ==
  ASSUME NEW type, NEW s, NEW d, NEW r, NEW via
  PROVE  LET q == Req(type, s, d, r, via)
         IN  q.type = type /\ q.sequence = s /\ q.digest = d /\ q.replica = r /\ q.via = via
BY DEF Req

(* Putting an element at the end. *)
LEMMA AppendOne ==
  ASSUME NEW S, NEW s \in Seq(S), NEW x \in S
  PROVE  Append(s, x) \in Seq(S)
BY AppendProperties

(* The fields of an entry of a log. *)
LEMMA LogFields ==
  ASSUME NEW type, NEW D, NEW e \in Log(type, D)
  PROVE  /\ e.type = type /\ e.sequence \in Nat /\ e.digest \in D
         /\ e.replica \in Replica /\ e.via \in {"own", "net"}
         /\ e = Req(type, e.sequence, e.digest, e.replica, e.via)
BY DEF Req, Log

(* The type of a message tells its shape. *)
LEMMA ByType ==
  ASSUME NEW m, MsgOK(m)
  PROVE  /\ m.type = "client" => m \in Log("client", Timestamp)
         /\ m.type = "pre-prepare" => m \in Log("pre-prepare", Timestamp)
         /\ m.type = "prepare" => m \in Log("prepare", Timestamp)
         /\ m.type = "commit" => m \in Log("commit", {0})
         /\ m.type = "checkpoint" => m \in Log("checkpoint", Replica \X Timestamp)
BY DEF MsgOK, Log

(* Handling a message and multicasting another keep the shape of the network. *)
LEMMA NetStep ==
  ASSUME NetOK, NEW r, NEW m, NEW q, MsgOK(q),
         net' \subseteq Without(r, m) \cup Multicast(q)
  PROVE  NetOK'
<1> SUFFICES ASSUME NEW x \in net'
             PROVE  x = [to |-> x.to, msg |-> x.msg] /\ x.to \in Live /\ MsgOK(x.msg)
  BY DEF NetOK, MsgOK, Log
<1>1. x \in net \/ x \in Multicast(q)
  BY DEF Without
<1>2. CASE x \in net
  BY <1>2 DEF NetOK
<1>3. CASE x \in Multicast(q)
  BY <1>3 DEF Multicast
<1> QED
  BY <1>1, <1>2, <1>3

(* Delivered messages leave the network in shape. *)
LEMMA NetShrinks ==
  ASSUME NetOK, net' \subseteq net
  PROVE  NetOK'
BY DEF NetOK, MsgOK, Log
-----------------------------------------------------------------------------
(* The state keeps its shape. *)
LEMMA TypeStep ==
  ASSUME TypeOK, [Next]_vars
  PROVE  TypeOK'
<1>n. NetOK
  BY DEF TypeOK
<1>1. ASSUME SendRequest PROVE TypeOK'
  <2>1. time + 1 \in Timestamp /\ time' \in 0 .. MaxRequest
    BY SMTT(30), <1>1 DEF TypeOK, SendRequest, Timestamp
  <2> DEFINE q == Req("client", 0, time + 1, Primary, "net")
  <2>2. MsgOK(q)
    BY <2>1, ReqType DEF MsgOK
  <2>3. \A x \in Multicast(q) : x = [to |-> x.to, msg |-> x.msg] /\ x.to \in Live /\ x.msg = q
    BY DEF Multicast
  <2>4. net' = net \cup Multicast(q)
    BY <1>1 DEF SendRequest
  <2> HIDE DEF q
  <2>5. NetOK'
    BY <1>n, <2>2, <2>3, <2>4 DEF NetOK, MsgOK, Log
  <2> QED
    BY <1>1, <2>1, <2>5 DEF TypeOK, SendRequest, logs
<1>2. ASSUME NEW x \in net, handleRequestClient(x.to, x.msg) PROVE TypeOK'
  <2> DEFINE r == x.to
             m == x.msg
             s == sequence[r] + 1
             pp == Req("pre-prepare", s, m.digest, r, "net")
  <2>1. r \in Replica /\ m.digest \in Timestamp /\ s \in Nat
    <3>1. m.type = "client" /\ MsgOK(m) /\ r \in Live
      BY <1>2, <1>n DEF handleRequestClient, NetOK
    <3>2. m \in Log("client", Timestamp)
      BY <3>1, ByType
    <3>3. m.digest \in Timestamp
      BY Zenon, <3>2, LogFields
    <3>4. r \in Replica
      BY <3>1
    <3>5. sequence[r] \in Nat
      BY <3>4 DEF TypeOK
    <3> QED
      BY <3>3, <3>4, <3>5
  <2>2. pp \in Log("pre-prepare", Timestamp)
    BY <2>1, ReqType
  <2>3. sequence' \in [Replica -> Nat]
    BY <1>2, <2>1 DEF TypeOK, handleRequestClient
  <2>4. clients' \in [Replica -> SUBSET Timestamp]
    <3>1. clients' = clients \/ clients' = [clients EXCEPT ![r] = @ \cup {m.digest}]
      BY <1>2 DEF handleRequestClient
    <3>2. clients \in [Replica -> SUBSET Timestamp]
      BY DEF TypeOK
    <3> QED
      BY <2>1, <3>1, <3>2
  <2>5. prePrepares' \in [Replica -> SUBSET Log("pre-prepare", Timestamp)]
    <3>1. prePrepares' = prePrepares \/ prePrepares' = [prePrepares EXCEPT ![r] = @ \cup {pp}]
      BY <1>2 DEF handleRequestClient
    <3>2. prePrepares \in [Replica -> SUBSET Log("pre-prepare", Timestamp)]
      BY DEF TypeOK
    <3> HIDE DEF pp, r, m
    <3> QED
      BY <2>2, <3>1, <3>2
  <2>6. NetOK'
    <3>1. net' \subseteq Without(r, m) \cup Multicast(pp)
      BY <1>2 DEF handleRequestClient
    <3>2. MsgOK(pp)
      BY <2>2 DEF MsgOK
    <3> QED
      BY <1>n, <3>1, <3>2, NetStep
  <2> QED
    BY <1>2, <2>3, <2>4, <2>5, <2>6 DEF TypeOK, handleRequestClient
<1>3. ASSUME NEW x \in net, handleRequestPreprepare(x.to, x.msg) PROVE TypeOK'
  <2> DEFINE r == x.to
             m == x.msg
             p(via) == Req("prepare", m.sequence, m.digest, r, via)
  <2>1. r \in Replica /\ m \in Log("pre-prepare", Timestamp)
    <3>1. m.type = "pre-prepare" /\ MsgOK(m) /\ r \in Live
      BY <1>3, <1>n DEF handleRequestPreprepare, NetOK
    <3> QED
      BY <3>1, ByType
  <2>2. p("own") \in Log("prepare", Timestamp) /\ p("net") \in Log("prepare", Timestamp)
    BY <2>1, LogFields, ReqType
  <2>3. prePrepares' \in [Replica -> SUBSET Log("pre-prepare", Timestamp)]
    <3>1. prePrepares' = prePrepares \/ prePrepares' = [prePrepares EXCEPT ![r] = @ \cup {m}]
      BY <1>3 DEF handleRequestPreprepare
    <3>2. prePrepares \in [Replica -> SUBSET Log("pre-prepare", Timestamp)]
      BY DEF TypeOK
    <3> HIDE DEF r, m
    <3> QED
      BY <2>1, <3>1, <3>2
  <2>4. prepares' \in [Replica -> SUBSET Log("prepare", Timestamp)]
    <3>1. prepares' = prepares \/ prepares' = [prepares EXCEPT ![r] = @]
            \/ prepares' = [prepares EXCEPT ![r] = @ \cup {p("own")}]
      BY <1>3 DEF handleRequestPreprepare
    <3>2. prepares \in [Replica -> SUBSET Log("prepare", Timestamp)]
      BY DEF TypeOK
    <3> HIDE DEF r, m, p
    <3> QED
      BY <2>2, <3>1, <3>2
  <2>5. NetOK'
    <3>1. net' \subseteq Without(r, m) \cup Multicast(p("net"))
      BY <1>3 DEF handleRequestPreprepare
    <3>2. MsgOK(p("net"))
      BY <2>2 DEF MsgOK
    <3> QED
      BY <1>n, <3>1, <3>2, NetStep
  <2> QED
    BY <1>3, <2>3, <2>4, <2>5 DEF TypeOK, handleRequestPreprepare
<1>4. ASSUME NEW x \in net, handleRequestPrepare(x.to, x.msg) PROVE TypeOK'
  <2> DEFINE r == x.to
             m == x.msg
             c(via) == Req("commit", m.sequence, 0, r, via)
  <2>1. r \in Replica /\ m \in Log("prepare", Timestamp)
    <3>1. m.type = "prepare" /\ MsgOK(m) /\ r \in Live
      BY <1>4, <1>n DEF handleRequestPrepare, NetOK
    <3> QED
      BY <3>1, ByType
  <2>2. c("own") \in Log("commit", {0}) /\ c("net") \in Log("commit", {0})
    <3>1. m.sequence \in Nat
      BY <2>1, LogFields
    <3> QED
      BY <2>1, <3>1, ReqType
  <2>3. prepares' \in [Replica -> SUBSET Log("prepare", Timestamp)]
    <3>1. prepares' = prepares \/ prepares' = [prepares EXCEPT ![r] = prepares[r] \cup {m}]
      BY <1>4 DEF handleRequestPrepare
    <3>2. prepares \in [Replica -> SUBSET Log("prepare", Timestamp)]
      BY DEF TypeOK
    <3> HIDE DEF r, m
    <3> QED
      BY <2>1, <3>1, <3>2
  <2>4. commits' \in [Replica -> SUBSET Log("commit", {0})]
    <3>1. commits' = commits \/ commits' = [commits EXCEPT ![r] = @]
            \/ commits' = [commits EXCEPT ![r] = @ \cup {c("own")}]
      BY <1>4 DEF handleRequestPrepare
    <3>2. commits \in [Replica -> SUBSET Log("commit", {0})]
      BY DEF TypeOK
    <3> HIDE DEF r, m, c
    <3> QED
      BY <2>2, <3>1, <3>2
  <2>5. NetOK'
    <3>1. net' \subseteq Without(r, m) \cup Multicast(c("net"))
      BY <1>4 DEF handleRequestPrepare
    <3>2. MsgOK(c("net"))
      BY <2>2 DEF MsgOK
    <3> QED
      BY <1>n, <3>1, <3>2, NetStep
  <2> QED
    BY <1>4, <2>3, <2>4, <2>5 DEF TypeOK, handleRequestPrepare
<1>5. ASSUME NEW x \in net, handleRequestCommit(x.to, x.msg) PROVE TypeOK'
  <2> DEFINE r == x.to
             m == x.msg
             k(t, via) == Req("checkpoint", m.sequence, stateDigest(r, t), r, via)
  <2>1. r \in Replica /\ m \in Log("commit", {0})
    <3>1. m.type = "commit" /\ MsgOK(m) /\ r \in Live
      BY <1>5, <1>n DEF handleRequestCommit, NetOK
    <3> QED
      BY <3>1, ByType
  <2>2. commits' \in [Replica -> SUBSET Log("commit", {0})]
    <3>1. commits' = commits \/ commits' = [commits EXCEPT ![r] = commits[r] \cup {m}]
      BY <1>5 DEF handleRequestCommit
    <3>2. commits \in [Replica -> SUBSET Log("commit", {0})]
      BY DEF TypeOK
    <3> HIDE DEF r, m
    <3> QED
      BY <2>1, <3>1, <3>2
  <2>3. /\ executed' \in [Replica -> Seq(Nat)]
        /\ replies' \in [Replica -> Seq(0 .. MaxRequest)]
        /\ \A q \in Replica : replies'[q] # << >>
        /\ ckptReqs' \in [Replica -> SUBSET Log("checkpoint", Replica \X Timestamp)]
        /\ NetOK'
    <3>0. /\ executed \in [Replica -> Seq(Nat)]
          /\ replies \in [Replica -> Seq(0 .. MaxRequest)]
          /\ \A q \in Replica : replies[q] # << >>
          /\ ckptReqs \in [Replica -> SUBSET Log("checkpoint", Replica \X Timestamp)]
      BY DEF TypeOK
    <3>1. CASE net' = Without(r, m) /\ UNCHANGED <<executed, replies, ckptReqs>>
      <4>1. net' \subseteq net
        BY <3>1 DEF Without
      <4> QED
        BY <1>n, <3>0, <3>1, <4>1, NetShrinks
    <3>2. ASSUME NEW t \in Known(r, m.sequence), Execute(r, m, t)
          PROVE  /\ executed' \in [Replica -> Seq(Nat)]
                 /\ replies' \in [Replica -> Seq(0 .. MaxRequest)]
                 /\ \A q \in Replica : replies'[q] # << >>
                 /\ ckptReqs' \in [Replica -> SUBSET Log("checkpoint", Replica \X Timestamp)]
                 /\ NetOK'
      <4>1. t \in Timestamp
        BY <2>1 DEF Known, TypeOK
      <4>2. m.sequence \in Nat
        BY <2>1, LogFields
      <4>3. stateDigest(r, t) \in Replica \X Timestamp
        BY <2>1, <4>1 DEF stateDigest
      <4>4. /\ k(t, "own") \in Log("checkpoint", Replica \X Timestamp)
            /\ k(t, "net") \in Log("checkpoint", Replica \X Timestamp)
        BY <2>1, <4>2, <4>3, ReqType
      <4>5. executed' = [executed EXCEPT ![r] = Append(@, m.sequence)]
        BY <3>2 DEF Execute
      <4>6. replies' = [replies EXCEPT ![r] = Append(@, t)] \/ replies' = [replies EXCEPT ![r] = @]
        BY <3>2 DEF Execute
      <4>7. ckptReqs' = [ckptReqs EXCEPT ![r] = @ \cup {k(t, "own")}]
              \/ ckptReqs' = [ckptReqs EXCEPT ![r] = @]
        BY <3>2 DEF Execute
      <4>8. net' \subseteq Without(r, m) \cup Multicast(k(t, "net"))
        BY <3>2 DEF Execute
      <4>9. MsgOK(k(t, "net"))
        BY <4>4 DEF MsgOK
      <4>10. NetOK'
        BY <1>n, <4>8, <4>9, NetStep
      <4>11. t \in 0 .. MaxRequest
        BY <4>1 DEF Timestamp
      <4> HIDE DEF r, m, k
      <4>12. executed' \in [Replica -> Seq(Nat)]
        BY <2>1, <3>0, <4>2, <4>5
      <4>13. replies' \in [Replica -> Seq(0 .. MaxRequest)] /\ \A q \in Replica : replies'[q] # << >>
        <5>1. CASE replies' = [replies EXCEPT ![r] = @]
          <6>1. replies' = replies
            BY <3>0, <5>1
          <6> QED
            BY <3>0, <6>1
        <5>2. CASE replies' = [replies EXCEPT ![r] = Append(@, t)]
          <6>1. replies[r] \in Seq(0 .. MaxRequest)
            BY <2>1, <3>0
          <6>2. /\ Append(replies[r], t) \in Seq(0 .. MaxRequest)
                /\ Append(replies[r], t) # << >>
            BY SMTT(30), <4>11, <6>1
          <6>3. \A q \in Replica : replies'[q] = IF q = r THEN Append(replies[r], t) ELSE replies[q]
            BY <2>1, <3>0, <5>2
          <6>4. replies' \in [Replica -> Seq(0 .. MaxRequest)]
            BY <2>1, <3>0, <5>2, <6>2
          <6> QED
            BY <3>0, <6>2, <6>3, <6>4
        <5> QED
          BY <4>6, <5>1, <5>2
      <4>14. ckptReqs' \in [Replica -> SUBSET Log("checkpoint", Replica \X Timestamp)]
        <5>1. CASE ckptReqs' = [ckptReqs EXCEPT ![r] = @ \cup {k(t, "own")}]
          <6>1. ckptReqs[r] \cup {k(t, "own")} \in SUBSET Log("checkpoint", Replica \X Timestamp)
            BY <2>1, <3>0, <4>4
          <6> QED
            BY <3>0, <5>1, <6>1
        <5>2. CASE ckptReqs' = [ckptReqs EXCEPT ![r] = @]
          BY <3>0, <5>2
        <5> QED
          BY <4>7, <5>1, <5>2
      <4> QED
        BY <4>10, <4>12, <4>13, <4>14
    <3> QED
      BY <1>5, <3>1, <3>2 DEF handleRequestCommit
  <2> QED
    BY <1>5, <2>2, <2>3 DEF TypeOK, handleRequestCommit
<1>6. ASSUME NEW x \in net, handleRequestCheckpoint(x.to, x.msg) PROVE TypeOK'
  <2> DEFINE r == x.to
             m == x.msg
  <2>1. r \in Replica /\ r \in Live /\ m \in Log("checkpoint", Replica \X Timestamp)
    <3>1. m.type = "checkpoint" /\ MsgOK(m) /\ r \in Live
      BY <1>6, <1>n DEF handleRequestCheckpoint, NetOK
    <3> QED
      BY <3>1, ByType
  <2>2. m.sequence \in Nat
    BY <2>1, LogFields
  <2>3. ckptReqs' \in [Replica -> SUBSET Log("checkpoint", Replica \X Timestamp)]
    <3>1. ckptReqs' = ckptReqs \/ ckptReqs' = [ckptReqs EXCEPT ![r] = ckptReqs[r] \cup {m}]
      BY <1>6 DEF handleRequestCheckpoint
    <3>2. ckptReqs \in [Replica -> SUBSET Log("checkpoint", Replica \X Timestamp)]
      BY DEF TypeOK
    <3> HIDE DEF r, m
    <3> QED
      BY <2>1, <3>1, <3>2
  <2>4. stable' \in [Replica -> Nat] /\ clearing' \subseteq Live
    <3>1. /\ stable' = stable \/ stable' = [stable EXCEPT ![r] = m.sequence]
             \/ stable' = [stable EXCEPT ![r] = @]
          /\ clearing' = clearing \/ clearing' = clearing \cup {r}
      BY <1>6 DEF handleRequestCheckpoint
    <3>2. stable \in [Replica -> Nat] /\ clearing \subseteq Live
      BY DEF TypeOK
    <3> HIDE DEF r, m
    <3> QED
      BY <2>1, <2>2, <3>1, <3>2
  <2>5. NetOK'
    <3>1. net' \subseteq net
      BY <1>6 DEF handleRequestCheckpoint, Without
    <3> QED
      BY <1>n, <3>1, NetShrinks
  <2> QED
    BY <1>6, <2>3, <2>4, <2>5 DEF TypeOK, handleRequestCheckpoint
<1>7. CASE UNCHANGED vars
  BY <1>7 DEF TypeOK, NetOK, vars, logs
<1> QED
  BY <1>1, <1>2, <1>3, <1>4, <1>5, <1>6, <1>7 DEF Next
-----------------------------------------------------------------------------
(* No step takes a prepare or a commit out of a log. *)
LEMMA LogsGrow ==
  ASSUME TypeOK, [Next]_vars, NEW q \in Replica
  PROVE  prepares[q] \subseteq prepares'[q] /\ commits[q] \subseteq commits'[q]
<1>0. /\ prepares \in [Replica -> SUBSET Log("prepare", Timestamp)]
      /\ commits \in [Replica -> SUBSET Log("commit", {0})]
  BY DEF TypeOK
<1>1. CASE SendRequest
  BY <1>1 DEF SendRequest, logs
<1>2. ASSUME NEW x \in net, handleRequestClient(x.to, x.msg)
      PROVE  prepares[q] \subseteq prepares'[q] /\ commits[q] \subseteq commits'[q]
  BY <1>2 DEF handleRequestClient
<1>3. ASSUME NEW x \in net, handleRequestPreprepare(x.to, x.msg)
      PROVE  prepares[q] \subseteq prepares'[q] /\ commits[q] \subseteq commits'[q]
  <2>1. commits' = commits
    BY <1>3 DEF handleRequestPreprepare
  <2>2. \E S : prepares' = [prepares EXCEPT ![x.to] = @ \cup S]
    <3>1. CASE Acceptable(x.to, x.msg)
      <4> DEFINE p(via) == Req("prepare", x.msg.sequence, x.msg.digest, x.to, via)
      <4>1. prepares' = [prepares EXCEPT ![x.to] = @] \/ prepares' = [prepares EXCEPT ![x.to] = @ \cup {p("own")}]
        BY <1>3, <3>1 DEF handleRequestPreprepare
      <4>2. [prepares EXCEPT ![x.to] = @] = [prepares EXCEPT ![x.to] = @ \cup {}]
        OBVIOUS
      <4> HIDE DEF p
      <4> QED
        BY <4>1, <4>2
    <3>2. CASE ~Acceptable(x.to, x.msg)
      <4>1. prepares' = prepares
        BY <1>3, <3>2 DEF handleRequestPreprepare
      <4>2. prepares = [prepares EXCEPT ![x.to] = @ \cup {}]
        BY <1>0
      <4> QED
        BY <4>1, <4>2
    <3> QED
      BY <3>1, <3>2
  <2> QED
    BY <1>0, <2>1, <2>2
<1>4. ASSUME NEW x \in net, handleRequestPrepare(x.to, x.msg)
      PROVE  prepares[q] \subseteq prepares'[q] /\ commits[q] \subseteq commits'[q]
  <2> DEFINE c(via) == Req("commit", x.msg.sequence, 0, x.to, via)
  <2>1. prepares' = prepares \/ prepares' = [prepares EXCEPT ![x.to] = prepares[x.to] \cup {x.msg}]
    BY <1>4 DEF handleRequestPrepare
  <2>2. commits' = commits \/ commits' = [commits EXCEPT ![x.to] = @]
          \/ commits' = [commits EXCEPT ![x.to] = @ \cup {c("own")}]
    BY <1>4 DEF handleRequestPrepare
  <2> HIDE DEF c
  <2> QED
    BY <1>0, <2>1, <2>2
<1>5. ASSUME NEW x \in net, handleRequestCommit(x.to, x.msg)
      PROVE  prepares[q] \subseteq prepares'[q] /\ commits[q] \subseteq commits'[q]
  <2>1. prepares' = prepares
    BY <1>5 DEF handleRequestCommit
  <2>2. commits' = commits \/ commits' = [commits EXCEPT ![x.to] = commits[x.to] \cup {x.msg}]
    BY <1>5 DEF handleRequestCommit
  <2> QED
    BY <1>0, <2>1, <2>2
<1>6. ASSUME NEW x \in net, handleRequestCheckpoint(x.to, x.msg)
      PROVE  prepares[q] \subseteq prepares'[q] /\ commits[q] \subseteq commits'[q]
  BY <1>6 DEF handleRequestCheckpoint
<1>7. CASE UNCHANGED vars
  BY <1>7 DEF vars, logs
<1> QED
  BY <1>1, <1>2, <1>3, <1>4, <1>5, <1>6, <1>7 DEF Next

(* What was sent stays sent. *)
LEMMA SentStays ==
  ASSUME TypeOK, [Next]_vars, NEW e, e.replica \in Replica
  PROVE  (SentPrepare(e) => SentPrepare(e)') /\ (SentCommit(e) => SentCommit(e)')
BY LogsGrow DEF SentPrepare, SentCommit

(* Every message names a replica. *)
LEMMA MsgReplica ==
  ASSUME NEW m, MsgOK(m)
  PROVE  m.replica \in Replica
BY DEF MsgOK, Log

(* Messages that stay under way stay true. *)
LEMMA NetTruthShrinks ==
  ASSUME TypeOK, [Next]_vars, NetTellsTruth, net' \subseteq net
  PROVE  NetTellsTruth'
<1> SUFFICES ASSUME NEW x \in net'
             PROVE  /\ x.msg.via = "net"
                    /\ x.msg.type = "prepare" => SentPrepare(x.msg)'
                    /\ x.msg.type = "commit" => SentCommit(x.msg)'
                    /\ x.msg.type = "checkpoint" => x.msg.digest[1] = x.msg.replica
  BY DEF NetTellsTruth, SentPrepare, SentCommit
<1>1. x \in net
  OBVIOUS
<1> DEFINE e == x.msg
<1>2. e.replica \in Replica
  BY <1>1, MsgReplica DEF TypeOK, NetOK
<1>3. /\ e.via = "net"
      /\ e.type = "prepare" => SentPrepare(e)
      /\ e.type = "commit" => SentCommit(e)
      /\ e.type = "checkpoint" => e.digest[1] = e.replica
  BY <1>1 DEF NetTellsTruth
<1> HIDE DEF e
<1>4. (SentPrepare(e) => SentPrepare(e)') /\ (SentCommit(e) => SentCommit(e)')
  BY <1>2, SentStays
<1> QED
  BY <1>3, <1>4 DEF e

(* A handler that multicasts q, if anything, where q is sent. *)
LEMMA NetTruthStep ==
  ASSUME TypeOK, [Next]_vars, NetTellsTruth, NEW r, NEW m, NEW q,
         net' \subseteq Without(r, m) \cup Multicast(q),
         Multicast(q) \cap net' # {} =>
           /\ q.via = "net"
           /\ q.type = "prepare" => SentPrepare(q)'
           /\ q.type = "commit" => SentCommit(q)'
           /\ q.type = "checkpoint" => q.digest[1] = q.replica
  PROVE  NetTellsTruth'
<1> SUFFICES ASSUME NEW x \in net'
             PROVE  /\ x.msg.via = "net"
                    /\ x.msg.type = "prepare" => SentPrepare(x.msg)'
                    /\ x.msg.type = "commit" => SentCommit(x.msg)'
                    /\ x.msg.type = "checkpoint" => x.msg.digest[1] = x.msg.replica
  BY DEF NetTellsTruth, SentPrepare, SentCommit
<1>1. CASE x \in net
  <2>1. x.msg.replica \in Replica
    BY <1>1, MsgReplica DEF TypeOK, NetOK
  <2>2. /\ SentPrepare(x.msg) => SentPrepare(x.msg)'
        /\ SentCommit(x.msg) => SentCommit(x.msg)'
    <3> DEFINE e == x.msg
    <3> HIDE DEF e
    <3>1. e.replica \in Replica
      BY <2>1 DEF e
    <3>2. (SentPrepare(e) => SentPrepare(e)') /\ (SentCommit(e) => SentCommit(e)')
      BY <3>1, SentStays
    <3> QED
      BY <3>2 DEF e
  <2>3. /\ x.msg.via = "net"
        /\ x.msg.type = "prepare" => SentPrepare(x.msg)
        /\ x.msg.type = "commit" => SentCommit(x.msg)
        /\ x.msg.type = "checkpoint" => x.msg.digest[1] = x.msg.replica
    BY <1>1 DEF NetTellsTruth
  <2> QED
    BY <2>2, <2>3
<1>2. CASE x \in Multicast(q)
  <2>1. x.msg = q
    BY <1>2 DEF Multicast
  <2> QED
    BY <1>2, <2>1
<1> QED
  BY <1>1, <1>2 DEF Without

(* Entries of a log stay true; a log may gain one entry that is. *)
LEMMA PreparesTruthStep ==
  ASSUME TypeOK, [Next]_vars, PreparesTellTruth, NEW r, NEW q,
         \A p \in Replica : prepares'[p] \subseteq prepares[p] \cup (IF p = r THEN {q} ELSE {}),
         q \in prepares'[r] \ prepares[r] =>
           /\ SentPrepare(q)'
           /\ q.via = "own" => q.replica = r
           /\ q.via = "net" => q.replica # Primary
  PROVE  PreparesTellTruth'
<1> SUFFICES ASSUME NEW p \in Replica, NEW e \in prepares'[p]
             PROVE  /\ SentPrepare(e)'
                    /\ e.via = "own" => e.replica = p
                    /\ e.via = "net" => e.replica # Primary
  BY DEF PreparesTellTruth, SentPrepare
<1>1. CASE e \in prepares[p]
  <2>1. e \in Log("prepare", Timestamp)
    BY <1>1 DEF TypeOK
  <2>2. e.replica \in Replica
    BY <2>1, LogFields
  <2>3. SentPrepare(e) => SentPrepare(e)'
    BY <2>2, SentStays
  <2>4. /\ SentPrepare(e)
        /\ e.via = "own" => e.replica = p
        /\ e.via = "net" => e.replica # Primary
    BY <1>1 DEF PreparesTellTruth
  <2> QED
    BY <2>3, <2>4
<1>2. CASE e \notin prepares[p]
  <2>1. e = q /\ p = r
    BY <1>2
  <2> QED
    BY <1>2, <2>1
<1> QED
  BY <1>1, <1>2

(* A commit is logged only when it was sent. *)
LEMMA CommitsTruthStep ==
  ASSUME TypeOK, [Next]_vars, CommitsTellTruth, NEW r, NEW q,
         \A p \in Replica : commits'[p] \subseteq commits[p] \cup (IF p = r THEN {q} ELSE {}),
         q \in commits'[r] \ commits[r] => SentCommit(q)' /\ (q.via = "own" => q.replica = r)
  PROVE  CommitsTellTruth'
<1> SUFFICES ASSUME NEW p \in Replica, NEW e \in commits'[p]
             PROVE  SentCommit(e)' /\ (e.via = "own" => e.replica = p)
  BY DEF CommitsTellTruth, SentCommit
<1>1. CASE e \in commits[p]
  <2>1. e \in Log("commit", {0})
    BY <1>1 DEF TypeOK
  <2>2. e.replica \in Replica
    BY <2>1, LogFields
  <2> QED
    BY <1>1, <2>2, SentStays DEF CommitsTellTruth
<1>2. CASE e \notin commits[p]
  <2>1. e = q /\ p = r
    BY <1>2
  <2> QED
    BY <1>2, <2>1
<1> QED
  BY <1>1, <1>2

(* A checkpoint is logged under the name it carries. *)
LEMMA CheckpointsTruthStep ==
  ASSUME CheckpointsTellTruth, NEW r, NEW q,
         \A p \in Replica : ckptReqs'[p] \subseteq ckptReqs[p] \cup (IF p = r THEN {q} ELSE {}),
         q.digest[1] = q.replica
  PROVE  CheckpointsTellTruth'
<1> SUFFICES ASSUME NEW p \in Replica, NEW e \in ckptReqs'[p]
             PROVE  e.digest[1] = e.replica
  BY DEF CheckpointsTellTruth
<1>1. e \in ckptReqs[p] \/ e = q
  OBVIOUS
<1> QED
  BY <1>1 DEF CheckpointsTellTruth

-----------------------------------------------------------------------------
(* The logs stay true, action by action. *)
LEMMA TruthUnchanged ==
  ASSUME TypeOK, [Next]_vars, LogsTellTruth
  PROVE  /\ prepares' = prepares => PreparesTellTruth'
         /\ commits' = commits => CommitsTellTruth'
         /\ ckptReqs' = ckptReqs => CheckpointsTellTruth'
         /\ net' \subseteq net /\ prepares' = prepares /\ commits' = commits => NetTellsTruth'
BY DEF LogsTellTruth, PreparesTellTruth, CommitsTellTruth, CheckpointsTellTruth, NetTellsTruth,
       SentPrepare, SentCommit

(* A request of a client says nothing in a replica's name. *)
LEMMA SendTruth ==
  ASSUME TypeOK, LogsTellTruth, SendRequest
  PROVE  LogsTellTruth'
<1>0. [Next]_vars
  BY DEF Next
<1>1. prepares' = prepares /\ commits' = commits /\ ckptReqs' = ckptReqs
  BY DEF SendRequest, logs
<1> DEFINE q == Req("client", 0, time + 1, Primary, "net")
<1>2. net' = net \cup Multicast(q)
  BY DEF SendRequest
<1>3. \A x \in Multicast(q) : x.msg.via = "net" /\ x.msg.type = "client"
  BY DEF Multicast, Req
<1> HIDE DEF q
<1>4. NetTellsTruth'
  BY <1>1, <1>2, <1>3 DEF LogsTellTruth, NetTellsTruth, SentPrepare, SentCommit
<1> QED
  BY <1>0, <1>1, <1>4, TruthUnchanged DEF LogsTellTruth

(* The primary logs its own preprepare only. *)
LEMMA ClientTruth ==
  ASSUME TypeOK, LogsTellTruth, NEW x \in net, handleRequestClient(x.to, x.msg)
  PROVE  LogsTellTruth'
<1>0. [Next]_vars
  BY DEF Next
<1>1. prepares' = prepares /\ commits' = commits /\ ckptReqs' = ckptReqs
  BY DEF handleRequestClient
<1> DEFINE q == Req("pre-prepare", sequence[x.to] + 1, x.msg.digest, x.to, "net")
<1>2. net' \subseteq Without(x.to, x.msg) \cup Multicast(q)
  BY DEF handleRequestClient
<1>3. q.via = "net" /\ q.type = "pre-prepare"
  BY DEF Req
<1> HIDE DEF q
<1>4. NetTellsTruth'
  BY <1>0, <1>2, <1>3, NetTruthStep DEF LogsTellTruth
<1> QED
  BY <1>0, <1>1, <1>4, TruthUnchanged DEF LogsTellTruth

(* A backup logs the preprepare it got and the prepare it sends. *)
LEMMA PreprepareTruth ==
  ASSUME TypeOK, LogsTellTruth, NEW x \in net, handleRequestPreprepare(x.to, x.msg)
  PROVE  LogsTellTruth'
<1>0. [Next]_vars
  BY DEF Next
<1>1. commits' = commits /\ ckptReqs' = ckptReqs
  BY DEF handleRequestPreprepare
<1>2. x.to \in Replica
  BY DEF TypeOK, NetOK
<1>3. prepares \in [Replica -> SUBSET Log("prepare", Timestamp)]
  BY DEF TypeOK
<1> DEFINE r == x.to
           m == x.msg
           p(via) == Req("prepare", m.sequence, m.digest, r, via)
<1>4. CASE prepares' = prepares /\ net' \subseteq net
  BY <1>0, <1>1, <1>4, TruthUnchanged DEF LogsTellTruth
<1>5. CASE /\ prepares' = [prepares EXCEPT ![r] = @ \cup {p("own")}]
           /\ net' = Without(r, m) \cup Multicast(p("net"))
  <2>1. /\ p("own").via = "own" /\ p("own").replica = r /\ p("net").via = "net"
        /\ p("net").type = "prepare"
    BY DEF Req
  <2>2. SentPrepare(p("own"))' /\ SentPrepare(p("net"))'
    <3>1. /\ p("own") = Req("prepare", p("own").sequence, p("own").digest, p("own").replica, "own")
          /\ p("own") = Req("prepare", p("net").sequence, p("net").digest, p("net").replica, "own")
          /\ p("own").replica = r /\ p("net").replica = r
      BY ReqFields
    <3>2. p("own") \in prepares'[r]
      BY <1>2, <1>3, <1>5
    <3> HIDE DEF p, r, m
    <3> QED
      BY <3>1, <3>2 DEF SentPrepare
  <2>3. \A q \in Replica : prepares'[q] \subseteq prepares[q] \cup (IF q = r THEN {p("own")} ELSE {})
    BY <1>2, <1>3, <1>5
  <2>5. net' \subseteq Without(r, m) \cup Multicast(p("net"))
    BY <1>5
  <2> DEFINE o == p("own")
             n == p("net")
  <2>6. /\ o.via = "own" /\ o.replica = r /\ n.via = "net" /\ n.type = "prepare"
        /\ SentPrepare(o)' /\ SentPrepare(n)'
        /\ \A q \in Replica : prepares'[q] \subseteq prepares[q] \cup (IF q = r THEN {o} ELSE {})
        /\ net' \subseteq Without(r, m) \cup Multicast(n)
    BY <2>1, <2>2, <2>3, <2>5
  <2> HIDE DEF o, n, p, r, m
  <2>7. PreparesTellTruth'
    BY <1>0, <2>6, PreparesTruthStep DEF LogsTellTruth
  <2>8. NetTellsTruth'
    BY <1>0, <2>6, NetTruthStep DEF LogsTellTruth
  <2> QED
    BY <1>0, <1>1, <2>7, <2>8, TruthUnchanged DEF LogsTellTruth
<1>6. \/ prepares' = prepares /\ net' \subseteq net
      \/ /\ prepares' = [prepares EXCEPT ![r] = @ \cup {p("own")}]
         /\ net' = Without(r, m) \cup Multicast(p("net"))
  <2> DEFINE sent == hasRequestPrepare(r, p("net"))
  <2>1. CASE ~Acceptable(r, m)
    BY <2>1 DEF handleRequestPreprepare, Without
  <2>2. CASE Acceptable(r, m) /\ sent
    <3>1. prepares' = [prepares EXCEPT ![r] = @] /\ net' = Without(r, m) \cup {}
      BY <2>2 DEF handleRequestPreprepare
    <3> QED
      BY <1>3, <3>1 DEF Without
  <2>3. CASE Acceptable(r, m) /\ ~sent
    BY <2>3 DEF handleRequestPreprepare
  <2> QED
    BY <2>1, <2>2, <2>3
<1> QED
  BY <1>4, <1>5, <1>6

(* A replica logs the prepare it got and the commit it sends. *)
LEMMA PrepareTruth ==
  ASSUME TypeOK, LogsTellTruth, NEW x \in net, handleRequestPrepare(x.to, x.msg)
  PROVE  LogsTellTruth'
<1>0. [Next]_vars
  BY DEF Next
<1>1. ckptReqs' = ckptReqs
  BY DEF handleRequestPrepare
<1> DEFINE r == x.to
           m == x.msg
           c(via) == Req("commit", m.sequence, 0, r, via)
<1>2. r \in Replica /\ m \in Log("prepare", Timestamp)
  <2>1. m.type = "prepare" /\ MsgOK(m) /\ r \in Live
    BY DEF handleRequestPrepare, TypeOK, NetOK
  <2> QED
    BY <2>1, ByType
<1>3. /\ prepares \in [Replica -> SUBSET Log("prepare", Timestamp)]
      /\ commits \in [Replica -> SUBSET Log("commit", {0})]
  BY DEF TypeOK
<1>4. CASE ~(FromBackup(m) /\ sequenceInRange(r, m.sequence))
  <2>1. prepares' = prepares /\ commits' = commits /\ net' \subseteq net
    BY <1>4 DEF handleRequestPrepare, Without
  <2> QED
    BY <1>0, <1>1, <2>1, TruthUnchanged DEF LogsTellTruth
<1>5. CASE FromBackup(m) /\ sequenceInRange(r, m.sequence)
  <2>1. PreparesTellTruth'
    <3>1. prepares' = [prepares EXCEPT ![r] = prepares[r] \cup {m}]
      BY <1>5 DEF handleRequestPrepare
    <3>2. SentPrepare(m) /\ m.via = "net" /\ m.replica # Primary /\ m.replica \in Replica
      BY <1>2, <1>5, LogFields DEF LogsTellTruth, NetTellsTruth, FromBackup
    <3> HIDE DEF r, m
    <3>3. SentPrepare(m)'
      BY <1>0, <3>2, SentStays
    <3>4. \A q \in Replica : prepares'[q] \subseteq prepares[q] \cup (IF q = r THEN {m} ELSE {})
      BY <1>2, <1>3, <3>1
    <3> QED
      BY <1>0, <3>2, <3>3, <3>4, PreparesTruthStep DEF LogsTellTruth
  <2> DEFINE o == c("own")
             n == c("net")
  <2>2. /\ commits' = [commits EXCEPT ![r] = @] /\ net' \subseteq Without(r, m)
        \/ /\ commits' = [commits EXCEPT ![r] = @ \cup {o}]
           /\ net' = Without(r, m) \cup Multicast(n)
    BY <1>5 DEF handleRequestPrepare
  <2>3. /\ o.via = "own" /\ o.replica = r /\ n.via = "net" /\ n.type = "commit"
        /\ o = Req("commit", o.sequence, 0, o.replica, "own")
        /\ o = Req("commit", n.sequence, 0, n.replica, "own") /\ n.replica = r
    BY DEF Req
  <2> HIDE DEF o, n, c, r, m
  <2>4. CASE commits' = [commits EXCEPT ![r] = @] /\ net' \subseteq Without(r, m)
    <3>1. commits' = commits
      BY <1>3, <2>4
    <3>2. net' \subseteq net
      BY <2>4 DEF Without
    <3>3. NetTellsTruth'
      BY <1>0, <3>2, NetTruthShrinks DEF LogsTellTruth
    <3> QED
      BY <1>0, <1>1, <2>1, <3>1, <3>3, TruthUnchanged DEF LogsTellTruth
  <2>5. CASE /\ commits' = [commits EXCEPT ![r] = @ \cup {o}]
             /\ net' = Without(r, m) \cup Multicast(n)
    <3>1. o \in commits'[r]
      BY <1>2, <1>3, <2>5
    <3>2. SentCommit(o)' /\ SentCommit(n)'
      BY <2>3, <3>1 DEF SentCommit
    <3>3. \A q \in Replica : commits'[q] \subseteq commits[q] \cup (IF q = r THEN {o} ELSE {})
      BY <1>2, <1>3, <2>5
    <3>4. CommitsTellTruth'
      BY <1>0, <2>3, <3>2, <3>3, CommitsTruthStep DEF LogsTellTruth
    <3>5. net' \subseteq Without(r, m) \cup Multicast(n)
      BY <2>5
    <3>6. NetTellsTruth'
      BY <1>0, <2>3, <3>2, <3>5, NetTruthStep DEF LogsTellTruth
    <3> QED
      BY <1>0, <1>1, <2>1, <3>4, <3>6, TruthUnchanged DEF LogsTellTruth
  <2> QED
    BY <2>2, <2>4, <2>5
<1> QED
  BY <1>4, <1>5

(* A replica logs the commit it got, and executes. *)
LEMMA CommitTruth ==
  ASSUME TypeOK, LogsTellTruth, NEW x \in net, handleRequestCommit(x.to, x.msg)
  PROVE  LogsTellTruth'
<1>0. [Next]_vars
  BY DEF Next
<1>1. prepares' = prepares
  BY DEF handleRequestCommit
<1> DEFINE r == x.to
           m == x.msg
           k(t, via) == Req("checkpoint", m.sequence, stateDigest(r, t), r, via)
<1>2. r \in Replica /\ m \in Log("commit", {0})
  <2>1. m.type = "commit" /\ MsgOK(m) /\ r \in Live
    BY DEF handleRequestCommit, TypeOK, NetOK
  <2> QED
    BY <2>1, ByType
<1>3. /\ commits \in [Replica -> SUBSET Log("commit", {0})]
      /\ ckptReqs \in [Replica -> SUBSET Log("checkpoint", Replica \X Timestamp)]
  BY DEF TypeOK
<1>4. CommitsTellTruth'
  <2>1. commits' = commits \/ commits' = [commits EXCEPT ![r] = commits[r] \cup {m}]
    BY DEF handleRequestCommit
  <2>2. SentCommit(m) /\ m.via = "net" /\ m.replica \in Replica
    BY <1>2, LogFields DEF LogsTellTruth, NetTellsTruth
  <2> HIDE DEF r, m
  <2>3. SentCommit(m)'
    BY <1>0, <2>2, SentStays
  <2>4. \A q \in Replica : commits'[q] \subseteq commits[q] \cup (IF q = r THEN {m} ELSE {})
    BY <1>2, <1>3, <2>1
  <2> QED
    BY <1>0, <2>2, <2>3, <2>4, CommitsTruthStep DEF LogsTellTruth
<1>5. CASE net' = Without(r, m) /\ UNCHANGED <<executed, replies, ckptReqs>>
  <2>1. net' \subseteq net
    BY <1>5 DEF Without
  <2> QED
    BY <1>0, <1>1, <1>4, <1>5, <2>1, NetTruthShrinks, TruthUnchanged DEF LogsTellTruth
<1>6. ASSUME NEW t \in Known(r, m.sequence), Execute(r, m, t) PROVE LogsTellTruth'
  <2> DEFINE o == k(t, "own")
             n == k(t, "net")
  <2>1. /\ ckptReqs' = [ckptReqs EXCEPT ![r] = @ \cup {o}]
           \/ ckptReqs' = [ckptReqs EXCEPT ![r] = @]
        /\ net' \subseteq Without(r, m) \cup Multicast(n)
    BY <1>6 DEF Execute
  <2>2. /\ o.digest[1] = o.replica
        /\ n.via = "net" /\ n.type = "checkpoint" /\ n.digest[1] = n.replica
    BY DEF Req, stateDigest
  <2> HIDE DEF o, n, k, r, m
  <2>3. \A q \in Replica : ckptReqs'[q] \subseteq ckptReqs[q] \cup (IF q = r THEN {o} ELSE {})
    BY <1>2, <1>3, <2>1
  <2>4. CheckpointsTellTruth'
    BY <2>2, <2>3, CheckpointsTruthStep DEF LogsTellTruth
  <2>5. NetTellsTruth'
    BY <1>0, <2>1, <2>2, NetTruthStep DEF LogsTellTruth
  <2> QED
    BY <1>0, <1>1, <1>4, <2>4, <2>5, TruthUnchanged DEF LogsTellTruth
<1> QED
  BY <1>5, <1>6 DEF handleRequestCommit

(* A replica logs the checkpoint it got. *)
LEMMA CheckpointTruth ==
  ASSUME TypeOK, LogsTellTruth, NEW x \in net, handleRequestCheckpoint(x.to, x.msg)
  PROVE  LogsTellTruth'
<1>0. [Next]_vars
  BY DEF Next
<1>1. prepares' = prepares /\ commits' = commits
  BY DEF handleRequestCheckpoint
<1> DEFINE r == x.to
           m == x.msg
<1>2. r \in Replica /\ m.digest[1] = m.replica
  BY DEF handleRequestCheckpoint, TypeOK, NetOK, LogsTellTruth, NetTellsTruth
<1>3. ckptReqs \in [Replica -> SUBSET Log("checkpoint", Replica \X Timestamp)]
  BY DEF TypeOK
<1>4. ckptReqs' = ckptReqs \/ ckptReqs' = [ckptReqs EXCEPT ![r] = ckptReqs[r] \cup {m}]
  BY DEF handleRequestCheckpoint
<1>5. net' \subseteq net
  BY DEF handleRequestCheckpoint, Without
<1> HIDE DEF r, m
<1>6. \A q \in Replica : ckptReqs'[q] \subseteq ckptReqs[q] \cup (IF q = r THEN {m} ELSE {})
  BY <1>2, <1>3, <1>4
<1>7. CheckpointsTellTruth'
  BY <1>2, <1>6, CheckpointsTruthStep DEF LogsTellTruth
<1> QED
  BY <1>0, <1>1, <1>5, <1>7, NetTruthShrinks, TruthUnchanged DEF LogsTellTruth

(* Every step keeps the logs truthful. *)
LEMMA TruthStep ==
  ASSUME TypeOK, LogsTellTruth, [Next]_vars
  PROVE  LogsTellTruth'
<1>1. CASE UNCHANGED vars
  <2>1. prepares' = prepares /\ commits' = commits /\ ckptReqs' = ckptReqs /\ net' = net
    BY <1>1 DEF vars, logs
  <2> QED
    BY <2>1, TruthUnchanged DEF LogsTellTruth
<1> QED
  BY <1>1, SendTruth, ClientTruth, PreprepareTruth, PrepareTruth, CommitTruth, CheckpointTruth DEF Next

-----------------------------------------------------------------------------
(* Counting.  Entries that agree on everything but sender and via: those    *)
(* received are as many as their senders, and one more may be r's own.      *)
Alike(E, type, s, d, r, T) ==
  \A e \in E : /\ e = Req(type, s, d, e.replica, e.via)
               /\ \/ e.via = "own" /\ e.replica = r
                  \/ e.via = "net" /\ e.replica \in T

(* Entries alike but for their replica are no more than the replicas they   *)
(* name, and one of its own.                                                *)
LEMMA CountEntries ==
  ASSUME NEW T \in SUBSET Replica, NEW E, NEW type, NEW s, NEW d, NEW r,
         Alike(E, type, s, d, r, T)
  PROVE  IsFiniteSet(E) /\ Cardinality(E) <= Cardinality(T) + 1
<1> DEFINE R == {e \in E : e.via = "net"}
           own == Req(type, s, d, r, "own")
           f == [e \in R |-> e.replica]
<1>0. \A e \in E : /\ e = Req(type, s, d, e.replica, e.via)
                   /\ \/ e.via = "own" /\ e.replica = r
                      \/ e.via = "net" /\ e.replica \in T
  BY DEF Alike
<1>1. IsFiniteSet(T)
  BY FS_Subset
<1>2. f \in Injection(R, T)
  <2>1. f \in [R -> T]
    <3>1. \A e \in R : e.replica \in T
      BY <1>0
    <3> QED
      BY <3>1
  <2>2. \A a, b \in R : f[a] = f[b] => a = b
    <3> SUFFICES ASSUME NEW a \in R, NEW b \in R, f[a] = f[b] PROVE a = b
      OBVIOUS
    <3>1. a.replica = b.replica /\ a.via = "net" /\ b.via = "net"
      OBVIOUS
    <3>2. a = Req(type, s, d, a.replica, a.via) /\ b = Req(type, s, d, b.replica, b.via)
      BY <1>0
    <3> QED
      BY <3>1, <3>2
  <2> HIDE DEF f, R
  <2> QED
    BY <2>1, <2>2 DEF Injection, IsInjective
<1>3. IsFiniteSet(R) /\ Cardinality(R) <= Cardinality(T)
  BY <1>1, <1>2, FS_Injection
<1>4. E \in SUBSET (R \cup {own})
  <2> SUFFICES ASSUME NEW e \in E, e \notin R PROVE e = own
    OBVIOUS
  <2>1. e.via = "own" /\ e.replica = r /\ e = Req(type, s, d, e.replica, e.via)
    BY <1>0
  <2> QED
    BY <2>1
<1> HIDE DEF R, own
<1>5. IsFiniteSet(R \cup {own}) /\ Cardinality(R \cup {own}) <= Cardinality(R) + 1
  <2>1. Cardinality(R) \in Nat
    BY <1>3, FS_CardinalityType
  <2>2. /\ IsFiniteSet(R \cup {own})
        /\ Cardinality(R \cup {own}) = Cardinality(R) \/ Cardinality(R \cup {own}) = Cardinality(R) + 1
    BY <1>3, FS_AddElement, Zenon
  <2> QED
    BY <2>1, <2>2
<1>6. IsFiniteSet(E) /\ Cardinality(E) <= Cardinality(R \cup {own})
  BY <1>4, <1>5, FS_Subset
<1>7. /\ Cardinality(E) \in Nat /\ Cardinality(R) \in Nat /\ Cardinality(T) \in Nat
      /\ Cardinality(R \cup {own}) \in Nat
  BY <1>1, <1>3, <1>5, <1>6, FS_CardinalityType
<1> QED
  BY <1>3, <1>5, <1>6, <1>7

(* What a counting loop finds, when m is in the log and every entry is its  *)
(* sender's: no more than the senders S, although r's own entry may be      *)
(* there twice, because the sender of m is left out.                        *)
LEMMA CountFromOthers ==
  ASSUME NEW D, NEW type, NEW L \in SUBSET Log(type, D), NEW m \in L, NEW r,
         NEW S \in SUBSET Replica, m.replica \in S,
         \A e \in L : e.via = "own" => e.replica = r,
         \A e \in FromOthers(L, m) : e.replica \in S
  PROVE  Cardinality(FromOthers(L, m)) \in Nat /\ Cardinality(FromOthers(L, m)) <= Cardinality(S)
<1> DEFINE T == S \ {m.replica}
           E == FromOthers(L, m)
<1>1. Alike(E, type, m.sequence, m.digest, r, T)
  <2> SUFFICES ASSUME NEW e \in E
               PROVE  /\ e = Req(type, m.sequence, m.digest, e.replica, e.via)
                      /\ \/ e.via = "own" /\ e.replica = r
                         \/ e.via = "net" /\ e.replica \in T
    BY DEF Alike
  <2>1. /\ e \in L /\ e.sequence = m.sequence /\ e.digest = m.digest /\ e.replica # m.replica
        /\ e.replica \in S
    BY DEF FromOthers
  <2>2. e \in Log(type, D)
    BY <2>1
  <2>3. e = Req(type, e.sequence, e.digest, e.replica, e.via) /\ e.via \in {"own", "net"}
    BY <2>2, LogFields
  <2> QED
    BY <2>1, <2>3
<1>2. IsFiniteSet(S) /\ Cardinality(S) \in Nat
  BY FS_Subset, FS_CardinalityType
<1>3. Cardinality(T) = Cardinality(S) - 1
  BY ZenonT(30), <1>2, FS_RemoveElement
<1>4. T \in SUBSET Replica
  OBVIOUS
<1> HIDE DEF T, E
<1>5. IsFiniteSet(E) /\ Cardinality(E) <= Cardinality(T) + 1
  BY <1>1, <1>4, CountEntries
<1>6. Cardinality(E) \in Nat
  BY <1>5, FS_CardinalityType
<1>7. Cardinality(E) <= Cardinality(S)
  <2> HIDE DEF T, E
  <2>1. Cardinality(T) \in Int
    BY <1>2, <1>3
  <2> QED
    BY <1>2, <1>3, <1>5, <1>6, <2>1
<1> QED
  BY <1>6, <1>7 DEF E

(* The same when no received entry is the primary's: one less than the      *)
(* senders and the primary.                                                 *)
LEMMA CountFromBackups ==
  ASSUME NEW D, NEW type, NEW L \in SUBSET Log(type, D), NEW m \in L, NEW r,
         NEW S \in SUBSET Replica, m.replica \in S, m.replica # Primary,
         \A e \in L : /\ e.via = "own" => e.replica = r
                      /\ e.via = "net" => e.replica # Primary,
         \A e \in FromOthers(L, m) : e.replica \in S
  PROVE  /\ Cardinality(FromOthers(L, m)) \in Nat
         /\ Cardinality(FromOthers(L, m)) + 1 <= Cardinality(S \cup {Primary})
<1> DEFINE U == S \cup {Primary}
           V == U \ {Primary}
           T == V \ {m.replica}
           E == FromOthers(L, m)
<1>1. Alike(E, type, m.sequence, m.digest, r, T)
  <2> SUFFICES ASSUME NEW e \in E
               PROVE  /\ e = Req(type, m.sequence, m.digest, e.replica, e.via)
                      /\ \/ e.via = "own" /\ e.replica = r
                         \/ e.via = "net" /\ e.replica \in T
    BY DEF Alike
  <2>1. /\ e \in L /\ e.sequence = m.sequence /\ e.digest = m.digest /\ e.replica # m.replica
        /\ e.replica \in S
    BY DEF FromOthers
  <2>2. e \in Log(type, D)
    BY <2>1
  <2>3. e = Req(type, e.sequence, e.digest, e.replica, e.via) /\ e.via \in {"own", "net"}
    BY <2>2, LogFields
  <2> QED
    BY <2>1, <2>3
<1>2. IsFiniteSet(U) /\ Cardinality(U) \in Nat
  <2>1. U \in SUBSET Replica
    OBVIOUS
  <2> QED
    BY <2>1, FS_Subset, FS_CardinalityType
<1>3. Cardinality(V) = Cardinality(U) - 1 /\ IsFiniteSet(V)
  BY <1>2, FS_RemoveElement
<1>4. Cardinality(T) = Cardinality(V) - 1
  BY <1>3, FS_RemoveElement
<1>5. T \in SUBSET Replica
  OBVIOUS
<1> HIDE DEF T, E, U, V
<1>6. IsFiniteSet(E) /\ Cardinality(E) <= Cardinality(T) + 1
  BY <1>1, <1>5, CountEntries
<1>7. Cardinality(E) \in Nat
  BY <1>6, FS_CardinalityType
<1>8. Cardinality(E) + 1 <= Cardinality(U)
  BY <1>2, <1>3, <1>4, <1>6, <1>7
<1> QED
  BY <1>7, <1>8 DEF E, U

(* More replicas are still a quorum. *)
LEMMA QuorumGrows ==
  ASSUME NEW S, NEW T \in SUBSET Replica, S \subseteq T, IsQuorum(S)
  PROVE  IsQuorum(T)
<1>1. IsFiniteSet(T)
  BY FS_Subset
<1>2. IsFiniteSet(S) /\ Cardinality(S) <= Cardinality(T)
  BY <1>1, FS_Subset
<1>3. Cardinality(S) \in Nat /\ Cardinality(T) \in Nat
  BY <1>1, <1>2, FS_CardinalityType
<1> QED
  BY <1>2, <1>3, ThirdNat DEF IsQuorum

-----------------------------------------------------------------------------
(* The senders of a prepare, and of a commit, only become more. *)
LEMMA SendersGrow ==
  ASSUME TypeOK, [Next]_vars, NEW s, NEW d
  PROVE  /\ PrepareSenders(s, d) \subseteq PrepareSenders(s, d)'
         /\ CommitSenders(s) \subseteq CommitSenders(s)'
         /\ PrepareSenders(s, d)' \subseteq Replica /\ CommitSenders(s)' \subseteq Replica
BY LogsGrow DEF PrepareSenders, CommitSenders

(* The count of handleRequestPrepare is met by a quorum. *)
LEMMA NewCommitBacked ==
  ASSUME TypeOK, LogsTellTruth, NEW x \in net, handleRequestPrepare(x.to, x.msg),
         NEW p \in Replica, NEW e \in commits'[p], e \notin commits[p]
  PROVE  \E d \in Timestamp : IsQuorum(PrepareSenders(e.sequence, d)' \cup {Primary})
<1> DEFINE r == x.to
           m == x.msg
           o == Req("commit", m.sequence, 0, r, "own")
           L == prepares[r] \cup {m}
           S == PrepareSenders(m.sequence, m.digest)'
<1>0. [Next]_vars
  BY DEF Next
<1>1. r \in Replica /\ m \in Log("prepare", Timestamp)
  <2>1. m.type = "prepare" /\ MsgOK(m) /\ r \in Live
    BY DEF handleRequestPrepare, TypeOK, NetOK
  <2> QED
    BY <2>1, ByType
<1>2. /\ prepares \in [Replica -> SUBSET Log("prepare", Timestamp)]
      /\ commits \in [Replica -> SUBSET Log("commit", {0})]
  BY DEF TypeOK
<1>3. /\ FromBackup(m)
      /\ prepares' = [prepares EXCEPT ![r] = L]
      /\ commits' = [commits EXCEPT ![r] = @ \cup {o}]
      /\ twoThirds(Cardinality(FromOthers(L, m)))
  <2>1. CASE ~(FromBackup(m) /\ sequenceInRange(r, m.sequence))
    BY <2>1 DEF handleRequestPrepare
  <2>2. CASE FromBackup(m) /\ sequenceInRange(r, m.sequence)
    <3> DEFINE ready == /\ twoThirds(Cardinality(FromOthers(L, m)))
                        /\ ~hasRequestCommit(r, Req("commit", m.sequence, 0, r, "net"))
    <3>1. /\ prepares' = [prepares EXCEPT ![r] = L]
          /\ commits' = [commits EXCEPT ![r] = IF ready THEN @ \cup {o} ELSE @]
      BY <2>2 DEF handleRequestPrepare
    <3>2. ready
      <4> HIDE DEF ready, o, r, m
      <4> QED
        BY <1>1, <1>2, <3>1
    <3> QED
      BY <2>2, <3>1, <3>2
  <2> QED
    BY <2>1, <2>2
<1>4. o.sequence = m.sequence
  BY DEF Req
<1>5. PreparesTellTruth'
  BY <1>0, TruthStep DEF LogsTellTruth
<1>6. m.digest \in Timestamp /\ m.replica \in Replica /\ m.replica # Primary
  BY <1>1, <1>3, LogFields DEF FromBackup
<1> HIDE DEF r, m, o, L
<1>7. e.sequence = m.sequence
  BY <1>1, <1>2, <1>3, <1>4
<1>8. prepares'[r] = L /\ m \in L /\ L \in SUBSET Log("prepare", Timestamp)
  BY <1>1, <1>2, <1>3 DEF L
<1>9. \A q \in L : /\ q.via = "own" => q.replica = r
                   /\ q.via = "net" => q.replica # Primary
  BY <1>1, <1>5, <1>8 DEF PreparesTellTruth
<1>10. \A q \in L : q.replica \in PrepareSenders(q.sequence, q.digest)'
  <2> SUFFICES ASSUME NEW q \in L PROVE q.replica \in PrepareSenders(q.sequence, q.digest)'
    OBVIOUS
  <2>1. SentPrepare(q)'
    BY <1>1, <1>5, <1>8 DEF PreparesTellTruth
  <2>2. q.replica \in Replica
    BY <1>8, LogFields
  <2> QED
    BY <2>1, <2>2 DEF SentPrepare, PrepareSenders
<1>11. m.replica \in S /\ S \in SUBSET Replica
  BY <1>8, <1>10 DEF PrepareSenders
<1>12. \A q \in FromOthers(L, m) : q.replica \in S
  BY <1>10 DEF FromOthers
<1> HIDE DEF S
<1>13. /\ Cardinality(FromOthers(L, m)) \in Nat
       /\ Cardinality(FromOthers(L, m)) + 1 <= Cardinality(S \cup {Primary})
  BY <1>6, <1>8, <1>9, <1>11, <1>12, CountFromBackups
<1>14. Cardinality(S \cup {Primary}) \in Nat
  <2>1. S \cup {Primary} \in SUBSET Replica
    BY <1>11
  <2> QED
    BY <2>1, FS_Subset, FS_CardinalityType
<1>15. IsQuorum(S \cup {Primary})
  BY <1>3, <1>13, <1>14, ThirdNat DEF IsQuorum, twoThirds
<1> QED
  BY <1>6, <1>7, <1>15 DEF S

(* Only handleRequestPrepare adds a commit of the replica's own. *)
LEMMA OwnCommitStep ==
  ASSUME TypeOK, LogsTellTruth, [Next]_vars,
         NEW p \in Replica, NEW e \in commits'[p], e \notin commits[p], e.via = "own"
  PROVE  \E x \in net : handleRequestPrepare(x.to, x.msg)
<1> SUFFICES ASSUME ~ \E x \in net : handleRequestPrepare(x.to, x.msg) PROVE FALSE
  OBVIOUS
<1>0. commits \in [Replica -> SUBSET Log("commit", {0})]
  BY DEF TypeOK
<1>1. commits' # commits
  OBVIOUS
<1>2. PICK x \in net : handleRequestCommit(x.to, x.msg)
  BY <1>1 DEF Next, vars, logs, SendRequest, handleRequestClient, handleRequestPreprepare,
              handleRequestCheckpoint
<1>3. commits' = [commits EXCEPT ![x.to] = commits[x.to] \cup {x.msg}]
  BY <1>1, <1>2 DEF handleRequestCommit
<1>4. e = x.msg
  BY <1>0, <1>3
<1> QED
  BY <1>4 DEF LogsTellTruth, NetTellsTruth

(* A commit is sent only upon a quorum of prepares, which stay. *)
LEMMA CommitBackedStep ==
  ASSUME TypeOK, LogsTellTruth, CommitBackedByPrepares, [Next]_vars
  PROVE  CommitBackedByPrepares'
<1> SUFFICES ASSUME NEW r \in Replica, NEW e \in commits'[r], e.via = "own"
             PROVE  \E d \in Timestamp : IsQuorum(PrepareSenders(e.sequence, d)' \cup {Primary})
  BY DEF CommitBackedByPrepares, IsQuorum, N
<1>1. CASE e \in commits[r]
  <2>1. PICK d \in Timestamp : IsQuorum(PrepareSenders(e.sequence, d) \cup {Primary})
    BY <1>1 DEF CommitBackedByPrepares
  <2>2. /\ PrepareSenders(e.sequence, d) \cup {Primary} \subseteq PrepareSenders(e.sequence, d)' \cup {Primary}
        /\ PrepareSenders(e.sequence, d)' \cup {Primary} \in SUBSET Replica
    BY SendersGrow
  <2> QED
    BY <2>1, <2>2, QuorumGrows
<1>2. CASE e \notin commits[r]
  BY <1>2, OwnCommitStep, NewCommitBacked
<1> QED
  BY <1>1, <1>2

(* The count of handleRequestCommit is met by a quorum. *)
LEMMA ExecuteBacked ==
  ASSUME TypeOK, LogsTellTruth, NEW x \in net, handleRequestCommit(x.to, x.msg),
         sequenceInRange(x.to, x.msg.sequence),
         overTwoThirds(Cardinality(FromOthers(commits[x.to] \cup {x.msg}, x.msg)))
  PROVE  IsQuorum(CommitSenders(x.msg.sequence)')
<1> DEFINE r == x.to
           m == x.msg
           L == commits[r] \cup {m}
           S == CommitSenders(m.sequence)'
<1>0. [Next]_vars
  BY DEF Next
<1>1. r \in Replica /\ m \in Log("commit", {0})
  <2>1. m.type = "commit" /\ MsgOK(m) /\ r \in Live
    BY DEF handleRequestCommit, TypeOK, NetOK
  <2> QED
    BY <2>1, ByType
<1>2. commits \in [Replica -> SUBSET Log("commit", {0})]
  BY DEF TypeOK
<1>3. commits' = [commits EXCEPT ![r] = L] /\ overTwoThirds(Cardinality(FromOthers(L, m)))
  BY DEF handleRequestCommit
<1>4. CommitsTellTruth'
  BY <1>0, TruthStep DEF LogsTellTruth
<1> HIDE DEF r, m, L
<1>5. commits'[r] = L /\ m \in L /\ L \in SUBSET Log("commit", {0})
  BY <1>1, <1>2, <1>3 DEF L
<1>6. \A q \in L : q.via = "own" => q.replica = r
  BY <1>1, <1>4, <1>5 DEF CommitsTellTruth
<1>7. \A q \in L : q.replica \in CommitSenders(q.sequence)'
  <2> SUFFICES ASSUME NEW q \in L PROVE q.replica \in CommitSenders(q.sequence)'
    OBVIOUS
  <2>1. SentCommit(q)'
    BY <1>1, <1>4, <1>5 DEF CommitsTellTruth
  <2>2. q.replica \in Replica
    BY <1>5, LogFields
  <2> QED
    BY <2>1, <2>2 DEF SentCommit, CommitSenders
<1>8. m.replica \in S /\ S \in SUBSET Replica
  BY <1>5, <1>7 DEF CommitSenders
<1>9. \A q \in FromOthers(L, m) : q.replica \in S
  BY <1>7 DEF FromOthers
<1> HIDE DEF S
<1>10. /\ Cardinality(FromOthers(L, m)) \in Nat
       /\ Cardinality(FromOthers(L, m)) <= Cardinality(S)
  BY <1>5, <1>6, <1>8, <1>9, CountFromOthers
<1>11. Cardinality(S) \in Nat
  BY <1>8, FS_Subset, FS_CardinalityType
<1>12. IsQuorum(S)
  BY <1>3, <1>10, <1>11, ThirdNat DEF IsQuorum, overTwoThirds
<1> QED
  BY <1>12 DEF S, m

(* Only handleRequestCommit executes, and only one number at a time. *)
LEMMA ExecuteStep ==
  ASSUME TypeOK, LogsTellTruth, [Next]_vars, executed' # executed
  PROVE  \E r \in Replica, s \in Nat : /\ executed' = [executed EXCEPT ![r] = Append(@, s)]
                                       /\ IsQuorum(CommitSenders(s)')
<1>1. PICK x \in net : handleRequestCommit(x.to, x.msg)
  BY ZenonT(30) DEF Next, vars, SendRequest, handleRequestClient, handleRequestPreprepare,
         handleRequestPrepare, handleRequestCheckpoint
<1>2. /\ sequenceInRange(x.to, x.msg.sequence)
      /\ overTwoThirds(Cardinality(FromOthers(commits[x.to] \cup {x.msg}, x.msg)))
      /\ \E t \in Known(x.to, x.msg.sequence) : Execute(x.to, x.msg, t)
  BY <1>1 DEF handleRequestCommit
<1>3. executed' = [executed EXCEPT ![x.to] = Append(@, x.msg.sequence)]
  BY <1>2 DEF Execute
<1>4. x.to \in Replica /\ x.msg.sequence \in Nat
  <2>1. x.msg.type = "commit" /\ MsgOK(x.msg) /\ x.to \in Live
    BY <1>1 DEF handleRequestCommit, TypeOK, NetOK
  <2> QED
    BY <2>1, ByType, LogFields
<1>5. IsQuorum(CommitSenders(x.msg.sequence)')
  BY <1>1, <1>2, ExecuteBacked
<1> QED
  BY <1>3, <1>4, <1>5

(* A request is executed only upon a quorum of commits, which stay. *)
LEMMA ExecutedBackedStep ==
  ASSUME TypeOK, LogsTellTruth, ExecutedBackedByCommits, [Next]_vars
  PROVE  ExecutedBackedByCommits'
<1> DEFINE Sent(n) == {p \in Replica : Req("commit", n, 0, p, "own") \in commits'[p]}
<1> SUFFICES ASSUME NEW r \in Replica, NEW i \in 1 .. Len(executed'[r])
             PROVE  IsQuorum(Sent(executed'[r][i]))
  BY DEF ExecutedBackedByCommits, CommitSenders, IsQuorum, N
<1>1. executed \in [Replica -> Seq(Nat)]
  BY DEF TypeOK
<1>2. ASSUME i \in 1 .. Len(executed[r]), executed'[r][i] = executed[r][i]
      PROVE  IsQuorum(Sent(executed'[r][i]))
  <2> DEFINE n == executed[r][i]
  <2>1. IsQuorum(CommitSenders(n))
    BY <1>2 DEF ExecutedBackedByCommits
  <2> HIDE DEF n
  <2>2. CommitSenders(n) \subseteq Sent(n) /\ Sent(n) \in SUBSET Replica
    BY LogsGrow DEF CommitSenders
  <2> HIDE DEF Sent
  <2>3. IsQuorum(Sent(n))
    BY <2>1, <2>2, QuorumGrows
  <2> QED
    BY <1>2, <2>3 DEF n
<1>3. CASE executed' = executed
  BY <1>2, <1>3
<1>4. CASE executed' # executed
  <2>1. PICK q \in Replica, s \in Nat : /\ executed' = [executed EXCEPT ![q] = Append(@, s)]
                                        /\ IsQuorum(CommitSenders(s)')
    BY <1>4, ExecuteStep
  <2>2. CASE i \in 1 .. Len(executed[r]) /\ executed'[r][i] = executed[r][i]
    BY <1>2, <2>2
  <2>3. CASE executed'[r][i] = s
    <3>1. IsQuorum(Sent(s))
      BY <2>1 DEF CommitSenders
    <3> QED
      BY <2>3, <3>1
  <2> HIDE DEF Sent
  <2>4. CASE r = q
    <3>1. executed'[r] = Append(executed[r], s)
      BY <1>1, <2>1, <2>4
    <3> QED
      BY <1>1, <2>2, <2>3, <3>1
  <2>5. CASE r # q
    <3>1. executed'[r] = executed[r]
      BY <1>1, <2>1, <2>5
    <3> QED
      BY <2>2, <3>1
  <2> QED
    BY <2>4, <2>5
<1> QED
  BY <1>3, <1>4

-----------------------------------------------------------------------------
(* No checkpoint of another replica agrees with the one being handled. *)
LEMMA NeverClearsStep ==
  ASSUME TypeOK, LogsTellTruth, NeverClears, [Next]_vars
  PROVE  NeverClears'
<1>1. CASE stable' = stable /\ clearing' = clearing
  BY <1>1 DEF NeverClears
<1>2. ASSUME NEW x \in net, handleRequestCheckpoint(x.to, x.msg)
      PROVE  stable' = stable /\ clearing' = clearing
  <2> DEFINE r == x.to
             m == x.msg
             L == ckptReqs[r] \cup {m}
             goes == overTwoThirds(Cardinality(FromOthers(L, m)))
  <2>1. r \in Replica /\ m.digest[1] = m.replica
    BY <1>2 DEF handleRequestCheckpoint, TypeOK, NetOK, LogsTellTruth, NetTellsTruth
  <2>2. \A e \in L : e.digest[1] = e.replica
    BY <2>1 DEF LogsTellTruth, CheckpointsTellTruth
  <2>3. FromOthers(L, m) = {}
    BY <2>1, <2>2 DEF FromOthers
  <2>4. ~goes
    BY <2>3, FS_EmptySet, ThirdNat DEF overTwoThirds
  <2>5. /\ clearing' = clearing
        /\ stable' = stable \/ stable' = [stable EXCEPT ![r] = @]
    BY <1>2, <2>4 DEF handleRequestCheckpoint
  <2>6. stable \in [Replica -> Nat]
    BY DEF TypeOK
  <2> QED
    BY <2>5, <2>6
<1> QED
  BY Zenon, <1>1, <1>2 DEF Next, vars, SendRequest, handleRequestClient, handleRequestPreprepare,
                    handleRequestPrepare, handleRequestCommit

-----------------------------------------------------------------------------
(* The invariant is inductive: each count is sound because the entries it   *)
(* counts tell the truth.                                                   *)
IInv == /\ TypeOK /\ LogsTellTruth /\ CommitBackedByPrepares /\ ExecutedBackedByCommits
        /\ NeverClears

(* The invariant holds at the start. *)
LEMMA InitInv == Init => IInv
<1> SUFFICES ASSUME Init PROVE IInv
  OBVIOUS
<1>1. TypeOK
  <2>1. << >> \in Seq(Nat) /\ <<0>> \in Seq(0 .. MaxRequest) /\ <<0>> # << >>
    OBVIOUS
  <2> QED
    BY <2>1 DEF Init, TypeOK, NetOK, FirstReplies
<1>2. LogsTellTruth
  BY DEF Init, LogsTellTruth, PreparesTellTruth, CommitsTellTruth, CheckpointsTellTruth,
         NetTellsTruth
<1>3. CommitBackedByPrepares /\ ExecutedBackedByCommits /\ NeverClears
  BY DEF Init, CommitBackedByPrepares, ExecutedBackedByCommits, NeverClears
<1> QED
  BY <1>1, <1>2, <1>3 DEF IInv

(* Every step keeps it. *)
LEMMA NextInv == IInv /\ [Next]_vars => IInv'
<1> SUFFICES ASSUME IInv, [Next]_vars PROVE IInv'
  OBVIOUS
<1> QED
  BY TypeStep, TruthStep, CommitBackedStep, ExecutedBackedStep, NeverClearsStep DEF IInv

(* Every reachable state has its type: whatever the handlers log or send,   *)
(* LastTimestamp always finds a reply to read.                              *)
THEOREM TypeCorrect == Spec => []TypeOK
BY InitInv, NextInv, PTL DEF Spec, IInv

(* What a log holds, or is under way, its replica has sent. *)
THEOREM LogsAreTrue == Spec => []LogsTellTruth
BY InitInv, NextInv, PTL DEF Spec, IInv

(* A commit is sent only with a quorum of the primary and senders of equal  *)
(* prepares behind it, for every number of replicas from four on.           *)
THEOREM CommitIsBacked == Spec => []CommitBackedByPrepares
BY InitInv, NextInv, PTL DEF Spec, IInv

(* A number is executed only with a quorum of senders of its commit. *)
THEOREM ExecutionIsBacked == Spec => []ExecutedBackedByCommits
BY InitInv, NextInv, PTL DEF Spec, IInv

(* No checkpoint is ever stable: the logs are never cleared and the low     *)
(* water mark never moves.                                                  *)
THEOREM CheckpointNeverStable == Spec => []NeverClears
BY InitInv, NextInv, PTL DEF Spec, IInv

-----------------------------------------------------------------------------
(* The view change (GoPBFTViewChange), for the same table of replicas. *)
CONSTANTS Correct, Span, Logged, Asks, FaultyChanges, FaultyAcks
VARIABLES view, activeView, log, viewChanges, acks, pendingVC, newViews, panicked, mail

VC == INSTANCE GoPBFTViewChange WITH net <- mail

(* Its sets are the sets of FiniteSets. *)
LEMMA ChangeSets ==
  /\ \A S : VC!IsFiniteSet(S) = IsFiniteSet(S)
  /\ \A S : VC!Cardinality(S) = Cardinality(S)
<1>1. ASSUME NEW S PROVE VC!IsFiniteSet(S) = IsFiniteSet(S)
  BY DEF VC!IsFiniteSet, IsFiniteSet
<1>2. ASSUME NEW S PROVE VC!Cardinality(S) = Cardinality(S)
  BY DEF VC!Cardinality, Cardinality
<1> QED
  BY <1>1, <1>2

(* More than two thirds of the replicas are correct, and two thirds, rounded *)
(* down, is a natural number.                                               *)
LEMMA ChangeNumbers ==
  ASSUME VC!FaultyAssumption
  PROVE  /\ VC!N \in Nat /\ (2 * VC!N) \div 3 \in Nat
         /\ IsFiniteSet(Correct) /\ Cardinality(Correct) \in Nat
         /\ 3 * Cardinality(Correct) > 2 * VC!N
<1>1. IsFiniteSet(Replica) /\ IsFiniteSet(Correct)
  BY FS_Subset DEF VC!FaultyAssumption
<1>2. VC!N = Cardinality(Replica)
  BY ChangeSets DEF VC!N
<1>3. VC!N \in Nat /\ Cardinality(Correct) \in Nat
  BY <1>1, <1>2, FS_CardinalityType
<1>4. 3 * Cardinality(Correct) > 2 * VC!N
  BY ChangeSets DEF VC!FaultyAssumption
<1> QED
  BY <1>1, <1>3, <1>4

(* The minimum of a set is one of its elements, if one is below all others. *)
LEMMA MinOfIs ==
  ASSUME NEW S, NEW x \in S, \A y \in S : x <= y
  PROVE  VC!MinOf(S) \in S
BY DEF VC!MinOf

(* No new-view can be processed by the replica that made it: its lowest     *)
(* summary is above the low water mark.                                     *)
LEMMA NoneProcessed ==
  ASSUME VC!FaultyAssumption, NEW r, NEW v, NEW pend, NEW mine
  PROVE  VC!requestNewView(r, v, pend, mine) = {}
<1> SUFFICES ASSUME NEW nv \in VC!requestNewView(r, v, pend, mine) PROVE FALSE
  OBVIOUS
<1>1. nv \in VC!createNewView(r, v, pend) /\ VC!processNewView(r, nv, mine)
  BY DEF VC!requestNewView
<1>2. PICK x \in VC!StartSummary(pend) :
        nv.summaries = {x} \cup VC!MoreSummaries(pend, x.sequence)
  BY <1>1 DEF VC!createNewView
<1>3. x.sequence \in Int /\ x.sequence > 0
  BY <1>2 DEF VC!StartSummary, VC!lowWaterMark, VC!FaultyAssumption
<1> DEFINE S == {y.sequence : y \in nv.summaries}
<1>4. x.sequence \in S
  BY <1>2
<1>5. \A y \in VC!MoreSummaries(pend, x.sequence) : y.sequence \in x.sequence .. x.sequence + Span
  BY DEF VC!MoreSummaries
<1>6. \A s \in S : s \in Int /\ x.sequence <= s
  BY <1>2, <1>3, <1>5 DEF VC!FaultyAssumption
<1>7. VC!MinOf(S) \in S
  BY <1>4, <1>6, MinOfIs
<1>8. VC!MinOf(S) > 0
  BY <1>3, <1>6, <1>7
<1>9. 0 >= VC!MinOf(S)
  BY <1>1 DEF VC!processNewView, VC!lowWaterMark
<1> QED
  BY <1>6, <1>7, <1>8, <1>9

(* Acks of different replicas, and one more replica: so many ackers.        *)
LEMMA AckersCount ==
  ASSUME VC!FaultyAssumption, NEW A, IsFiniteSet(A), NEW b \in A, NEW O, O \subseteq A \ {b},
         \A a \in A : a.replica \in Replica,
         \A a, c \in O : a.replica = c.replica => a = c,
         \A a \in O : a.replica # b.replica,
         VC!twoThirds(VC!Cardinality(O)),
         NEW P, P \subseteq Replica, \A a \in O \cup {b} : a.replica \in P
  PROVE  3 * VC!Cardinality(P) > 2 * VC!N
<1> DEFINE f == [a \in O \cup {b} |-> a.replica]
<1>1. IsFiniteSet(O) /\ IsFiniteSet(P)
  BY FS_Subset DEF VC!FaultyAssumption
<1>2. f \in Injection(O \cup {b}, P)
  <2>1. f \in [O \cup {b} -> P]
    OBVIOUS
  <2>2. \A x, y \in O \cup {b} : f[x] = f[y] => x = y
    OBVIOUS
  <2> QED
    BY <2>1, <2>2 DEF Injection, IsInjective
<1>3. Cardinality(O \cup {b}) = Cardinality(O) + 1
  BY <1>1, FS_AddElement
<1>4. Cardinality(O) + 1 <= Cardinality(P)
  BY <1>1, <1>2, <1>3, FS_Injection
<1>5. Cardinality(O) \in Nat /\ Cardinality(P) \in Nat
  BY <1>1, FS_CardinalityType
<1>6. Cardinality(O) >= (2 * VC!N) \div 3
  BY ChangeSets DEF VC!twoThirds
<1> QED
  BY <1>4, <1>5, <1>6, ChangeNumbers, ChangeSets

(* At the start only faulty replicas have sent anything. *)
LEMMA ChangeInit ==
  ASSUME VC!FaultyAssumption
  PROVE  VC!Init => VC!ChangeInv
<1> SUFFICES ASSUME VC!Init PROVE VC!ChangeInv
  OBVIOUS
<1>1. /\ view = [r \in Correct |-> 0] /\ viewChanges = [r \in Correct |-> {}]
      /\ acks = [r \in Correct |-> {}] /\ pendingVC = [r \in Correct |-> << >>] /\ newViews = {}
  BY DEF VC!Init
<1>2. VC!SentTrue
  <2> SUFFICES ASSUME NEW x \in mail
               PROVE  /\ x.msg.type = "view-change" /\ x.msg.replica \in Correct
                           => x.msg.checkpoints = VC!Checkpoints
                      /\ x.msg.type = "ack" => VC!AckTrue(x.msg)
    BY DEF VC!SentTrue
  <2>1. CASE x.msg \in FaultyChanges
    BY <2>1 DEF VC!FaultyAssumption
  <2>2. CASE x.msg \in FaultyAcks
    <3>1. x.msg.type = "ack"
      BY <2>2 DEF VC!FaultyAssumption, VC!Ack
    <3> QED
      BY <2>2, <3>1 DEF VC!FaultyAssumption, VC!AckTrue
  <2>3. x.msg \in FaultyChanges \cup FaultyAcks
    <3>1. \/ x \in UNION {VC!Multicast(m) : m \in FaultyChanges}
          \/ x \in {[to |-> VC!newPrimary(m.view), msg |-> m] : m \in FaultyAcks}
      BY DEF VC!Init
    <3>2. CASE x \in UNION {VC!Multicast(m) : m \in FaultyChanges}
      <4>1. PICK m \in FaultyChanges : x \in VC!Multicast(m)
        BY <3>2
      <4> QED
        BY <4>1 DEF VC!Multicast
    <3>3. CASE x \in {[to |-> VC!newPrimary(m.view), msg |-> m] : m \in FaultyAcks}
      BY <3>3
    <3> QED
      BY <3>1, <3>2, <3>3
  <2> QED
    BY <2>1, <2>2, <2>3
<1>3. VC!LoggedOnce
  <2>1. VC!IsFiniteSet({})
    BY ChangeSets, FS_EmptySet
  <2> QED
    BY <1>1, <2>1 DEF VC!LoggedOnce
<1>4. VC!ViewChangeUnheard /\ VC!AckedIsPending /\ VC!NoNewView
  BY <1>1 DEF VC!ViewChangeUnheard, VC!AckedIsPending, VC!NoNewView
<1>5. VC!PendingBacked
  BY <1>1 DEF VC!PendingBacked, VC!ElementsOf
<1> QED
  BY <1>1, <1>2, <1>3, <1>4, <1>5 DEF VC!ChangeInv

(* A sequence over S is one over what contains S. *)
LEMMA SeqWider ==
  ASSUME NEW S, NEW T, S \subseteq T, NEW q \in Seq(S)
  PROVE  q \in Seq(T)
OBVIOUS

(* What an ack says stays true while replicas only log more. *)
LEMMA AckStaysTrue ==
  ASSUME NEW a, VC!AckTrue(a),
         \A r \in Correct : viewChanges[r] \subseteq viewChanges'[r]
  PROVE  VC!AckTrue(a)'
BY DEF VC!AckTrue

(* Neither the acks nor what is pending change: what is pending stays backed. *)
LEMMA PendingStays ==
  ASSUME VC!PendingBacked, acks' = acks, pendingVC' = pendingVC
  PROVE  VC!PendingBacked'
<1>1. \A q, v, c, d : VC!Ackers(q, v, c, d)' = VC!Ackers(q, v, c, d)
  BY DEF VC!Ackers
<1> QED
  BY <1>1 DEF VC!PendingBacked, VC!ElementsOf

(* The parts that speak of view-changes: a replica logs one more, of a view *)
(* and replica it has none of, its own or that of a faulty one.             *)
LEMMA OneMoreLogged ==
  ASSUME VC!FaultyAssumption, VC!ChangeInv, NEW r \in Correct, NEW m,
         viewChanges' = [viewChanges EXCEPT ![r] = @ \cup {m}],
         \A o \in viewChanges[r] : ~(o.view = m.view /\ o.replica = m.replica),
         m.replica \in Correct => m.replica = r,
         (view' = view /\ m.replica # r) \/ (view' = [view EXCEPT ![r] = @ + 1] /\ view[r] = 0),
         UNCHANGED <<acks, pendingVC, newViews>>
  PROVE  /\ VC!LoggedOnce' /\ VC!ViewChangeUnheard' /\ VC!PendingBacked'
         /\ VC!AckedIsPending' /\ VC!NoNewView'
         /\ DOMAIN view' = Correct /\ DOMAIN viewChanges' = Correct
         /\ \A q \in Correct : viewChanges[q] \subseteq viewChanges'[q]
<1>1. DOMAIN view = Correct /\ DOMAIN viewChanges = Correct /\ VC!LoggedOnce
  BY DEF VC!ChangeInv
<1>2. /\ DOMAIN view' = Correct /\ DOMAIN viewChanges' = Correct
      /\ viewChanges'[r] = viewChanges[r] \cup {m}
      /\ \A q \in Correct \ {r} : viewChanges'[q] = viewChanges[q] /\ view'[q] = view[q]
  BY <1>1
<1>3. \A q \in Correct : viewChanges[q] \subseteq viewChanges'[q]
  BY <1>2
<1>4. view[r] # 0 => view'[r] # 0
  BY <1>1
<1>5. m.replica = r => view'[r] # 0
  BY <1>1
<1>6. VC!LoggedOnce'
  <2> SUFFICES ASSUME NEW q \in Correct
               PROVE /\ \A x, y \in viewChanges'[q] : x.view = y.view /\ x.replica = y.replica => x = y
                     /\ \A x \in viewChanges'[q] : x.replica = q => view'[q] # 0
                     /\ VC!IsFiniteSet(acks[q]) /\ \A a \in acks[q] : VC!AckTrue(a)'
                     /\ \A a, b \in acks[q] :
                          a.view = b.view /\ a.replica = b.replica /\ a.viewchanger = b.viewchanger => a = b
                     /\ pendingVC[q] \in Seq(viewChanges'[q])
    BY DEF VC!LoggedOnce, VC!IsFiniteSet
  <2>1. /\ \A x, y \in viewChanges[q] : x.view = y.view /\ x.replica = y.replica => x = y
        /\ \A x \in viewChanges[q] : x.replica = q => view[q] # 0
        /\ VC!IsFiniteSet(acks[q]) /\ \A a \in acks[q] : VC!AckTrue(a)
        /\ \A a, b \in acks[q] :
             a.view = b.view /\ a.replica = b.replica /\ a.viewchanger = b.viewchanger => a = b
        /\ pendingVC[q] \in Seq(viewChanges[q])
    BY <1>1 DEF VC!LoggedOnce
  <2>2. \A a \in acks[q] : VC!AckTrue(a)'
    BY <1>3, <2>1, AckStaysTrue
  <2>3. pendingVC[q] \in Seq(viewChanges'[q])
    BY <1>3, <2>1, SeqWider
  <2>4. \A x, y \in viewChanges'[q] : x.view = y.view /\ x.replica = y.replica => x = y
    BY <1>2, <2>1
  <2>5. \A x \in viewChanges'[q] : x.replica = q => view'[q] # 0
    BY <1>2, <1>4, <1>5, <2>1
  <2> QED
    BY <2>1, <2>2, <2>3, <2>4, <2>5
<1>7. VC!ViewChangeUnheard'
  BY <1>2 DEF VC!ChangeInv, VC!ViewChangeUnheard
<1>8. VC!PendingBacked' /\ VC!AckedIsPending' /\ VC!NoNewView'
  <2>1. VC!PendingBacked'
    <3>1. VC!PendingBacked /\ acks' = acks /\ pendingVC' = pendingVC
      BY DEF VC!ChangeInv
    <3> QED
      BY <3>1, PendingStays
  <2>2. VC!AckedIsPending' /\ VC!NoNewView'
    BY DEF VC!ChangeInv, VC!AckedIsPending, VC!NoNewView, VC!ElementsOf
  <2> QED
    BY <2>1, <2>2
<1> QED
  BY <1>2, <1>3, <1>6, <1>7, <1>8

(* What is under way stays true when messages are taken, and true ones sent. *)
LEMMA SentStaysTrue ==
  ASSUME VC!SentTrue, \A q \in Correct : viewChanges[q] \subseteq viewChanges'[q],
         \A x \in mail' : \/ x \in mail
                          \/ /\ x.msg.type = "view-change" /\ x.msg.replica \in Correct
                                  => x.msg.checkpoints = VC!Checkpoints
                             /\ x.msg.type = "ack" => VC!AckTrue(x.msg)'
  PROVE  VC!SentTrue'
<1> SUFFICES ASSUME NEW x \in mail'
             PROVE  /\ x.msg.type = "view-change" /\ x.msg.replica \in Correct
                         => x.msg.checkpoints = VC!Checkpoints
                    /\ x.msg.type = "ack" => VC!AckTrue(x.msg)'
  BY DEF VC!SentTrue, VC!Checkpoints
<1>1. CASE x \in mail
  <2>1. /\ x.msg.type = "view-change" /\ x.msg.replica \in Correct
             => x.msg.checkpoints = VC!Checkpoints
        /\ x.msg.type = "ack" => VC!AckTrue(x.msg)
    BY <1>1 DEF VC!SentTrue
  <2> QED
    BY <2>1, AckStaysTrue
<1> QED
  BY <1>1

(* A correct replica's view-change holds the checkpoint of number 0. *)
LEMMA RequestStep ==
  ASSUME VC!FaultyAssumption, VC!ChangeInv, NEW r \in Correct, VC!requestViewChange(r)
  PROVE  VC!ChangeInv'
<1> DEFINE numbers == VC!lowWaterMark + 1 .. VC!lowWaterMark + Span
           m == [type |-> "view-change", view |-> view[r] + 1, sequence |-> VC!lowWaterMark,
                 checkpoints |-> VC!Checkpoints,
                 preps |-> UNION {VC!prepBySequence(log[r], s) : s \in numbers},
                 prepreps |-> UNION {VC!prePrepBySequence(log[r], s) : s \in numbers},
                 replica |-> r]
<1>1. /\ m.type = "view-change" /\ m.view = view[r] + 1 /\ m.replica = r
      /\ m.checkpoints = VC!Checkpoints
      /\ viewChanges' = [viewChanges EXCEPT ![r] = @ \cup {m}]
      /\ mail' \in {mail, mail \cup VC!Multicast(m)}
  BY DEF VC!requestViewChange
<1> HIDE DEF m
<1>2. /\ view[r] = 0 /\ view' = [view EXCEPT ![r] = @ + 1]
      /\ UNCHANGED <<acks, pendingVC, newViews>>
  BY DEF VC!requestViewChange
<1>3. \A o \in viewChanges[r] : ~(o.view = m.view /\ o.replica = m.replica)
  BY <1>1, <1>2 DEF VC!ChangeInv, VC!LoggedOnce
<1>4. /\ VC!LoggedOnce' /\ VC!ViewChangeUnheard' /\ VC!PendingBacked'
      /\ VC!AckedIsPending' /\ VC!NoNewView'
      /\ DOMAIN view' = Correct /\ DOMAIN viewChanges' = Correct
      /\ \A q \in Correct : viewChanges[q] \subseteq viewChanges'[q]
  BY <1>1, <1>2, <1>3, OneMoreLogged
<1>5. \A x \in mail' : x \in mail \/ x.msg = m
  BY <1>1 DEF VC!Multicast
<1>6. VC!SentTrue'
  BY <1>1, <1>4, <1>5, SentStaysTrue DEF VC!ChangeInv
<1> QED
  BY <1>2, <1>4, <1>6 DEF VC!ChangeInv

(* A view-change with the checkpoint of number 0 is refused, so only those  *)
(* of faulty replicas are logged, and acked as they are.                    *)
LEMMA ViewChangeStep ==
  ASSUME VC!FaultyAssumption, VC!ChangeInv, NEW r, NEW m, VC!handleRequestViewChange(r, m)
  PROVE  VC!ChangeInv'
<1>1. /\ r \in Correct /\ m.type = "view-change" /\ [to |-> r, msg |-> m] \in mail
      /\ UNCHANGED <<view, acks, pendingVC, newViews>>
  BY DEF VC!handleRequestViewChange, VC!Takes
<1>2. \A x \in VC!Without(r, m) : x \in mail
  BY DEF VC!Without
<1>3. CASE /\ VC!Valid(m) /\ ~VC!hasRequestViewChange(r, m)
           /\ viewChanges' = [viewChanges EXCEPT ![r] = @ \cup {m}]
           /\ \A x \in mail' : x \in mail \/ x.msg = VC!Ack(m.view, r, m.replica, m)
  <2>1. m.replica \notin Correct
    <3>1. m.replica \in Correct => m.checkpoints = VC!Checkpoints
      <4>1. [to |-> r, msg |-> m].msg = m
        OBVIOUS
      <4> QED
        BY <1>1, <4>1 DEF VC!ChangeInv, VC!SentTrue
    <3>2. m.checkpoints # VC!Checkpoints
      <4> DEFINE first == [sequence |-> 0, digest |-> [hash |-> "start"]]
      <4>1. first.sequence = 0 /\ first \in VC!Checkpoints
        BY DEF VC!Checkpoints
      <4>2. ~VC!sequenceInRange(0)
        BY DEF VC!sequenceInRange, VC!lowWaterMark
      <4> HIDE DEF first
      <4> QED
        BY <1>3, <4>1, <4>2 DEF VC!Valid
    <3> QED
      BY <3>1, <3>2
  <2>2. \A o \in viewChanges[r] : ~(o.view = m.view /\ o.replica = m.replica)
    BY <1>3 DEF VC!hasRequestViewChange
  <2>3. /\ VC!LoggedOnce' /\ VC!ViewChangeUnheard' /\ VC!PendingBacked'
        /\ VC!AckedIsPending' /\ VC!NoNewView'
        /\ DOMAIN view' = Correct /\ DOMAIN viewChanges' = Correct
        /\ \A q \in Correct : viewChanges[q] \subseteq viewChanges'[q]
    BY <1>1, <1>3, <2>1, <2>2, OneMoreLogged
  <2>4. VC!AckTrue(VC!Ack(m.view, r, m.replica, m))'
    <3>1. m \in viewChanges'[r] /\ r \in Replica
      BY <1>1, <1>3 DEF VC!ChangeInv, VC!FaultyAssumption
    <3> QED
      BY <3>1 DEF VC!AckTrue, VC!Ack
  <2>5. VC!Ack(m.view, r, m.replica, m).type = "ack"
    BY DEF VC!Ack
  <2>6. VC!SentTrue'
    BY <1>3, <2>3, <2>4, <2>5, SentStaysTrue DEF VC!ChangeInv
  <2> QED
    BY <1>1, <2>3, <2>6 DEF VC!ChangeInv
<1>4. CASE viewChanges' = viewChanges /\ \A x \in mail' : x \in mail
  <2>1. VC!SentTrue'
    BY <1>4, SentStaysTrue DEF VC!ChangeInv
  <2>2. VC!LoggedOnce'
    <3>1. \A q \in Correct : \A a \in acks[q] : VC!AckTrue(a)'
      BY <1>4, AckStaysTrue DEF VC!ChangeInv, VC!LoggedOnce
    <3> QED
      BY <1>1, <1>4, <3>1 DEF VC!ChangeInv, VC!LoggedOnce
  <2>3. VC!PendingBacked'
    <3>1. \A q, v, c, d : VC!Ackers(q, v, c, d)' = VC!Ackers(q, v, c, d)
      BY <1>1 DEF VC!Ackers
    <3> QED
      BY <1>1, <3>1 DEF VC!ChangeInv, VC!PendingBacked, VC!ElementsOf
  <2> QED
    BY <1>1, <1>4, <2>1, <2>2, <2>3
    DEF VC!ChangeInv, VC!ViewChangeUnheard, VC!AckedIsPending, VC!NoNewView, VC!ElementsOf
<1>5. \/ /\ VC!Valid(m) /\ ~VC!hasRequestViewChange(r, m)
         /\ viewChanges' = [viewChanges EXCEPT ![r] = @ \cup {m}]
         /\ \A x \in mail' : x \in mail \/ x.msg = VC!Ack(m.view, r, m.replica, m)
      \/ viewChanges' = viewChanges /\ \A x \in mail' : x \in mail
  BY <1>2 DEF VC!handleRequestViewChange, VC!Ack
<1> QED
  BY <1>3, <1>4, <1>5

(* An ack that is true is what its fields say. *)
LEMMA AckFields ==
  ASSUME NEW a, VC!AckTrue(a), NEW p
  PROVE  /\ [a EXCEPT !.replica = p] = VC!Ack(a.view, p, a.viewchanger, a.digest)
         /\ VC!Ack(a.view, a.replica, a.viewchanger, a.digest) = a
BY DEF VC!AckTrue, VC!Ack

LEMMA AckShape ==
  ASSUME NEW v, NEW p, NEW c, NEW d
  PROVE  LET a == VC!Ack(v, p, c, d)
         IN  a.view = v /\ a.replica = p /\ a.viewchanger = c /\ a.digest = d
BY DEF VC!Ack

(* More acks are ackers still. *)
LEMMA AckersGrow ==
  ASSUME VC!FaultyAssumption, NEW r, acks[r] \subseteq acks'[r], NEW v, NEW c, NEW d,
         3 * VC!Cardinality(VC!Ackers(r, v, c, d)) > 2 * VC!N
  PROVE  3 * VC!Cardinality(VC!Ackers(r, v, c, d)') > 2 * VC!N
<1> DEFINE P == VC!Ackers(r, v, c, d)
           Q == VC!Ackers(r, v, c, d)'
<1>1. P \subseteq Q /\ Q \subseteq Replica
  BY DEF VC!Ackers
<1>2. IsFiniteSet(Q) /\ IsFiniteSet(P)
  BY <1>1, ReplicaAssumption, FS_Subset
<1>3. Cardinality(P) <= Cardinality(Q) /\ Cardinality(P) \in Nat /\ Cardinality(Q) \in Nat
  BY <1>1, <1>2, FS_Subset, FS_CardinalityType
<1> HIDE DEF P, Q
<1>4. 3 * Cardinality(P) > 2 * VC!N
  BY ChangeSets DEF P
<1>5. 3 * Cardinality(Q) > 2 * VC!N
  BY <1>3, <1>4, ChangeNumbers
<1> QED
  BY <1>5, ChangeSets DEF Q

(* The ack of one correct replica, when those of all others are there: the  *)
(* others are two thirds, rounded down.                                     *)
LEMMA OthersSuffice ==
  ASSUME VC!FaultyAssumption, NEW A, IsFiniteSet(A), NEW p \in Correct,
         NEW v, NEW c, NEW d, \A q \in Correct : VC!Ack(v, q, c, d) \in A
  PROVE  VC!twoThirds(VC!Cardinality(VC!OthersAgree(VC!Ack(v, p, c, d), A)))
<1> DEFINE O == VC!OthersAgree(VC!Ack(v, p, c, d), A)
           f == [q \in Correct \ {p} |-> VC!Ack(v, q, c, d)]
<1>1. O \subseteq A
  BY DEF VC!OthersAgree
<1>2. IsFiniteSet(O) /\ IsFiniteSet(Correct)
  BY <1>1, FS_Subset, ChangeNumbers
<1>3. f \in Injection(Correct \ {p}, O)
  <2>1. \A q \in Correct \ {p} : VC!Ack(v, q, c, d) \in O
    BY AckShape DEF VC!OthersAgree
  <2> HIDE DEF O
  <2>2. f \in [Correct \ {p} -> O]
    BY <2>1
  <2>3. \A x, y \in Correct \ {p} : f[x] = f[y] => x = y
    BY AckShape
  <2> QED
    BY <2>2, <2>3 DEF Injection, IsInjective
<1> HIDE DEF O, f
<1>4. Cardinality(Correct \ {p}) = Cardinality(Correct) - 1
  BY <1>2, FS_RemoveElement
<1>5. Cardinality(Correct) - 1 <= Cardinality(O)
  BY <1>2, <1>3, <1>4, FS_Injection
<1>6. Cardinality(O) \in Nat
  BY <1>2, FS_CardinalityType
<1>7. Cardinality(O) >= (2 * VC!N) \div 3
  BY <1>5, <1>6, ChangeNumbers
<1> QED
  BY <1>7, ChangeSets DEF O, VC!twoThirds

(* What handleRequestAck does with an ack that is new to it. *)
LEMMA NewAck ==
  ASSUME VC!FaultyAssumption, VC!ChangeInv, NEW r, NEW a, VC!handleRequestAck(r, a)
  PROVE  /\ r \in Correct /\ VC!AckTrue(a) /\ UNCHANGED <<view, viewChanges, newViews>>
         /\ \A x \in mail' : x \in mail
         /\ DOMAIN acks' = Correct /\ DOMAIN pendingVC' = Correct
         /\ \A q \in Correct \ {r} : acks'[q] = acks[q] /\ pendingVC'[q] = pendingVC[q]
         /\ \/ UNCHANGED <<acks, pendingVC>>
            \/ /\ acks'[r] = acks[r] \cup {a} /\ ~VC!hasRequestAck(r, a)
               /\ LET found == {m \in viewChanges[r] : m.view = a.view /\ m.replica = a.viewchanger}
                      goes  == /\ found # {}
                               /\ VC!twoThirds(VC!Cardinality(VC!OthersAgree(a, acks'[r])))
                  IN  \/ ~goes /\ pendingVC'[r] = pendingVC[r]
                      \/ goes /\ \E m \in found : pendingVC'[r] = Append(pendingVC[r], m)
<1> DEFINE mine  == acks[r] \cup {a}
           found == {m \in viewChanges[r] : m.view = a.view /\ m.replica = a.viewchanger}
           goes  == found # {} /\ VC!twoThirds(VC!Cardinality(VC!OthersAgree(a, mine)))
<1>1. /\ r \in Correct /\ a.type = "ack" /\ [to |-> r, msg |-> a] \in mail
      /\ mail' = VC!Without(r, a) /\ UNCHANGED <<view, viewChanges>>
      /\ DOMAIN acks = Correct /\ DOMAIN pendingVC = Correct
  BY DEF VC!handleRequestAck, VC!Takes, VC!ChangeInv
<1>2. VC!AckTrue(a)
  <2>1. [to |-> r, msg |-> a].msg = a
    OBVIOUS
  <2> QED
    BY <1>1, <2>1 DEF VC!ChangeInv, VC!SentTrue
<1>3. \A x \in mail' : x \in mail
  BY <1>1 DEF VC!Without
<1>4. IF r # VC!newPrimary(a.view) \/ VC!hasRequestAck(r, a) THEN UNCHANGED acks
      ELSE acks' = [acks EXCEPT ![r] = mine]
  BY DEF VC!handleRequestAck
<1>5. IF acks'[r] # acks[r] /\ goes
      THEN \E m \in found : /\ pendingVC' = [pendingVC EXCEPT ![r] = Append(@, m)]
                            /\ newViews' = newViews
      ELSE UNCHANGED <<pendingVC, newViews>>
  BY NoneProcessed DEF VC!handleRequestAck, VC!logPendingVC
<1>6. newViews' = newViews
  BY <1>5
<1>7. CASE UNCHANGED acks
  <2>1. UNCHANGED pendingVC
    BY <1>5, <1>7
  <2> QED
    BY <1>1, <1>2, <1>3, <1>6, <1>7, <2>1
<1>8. CASE ~VC!hasRequestAck(r, a) /\ acks' = [acks EXCEPT ![r] = mine]
  <2>1. acks'[r] = mine /\ DOMAIN acks' = Correct /\ \A q \in Correct \ {r} : acks'[q] = acks[q]
    BY <1>1, <1>8
  <2>2. mine # acks[r]
    BY <1>8 DEF VC!hasRequestAck
  <2> HIDE DEF mine
  <2>3. CASE ~goes
    <3>1. UNCHANGED pendingVC
      BY <1>5, <2>3
    <3> QED
      BY <1>1, <1>2, <1>3, <1>6, <1>8, <2>1, <2>3, <3>1 DEF mine
  <2>4. CASE goes
    <3>1. PICK m \in found : pendingVC' = [pendingVC EXCEPT ![r] = Append(@, m)]
      BY <1>5, <2>1, <2>2, <2>4
    <3> HIDE DEF found
    <3>2. /\ pendingVC'[r] = Append(pendingVC[r], m) /\ DOMAIN pendingVC' = Correct
          /\ \A q \in Correct \ {r} : pendingVC'[q] = pendingVC[q]
      BY <1>1, <3>1
    <3> QED
      BY <1>1, <1>2, <1>3, <1>6, <1>8, <2>1, <2>4, <3>2 DEF mine, found
  <2> QED
    BY <2>3, <2>4
<1> QED
  BY <1>4, <1>7, <1>8

(* A view-change that becomes pending was acked by more than two thirds:    *)
(* by two thirds that sent the ack being handled, and by its sender.        *)
LEMMA AckPendingBacked ==
  ASSUME VC!FaultyAssumption, VC!ChangeInv, NEW r, NEW a, VC!handleRequestAck(r, a), VC!LoggedOnce'
  PROVE  VC!PendingBacked'
<1> SUFFICES ASSUME NEW q \in Correct, NEW m \in VC!ElementsOf(pendingVC[q])'
             PROVE  \E d \in {b.digest : b \in acks'[q]} :
                      3 * VC!Cardinality(VC!Ackers(q, m.view, m.replica, d)') > 2 * VC!N
  BY DEF VC!PendingBacked, VC!Ackers, VC!N
<1>1. acks[q] \subseteq acks'[q]
  BY NewAck
<1>2. CASE m \in VC!ElementsOf(pendingVC[q])
  <2>1. PICK d \in {b.digest : b \in acks[q]} :
          3 * VC!Cardinality(VC!Ackers(q, m.view, m.replica, d)) > 2 * VC!N
    BY <1>2 DEF VC!ChangeInv, VC!PendingBacked
  <2>2. 3 * VC!Cardinality(VC!Ackers(q, m.view, m.replica, d)') > 2 * VC!N
    BY <1>1, <2>1, AckersGrow
  <2> QED
    BY <1>1, <2>1, <2>2
<1>3. CASE m \notin VC!ElementsOf(pendingVC[q])
  <2>1. q = r /\ pendingVC'[r] # pendingVC[r]
    BY <1>3, NewAck DEF VC!ElementsOf
  <2>2. /\ acks'[r] = acks[r] \cup {a} /\ VC!twoThirds(VC!Cardinality(VC!OthersAgree(a, acks'[r])))
        /\ \E o \in viewChanges[r] : /\ o.view = a.view /\ o.replica = a.viewchanger
                                     /\ pendingVC'[r] = Append(pendingVC[r], o)
    BY <2>1, NewAck
  <2>3. PICK o \in viewChanges[r] : /\ o.view = a.view /\ o.replica = a.viewchanger
                                   /\ pendingVC'[r] = Append(pendingVC[r], o)
    BY <2>2
  <2>4. m = o
    <3>1. r \in Correct /\ pendingVC[r] \in Seq(viewChanges[r])
      BY NewAck DEF VC!ChangeInv, VC!LoggedOnce
    <3>2. PICK i \in DOMAIN (pendingVC'[r]) : m = pendingVC'[r][i]
      BY <2>1 DEF VC!ElementsOf
    <3>3. i \in DOMAIN (pendingVC[r]) => m \in VC!ElementsOf(pendingVC[r])
      <4> SUFFICES ASSUME i \in DOMAIN (pendingVC[r]) PROVE m \in VC!ElementsOf(pendingVC[r])
        OBVIOUS
      <4>1. m = pendingVC[r][i]
        BY <2>3, <3>1, <3>2
      <4> QED
        BY <4>1 DEF VC!ElementsOf
    <3>4. i = Len(pendingVC[r]) + 1
      BY <1>3, <2>1, <2>3, <3>1, <3>2, <3>3
    <3> QED
      BY <2>3, <3>1, <3>2, <3>4
  <2> DEFINE O == VC!OthersAgree(a, acks'[r])
             P == VC!Ackers(r, m.view, m.replica, a.digest)'
  <2>5. /\ IsFiniteSet(acks'[r]) /\ a \in acks'[r] /\ \A b \in acks'[r] : b.replica \in Replica
        /\ \A b, c \in acks'[r] :
             b.view = c.view /\ b.replica = c.replica /\ b.viewchanger = c.viewchanger => b = c
    <3>1. VC!IsFiniteSet(acks[r])' /\ r \in Correct
      BY NewAck DEF VC!LoggedOnce
    <3>2. IsFiniteSet(acks'[r])
      BY <3>1 DEF VC!IsFiniteSet, IsFiniteSet
    <3> QED
      BY <2>2, <3>1, <3>2 DEF VC!LoggedOnce, VC!AckTrue
  <2>6. /\ O \subseteq acks'[r] \ {a} /\ \A b \in O : b.replica # a.replica
        /\ \A b, c \in O : b.replica = c.replica => b = c
    BY <2>5 DEF VC!OthersAgree
  <2>7. P \subseteq Replica /\ \A b \in O \cup {a} : b.replica \in P
    BY <2>3, <2>4, <2>5 DEF VC!Ackers, VC!OthersAgree
  <2> HIDE DEF O, P
  <2>8. 3 * VC!Cardinality(P) > 2 * VC!N
    <3>1. VC!twoThirds(VC!Cardinality(O))
      BY <2>2 DEF O
    <3> QED
      BY <2>5, <2>6, <2>7, <3>1, AckersCount
  <2> QED
    BY <2>1, <2>5, <2>8 DEF P
<1> QED
  BY <1>2, <1>3

(* When the last of the correct replicas' acks comes, the others suffice,   *)
(* and the new primary's own ack says that it has the view-change.          *)
LEMMA AckedBecomesPending ==
  ASSUME VC!FaultyAssumption, VC!ChangeInv, NEW r, NEW a, VC!handleRequestAck(r, a), VC!LoggedOnce'
  PROVE  VC!AckedIsPending'
<1> SUFFICES ASSUME NEW q \in Correct, NEW x \in acks'[q],
                    \A p \in Correct : [x EXCEPT !.replica = p] \in acks'[q]
             PROVE  x.digest \in VC!ElementsOf(pendingVC[q])'
  BY DEF VC!AckedIsPending
<1> DEFINE V(p) == VC!Ack(x.view, p, x.viewchanger, x.digest)
<1>1. /\ VC!IsFiniteSet(acks[q])' /\ \A b \in acks'[q] : VC!AckTrue(b)'
      /\ \A m, o \in viewChanges'[q] : m.view = o.view /\ m.replica = o.replica => m = o
  BY DEF VC!LoggedOnce
<1>2. \A p : [x EXCEPT !.replica = p] = V(p)
  BY <1>1, AckFields DEF VC!AckTrue, VC!Ack
<1>3. \A p \in Correct : V(p) \in acks'[q]
  BY <1>2
<1>4. CASE \A p \in Correct : V(p) \in acks[q]
  <2>1. V(q) \in acks[q] /\ V(q).digest = x.digest /\ \A p : [V(q) EXCEPT !.replica = p] = V(p)
    BY <1>4 DEF VC!Ack
  <2>2. x.digest \in VC!ElementsOf(pendingVC[q])
    BY <1>4, <2>1 DEF VC!ChangeInv, VC!AckedIsPending
  <2>3. pendingVC[q] \in Seq(viewChanges[q])
    BY DEF VC!ChangeInv, VC!LoggedOnce
  <2>4. pendingVC'[q] = pendingVC[q] \/ \E m \in viewChanges[q] : pendingVC'[q] = Append(pendingVC[q], m)
    BY NewAck
  <2>5. PICK i \in DOMAIN (pendingVC[q]) : x.digest = pendingVC[q][i]
    BY <2>2 DEF VC!ElementsOf
  <2>6. i \in DOMAIN (pendingVC'[q]) /\ pendingVC'[q][i] = x.digest
    <3>1. CASE pendingVC'[q] = pendingVC[q]
      BY <2>5, <3>1
    <3>2. ASSUME NEW m \in viewChanges[q], pendingVC'[q] = Append(pendingVC[q], m)
          PROVE  i \in DOMAIN (pendingVC'[q]) /\ pendingVC'[q][i] = x.digest
      BY <2>3, <2>5, <3>2
    <3> QED
      BY <2>4, <3>1, <3>2
  <2> QED
    BY <2>6 DEF VC!ElementsOf
<1>5. CASE \E p \in Correct : V(p) \notin acks[q]
  <2>1. PICK p \in Correct : V(p) \notin acks[q]
    BY <1>5
  <2>2. q = r /\ acks'[r] = acks[r] \cup {a} /\ a = V(p)
    BY <1>3, <2>1, NewAck
  <2>3. IsFiniteSet(acks'[r])
    BY ZenonT(30), <1>1, <2>2 DEF VC!IsFiniteSet, IsFiniteSet
  <2>4. VC!twoThirds(VC!Cardinality(VC!OthersAgree(a, acks'[r])))
    BY <1>3, <2>2, <2>3, OthersSuffice
  <2>5. x.digest \in viewChanges[r] /\ x.digest.view = x.view /\ x.digest.replica = x.viewchanger
    <3>1. VC!AckTrue(V(r))' /\ r \in Correct
      BY <1>1, <1>3, <2>2
    <3>2. V(r).replica = r /\ V(r).digest = x.digest /\ V(r).view = x.view /\ V(r).viewchanger = x.viewchanger
      BY AckShape
    <3> QED
      BY <3>1, <3>2, NewAck DEF VC!AckTrue
  <2>6. a.view = x.view /\ a.viewchanger = x.viewchanger
    BY <2>2, AckShape
  <2>7. \E m \in viewChanges[r] : /\ m.view = a.view /\ m.replica = a.viewchanger
                                /\ pendingVC'[r] = Append(pendingVC[r], m)
    <3>1. ~UNCHANGED acks
      BY <1>3, <2>1, <2>2
    <3> QED
      BY <2>4, <2>5, <2>6, <3>1, NewAck
  <2>8. pendingVC'[r] = Append(pendingVC[r], x.digest)
    BY <1>1, <2>2, <2>5, <2>6, <2>7, NewAck
  <2>9. pendingVC[r] \in Seq(viewChanges[r])
    BY <2>2 DEF VC!ChangeInv, VC!LoggedOnce
  <2>10. Len(pendingVC[r]) + 1 \in DOMAIN (pendingVC'[r]) /\ pendingVC'[r][Len(pendingVC[r]) + 1] = x.digest
    BY <2>5, <2>8, <2>9
  <2> QED
    BY <2>2, <2>10 DEF VC!ElementsOf
<1> QED
  BY <1>4, <1>5

(* handleRequestAck: an ack is logged once. *)
LEMMA AckStep ==
  ASSUME VC!FaultyAssumption, VC!ChangeInv, NEW r, NEW a, VC!handleRequestAck(r, a)
  PROVE  VC!ChangeInv'
<1>1. /\ UNCHANGED <<view, viewChanges, newViews>>
      /\ DOMAIN acks' = Correct /\ DOMAIN pendingVC' = Correct
  BY NewAck
<1>2. VC!SentTrue'
  BY <1>1, NewAck, SentStaysTrue DEF VC!ChangeInv
<1>3. VC!LoggedOnce'
  <2> SUFFICES ASSUME NEW q \in Correct
               PROVE /\ VC!IsFiniteSet(acks'[q]) /\ \A b \in acks'[q] : VC!AckTrue(b)'
                     /\ \A b, c \in acks'[q] :
                          b.view = c.view /\ b.replica = c.replica /\ b.viewchanger = c.viewchanger => b = c
                     /\ pendingVC'[q] \in Seq(viewChanges[q])
    BY <1>1 DEF VC!LoggedOnce, VC!ChangeInv, VC!IsFiniteSet
  <2>1. /\ VC!IsFiniteSet(acks[q]) /\ \A b \in acks[q] : VC!AckTrue(b)
        /\ \A b, c \in acks[q] :
             b.view = c.view /\ b.replica = c.replica /\ b.viewchanger = c.viewchanger => b = c
        /\ pendingVC[q] \in Seq(viewChanges[q])
    BY DEF VC!ChangeInv, VC!LoggedOnce
  <2>2. acks'[q] = acks[q] \/ (acks'[q] = acks[q] \cup {a} /\ ~VC!hasRequestAck(q, a))
    BY NewAck
  <2>3. VC!IsFiniteSet(acks'[q])
    <3>1. IsFiniteSet(acks[q])
      BY <2>1, ChangeSets
    <3>2. IsFiniteSet(acks'[q])
      BY <2>2, <3>1, FS_AddElement
    <3> QED
      BY <3>2 DEF VC!IsFiniteSet, IsFiniteSet
  <2>4. \A b \in acks'[q] : VC!AckTrue(b)'
    BY <1>1, <2>1, <2>2, NewAck, AckStaysTrue
  <2>5. \A b, c \in acks'[q] :
          b.view = c.view /\ b.replica = c.replica /\ b.viewchanger = c.viewchanger => b = c
    BY <2>1, <2>2 DEF VC!hasRequestAck
  <2>6. pendingVC'[q] \in Seq(viewChanges[q])
    <3>1. pendingVC'[q] = pendingVC[q] \/ \E m \in viewChanges[q] : pendingVC'[q] = Append(pendingVC[q], m)
      BY NewAck
    <3>2. ASSUME NEW m \in viewChanges[q], pendingVC'[q] = Append(pendingVC[q], m)
          PROVE  pendingVC'[q] \in Seq(viewChanges[q])
      BY <2>1, <3>2, AppendOne
    <3> QED
      BY <2>1, <3>1, <3>2
  <2> QED
    BY <2>3, <2>4, <2>5, <2>6
<1>4. VC!PendingBacked' /\ VC!AckedIsPending'
  BY <1>3, AckPendingBacked, AckedBecomesPending
<1>5. VC!ViewChangeUnheard' /\ VC!NoNewView'
  BY <1>1 DEF VC!ChangeInv, VC!ViewChangeUnheard, VC!NoNewView
<1> QED
  BY <1>1, <1>2, <1>3, <1>4, <1>5 DEF VC!ChangeInv

LEMMA ChangeNext ==
  ASSUME VC!FaultyAssumption
  PROVE  VC!ChangeInv /\ [VC!Next]_VC!vars => VC!ChangeInv'
<1> SUFFICES ASSUME VC!ChangeInv, [VC!Next]_VC!vars PROVE VC!ChangeInv'
  OBVIOUS
<1>1. CASE VC!Next
  BY <1>1, RequestStep, ViewChangeStep, AckStep DEF VC!Next
<1>2. CASE UNCHANGED VC!vars
  <2>1. UNCHANGED <<view, viewChanges, acks, pendingVC, newViews, mail>>
    BY <1>2 DEF VC!vars
  <2>2. \A a : VC!AckTrue(a)' = VC!AckTrue(a)
    BY <2>1 DEF VC!AckTrue
  <2>4. VC!SentTrue'
    BY <2>1, <2>2 DEF VC!ChangeInv, VC!SentTrue
  <2>5. VC!LoggedOnce'
    BY <2>1, <2>2 DEF VC!ChangeInv, VC!LoggedOnce, VC!IsFiniteSet
  <2>6. VC!PendingBacked'
    BY <2>1, PendingStays DEF VC!ChangeInv
  <2> QED
    BY <2>1, <2>4, <2>5, <2>6
    DEF VC!ChangeInv, VC!ViewChangeUnheard, VC!AckedIsPending, VC!NoNewView, VC!ElementsOf
<1> QED
  BY <1>1, <1>2

(* The invariant of the view change, whatever view-changes and acks the     *)
(* faulty replicas send, in whatever order all of them are handled.         *)
THEOREM ViewChangeInv ==
  ASSUME VC!FaultyAssumption
  PROVE  VC!Spec => []VC!ChangeInv
BY ChangeInit, ChangeNext, PTL DEF VC!Spec

(* Validation of a view-change at replica.go:1027: one sent by a correct    *)
(* replica is in no other correct replica's log.                            *)
THEOREM ChangesUnheard ==
  ASSUME VC!FaultyAssumption
  PROVE  VC!Spec => []VC!ViewChangeUnheard
BY ViewChangeInv, PTL DEF VC!ChangeInv

(* The count of handleRequestAck at replica.go:1083: what is pending at a   *)
(* new primary was acked, with one digest, by more than two thirds of all   *)
(* replicas.                                                                *)
THEOREM PendingIsBacked ==
  ASSUME VC!FaultyAssumption
  PROVE  VC!Spec => []VC!PendingBacked
BY ViewChangeInv, PTL DEF VC!ChangeInv

(* The order of arrival at replica.go:1106: a view-change that all correct  *)
(* replicas have acked is pending at the new primary.                       *)
THEOREM AckedGetsPending ==
  ASSUME VC!FaultyAssumption
  PROVE  VC!Spec => []VC!AckedIsPending
BY ViewChangeInv, PTL DEF VC!ChangeInv

(* requestNewView at replica.go:1377: no new-view is ever processed or      *)
(* sent, for any table, logs and behaviour of the faulty replicas.          *)
THEOREM NewViewNeverSent ==
  ASSUME VC!FaultyAssumption
  PROVE  VC!Spec => []VC!NoNewView
BY ViewChangeInv, PTL DEF VC!ChangeInv

(* Together, whatever the faulty replicas send. *)
THEOREM GoViewChangeStopsHolds ==
  ASSUME VC!FaultyAssumption
  PROVE  VC!Spec => []VC!GoViewChangeStops
BY ViewChangeInv, PTL DEF VC!ChangeInv, VC!GoViewChangeStops
=============================================================================
