------------------------------- MODULE GoPBFT --------------------------------
(***************************************************************************)
(* The replica of goPBFT/replica.go in its normal case: client request,    *)
(* pre-prepare, prepare, commit, reply, checkpoint.                        *)
(*                                                                         *)
(* A replica accepts one connection after the other and handles its        *)
(* request to the end (acceptConnections), so a handler is one action.     *)
(* Handlers hand what they send to goroutines and a channel (sendRoutine), *)
(* and every message is a TCP connection of its own: messages arrive in    *)
(* any order, each at most once.  A replica that crashes is one that takes *)
(* no further step, and a multicast that gives up at the first replica it  *)
(* cannot dial leaves messages that never arrive: nothing obliges a step   *)
(* here, so both are among the behaviours.                                 *)
(*                                                                         *)
(* The view is 0 throughout: nothing calls requestViewChange, and a        *)
(* new-view request is not dispatched.                                     *)
(***************************************************************************)
EXTENDS Integers, Sequences, FiniteSets

CONSTANTS
  Replica,        \* rep.replicas
  Primary,        \* the replica with ID 0, the primary of view 0
  Live,           \* bound: the replicas that run; the others never start
  Period, Factor, \* CHECKPOINT_PERIOD and CONSTANT_FACTOR
  MaxRequest      \* bound: requests the client sends

ASSUME ReplicaAssumption == /\ IsFiniteSet(Replica) /\ Cardinality(Replica) >= 4
                            /\ Primary \in Live /\ Live \subseteq Replica
ASSUME PeriodAssumption  == Period \in Nat \ {0} /\ Factor \in Nat \ {0}
ASSUME BoundAssumption   == MaxRequest \in Nat

VARIABLES
  time,         \* timestamp of the client's last request
  sequence,     \* rep.sequence
  clients,      \* rep.requests["client"], by timestamp
  prePrepares,  \* rep.requests["pre-prepare"]
  prepares,     \* rep.requests["prepare"]
  commits,      \* rep.requests["commit"]
  ckptReqs,     \* rep.requests["checkpoint"]
  executed,     \* rep.executed
  replies,      \* rep.replies[client]: timestamps of the replies logged, in order
  stable,       \* sequence of the last of rep.checkpoints
  clearing,     \* replicas that have entered clearRequestsBySeq
  net           \* requests under way, each to one replica

logs  == <<clients, prePrepares, prepares, commits, ckptReqs>>
vars  == <<time, sequence, logs, executed, replies, stable, clearing, net>>

N == Cardinality(Replica)

(* A request's digest is the hash of all its fields; the timestamp tells    *)
(* the requests of the one client apart, so it stands for request and digest. *)
Timestamp == 1 .. MaxRequest

(* A request between replicas, and an entry of a log.  A replica logs its   *)
(* own prepare, commit or checkpoint when it sends it (via "own"), and once *)
(* more when its multicast comes back to itself (via "net").                *)
Req(type, s, d, r, via) ==
  [type |-> type, sequence |-> s, digest |-> d, replica |-> r, via |-> via]

(* multicast: to every replica of the table, the sender included. *)
Multicast(m) == {[to |-> p, msg |-> m] : p \in Live}

-----------------------------------------------------------------------------
(* Mutant of twoThirds: one entry less is enough. *)
twoThirdsLow(count) == count + 1 >= (2 * N) \div 3

twoThirds(count)     == count >= (2 * N) \div 3

(* Mutant of overTwoThirds: >= for >. *)
overTwoThirdsLow(count) == count >= (2 * N) \div 3

overTwoThirds(count) == count > (2 * N) \div 3

lowWaterMark(r)  == stable[r]
highWaterMark(r) == lowWaterMark(r) + Period * Factor
sequenceInRange(r, s) == s > lowWaterMark(r) /\ s <= highWaterMark(r)

LastTimestamp(r) == replies[r][Len(replies[r])]

(* Mutant of stateDigest: the digest does not depend on the replica. *)
stateDigestShared(r, t) == <<Primary, t>>

(* The digest of the last reply, a message that names its replica. *)
stateDigest(r, t) == <<r, t>>

isCheckpoint(s) == s % Period = 0

(* Entries of a log that agree with m and come from another replica than m: *)
(* what the counting loops of the handlers count.                           *)
FromOthers(entries, m) ==
  {e \in entries : e.sequence = m.sequence /\ e.digest = m.digest /\ e.replica # m.replica}

-----------------------------------------------------------------------------
(* Mutant of FirstReplies: no reply to start from. *)
NoReplies == << >>

(* NewServer logs a reply to the client before any request: the handlers    *)
(* read the last one.  Its timestamp, the server's start, is before all.    *)
FirstReplies == <<0>>

Init ==
  /\ time = 0
  /\ sequence = [r \in Replica |-> 0]
  /\ clients = [r \in Replica |-> {}]
  /\ prePrepares = [r \in Replica |-> {}]
  /\ prepares = [r \in Replica |-> {}]
  /\ commits = [r \in Replica |-> {}]
  /\ ckptReqs = [r \in Replica |-> {}]
  /\ executed = [r \in Replica |-> << >>]
  /\ replies = [r \in Replica |-> FirstReplies]
  /\ stable = [r \in Replica |-> 0]
  /\ clearing = {}
  /\ net = {}

(* The client: a new timestamp, and the request to every replica it can dial. *)
SendRequest ==
  /\ time < MaxRequest
  /\ time' = time + 1
  /\ net' = net \cup Multicast(Req("client", 0, time + 1, Primary, "net"))
  /\ UNCHANGED <<sequence, logs, executed, replies, stable, clearing>>

(* A message leaves the network when its replica handles it. *)
Takes(r, m) == [to |-> r, msg |-> m] \in net /\ r \notin clearing
Without(r, m) == net \ {[to |-> r, msg |-> m]}

(* Every replica counts the request; only the primary gives it a number. *)
handleRequestClient(r, m) ==
  LET t  == m.digest
      s  == sequence[r] + 1
      pp == Req("pre-prepare", s, t, r, "net")
  IN  /\ m.type = "client" /\ Takes(r, m)
      /\ sequence' = [sequence EXCEPT ![r] = s]
      /\ IF LastTimestamp(r) = t
         THEN net' = Without(r, m) /\ UNCHANGED <<clients, prePrepares>>
         ELSE /\ clients' = [clients EXCEPT ![r] = @ \cup {t}]
              /\ IF r = Primary
                 THEN /\ prePrepares' = [prePrepares EXCEPT ![r] = @ \cup {pp}]
                      /\ net' = Without(r, m) \cup Multicast(pp)
                 ELSE net' = Without(r, m) /\ UNCHANGED prePrepares
      /\ UNCHANGED <<time, prepares, commits, ckptReqs, executed, replies, stable, clearing>>

(* The tests of handleRequestPreprepare that make it return early. *)
Acceptable(r, m) ==
  /\ m.replica = Primary
  /\ sequenceInRange(r, m.sequence)
  /\ \A e \in prePrepares[r] : e.sequence = m.sequence => e.digest = m.digest

hasRequestPrepare(r, m) ==
  \E e \in prepares[r] : e.sequence = m.sequence /\ e.digest = m.digest /\ e.replica = m.replica

handleRequestPreprepare(r, m) ==
  LET p(via) == Req("prepare", m.sequence, m.digest, r, via)
      sent   == hasRequestPrepare(r, p("net"))
  IN  /\ m.type = "pre-prepare" /\ Takes(r, m)
      /\ IF Acceptable(r, m)
         THEN /\ prePrepares' = [prePrepares EXCEPT ![r] = @ \cup {m}]
              /\ prepares' = [prepares EXCEPT ![r] = IF sent THEN @ ELSE @ \cup {p("own")}]
              /\ net' = Without(r, m) \cup (IF sent THEN {} ELSE Multicast(p("net")))
         ELSE net' = Without(r, m) /\ UNCHANGED <<prePrepares, prepares>>
      /\ UNCHANGED <<time, sequence, clients, commits, ckptReqs, executed, replies,
                     stable, clearing>>

(* Mutant of FromBackup: prepares of the primary are logged and counted. *)
FromAnyone(m) == TRUE

FromBackup(m) == m.replica # Primary

hasRequestCommit(r, m) == \E e \in commits[r] : e.sequence = m.sequence /\ e.replica = m.replica

(* Prepares of the primary are dropped.  The log is counted with m in it,   *)
(* but without the sender of m.                                             *)
handleRequestPrepare(r, m) ==
  LET mine   == prepares[r] \cup {m}
      c(via) == Req("commit", m.sequence, 0, r, via)
      ready  == /\ twoThirds(Cardinality(FromOthers(mine, m)))
                /\ ~hasRequestCommit(r, c("net"))
  IN  /\ m.type = "prepare" /\ Takes(r, m)
      /\ IF FromBackup(m) /\ sequenceInRange(r, m.sequence)
         THEN /\ prepares' = [prepares EXCEPT ![r] = mine]
              /\ commits' = [commits EXCEPT ![r] = IF ready THEN @ \cup {c("own")} ELSE @]
              /\ net' = Without(r, m) \cup (IF ready THEN Multicast(c("net")) ELSE {})
         ELSE net' = Without(r, m) /\ UNCHANGED <<prepares, commits>>
      /\ UNCHANGED <<time, sequence, clients, prePrepares, ckptReqs, executed, replies,
                     stable, clearing>>

(* The request a commit with number s is about, when r knows both the       *)
(* pre-prepare and the request itself.                                      *)
Known(r, s) == {t \in clients[r] : \E e \in prePrepares[r] : e.sequence = s /\ e.digest = t}

(* The request is marked executed each time the count is reached; a reply,  *)
(* and a checkpoint, follow only if no reply so late was given before.      *)
Execute(r, m, t) ==
  LET s      == m.sequence
      fresh  == LastTimestamp(r) < t
      ckpt   == fresh /\ isCheckpoint(s)
      k(via) == Req("checkpoint", s, stateDigest(r, t), r, via)
  IN  /\ executed' = [executed EXCEPT ![r] = Append(@, s)]
      /\ replies' = [replies EXCEPT ![r] = IF fresh THEN Append(@, t) ELSE @]
      /\ ckptReqs' = [ckptReqs EXCEPT ![r] = IF ckpt THEN @ \cup {k("own")} ELSE @]
      /\ net' = Without(r, m) \cup (IF ckpt THEN Multicast(k("net")) ELSE {})

handleRequestCommit(r, m) ==
  LET mine == commits[r] \cup {m}
      goes == overTwoThirds(Cardinality(FromOthers(mine, m)))
  IN  /\ m.type = "commit" /\ Takes(r, m)
      /\ IF sequenceInRange(r, m.sequence)
         THEN commits' = [commits EXCEPT ![r] = mine]
         ELSE UNCHANGED commits
      /\ IF sequenceInRange(r, m.sequence) /\ goes /\ Known(r, m.sequence) # {}
         THEN \E t \in Known(r, m.sequence) : Execute(r, m, t)
         ELSE net' = Without(r, m) /\ UNCHANGED <<executed, replies, ckptReqs>>
      /\ UNCHANGED <<time, sequence, clients, prePrepares, prepares, stable, clearing>>

(* Enough equal checkpoints make the checkpoint the last stable one, after  *)
(* clearRequestsBySeq.  No replica gets that far (NeverClears, proved for   *)
(* all constants), so what the clearing loops do is left out: a replica in  *)
(* clearing takes no further step.                                          *)
handleRequestCheckpoint(r, m) ==
  LET mine == ckptReqs[r] \cup {m}
      goes == overTwoThirds(Cardinality(FromOthers(mine, m)))
  IN  /\ m.type = "checkpoint" /\ Takes(r, m)
      /\ IF sequenceInRange(r, m.sequence)
         THEN /\ ckptReqs' = [ckptReqs EXCEPT ![r] = mine]
              /\ clearing' = IF goes THEN clearing \cup {r} ELSE clearing
              /\ stable' = [stable EXCEPT ![r] = IF goes THEN m.sequence ELSE @]
         ELSE UNCHANGED <<ckptReqs, clearing, stable>>
      /\ net' = Without(r, m)
      /\ UNCHANGED <<time, sequence, clients, prePrepares, prepares, commits, executed, replies>>

Next ==
  \/ SendRequest
  \/ \E x \in net :
       \/ handleRequestClient(x.to, x.msg)
       \/ handleRequestPreprepare(x.to, x.msg)
       \/ handleRequestPrepare(x.to, x.msg)
       \/ handleRequestCommit(x.to, x.msg)
       \/ handleRequestCheckpoint(x.to, x.msg)

Spec == Init /\ [][Next]_vars

-----------------------------------------------------------------------------
(* Properties. *)

Log(type, D) == [type : {type}, sequence : Nat, digest : D, replica : Replica,
                 via : {"own", "net"}]

(* What is under way: the type of a message tells its shape. *)
MsgOK(m) == \/ m \in Log("client", Timestamp)
            \/ m \in Log("pre-prepare", Timestamp)
            \/ m \in Log("prepare", Timestamp)
            \/ m \in Log("commit", {0})
            \/ m \in Log("checkpoint", Replica \X Timestamp)

NetOK == \A x \in net : x = [to |-> x.to, msg |-> x.msg] /\ x.to \in Live /\ MsgOK(x.msg)

(* The types of the variables: every log holds requests of its own kind,    *)
(* and what is under way is addressed to a replica that runs.               *)
TypeOK ==
  /\ time \in 0 .. MaxRequest
  /\ sequence \in [Replica -> Nat]
  /\ clients \in [Replica -> SUBSET Timestamp]
  /\ prePrepares \in [Replica -> SUBSET Log("pre-prepare", Timestamp)]
  /\ prepares \in [Replica -> SUBSET Log("prepare", Timestamp)]
  /\ commits \in [Replica -> SUBSET Log("commit", {0})]
  /\ ckptReqs \in [Replica -> SUBSET Log("checkpoint", Replica \X Timestamp)]
  /\ executed \in [Replica -> Seq(Nat)]
  /\ replies \in [Replica -> Seq(0 .. MaxRequest)]
  /\ \A r \in Replica : replies[r] # << >>
  /\ stable \in [Replica -> Nat]
  /\ clearing \subseteq Live
  /\ NetOK

SentPrepare(e) == Req("prepare", e.sequence, e.digest, e.replica, "own") \in prepares[e.replica]
SentCommit(e)  == Req("commit", e.sequence, 0, e.replica, "own") \in commits[e.replica]

PreparesTellTruth ==
  \A r \in Replica : \A e \in prepares[r] :
    /\ SentPrepare(e)
    /\ e.via = "own" => e.replica = r
    /\ e.via = "net" => e.replica # Primary

CommitsTellTruth ==
  \A r \in Replica : \A e \in commits[r] : SentCommit(e) /\ (e.via = "own" => e.replica = r)

CheckpointsTellTruth ==
  \A r \in Replica : \A e \in ckptReqs[r] : e.digest[1] = e.replica

NetTellsTruth ==
  \A x \in net :
    /\ x.msg.via = "net"
    /\ x.msg.type = "prepare" => SentPrepare(x.msg)
    /\ x.msg.type = "commit" => SentCommit(x.msg)
    /\ x.msg.type = "checkpoint" => x.msg.digest[1] = x.msg.replica

(* Whatever a log holds, or is under way, its replica has sent: a prepare   *)
(* or commit stands in its sender's own log, a received prepare is never    *)
(* the primary's (handleRequestPrepare drops it), and a checkpoint's digest *)
(* names its replica.                                                       *)
LogsTellTruth == PreparesTellTruth /\ CommitsTellTruth /\ CheckpointsTellTruth /\ NetTellsTruth

(* A quorum of 2f + 1 replicas. *)
IsQuorum(Q) == Cardinality(Q) >= (2 * N) \div 3 + 1

PrepareSenders(s, d) == {p \in Replica : Req("prepare", s, d, p, "own") \in prepares[p]}
CommitSenders(s)     == {p \in Replica : Req("commit", s, 0, p, "own") \in commits[p]}

(* A replica that sends a commit (handleRequestPrepare) has a quorum behind *)
(* one digest: the primary, which proposed it, and the replicas that sent a *)
(* prepare for it, although the loop counts the replica's own prepare twice *)
(* and leaves out the prepare it is handling.                               *)
CommitBackedByPrepares ==
  \A r \in Replica : \A e \in commits[r] :
    e.via = "own" => \E d \in Timestamp : IsQuorum(PrepareSenders(e.sequence, d) \cup {Primary})

(* A replica executes a number (handleRequestCommit) only when a quorum of  *)
(* replicas has sent its commit, with the same peculiar count.              *)
ExecutedBackedByCommits ==
  \A r \in Replica : \A i \in 1 .. Len(executed[r]) : IsQuorum(CommitSenders(executed[r][i]))

(* No replica ever reaches the clearing loops of handleRequestCheckpoint:   *)
(* the digest of a checkpoint is that of a reply, which names its replica,  *)
(* so no two replicas announce the same one.  The low water mark stays 0    *)
(* and no number beyond CHECKPOINT_PERIOD * CONSTANT_FACTOR is ever served. *)
NeverClears == clearing = {} /\ \A r \in Replica : stable[r] = 0
=============================================================================
