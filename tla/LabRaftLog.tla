------------------------------ MODULE LabRaftLog ------------------------------
(***************************************************************************)
(* Why the logs of LabRaft are safe: the inductive invariant LabRaftProofs *)
(* proves.                                                                 *)
(*                                                                         *)
(* Everything is said in terms of leaderLog[t], what the leader of term t  *)
(* had in its log.  The log of a peer is the beginning of leaderLog[k],    *)
(* where k is the term of its last entry, also where InstallSnapshot has   *)
(* kept a suffix under a snapshot it does not follow: the snapshot is then *)
(* not part of that beginning, but the suffix still is.                    *)
(***************************************************************************)
EXTENDS LabRaft

(* Index i of the log of the leader of term t holds an entry of term k. *)
At(t, i, k) == i \in 1 .. Len(leaderLog[t]) /\ leaderLog[t][i].term = k

(* q has acknowledged the log of the leader of term t up to i, or wrote it. *)
Acked(q, t, i) ==
  \/ <<t, q>> \in elected
  \/ \E r \in aeRep : r.success /\ r.from = q /\ r.argTerm = t /\ r.match >= i

Majority(Q) == Q \in SUBSET Server /\ 2 * Cardinality(Q) > N

(* A majority has acknowledged entry i of term t in that term. *)
Committed(t, i) ==
  /\ At(t, i, t)
  /\ \E Q \in SUBSET Server : Majority(Q) /\ \A q \in Q : Acked(q, t, i)

(* A majority never will: it is past term t and has not acknowledged i. *)
Blocked(t, i) ==
  \E Q \in SUBSET Server :
    Majority(Q) /\ \A q \in Q : currentTerm[q] > t /\ ~Acked(q, t, i)

(* x is the beginning of a log that is committed in a term up to t. *)
Safe(x, t) ==
  Len(x) > 0 =>
    \E k \in 0 .. t : \E i \in 1 .. Len(leaderLog[k]) :
      /\ Committed(k, i) /\ Len(x) <= i
      /\ \A j \in 1 .. Len(x) : x[j] = leaderLog[k][j]

(* The log x above index base is a piece of the log of the leader of term t; *)
(* of its first entry, which a snapshot covers, the term is.                *)
PieceOf(t, base, x) ==
  /\ t \in Term /\ base + Len(x) - 1 <= Len(leaderLog[t])
  /\ x[1].term = IF base = 0 THEN 0 ELSE leaderLog[t][base].term
  /\ \A i \in base + 1 .. base + Len(x) - 1 : x[i - base + 1] = leaderLog[t][i]

-----------------------------------------------------------------------------
(* Shape of the logs, indices and messages. *)
LogTypeOK ==
  /\ log \in [Server -> Seq(Entry)] /\ \A s \in Server : Len(log[s]) > 0
  /\ lastIncludedIndex \in [Server -> Nat] /\ lastIncludedTerm \in [Server -> Nat]
  /\ commitIndex \in [Server -> Nat] /\ lastApplied \in [Server -> Nat]
  /\ applied \in [Server -> Seq(Entry)]
  /\ nextIndex \in [Server -> [Server -> Nat]] /\ matchIndex \in [Server -> [Server -> Nat]]
  /\ leaderLog \in [Term -> Seq(Entry)]
  /\ \A s \in Server : disk[s].snapshot \in Seq(Entry)
  /\ \A m \in rvReq : m.lastLogIndex \in Nat /\ m.lastLogTerm \in Nat
  /\ \A m \in aeReq : /\ m.prevLogIndex \in Nat /\ m.prevLogTerm \in Nat
                      /\ m.entries \in Seq(Entry) /\ m.leaderCommit \in Nat
  /\ \A r \in aeRep : /\ r.argTerm \in Term /\ r.match \in Nat /\ r.success \in BOOLEAN
                      /\ r.conflictTerm \in Int /\ r.conflictIndex \in Nat
  /\ \A m \in isReq : /\ m.lastIncludedIndex \in Nat /\ m.lastIncludedTerm \in Nat
                      /\ m.data \in Seq(Entry)
  /\ \A r \in isRep : r.argTerm \in Term

(* The logs of the leaders: terms up to their own, in order, each entry     *)
(* written by the leader of its term, and log matching among them.          *)
LeaderLogs ==
  /\ \A t \in Term : Len(leaderLog[t]) > 0 => \E l \in Server : <<t, l>> \in elected
  /\ \A t \in Term : \A i \in 1 .. Len(leaderLog[t]) :
       leaderLog[t][i].term \in 1 .. t /\ At(leaderLog[t][i].term, i, leaderLog[t][i].term)
  /\ \A t \in Term : \A i, j \in 1 .. Len(leaderLog[t]) :
       i <= j => leaderLog[t][i].term <= leaderLog[t][j].term
  /\ \A t, u \in Term : \A i \in 1 .. Len(leaderLog[t]) :
       At(u, i, leaderLog[t][i].term) => \A j \in 1 .. i : leaderLog[t][j] = leaderLog[u][j]

(* The log of a peer is a piece of the log of the leader of its last term. *)
HasPiece(s) ==
  /\ PieceOf(getLastLogTerm(s), lastIncludedIndex[s], log[s])
  /\ getLastLogTerm(s) <= currentTerm[s]

(* A leader has the log of its term, and nobody is a candidate again in a   *)
(* term it has won.                                                         *)
Leads(s) ==
  /\ state[s] = Leader =>
       /\ <<currentTerm[s], s>> \in elected /\ currentTerm[s] > 0
       /\ Len(leaderLog[currentTerm[s]]) = getLastLogIdx(s)
       /\ PieceOf(currentTerm[s], lastIncludedIndex[s], log[s])
  /\ state[s] = Candidate => <<currentTerm[s], s>> \notin elected

(* What a peer has acknowledged stays in its log, or will never be committed. *)
Keeps(q) ==
  \A t \in Term : \A i \in 1 .. Len(leaderLog[t]) :
    At(t, i, t) /\ Acked(q, t, i) =>
      \/ i <= getLastLogIdx(q) /\ At(getLastLogTerm(q), i, t)
      \/ Blocked(t, i)

(* What a leader counts for a peer was acknowledged, or is committed anyway. *)
Counts(s) ==
  state[s] = Leader =>
    \A p \in Server :
      /\ nextIndex[s][p] <= logLen(s)
      /\ p # s => \/ matchIndex[s][p] <= commitIndex[s]
                  \/ /\ Acked(p, currentTerm[s], matchIndex[s][p])
                     /\ matchIndex[s][p] <= getLastLogIdx(s)

(* A service has a committed beginning, of which the snapshot is one, and   *)
(* the log agrees with what was applied from it.                            *)
Serves(s) ==
  /\ Len(applied[s]) = lastApplied[s] /\ commitIndex[s] = lastApplied[s]
  /\ lastIncludedIndex[s] <= lastApplied[s] /\ lastApplied[s] <= getLastLogIdx(s)
  /\ Safe(applied[s], currentTerm[s])
  /\ Len(disk[s].snapshot) = lastIncludedIndex[s]
  /\ \A j \in 1 .. lastIncludedIndex[s] : disk[s].snapshot[j] = applied[s][j]
  /\ lastIncludedTerm[s] =
       IF lastIncludedIndex[s] = 0 THEN 0 ELSE applied[s][lastIncludedIndex[s]].term
  /\ \A j \in lastIncludedIndex[s] + 1 .. lastApplied[s] : getLog(s, j) = applied[s][j]

-----------------------------------------------------------------------------
(* What AppendEntries, its replies and InstallSnapshot carry comes from the *)
(* leader of their term.                                                    *)
AppendFromLeader(m) ==
  /\ <<m.term, m.from>> \in elected /\ m.from # m.to
  /\ m.prevLogIndex + Len(m.entries) <= Len(leaderLog[m.term])
  /\ m.prevLogTerm = IF m.prevLogIndex = 0 THEN 0 ELSE leaderLog[m.term][m.prevLogIndex].term
  /\ \A k \in 1 .. Len(m.entries) : m.entries[k] = leaderLog[m.term][m.prevLogIndex + k]
  /\ m.leaderCommit <= m.prevLogIndex + Len(m.entries)
  /\ Safe(SubSeq(leaderLog[m.term], 1, m.leaderCommit), m.term)

AnswersLeader(r) ==
  /\ r.match <= Len(leaderLog[r.argTerm])
  /\ r.success => /\ r.argTerm <= currentTerm[r.from]
                  /\ \E l \in Server : l # r.from /\ <<r.argTerm, l>> \in elected

SnapshotFromLeader(m) ==
  /\ <<m.term, m.from>> \in elected /\ m.from # m.to
  /\ Len(m.data) = m.lastIncludedIndex /\ Len(m.data) <= Len(leaderLog[m.term])
  /\ \A j \in 1 .. Len(m.data) : m.data[j] = leaderLog[m.term][j]
  /\ Len(m.data) > 0 => m.lastIncludedTerm = m.data[Len(m.data)].term
  /\ Safe(m.data, m.term)

(* A vote request names the end of a log, the candidate's as it still is,   *)
(* unless another peer has won the term already.                            *)
NamesLog(m) ==
  /\ m.term <= currentTerm[m.from] /\ m.lastLogTerm \in Term
  /\ IF m.lastLogIndex = 0 THEN m.lastLogTerm = 0
     ELSE At(m.lastLogTerm, m.lastLogIndex, m.lastLogTerm)
  /\ currentTerm[m.from] = m.term /\ state[m.from] = Candidate =>
       \/ m.lastLogIndex = getLastLogIdx(m.from) /\ m.lastLogTerm = getLastLogTerm(m.from)
       \/ \E l \in Server \ {m.from} : <<m.term, l>> \in elected

(* A candidate that gets a vote has what the voter has acknowledged before. *)
KnowsAcks(r) ==
  r.granted =>
    \E m \in rvReq :
      /\ m.from = r.to /\ m.round = r.round /\ m.term = r.term
      /\ \A t \in 0 .. r.term - 1 : \A i \in 1 .. Len(leaderLog[t]) :
           At(t, i, t) /\ Acked(r.from, t, i) =>
             \/ i <= m.lastLogIndex /\ At(m.lastLogTerm, i, t)
             \/ Blocked(t, i)

(* A leader has every entry of an earlier term that may still be committed. *)
Complete(x) ==
  \A t \in 0 .. x[1] - 1 : \A i \in 1 .. Len(leaderLog[t]) :
    At(t, i, t) => At(x[1], i, t) \/ Blocked(t, i)

-----------------------------------------------------------------------------
PeersKeepLogs == \A s \in Server : HasPiece(s) /\ Leads(s) /\ Keeps(s) /\ Counts(s) /\ Serves(s)

MessagesFromLeaders ==
  /\ \A m \in aeReq : AppendFromLeader(m)
  /\ \A r \in aeRep : AnswersLeader(r)
  /\ \A m \in isReq : SnapshotFromLeader(m)

VotesKnowAcks == /\ \A m \in rvReq : NamesLog(m)
                 /\ \A r \in rvRep : KnowsAcks(r)

LeadersComplete == \A x \in elected : Complete(x)

LogInv == /\ LogTypeOK /\ DiskCurrent /\ LeaderLogs /\ PeersKeepLogs
          /\ MessagesFromLeaders /\ VotesKnowAcks /\ LeadersComplete

-----------------------------------------------------------------------------
(* What the leader's counts rest on, while the cluster has compacted at     *)
(* most once.                                                               *)

(* What a peer has acknowledged in the term it is in, it holds. *)
HoldsAck(r) ==
  r.success /\ currentTerm[r.from] = r.argTerm =>
    /\ r.match <= getLastLogIdx(r.from)
    /\ \A i \in lastIncludedIndex[r.from] + 1 .. r.match :
         getLog(r.from, i) = leaderLog[r.argTerm][i]

(* A refusal that counts names an index past the first. *)
HintsIndex(r) == ~r.success /\ r.term <= r.argTerm => r.conflictIndex > 0

(* A snapshot is sent only where there is one, and whoever answers it in    *)
(* its term has one.                                                        *)
SnapshotsExist ==
  /\ \A s, p \in Server : state[s] = Leader => nextIndex[s][p] > 0
  /\ \A m \in isReq : m.lastIncludedIndex > 0
  /\ \A r \in isRep : r.term <= r.argTerm => lastIncludedIndex[r.from] > 0

(* After one compaction all snapshots end at the same index. *)
SnapshotIndices == {lastIncludedIndex[s] : s \in Server} \cup {m.lastIncludedIndex : m \in isReq}

OneSnapshot ==
  /\ snaps \in Nat
  /\ snaps = 0 => SnapshotIndices \subseteq {0}
  /\ snaps = 1 => \A i, j \in SnapshotIndices \ {0} : i = j

(* What a leader counts for a peer, the peer has acknowledged, or it has    *)
(* the snapshot.                                                            *)
CountsHeld(s, p) ==
  \/ p = s /\ matchIndex[s][p] <= getLastLogIdx(s)
  \/ matchIndex[s][p] <= lastIncludedIndex[p]
  \/ \E r \in aeRep : /\ r.success /\ r.from = p /\ r.argTerm = currentTerm[s]
                      /\ r.match = matchIndex[s][p]

MatchInv ==
  /\ \A r \in aeRep : HoldsAck(r) /\ HintsIndex(r)
  /\ SnapshotsExist /\ OneSnapshot
  /\ snaps <= 1 => \A s, p \in Server : state[s] = Leader => CountsHeld(s, p)

(* All of it: the inductive invariant. *)
RaftInv == LogInv /\ MatchInv
=============================================================================
