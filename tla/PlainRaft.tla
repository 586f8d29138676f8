------------------------------ MODULE PlainRaft ------------------------------
(***************************************************************************)
(* The Raft peer without log compaction that the lab's tests and the       *)
(* services under src/ run on (src/raft/raft.go, src/raft/persister.go).   *)
(*                                                                         *)
(* Every handler and goroutine works under rf.mu; one action is one such   *)
(* section.  RPCs are lost, late and repeated: requests and replies stay   *)
(* on their way.  A crash is what crash1 and start1 of the test bench do   *)
(* to a peer: a new instance reads the persister, the old one is cut off.  *)
(***************************************************************************)
EXTENDS Integers, Sequences, FiniteSets

CONSTANTS
  Server,    \* the peers
  Commands,  \* what the tests pass to Start
  Timeouts,  \* bound: <<s, t>> such that s may stand in term t
  MaxLog,    \* bound: entries of a log
  MaxAppend, \* bound: distinct AppendEntries requests
  MaxCrash   \* bound: crashes

VARIABLES
  rf,        \* the struct Raft of each peer
  disk,      \* what its persister holds: [currentTerm, votedFor, log]
  loop,      \* the branch of its switch the main goroutine is in
  pending,   \* the terms whose `go rf.startElection()' has not read its arguments
  votes,     \* votes[s][e]: who granted the round launched in term e
  msgs,      \* requests and replies
  applyCh,   \* the commands the reader of applyCh got from the instance
  chosen,    \* history: the longest sequence any instance handed over
  crashes

vars == <<rf, disk, loop, pending, votes, msgs, applyCh, chosen, crashes>>

NULL   == "-1"
Rounds == {p[2] : p \in Timeouts}
Min(a, b) == IF a > b THEN b ELSE a

(* log[i+1] of the model is rf.log[i]; the indices below are the code's.    *)
EntryAt(lg, i)     == lg[i + 1]
getLastLogIdx(lg)  == Len(lg) - 1
getLastLogTerm(lg) == EntryAt(lg, getLastLogIdx(lg)).term
getPrevLogIdx(p, to)  == p.nextIndex[to] - 1
getPrevLogTerm(p, to) == EntryAt(p.log, getPrevLogIdx(p, to)).term

(* What persist encodes, in this order, and SaveRaftState keeps. *)
SaveRaftState(p) == [currentTerm |-> p.currentTerm, votedFor |-> p.votedFor, log |-> p.log]

persist(s) == disk' = [disk EXCEPT ![s] = SaveRaftState(rf'[s])]

(* The persister decodes to what was encoded; a fresh one to Make's values. *)
readPersist(d, p) ==
  [p EXCEPT !.currentTerm = d.currentTerm, !.votedFor = d.votedFor, !.log = d.log]

(* Make, before readPersist. *)
Make ==
  [state |-> "Follower", currentTerm |-> 0, votedFor |-> NULL, log |-> << [term |-> 0, cmd |-> "nil"] >>,
   commitIndex |-> 0, lastApplied |-> 0,
   nextIndex |-> [p \in Server |-> 0], matchIndex |-> [p \in Server |-> 0]]

Init ==
  /\ rf = [s \in Server |-> Make] /\ disk = [s \in Server |-> SaveRaftState(Make)]
  /\ loop = [s \in Server |-> "electing"] /\ pending = [s \in Server |-> {}]
  /\ votes = [s \in Server |-> [e \in Rounds |-> {}]] /\ msgs = {}
  /\ applyCh = [s \in Server |-> << >>] /\ chosen = << >> /\ crashes = 0

(* Make of the next instance, which hands everything over again; replies go *)
(* to goroutines of the old one.                                            *)
Restart(s) ==
  /\ crashes < MaxCrash /\ crashes' = crashes + 1
  /\ rf' = [rf EXCEPT ![s] = readPersist(disk[s], Make)]
  /\ loop' = [loop EXCEPT ![s] = "electing"] /\ pending' = [pending EXCEPT ![s] = {}]
  /\ votes' = [votes EXCEPT ![s] = [e \in Rounds |-> {}]]
  /\ msgs' = {m \in msgs : m.to = s => m.type \in {"vote", "append"}}
  /\ applyCh' = [applyCh EXCEPT ![s] = << >>]
  /\ UNCHANGED <<disk, chosen>>

(* Peer p after beFollower(term), which persists. *)
beFollower(p, term) == [p EXCEPT !.state = "Follower", !.votedFor = NULL, !.currentTerm = term]

(* All server rule 1: a newer term is taken over first. *)
Known(p, term) == IF term > p.currentTerm THEN beFollower(p, term) ELSE p

(* Peer p, its commitIndex raised to c, after updateLastApplied ...         *)
Committed(p, c) == [p EXCEPT !.commitIndex = c, !.lastApplied = c]

(* ... which sent what was committed in between, with rf.mu held. *)
updateLastApplied(s) ==
  LET new == [k \in 1 .. rf'[s].lastApplied - rf[s].lastApplied |-> EntryAt(rf'[s].log, rf[s].lastApplied + k).cmd]
  IN  /\ applyCh' = [applyCh EXCEPT ![s] = @ \o new]
      /\ chosen' = IF Len(applyCh'[s]) > Len(chosen) THEN applyCh'[s] ELSE chosen

-----------------------------------------------------------------------------
(* The main goroutine: it wakes up by voteCh, appendLogCh or the end of the *)
(* heartbeat's sleep and reads the role again.                              *)
MainLoop(s) ==
  LET branch == IF rf[s].state = "Leader" THEN "leading" ELSE "electing"
  IN  /\ loop[s] # branch /\ loop' = [loop EXCEPT ![s] = branch]
      /\ UNCHANGED <<rf, disk, pending, votes, msgs, applyCh, chosen, crashes>>

(* The election timer fires, also when the role has changed since. *)
beCandidate(s) ==
  LET term == rf[s].currentTerm + 1
  IN  /\ loop[s] = "electing" /\ <<s, term>> \in Timeouts
      /\ rf' = [rf EXCEPT ![s] = [@ EXCEPT !.state = "Candidate", !.currentTerm = term, !.votedFor = s]]
      /\ persist(s)
      /\ pending' = [pending EXCEPT ![s] = @ \cup {term}]
      /\ UNCHANGED <<loop, votes, msgs, applyCh, chosen, crashes>>

(* The goroutine of round e reads its arguments when it gets the lock. *)
startElection(s, e) ==
  /\ e \in pending[s] /\ pending' = [pending EXCEPT ![s] = @ \ {e}]
  /\ msgs' = msgs \cup
       {[type |-> "vote", from |-> s, to |-> p, round |-> e, term |-> rf[s].currentTerm,
         lastLogIndex |-> getLastLogIdx(rf[s].log), lastLogTerm |-> getLastLogTerm(rf[s].log)] : p \in Server \ {s}}
  /\ UNCHANGED <<rf, disk, loop, votes, applyCh, chosen, crashes>>

(* Mutant of UpToDate: the longer log wins, whatever its terms. *)
Longer(m, lg) == m.lastLogIndex >= getLastLogIdx(lg)

UpToDate(m, lg) ==
  \/ m.lastLogTerm > getLastLogTerm(lg)
  \/ m.lastLogTerm = getLastLogTerm(lg) /\ m.lastLogIndex >= getLastLogIdx(lg)

RequestVote(m) ==
  LET p     == Known(rf[m.to], m.term)
      grant == m.term = p.currentTerm /\ p.votedFor \in {NULL, m.from} /\ UpToDate(m, p.log)
  IN  /\ m.type = "vote"
      /\ rf' = [rf EXCEPT ![m.to] = IF grant THEN [p EXCEPT !.votedFor = m.from, !.state = "Follower"] ELSE p]
      /\ IF rf' = rf THEN UNCHANGED disk ELSE persist(m.to)
      /\ msgs' = msgs \cup {[type |-> "voteReply", from |-> m.to, to |-> m.from, round |-> m.round,
                             argTerm |-> m.term, term |-> p.currentTerm, granted |-> grant]}
      /\ UNCHANGED <<loop, pending, votes, applyCh, chosen, crashes>>

beLeader(p) ==
  [p EXCEPT !.state = "Leader", !.nextIndex = [q \in Server |-> getLastLogIdx(p.log) + 1],
            !.matchIndex = [q \in Server |-> 0]]

(* The answer to a round of s: an old term, a round that is over, or a vote. *)
VoteReply(r) ==
  LET s   == r.to
      all == votes[s][r.round] \cup (IF r.granted THEN {r.from} ELSE {})
  IN  /\ r.type = "voteReply"
      /\ \/ /\ r.term > rf[s].currentTerm
            /\ rf' = [rf EXCEPT ![s] = beFollower(@, r.term)]
            /\ persist(s) /\ UNCHANGED votes
         \/ /\ r.term <= rf[s].currentTerm
            /\ rf[s].state = "Candidate" /\ rf[s].currentTerm = r.argTerm
            /\ votes' = [votes EXCEPT ![s][r.round] = all]
            /\ IF 1 + Cardinality(all) > Cardinality(Server) \div 2
               THEN rf' = [rf EXCEPT ![s] = beLeader(@)]
               ELSE UNCHANGED rf
            /\ UNCHANGED disk
      /\ UNCHANGED <<loop, pending, msgs, applyCh, chosen, crashes>>

-----------------------------------------------------------------------------
Start(s, c) ==
  /\ rf[s].state = "Leader" /\ getLastLogIdx(rf[s].log) < MaxLog
  /\ rf' = [rf EXCEPT ![s].log = Append(@, [term |-> rf[s].currentTerm, cmd |-> c])]
  /\ persist(s)
  /\ UNCHANGED <<loop, pending, votes, msgs, applyCh, chosen, crashes>>

(* One turn of the goroutine for peer `to' of startAppendLog: of this       *)
(* heartbeat, or of an earlier one that was refused.                        *)
startAppendLog(s, to) ==
  LET p == rf[s]
  IN  /\ p.state = "Leader" /\ to # s
      /\ Cardinality({m \in msgs : m.type = "append"}) < MaxAppend
      /\ msgs' = msgs \cup
           {[type |-> "append", from |-> s, to |-> to, term |-> p.currentTerm,
             prevLogIndex |-> getPrevLogIdx(p, to), prevLogTerm |-> getPrevLogTerm(p, to),
             entries |-> SubSeq(p.log, p.nextIndex[to] + 1, Len(p.log)), leaderCommit |-> p.commitIndex]}
      /\ UNCHANGED <<rf, disk, loop, pending, votes, applyCh, chosen, crashes>>

(* The first index of the log with the term. *)
FirstOf(lg, term) ==
  CHOOSE i \in 0 .. getLastLogIdx(lg) :
    EntryAt(lg, i).term = term /\ \A j \in 0 .. i - 1 : EntryAt(lg, j).term # term

(* The reply's hint where the log has no entry of prevLogTerm at prevLogIndex. *)
Conflict(p, m) ==
  IF m.prevLogIndex <= getLastLogIdx(p.log)
  THEN LET term == EntryAt(p.log, m.prevLogIndex).term IN [term |-> term, index |-> FirstOf(p.log, term)]
  ELSE [term |-> -1, index |-> Len(p.log)]

Consistent(p, m) ==
  m.prevLogIndex <= getLastLogIdx(p.log) /\ EntryAt(p.log, m.prevLogIndex).term = m.prevLogTerm

(* Where the entries sent are not in the log. *)
NewFrom(lg, m) ==
  {k \in DOMAIN m.entries : \/ m.prevLogIndex + k > getLastLogIdx(lg)
                            \/ EntryAt(lg, m.prevLogIndex + k).term # m.entries[k].term}

(* The log is cut at the first of them and gets the entries from there on. *)
Merged(lg, m) ==
  LET new == NewFrom(lg, m)
      k   == CHOOSE k \in new : \A j \in new : k <= j
  IN  IF new = {} THEN lg
      ELSE SubSeq(lg, 1, m.prevLogIndex + k) \o SubSeq(m.entries, k, Len(m.entries))

(* The log is looked at before the term of the request is. *)
AppendEntries(m) ==
  LET s  == m.to
      p  == Known(rf[s], m.term)
      ok == Consistent(p, m) /\ m.term = p.currentTerm
      q  == [p EXCEPT !.log = Merged(p.log, m)]
  IN  /\ m.type = "append"
      /\ rf' = [rf EXCEPT ![s] =
           IF ~ok THEN p
           ELSE IF m.leaderCommit > q.commitIndex THEN Committed(q, Min(m.leaderCommit, getLastLogIdx(q.log)))
           ELSE q]
      /\ IF m.term > rf[s].currentTerm \/ rf'[s].log # rf[s].log THEN persist(s) ELSE UNCHANGED disk
      /\ updateLastApplied(s)
      /\ msgs' = msgs \cup
           {[type |-> "appendReply", from |-> s, to |-> m.from, argTerm |-> m.term, term |-> p.currentTerm,
             success |-> ok, match |-> m.prevLogIndex + Len(m.entries),
             conflict |-> IF Consistent(p, m) THEN [term |-> -1, index |-> 0] ELSE Conflict(p, m)]}
      /\ UNCHANGED <<loop, pending, votes, crashes>>

(* Mutant of MajorityMatch: position 0. *)
HighestMatch(mi) == CHOOSE n \in {mi[p] : p \in Server} : \A q \in Server : mi[q] <= n

(* updateCommitIndex: position len/2 of matchIndex, sorted downwards. *)
MajorityMatch(mi) ==
  CHOOSE n \in {mi[p] : p \in Server} :
    /\ 2 * Cardinality({p \in Server : mi[p] >= n}) > Cardinality(Server)
    /\ \A q \in Server : mi[q] > n => 2 * Cardinality({p \in Server : mi[p] >= mi[q]}) <= Cardinality(Server)

updateCommitIndex(p, me) ==
  LET mi == [p.matchIndex EXCEPT ![me] = getLastLogIdx(p.log)]
      n  == MajorityMatch(mi)
      q  == [p EXCEPT !.matchIndex = mi]
  IN  IF n > p.commitIndex /\ EntryAt(p.log, n).term = p.currentTerm THEN Committed(q, n) ELSE q

(* Mutant of Matched: what the leader's log has at the reply. *)
MatchedNow(s, r) == getLastLogIdx(rf[s].log)

Matched(s, r) == r.match

(* After a refusal: behind the leader's last entry of the follower's term,  *)
(* or where the follower says.                                              *)
BackUp(lg, c) ==
  LET own == {i \in 0 .. getLastLogIdx(lg) : EntryAt(lg, i).term = c.term}
  IN  IF own = {} THEN c.index ELSE 1 + CHOOSE i \in own : \A j \in own : j <= i

AppendReply(r) ==
  LET s == r.to
      p == rf[s]
  IN  /\ r.type = "appendReply" /\ p.state = "Leader" /\ p.currentTerm = r.argTerm
      /\ rf' = [rf EXCEPT ![s] =
           IF r.term > p.currentTerm THEN beFollower(p, r.term)
           ELSE IF r.success
           THEN updateCommitIndex([p EXCEPT !.matchIndex[r.from] = Matched(s, r),
                                            !.nextIndex[r.from] = Matched(s, r) + 1], s)
           ELSE [p EXCEPT !.nextIndex[r.from] = BackUp(p.log, r.conflict)]]
      /\ IF r.term > p.currentTerm THEN persist(s) ELSE UNCHANGED disk
      /\ updateLastApplied(s)
      /\ UNCHANGED <<loop, pending, votes, msgs, crashes>>

Next ==
  \/ \E s \in Server :
       \/ Restart(s) \/ MainLoop(s) \/ beCandidate(s)
       \/ \E e \in pending[s] : startElection(s, e)
       \/ \E c \in Commands : Start(s, c)
       \/ \E p \in Server : startAppendLog(s, p)
  \/ \E m \in msgs : RequestVote(m) \/ VoteReply(m) \/ AppendEntries(m) \/ AppendReply(m)

Spec == Init /\ [][Next]_vars

-----------------------------------------------------------------------------
(* Properties *)

(* The cluster is one log: whatever happens to leaders, messages and peers, *)
(* the readers of applyCh see one growing sequence of commands, each from   *)
(* the start after a restart and without a gap (updateLastApplied).         *)
Log == INSTANCE ReplicatedLog WITH applied <- applyCh

(* A candidate that becomes leader has every command that any peer ever     *)
(* handed over, as long as no peer is in a later term (RequestVote).        *)
LeaderHasApplied ==
  \A l \in Server :
    rf[l].state = "Leader" /\ (\A q \in Server : rf[q].currentTerm <= rf[l].currentTerm) =>
      \A i \in DOMAIN chosen :
        i <= getLastLogIdx(rf[l].log) /\ EntryAt(rf[l].log, i).cmd = chosen[i]

(* What a leader counts for a follower is in the follower's log, however    *)
(* late the replies of its goroutines come in (startAppendLog).             *)
MatchSound ==
  \A l \in Server : rf[l].state = "Leader" =>
    \A s \in Server \ {l} : rf[s].currentTerm = rf[l].currentTerm =>
      \A i \in 1 .. rf[l].matchIndex[s] :
        i <= getLastLogIdx(rf[s].log) /\ EntryAt(rf[s].log, i) = EntryAt(rf[l].log, i)
=============================================================================
