------------------------------- MODULE LabRaft -------------------------------
(***************************************************************************)
(* The Raft peer of raft/raft.go (MIT 6.824 lab, with log compaction).     *)
(*                                                                         *)
(* Every handler and every goroutine body of the code runs between a       *)
(* rf.mu.Lock() and the matching Unlock(), so one action is one critical   *)
(* section.  What happens BETWEEN two critical sections of one goroutine   *)
(* (a vote round that starts after the term moved on, a reply that comes   *)
(* back to a peer that is no longer leader) is what the actions interleave.*)
(*                                                                         *)
(* Network: requests and replies are kept in sets that only grow.  An RPC  *)
(* may be delivered never (lost), late, or out of order; a message may be  *)
(* delivered again, as when the 100ms heartbeat loop sends equal requests. *)
(***************************************************************************)
EXTENDS Integers, Sequences, FiniteSets

CONSTANTS
  Server,      \* the peers (indices into rf.peers)
  Command,     \* client commands
  NULL,        \* votedFor of a peer that has not voted (-1 in the code)
  Timeouts,    \* bound: the pairs <<s, t>> such that the election timer of s
               \* may fire and make it a candidate of term t
  MaxTerm,     \* bound: the highest term of Timeouts
  MaxLog,      \* bound: no Start() beyond this absolute log index
  MaxAppend,   \* bound: distinct AppendEntries requests in a behaviour
  MaxCrash,    \* bound: crashes (with restart) in a behaviour
  MaxSnap      \* bound: DoSnapShot calls in a behaviour (0: no compaction)

ASSUME ServerAssumption == IsFiniteSet(Server) /\ Server # {}
ASSUME NullAssumption   == NULL \notin Server
ASSUME BoundAssumption  == /\ Timeouts \subseteq Server \X (1 .. MaxTerm)
                           /\ MaxTerm \in Nat /\ MaxLog \in Nat /\ MaxAppend \in Nat
                           /\ MaxCrash \in Nat /\ MaxSnap \in Nat

Follower  == "Follower"
Candidate == "Candidate"
Leader    == "Leader"

NoCommand == "nil"      \* the Command of the placeholder entry log[0]

VARIABLES
  state, currentTerm, votedFor,     \* role, and two of the persisted fields
  log,                 \* log[s][1] is the code's rf.log[0], the entry at lastIncludedIndex
  lastIncludedIndex, lastIncludedTerm,
  commitIndex, lastApplied,
  nextIndex, matchIndex,
  disk,                \* what the Persister holds: raftstate and snapshot
  loop,                \* which branch of its switch the main goroutine is in
  pending,             \* vote rounds launched by `go rf.startElection()', not yet run
  running,             \* vote rounds whose requests are out
  voters,              \* voters[s][e]: peers whose grant round e of s has counted
  rvReq, rvRep, aeReq, aeRep, isReq, isRep,  \* the RPCs
  applied,             \* the entries the service received on applyCh, in order
  elected,             \* history: the pairs <<term, peer>> of beLeader
  leaderLog,           \* history: the entries of each term's leader, from index 1 on
  crashes, snaps       \* counters behind MaxCrash, MaxSnap

persisted == <<currentTerm, votedFor, log, lastIncludedIndex, lastIncludedTerm>>
volatile  == <<commitIndex, lastApplied, applied>>
leading   == <<nextIndex, matchIndex>>
rounds    == <<pending, running, voters>>
network   == <<rvReq, rvRep, aeReq, aeRep, isReq, isRep>>
bounds    == <<crashes, snaps>>
vars == <<state, persisted, volatile, leading, disk, loop, rounds, network,
          elected, leaderLog, bounds>>

Entry == [term : Nat, cmd : Command \cup {NoCommand}]
Term == 0 .. MaxTerm
Round == 1 .. MaxTerm    \* a vote round is named by the term that launched it

Max2(a, b) == IF a > b THEN a ELSE b
Min2(a, b) == IF a < b THEN a ELSE b
N == Cardinality(Server)

-----------------------------------------------------------------------------
(* Log access.  Indices are absolute; base is lastIncludedIndex. *)

EntryAt(lg, base, i) == lg[i - base + 1]
getLog(s, i)      == EntryAt(log[s], lastIncludedIndex[s], i)
logLen(s)         == Len(log[s]) + lastIncludedIndex[s]
getLastLogIdx(s)  == logLen(s) - 1
getLastLogTerm(s) == getLog(s, getLastLogIdx(s)).term

(* The first index, from lastIncludedIndex on, that holds an entry of term t. *)
FirstIndexOfTerm(s, t) ==
  CHOOSE i \in lastIncludedIndex[s] .. getLastLogIdx(s) :
    /\ getLog(s, i).term = t
    /\ \A j \in lastIncludedIndex[s] .. (i - 1) : getLog(s, j).term # t

(* The entries of a peer from index 1 on: the snapshot, then the log. *)
FullLog(s) ==
  disk[s].snapshot \o Tail(log[s])

-----------------------------------------------------------------------------
(* Mutant of persist: the vote is not encoded. *)
persistWithoutVote(s) ==
  disk' = [disk EXCEPT ![s] =
             [currentTerm |-> currentTerm'[s], votedFor |-> @.votedFor,
              log |-> log'[s], lastIncludedIndex |-> lastIncludedIndex'[s],
              lastIncludedTerm |-> lastIncludedTerm'[s],
              snapshot |-> @.snapshot]]

(* rf.persist(): raftstate is rewritten from the fields as they are now.  *)
(* The snapshot half of the Persister is left alone.                      *)
persist(s) ==
  disk' = [disk EXCEPT ![s] =
             [currentTerm |-> currentTerm'[s], votedFor |-> votedFor'[s],
              log |-> log'[s], lastIncludedIndex |-> lastIncludedIndex'[s],
              lastIncludedTerm |-> lastIncludedTerm'[s],
              snapshot |-> @.snapshot]]

persistWithSnapShot(s, data) ==
  disk' = [disk EXCEPT ![s] =
             [currentTerm |-> currentTerm'[s], votedFor |-> votedFor'[s],
              log |-> log'[s], lastIncludedIndex |-> lastIncludedIndex'[s],
              lastIncludedTerm |-> lastIncludedTerm'[s], snapshot |-> data]]

(* rf.beFollower(term), run inside a handler. *)
beFollower(s, term) ==
  /\ state' = [state EXCEPT ![s] = Follower]
  /\ votedFor' = [votedFor EXCEPT ![s] = NULL]
  /\ currentTerm' = [currentTerm EXCEPT ![s] = term]
  /\ UNCHANGED <<log, lastIncludedIndex, lastIncludedTerm>>
  /\ persist(s)

(* rf.updateLastApplied() after commitIndex became c, on a peer whose log  *)
(* is lg above base: every entry up to c goes to the service, in order.    *)
updateLastApplied(s, c, lg, base) ==
  LET from == Max2(lastApplied[s], base)
      upto == Max2(c, base)
  IN  /\ commitIndex' = [commitIndex EXCEPT ![s] = upto]
      /\ lastApplied' = [lastApplied EXCEPT ![s] = Max2(from, upto)]
      /\ applied' = [applied EXCEPT ![s] =
           @ \o [k \in 1 .. Max2(upto - from, 0) |-> EntryAt(lg, base, from + k)]]

-----------------------------------------------------------------------------
(* Make(): a fresh peer, or one that reads what its predecessor persisted. *)

FreshDisk == [currentTerm |-> 0, votedFor |-> NULL,
              log |-> << [term |-> 0, cmd |-> NoCommand] >>,
              lastIncludedIndex |-> 0, lastIncludedTerm |-> 0, snapshot |-> << >>]

Init ==
  /\ state = [s \in Server |-> Follower]
  /\ currentTerm = [s \in Server |-> 0]
  /\ votedFor = [s \in Server |-> NULL]
  /\ log = [s \in Server |-> FreshDisk.log]
  /\ lastIncludedIndex = [s \in Server |-> 0]
  /\ lastIncludedTerm = [s \in Server |-> 0]
  /\ commitIndex = [s \in Server |-> 0]
  /\ lastApplied = [s \in Server |-> 0]
  /\ nextIndex = [s \in Server |-> [p \in Server |-> 0]]
  /\ matchIndex = [s \in Server |-> [p \in Server |-> 0]]
  /\ disk = [s \in Server |-> FreshDisk]
  /\ loop = [s \in Server |-> "electing"]
  /\ pending = [s \in Server |-> {}]
  /\ running = [s \in Server |-> {}]
  /\ voters = [s \in Server |-> [e \in Round |-> {}]]
  /\ rvReq = {} /\ rvRep = {} /\ aeReq = {} /\ aeRep = {} /\ isReq = {} /\ isRep = {}
  /\ applied = [s \in Server |-> << >>]
  /\ elected = {} /\ leaderLog = [t \in Term |-> << >>]
  /\ crashes = 0 /\ snaps = 0

(* What a restart resets, whatever is on disk. *)
RestartVolatile(s) ==
  /\ crashes < MaxCrash
  /\ crashes' = crashes + 1
  /\ state' = [state EXCEPT ![s] = Follower]
  /\ nextIndex' = [nextIndex EXCEPT ![s] = [p \in Server |-> 0]]
  /\ matchIndex' = [matchIndex EXCEPT ![s] = [p \in Server |-> 0]]
  /\ loop' = [loop EXCEPT ![s] = "electing"]
  /\ pending' = [pending EXCEPT ![s] = {}]
  /\ running' = [running EXCEPT ![s] = {}]
  /\ voters' = [voters EXCEPT ![s] = [e \in Round |-> {}]]
  /\ UNCHANGED <<disk, network, elected, leaderLog, snaps>>

(* Mutant of readPersist: the first two fields are decoded the wrong way round. *)
readPersistSwapped(s) ==
  LET d == disk[s] IN
  /\ currentTerm' = [currentTerm EXCEPT ![s] = d.votedFor]
  /\ votedFor' = [votedFor EXCEPT ![s] = d.currentTerm]
  /\ log' = [log EXCEPT ![s] = d.log]
  /\ lastIncludedIndex' = [lastIncludedIndex EXCEPT ![s] = d.lastIncludedIndex]
  /\ lastIncludedTerm' = [lastIncludedTerm EXCEPT ![s] = d.lastIncludedTerm]
  /\ commitIndex' = [commitIndex EXCEPT ![s] = d.lastIncludedIndex]
  /\ lastApplied' = [lastApplied EXCEPT ![s] = d.lastIncludedIndex]

(* Mutant of readPersist: lastApplied starts from 0 although a snapshot was loaded. *)
readPersistFromZero(s) ==
  LET d == disk[s] IN
  /\ currentTerm' = [currentTerm EXCEPT ![s] = d.currentTerm]
  /\ votedFor' = [votedFor EXCEPT ![s] = d.votedFor]
  /\ log' = [log EXCEPT ![s] = d.log]
  /\ lastIncludedIndex' = [lastIncludedIndex EXCEPT ![s] = d.lastIncludedIndex]
  /\ lastIncludedTerm' = [lastIncludedTerm EXCEPT ![s] = d.lastIncludedTerm]
  /\ commitIndex' = [commitIndex EXCEPT ![s] = 0]
  /\ lastApplied' = [lastApplied EXCEPT ![s] = 0]

readPersist(s) ==
  LET d == disk[s] IN
  /\ currentTerm' = [currentTerm EXCEPT ![s] = d.currentTerm]
  /\ votedFor' = [votedFor EXCEPT ![s] = d.votedFor]
  /\ log' = [log EXCEPT ![s] = d.log]
  /\ lastIncludedIndex' = [lastIncludedIndex EXCEPT ![s] = d.lastIncludedIndex]
  /\ lastIncludedTerm' = [lastIncludedTerm EXCEPT ![s] = d.lastIncludedTerm]
  /\ commitIndex' = [commitIndex EXCEPT ![s] = d.lastIncludedIndex]
  /\ lastApplied' = [lastApplied EXCEPT ![s] = d.lastIncludedIndex]

(* A crash and the restart from the Persister: Make() and readPersist().   *)
(* The goroutines of the old instance are gone; the service restores the   *)
(* snapshot that was saved with the raft state.                            *)
Restart(s) ==
  /\ RestartVolatile(s)
  /\ readPersist(s)
  /\ applied' = [applied EXCEPT ![s] = disk[s].snapshot]

-----------------------------------------------------------------------------
(* The main goroutine. *)

(* A wake-up on voteCh or appendLogCh, or the end of a heartbeat sleep: the *)
(* loop reads rf.state again and takes the branch for that role.            *)
Branch(role) == IF role = Leader THEN "leading" ELSE "electing"

MainLoop(s) ==
  /\ loop[s] # Branch(state[s])
  /\ loop' = [loop EXCEPT ![s] = Branch(state[s])]
  /\ UNCHANGED <<state, persisted, volatile, leading, disk, rounds, network,
                 elected, leaderLog, bounds>>

(* time.After(electionTime) fires in the select of an iteration that read   *)
(* Follower or Candidate; beCandidate() then runs whatever the role is now. *)
beCandidate(s) ==
  /\ loop[s] = "electing"
  /\ <<s, currentTerm[s] + 1>> \in Timeouts
  /\ state' = [state EXCEPT ![s] = Candidate]
  /\ currentTerm' = [currentTerm EXCEPT ![s] = @ + 1]
  /\ votedFor' = [votedFor EXCEPT ![s] = s]
  /\ UNCHANGED <<log, lastIncludedIndex, lastIncludedTerm>>
  /\ persist(s)
  /\ pending' = [pending EXCEPT ![s] = @ \cup {currentTerm[s] + 1}]
  /\ UNCHANGED <<loop, volatile, leading, running, voters, network, elected, leaderLog, bounds>>

-----------------------------------------------------------------------------
(* Elections. *)

(* startElection() runs in its own goroutine: the arguments are read from   *)
(* the peer as it is when the goroutine gets the lock.                      *)
startElection(s, e) ==
  /\ e \in pending[s]
  /\ pending' = [pending EXCEPT ![s] = @ \ {e}]
  /\ running' = [running EXCEPT ![s] = @ \cup {e}]
  /\ rvReq' = rvReq \cup
       {[term |-> currentTerm[s], from |-> s, to |-> p, round |-> e,
         lastLogIndex |-> getLastLogIdx(s), lastLogTerm |-> getLastLogTerm(s)] :
           p \in Server \ {s}}
  /\ UNCHANGED <<state, persisted, volatile, leading, disk, loop, voters, rvRep,
                 aeReq, aeRep, isReq, isRep, elected, leaderLog, bounds>>

(* Mutant of UpToDate: the logs are not compared. *)
AnyLog(s, m) == TRUE

(* The voting rule: is the candidate's log at least as up-to-date as s's? *)
UpToDate(s, m) ==
  \/ m.lastLogTerm > getLastLogTerm(s)
  \/ m.lastLogTerm = getLastLogTerm(s) /\ m.lastLogIndex >= getLastLogIdx(s)

(* Mutant of MayVote: a vote given earlier in the term is forgotten. *)
MayVoteAgain(s, m) == m.term >= currentTerm[s]

(* The voter is in the request's term (or moves there) and has no other vote in it. *)
MayVote(s, m) ==
  \/ m.term > currentTerm[s]
  \/ m.term = currentTerm[s] /\ votedFor[s] \in {NULL, m.from}

(* The RequestVote RPC handler.  A refusal that brings no newer term has no *)
(* effect on the candidate and is not kept.                                 *)
RequestVote(m) ==
  LET s     == m.to
      newer == m.term > currentTerm[s]
      term  == Max2(m.term, currentTerm[s])
      vote  == IF newer THEN NULL ELSE votedFor[s]
      grant == MayVote(s, m) /\ UpToDate(s, m)
  IN  /\ currentTerm' = [currentTerm EXCEPT ![s] = term]
      /\ votedFor' = [votedFor EXCEPT ![s] = IF grant THEN m.from ELSE vote]
      /\ state' = [state EXCEPT ![s] = IF newer \/ grant THEN Follower ELSE @]
      /\ UNCHANGED <<log, lastIncludedIndex, lastIncludedTerm>>
      /\ IF newer \/ grant THEN persist(s) ELSE UNCHANGED disk
      /\ rvRep' = IF ~grant /\ term = m.term THEN rvRep
                  ELSE rvRep \cup {[argTerm |-> m.term, term |-> term, granted |-> grant,
                                    from |-> s, to |-> m.from, round |-> m.round]}
      /\ UNCHANGED <<volatile, leading, loop, rounds, rvReq, aeReq, aeRep, isReq,
                     isRep, elected, leaderLog, bounds>>

(* beLeader(): nextIndex and matchIndex are reinitialised. *)
beLeader(s) ==
  /\ state' = [state EXCEPT ![s] = Leader]
  /\ nextIndex' = [nextIndex EXCEPT ![s] = [p \in Server |-> getLastLogIdx(s) + 1]]
  /\ matchIndex' = [matchIndex EXCEPT ![s] = [p \in Server |-> 0]]
  /\ elected' = elected \cup {<<currentTerm[s], s>>}
  /\ leaderLog' = [leaderLog EXCEPT ![currentTerm[s]] = FullLog(s)]

(* The goroutine of a vote request receives its reply. *)
VoteReplyStale(s, r) ==
  /\ r.term > currentTerm[s]
  /\ beFollower(s, r.term)
  /\ UNCHANGED <<volatile, leading, loop, rounds, network, elected, leaderLog, bounds>>

(* Mutant of StillCandidate: the term of the round is not compared. *)
StillCandidateAnyTerm(s, r) == state[s] = Candidate

StillCandidate(s, r) == state[s] = Candidate /\ currentTerm[s] = r.argTerm

VoteReplyCounted(s, r) ==
  LET mine == IF r.granted THEN voters[s][r.round] \cup {r.from}
                           ELSE voters[s][r.round]
  IN  /\ r.term <= currentTerm[s]
      /\ StillCandidate(s, r)
      /\ voters' = [voters EXCEPT ![s][r.round] = mine]
      /\ IF 1 + Cardinality(mine) > N \div 2
         THEN beLeader(s)
         ELSE UNCHANGED <<state, leading, elected, leaderLog>>
      /\ UNCHANGED <<persisted, volatile, disk, loop, pending, running, network, bounds>>

VoteReply(r) ==
  /\ r.round \in running[r.to]
  /\ VoteReplyStale(r.to, r) \/ VoteReplyCounted(r.to, r)

-----------------------------------------------------------------------------
(* Replication. *)

(* Start(command) on a leader; on any other peer it only returns false. *)
Start(s, c) ==
  /\ state[s] = Leader
  /\ getLastLogIdx(s) < MaxLog
  /\ log' = [log EXCEPT ![s] = Append(@, [term |-> currentTerm[s], cmd |-> c])]
  /\ leaderLog' = [leaderLog EXCEPT ![currentTerm[s]] = Append(@, [term |-> currentTerm[s], cmd |-> c])]
  /\ UNCHANGED <<state, currentTerm, votedFor, lastIncludedIndex, lastIncludedTerm>>
  /\ persist(s)
  /\ UNCHANGED <<volatile, leading, loop, rounds, network, elected, bounds>>

(* One iteration of the goroutine startAppendLog() runs for peer p: an      *)
(* AppendEntries with the whole suffix from nextIndex, or, when that part   *)
(* of the log is compacted away, the snapshot.                              *)
AppendLoop(s, p) ==
  /\ state[s] = Leader /\ p # s
  /\ nextIndex[s][p] - lastIncludedIndex[s] >= 1
  /\ Cardinality(aeReq) < MaxAppend
  /\ LET prev == nextIndex[s][p] - 1 IN
     aeReq' = aeReq \cup
       {[term |-> currentTerm[s], from |-> s, to |-> p, prevLogIndex |-> prev,
         prevLogTerm |-> getLog(s, prev).term,
         entries |-> SubSeq(log[s], prev - lastIncludedIndex[s] + 2, Len(log[s])),
         leaderCommit |-> commitIndex[s]]}
  /\ UNCHANGED <<state, persisted, volatile, leading, disk, loop, rounds, rvReq,
                 rvRep, aeRep, isReq, isRep, elected, leaderLog, bounds>>

sendSnapshot(s, p) ==
  /\ state[s] = Leader /\ p # s
  /\ nextIndex[s][p] - lastIncludedIndex[s] < 1
  /\ isReq' = isReq \cup
       {[term |-> currentTerm[s], from |-> s, to |-> p,
         lastIncludedIndex |-> lastIncludedIndex[s],
         lastIncludedTerm |-> lastIncludedTerm[s], data |-> disk[s].snapshot]}
  /\ UNCHANGED <<state, persisted, volatile, leading, disk, loop, rounds, rvReq,
                 rvRep, aeReq, aeRep, isRep, elected, leaderLog, bounds>>

(* Mutant of FirstNew: an entry that is there is taken for the same entry. *)
FirstMissing(s, m) ==
  LET missing == {k \in 1 .. Len(m.entries) : m.prevLogIndex + k >= logLen(s)}
  IN  IF missing = {} THEN Len(m.entries) + 1
      ELSE CHOOSE k \in missing : \A j \in missing : k <= j

(* Where the follower's log first disagrees with the entries sent: the      *)
(* offset of the first entry that is missing or has another term, or        *)
(* Len + 1 when every entry is there already.                               *)
FirstNew(s, m) ==
  LET missing == {k \in 1 .. Len(m.entries) :
                    \/ m.prevLogIndex + k >= logLen(s)
                    \/ getLog(s, m.prevLogIndex + k).term # m.entries[k].term}
  IN  IF missing = {} THEN Len(m.entries) + 1
      ELSE CHOOSE k \in missing : \A j \in missing : k <= j

(* The log after the loop of AppendEntries: untouched when nothing is new. *)
MergedLog(s, m) ==
  LET k == FirstNew(s, m) IN
  IF k > Len(m.entries) THEN log[s]
  ELSE SubSeq(log[s], 1, m.prevLogIndex + k - lastIncludedIndex[s])
         \o SubSeq(m.entries, k, Len(m.entries))

(* The AppendEntries RPC handler.  The term of the request is tested only   *)
(* after the consistency check, and a candidate of the same term stays one. *)
AppendEntries(m) ==
  LET s     == m.to
      newer == m.term > currentTerm[s]
      term  == Max2(m.term, currentTerm[s])
      has   == m.prevLogIndex >= lastIncludedIndex[s] /\ m.prevLogIndex < logLen(s)
      mine  == IF has THEN getLog(s, m.prevLogIndex).term ELSE -1
      match == mine = m.prevLogTerm
      ok    == match /\ m.term = term
      c     == Min2(m.leaderCommit, Len(log'[s]) + lastIncludedIndex[s] - 1)
  IN  /\ currentTerm' = [currentTerm EXCEPT ![s] = term]
      /\ votedFor' = [votedFor EXCEPT ![s] = IF newer THEN NULL ELSE @]
      /\ state' = [state EXCEPT ![s] = IF newer THEN Follower ELSE @]
      /\ log' = [log EXCEPT ![s] = IF ok THEN MergedLog(s, m) ELSE @]
      /\ UNCHANGED <<lastIncludedIndex, lastIncludedTerm>>
      /\ IF newer \/ (ok /\ FirstNew(s, m) <= Len(m.entries))
         THEN persist(s) ELSE UNCHANGED disk
      /\ IF ok /\ m.leaderCommit > commitIndex[s]
         THEN updateLastApplied(s, c, log'[s], lastIncludedIndex[s])
         ELSE UNCHANGED volatile
      /\ aeRep' = aeRep \cup
           {[argTerm |-> m.term, term |-> term, from |-> s, to |-> m.from, success |-> ok,
             match |-> m.prevLogIndex + Len(m.entries),
             conflictTerm |-> IF match \/ ~has THEN -1 ELSE mine,
             conflictIndex |-> IF match THEN 0
                               ELSE IF has THEN FirstIndexOfTerm(s, mine)
                               ELSE logLen(s)]}
      /\ UNCHANGED <<leading, loop, rounds, rvReq, rvRep, aeReq, isReq, isRep, elected, leaderLog, bounds>>

(* Mutant of MajorityMatch: position 0 of the sorted copy. *)
HighestMatch(mi) ==
  CHOOSE n \in {mi[p] : p \in Server} : \A q \in Server : mi[q] <= n

(* matchIndex sorted downwards, at position len/2: the highest index that   *)
(* a majority of the entries of matchIndex reach.                           *)
MajorityMatch(mi) ==
  CHOOSE n \in {mi[p] : p \in Server} :
    /\ 2 * Cardinality({p \in Server : mi[p] >= n}) > N
    /\ \A q \in Server : mi[q] > n =>
         2 * Cardinality({p \in Server : mi[p] >= mi[q]}) <= N

(* Mutant of updateNextMatchIdx: nextIndex is one too far. *)
updateNextMatchIdxPast(s, p, matchIdx) ==
  LET mi == [matchIndex[s] EXCEPT ![p] = matchIdx, ![s] = getLastLogIdx(s)]
      n  == MajorityMatch(mi)
  IN  /\ matchIndex' = [matchIndex EXCEPT ![s] = mi]
      /\ nextIndex' = [nextIndex EXCEPT ![s][p] = matchIdx + 2]
      /\ IF n > commitIndex[s] /\ getLog(s, n).term = currentTerm[s]
         THEN updateLastApplied(s, n, log[s], lastIncludedIndex[s])
         ELSE UNCHANGED volatile

(* updateNextMatchIdx(server, matchIdx) with the updateCommitIndex() it     *)
(* ends in.                                                                 *)
updateNextMatchIdx(s, p, matchIdx) ==
  LET mi == [matchIndex[s] EXCEPT ![p] = matchIdx, ![s] = getLastLogIdx(s)]
      n  == MajorityMatch(mi)
  IN  /\ matchIndex' = [matchIndex EXCEPT ![s] = mi]
      /\ nextIndex' = [nextIndex EXCEPT ![s][p] = matchIdx + 1]
      /\ IF n > commitIndex[s] /\ getLog(s, n).term = currentTerm[s]
         THEN updateLastApplied(s, n, log[s], lastIncludedIndex[s])
         ELSE UNCHANGED volatile

(* Back-up after a refused AppendEntries: just past the leader's own last   *)
(* entry of the conflicting term, if it has one, else the follower's hint.  *)
BackUp(s, r) ==
  LET own == {i \in lastIncludedIndex[s] .. getLastLogIdx(s) :
                getLog(s, i).term = r.conflictTerm}
      tar == IF r.conflictTerm # -1 /\ own # {}
             THEN 1 + CHOOSE i \in own : \A j \in own : j <= i
             ELSE r.conflictIndex
  IN  Min2(logLen(s), tar)

(* The reply to an AppendEntries; it is dropped unless s still leads the    *)
(* term it sent the request in.                                             *)
AppendReplyStale(s, r) ==
  /\ r.term > currentTerm[s]
  /\ beFollower(s, r.term)
  /\ UNCHANGED <<volatile, leading>>

(* Mutant of AppendReplyOk: the match is read from the log as it is at the reply. *)
AppendReplyOkLate(s, r) ==
  /\ r.term <= currentTerm[s] /\ r.success
  /\ updateNextMatchIdx(s, r.from, getLastLogIdx(s))
  /\ UNCHANGED <<state, persisted, disk>>

AppendReplyOk(s, r) ==
  /\ r.term <= currentTerm[s] /\ r.success
  /\ updateNextMatchIdx(s, r.from, r.match)
  /\ UNCHANGED <<state, persisted, disk>>

AppendReplyConflict(s, r) ==
  /\ r.term <= currentTerm[s] /\ ~r.success
  /\ nextIndex' = [nextIndex EXCEPT ![s][r.from] = BackUp(s, r)]
  /\ UNCHANGED <<state, persisted, volatile, matchIndex, disk>>

AppendReply(r) ==
  /\ state[r.to] = Leader /\ currentTerm[r.to] = r.argTerm
  /\ \/ AppendReplyStale(r.to, r)
     \/ AppendReplyOk(r.to, r)
     \/ AppendReplyConflict(r.to, r)
  /\ UNCHANGED <<loop, rounds, network, elected, leaderLog, bounds>>

-----------------------------------------------------------------------------
(* Log compaction. *)

(* DoSnapShot(curIdx, snapshot), called by the service with an index it has *)
(* applied and its state at that index.                                     *)
DoSnapShot(s, curIdx) ==
  /\ snaps < MaxSnap
  /\ snaps' = snaps + 1
  /\ curIdx > lastIncludedIndex[s] /\ curIdx <= lastApplied[s]
  /\ log' = [log EXCEPT ![s] = SubSeq(@, curIdx - lastIncludedIndex[s] + 1, Len(@))]
  /\ lastIncludedIndex' = [lastIncludedIndex EXCEPT ![s] = curIdx]
  /\ lastIncludedTerm' = [lastIncludedTerm EXCEPT ![s] = getLog(s, curIdx).term]
  /\ UNCHANGED <<state, currentTerm, votedFor>>
  /\ persistWithSnapShot(s, SubSeq(applied[s], 1, curIdx))
  /\ UNCHANGED <<volatile, leading, loop, rounds, network, elected, leaderLog, crashes>>

(* The InstallSnapshot RPC handler.  The suffix of the log is kept whenever *)
(* the log is longer than the snapshot.                                     *)
SnapshotLog(s, m) ==
  IF m.lastIncludedIndex < getLastLogIdx(s)
  THEN SubSeq(log[s], m.lastIncludedIndex - lastIncludedIndex[s] + 1, Len(log[s]))
  ELSE << [term |-> m.lastIncludedTerm, cmd |-> NoCommand] >>

(* Mutant of NewerThanService: every fresh snapshot is handed over. *)
AnySnapshot(s, m) == TRUE

(* A snapshot older than what the service has applied is not handed to it. *)
NewerThanService(s, m) == ~(lastApplied[s] > m.lastIncludedIndex)

InstallSnapshot(m) ==
  LET s     == m.to
      newer == m.term > currentTerm[s]
      fresh == m.term >= currentTerm[s] /\ m.lastIncludedIndex > lastIncludedIndex[s]
  IN  /\ currentTerm' = [currentTerm EXCEPT ![s] = Max2(@, m.term)]
      /\ votedFor' = [votedFor EXCEPT ![s] = IF newer THEN NULL ELSE @]
      /\ state' = [state EXCEPT ![s] = IF newer THEN Follower ELSE @]
      /\ IF fresh
         THEN /\ log' = [log EXCEPT ![s] = SnapshotLog(s, m)]
              /\ lastIncludedIndex' = [lastIncludedIndex EXCEPT ![s] = m.lastIncludedIndex]
              /\ lastIncludedTerm' = [lastIncludedTerm EXCEPT ![s] = m.lastIncludedTerm]
              /\ persistWithSnapShot(s, m.data)
              /\ commitIndex' = [commitIndex EXCEPT ![s] = Max2(@, m.lastIncludedIndex)]
              /\ lastApplied' = [lastApplied EXCEPT ![s] = Max2(@, m.lastIncludedIndex)]
              /\ applied' = [applied EXCEPT ![s] =
                               IF NewerThanService(s, m) THEN m.data ELSE @]
         ELSE /\ UNCHANGED <<log, lastIncludedIndex, lastIncludedTerm, volatile>>
              /\ IF newer THEN persist(s) ELSE UNCHANGED disk
      /\ isRep' = isRep \cup {[argTerm |-> m.term, term |-> currentTerm[s],
                               from |-> s, to |-> m.from]}
      /\ UNCHANGED <<leading, loop, rounds, rvReq, rvRep, aeReq, aeRep, isReq, elected, leaderLog, bounds>>

(* The tail of sendSnapshot: the match is taken from the leader's CURRENT   *)
(* lastIncludedIndex.                                                       *)
SnapshotReply(r) ==
  LET s == r.to IN
  /\ state[s] = Leader /\ currentTerm[s] = r.argTerm
  /\ IF r.term > currentTerm[s]
     THEN beFollower(s, r.term) /\ UNCHANGED <<volatile, leading>>
     ELSE /\ updateNextMatchIdx(s, r.from, lastIncludedIndex[s])
          /\ UNCHANGED <<state, persisted, disk>>
  /\ UNCHANGED <<loop, rounds, network, elected, leaderLog, bounds>>

-----------------------------------------------------------------------------
Next ==
  \/ \E s \in Server : Restart(s)
  \/ \E s \in Server : MainLoop(s)
  \/ \E s \in Server : beCandidate(s)
  \/ \E s \in Server : \E e \in pending[s] : startElection(s, e)
  \/ \E m \in rvReq : RequestVote(m)
  \/ \E r \in rvRep : VoteReply(r)
  \/ \E s \in Server, c \in Command : Start(s, c)
  \/ \E s \in Server, p \in Server : AppendLoop(s, p)
  \/ \E s \in Server, p \in Server : sendSnapshot(s, p)
  \/ \E m \in aeReq : AppendEntries(m)
  \/ \E r \in aeRep : AppendReply(r)
  \/ \E s \in Server : \E i \in 1 .. lastApplied[s] : DoSnapShot(s, i)
  \/ \E m \in isReq : InstallSnapshot(m)
  \/ \E r \in isRep : SnapshotReply(r)

Spec == Init /\ [][Next]_vars

-----------------------------------------------------------------------------
(* Properties. *)

(* Shape of the state: roles, terms and votes, the vote rounds, and the     *)
(* terms, peers and rounds that travel in the RPCs.                         *)
TypeOK ==
  /\ state \in [Server -> {Follower, Candidate, Leader}]
  /\ loop \in [Server -> {"electing", "leading"}]
  /\ currentTerm \in [Server -> Term]
  /\ votedFor \in [Server -> Server \cup {NULL}]
  /\ pending \in [Server -> SUBSET Round] /\ running \in [Server -> SUBSET Round]
  /\ voters \in [Server -> [Round -> SUBSET Server]]
  /\ elected \subseteq Term \X Server
  /\ DOMAIN disk = Server
  /\ \A m \in rvReq : m.term \in Term /\ {m.from, m.to} \subseteq Server /\ m.round \in Round
  /\ \A r \in rvRep : /\ {r.term, r.argTerm} \subseteq Term /\ {r.from, r.to} \subseteq Server
                      /\ r.round \in Round
  /\ \A m \in aeReq \cup isReq : m.term \in Term /\ {m.from, m.to} \subseteq Server
  /\ \A r \in aeRep \cup isRep : r.term \in Term /\ {r.from, r.to} \subseteq Server

(* Election safety (beLeader, startElection): at most one peer ever becomes *)
(* leader of a term, across late vote rounds, lost replies and crashes.     *)
ElectionSafety ==
  \A x \in elected, y \in elected : x[1] = y[1] => x[2] = y[2]

(* v granted its vote for term t to c, in a reply that was sent. *)
Granted(v, c, t) ==
  \E r \in rvRep : r.granted /\ r.from = v /\ r.to = c /\ r.term = t

(* Why election safety holds: the inductive invariant of the proof.  What a *)
(* peer has answered is still true of its memory AND of its disk; a round   *)
(* counts grants of one term only, although startElection reads the term    *)
(* late; and a leader's majority can be read off the replies.               *)
VotesHeld ==
  /\ \A s \in Server : /\ disk[s].currentTerm = currentTerm[s]
                       /\ disk[s].votedFor = votedFor[s]
  /\ \A s \in Server : state[s] # Follower => votedFor[s] = s
  /\ \A r \in rvRep : r.granted =>
       /\ r.term = r.argTerm /\ r.from # r.to
       /\ \/ currentTerm[r.from] > r.term
          \/ currentTerm[r.from] = r.term /\ votedFor[r.from] = r.to
  /\ \A q, r \in rvRep :
       q.granted /\ r.granted /\ q.from = r.from /\ q.term = r.term => q.to = r.to

RoundsOfOneTerm ==
  /\ \A s \in Server : \A e \in pending[s] :
       e <= currentTerm[s] /\ \A m \in rvReq : m.from = s => m.round # e
  /\ \A m \in rvReq : m.from # m.to /\ m.round <= currentTerm[m.from]
  /\ \A m, n \in rvReq : m.from = n.from /\ m.round = n.round => m.term = n.term
  /\ \A r \in rvRep : \E m \in rvReq :
       m.from = r.to /\ m.round = r.round /\ m.term = r.argTerm
  /\ \A s \in Server : \A e \in Round : \A v \in voters[s][e] :
       \E r \in rvRep : r.granted /\ r.from = v /\ r.to = s /\ r.round = e

LeadersElected ==
  \A x \in elected :
    /\ \E Q \in SUBSET Server :
         /\ x[2] \in Q /\ 2 * Cardinality(Q) > N
         /\ \A v \in Q \ {x[2]} : Granted(v, x[2], x[1])
    /\ \/ currentTerm[x[2]] > x[1]
       \/ currentTerm[x[2]] = x[1] /\ votedFor[x[2]] = x[2]
    /\ \A c \in Server : ~Granted(x[2], c, x[1])

ElectionInv == VotesHeld /\ RoundsOfOneTerm /\ LeadersElected

Prefix(a, b) == Len(a) <= Len(b) /\ SubSeq(b, 1, Len(a)) = a

(* Log matching (AppendEntries' consistency check): two logs that hold an   *)
(* entry of the same term at an index hold the same entries up to it.       *)
LogMatching ==
  \A s, t \in Server :
    LET low == Max2(lastIncludedIndex[s], lastIncludedIndex[t]) + 1
        top == Min2(getLastLogIdx(s), getLastLogIdx(t))
    IN  \A i \in low .. top : getLog(s, i).term = getLog(t, i).term =>
          \A j \in low .. i : getLog(s, j) = getLog(t, j)

(* State machine safety (updateLastApplied): no two services are ever given *)
(* different commands at the same index.                                    *)
StateMachineSafety ==
  \A s, t \in Server : Prefix(applied[s], applied[t]) \/ Prefix(applied[t], applied[s])

(* Leader completeness (RequestVote's up-to-date test): a leader at least   *)
(* as recent as t holds everything t has applied.                           *)
LeaderCompleteness ==
  \A s, t \in Server :
    state[s] = Leader /\ currentTerm[s] >= currentTerm[t] => Prefix(applied[t], FullLog(s))

(* The indices keep up with each other (updateLastApplied, InstallSnapshot, *)
(* readPersist): the service has exactly lastApplied commands, and nothing  *)
(* is committed that the log does not reach.                                *)
IndicesConsistent ==
  \A s \in Server :
    /\ Len(applied[s]) = lastApplied[s]
    /\ lastIncludedIndex[s] <= lastApplied[s]
    /\ lastApplied[s] = commitIndex[s]
    /\ commitIndex[s] <= getLastLogIdx(s)
    /\ Len(disk[s].snapshot) = lastIncludedIndex[s]

(* A leader never slices its log out of range (startAppendLog: the          *)
(* expression rf.log[nextIndex-lastIncludedIndex:]).                        *)
NextIndexInBounds ==
  \A s, p \in Server : state[s] = Leader => nextIndex[s][p] \in 0 .. logLen(s)

(* matchIndex tells the truth ("index of highest log entry known to be      *)
(* replicated on server"): a follower of the same term holds the leader's   *)
(* entries up to it.                                                        *)
MatchIndexSound ==
  \A s, p \in Server :
    state[s] = Leader /\ currentTerm[p] = currentTerm[s] =>
      /\ matchIndex[s][p] <= getLastLogIdx(p)
      /\ \A i \in (Max2(lastIncludedIndex[s], lastIncludedIndex[p]) + 1) .. matchIndex[s][p] :
            getLog(s, i) = getLog(p, i)

(* matchIndex tells the truth as long as the cluster compacted once: the    *)
(* tail of sendSnapshot credits a follower with the leader's lastIncluded-  *)
(* Index at the reply, which a second snapshot may have moved.              *)
MatchIndexSoundOnceCompacted == snaps <= 1 => MatchIndexSound

(* A crash loses nothing a peer has answered from: what is on disk is what  *)
(* is in memory whenever the lock is free.                                  *)
DiskCurrent ==
  \A s \in Server :
    /\ disk[s].currentTerm = currentTerm[s] /\ disk[s].votedFor = votedFor[s]
    /\ disk[s].log = log[s]
    /\ disk[s].lastIncludedIndex = lastIncludedIndex[s]
    /\ disk[s].lastIncludedTerm = lastIncludedTerm[s]

(* Terms never go back, and a vote is never changed within a term, crashes  *)
(* included (beFollower, RequestVote, readPersist).                         *)
VoteOnce ==
  [][\A s \in Server :
       /\ currentTerm[s] <= currentTerm'[s]
       /\ currentTerm[s] = currentTerm'[s] /\ votedFor[s] # NULL => votedFor'[s] = votedFor[s]]_vars

(* The service only ever moves forward: commands are added behind what it   *)
(* has, except when a crash takes it back to its snapshot.                  *)
AppliedGrows ==
  [][\A s \in Server : crashes' = crashes => Prefix(applied[s], applied'[s])]_vars
=============================================================================
