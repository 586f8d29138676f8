------------------------------ MODULE FileRaft -------------------------------
(***************************************************************************)
(* The Raft library with files (22051410, raft/): elections, replication,  *)
(* snapshots, the persister that writes them to disk file by file, and the *)
(* application of its test, which takes snapshots from the goroutine that  *)
(* receives the applied commands.                                          *)
(*                                                                         *)
(* Handlers run under rf.mu.  Two of them keep it over several steps: one  *)
(* that waits for room in applyCh (capacity 1), and one that saves a       *)
(* snapshot, whose three writes a crash can separate.                      *)
(* RPCs are lost, late and repeated.                                       *)
(***************************************************************************)
EXTENDS Integers, Sequences, FiniteSets

CONSTANTS
  Server,
  Timeouts,  \* bound: <<s, t>> such that s may stand in term t
  Commands,  \* bound: commands given to Start, each once
  SnapAt,    \* bound: <<s, i>> such that s takes a snapshot when it has received i
  MaxSend,   \* bound: AppendEntries and InstallSnapshot requests
  MaxCrash   \* bound: crashes

(* No server has the name of none. *)
ServersAssumption == IsFiniteSet(Server) /\ "" \notin Server

VARIABLES
  rf,        \* the Raft structure of each server
  round,     \* the vote its electionLoop waits for
  busy,      \* why rf.mu is held between steps
  disk,      \* the file rf.state
  files,     \* the files rf.snapshot-<index>, with their contents
  applyCh,   \* the messages in the channel
  app,       \* the application: commands applied, index of the snapshot it wants
  msgs,      \* RPC requests and replies
  crashes,
  elected    \* history: <<term, leader>>

vars == <<rf, round, busy, disk, files, applyCh, app, msgs, crashes, elected>>

None == [at |-> "none"]
others(s) == Server \ {s}
Prefix(c, n) == SubSeq(c, 1, n)

lastIndex(r) == r.base + Len(r.log)
lastTerm(r)  == IF r.log = << >> THEN r.baseTerm ELSE r.log[Len(r.log)].term
(* The term of the entry at index i, which is at or after the snapshot. *)
TermAt(r, i) == IF i = r.base THEN r.baseTerm ELSE r.log[i - r.base].term

(* Mutant of Durable: the vote is not encoded. *)
DurableNoVote(r) == [term |-> r.term, votedFor |-> "", log |-> r.log, base |-> r.base, baseTerm |-> r.baseTerm]

(* raftStateForPersist *)
Durable(r) == [term |-> r.term, votedFor |-> r.votedFor, log |-> r.log, base |-> r.base, baseTerm |-> r.baseTerm]

(* Mutant of AppliedAtStart: all that is on disk. *)
AppliedAll(d) == d.base + Len(d.log)

(* installSnapshotToApplication, in Make. *)
AppliedAtStart(d) == d.base

(* Make, from what loadPersist decoded. *)
Made(d) ==
  [role |-> "Follower", term |-> d.term, votedFor |-> d.votedFor, log |-> d.log,
   base |-> d.base, baseTerm |-> d.baseTerm, commit |-> 0, applied |-> AppliedAtStart(d),
   next |-> [p \in Server |-> 0], match |-> [p \in Server |-> 0]]

Blank == [term |-> 0, votedFor |-> "", log |-> << >>, base |-> 0, baseTerm |-> 0]

(* The application has taken the empty snapshot that Make sends first. *)
Init ==
  /\ rf = [s \in Server |-> Made(Blank)] /\ disk = [s \in Server |-> Blank]
  /\ round = [s \in Server |-> None] /\ busy = [s \in Server |-> None]
  /\ files = [s \in Server |-> {}]
  /\ applyCh = [s \in Server |-> << >>]
  /\ app = [s \in Server |-> [value |-> << >>, wants |-> 0]]
  /\ msgs = {} /\ crashes = 0 /\ elected = {}

Unlocked(s) == busy[s] = None

(* rf becomes r, and is persisted. *)
persist(s, r) == rf' = [rf EXCEPT ![s] = r] /\ disk' = [disk EXCEPT ![s] = Durable(r)]

Follow(r, t) == [r EXCEPT !.role = "Follower", !.term = t, !.votedFor = ""]
Known(r, t)  == IF t > r.term THEN Follow(r, t) ELSE r

Requests == {m \in msgs : m.type \in {"append", "install"}}

-----------------------------------------------------------------------------
(* electionLoop: the time-out; the answers, taken without the lock; and the *)
(* end of the round, which looks at the role only.                          *)
electionLoop(s) ==
  LET r == [rf[s] EXCEPT !.role = "Candidates", !.term = @ + 1, !.votedFor = s]
  IN  /\ Unlocked(s) /\ round[s] = None /\ rf[s].role # "Leader" /\ <<s, r.term>> \in Timeouts
      /\ persist(s, r)
      /\ round' = [round EXCEPT ![s] = [at |-> "voting", term |-> r.term, granted |-> {s},
                                        finished |-> {s}, maxTerm |-> 0]]
      /\ msgs' = msgs \cup {[type |-> "vote", from |-> s, to |-> p, term |-> r.term,
                             lastIndex |-> lastIndex(r), lastTerm |-> lastTerm(r)] : p \in others(s)}
      /\ UNCHANGED <<busy, files, applyCh, app, crashes, elected>>

Won(v)   == 2 * Cardinality(v.granted) > Cardinality(Server)
Ended(v) == v.finished = Server \/ Won(v)

(* One answer, or a call that failed. *)
VoteResult(s, p, m) ==
  LET v == round[s]
  IN  /\ v # None /\ ~Ended(v) /\ p \notin v.finished
      /\ m # None => m.type = "voteReply" /\ m.from = p /\ m.to = s /\ m.argTerm = v.term
      /\ round' = [round EXCEPT ![s] =
           [v EXCEPT !.finished = @ \cup {p},
                     !.granted = IF m # None /\ m.granted THEN @ \cup {p} ELSE @,
                     !.maxTerm = IF m # None /\ m.term > @ THEN m.term ELSE @]]
      /\ UNCHANGED <<rf, busy, disk, files, applyCh, app, msgs, crashes, elected>>

VoteEnd(s) ==
  LET v == round[s]
      r == rf[s]
  IN  /\ v # None /\ Ended(v) /\ Unlocked(s)
      /\ round' = [round EXCEPT ![s] = None]
      /\ \/ /\ r.role # "Candidates"
            /\ UNCHANGED <<rf, disk, elected>>
         \/ /\ r.role = "Candidates" /\ v.maxTerm > r.term
            /\ persist(s, Follow(r, v.maxTerm)) /\ UNCHANGED elected
         \/ /\ r.role = "Candidates" /\ v.maxTerm <= r.term /\ Won(v)
            /\ rf' = [rf EXCEPT ![s] = [r EXCEPT !.role = "Leader",
                                         !.next = [p \in Server |-> lastIndex(r) + 1],
                                         !.match = [p \in Server |-> 0]]]
            /\ elected' = elected \cup {<<r.term, s>>}
            /\ UNCHANGED disk
         \/ /\ r.role = "Candidates" /\ v.maxTerm <= r.term /\ ~Won(v)
            /\ UNCHANGED <<rf, disk, elected>>
      /\ UNCHANGED <<busy, files, applyCh, app, msgs, crashes>>

(* Mutant of UpToDate: the restriction is forgotten. *)
AnyLog(r, m) == TRUE

UpToDate(r, m) ==
  m.lastTerm > lastTerm(r) \/ (m.lastTerm = lastTerm(r) /\ m.lastIndex >= lastIndex(r))

RequestVote(m) ==
  LET s     == m.to
      r     == Known(rf[s], m.term)
      grant == /\ m.term >= rf[s].term /\ r.votedFor \in {"", m.from} /\ UpToDate(r, m)
  IN  /\ m.type = "vote" /\ Unlocked(s)
      /\ IF m.term < rf[s].term THEN UNCHANGED <<rf, disk>>
         ELSE persist(s, IF grant THEN [r EXCEPT !.votedFor = m.from] ELSE r)
      /\ msgs' = msgs \cup {[type |-> "voteReply", from |-> s, to |-> m.from, argTerm |-> m.term,
                             term |-> rf[s].term, granted |-> grant]}
      /\ UNCHANGED <<round, busy, files, applyCh, app, crashes, elected>>

-----------------------------------------------------------------------------
Start(s, c) ==
  LET r == [rf[s] EXCEPT !.log = Append(@, [term |-> rf[s].term, cmd |-> c])]
  IN  /\ Unlocked(s) /\ rf[s].role = "Leader"
      /\ \A p \in Server : \A i \in DOMAIN rf[p].log : rf[p].log[i].cmd # c
      /\ \A p \in Server : \A f \in files[p] : \A i \in DOMAIN f.content : f.content[i] # c
      /\ persist(s, r)
      /\ UNCHANGED <<round, busy, files, applyCh, app, msgs, crashes, elected>>

(* What the file rf.snapshot-<index> of s holds, if there is one. *)
mustReadFile(s, index) ==
  LET f == {x \in files[s] : x.index = index}
  IN  IF f = {} THEN << >> ELSE (CHOOSE x \in f : TRUE).content

ReadSnapshot(s) == mustReadFile(s, rf[s].base)

(* appendEntriesLoop, for one peer. *)
SendTo(s, p) ==
  LET r == rf[s]
      m == IF r.next[p] <= r.base
           THEN [type |-> "install", from |-> s, to |-> p, term |-> r.term, index |-> r.base,
                 baseTerm |-> r.baseTerm, data |-> ReadSnapshot(s)]
           ELSE [type |-> "append", from |-> s, to |-> p, term |-> r.term, prev |-> r.next[p] - 1,
                 prevTerm |-> TermAt(r, r.next[p] - 1), commit |-> r.commit,
                 entries |-> SubSeq(r.log, r.next[p] - r.base, Len(r.log))]
  IN  /\ Unlocked(s) /\ r.role = "Leader" /\ Cardinality(Requests \cup {m}) <= MaxSend
      /\ msgs' = msgs \cup {m}
      /\ UNCHANGED <<rf, round, busy, disk, files, applyCh, app, crashes, elected>>

(* The log after the entries of m: cut at the first conflict only. *)
Merged(r, m) ==
  LET pos(k) == m.prev + k - r.base
      new    == {k \in DOMAIN m.entries :
                   pos(k) > Len(r.log) \/ r.log[pos(k)].term # m.entries[k].term}
      k0     == CHOOSE k \in new : \A j \in new : k <= j
  IN  IF new = {} THEN r.log
      ELSE SubSeq(r.log, 1, pos(k0) - 1) \o SubSeq(m.entries, k0, Len(m.entries))

(* The conflict reported for m: where to go on, and the conflicting term. *)
Conflict(r, m) ==
  LET t     == TermAt(r, m.prev)
      same  == {i \in r.base + 1 .. m.prev : TermAt(r, i) = t}
      none  == [index |-> -1, term |-> -1]
  IN  IF m.prev < r.base \/ (m.prev = r.base /\ m.prevTerm # r.baseTerm) THEN [none EXCEPT !.index = 1]
      ELSE IF m.prev > lastIndex(r) THEN [none EXCEPT !.index = lastIndex(r) + 1]
      ELSE IF t # m.prevTerm THEN [index |-> CHOOSE i \in same : \A j \in same : i <= j, term |-> t]
      ELSE none

AppendEntries(m) ==
  LET s    == m.to
      r    == Known(rf[s], m.term)
      c    == Conflict(r, m)
      ok   == m.term >= rf[s].term /\ c.index = -1
      lg   == Merged(r, m)
      last == r.base + Len(lg)
  IN  /\ m.type = "append" /\ Unlocked(s)
      /\ IF m.term < rf[s].term THEN UNCHANGED <<rf, disk>>
         ELSE persist(s, IF ~ok THEN r ELSE
                           [r EXCEPT !.log = lg,
                                     !.commit = IF m.commit <= @ THEN @
                                                ELSE IF last < m.commit THEN last ELSE m.commit])
      /\ msgs' = msgs \cup {[type |-> "appendReply", from |-> s, to |-> m.from, term |-> rf[s].term,
                             success |-> ok, req |-> m,
                             conflict |-> IF m.term < rf[s].term THEN [index |-> -1, term |-> -1] ELSE c]}
      /\ UNCHANGED <<round, busy, files, applyCh, app, crashes, elected>>

(* updateCommitIndex: the median of matchIndex and the own last index; an   *)
(* index inside the snapshot counts whatever its term.                      *)
updateCommitIndex(s, r) ==
  LET mi(p)    == IF p = s THEN lastIndex(r) ELSE r.match[p]
      reach(n) == Cardinality({p \in Server : mi(p) <= n})
      half     == Cardinality(Server) \div 2
      n        == CHOOSE n \in {mi(p) : p \in Server} :
                    reach(n) > half /\ \A q \in Server : mi(q) < n => reach(mi(q)) <= half
  IN  [r EXCEPT !.commit = IF n > @ /\ (n <= r.base \/ TermAt(r, n) = r.term) THEN n ELSE @]

(* Where to go on after a failed AppendEntries. *)
BackUp(r, m) ==
  LET own == {i \in r.base + 1 .. m.req.prev : TermAt(r, i) = m.conflict.term}
  IN  IF m.conflict.term # -1 /\ own # {} THEN CHOOSE i \in own : \A j \in own : j <= i
      ELSE m.conflict.index

(* The replies look at the term only; a leader of that term still leads. *)
AppendReply(m) ==
  LET s   == m.to
      r   == rf[s]
      p   == m.from
      upto == m.req.prev + Len(m.req.entries)
  IN  /\ m.type = "appendReply" /\ Unlocked(s) /\ r.term = m.req.term
      /\ \/ /\ m.term > r.term
            /\ persist(s, Follow(r, m.term))
         \/ /\ m.term <= r.term /\ m.success
            /\ rf' = [rf EXCEPT ![s] = updateCommitIndex(s, [r EXCEPT !.next[p] = upto + 1, !.match[p] = upto])]
            /\ UNCHANGED disk
         \/ /\ m.term <= r.term /\ ~m.success
            /\ rf' = [rf EXCEPT ![s].next[p] = BackUp(r, m)]
            /\ UNCHANGED disk
      /\ UNCHANGED <<round, busy, files, applyCh, app, msgs, crashes, elected>>

InstallReply(m) ==
  LET s == m.to
      r == rf[s]
  IN  /\ m.type = "installReply" /\ Unlocked(s) /\ r.term = m.req.term
      /\ \/ /\ m.term > r.term
            /\ persist(s, Follow(r, m.term))
         \/ /\ m.term <= r.term
            /\ rf' = [rf EXCEPT ![s] = updateCommitIndex(s,
                        [r EXCEPT !.next[m.from] = lastIndex(r) + 1, !.match[m.from] = m.req.index])]
            /\ UNCHANGED disk
      /\ UNCHANGED <<round, busy, files, applyCh, app, msgs, crashes, elected>>

-----------------------------------------------------------------------------
(* SaveStateAndSnapshot, the server being in the state r: the snapshot, the *)
(* state that names it, and only then the removal of older snapshots.       *)
Save(s, r, content, msg) ==
  /\ rf' = [rf EXCEPT ![s] = r]
  /\ busy' = [busy EXCEPT ![s] = [at |-> "saving", step |-> 1, content |-> content, msg |-> msg]]

(* Mutant of SaveSteps: the state is written first. *)
SaveStepsSwapped == <<"state", "snapshot", "clean">>

SaveSteps == <<"snapshot", "state", "clean">>

(* A file is written aside, synced and renamed: in one step its name has    *)
(* the new content instead of the old.                                      *)
mustWriteFile(s, index, content) ==
  {f \in files[s] : f.index # index} \cup {[index |-> index, content |-> content]}

SaveStep(s) ==
  LET b    == busy[s]
      base == rf[s].base
      step == SaveSteps[b.step]
  IN  /\ b.at = "saving"
      /\ files' = [files EXCEPT ![s] =
           CASE step = "snapshot" -> mustWriteFile(s, base, b.content)
             [] step = "clean"    -> {f \in @ : f.index >= base}
             [] OTHER             -> @]
      /\ disk' = [disk EXCEPT ![s] = IF step = "state" THEN Durable(rf[s]) ELSE @]
      /\ IF b.step < 3
         THEN busy' = [busy EXCEPT ![s].step = @ + 1] /\ UNCHANGED rf
         ELSE IF b.msg = None
         THEN busy' = [busy EXCEPT ![s] = None] /\ UNCHANGED rf
         ELSE \* installSnapshotToApplication
              /\ busy' = [busy EXCEPT ![s] = [at |-> "sending", index |-> base, content |-> b.content,
                                              snapshot |-> TRUE, msg |-> b.msg]]
              /\ rf' = [rf EXCEPT ![s].applied = base]
      /\ UNCHANGED <<round, applyCh, app, msgs, crashes, elected>>

(* A snapshot no longer than the own one is ignored; otherwise the entries  *)
(* after it are kept if the entry it ends with is the own one.              *)
InstallSnapshot(m) ==
  LET s     == m.to
      r     == Known(rf[s], m.term)
      keeps == m.index < lastIndex(r) /\ TermAt(r, m.index) = m.baseTerm
      reply == [type |-> "installReply", from |-> s, to |-> m.from, term |-> rf[s].term, req |-> m]
  IN  /\ m.type = "install" /\ Unlocked(s)
      /\ \/ /\ m.term < rf[s].term
            /\ msgs' = msgs \cup {reply}
            /\ UNCHANGED <<rf, disk, busy>>
         \/ /\ m.term >= rf[s].term /\ m.index <= r.base
            /\ persist(s, r)
            /\ msgs' = msgs \cup {reply}
            /\ UNCHANGED busy
         \/ /\ m.term >= rf[s].term /\ m.index > r.base
            /\ Save(s, [r EXCEPT !.base = m.index, !.baseTerm = m.baseTerm,
                                 !.log = IF keeps THEN SubSeq(@, m.index - r.base + 1, Len(@)) ELSE << >>],
                    m.data, reply)
            /\ disk' = [disk EXCEPT ![s] = IF m.term > rf[s].term
                          THEN Durable(r) ELSE @]
            /\ UNCHANGED msgs
      /\ UNCHANGED <<round, files, applyCh, app, crashes, elected>>

(* applyLogLoop: one entry, sent with rf.mu held; one under the snapshot    *)
(* would be an index out of range.                                          *)
applyLogLoop(s) ==
  LET i == rf[s].applied + 1
  IN  /\ Unlocked(s) /\ rf[s].commit >= i /\ i > rf[s].base
      /\ rf' = [rf EXCEPT ![s].applied = i]
      /\ busy' = [busy EXCEPT ![s] = [at |-> "sending", index |-> i, snapshot |-> FALSE,
                                      content |-> << rf[s].log[i - rf[s].base].cmd >>, msg |-> None]]
      /\ UNCHANGED <<round, disk, files, applyCh, app, msgs, crashes, elected>>

(* The channel has room; rf.mu is released, and the RPC answered. *)
Sent(s) ==
  LET b == busy[s]
  IN  /\ b.at = "sending" /\ applyCh[s] = << >>
      /\ applyCh' = [applyCh EXCEPT ![s] = << [index |-> b.index, snapshot |-> b.snapshot, content |-> b.content] >>]
      /\ busy' = [busy EXCEPT ![s] = None]
      /\ msgs' = IF b.msg = None THEN msgs ELSE msgs \cup {b.msg}
      /\ UNCHANGED <<rf, round, disk, files, app, crashes, elected>>

(* The application receives, and may go on to TakeSnapshot. *)
Receive(s) ==
  LET m == applyCh[s][1]
  IN  /\ applyCh[s] # << >> /\ app[s].wants = 0
      /\ applyCh' = [applyCh EXCEPT ![s] = << >>]
      /\ app' = [app EXCEPT ![s] = [value |-> IF m.snapshot THEN m.content ELSE @.value \o m.content,
                                    wants |-> IF ~m.snapshot /\ <<s, m.index>> \in SnapAt THEN m.index ELSE 0]]
      /\ UNCHANGED <<rf, round, busy, disk, files, msgs, crashes, elected>>

TakeSnapshot(s) ==
  LET i == app[s].wants
      r == rf[s]
  IN  /\ i # 0 /\ Unlocked(s)
      /\ app' = [app EXCEPT ![s].wants = 0]
      /\ IF i <= r.base THEN UNCHANGED <<rf, busy>>
         ELSE Save(s, [r EXCEPT !.base = i, !.baseTerm = TermAt(r, i),
                                !.log = SubSeq(@, i - r.base + 1, Len(@))], app[s].value, None)
      /\ UNCHANGED <<round, disk, files, applyCh, msgs, crashes, elected>>

(* A crash and Make: the state and the snapshot it names come from disk. *)
Crash(s) ==
  LET r == Made(disk[s])
  IN  /\ crashes < MaxCrash /\ crashes' = crashes + 1
      /\ rf' = [rf EXCEPT ![s] = r]
      /\ round' = [round EXCEPT ![s] = None] /\ busy' = [busy EXCEPT ![s] = None]
      /\ applyCh' = [applyCh EXCEPT ![s] = << [index |-> r.base, snapshot |-> TRUE,
             content |-> mustReadFile(s, r.base)] >>]
      /\ app' = [app EXCEPT ![s] = [value |-> << >>, wants |-> 0]]
      /\ UNCHANGED <<disk, files, msgs, elected>>

Next ==
  \/ \E s \in Server : \/ electionLoop(s) \/ VoteEnd(s) \/ SaveStep(s) \/ applyLogLoop(s)
                       \/ Sent(s) \/ Receive(s) \/ TakeSnapshot(s) \/ Crash(s)
  \/ \E s \in Server : \E p \in others(s) : SendTo(s, p) \/ \E m \in msgs \cup {None} : VoteResult(s, p, m)
  \/ \E s \in Server, c \in Commands : Start(s, c)
  \/ \E m \in msgs : \/ RequestVote(m) \/ AppendEntries(m) \/ AppendReply(m)
                     \/ InstallSnapshot(m) \/ InstallReply(m)

Spec == Init /\ [][Next]_vars

-----------------------------------------------------------------------------
(* Properties *)

(* One leader per term, though a server that voted may crash before it      *)
(* answers again (RequestVote, electionLoop, persist).                      *)
ElectionSafety == \A x, y \in elected : x[1] = y[1] => x[2] = y[2]

(* The commands an application has applied are a prefix of another's or the *)
(* other way round, through snapshots, their installation and restarts      *)
(* (applyLogLoop, InstallSnapshot, Make).                                   *)
AppliedAgree ==
  \A s, p \in Server :
    LET n == IF Len(app[s].value) < Len(app[p].value) THEN Len(app[s].value) ELSE Len(app[p].value)
    IN  Prefix(app[s].value, n) = Prefix(app[p].value, n)

(* Whenever a server crashes, the snapshot its state file names is on disk, *)
(* and holds one command per index (SaveStateAndSnapshot).                  *)
Recoverable ==
  \A s \in Server : disk[s].base > 0 =>
    \E f \in files[s] : f.index = disk[s].base /\ Len(f.content) = disk[s].base

(* The application gets each index in order, and what it has is what Raft   *)
(* counts as applied when nothing is on its way, after restarts and         *)
(* installed snapshots too (applyLogLoop, installSnapshotToApplication).    *)
NothingSkipped ==
  \A s \in Server :
    /\ \A i \in DOMAIN applyCh[s] : ~applyCh[s][i].snapshot => applyCh[s][i].index = Len(app[s].value) + 1
    /\ applyCh[s] = << >> /\ busy[s].at # "sending" => rf[s].applied = Len(app[s].value)

(* What is left to apply is in the log, not under the snapshot              *)
(* (installSnapshotToApplication, TakeSnapshot).                            *)
AppliedCoversSnapshot == \A s \in Server : busy[s] = None => rf[s].applied >= rf[s].base
=============================================================================
