------------------------------- MODULE MyRaft --------------------------------
(***************************************************************************)
(* The Raft peer over gRPC (myraft/myRaft.go) and the key/value service on *)
(* it (mykvraft/myserver.go, myclient.go).                                 *)
(*                                                                         *)
(* AppendEntries, the replies to it and Start run under rf.mu and are one  *)
(* action each.  RequestVote and the replies to it take no lock: the       *)
(* comparisons and what follows from them are two actions.  rf.me is never *)
(* set, so that every candidate calls itself 0 and votedFor refuses nobody;*)
(* in any case the answer is VoteGranted = true.  votedFor is left out.    *)
(* Nothing is persisted but the database.  RPCs are lost, late, repeated.  *)
(***************************************************************************)
EXTENDS Integers, Sequences, FiniteSets

CONSTANTS
  Server,    \* the addresses; each one's -members are the others
  Timeouts,  \* bound: <<s, t>> such that s may stand in term t
  Puts,      \* bound: the Put and Append calls of the clerks, a value each, on one key
  Appends,   \* those that are Append calls
  MaxLog,    \* bound: entries of a log
  MaxAppend  \* bound: distinct AppendEntries requests

VARIABLES
  state, currentTerm, log, commitIndex, lastApplied, nextIndex, matchIndex,
  loop,      \* the branch of its switch the main goroutine is in
  pending,   \* startElection goroutines that have not read their arguments
  votes,     \* votes[s][t]: who has answered the round of s with term t
  voting,    \* RequestVotes that found args.Term > rf.currentTerm
  decided,   \* handlers of vote replies that call beLeader or beFollower next
  rvReq, rvRep, aeReq, aeRep,
  db,        \* the value in the database, "" at first
  applyCh,   \* tokens in the channel
  calls,     \* PutAppend handlers that wait for a token: <<value, server>>
  acked,     \* the values of the Put calls that returned true
  elected    \* history: <<term, leader>>

peer    == <<state, currentTerm, log, commitIndex, lastApplied, nextIndex, matchIndex, loop>>
rounds  == <<pending, votes, voting, decided>>
network == <<rvReq, rvRep, aeReq, aeRep>>
service == <<db, applyCh, calls, acked>>
vars    == <<peer, rounds, network, service, elected>>

Terms == {p[2] : p \in Timeouts}
members(s) == Server \ {s}
Greater(a, b) == IF a > b THEN a ELSE b
Lesser(a, b)  == IF a < b THEN a ELSE b

(* log[s][i] is the code's rf.log[i-1]; indices below are the code's. *)
EntryAt(lg, i)    == lg[i + 1]
getLastLogIdx(s)  == Len(log[s]) - 1
getLastLogTerm(s) == EntryAt(log[s], getLastLogIdx(s)).term

Init ==
  /\ state = [s \in Server |-> "Follower"]
  /\ currentTerm = [s \in Server |-> 0]
  /\ log = [s \in Server |-> << [term |-> 0, put |-> ""] >>]
  /\ commitIndex = [s \in Server |-> 0] /\ lastApplied = [s \in Server |-> 0]
  /\ nextIndex = [s \in Server |-> [p \in Server |-> 0]]
  /\ matchIndex = [s \in Server |-> [p \in Server |-> 0]]
  /\ loop = [s \in Server |-> "electing"]
  /\ pending = [s \in Server |-> 0]
  /\ votes = [s \in Server |-> [t \in Terms |-> {}]]
  /\ voting = {} /\ decided = {} /\ rvReq = {} /\ rvRep = {} /\ aeReq = {} /\ aeRep = {}
  /\ db = [s \in Server |-> ""] /\ applyCh = [s \in Server |-> 0]
  /\ calls = {} /\ acked = {} /\ elected = {}

-----------------------------------------------------------------------------
(* gRPC.  A request stays on its way: it may arrive late, twice or never. *)
sendRequestVote(reqs)   == rvReq' = rvReq \cup reqs
sendAppendEntries(reqs) == aeReq' = aeReq \cup reqs

(* GetState *)
GetState(s) == [term |-> currentTerm[s], isleader |-> state[s] = "Leader"]

(* beFollower(term) *)
beFollower(s, term) ==
  /\ state' = [state EXCEPT ![s] = "Follower"]
  /\ currentTerm' = [currentTerm EXCEPT ![s] = term]

(* Mutant of Tokens: one token for all the entries of a turn. *)
TokensOnce(role, entries) ==
  IF role = "Leader" /\ \E i \in DOMAIN entries : entries[i].put # "" THEN 1 ELSE 0

(* A leader sends a token for every Put it applies. *)
Tokens(role, entries) ==
  IF role = "Leader" THEN Cardinality({i \in DOMAIN entries : entries[i].put # ""}) ELSE 0

(* commitIndex becomes c and updateLastApplied applies the log lg up to it.  *)
updateLastApplied(s, c, lg) ==
  LET new  == SubSeq(lg, lastApplied[s] + 2, c + 1)
      puts == SelectSeq(new, LAMBDA e : e.put # "")
  IN  /\ commitIndex' = [commitIndex EXCEPT ![s] = c]
      /\ lastApplied' = [lastApplied EXCEPT ![s] = Greater(@, c)]
      /\ db' = [db EXCEPT ![s] = IF puts = << >> THEN @ ELSE puts[Len(puts)].put]
      /\ applyCh' = [applyCh EXCEPT ![s] = @ + Tokens(state'[s], new)]

-----------------------------------------------------------------------------
(* The main goroutine: a wake-up, and the election timer, which is also     *)
(* taken in an iteration that read another role than the present one.       *)
MainLoop(s) ==
  LET branch == IF state[s] = "Leader" THEN "leading" ELSE "electing"
  IN  /\ loop[s] # branch /\ loop' = [loop EXCEPT ![s] = branch]
      /\ UNCHANGED <<state, currentTerm, log, commitIndex, lastApplied, nextIndex, matchIndex,
                     rounds, network, service, elected>>

beCandidate(s) ==
  /\ loop[s] = "electing" /\ <<s, currentTerm[s] + 1>> \in Timeouts
  /\ state' = [state EXCEPT ![s] = "Candidate"]
  /\ currentTerm' = [currentTerm EXCEPT ![s] = @ + 1]
  /\ pending' = [pending EXCEPT ![s] = @ + 1]
  /\ UNCHANGED <<log, commitIndex, lastApplied, nextIndex, matchIndex, loop, votes, voting,
                 decided, network, service, elected>>

(* Its goroutine reads term and log when it runs. *)
startElection(s) ==
  /\ pending[s] > 0 /\ pending' = [pending EXCEPT ![s] = @ - 1]
  /\ sendRequestVote({[term |-> currentTerm[s], from |-> s, to |-> p, lastLogIndex |-> getLastLogIdx(s),
         lastLogTerm |-> getLastLogTerm(s)] : p \in members(s)})
  /\ UNCHANGED <<peer, votes, voting, decided, rvRep, aeReq, aeRep, service, elected>>

UpToDate(s, m) ==
  \/ m.lastLogTerm > getLastLogTerm(s)
  \/ m.lastLogTerm = getLastLogTerm(s) /\ m.lastLogIndex >= getLastLogIdx(s)

(* What RequestVote does once the term is t: VoteGranted is true whatever   *)
(* the two conditions say; they decide whether the peer becomes a follower. *)
AnswerVote(m, t) ==
  /\ currentTerm' = [currentTerm EXCEPT ![m.to] = t]
  /\ rvRep' = rvRep \cup {[argTerm |-> m.term, term |-> t, from |-> m.to, to |-> m.from]}
  /\ UNCHANGED <<log, commitIndex, lastApplied, nextIndex, matchIndex, loop, pending, votes,
                 decided, rvReq, aeReq, aeRep, service, elected>>

RequestVote(m) ==
  LET s == m.to IN
  \/ /\ m.term > currentTerm[s]
     /\ voting' = voting \cup {m}
     /\ UNCHANGED <<peer, pending, votes, decided, network, service, elected>>
  \/ /\ m.term <= currentTerm[s]
     /\ state' = [state EXCEPT ![s] =
                    IF m.term = currentTerm[s] /\ UpToDate(s, m) THEN "Follower" ELSE @]
     /\ AnswerVote(m, currentTerm[s])
     /\ UNCHANGED voting

(* beFollower(args.Term), although the term may have moved since it was     *)
(* compared.                                                                *)
RequestVoteNewTerm(m) ==
  /\ voting' = voting \ {m}
  /\ state' = [state EXCEPT ![m.to] = "Follower"]
  /\ AnswerVote(m, m.term)

(* beLeader() *)
beLeader(s) ==
  /\ state' = [state EXCEPT ![s] = "Leader"]
  /\ nextIndex' = [nextIndex EXCEPT ![s] = [p \in Server |-> getLastLogIdx(s) + 1]]
  /\ matchIndex' = [matchIndex EXCEPT ![s] = [p \in Server |-> 0]]
  /\ elected' = elected \cup {<<currentTerm[s], s>>}
  /\ UNCHANGED currentTerm

VoteReply(r) ==
  LET s    == r.to
      mine == votes[s][r.argTerm] \cup {r.from}
  IN  /\ \/ /\ r.term > currentTerm[s]
            /\ decided' = decided \cup {[by |-> s, role |-> "Follower", term |-> r.term]}
            /\ UNCHANGED votes
         \/ /\ r.term <= currentTerm[s] /\ state[s] = "Candidate" /\ currentTerm[s] = r.argTerm
            /\ votes' = [votes EXCEPT ![s][r.argTerm] = mine]
            /\ decided' = decided \cup
                 {d \in {[by |-> s, role |-> "Leader", term |-> r.argTerm]} :
                   Cardinality(mine) + 1 > Cardinality(members(s)) \div 2}
      /\ UNCHANGED <<peer, pending, voting, network, service, elected>>

(* No lock is held since the checks: a candidate of a later term by now     *)
(* leads that term.                                                         *)
VoteReplyActs(d) ==
  /\ decided' = decided \ {d}
  /\ \/ /\ d.role = "Follower" /\ beFollower(d.by, d.term)
        /\ UNCHANGED <<nextIndex, matchIndex, elected>>
     \/ d.role = "Leader" /\ state[d.by] = "Candidate" /\ beLeader(d.by)
     \/ /\ d.role = "Leader" /\ state[d.by] # "Candidate"
        /\ UNCHANGED <<state, currentTerm, nextIndex, matchIndex, elected>>
  /\ UNCHANGED <<log, commitIndex, lastApplied, loop, pending, votes, voting, network, service>>

-----------------------------------------------------------------------------
(* startAppendLog: one goroutine per member. *)
startAppendLog(s, p) ==
  LET next == nextIndex[s][p]
      req  == [term |-> currentTerm[s], from |-> s, to |-> p, prevLogIndex |-> next - 1,
               prevLogTerm |-> EntryAt(log[s], next - 1).term,
               entries |-> SubSeq(log[s], next + 1, Len(log[s])), commit |-> commitIndex[s]]
  IN  /\ state[s] = "Leader" /\ Cardinality(aeReq \cup {req}) <= MaxAppend
      /\ sendAppendEntries({req})
      /\ UNCHANGED <<peer, rounds, rvReq, rvRep, aeRep, service, elected>>

(* Mutant of FirstNew: every entry sent is taken for new. *)
FirstSent(lg, m) == 1

(* The first entry of m that the log lg lacks or has with another term. *)
FirstNew(lg, m) ==
  CHOOSE k \in 1 .. Len(m.entries) + 1 :
    /\ \A j \in 1 .. k - 1 : /\ m.prevLogIndex + j < Len(lg)
                             /\ EntryAt(lg, m.prevLogIndex + j).term = m.entries[j].term
    /\ k <= Len(m.entries) => \/ m.prevLogIndex + k >= Len(lg)
                              \/ EntryAt(lg, m.prevLogIndex + k).term # m.entries[k].term

MergedLog(lg, m) ==
  LET k == FirstNew(lg, m)
  IN  IF k > Len(m.entries) THEN lg
      ELSE SubSeq(lg, 1, m.prevLogIndex + k) \o SubSeq(m.entries, k, Len(m.entries))

(* prevLogIndex is compared before the term is. *)
AppendEntries(m) ==
  LET s     == m.to
      has   == m.prevLogIndex < Len(log[s])
      mine  == EntryAt(log[s], m.prevLogIndex).term
      match == has /\ mine = m.prevLogTerm
      t     == Greater(m.term, currentTerm[s])
      ok    == match /\ t = m.term
      first == CHOOSE i \in 0 .. getLastLogIdx(s) :
                 /\ EntryAt(log[s], i).term = mine
                 /\ \A j \in 0 .. i - 1 : EntryAt(log[s], j).term # mine
  IN  /\ IF m.term > currentTerm[s] THEN beFollower(s, m.term) ELSE UNCHANGED <<state, currentTerm>>
      /\ log' = [log EXCEPT ![s] = IF ok THEN MergedLog(@, m) ELSE @]
      /\ IF ok /\ m.commit > commitIndex[s]
         THEN updateLastApplied(s, Lesser(m.commit, Len(log'[s]) - 1), log'[s])
         ELSE UNCHANGED <<commitIndex, lastApplied, db, applyCh>>
      /\ aeRep' = aeRep \cup
           {[argTerm |-> m.term, term |-> t, from |-> s, to |-> m.from, success |-> ok,
             match |-> m.prevLogIndex + Len(m.entries),
             conflictTerm |-> IF match \/ ~has THEN -1 ELSE mine,
             conflictIndex |-> IF match THEN 0 ELSE IF has THEN first ELSE Len(log[s])]}
      /\ UNCHANGED <<nextIndex, matchIndex, loop, rounds, rvReq, rvRep, aeReq, calls, acked, elected>>

(* matchIndex sorted downwards, at position (len-1)/2. *)
MajorityMatch(s, mi) ==
  LET reach(n) == Cardinality({p \in members(s) : mi[p] >= n})
      half     == (Cardinality(members(s)) - 1) \div 2
  IN  CHOOSE n \in {mi[p] : p \in members(s)} :
        reach(n) > half /\ \A q \in members(s) : mi[q] > n => reach(mi[q]) <= half

(* Mutant of Replicated: all the leader has by now. *)
ReplicatedNow(s, r) == getLastLogIdx(s)

(* What a successful AppendEntries shows of its follower: all that it sent. *)
Replicated(s, r) == r.match

(* One past the leader's last entry of the conflicting term, or the hint. *)
BackUp(s, r) ==
  LET own == {i \in 0 .. getLastLogIdx(s) : EntryAt(log[s], i).term = r.conflictTerm}
  IN  IF own # {} THEN 1 + CHOOSE i \in own : \A j \in own : j <= i ELSE r.conflictIndex

AppendReply(r) ==
  LET s  == r.to
      mi == [matchIndex[s] EXCEPT ![r.from] = Replicated(s, r)]
      n  == MajorityMatch(s, mi)
  IN  /\ state[s] = "Leader" /\ currentTerm[s] = r.argTerm
      /\ \/ /\ r.term > currentTerm[s]
            /\ beFollower(s, r.term)
            /\ UNCHANGED <<nextIndex, matchIndex, commitIndex, lastApplied, db, applyCh>>
         \/ /\ r.term <= currentTerm[s] /\ r.success
            /\ matchIndex' = [matchIndex EXCEPT ![s] = mi]
            /\ nextIndex' = [nextIndex EXCEPT ![s][r.from] = mi[r.from] + 1]
            /\ UNCHANGED <<state, currentTerm>>
            /\ IF n > commitIndex[s] /\ EntryAt(log[s], n).term = currentTerm[s]
               THEN updateLastApplied(s, n, log[s])
               ELSE UNCHANGED <<commitIndex, lastApplied, db, applyCh>>
         \/ /\ r.term <= currentTerm[s] /\ ~r.success
            /\ nextIndex' = [nextIndex EXCEPT ![s][r.from] = BackUp(s, r)]
            /\ UNCHANGED <<state, currentTerm, matchIndex, commitIndex, lastApplied, db, applyCh>>
      /\ UNCHANGED <<log, loop, rounds, network, calls, acked, elected>>

-----------------------------------------------------------------------------
(* Start, whose startAppendLog is the action of that name. *)
Start(s, op) ==
  /\ Len(log[s]) <= MaxLog
  /\ log' = [log EXCEPT ![s] = Append(@, [term |-> currentTerm[s], put |-> op])]

(* The clerk calls one server after the other until a leader answers.  A    *)
(* call that times out is made again elsewhere, while its handler waits on. *)
putAppendValue(v, s) == v \notin acked /\ <<v, s>> \notin calls

(* A server that does not lead says so and changes nothing.  The entry of   *)
(* an Append is one that updateLastApplied neither applies nor announces:   *)
(* its handler waits as well, for the token of a Put.                       *)
PutAppend(v, s) ==
  /\ putAppendValue(v, s) /\ GetState(s).isleader
  /\ Start(s, IF v \in Appends THEN "" ELSE v)
  /\ calls' = calls \cup {<<v, s>>}
  /\ UNCHANGED <<state, currentTerm, commitIndex, lastApplied, nextIndex, matchIndex, loop,
                 rounds, network, db, applyCh, acked, elected>>

(* apply := <-kv.applyCh, whoever's it is. *)
PutReturns(v, s) ==
  /\ <<v, s>> \in calls /\ applyCh[s] > 0
  /\ applyCh' = [applyCh EXCEPT ![s] = @ - 1]
  /\ calls' = calls \ {<<v, s>>}
  /\ acked' = acked \cup {v}
  /\ UNCHANGED <<peer, rounds, network, db, elected>>

(* Value in what Get answers at s: the leader's database, or nothing. *)
GetValue(s) == IF GetState(s).isleader THEN db[s] ELSE ""

(* The clerk returns the first reply it gets, from whichever server, and    *)
(* does not look at IsLeader.                                               *)
getValue == {GetValue(s) : s \in Server}

(* Get goes through Start, and reads the database without waiting for it. *)
Get(s) ==
  /\ GetState(s).isleader
  /\ Start(s, "")
  /\ UNCHANGED <<state, currentTerm, commitIndex, lastApplied, nextIndex, matchIndex, loop,
                 rounds, network, service, elected>>

Next ==
  \/ \E s \in Server : MainLoop(s) \/ beCandidate(s) \/ startElection(s)
  \/ \E m \in rvReq : RequestVote(m)
  \/ \E m \in voting : RequestVoteNewTerm(m)
  \/ \E r \in rvRep : VoteReply(r)
  \/ \E d \in decided : VoteReplyActs(d)
  \/ \E s \in Server : \E p \in members(s) : startAppendLog(s, p)
  \/ \E m \in aeReq : AppendEntries(m)
  \/ \E r \in aeRep : AppendReply(r)
  \/ \E v \in Puts, s \in Server : PutAppend(v, s) \/ PutReturns(v, s)
  \/ \E s \in Server : Get(s)

Spec == Init /\ [][Next]_vars

-----------------------------------------------------------------------------
(* Properties *)

(* What a server applied, a majority of the members has in its log          *)
(* (updateCommitIndex).  For a leader that nobody replaces.                 *)
AppliedOnMajority ==
  \A s \in Server :
    2 * Cardinality({p \in Server : /\ Len(log[p]) > lastApplied[s]
                                    /\ \A i \in 1 .. lastApplied[s] : EntryAt(log[p], i) = EntryAt(log[s], i)})
      > Cardinality(Server)

(* Every PutAppend handler that waits at a leader has a token, or an entry  *)
(* not yet applied will bring one (updateLastApplied).                      *)
NoHandlerForgotten ==
  \A s \in Server : state[s] = "Leader" =>
    Cardinality({c \in calls : c[2] = s})
      <= applyCh[s] + Cardinality({i \in lastApplied[s] + 1 .. getLastLogIdx(s) : EntryAt(log[s], i).put # ""})

(* A value that a clerk's Get may return, other than the empty one, is in   *)
(* the log of a majority (Get, updateLastApplied): no read shows a Put that *)
(* may yet be lost.  For a leader that nobody replaces.                     *)
ReadIsCommitted ==
  \A v \in getValue \ {""} :
    2 * Cardinality({p \in Server : \E i \in DOMAIN log[p] : log[p][i].put = v}) > Cardinality(Server)

(* One leader per term (RequestVote, startElection). *)
ElectionSafety == \A x, y \in elected : x[1] = y[1] => x[2] = y[2]

(* What a server has applied stays in its log, whatever late or repeated    *)
(* AppendEntries arrives (AppendEntries).  For a leader that nobody         *)
(* replaces.                                                                *)
AppliedKept ==
  \A s \in Server : \A i \in 1 .. lastApplied[s] + 1 :
    i <= Len(log'[s]) /\ log'[s][i] = log[s][i]
AppliedStays == [][AppliedKept]_vars
=============================================================================
