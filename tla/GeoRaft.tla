------------------------------- MODULE GeoRaft -------------------------------
(***************************************************************************)
(* Raft with a secretary (georaft/georaft.go, secretary.go) and the        *)
(* key/value service on it (geokvraft/).  A leader sends the entries for   *)
(* the members in secmembers to the secretary only; the secretary sends    *)
(* its log on to them and tells the leader how far each one is.            *)
(*                                                                         *)
(* As in MyRaft, RequestVote and the replies to it take no lock and every  *)
(* vote is granted.                                                        *)
(* What holds rf.mu is one action, except updateLastApplied: it sends on   *)
(* applyCh, of capacity 1, with rf.mu held, so that every handler of the   *)
(* server waits while entries are left to apply.                           *)
(* No program calls an observer, so that observers are left out.           *)
(***************************************************************************)
EXTENDS Integers, Sequences, FiniteSets, TLC

CONSTANTS
  Server,     \* the addresses; each one's -members are the others
  Sec,        \* the secretary
  SecMembers, \* -secmembers of the servers, -members of the secretary
  Timeouts,   \* bound: <<s, t>> such that s may stand in term t
  Puts,       \* bound: the Put and Append calls of the clerks, a value each, on one key
  Appends,    \* those that are Append calls
  MaxLog,     \* bound: entries of a log
  MaxAppend   \* bound: distinct AppendEntries requests, to the secretary or not

Node == Server \cup {Sec}

VARIABLES
  state, currentTerm, log, commitIndex, lastApplied,  \* of every node
  nextIndex, matchIndex,                              \* of every node, by server
  secnextIndex,                                       \* of every server
  loop,      \* the branch of its switch the main goroutine is in
  pending,   \* startElection goroutines that have not read their arguments
  votes,     \* votes[s][t]: who has answered the round of s with term t
  voting,    \* RequestVotes that found args.Term > rf.currentTerm
  decided,   \* handlers of vote replies that call beLeader or beFollower next
  rvReq, rvRep, aeReq, aeRep,
  db,        \* the value in the database, "" at first
  applyCh,   \* tokens in the channel
  sending,   \* whether updateLastApplied waits for room in it
  calls,     \* PutAppend handlers that wait for a token: <<value, server>>
  acked,     \* the values of the Put calls that returned true
  elected    \* history: <<term, leader>>

channel == <<applyCh, sending>>
replica == <<log, commitIndex, lastApplied, db, channel>>
indices == <<nextIndex, matchIndex, secnextIndex>>
rounds  == <<pending, votes, voting, decided>>
network == <<rvReq, rvRep, aeReq, aeRep>>
clients == <<calls, acked>>
vars    == <<state, currentTerm, replica, indices, loop, rounds, network, clients, elected>>

Terms == {p[2] : p \in Timeouts}
members(s) == Server \ {s}
Greater(a, b) == IF a > b THEN a ELSE b
Lesser(a, b)  == IF a < b THEN a ELSE b

(* log[n][i] is the code's rf.log[i-1]; indices below are the code's. *)
EntryAt(lg, i)    == lg[i + 1]
TermAt(lg, i)     == IF i \in 0 .. Len(lg) - 1 THEN EntryAt(lg, i).term ELSE -1
getLastLogIdx(n)  == Len(log[n]) - 1
getLastLogTerm(n) == TermAt(log[n], getLastLogIdx(n))

(* The term before index next of node n's log. *)
getPrevLogTerm(n, next) == TermAt(log[n], next - 1)

GetState(s) == [term |-> currentTerm[s], isleader |-> state[s] = "Leader"]

(* What MakeSecretary allocates as nextIndex and as matchIndex; nothing     *)
(* resets either.                                                           *)
MakeSecretary == [p \in Server |-> 0]

Init ==
  /\ state = [n \in Node |-> "Follower"]
  /\ currentTerm = [n \in Node |-> 0]
  /\ log = [n \in Node |-> << [term |-> 0, put |-> ""] >>]
  /\ commitIndex = [n \in Node |-> 0] /\ lastApplied = [n \in Node |-> 0]
  /\ nextIndex = [n \in Node |-> IF n = Sec THEN MakeSecretary ELSE [p \in Server |-> 0]]
  /\ matchIndex = [n \in Node |-> IF n = Sec THEN MakeSecretary ELSE [p \in Server |-> 0]]
  /\ secnextIndex = [s \in Server |-> 0]
  /\ loop = [s \in Server |-> "electing"]
  /\ pending = [s \in Server |-> 0]
  /\ votes = [s \in Server |-> [t \in Terms |-> {}]]
  /\ voting = {} /\ decided = {} /\ rvReq = {} /\ rvRep = {} /\ aeReq = {} /\ aeRep = {}
  /\ db = [n \in Node |-> ""] /\ applyCh = [s \in Server |-> 0]
  /\ sending = [s \in Server |-> FALSE]
  /\ calls = {} /\ acked = {} /\ elected = {}

-----------------------------------------------------------------------------
(* rf.mu is free: updateLastApplied is not in its loop. *)
Unlocked(s) == lastApplied[s] >= commitIndex[s] /\ ~sending[s]

(* Mutant of Announced: a follower announces what it applies, too. *)
AnnouncedByAll(s, e) == e.put # ""

(* The entries whose application is announced on applyCh. *)
Announced(s, e) == e.put # "" /\ state[s] = "Leader"

(* One turn of updateLastApplied, up to the send on applyCh if it is the    *)
(* leader's.                                                                *)
updateLastApplied(s) ==
  LET e == EntryAt(log[s], lastApplied[s] + 1)
  IN  /\ lastApplied[s] < commitIndex[s] /\ ~sending[s]
      /\ lastApplied' = [lastApplied EXCEPT ![s] = @ + 1]
      /\ db' = [db EXCEPT ![s] = IF e.put = "" THEN @ ELSE e.put]
      /\ sending' = [sending EXCEPT ![s] = Announced(s, e)]
      /\ UNCHANGED <<state, currentTerm, log, commitIndex, applyCh, indices, loop, rounds, network,
                     clients, elected>>

(* rf.applyCh <- 1 finds room, whatever the server's role is by now. *)
sendApply(s) ==
  /\ sending[s] /\ applyCh[s] < 1
  /\ applyCh' = [applyCh EXCEPT ![s] = @ + 1]
  /\ sending' = [sending EXCEPT ![s] = FALSE]
  /\ UNCHANGED <<state, currentTerm, log, commitIndex, lastApplied, db, indices, loop, rounds,
                 network, clients, elected>>

(* beFollower(term) *)
beFollower(s, term) ==
  /\ state' = [state EXCEPT ![s] = "Follower"]
  /\ currentTerm' = [currentTerm EXCEPT ![s] = term]

-----------------------------------------------------------------------------
(* The main goroutine: a wake-up, and the election timer, which is also     *)
(* taken in an iteration that read another role than the present one.       *)
MainLoop(s) ==
  LET branch == IF state[s] = "Leader" THEN "leading" ELSE "electing"
  IN  /\ loop[s] # branch /\ loop' = [loop EXCEPT ![s] = branch]
      /\ UNCHANGED <<state, currentTerm, replica, indices, rounds, network, clients, elected>>

beCandidate(s) ==
  /\ loop[s] = "electing" /\ <<s, currentTerm[s] + 1>> \in Timeouts
  /\ state' = [state EXCEPT ![s] = "Candidate"]
  /\ currentTerm' = [currentTerm EXCEPT ![s] = @ + 1]
  /\ pending' = [pending EXCEPT ![s] = @ + 1]
  /\ UNCHANGED <<replica, indices, loop, votes, voting, decided, network, clients, elected>>

(* gRPC.  A request stays on its way: it may arrive late, twice or never. *)
sendRequestVote(reqs) == rvReq' = rvReq \cup reqs

(* Its goroutine reads term and log when it runs. *)
startElection(s) ==
  /\ pending[s] > 0 /\ pending' = [pending EXCEPT ![s] = @ - 1]
  /\ sendRequestVote(
       {[term |-> currentTerm[s], from |-> s, to |-> p, lastLogIndex |-> getLastLogIdx(s),
         lastLogTerm |-> getLastLogTerm(s)] : p \in members(s)})
  /\ UNCHANGED <<state, currentTerm, replica, indices, loop, votes, voting, decided,
                 rvRep, aeReq, aeRep, clients, elected>>

UpToDate(s, m) ==
  \/ m.lastLogTerm > getLastLogTerm(s)
  \/ m.lastLogTerm = getLastLogTerm(s) /\ m.lastLogIndex >= getLastLogIdx(s)

(* What RequestVote does once the term is t: VoteGranted is true whatever   *)
(* the two conditions say; they decide whether the peer becomes a follower. *)
AnswerVote(m, t) ==
  /\ currentTerm' = [currentTerm EXCEPT ![m.to] = t]
  /\ rvRep' = rvRep \cup {[argTerm |-> m.term, term |-> t, from |-> m.to, to |-> m.from]}
  /\ UNCHANGED <<replica, indices, loop, pending, votes, decided, rvReq, aeReq, aeRep, clients,
                 elected>>

RequestVote(m) ==
  LET s == m.to IN
  \/ /\ m.term > currentTerm[s]
     /\ voting' = voting \cup {m}
     /\ UNCHANGED <<state, currentTerm, replica, indices, loop, pending, votes, decided,
                    network, clients, elected>>
  \/ /\ m.term <= currentTerm[s]
     /\ state' = [state EXCEPT ![s] =
                    IF m.term = currentTerm[s] /\ UpToDate(s, m) THEN "Follower" ELSE @]
     /\ AnswerVote(m, currentTerm[s])
     /\ UNCHANGED voting

(* beFollower(args.Term), although the term may have moved since it was     *)
(* compared.                                                                *)
RequestVoteNewTerm(m) ==
  /\ voting' = voting \ {m}
  /\ state' = [state EXCEPT ![m.to] = "Follower"]
  /\ AnswerVote(m, m.term)

(* beLeader(): the secretary's progress starts anew for the leader alone. *)
beLeader(s) ==
  /\ state' = [state EXCEPT ![s] = "Leader"]
  /\ nextIndex' = [nextIndex EXCEPT ![s] = [p \in Server |-> getLastLogIdx(s) + 1]]
  /\ matchIndex' = [matchIndex EXCEPT ![s] = [p \in Server |-> 0]]
  /\ secnextIndex' = [secnextIndex EXCEPT ![s] = getLastLogIdx(s) + 1]
  /\ elected' = elected \cup {<<currentTerm[s], s>>}
  /\ UNCHANGED currentTerm

VoteReply(r) ==
  LET s    == r.to
      mine == votes[s][r.argTerm] \cup {r.from}
  IN  /\ \/ /\ r.term > currentTerm[s]
            /\ decided' = decided \cup {[by |-> s, role |-> "Follower", term |-> r.term]}
            /\ UNCHANGED votes
         \/ /\ r.term <= currentTerm[s] /\ state[s] = "Candidate" /\ currentTerm[s] = r.argTerm
            /\ votes' = [votes EXCEPT ![s][r.argTerm] = mine]
            /\ decided' = decided \cup
                 {d \in {[by |-> s, role |-> "Leader", term |-> r.argTerm]} :
                   Cardinality(mine) + 1 > Cardinality(members(s)) \div 2}
      /\ UNCHANGED <<state, currentTerm, replica, indices, loop, pending, voting, network,
                     clients, elected>>

(* No lock is held since the checks; beLeader looks at the role again, but  *)
(* not at the term.                                                         *)
VoteReplyActs(d) ==
  /\ decided' = decided \ {d}
  /\ \/ /\ d.role = "Follower" /\ beFollower(d.by, d.term)
        /\ UNCHANGED <<indices, elected>>
     \/ d.role = "Leader" /\ state[d.by] = "Candidate" /\ beLeader(d.by)
     \/ /\ d.role = "Leader" /\ state[d.by] # "Candidate"
        /\ UNCHANGED <<state, currentTerm, indices, elected>>
  /\ UNCHANGED <<replica, loop, pending, votes, voting, network, clients>>

-----------------------------------------------------------------------------
(* AppendEntriesArgs of node n for p from index next on.  The secretary     *)
(* sends what it has with its own term, whoever leads.                      *)
Args(n, p, next) ==
  [term |-> currentTerm[n], from |-> n, to |-> p, prevLogIndex |-> next - 1,
   prevLogTerm |-> getPrevLogTerm(n, next),
   entries |-> SubSeq(log[n], next + 1, Len(log[n])), commit |-> commitIndex[n]]

Send(req) ==
  /\ Cardinality(aeReq \cup {req}) <= MaxAppend
  /\ aeReq' = aeReq \cup {req}
  /\ UNCHANGED <<state, currentTerm, replica, indices, loop, rounds, rvReq, rvRep, aeRep,
                 clients, elected>>

startAppendLogToFollower(s, p) ==
  /\ state[s] = "Leader" /\ Unlocked(s) /\ p \notin SecMembers
  /\ Send(Args(s, p, nextIndex[s][p]))

L2SsendAppendEntries(s) == Send(Args(s, Sec, secnextIndex[s]))
S2FsendAppendEntries(p) == Send(Args(Sec, p, nextIndex[Sec][p]))

startAppendLogToSecretary(s) ==
  /\ state[s] = "Leader" /\ Unlocked(s)
  /\ L2SsendAppendEntries(s)

startAppendLog(s) ==
  \/ \E p \in members(s) : startAppendLogToFollower(s, p)
  \/ SecMembers # {} /\ startAppendLogToSecretary(s)

(* The secretary's own startAppendLogToFollower; rf.log[nextIndex:] panics  *)
(* beyond the end of the log.                                               *)
SecretaryAppendLog(p) ==
  /\ p \in SecMembers /\ nextIndex[Sec][p] <= Len(log[Sec])
  /\ S2FsendAppendEntries(p)

(* Mutant of FirstNew: an entry of another term is taken for the same. *)
FirstMissing(lg, m) ==
  LET k == Len(lg) - m.prevLogIndex IN IF k > Len(m.entries) THEN Len(m.entries) + 1 ELSE k

(* The first entry of m that the log lg lacks or has with another term. *)
FirstNew(lg, m) ==
  CHOOSE k \in 1 .. Len(m.entries) + 1 :
    /\ \A j \in 1 .. k - 1 : TermAt(lg, m.prevLogIndex + j) = m.entries[j].term
    /\ k <= Len(m.entries) => TermAt(lg, m.prevLogIndex + k) # m.entries[k].term

MergedLog(lg, m) ==
  LET k == FirstNew(lg, m)
  IN  IF k > Len(m.entries) THEN lg
      ELSE SubSeq(lg, 1, m.prevLogIndex + k) \o SubSeq(m.entries, k, Len(m.entries))

(* The reply of node n; prevLogIndex is compared before the term is, and a  *)
(* conflict is reported by its term and the first index of that term.       *)
Reply(n, m) ==
  LET mine  == TermAt(log[n], m.prevLogIndex)
      match == mine = m.prevLogTerm
      t     == Greater(m.term, currentTerm[n])
      first == CHOOSE i \in 0 .. getLastLogIdx(n) :
                 /\ TermAt(log[n], i) = mine
                 /\ \A j \in 0 .. i - 1 : TermAt(log[n], j) # mine
  IN  [argTerm |-> m.term, term |-> t, from |-> n, to |-> m.from,
       success |-> match /\ t = m.term,
       match |-> m.prevLogIndex + Len(m.entries),
       conflictTerm |-> IF match THEN -1 ELSE mine,
       conflictIndex |-> IF match THEN 0 ELSE IF mine = -1 THEN Len(log[n]) ELSE first]

(* updateLastApplied follows, entry by entry. *)
AppendEntries(m) ==
  LET s == m.to
      r == Reply(s, m)
  IN  /\ s \in Server /\ Unlocked(s)
      /\ IF m.term > currentTerm[s] THEN beFollower(s, m.term) ELSE UNCHANGED <<state, currentTerm>>
      /\ log' = [log EXCEPT ![s] = IF r.success THEN MergedLog(@, m) ELSE @]
      /\ commitIndex' = [commitIndex EXCEPT ![s] =
                           IF r.success /\ m.commit > @ THEN Lesser(m.commit, Len(log'[s]) - 1) ELSE @]
      /\ aeRep' = aeRep \cup {r}
      /\ UNCHANGED <<lastApplied, db, channel, indices, loop, rounds, rvReq, rvRep, aeReq,
                     clients, elected>>

(* The secretary's updateLastApplied up to index c; it never leads, so that *)
(* nothing is announced.                                                    *)
SecretaryApply(c) ==
  LET puts == SelectSeq(SubSeq(log[Sec], lastApplied[Sec] + 2, c + 1), LAMBDA e : e.put # "")
  IN  /\ commitIndex' = [commitIndex EXCEPT ![Sec] = c]
      /\ lastApplied' = [lastApplied EXCEPT ![Sec] = Greater(@, c)]
      /\ db' = [db EXCEPT ![Sec] = IF puts = << >> THEN @ ELSE puts[Len(puts)].put]

(* The secretary commits and applies before it looks at the entries. *)
L2SAppendEntries(m) ==
  LET r == Reply(Sec, m)
  IN  /\ m.to = Sec
      /\ IF m.commit > commitIndex[Sec] THEN SecretaryApply(Lesser(m.commit, getLastLogIdx(Sec)))
         ELSE UNCHANGED <<commitIndex, lastApplied, db>>
      /\ currentTerm' = [currentTerm EXCEPT ![Sec] = r.term]
      /\ log' = [log EXCEPT ![Sec] = IF r.success THEN MergedLog(@, m) ELSE @]
      /\ aeRep' = aeRep \cup {r @@ [secMatch |-> matchIndex[Sec]]}
      /\ UNCHANGED <<state, channel, indices, loop, rounds, rvReq, rvRep, aeReq, clients, elected>>

-----------------------------------------------------------------------------
(* matchIndex sorted downwards, at position (len-1)/2. *)
MajorityMatch(s, mi) ==
  LET reach(n) == Cardinality({p \in members(s) : mi[p] >= n})
      half     == (Cardinality(members(s)) - 1) \div 2
  IN  CHOOSE n \in {mi[p] : p \in members(s)} :
        reach(n) > half /\ \A q \in members(s) : mi[q] > n => reach(mi[q]) <= half

(* updateCommitIndex with the matchIndex mi. *)
updateCommitIndex(s, mi) ==
  LET n == MajorityMatch(s, mi)
  IN  /\ matchIndex' = [matchIndex EXCEPT ![s] = mi]
      /\ commitIndex' = [commitIndex EXCEPT ![s] =
                           IF n > @ /\ TermAt(log[s], n) = currentTerm[s] THEN n ELSE @]

(* One past the sender's last entry of the conflicting term, or the hint. *)
BackUp(n, r) ==
  LET own == {i \in 0 .. getLastLogIdx(n) : TermAt(log[n], i) = r.conflictTerm}
  IN  IF own # {} THEN 1 + CHOOSE i \in own : \A j \in own : j <= i ELSE r.conflictIndex

(* Mutant of Relayed: what the secretary has counts for its members. *)
RelayedAtOnce(r) == [p \in Server |-> r.match]

(* The members' progress in a reply of the secretary: its matchIndex. *)
Relayed(r) == r.secMatch

(* A reply to the leader s, from a follower or from the secretary. *)
AppendReply(r) ==
  LET s == r.to
  IN  /\ s \in Server /\ Unlocked(s) /\ state[s] = "Leader" /\ currentTerm[s] = r.argTerm
      /\ \/ /\ r.term > currentTerm[s]
            /\ beFollower(s, r.term)
            /\ UNCHANGED <<indices, commitIndex>>
         \/ /\ r.term <= currentTerm[s] /\ r.success /\ r.from \in Server
            /\ nextIndex' = [nextIndex EXCEPT ![s][r.from] = r.match + 1]
            /\ updateCommitIndex(s, [matchIndex[s] EXCEPT ![r.from] = r.match])
            /\ UNCHANGED <<state, currentTerm, secnextIndex>>
         \/ /\ r.term <= currentTerm[s] /\ r.success /\ r.from = Sec
            /\ secnextIndex' = [secnextIndex EXCEPT ![s] = r.match + 1]
            /\ updateCommitIndex(s, [p \in Server |-> IF p \in SecMembers \cap members(s)
                                                      THEN Relayed(r)[p] ELSE matchIndex[s][p]])
            /\ UNCHANGED <<state, currentTerm, nextIndex>>
         \/ /\ r.term <= currentTerm[s] /\ ~r.success
            /\ IF r.from = Sec
               THEN secnextIndex' = [secnextIndex EXCEPT ![s] = BackUp(s, r)] /\ UNCHANGED nextIndex
               ELSE nextIndex' = [nextIndex EXCEPT ![s][r.from] = BackUp(s, r)] /\ UNCHANGED secnextIndex
            /\ UNCHANGED <<state, currentTerm, matchIndex, commitIndex>>
      /\ UNCHANGED <<log, lastApplied, db, channel, loop, rounds, network, clients, elected>>

(* Mutant of Replicated: all the secretary has by now. *)
ReplicatedNow(r) == getLastLogIdx(Sec)

(* What a successful AppendEntries shows of the secretary's member. *)
Replicated(r) == r.match

(* A reply to the secretary. *)
SecretaryAppendReply(r) ==
  /\ r.to = Sec /\ currentTerm[Sec] = r.argTerm
  /\ \/ /\ r.term > currentTerm[Sec]
        /\ currentTerm' = [currentTerm EXCEPT ![Sec] = r.term]
        /\ UNCHANGED <<matchIndex, nextIndex>>
     \/ /\ r.term <= currentTerm[Sec] /\ r.success
        /\ matchIndex' = [matchIndex EXCEPT ![Sec][r.from] = Replicated(r)]
        /\ nextIndex' = [nextIndex EXCEPT ![Sec][r.from] = Replicated(r) + 1]
        /\ UNCHANGED currentTerm
     \/ /\ r.term <= currentTerm[Sec] /\ ~r.success
        /\ nextIndex' = [nextIndex EXCEPT ![Sec][r.from] = BackUp(Sec, r)]
        /\ UNCHANGED <<matchIndex, currentTerm>>
  /\ UNCHANGED <<state, replica, secnextIndex, loop, rounds, network, clients, elected>>

-----------------------------------------------------------------------------
(* Start, whose startAppendLog is the actions of that name. *)
Start(s, op) ==
  /\ Len(log[s]) <= MaxLog
  /\ log' = [log EXCEPT ![s] = Append(@, [term |-> currentTerm[s], put |-> op])]

(* The clerk calls one server after the other until a leader answers.  A    *)
(* call that times out is made again elsewhere, while its handler waits on. *)
putAppendValue(v, s) == v \notin acked /\ <<v, s>> \notin calls

(* The service: GetState and Start, then the handler waits for a token,     *)
(* whoever's it is.  The entry of an Append is neither applied nor          *)
(* announced.                                                               *)
PutAppend(v, s) ==
  /\ putAppendValue(v, s) /\ GetState(s).isleader /\ Unlocked(s)
  /\ Start(s, IF v \in Appends THEN "" ELSE v)
  /\ calls' = calls \cup {<<v, s>>}
  /\ UNCHANGED <<state, currentTerm, commitIndex, lastApplied, db, channel, indices, loop,
                 rounds, network, acked, elected>>

PutReturns(v, s) ==
  /\ <<v, s>> \in calls /\ applyCh[s] > 0
  /\ applyCh' = [applyCh EXCEPT ![s] = @ - 1]
  /\ calls' = calls \ {<<v, s>>}
  /\ acked' = acked \cup {v}
  /\ UNCHANGED <<state, currentTerm, log, commitIndex, lastApplied, db, sending, indices, loop,
                 rounds, network, elected>>

(* Mutant of Get: the newest entry, applied or not. *)
GetNewest(s) == IF GetState(s).isleader THEN EntryAt(log[s], getLastLogIdx(s)).put ELSE ""

(* Value in what Get answers at s.  It changes nothing, and reads the       *)
(* database at the leader only, without rf.mu; elsewhere the reply is empty.*)
Get(s) == IF GetState(s).isleader THEN db[s] ELSE ""

(* The clerk returns the first reply it gets, from whichever server, and    *)
(* does not look at IsLeader.                                               *)
getValue == {Get(s) : s \in Server}

Next ==
  \/ \E s \in Server : MainLoop(s) \/ beCandidate(s) \/ startElection(s)
  \/ \E s \in Server : updateLastApplied(s) \/ sendApply(s)
  \/ \E m \in rvReq : RequestVote(m)
  \/ \E m \in voting : RequestVoteNewTerm(m)
  \/ \E r \in rvRep : VoteReply(r)
  \/ \E d \in decided : VoteReplyActs(d)
  \/ \E s \in Server : startAppendLog(s)
  \/ \E p \in Server : SecretaryAppendLog(p)
  \/ \E m \in aeReq : AppendEntries(m) \/ L2SAppendEntries(m)
  \/ \E r \in aeRep : AppendReply(r) \/ SecretaryAppendReply(r)
  \/ \E v \in Puts, s \in Server : PutAppend(v, s) \/ PutReturns(v, s)

Spec == Init /\ [][Next]_vars

-----------------------------------------------------------------------------
(* Properties *)

(* n's log up to index i is in the log of p. *)
Holds(p, n, i) ==
  getLastLogIdx(p) >= i /\ \A j \in 0 .. i : EntryAt(log[p], j) = EntryAt(log[n], j)

(* What a server knows to be committed, a majority of the servers has in    *)
(* its log, whether the entries reached them from the leader or through the *)
(* secretary (updateCommitIndex, startAppendLogToSecretary).                *)
CommittedOnMajority ==
  \A s \in Server :
    2 * Cardinality({p \in Server : Holds(p, s, Lesser(commitIndex[s], getLastLogIdx(s)))}) > Cardinality(Server)

(* A value that a clerk's Get may return, other than the empty one, is in   *)
(* the log of a majority (Get, updateLastApplied): no read shows a Put that *)
(* may yet be lost.  For one leader.                                        *)
ReadIsCommitted ==
  \A v \in getValue \ {""} :
    2 * Cardinality({p \in Server : \E i \in DOMAIN log[p] : log[p][i].put = v}) > Cardinality(Server)

(* Two logs, the secretary's included, with an entry of the same term at    *)
(* the same index are equal up to it, though the secretary passes entries   *)
(* on under its own term (AppendEntries, L2SAppendEntries).  For leaders    *)
(* of different terms.                                                      *)
LogMatching ==
  \A n, p \in Node : \A i \in 0 .. Lesser(getLastLogIdx(n), getLastLogIdx(p)) :
    TermAt(log[n], i) = TermAt(log[p], i) => Holds(p, n, i)

(* What the secretary reports of a member is in the member's log, and it    *)
(* never looks for an entry past the end of its own log (secretary.go).     *)
(* For one leader.                                                          *)
RelaySound ==
  \A p \in SecMembers : /\ nextIndex[Sec][p] <= Len(log[Sec])
                        /\ matchIndex[Sec][p] <= getLastLogIdx(Sec)
                        /\ Holds(p, Sec, matchIndex[Sec][p])

(* A server that holds rf.mu until applyCh has room has a handler that will *)
(* make room (updateLastApplied, PutAppend).  For one leader.               *)
LockReleased ==
  \A s \in Server :
    sending[s] /\ applyCh[s] = 1 => \E v \in Puts : <<v, s>> \in calls
=============================================================================
