------------------------------- MODULE LabBench -------------------------------
(***************************************************************************)
(* The test bench of the Raft lab (src/raft/config.go): one test goroutine *)
(* that crashes, starts, connects and disconnects servers, looks for a     *)
(* leader and drives agreements, and one goroutine per instance that reads *)
(* its applyCh into cfg.logs and compares what the servers have committed. *)
(* A replaced instance is not killed: its reader goes on.                  *)
(*                                                                         *)
(* The Raft under test is external: its instances elect leaders, decide    *)
(* and hand over as Raft promises, and may break that promise Faults times.*)
(***************************************************************************)
EXTENDS Integers, Sequences, FiniteSets

CONSTANTS
  Server,   \* the servers, 1 .. cfg.n
  Cmds,     \* bound: the commands of one(), each used once
  MaxTerm,  \* bound: terms
  MaxOps,   \* bound: what the test does besides one()
  MaxStart, \* bound: restarts
  MaxSave,  \* bound: writes of an instance to its persister
  Faults    \* bound: wrong commands handed over

VARIABLES
  rafts,     \* cfg.rafts[i]: the number of the instance, 0 for nil
  connected, \* cfg.connected
  names,     \* cfg.endnames[i], a number for each fresh set
  enabled,   \* the ends the network lets through: <<from, names, to>>
  saved,     \* cfg.saved[i]: the number of writes its state comes from
  logs,      \* cfg.logs[i]: index -> command, "none" where there is nothing
  test,      \* what the test goroutine is doing
  fatal,     \* the message of log.Fatalf or t.Fatalf that ended the test, "" before
  inst,      \* inst[i]: the instances of server i
  decided,   \* external: the log agreed on
  ops, starts, wrong, used  \* counters behind the bounds
VARIABLE ghost \* history: what was handed over; the writes at the time of the last crash1

bench == <<rafts, connected, names, enabled, saved, test>>
vars  == <<bench, logs, fatal, inst, decided, ops, starts, wrong, used, ghost>>

Nobody == "none"
Last(s) == s[Len(s)]
Index  == 1 .. Cardinality(Cmds) + 1
Idle   == [at |-> "idle"]

(* An instance of Raft, on the state of its persister. *)
Fresh(t, n) == [term |-> t, leader |-> FALSE, base |-> 0, tail |-> << >>, known |-> 0, next |-> 1,
                saves |-> n, err |-> ""]

(* make_config: everyone started and connected. *)
Init ==
  /\ rafts = [i \in Server |-> 1] /\ connected = [i \in Server |-> TRUE]
  /\ names = [i \in Server |-> 1] /\ enabled = {<<i, 1, j>> : i \in Server, j \in Server}
  /\ saved = [i \in Server |-> 0] /\ logs = [i \in Server |-> [k \in Index |-> Nobody]]
  /\ test = Idle /\ fatal = "" /\ inst = [i \in Server |-> <<Fresh(0, 0)>>] /\ decided = << >>
  /\ ops = 0 /\ starts = 0 /\ wrong = 0 /\ used = {}
  /\ ghost = [handed |-> {}, cut |-> [i \in Server |-> 0]]

(* The test goroutine's own steps change nothing of the servers. *)
Testing == fatal = "" /\ UNCHANGED <<inst, decided, wrong, ghost>>
Fatalf(msg) == fatal' = msg

-----------------------------------------------------------------------------
(* The Raft under test *)

Reaches(i, j) == {<<i, names[i], j>>, <<j, names[j], i>>} \subseteq enabled
Quorum(i) == 2 * Cardinality({j \in Server : rafts[j] # 0 /\ (i = j \/ Reaches(i, j))}) > Cardinality(Server)
Up(i) == fatal = "" /\ rafts[i] # 0
Now(i) == inst[i][rafts[i]]
Asked == {i \in Server : connected[i] /\ rafts[i] # 0}
Newest == CHOOSE t \in 0 .. MaxTerm : /\ \E i \in Server : \E n \in DOMAIN inst[i] : inst[i][n].term = t
                                      /\ \A i \in Server : \A n \in DOMAIN inst[i] : inst[i][n].term <= t
Kept == <<bench, logs, fatal, ops, starts, wrong, used, ghost>>

(* An election, and a server that hears of it. *)
Elect(i) ==
  /\ Up(i) /\ Quorum(i) /\ Newest < MaxTerm
  /\ inst' = [inst EXCEPT ![i][rafts[i]] =
                [@ EXCEPT !.term = Newest + 1, !.leader = TRUE, !.base = Len(decided), !.tail = << >>]]
  /\ UNCHANGED <<Kept, decided>>

Hear(i) ==
  /\ Up(i) /\ Now(i).term < Newest /\ \E j \in Server \ {i} : Up(j) /\ Reaches(i, j) /\ Now(j).term = Newest
  /\ inst' = [inst EXCEPT ![i][rafts[i]] = [@ EXCEPT !.term = Newest, !.leader = FALSE, !.tail = << >>]]
  /\ UNCHANGED <<Kept, decided>>

(* The leader of the newest term decides what was submitted to it. *)
Decide(i) ==
  /\ Up(i) /\ Now(i).leader /\ Now(i).term = Newest /\ Now(i).tail # << >> /\ Quorum(i)
  /\ decided' = Append(decided, Head(Now(i).tail))
  /\ inst' = [inst EXCEPT ![i][rafts[i]] = [@ EXCEPT !.base = @ + 1, !.tail = Tail(@)]]
  /\ UNCHANGED Kept

Learn(i) ==
  /\ Up(i) /\ Quorum(i) /\ Now(i).known < Len(decided)
  /\ inst' = [inst EXCEPT ![i][rafts[i]].known = Len(decided)]
  /\ UNCHANGED <<Kept, decided>>

(* The server is being crashed and its persister is a copy already. *)
Superseded(i) == test.at = "crash2" /\ test.server = i

(* Any instance, a replaced one as well, writes to the persister it has;    *)
(* that of the present one is cfg.saved[i].                                 *)
Save(i, n) ==
  /\ fatal = "" /\ inst[i][n].saves < MaxSave
  /\ inst' = [inst EXCEPT ![i][n].saves = @ + 1]
  /\ saved' = [saved EXCEPT ![i] = IF rafts[i] = n /\ ~Superseded(i) THEN @ + 1 ELSE @]
  /\ UNCHANGED <<rafts, connected, names, enabled, test, logs, fatal, decided, ops, starts, wrong, used, ghost>>

-----------------------------------------------------------------------------
(* The goroutine that reads applyCh *)

(* Mutant of Mismatch: only what the server itself committed is compared. *)
MismatchOwn(i, k, v) == logs[i][k] \notin {Nobody, v}

(* Some server has already committed a different value for this entry. *)
Mismatch(i, k, v) == \E j \in Server : logs[j][k] \notin {Nobody, v}

OutOfOrder(i, k) == k > 1 /\ logs[i][k - 1] = Nobody

(* err_msg, with which the goroutine ends the test. *)
err_msg(i, k, v) ==
  IF OutOfOrder(i, k) THEN "out of order" ELSE IF Mismatch(i, k, v) THEN "mismatch" ELSE ""

(* The instance hands over the command v at its next index; cfg.mu is held  *)
(* from the comparison to the entry in cfg.logs.                            *)
Applied(i, n, v) ==
  LET k == inst[i][n].next
  IN  /\ fatal = "" /\ k <= inst[i][n].known /\ inst[i][n].err = ""
      /\ inst' = [inst EXCEPT ![i][n].next = @ + 1, ![i][n].err = err_msg(i, k, v)]
      /\ logs' = [logs EXCEPT ![i][k] = v]
      /\ ghost' = [ghost EXCEPT !.handed = @ \cup {<<k, v>>}]
      /\ UNCHANGED <<bench, fatal, decided, ops, starts, used>>

(* log.Fatalf, after the unlock. *)
ApplyError(i, n) ==
  /\ fatal = "" /\ inst[i][n].err # "" /\ Fatalf(inst[i][n].err)
  /\ UNCHANGED <<bench, logs, inst, decided, ops, starts, wrong, used, ghost>>

Apply(i, n) ==
  inst[i][n].next <= inst[i][n].known /\ Applied(i, n, decided[inst[i][n].next]) /\ UNCHANGED wrong

ApplyWrong(i, n) ==
  /\ wrong < Faults /\ wrong' = wrong + 1
  /\ \E v \in Cmds : Applied(i, n, v) /\ v # decided[inst[i][n].next]

-----------------------------------------------------------------------------
(* crash1, start1, connect, disconnect *)

Ends(i, to) == {<<i, names[i], j>> : j \in to} \cup {<<j, names[j], i>> : j \in to}
Op == test = Idle /\ ops < MaxOps /\ ops' = ops + 1

(* Only ends between connected servers are enabled. *)
connect(i) ==
  /\ Testing /\ Op /\ rafts[i] # 0
  /\ connected' = [connected EXCEPT ![i] = TRUE]
  /\ enabled' = enabled \cup Ends(i, {j \in Server : connected'[j]})
  /\ UNCHANGED <<rafts, names, saved, test, logs, fatal, starts, used>>

Disconnected(i) ==
  /\ connected' = [connected EXCEPT ![i] = FALSE]
  /\ enabled' = enabled \ Ends(i, Server)

disconnect(i) ==
  /\ Testing /\ Op /\ connected[i] /\ Disconnected(i)
  /\ UNCHANGED <<rafts, names, saved, test, logs, fatal, starts, used>>

(* crash1 first takes the server off the network ... *)
crash1(i) ==
  /\ fatal = "" /\ Op /\ rafts[i] # 0 /\ Disconnected(i)
  /\ test' = [at |-> "crash1", server |-> i]
  /\ ghost' = [ghost EXCEPT !.cut[i] = saved[i]]
  /\ UNCHANGED <<rafts, names, saved, logs, fatal, starts, used, inst, decided, wrong>>

(* ... then supersedes the persister by its copy, so that the instance,     *)
(* which is told to stop, writes to another one from here on, ...           *)
Copied ==
  /\ Testing /\ test.at = "crash1" /\ test' = [test EXCEPT !.at = "crash2"]
  /\ UNCHANGED <<rafts, connected, names, enabled, saved, logs, fatal, ops, starts, used>>

(* Mutant of RaftState: the fresh persister is left empty. *)
RaftStateNone(i) == 0

(* ... and leaves a fresh persister with the raft state of the copy. *)
RaftState(i) == saved[i]

Killed ==
  /\ Testing /\ test.at = "crash2" /\ test' = Idle
  /\ saved' = [saved EXCEPT ![test.server] = RaftState(test.server)]
  /\ rafts' = [rafts EXCEPT ![test.server] = 0]
  /\ UNCHANGED <<connected, names, enabled, logs, fatal, ops, starts, used>>

(* Mutant of LogsKept: the record of the server begins anew. *)
LogsReset(i) == [logs EXCEPT ![i] = [k \in Index |-> Nobody]]

(* start1 keeps what the earlier instances committed. *)
LogsKept(i) == logs

(* start1: fresh names, a copy of the persister, a new instance on it.      *)
(* The tests crash a server before they start it again.                     *)
start1(i) ==
  /\ fatal = "" /\ test = Idle /\ rafts[i] = 0 /\ starts < MaxStart /\ starts' = starts + 1
  /\ names' = [names EXCEPT ![i] = @ + 1]
  /\ inst' = [inst EXCEPT ![i] = Append(@, Fresh(Last(@).term, saved[i]))]
  /\ rafts' = [rafts EXCEPT ![i] = Len(inst'[i])]
  /\ logs' = LogsKept(i)
  /\ UNCHANGED <<connected, enabled, saved, test, fatal, decided, ops, wrong, used, ghost>>

-----------------------------------------------------------------------------
(* What the tests ask.  The servers are looked at one after the other, each *)
(* for a moment; the rest of the program goes on in between.                *)

Scan(kind, from) ==
  [at |-> "scan", kind |-> kind, next |-> 1, seen |-> {},
   began |-> {<<Now(i).term, i>> : i \in {j \in from : Now(j).leader}}]

(* checkOneLeader, checkTerms or checkNoLeader begins. *)
Check(kind) ==
  /\ Testing /\ Op /\ test' = Scan(kind, Asked)
  /\ UNCHANGED <<rafts, connected, names, enabled, saved, logs, fatal, starts, used>>

(* GetState of the next server, if it is connected. *)
GetState ==
  LET i == test.next
  IN  /\ Testing /\ test.at = "scan" /\ i \in Server
      /\ test' = [test EXCEPT !.next = @ + 1,
                   !.seen = IF i \in Asked THEN @ \cup {<<Now(i).term, i, Now(i).leader>>} ELSE @]
      /\ UNCHANGED <<rafts, connected, names, enabled, saved, logs, fatal, ops, starts, used>>

(* Mutant of lastTermWithLeader: the loop keeps the first term. *)
firstTermWithLeader(ls) == CHOOSE t \in {x[1] : x \in ls} : \A x \in ls : x[1] >= t

lastTermWithLeader(ls) == CHOOSE t \in {x[1] : x \in ls} : \A x \in ls : x[1] <= t

(* checkOneLeader: two leaders of a term, the leader of the last term, or   *)
(* none, and the next of its ten iterations may begin.                      *)
checkOneLeader ==
  LET leaders == {x \in test.seen : x[3]}
  IN  /\ test.kind = "leader"
      /\ IF \E x, y \in leaders : x[1] = y[1] /\ x # y
         THEN Fatalf("leaders") /\ test' = Idle
         ELSE /\ UNCHANGED fatal
              /\ test' = IF leaders = {} THEN Idle
                         ELSE [at |-> "leader", term |-> lastTermWithLeader(leaders), began |-> test.began]

checkTerms ==
  /\ test.kind = "terms" /\ test' = Idle
  /\ fatal' = IF \E x, y \in test.seen : x[1] # y[1] THEN "terms" ELSE fatal

checkNoLeader ==
  /\ test.kind = "noleader" /\ test' = Idle
  /\ fatal' = IF \E x \in test.seen : x[3] THEN "leader" ELSE fatal

Scanned ==
  /\ Testing /\ test.at = "scan" /\ test.next \notin Server
  /\ checkOneLeader \/ checkTerms \/ checkNoLeader
  /\ UNCHANGED <<rafts, connected, names, enabled, saved, logs, ops, starts, used>>

(* one(cmd, expectedServers, retry), and wait(index, n, startTerm), which   *)
(* takes any command.                                                       *)
Counting(at, kind, cmd, expected, index) ==
  [at |-> at, kind |-> kind, cmd |-> cmd, expected |-> expected, index |-> index,
   next |-> 1, count |-> 0, got |-> Nobody, startTerm |-> Newest]

one(cmd, expected) ==
  /\ Testing /\ test = Idle /\ cmd \notin used /\ used' = used \cup {cmd}
  /\ test' = Counting("submit", "one", cmd, expected, 0)
  /\ UNCHANGED <<rafts, connected, names, enabled, saved, logs, fatal, ops, starts>>

wait(index, n) ==
  /\ Testing /\ Op /\ test' = Counting("count", "wait", Nobody, n, index)
  /\ UNCHANGED <<rafts, connected, names, enabled, saved, logs, fatal, starts, used>>

(* Somebody who is connected claims to lead and takes the command. *)
Start(i) ==
  LET k == Now(i).base + Len(Now(i).tail) + 1
  IN  /\ fatal = "" /\ test.at = "submit" /\ i \in Asked /\ Now(i).leader /\ k \in Index
      /\ inst' = [inst EXCEPT ![i][rafts[i]].tail = Append(@, test.cmd)]
      /\ test' = [test EXCEPT !.at = "count", !.index = k]
      /\ UNCHANGED <<rafts, connected, names, enabled, saved, logs, fatal, decided, ops, starts, wrong, used, ghost>>

(* nCommitted looks at the next server. *)
nCommitted ==
  LET v == logs[test.next][test.index]
  IN  /\ Testing /\ test.at = "count" /\ test.next \in Server
      /\ test' = [test EXCEPT !.next = @ + 1,
                   !.count = IF v = Nobody THEN @ ELSE @ + 1, !.got = IF v = Nobody THEN @ ELSE v]
      /\ fatal' = IF v # Nobody /\ test.count > 0 /\ test.got # v THEN "values" ELSE fatal
      /\ UNCHANGED <<rafts, connected, names, enabled, saved, logs, ops, starts, used>>

(* Mutant of Agreed: the command is not compared. *)
AgreedOnAny == test.count >= test.expected /\ test.count > 0

(* Enough servers have committed what was submitted. *)
Agreed ==
  /\ test.count >= test.expected /\ test.count > 0
  /\ test.kind = "one" => test.got = test.cmd

(* Agreement; or another look 20 ms later; or, after two seconds, the       *)
(* command is submitted again, or the test fails; wait also gives up when   *)
(* someone has moved on to another term.                                    *)
Counted ==
  /\ Testing /\ test.at = "count" /\ test.next \notin Server
  /\ IF Agreed
     THEN test' = [test EXCEPT !.at = "returned"] /\ UNCHANGED fatal
     ELSE \/ test' = [test EXCEPT !.next = 1, !.count = 0, !.got = Nobody] /\ UNCHANGED fatal
          \/ test.kind = "one" /\ test' = Counting("submit", "one", test.cmd, test.expected, 0) /\ UNCHANGED fatal
          \/ test' = Idle /\ Fatalf("no agreement")
          \/ test.kind = "wait" /\ Newest > test.startTerm /\ test' = Idle /\ UNCHANGED fatal
  /\ UNCHANGED <<rafts, connected, names, enabled, saved, logs, ops, starts, used>>

(* The test goes on with the answer. *)
Answered ==
  /\ Testing /\ test.at \in {"leader", "returned"} /\ test' = Idle
  /\ UNCHANGED <<rafts, connected, names, enabled, saved, logs, fatal, ops, starts, used>>

Next ==
  \/ \E i \in Server :
       \/ Elect(i) \/ Hear(i) \/ Decide(i) \/ Learn(i)
       \/ \E n \in DOMAIN inst[i] : Save(i, n) \/ Apply(i, n) \/ ApplyWrong(i, n) \/ ApplyError(i, n)
       \/ connect(i) \/ disconnect(i) \/ crash1(i) \/ start1(i) \/ Start(i)
  \/ Copied \/ Killed \/ GetState \/ Scanned \/ nCommitted \/ Counted \/ Answered
  \/ \E kind \in {"leader", "terms", "noleader"} : Check(kind)
  \/ \E n \in Server : (\E c \in Cmds : one(c, n)) \/ (\E k \in Index : wait(k, n))

Spec == Init /\ [][Next]_vars

-----------------------------------------------------------------------------
(* Properties *)

(* The bench accuses no Raft that keeps its promises, although instances    *)
(* that were replaced go on handing over and servers are looked at one      *)
(* after the other (the applyCh reader, checkOneLeader, nCommitted).        *)
NoFalseAlarm == wrong = 0 => fatal \notin {"mismatch", "out of order", "leaders", "values"}

(* Two different commands handed over at an index, by whatever instances,   *)
(* end the test, or a goroutine is about to end it (the applyCh reader).    *)
DisagreementCaught ==
  (\E x, y \in ghost.handed : x[1] = y[1] /\ x[2] # y[2])
    => fatal # "" \/ \E i \in Server : \E n \in DOMAIN inst[i] : inst[i][n].err # ""

(* What one or wait reports as committed is committed, and by as many       *)
(* servers as were asked for (one, wait, nCommitted).                       *)
ReturnedIsCommitted ==
  test.at = "returned" =>
    LET v == IF test.kind = "one" THEN test.cmd ELSE test.got
    IN  Cardinality({i \in Server : logs[i][test.index] = v}) >= test.expected

(* The leader reported is no older than any server that led when the check  *)
(* began and still leads (checkOneLeader).                                  *)
NewestReported ==
  test.at = "leader" =>
    \A x \in test.began : Asked # {} /\ x[2] \in Asked /\ Now(x[2]).leader /\ Now(x[2]).term = x[1] => test.term >= x[1]

(* A server is started again with everything it wrote before it was taken   *)
(* off the network (crash1, start1).                                        *)
StateSurvives == \A i \in Server : \A n \in DOMAIN inst[i] : n = Len(inst[i]) /\ n > 1 => inst[i][n].saves >= ghost.cut[i]
=============================================================================
