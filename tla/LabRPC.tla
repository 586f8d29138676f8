------------------------------- MODULE LabRPC --------------------------------
(***************************************************************************)
(* The simulated network of the Raft lab (labrpc/labrpc.go) and the test   *)
(* bench that connects, partitions, shuts down and restarts the servers    *)
(* over it (kvraft/config.go).  A call is a goroutine of its sender, the   *)
(* goroutine processReq and the goroutine that runs the handler; the test  *)
(* goroutine is a fourth actor.  A handler stands for an operation that    *)
(* persists an update before it returns; it goes on when its server is     *)
(* shut down, and so do the other goroutines of the old instance.          *)
(***************************************************************************)
EXTENDS Integers, Sequences, FiniteSets

CONSTANTS
  Server,   \* the server names
  Calls,    \* bound: the calls made, a function from each one to [from, to]
  MaxStart, \* bound: restarts of each server
  MaxSwitch \* bound: calls of Reliable, LongReordering, partition and ConnectAll

VARIABLES
  reliable, longReordering, done, \* of the Network
  enabled,  \* the ends enabled: [from, gen, to], connected to server `to' for life
  servers,  \* servers[i]: the instance of i that the network knows, 0 for nil
  names,    \* names[i][n]: the set of end names its n-th instance was given
  saved,    \* the persisters of i, as what they hold; cfg.saved[i] is the last
  live,     \* cfg.kvservers[i]
  test,     \* what the test goroutine is in the middle of
  call,     \* the goroutines of each call
  switches

network == <<reliable, longReordering, done, enabled, servers>>
bench   == <<names, saved, live, test, switches>>
vars    == <<network, bench, call>>

(* The network knows an instance by its labrpc.Server, live by the persister *)
(* it was given: StartServer makes one of each.  A clerk is one instance.    *)
Last(s) == s[Len(s)]
Instances(x) == IF x \in Server THEN DOMAIN names[x] ELSE {1}
Killed(x, n) == x \in Server /\ (live[x] = 0 \/ n # Len(names[x]))
NamesOf(x, n) == IF x \in Server THEN names[x][n] ELSE 1

(* Connect: an end belongs to one server for life. *)
Connect(x, g, j) == [from |-> x, gen |-> g, to |-> j]

(* MakeEnd: the ends of x by the set g of names. *)
MakeEnds(x, g) == {Connect(x, g, j) : j \in Server}

(* The clerk k with its ends to all servers. *)
makeClient(k) == MakeEnds(k, 1)

(* Persister.Copy supersedes the last persister by one with its contents. *)
Copy(persisters) == Append(persisters, Last(persisters))

Idle == [at |-> "idle"]

(* make_config, with its clerks. *)
Init ==
  /\ reliable \in BOOLEAN /\ longReordering = FALSE /\ done = FALSE
  /\ enabled = (UNION {MakeEnds(i, 1) : i \in Server})
                 \cup (UNION {makeClient(Calls[c].from) : c \in DOMAIN Calls})
  /\ servers = [i \in Server |-> 1] /\ names = [i \in Server |-> <<1>>]
  /\ saved = [i \in Server |-> << {} >>] /\ live = [i \in Server |-> 1]
  /\ test = Idle /\ switches = 0
  /\ call = [c \in DOMAIN Calls |-> Idle]

-----------------------------------------------------------------------------
(* A call.  Any instance of the sender may make it, a killed one as well.   *)
Call(c, n) ==
  /\ call[c] = Idle /\ n \in Instances(Calls[c].from)
  /\ call' = [call EXCEPT ![c] = [at |-> "sent", handler |-> "none", late |-> Killed(Calls[c].from, n),
                                  end |-> [from |-> Calls[c].from, gen |-> NamesOf(Calls[c].from, n), to |-> Calls[c].to]]]
  /\ UNCHANGED <<network, bench>>

Return(c, ok) ==
  call' = [call EXCEPT ![c] = [@ EXCEPT !.at = IF ok THEN "true" ELSE "false"]]

(* The network is gone before its goroutine took the request. *)
CallDone(c) == call[c].at = "sent" /\ done /\ Return(c, FALSE) /\ UNCHANGED <<network, bench>>

(* readEndnameInfo: what processReq goes on with, whatever changes later. *)
readEndnameInfo(c) ==
  [enabled |-> call[c].end \in enabled, server |-> servers[call[c].end.to],
   reliable |-> reliable, longreordering |-> longReordering]

(* No server is reached: false comes after a while, up to seven seconds     *)
(* with LongDelays.                                                         *)
NoReply(c) == Return(c, FALSE)

(* The fields of a request that was let through. *)
processReq(c) ==
  LET info == readEndnameInfo(c)
  IN  /\ call[c].at = "sent"
      /\ IF info.enabled /\ info.server # 0
         THEN \/ call' = [call EXCEPT ![c] = [at |-> "waiting", handler |-> "running", late |-> call[c].late,
                                              end |-> call[c].end, info |-> info]]
              \/ ~info.reliable /\ Return(c, FALSE)
         ELSE NoReply(c)
      /\ UNCHANGED <<network, bench>>

(* Service.dispatch calls the method, which persists what it does. *)
CallMethod(c, i, n) == saved' = [saved EXCEPT ![i][n] = @ \cup {c}]

(* The handler goroutine, which nothing stops: Server.dispatch. *)
dispatch(c) ==
  /\ call[c] # Idle /\ call[c].handler = "running"
  /\ CallMethod(c, call[c].end.to, call[c].info.server)
  /\ call' = [call EXCEPT ![c].handler = "returned"]
  /\ UNCHANGED <<network, names, live, test, switches>>

(* Mutant of isServerDead: whether there is a server of that name. *)
isServerGone(c) == call[c].end \notin enabled \/ servers[call[c].end.to] = 0

isServerDead(c) ==
  call[c].end \notin enabled \/ servers[call[c].end.to] # call[c].info.server

(* The loop of processReq: the handler's reply, or every 100 ms a look      *)
(* whether the server is dead.                                              *)
AwaitReply(c) ==
  /\ call[c].at = "waiting"
  /\ \/ /\ call[c].handler = "returned"
        /\ call' = [call EXCEPT ![c].at = "replying"]
     \/ isServerDead(c) /\ Return(c, FALSE)
  /\ UNCHANGED <<network, bench>>

(* What is done with the reply. *)
Reply(c) ==
  /\ call[c].at = "replying"
  /\ \/ isServerDead(c) /\ Return(c, FALSE)
     \/ ~isServerDead(c) /\ ~call[c].info.reliable /\ Return(c, FALSE)
     \/ /\ ~isServerDead(c) /\ call[c].info.longreordering
        /\ call' = [call EXCEPT ![c].at = "delayed"]
     \/ ~isServerDead(c) /\ Return(c, TRUE)
  /\ UNCHANGED <<network, bench>>

DelayedReply(c) == call[c].at = "delayed" /\ Return(c, TRUE) /\ UNCHANGED <<network, bench>>

-----------------------------------------------------------------------------
(* The test goroutine.  What it enables or disables end by end is one step: *)
(* a call only looks at its own end.                                        *)
Bench == test = Idle /\ switches < MaxSwitch /\ switches' = switches + 1

Reliable(yes) ==
  /\ Bench /\ reliable' = yes
  /\ UNCHANGED <<longReordering, done, enabled, servers, names, saved, live, test, call>>

LongReordering(yes) ==
  /\ Bench /\ longReordering' = yes
  /\ UNCHANGED <<reliable, done, enabled, servers, names, saved, live, test, call>>

Cleanup ==
  /\ Bench /\ ~done /\ done' = TRUE
  /\ UNCHANGED <<reliable, longReordering, enabled, servers, names, saved, live, test, call>>

(* The enabled ends e once some of them are switched. *)
Enable(e, some, yes) == IF yes THEN e \cup some ELSE e \ some

(* The ends between server i and those of `to', by the names of now. *)
endnames(i, to) ==
  LET end(x, y) == Connect(x, Last(names[x]), y)
  IN  UNION {{end(i, j), end(j, i)} : j \in to}

connectUnlocked(e, i, to)      == Enable(e, endnames(i, to), TRUE)
disconnectUnlocked(e, i, from) == Enable(e, endnames(i, from), FALSE)

(* The tests connect and partition when every server is up. *)
AllUp == \A i \in Server : servers[i] # 0

ConnectAll ==
  /\ Bench /\ AllUp
  /\ enabled' = UNION {connectUnlocked(enabled, i, Server) : i \in Server}
  /\ UNCHANGED <<reliable, longReordering, done, servers, names, saved, live, test, call>>

partition(p1) ==
  LET p2 == Server \ p1
  IN  /\ Bench /\ AllUp /\ p1 \notin {{}, Server}
      /\ enabled' = {e \in (UNION {connectUnlocked(enabled, i, p1) : i \in p1})
                           \cup (UNION {connectUnlocked(enabled, i, p2) : i \in p2}) :
                        \A i \in p1 : e \in disconnectUnlocked({e}, i, p2)}
      /\ UNCHANGED <<reliable, longReordering, done, servers, names, saved, live, test, call>>

(* ConnectClient or DisconnectClient. *)
SwitchClient(k, to, on) ==
  LET own == {e \in makeClient(k) : e.to \in to}
  IN  /\ Bench /\ enabled' = Enable(enabled, own, on)
      /\ UNCHANGED <<reliable, longReordering, done, servers, names, saved, live, test, call>>

(* The servers as numbers 0 .. n-1: the first one that says it leads, and   *)
(* 0 as well when none does.                                                *)
Leader(leads) == IF leads = {} THEN 0 ELSE CHOOSE l \in leads : \A i \in leads : l <= i

(* Mutant of Majority: one server less. *)
HalfOf(n) == n \div 2

(* The length of p1. *)
Majority(n) == n \div 2 + 1

(* make_partition: p1 and then p2 are filled in order with those that do not *)
(* lead, and the leader is put at the end of p2; a place of p2 that nothing  *)
(* is written to holds 0.                                                    *)
make_partition(n, leads) ==
  LET l      == Leader(leads)
      others == [j \in 1 .. n - 1 |-> IF j <= l THEN j - 1 ELSE j]
      cut    == Majority(n)
  IN  <<{others[j] : j \in 1 .. cut},
        {IF j < n THEN others[j] ELSE 0 : j \in cut + 1 .. cut + n \div 2 - 1} \cup {l}>>

(* Mutant of ShutdownOrder: the persister is superseded first. *)
ShutdownCopyFirst == <<"disconnect", "copy", "delete", "kill">>

DeleteServer(i) == [servers EXCEPT ![i] = 0]

(* The steps of ShutdownServer. *)
ShutdownOrder == <<"disconnect", "delete", "copy", "kill">>

ShutdownServer(i) ==
  /\ test = Idle /\ live[i] # 0 /\ Len(names[i]) <= MaxStart
  /\ test' = [at |-> "shutdown", server |-> i, step |-> 1]
  /\ UNCHANGED <<network, names, saved, live, switches, call>>

ShutdownStep ==
  LET i    == test.server
      step == ShutdownOrder[test.step]
  IN  /\ test.at = "shutdown"
      /\ test' = IF test.step = Len(ShutdownOrder) THEN Idle ELSE [test EXCEPT !.step = @ + 1]
      /\ enabled' = IF step = "disconnect" THEN disconnectUnlocked(enabled, i, Server) ELSE enabled
      /\ servers' = IF step = "delete" THEN DeleteServer(i) ELSE servers
      /\ saved' = IF step = "copy" THEN [saved EXCEPT ![i] = Copy(@)] ELSE saved
      /\ live' = IF step = "kill" THEN [live EXCEPT ![i] = 0] ELSE live
      /\ UNCHANGED <<reliable, longReordering, done, names, switches, call>>

(* Mutant of FreshNames: the ends keep their names. *)
SameNames(i) == Append(names[i], Last(names[i]))

(* A fresh set of outgoing ClientEnd names. *)
FreshNames(i) == Append(names[i], Len(names[i]) + 1)

(* StartServer: names, persister and instance first, ... *)
StartServer(i) ==
  /\ test = Idle /\ live[i] = 0
  /\ names' = [names EXCEPT ![i] = FreshNames(i)]
  /\ saved' = [saved EXCEPT ![i] = Copy(@)]
  /\ live' = [live EXCEPT ![i] = Len(saved[i]) + 1]
  /\ test' = [at |-> "start", server |-> i]
  /\ UNCHANGED <<network, switches, call>>

(* ... then the server is added to the network. *)
AddServer ==
  /\ test.at = "start"
  /\ servers' = [servers EXCEPT ![test.server] = live[test.server]]
  /\ test' = Idle
  /\ UNCHANGED <<reliable, longReordering, done, enabled, names, saved, live, switches, call>>

Next ==
  \/ \E c \in DOMAIN Calls :
       \/ \E n \in Instances(Calls[c].from) : Call(c, n)
       \/ CallDone(c) \/ processReq(c) \/ dispatch(c) \/ AwaitReply(c) \/ Reply(c) \/ DelayedReply(c)
  \/ \E yes \in BOOLEAN : Reliable(yes) \/ LongReordering(yes)
  \/ Cleanup \/ ConnectAll
  \/ \E p \in SUBSET Server : partition(p)
  \/ \E c \in DOMAIN Calls, to \in SUBSET Server, on \in BOOLEAN :
       Calls[c].from \notin Server /\ SwitchClient(Calls[c].from, to, on)
  \/ \E i \in Server : ShutdownServer(i) \/ StartServer(i)
  \/ ShutdownStep \/ AddServer

Spec == Init /\ [][Next]_vars

-----------------------------------------------------------------------------
(* Properties *)

(* A call that returned true left its update in the persister that the      *)
(* server is or will be restarted with, although the handler may run while  *)
(* the server is shut down, and the reply may be delayed beyond its restart *)
(* (processReq, ShutdownServer).                                            *)
TrueIsDurable ==
  \A c \in DOMAIN Calls : call[c].at = "true" => c \in Last(saved[Calls[c].to])

(* What an instance sends after it was killed and replaced reaches nobody,  *)
(* whatever is connected later (StartServer, processReq).                   *)
ReplacedIsIsolated ==
  \A c \in DOMAIN Calls : call[c] # Idle /\ call[c].late => call[c].handler = "none"

NetworkTellsTruth == TrueIsDurable /\ ReplacedIsIsolated

(* Where make_partition found a leader, it is in the minority, and every    *)
(* server is in one part (make_partition; the tests partition five).        *)
LeaderInMinority(n, leads) ==
  LET p == make_partition(n, leads)
  IN  /\ p[1] \cup p[2] = 0 .. n - 1 /\ p[1] \cap p[2] = {}
      /\ 2 * Cardinality(p[2]) < n
      /\ leads # {} => \E l \in leads : l \in p[2]

-----------------------------------------------------------------------------
(* What the proofs need of every reachable state. *)
CallsAssumption == \A c \in DOMAIN Calls : Calls[c].to \in Server

Senders == {Calls[c].from : c \in DOMAIN Calls}
End     == [from : Server \cup Senders, gen : Nat, to : Server]
Sent    == [at : {"sent", "false"}, handler : {"none"}, late : BOOLEAN, end : End]
Served  == [at : {"waiting", "replying", "delayed", "true", "false"}, handler : {"running", "returned"},
            late : BOOLEAN, end : End,
            info : [enabled : BOOLEAN, server : Nat, reliable : BOOLEAN, longreordering : BOOLEAN]]

TypeOK ==
  /\ reliable \in BOOLEAN /\ longReordering \in BOOLEAN
  /\ enabled \subseteq End
  /\ servers \in [Server -> Nat] /\ live \in [Server -> Nat]
  /\ names \in [Server -> Seq(Nat)] /\ saved \in [Server -> Seq(SUBSET DOMAIN Calls)]
  /\ test \in {Idle} \cup [at : {"shutdown"}, server : Server, step : 1 .. 4]
               \cup [at : {"start"}, server : Server]
  /\ call \in [DOMAIN Calls -> {Idle} \cup Sent \cup Served]

(* An instance in the network is alive and has the last persister; names    *)
(* are never used again.                                                    *)
LastPersister ==
  \A i \in Server :
    /\ Len(saved[i]) > 0 /\ Len(names[i]) > 0 /\ \A k \in DOMAIN names[i] : names[i][k] = k
    /\ servers[i] # 0 => servers[i] = Len(saved[i]) /\ live[i] # 0
    /\ test.at = "start" /\ test.server = i => live[i] = Len(saved[i])
    /\ test.at = "shutdown" /\ test.server = i /\ test.step > 2 => servers[i] = 0

(* Only a server that lives sends by an enabled end, one of its last names. *)
EnabledAlive ==
  \A e \in enabled : e.from \in Server =>
    /\ live[e.from] # 0 /\ e.gen = Len(names[e.from])
    /\ test.at = "shutdown" /\ test.server = e.from => test.step = 1

(* A late call has an end that is not enabled and will not be.              *)
LateDisabled(c) ==
  call[c] # Idle /\ call[c].late =>
    LET e == call[c].end
    IN  /\ call[c].handler = "none" /\ e.from \in Server /\ e.gen <= Len(names[e.from])
        /\ live[e.from] # 0 => e.gen < Len(names[e.from])

(* What a handler has done is in the persister of its instance, and that    *)
(* was the last one when the reply was let through.                         *)
ReturnedSaved(c) ==
  call[c] # Idle =>
    LET to == Calls[c].to
    IN  /\ call[c].end.to = to
        /\ call[c].handler # "none" => call[c].info.server \in DOMAIN saved[to]
        /\ call[c].handler = "returned" => c \in saved[to][call[c].info.server]
        /\ call[c].at \in {"replying", "delayed", "true"} => call[c].handler = "returned"
        /\ call[c].at \in {"delayed", "true"} => c \in Last(saved[to])

NetInv ==
  /\ TypeOK /\ LastPersister /\ EnabledAlive
  /\ \A c \in DOMAIN Calls : LateDisabled(c) /\ ReturnedSaved(c)
=============================================================================
