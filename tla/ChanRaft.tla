------------------------------ MODULE ChanRaft -------------------------------
(***************************************************************************)
(* The election program of 22051139/raft: servers that vote and send       *)
(* heartbeats over net/rpc, with one main goroutine each and handlers that *)
(* hand over to it through unbuffered channels.                            *)
(*                                                                         *)
(* Nothing is locked, so every access to a shared field is a step of its   *)
(* own.  A handler parked at a channel is a call that stays where it is    *)
(* until the main goroutine receives; that the main goroutine did not see  *)
(* it is the case in which it was not parked yet.  Replies travel by gob,  *)
(* which leaves false out: see RequestVote.                                *)
(***************************************************************************)
EXTENDS Integers, FiniteSets

CONSTANTS
  Server,     \* the IDs
  StartState, \* the flag -state of each server
  MaxStand,   \* bound: elections a server starts
  MaxBeat,    \* bound: rounds of heartbeats a server sends
  MaxCrash    \* bound: processes that are stopped from outside

VARIABLES
  srv,        \* the fields of struct Server that change
  loop,       \* i of StartElection's loop while the main goroutine is in it, else NotWaiting
  calls,      \* the RequestVote goroutines
  beats,      \* the SendHeartbeatRequest goroutines
  down        \* the processes that ended

vars == <<srv, loop, calls, beats, down>>

NoVote     == "-1"
NotWaiting == -1

(* The servers of main.go have the IDs 0 to 4: -1 is none of them. *)
ServersAssumption == NoVote \notin Server

(* TotalVotes and AliveServers as the sets of the IDs that are true;        *)
(* stood and beaten only count for the bounds.                              *)
CreateServer(state) ==
  [State |-> state, Voted |-> NoVote, TotalVotes |-> {}, AliveServers |-> Server,
   NumAliveServers |-> Cardinality(Server), stood |-> 0, beaten |-> 0]

Init ==
  /\ srv = [s \in Server |-> CreateServer(StartState[s])]
  /\ loop = [s \in Server |-> NotWaiting]
  /\ calls = {} /\ beats = {} /\ down = {}

(* The main goroutine of s is at the top of Run's loop, in this state. *)
Runs(s, state) == s \notin down /\ loop[s] = NotWaiting /\ srv[s].State = state

(* The Elect handlers of s that wait at VoteRequested. *)
Parked(s) == {c \in calls : c.dst = s /\ c.at = "parked"}
Move(set, x, at) == (set \ {x}) \cup {[x EXCEPT !.at = at]}

-----------------------------------------------------------------------------
(* RandomTimeout: a heartbeat or a vote in time ... *)
Stay(s) ==
  /\ Runs(s, "Follower")
  /\ \/ \E b \in beats : b.dst = s /\ b.at = "parked" /\ beats' = beats \ {b} /\ UNCHANGED calls
     \/ \E c \in Parked(s) : calls' = Move(calls, c, "answered") /\ UNCHANGED beats
  /\ UNCHANGED <<srv, loop, down>>

(* ... or none that it polled. *)
RandomTimeout(s) ==
  /\ Runs(s, "Follower") /\ srv[s].stood < MaxStand
  /\ srv' = [srv EXCEPT ![s].State = "Candidate"]
  /\ UNCHANGED <<loop, calls, beats, down>>

(* A candidate that sees a vote request goes back, with Voted as it is. *)
Withdraw(s) ==
  /\ Runs(s, "Candidate")
  /\ \E c \in Parked(s) : calls' = Move(calls, c, "answered")
  /\ srv' = [srv EXCEPT ![s].State = "Follower"]
  /\ UNCHANGED <<loop, beats, down>>

(* Mutant of Standing: who stands may still vote. *)
StandingOpen(p, s) == [p EXCEPT !.TotalVotes = @ \cup {s}, !.stood = @ + 1]

(* StartElection up to its loop; a goroutine per server held for alive.     *)
Standing(p, s) == [p EXCEPT !.Voted = s, !.TotalVotes = @ \cup {s}, !.stood = @ + 1]

StartElection(s) ==
  /\ Runs(s, "Candidate") /\ srv[s].stood < MaxStand
  /\ srv' = [srv EXCEPT ![s] = Standing(@, s)]
  /\ calls' = calls \cup
       {[src |-> s, dst |-> d, round |-> srv[s].stood, at |-> "dial"] : d \in srv[s].AliveServers \ {s}}
  /\ loop' = [loop EXCEPT ![s] = IF srv[s].NumAliveServers > 0 THEN 0 ELSE NotWaiting]
  /\ UNCHANGED <<beats, down>>

CheckVotes(p) == Cardinality(p.TotalVotes)
Won(p) == CheckVotes(p) > p.NumAliveServers \div 2

(* The loop of StartElection receives a vote. *)
VoteReceived(s) ==
  /\ s \notin down /\ loop[s] # NotWaiting
  /\ \E c \in calls : c.src = s /\ c.at = "voted" /\ calls' = calls \ {c}
  /\ IF Won(srv[s])
     THEN /\ srv' = [srv EXCEPT ![s].State = "Leader"]
          /\ loop' = [loop EXCEPT ![s] = NotWaiting]
     ELSE /\ loop' = [loop EXCEPT ![s] = IF @ + 1 < srv[s].NumAliveServers THEN @ + 1 ELSE NotWaiting]
          /\ UNCHANGED srv
  /\ UNCHANGED <<beats, down>>

(* A leader that receives a vote request surrenders. *)
Surrender(s) ==
  /\ Runs(s, "Leader")
  /\ \E c \in Parked(s) : calls' = Move(calls, c, "answered")
  /\ srv' = [srv EXCEPT ![s].Voted = NoVote, ![s].TotalVotes = {}, ![s].State = "Follower"]
  /\ UNCHANGED <<loop, beats, down>>

SendHeartbeats(s) ==
  /\ Runs(s, "Leader") /\ srv[s].beaten < MaxBeat
  /\ beats' = beats \cup
       {[src |-> s, dst |-> d, round |-> srv[s].beaten, at |-> "go", num |-> 0, status |-> {}] : d \in Server \ {s}}
  /\ srv' = [srv EXCEPT ![s].beaten = @ + 1]
  /\ UNCHANGED <<loop, calls, down>>

-----------------------------------------------------------------------------
(* Mutant of CanVote: Elect does not look whether it voted. *)
VotesAgain(p) == p.Voted # "none"

(* RequestVote: the call arrives, and Elect decides by Voted, which it does *)
(* not set.  Of a server that has ended, dialling fails, or the call if     *)
(* that was dialled before.                                                 *)
CanVote(p) == p.Voted = NoVote

Elect(c) ==
  /\ c.at = "dial"
  /\ IF c.dst \in down THEN calls' = calls \ {c} \/ calls' = Move(calls, c, "error")
     ELSE calls' = Move(calls, c, IF CanVote(srv[c.dst]) THEN "parked" ELSE "answered")
  /\ UNCHANGED <<srv, loop, beats, down>>

(* The reply is decoded into a Message whose Vote is true already, and gob  *)
(* does not send a false: reply.Vote is true whatever Elect answered.       *)
RequestVote(c) ==
  /\ c.at = "answered"
  /\ srv' = [srv EXCEPT ![c.src].TotalVotes = @ \cup {c.dst}]
  /\ calls' = Move(calls, c, "voted")
  /\ UNCHANGED <<loop, beats, down>>

(* SendHeartbeatRequest: the number is copied, the statuses are shared with *)
(* the server until the call is encoded.                                    *)
Encode(b) ==
  /\ b.at = "go"
  /\ beats' = (beats \ {b}) \cup {[b EXCEPT !.at = "dial", !.num = srv[b.src].NumAliveServers,
                                         !.status = srv[b.src].AliveServers]}
  /\ UNCHANGED <<srv, loop, calls, down>>

(* Heartbeat, to its end at s.Hb. *)
Heartbeat(b) ==
  /\ b.at = "dial" /\ b.dst \notin down
  /\ beats' = Move(beats, b, "parked")
  /\ IF b.num = srv[b.dst].NumAliveServers THEN UNCHANGED srv
     ELSE \E status \in {b.status, srv[b.src].AliveServers} :
            srv' = [srv EXCEPT ![b.dst].NumAliveServers = b.num, ![b.dst].AliveServers = status]
  /\ UNCHANGED <<loop, calls, down>>

(* Nobody answers: it has looked at AliveServers ... *)
NoResponse(b) ==
  /\ b.at = "dial" /\ b.dst \in down
  /\ beats' = IF b.dst \notin srv[b.src].AliveServers THEN beats \ {b}
              ELSE (beats \ {b}) \cup {[b EXCEPT !.at = "flag", !.num = srv[b.src].NumAliveServers]}
  /\ UNCHANGED <<srv, loop, calls, down>>

(* ... and counts down the number of then or, a goroutine later, of now.    *)
GiveUp(b) ==
  /\ b.at = "flag" /\ beats' = beats \ {b}
  /\ \E n \in {b.num, srv[b.src].NumAliveServers} :
       srv' = [srv EXCEPT ![b.src].AliveServers = @ \ {b.dst}, ![b.src].NumAliveServers = n - 1]
  /\ UNCHANGED <<loop, calls, down>>

-----------------------------------------------------------------------------
(* A process ends: its goroutines are gone, and the calls whose handlers it *)
(* ran, or whose answers are not out yet, end with an error, which a        *)
(* heartbeat logs ...                                                       *)
Ends(s) ==
  /\ down' = down \cup {s}
  /\ \E unsent \in SUBSET {c \in calls : c.dst = s /\ c.at = "answered"} :
       calls' = {IF c \in unsent \cup Parked(s) THEN [c EXCEPT !.at = "error"] ELSE c :
                   c \in {x \in calls : x.src # s}}
  /\ beats' = {b \in beats : b.src # s /\ (b.dst = s => b.at # "parked")}
  /\ loop' = [loop EXCEPT ![s] = NotWaiting]
  /\ UNCHANGED srv

Crash(s) == s \notin down /\ Cardinality(down) < MaxCrash /\ Ends(s)

(* ... and RequestVote takes for fatal. *)
Fatal(c) == c.at = "error" /\ Ends(c.src)

Next ==
  \/ \E s \in Server :
       \/ Stay(s) \/ RandomTimeout(s) \/ Withdraw(s) \/ StartElection(s) \/ VoteReceived(s)
       \/ Surrender(s) \/ SendHeartbeats(s) \/ Crash(s)
  \/ \E c \in calls : Elect(c) \/ RequestVote(c) \/ Fatal(c)
  \/ \E b \in beats : Encode(b) \/ Heartbeat(b) \/ NoResponse(b) \/ GiveUp(b)

Spec == Init /\ [][Next]_vars

-----------------------------------------------------------------------------
(* server.go, Run and candidate.go, StartElection: no servers wait in a     *)
(* circle, each in StartElection for a vote handler parked at the next one, *)
(* which only that one's main goroutine could release.  (StartElection may  *)
(* still wait for ever, for votes that do not come.)                        *)
Waits(s, d) ==
  /\ loop[s] # NotWaiting /\ loop[d] # NotWaiting
  /\ \E c \in Parked(d) : c.src = s /\ c.round = srv[s].stood - 1
NoCircularWait ==
  \A circle \in (SUBSET Server) \ {{}} : \E s \in circle : \A d \in circle : ~Waits(s, d)

(* server.go, Run: an elected leader at which no vote request is parked     *)
(* stays leader, and none is parked any more: what unseats it is a request  *)
(* that Elect let through before it stood, not an election that starts      *)
(* later nor the heartbeat of another leader.                               *)
LeaderKeeps ==
  \A s \in Server \ down :
    srv[s].State = "Leader" /\ srv[s].Voted = s /\ Parked(s) = {} /\ s \notin down'
      => srv'[s].State = "Leader" /\ Parked(s)' = {}
=============================================================================
