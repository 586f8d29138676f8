-------------------------------- MODULE KVRaft --------------------------------
(***************************************************************************)
(* The key/value service of kvraft/server.go and its clerk kvraft/client.go*)
(* on top of Raft (raft/raft.go), which is reduced here to what the service*)
(* sees of it: several servers may believe they lead, Start hands out an   *)
(* index in the caller's own log, and applyCh delivers one chosen sequence *)
(* everywhere, as ReplicatedLog says.  LabRaft models that code in full.   *)
(*                                                                         *)
(* An RPC to a server that does not lead is one action; to one that leads  *)
(* it leaves a handler behind, blocked in replyNotify on the channel of    *)
(* its index.  The clerk may give the call up (labrpc returns false) while *)
(* that handler is still there.                                            *)
(***************************************************************************)
EXTENDS Integers, Sequences, FiniteSets

CONSTANTS
  Clerk,       \* the clients
  NServer,     \* number of servers
  Key, Value,  \* keys and values
  Script,      \* Script[c]: the operations clerk c issues, one after the other
  NoId,        \* the Id 0 that every Get carries
  MaxElect,    \* bound: leader changes
  MaxFail      \* bound: calls the network fails, and timeouts of a healthy leader

ASSUME ServersAssumption == NServer \in Nat \ {0}
ASSUME ClerksAssumption  == NoId \notin Clerk
ASSUME ScriptAssumption  ==
  Script \in [Clerk -> Seq([option : {"Get", "Put", "Append"}, key : Key, value : Value])]

Server == 0 .. NServer - 1

VARIABLES
  chosen, rlog, believes, ldr, elections,  \* Raft, as the service sees it
  db, Seq_, chMap, lastApplied,            \* a KVServer
  handlers,                                \* RPC handlers blocked in replyNotify
  pc, leaderId, id, seq, args, calling,    \* a Clerk
  fails,
  effects, acked, must, reads              \* history

raft   == <<chosen, rlog, believes, ldr, elections>>
server == <<db, Seq_, chMap, lastApplied>>
clerk  == <<pc, leaderId, id, seq, args, calling>>
hist   == <<effects, acked, must, reads>>
vars   == <<raft, server, handlers, clerk, fails, hist>>

IsPrefix(a, b) == Len(a) <= Len(b) /\ SubSeq(b, 1, Len(a)) = a
Done(c) == pc[c] > Len(Script[c])

EmptyOp == [option |-> "", key |-> "", value |-> "", id |-> NoId, seq |-> 0]

(* The Op that the next call of clerk c puts into the log. *)
OpOf(c) ==
  LET o == Script[c][pc[c]] IN
  IF o.option = "Get"
  THEN [option |-> "Get", key |-> o.key, value |-> "", id |-> NoId, seq |-> 0]
  ELSE [option |-> o.option, key |-> o.key, value |-> o.value, id |-> c, seq |-> seq[c]]

Init ==
  /\ chosen = << >> /\ rlog = [s \in Server |-> << >>]
  /\ believes = [s \in Server |-> s = 0] /\ ldr = 0 /\ elections = 0
  /\ db = [s \in Server |-> [k \in Key |-> << >>]]
  /\ Seq_ = [s \in Server |-> [i \in Clerk \cup {NoId} |-> -1]]
  /\ chMap = [s \in Server |-> << >>]
  /\ lastApplied = [s \in Server |-> 0]
  /\ handlers = {}
  /\ pc = [c \in Clerk |-> 1] /\ leaderId = [c \in Clerk |-> 0]
  /\ id = [c \in Clerk |-> 0] /\ seq = [c \in Clerk |-> 0]
  /\ args = [c \in Clerk |-> EmptyOp] /\ calling = [c \in Clerk |-> "idle"]
  /\ fails = 0
  /\ effects = [s \in Server |-> << >>] /\ acked = {}
  /\ must = [c \in Clerk |-> {}] /\ reads = {}

-----------------------------------------------------------------------------
(* Raft: beLeader, AppendEntries and updateCommitIndex, in outline. *)

(* A new leader holds what is chosen; the old one does not know yet. *)
Elect(s) ==
  /\ elections < MaxElect /\ s # ldr
  /\ elections' = elections + 1
  /\ ldr' = s
  /\ believes' = [believes EXCEPT ![s] = TRUE]
  /\ rlog' = [rlog EXCEPT ![s] = IF IsPrefix(chosen, @) THEN @ ELSE chosen]
  /\ UNCHANGED <<chosen, server, handlers, clerk, fails, hist>>

(* A server takes over the leader's log, and steps down if it led. *)
CatchUp(s) ==
  /\ s # ldr /\ (believes[s] \/ rlog[s] # rlog[ldr])
  /\ believes' = [believes EXCEPT ![s] = FALSE]
  /\ rlog' = [rlog EXCEPT ![s] = rlog[ldr]]
  /\ UNCHANGED <<chosen, ldr, elections, server, handlers, clerk, fails, hist>>

Choose ==
  /\ Len(chosen) < Len(rlog[ldr])
  /\ chosen' = Append(chosen, rlog[ldr][Len(chosen) + 1])
  /\ UNCHANGED <<rlog, believes, ldr, elections, server, handlers, clerk, fails, hist>>

-----------------------------------------------------------------------------
(* The clerk. *)

(* Get or PutAppend is called: the arguments are fixed, seq moves on. *)
Begin(c) ==
  /\ calling[c] = "idle" /\ ~Done(c)
  /\ calling' = [calling EXCEPT ![c] = "try"]
  /\ args' = [args EXCEPT ![c] = OpOf(c)]
  /\ seq' = [seq EXCEPT ![c] = IF OpOf(c).option = "Get" THEN @ ELSE @ + 1]
  /\ id' = [id EXCEPT ![c] = leaderId[c]]
  /\ must' = [must EXCEPT ![c] = acked]
  /\ UNCHANGED <<raft, server, handlers, pc, leaderId, fails, effects, acked, reads>>

(* Mutant of NextServer: the index runs past the last server. *)
NextServerNoWrap(c) == id' = [id EXCEPT ![c] = @ + 1]

(* Mutant of NextServer: the clerk stays with the server it tried. *)
SameServer(c) == id' = id

NextServer(c) == id' = [id EXCEPT ![c] = (@ + 1) % NServer]

(* The RPC reaches a server that does not lead: IsLeader is false. *)
CallRefused(c) ==
  /\ calling[c] = "try" /\ ~believes[id[c]]
  /\ NextServer(c)
  /\ UNCHANGED <<raft, server, handlers, pc, leaderId, seq, args, calling, fails, hist>>

(* The RPC reaches a server that leads: Start, then wait on the index. *)
CallStarted(c) ==
  LET s == id[c] IN
  /\ calling[c] = "try" /\ believes[s]
  /\ rlog' = [rlog EXCEPT ![s] = Append(@, args[c])]
  /\ handlers' = handlers \cup {[clerk |-> c, srv |-> s, idx |-> Len(rlog[s]) + 1,
                                 op |-> args[c], live |-> TRUE, phase |-> "wait"]}
  /\ calling' = [calling EXCEPT ![c] = "wait"]
  /\ UNCHANGED <<chosen, believes, ldr, elections, server, pc, leaderId, id, seq, args, fails, hist>>

(* Call returns false: the request was lost, or the reply will be. *)
CallFailed(c) ==
  /\ calling[c] \in {"try", "wait"} /\ fails < MaxFail
  /\ fails' = fails + 1
  /\ NextServer(c)
  /\ calling' = [calling EXCEPT ![c] = "try"]
  /\ handlers' = {IF h.clerk = c THEN [h EXCEPT !.live = FALSE] ELSE h : h \in handlers}
  /\ UNCHANGED <<raft, server, pc, leaderId, seq, args, hist>>

-----------------------------------------------------------------------------
(* The server. *)

(* The reply of handler h: ok tells whether IsLeader is set.  The clerk     *)
(* hears of it only if it has not given the call up.                        *)
Reply(h, ok, rest) ==
  LET c == h.clerk IN
  /\ handlers' = rest
  /\ IF ~h.live
     THEN UNCHANGED <<clerk, acked, reads>>
     ELSE /\ calling' = [calling EXCEPT ![c] = IF ok THEN "idle" ELSE "try"]
          /\ pc' = [pc EXCEPT ![c] = IF ok THEN @ + 1 ELSE @]
          /\ leaderId' = [leaderId EXCEPT ![c] = IF ok THEN id[c] ELSE @]
          /\ acked' = IF ok /\ h.op.option # "Get" THEN acked \cup {h.op} ELSE acked
          /\ reads' = IF ok /\ h.op.option = "Get"
                      THEN reads \cup {[must |-> must[c],
                                        got |-> {effects[h.srv][i] : i \in DOMAIN effects[h.srv]}]}
                      ELSE reads
          /\ IF ok THEN UNCHANGED id ELSE NextServer(c)
          /\ UNCHANGED <<seq, args>>

(* What a handler accepts as its own operation. *)
equal(a, b) == a.option = b.option /\ a.key = b.key /\ a.value = b.value

(* Mutant of Accepts: any op on the same key is taken for the handler's own. *)
AcceptsKey(h, op) == h.op.key = op.key

Accepts(h, op) == IF h.op.option = "Get" THEN h.op.key = op.key ELSE equal(h.op, op)

(* replyNotify receives the op that was applied at the index. *)
Notified(h) ==
  LET box == chMap[h.srv][h.idx] IN
  /\ h.phase = "wait" /\ h.idx <= Len(chMap[h.srv]) /\ box # << >>
  /\ chMap' = [chMap EXCEPT ![h.srv][h.idx] = << >>]
  /\ IF h.op.option = "Get" /\ Accepts(h, box[1])
     THEN /\ handlers' = (handlers \ {h}) \cup {[h EXCEPT !.phase = "read"]}
          /\ UNCHANGED <<clerk, acked, reads>>
     ELSE Reply(h, Accepts(h, box[1]), handlers \ {h})
  /\ UNCHANGED <<raft, db, Seq_, lastApplied, fails, effects, must>>

(* Get reads the map after it was notified, under kv.mu taken anew. *)
ReadValue(h) ==
  /\ h.phase = "read"
  /\ Reply(h, TRUE, handlers \ {h})
  /\ UNCHANGED <<raft, server, fails, effects, must>>

(* time.After(time.Second) in replyNotify: the empty Op matches nothing.    *)
(* Timeouts while a leader is in place and the index is still to come are   *)
(* bounded; a handler nothing will ever reach times out freely.             *)
Hopeless(h) ==
  h.srv # ldr \/ (lastApplied[h.srv] >= h.idx /\ chMap[h.srv][h.idx] = << >>)

Timeout(h) ==
  /\ h.phase = "wait"
  /\ Hopeless(h) \/ fails < MaxFail
  /\ fails' = IF Hopeless(h) THEN fails ELSE fails + 1
  /\ Reply(h, FALSE, handlers \ {h})
  /\ UNCHANGED <<raft, server, effects, must>>

(* Mutant of Fresh: a repeated sequence number passes. *)
FreshOrEqual(s, op) == Seq_[s][op.id] <= op.seq

(* Duplicate detection: has this clerk's operation been executed already? *)
Fresh(s, op) == Seq_[s][op.id] < op.seq

(* One iteration of the apply goroutine of StartKVServer. *)
Apply(s) ==
  LET i  == lastApplied[s] + 1
      op == chosen[i]
  IN  /\ i <= Len(chosen) /\ IsPrefix(SubSeq(chosen, 1, i), rlog[s])
      /\ lastApplied' = [lastApplied EXCEPT ![s] = i]
      /\ IF Fresh(s, op)
         THEN /\ db' = [db EXCEPT ![s][op.key] =
                          CASE op.option = "Append" -> Append(@, op.value)
                            [] op.option = "Put"    -> << op.value >>
                            [] OTHER                -> @]
              /\ Seq_' = [Seq_ EXCEPT ![s][op.id] = op.seq]
              /\ effects' = IF op.option = "Get" THEN effects
                            ELSE [effects EXCEPT ![s] = Append(@, <<op.id, op.seq>>)]
         ELSE UNCHANGED <<db, Seq_, effects>>
      /\ chMap' = [chMap EXCEPT ![s] = Append(@, <<op>>)]
      /\ UNCHANGED <<raft, handlers, clerk, fails, acked, must, reads>>

-----------------------------------------------------------------------------
Next ==
  \/ \E s \in Server : Elect(s) \/ CatchUp(s) \/ Apply(s)
  \/ Choose
  \/ \E c \in Clerk : Begin(c) \/ CallRefused(c) \/ CallStarted(c) \/ CallFailed(c)
  \/ \E h \in handlers : Notified(h) \/ ReadValue(h) \/ Timeout(h)

Spec == Init /\ [][Next]_vars

(* Goroutines run, the network delivers once its failures are used up, and  *)
(* the last leader elected replicates.  Elections and failures need not     *)
(* happen.                                                                  *)
Fairness ==
  /\ WF_vars(Choose)
  /\ \A s \in Server : WF_vars(CatchUp(s)) /\ WF_vars(Apply(s))
  /\ \A c \in Clerk : WF_vars(Begin(c)) /\ WF_vars(CallRefused(c)) /\ WF_vars(CallStarted(c))
  /\ WF_vars(\E h \in handlers : Notified(h))
  /\ WF_vars(\E h \in handlers : ReadValue(h))
  /\ WF_vars(\E h \in handlers : Hopeless(h) /\ Timeout(h))

FairSpec == Spec /\ Fairness

-----------------------------------------------------------------------------
(* Properties. *)

Id == Clerk \cup {NoId}
Op == [option : {"", "Get", "Put", "Append"}, key : Key \cup {""}, value : Value \cup {""},
       id : Id, seq : Nat]

Handler == [clerk : Clerk, srv : Server, idx : Nat \ {0}, op : Op, live : BOOLEAN,
            phase : {"wait", "read"}]

(* Shape of the state. *)
TypeOK ==
  /\ chosen \in Seq(Op) /\ rlog \in [Server -> Seq(Op)]
  /\ ldr \in Server /\ believes \in [Server -> BOOLEAN]
  /\ lastApplied \in [Server -> Nat]
  /\ Seq_ \in [Server -> [Id -> Int]]
  /\ effects \in [Server -> Seq(Id \X Nat)]
  /\ seq \in [Clerk -> Nat] /\ args \in [Clerk -> Op] /\ pc \in [Clerk -> Nat \ {0}]
  /\ id \in [Clerk -> Server] /\ leaderId \in [Clerk -> Server]
  /\ handlers \subseteq Handler

(* What duplicate detection rests on: a server remembers, for every clerk,  *)
(* a sequence number no smaller than that of any operation it executed.     *)
SeqCoversEffects ==
  \A s \in Server : \A i \in 1 .. Len(effects[s]) :
    effects[s][i][2] <= Seq_[s][effects[s][i][1]]

(* Exactly once (the Seq check of the apply goroutine; test_test.go:        *)
(* "duplicate element"): however often a clerk retries, no server executes  *)
(* one of its operations twice, and it executes them in the order issued    *)
(* ("wrong order for element").                                             *)
ExecutedOnceInOrder ==
  \A s \in Server : \A i, j \in 1 .. Len(effects[s]) :
    i < j /\ effects[s][i][1] = effects[s][j][1] => effects[s][i][2] < effects[s][j][2]

IsWrite(x) == x.option \in {"Put", "Append"}

(* No other operation of the scripts is equal to x: equal ops are retries.  *)
Unequalled(x) ==
  \A c, d \in Clerk : \A p \in 1 .. Len(Script[c]) : \A q \in 1 .. Len(Script[d]) :
    equal(Script[c][p], x) /\ equal(Script[d][q], x) => c = d /\ p = q

(* What an acknowledged write means (PutAppend's comparison of the applied  *)
(* op with its own; test_test.go: "missing element"): the replicated log    *)
(* holds a write like it, which is the write itself, and not another        *)
(* clerk's that equal takes for it, if the scripts have only one such.      *)
AckedIsChosen ==
  \A a \in acked : \E i \in 1 .. Len(chosen) :
    equal(a, chosen[i]) /\ (Unequalled(a) => chosen[i] = a)

(* Reads are fresh (Get; test_test.go: "history is not linearizable"): the  *)
(* value a Get returns reflects every write acknowledged before the Get was *)
(* called.                                                                  *)
ReadsFresh ==
  \A r \in reads : {<<op.id, op.seq>> : op \in r.must} \subseteq r.got

(* Every call returns once elections and network failures stop ("keeps      *)
(* trying forever in the face of all other errors").                        *)
CallsReturn == <>(\A c \in Clerk : Done(c))
=============================================================================
