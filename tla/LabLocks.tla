------------------------------- MODULE LabLocks -------------------------------
(***************************************************************************)
(* The two locks and the two kinds of channels between a Raft peer and the *)
(* key/value server on it (raft/raft.go, kvraft/server.go).  The peer      *)
(* sends on the unbuffered applyCh while it holds rf.mu; the goroutine     *)
(* that receives takes kv.mu and then sends on a channel of capacity one;  *)
(* the RPC handlers take rf.mu, then kv.mu, then wait on that channel.     *)
(* Here is who holds and who waits; what the entries do is in KVRaft.      *)
(***************************************************************************)
EXTENDS Integers, FiniteSets

CONSTANTS
  Handler,  \* the goroutines that run Get or PutAppend
  MaxIndex  \* bound: the log

VARIABLES
  rfMu, kvMu,    \* who holds rf.mu and kv.mu
  pc,            \* where each goroutine is
  index,         \* index[h]: what Start returned to handler h
  last,          \* the peer's last log index
  commitIndex, lastApplied,
  handed,        \* the CommandIndex of the message the apply goroutine works on
  chMap          \* chMap[i]: "none" before getChan(i), then "empty" or "full"

locks == <<rfMu, kvMu>>
peer  == <<last, commitIndex, lastApplied>>
vars  == <<locks, pc, index, peer, handed, chMap>>

Free  == "free"
Peer  == "peer"     \* the goroutine of the peer that moves commitIndex
Apply == "apply"    \* the apply goroutine of StartKVServer
Thread == Handler \cup {Peer, Apply}

(* The handlers are goroutines of their own; nobody is called "free".  What *)
(* the theorems ask of the constants.                                       *)
LocksAssumption ==
  /\ MaxIndex \in Nat /\ Handler \cap {Free, Peer, Apply} = {}

Init ==
  /\ rfMu = Free /\ kvMu = Free
  /\ pc = [t \in Thread |-> IF t = Apply THEN "receive" ELSE "idle"]
  /\ index = [h \in Handler |-> 0]
  /\ last = 0 /\ commitIndex = 0 /\ lastApplied = 0 /\ handed = 0
  /\ chMap = [i \in 1 .. MaxIndex |-> "none"]

Goto(t, label) == pc' = [pc EXCEPT ![t] = label]

-----------------------------------------------------------------------------
(* The peer *)

(* A handler or a reply moves commitIndex and goes into updateLastApplied   *)
(* with rf.mu held.                                                         *)
Commit ==
  /\ pc[Peer] = "idle" /\ rfMu = Free /\ commitIndex < last
  /\ commitIndex' \in commitIndex + 1 .. last
  /\ rfMu' = Peer /\ Goto(Peer, "send")
  /\ UNCHANGED <<kvMu, index, last, lastApplied, handed, chMap>>

(* Mutant of NextApplied: an entry may be sent a second time. *)
NextAppliedAgain == {lastApplied, lastApplied + 1} \ {0}

(* The entry the loop of updateLastApplied sends next. *)
NextApplied == {lastApplied + 1}

(* rf.applyCh <- applyMsg: the peer and the apply goroutine meet. *)
Send ==
  /\ pc[Peer] = "send" /\ pc[Apply] = "receive"
  /\ handed' \in NextApplied /\ lastApplied' = handed'
  /\ IF lastApplied' = commitIndex
     THEN rfMu' = Free /\ pc' = [pc EXCEPT ![Peer] = "idle", ![Apply] = "execute"]
     ELSE UNCHANGED rfMu /\ Goto(Apply, "execute")
  /\ UNCHANGED <<kvMu, index, last, commitIndex, chMap>>

(* AppendEntries of another leader: what is not committed is cut off, and   *)
(* the log grows.                                                           *)
AppendEntries ==
  /\ rfMu = Free
  /\ last' \in commitIndex .. MaxIndex
  /\ UNCHANGED <<locks, pc, index, commitIndex, lastApplied, handed, chMap>>

-----------------------------------------------------------------------------
(* The apply goroutine *)

Execute ==
  /\ pc[Apply] = "execute" /\ kvMu = Free
  /\ kvMu' = Apply /\ Goto(Apply, "unlock")
  /\ UNCHANGED <<rfMu, index, peer, handed, chMap>>

Unlock ==
  /\ pc[Apply] = "unlock"
  /\ kvMu' = Free /\ Goto(Apply, "getChan")
  /\ UNCHANGED <<rfMu, index, peer, handed, chMap>>

(* getChan(i), a critical section in which nobody waits. *)
getChan(i) ==
  /\ kvMu = Free
  /\ chMap' = [chMap EXCEPT ![i] = IF @ = "none" THEN "empty" ELSE @]

ApplyChan ==
  /\ pc[Apply] = "getChan" /\ getChan(handed) /\ Goto(Apply, "notify")
  /\ UNCHANGED <<locks, index, peer, handed>>

(* ch <- op *)
Notify ==
  /\ pc[Apply] = "notify" /\ chMap[handed] = "empty"
  /\ chMap' = [chMap EXCEPT ![handed] = "full"] /\ Goto(Apply, "receive")
  /\ UNCHANGED <<locks, index, peer, handed>>

-----------------------------------------------------------------------------
(* Get and PutAppend *)

(* GetState: not the leader, and the handler returns; or on to Start. *)
GetState(h) ==
  /\ pc[h] = "idle" /\ rfMu = Free
  /\ Goto(h, "start")
  /\ UNCHANGED <<locks, index, peer, handed, chMap>>

(* Mutant of BeforeStart: kv.mu is taken around Start. *)
BeforeStartLocked(h) == pc[h] = "start" /\ kvMu = Free /\ kvMu' = h

(* Start is called with no lock held. *)
BeforeStart(h) == pc[h] = "start" /\ UNCHANGED kvMu

CallStart(h) ==
  /\ BeforeStart(h) /\ Goto(h, "starting")
  /\ UNCHANGED <<rfMu, index, peer, handed, chMap>>

(* Start: refused by a peer that no longer leads, or the command is the     *)
(* last entry of the log.                                                   *)
Start(h) ==
  /\ pc[h] = "starting" /\ rfMu = Free
  /\ kvMu' = IF kvMu = h THEN Free ELSE kvMu
  /\ \/ Goto(h, "idle") /\ UNCHANGED <<index, last>>
     \/ /\ last < MaxIndex /\ last' = last + 1
        /\ index' = [index EXCEPT ![h] = last'] /\ Goto(h, "getChan")
  /\ UNCHANGED <<rfMu, commitIndex, lastApplied, handed, chMap>>

HandlerChan(h) ==
  /\ pc[h] = "getChan" /\ getChan(index[h]) /\ Goto(h, "wait")
  /\ UNCHANGED <<locks, index, peer, handed>>

(* replyNotify: the operation applied at the index, or a second is over.    *)
(* Get reads the map with kv.mu, PutAppend is done.                         *)
replyNotify(h) ==
  /\ pc[h] = "wait"
  /\ \/ chMap[index[h]] = "full" /\ chMap' = [chMap EXCEPT ![index[h]] = "empty"]
     \/ UNCHANGED chMap
  /\ Goto(h, "read") \/ Goto(h, "idle")
  /\ UNCHANGED <<locks, index, peer, handed>>

Read(h) ==
  /\ pc[h] = "read" /\ kvMu = Free
  /\ kvMu' = h /\ Goto(h, "return")
  /\ UNCHANGED <<rfMu, index, peer, handed, chMap>>

Return(h) ==
  /\ pc[h] = "return"
  /\ kvMu' = Free /\ Goto(h, "idle")
  /\ UNCHANGED <<rfMu, index, peer, handed, chMap>>

Next ==
  \/ Commit \/ Send \/ AppendEntries
  \/ Execute \/ Unlock \/ ApplyChan \/ Notify
  \/ \E h \in Handler : \/ GetState(h) \/ CallStart(h) \/ Start(h) \/ HandlerChan(h)
                        \/ replyNotify(h) \/ Read(h) \/ Return(h)

Spec == Init /\ [][Next]_vars

-----------------------------------------------------------------------------
(* Properties *)

(* Whom a goroutine that cannot go on waits for.  A handler in replyNotify  *)
(* waits for no one: its timer ends the wait.                               *)
WaitsFor(t) ==
  {u \in Thread :
     \/ t = Peer /\ pc[t] = "send" /\ pc[Apply] # "receive" /\ u = Apply
     \/ t # Peer /\ pc[t] \in {"execute", "getChan", "read"} /\ u = kvMu
     \/ t \in Handler /\ pc[t] \in {"idle", "starting"} /\ u = rfMu}

(* No circle of goroutines wait for each other, although the peer sends     *)
(* with rf.mu held (updateLastApplied) to a goroutine that needs kv.mu, and *)
(* handlers need both (Get, PutAppend).                                     *)
NoCircle ==
  ~\E S \in SUBSET Thread : S # {} /\ \A t \in S : WaitsFor(t) \cap S # {}

(* The apply goroutine never stands at a full channel, and with it the peer *)
(* that holds rf.mu: every index is handed over once, so that capacity one  *)
(* is enough although its handler may be gone (StartKVServer, getChan).     *)
ChannelHasRoom == pc[Apply] = "notify" => chMap[handed] = "empty"

(* A peer and its service never block each other, by locks, the unbuffered  *)
(* applyCh or the one place of a handler's channel.                         *)
LocksNeverBlock == NoCircle /\ ChannelHasRoom
=============================================================================
