------------------------------ MODULE OthersProofs ----------------------------
(***************************************************************************)
(* The programs of MCOthers.  Locks (LabLocks), for any number of handlers *)
(* and any log: no goroutines of a peer and its key/value server wait for  *)
(* each other in a circle, and the apply goroutine always finds room in    *)
(* the channel of an index.  Network (LabRPC), for any servers, calls,     *)
(* restarts and switches: a true answer means a durable update, and an     *)
(* instance that was replaced reaches nobody.  Proof of work (PowMiners),  *)
(* for two miners and chains of any length: one chain as long as no blocks *)
(* cross.  Python blockchain (PyChain), for any nodes and requests: a      *)
(* chain that is taken over is valid, and longer than the one it replaces  *)
(* unless that one changed meanwhile or the neighbour's did.               *)
(* Bitcoin demo (BitcoinDemo), for any wallets, payments and mining times: *)
(* no wallet knows a spent output, and the blocks are linked.  Raft with   *)
(* files (FileRaft), of MCOtherRaft, for any servers and crashes: one      *)
(* leader a term, every snapshot recoverable, every index in order.        *)
(* Elections over channels (ChanRaft), of MCOtherRaft, for any servers:    *)
(* candidates never wait for each other in a circle, and a leader gives up *)
(* only for a request that was let through before.                         *)
(***************************************************************************)
EXTENDS LabLocks, Sequences, TLAPS, FiniteSetTheorems, SequenceTheorems, WellFoundedInduction

Label == {"idle", "send", "receive", "execute", "unlock", "getChan", "notify",
          "start", "starting", "wait", "read", "return"}
Indices == 1 .. MaxIndex

LocksTypeOK ==
  /\ rfMu \in Thread \cup {Free} /\ kvMu \in Thread \cup {Free}
  /\ pc \in [Thread -> Label]
  /\ index \in [Handler -> 0 .. MaxIndex]
  /\ last \in 0 .. MaxIndex /\ commitIndex \in Nat /\ lastApplied \in Nat
  /\ chMap \in [Indices -> {"none", "empty", "full"}]
  /\ \A h \in Handler : pc[h] \in {"getChan", "wait"} => index[h] \in Indices

(* Who holds a lock is at one place: the peer at its send, the others where *)
(* nothing stops them.                                                      *)
Holders ==
  /\ rfMu \in {Free, Peer} /\ (rfMu = Peer <=> pc[Peer] = "send")
  /\ kvMu # Peer /\ (kvMu = Apply => pc[Apply] = "unlock")
  /\ \A h \in Handler : kvMu = h => pc[h] = "return"

(* The peer sends every entry up to commitIndex once. *)
SentOnce ==
  /\ handed = lastApplied /\ lastApplied <= commitIndex /\ commitIndex <= last
  /\ pc[Peer] = "send" => lastApplied < commitIndex
  /\ pc[Apply] # "receive" => handed \in Indices

(* No channel past what was handed over is full. *)
RoomAhead ==
  /\ \A i \in Indices : i > lastApplied => chMap[i] # "full"
  /\ pc[Apply] \in {"execute", "unlock", "getChan"} => chMap[handed] # "full"
  /\ pc[Apply] = "notify" => chMap[handed] = "empty"

LocksInv == LocksTypeOK /\ Holders /\ SentOnce /\ RoomAhead

-----------------------------------------------------------------------------
(* The threads are different from one another and from nobody. *)
LEMMA ThreadsDiffer ==
  ASSUME LocksAssumption
  PROVE  /\ Peer \in Thread /\ Apply \in Thread /\ Peer # Apply /\ Free \notin Thread
         /\ \A h \in Handler : h \in Thread /\ h # Peer /\ h # Apply /\ h # Free
BY DEF LocksAssumption, Thread, Peer, Apply, Free

(* What Goto does. *)
LEMMA GotoMoves ==
  ASSUME pc \in [Thread -> Label], NEW t \in Thread, NEW label \in Label, Goto(t, label)
  PROVE  /\ pc' \in [Thread -> Label] /\ pc'[t] = label
         /\ \A u \in Thread \ {t} : pc'[u] = pc[u]
BY DEF Goto

(* At the start every lock is free and every channel missing. *)
LEMMA LocksInit ==
  ASSUME LocksAssumption, Init
  PROVE  LocksInv
<1>1. LocksTypeOK
  BY ThreadsDiffer DEF Init, LocksTypeOK, Label, Indices, LocksAssumption
<1>2. Holders /\ SentOnce /\ RoomAhead
  BY ThreadsDiffer DEF Init, Holders, SentOnce, RoomAhead, LocksAssumption, Indices, Peer, Apply, Free
<1> QED
  BY <1>1, <1>2 DEF LocksInv

(* The peer's steps. *)
LEMMA CommitStep ==
  ASSUME LocksAssumption, LocksInv, Commit
  PROVE  LocksInv'
<1>1. /\ pc' \in [Thread -> Label] /\ pc'[Peer] = "send" /\ \A u \in Thread \ {Peer} : pc'[u] = pc[u]
  BY ThreadsDiffer, GotoMoves DEF LocksInv, LocksTypeOK, Commit, Label
<1>2. LocksTypeOK'
  BY <1>1, ThreadsDiffer DEF LocksInv, LocksTypeOK, Commit
<1>3. Holders' 
  BY <1>1, ThreadsDiffer DEF LocksInv, Holders, Commit
<1>4. SentOnce'
  BY <1>1, ThreadsDiffer DEF LocksInv, LocksTypeOK, SentOnce, Commit
<1>5. RoomAhead'
  BY <1>1, ThreadsDiffer DEF LocksInv, RoomAhead, Commit
<1> QED
  BY <1>2, <1>3, <1>4, <1>5 DEF LocksInv

(* The peer sends on applyCh under its lock. *)
LEMMA SendStep ==
  ASSUME LocksAssumption, LocksInv, Send
  PROVE  LocksInv'
<1>1. handed' = lastApplied + 1 /\ lastApplied' = handed' /\ pc[Peer] = "send" /\ pc[Apply] = "receive"
  BY DEF Send, NextApplied
<1>2. /\ pc' \in [Thread -> Label] /\ pc'[Apply] = "execute"
      /\ \A u \in Thread \ {Peer, Apply} : pc'[u] = pc[u]
      /\ \/ lastApplied' = commitIndex /\ rfMu' = Free /\ pc'[Peer] = "idle"
         \/ lastApplied' # commitIndex /\ rfMu' = rfMu /\ pc'[Peer] = "send"
  <2>1. CASE lastApplied' = commitIndex
    BY <2>1, ThreadsDiffer DEF Send, LocksInv, LocksTypeOK, Label
  <2>2. CASE lastApplied' # commitIndex
    BY <1>1, <2>2, ThreadsDiffer, GotoMoves DEF Send, LocksInv, LocksTypeOK, Label
  <2> QED
    BY <2>1, <2>2
<1>3. UNCHANGED <<kvMu, index, last, commitIndex, chMap>>
  BY DEF Send
<1>4. lastApplied \in Nat /\ lastApplied < commitIndex /\ commitIndex \in Nat /\ last \in Nat /\ last <= MaxIndex
      /\ commitIndex <= last /\ MaxIndex \in Nat
  BY <1>1 DEF LocksInv, LocksTypeOK, SentOnce, LocksAssumption
<1>5. LocksTypeOK'
  BY <1>1, <1>2, <1>3, <1>4, ThreadsDiffer DEF LocksInv, LocksTypeOK
<1>6. Holders'
  BY <1>1, <1>2, <1>3, ThreadsDiffer DEF LocksInv, Holders, Free, Peer
<1>7. SentOnce'
  BY <1>1, <1>2, <1>3, <1>4 DEF SentOnce, Indices
<1>8. RoomAhead'
  BY <1>1, <1>2, <1>3, <1>4 DEF LocksInv, RoomAhead, Indices
<1> QED
  BY <1>5, <1>6, <1>7, <1>8 DEF LocksInv

(* AppendEntries is a critical section nobody waits in. *)
LEMMA AppendStep ==
  ASSUME LocksAssumption, LocksInv, AppendEntries
  PROVE  LocksInv'
<1>1. /\ last' \in 0 .. MaxIndex /\ commitIndex <= last'
      /\ UNCHANGED <<locks, pc, index, commitIndex, lastApplied, handed, chMap>>
  BY DEF AppendEntries, LocksInv, LocksTypeOK, LocksAssumption
<1>2. LocksTypeOK' /\ Holders'
  BY <1>1 DEF LocksInv, LocksTypeOK, Holders, locks
<1>3. SentOnce' /\ RoomAhead'
  BY <1>1 DEF LocksInv, SentOnce, RoomAhead
<1> QED
  BY <1>2, <1>3 DEF LocksInv
(* The apply goroutine's steps. *)
LEMMA ExecuteStep ==
  ASSUME LocksAssumption, LocksInv, Execute
  PROVE  LocksInv'
<1>1. /\ pc' \in [Thread -> Label] /\ pc'[Apply] = "unlock" /\ \A u \in Thread \ {Apply} : pc'[u] = pc[u]
  BY ThreadsDiffer, GotoMoves DEF LocksInv, LocksTypeOK, Execute, Label
<1>2. LocksTypeOK' /\ Holders'
  BY <1>1, ThreadsDiffer DEF LocksInv, LocksTypeOK, Holders, Execute, peer
<1>3. SentOnce' /\ RoomAhead'
  BY <1>1, ThreadsDiffer DEF LocksInv, SentOnce, RoomAhead, Execute, peer
<1> QED
  BY <1>2, <1>3 DEF LocksInv

(* The peer gives its lock back. *)
LEMMA UnlockStep ==
  ASSUME LocksAssumption, LocksInv, Unlock
  PROVE  LocksInv'
<1>1. /\ pc' \in [Thread -> Label] /\ pc'[Apply] = "getChan" /\ \A u \in Thread \ {Apply} : pc'[u] = pc[u]
  BY ThreadsDiffer, GotoMoves DEF LocksInv, LocksTypeOK, Unlock, Label
<1>2. LocksTypeOK' /\ Holders'
  BY <1>1, ThreadsDiffer DEF LocksInv, LocksTypeOK, Holders, Unlock, peer
<1>3. SentOnce' /\ RoomAhead'
  BY <1>1, ThreadsDiffer DEF LocksInv, SentOnce, RoomAhead, Unlock, peer
<1> QED
  BY <1>2, <1>3 DEF LocksInv

(* getChan only makes a missing channel. *)
LEMMA ChanMade ==
  ASSUME LocksTypeOK, NEW i \in Indices, getChan(i)
  PROVE  /\ chMap' \in [Indices -> {"none", "empty", "full"}] /\ chMap'[i] # "none"
         /\ \A j \in Indices : chMap[j] # "full" => chMap'[j] # "full"
         /\ \A j \in Indices : chMap[j] = "empty" => chMap'[j] = "empty"
BY DEF LocksTypeOK, getChan

(* The apply goroutine finds or makes the channel of an index. *)
LEMMA ApplyChanStep ==
  ASSUME LocksAssumption, LocksInv, ApplyChan
  PROVE  LocksInv'
<1>1. /\ pc' \in [Thread -> Label] /\ pc'[Apply] = "notify" /\ \A u \in Thread \ {Apply} : pc'[u] = pc[u]
  BY ThreadsDiffer, GotoMoves DEF LocksInv, LocksTypeOK, ApplyChan, Label
<1>2. handed \in Indices /\ chMap[handed] # "full" /\ UNCHANGED <<locks, index, peer, handed>>
  BY DEF LocksInv, SentOnce, RoomAhead, ApplyChan
<1>3. /\ chMap' \in [Indices -> {"none", "empty", "full"}] /\ chMap'[handed] = "empty"
      /\ \A j \in Indices : chMap[j] # "full" => chMap'[j] # "full"
  BY <1>2, ChanMade DEF LocksInv, ApplyChan
<1>4. LocksTypeOK' /\ Holders'
  BY <1>1, <1>2, <1>3, ThreadsDiffer DEF LocksInv, LocksTypeOK, Holders, ApplyChan, peer, locks
<1>5. SentOnce' /\ RoomAhead'
  BY <1>1, <1>2, <1>3, ThreadsDiffer DEF LocksInv, SentOnce, RoomAhead, peer
<1> QED
  BY <1>4, <1>5 DEF LocksInv

(* The apply goroutine puts the op into the channel, which has room. *)
LEMMA NotifyStep ==
  ASSUME LocksAssumption, LocksInv, Notify
  PROVE  LocksInv'
<1>1. /\ pc' \in [Thread -> Label] /\ pc'[Apply] = "receive" /\ \A u \in Thread \ {Apply} : pc'[u] = pc[u]
  BY ThreadsDiffer, GotoMoves DEF LocksInv, LocksTypeOK, Notify, Label
<1>2. UNCHANGED <<locks, index, peer, handed>> /\ chMap' = [chMap EXCEPT ![handed] = "full"]
      /\ handed = lastApplied /\ lastApplied \in Nat
  BY DEF LocksInv, LocksTypeOK, SentOnce, Notify
<1>3. LocksTypeOK' /\ Holders'
  BY ZenonT(30), <1>1, <1>2, ThreadsDiffer DEF LocksInv, LocksTypeOK, Holders, Notify, peer, locks
<1>4. SentOnce' /\ RoomAhead'
  BY <1>1, <1>2, ThreadsDiffer DEF LocksInv, LocksTypeOK, SentOnce, RoomAhead, Indices, peer
<1> QED
  BY <1>3, <1>4 DEF LocksInv

(* What a step of a handler leaves as it is, whatever its label. *)
LEMMA HandlerMoves ==
  ASSUME LocksAssumption, LocksInv, NEW h \in Handler, NEW label \in Label, Goto(h, label)
  PROVE  /\ pc' \in [Thread -> Label] /\ pc'[h] = label
         /\ \A u \in Thread \ {h} : pc'[u] = pc[u]
         /\ pc'[Peer] = pc[Peer] /\ pc'[Apply] = pc[Apply]
BY ThreadsDiffer, GotoMoves DEF LocksInv, LocksTypeOK

(* A handler that moves and changes nothing else. *)
LEMMA MoveOnly ==
  ASSUME LocksAssumption, LocksInv, NEW h \in Handler, NEW label \in Label \ {"getChan", "wait"},
         Goto(h, label), UNCHANGED <<rfMu, index, peer, handed, chMap>>,
         kvMu' \in {kvMu, Free} \/ (kvMu' = h /\ label = "return"), kvMu = h => kvMu' = Free \/ label = "return"
  PROVE  LocksInv'
<1>1. /\ pc' \in [Thread -> Label] /\ pc'[h] = label
      /\ \A u \in Thread \ {h} : pc'[u] = pc[u]
      /\ pc'[Peer] = pc[Peer] /\ pc'[Apply] = pc[Apply]
  BY HandlerMoves
<1>2. LocksTypeOK' /\ Holders'
  BY <1>1, ThreadsDiffer DEF LocksInv, LocksTypeOK, Holders, peer
<1>3. SentOnce' /\ RoomAhead'
  BY <1>1 DEF LocksInv, SentOnce, RoomAhead, peer
<1> QED
  BY <1>2, <1>3 DEF LocksInv

(* Start: refused, or the command is the last entry of the log. *)
LEMMA StartStep ==
  ASSUME LocksAssumption, LocksInv, NEW h \in Handler, Start(h)
  PROVE  LocksInv'
<1>1. kvMu' = kvMu
  BY ThreadsDiffer DEF Start, LocksInv, Holders
<1>2. CASE Goto(h, "idle") /\ UNCHANGED <<index, last>>
  BY <1>1, <1>2, MoveOnly DEF Start, Label, peer, LocksInv, Holders
<1>3. CASE /\ last < MaxIndex /\ last' = last + 1
           /\ index' = [index EXCEPT ![h] = last'] /\ Goto(h, "getChan")
  <2>1. /\ pc' \in [Thread -> Label] /\ pc'[h] = "getChan"
        /\ \A u \in Thread \ {h} : pc'[u] = pc[u]
        /\ pc'[Peer] = pc[Peer] /\ pc'[Apply] = pc[Apply]
    BY <1>3, HandlerMoves DEF Label
  <2>2. last' \in Indices /\ last <= last' /\ last' \in 0 .. MaxIndex
    BY <1>3 DEF LocksInv, LocksTypeOK, LocksAssumption, Indices
  <2>3. UNCHANGED <<rfMu, commitIndex, lastApplied, handed, chMap>>
    BY DEF Start
  <2>4. LocksTypeOK'
    BY <1>1, <1>3, <2>1, <2>2, <2>3, ThreadsDiffer DEF LocksInv, LocksTypeOK
  <2>5. Holders'
    BY <1>1, <2>1, <2>3, ThreadsDiffer DEF LocksInv, Holders, Start
  <2>6. SentOnce' /\ RoomAhead'
    BY <2>1, <2>2, <2>3 DEF LocksInv, LocksTypeOK, SentOnce, RoomAhead
  <2> QED
    BY <2>4, <2>5, <2>6 DEF LocksInv
<1> QED
  BY <1>2, <1>3 DEF Start
(* A handler finds or makes the channel of its index. *)
LEMMA HandlerChanStep ==
  ASSUME LocksAssumption, LocksInv, NEW h \in Handler, HandlerChan(h)
  PROVE  LocksInv'
<1>1. /\ pc' \in [Thread -> Label] /\ pc'[h] = "wait" /\ pc[h] = "getChan"
      /\ \A u \in Thread \ {h} : pc'[u] = pc[u]
      /\ pc'[Peer] = pc[Peer] /\ pc'[Apply] = pc[Apply]
  BY HandlerMoves DEF HandlerChan, Label
<1>2. index[h] \in Indices /\ UNCHANGED <<locks, index, peer, handed>>
  BY DEF LocksInv, LocksTypeOK, HandlerChan
<1>3. /\ chMap' \in [Indices -> {"none", "empty", "full"}]
      /\ \A j \in Indices : chMap[j] # "full" => chMap'[j] # "full"
      /\ \A j \in Indices : chMap[j] = "empty" => chMap'[j] = "empty"
  BY <1>2, ChanMade DEF LocksInv, HandlerChan
<1>4. LocksTypeOK' /\ Holders'
  BY <1>1, <1>2, <1>3, ThreadsDiffer DEF LocksInv, LocksTypeOK, Holders, peer, locks
<1>5. SentOnce' /\ RoomAhead'
  BY <1>1, <1>2, <1>3 DEF LocksInv, SentOnce, RoomAhead, peer
<1> QED
  BY <1>4, <1>5 DEF LocksInv

(* replyNotify empties the channel, or leaves it. *)
LEMMA ReplyStep ==
  ASSUME LocksAssumption, LocksInv, NEW h \in Handler, replyNotify(h)
  PROVE  LocksInv'
<1>1. PICK label \in {"read", "idle"} : Goto(h, label)
  BY DEF replyNotify
<1>2. /\ pc' \in [Thread -> Label] /\ pc'[h] = label /\ pc[h] = "wait"
      /\ \A u \in Thread \ {h} : pc'[u] = pc[u]
      /\ pc'[Peer] = pc[Peer] /\ pc'[Apply] = pc[Apply]
  BY <1>1, HandlerMoves DEF replyNotify, Label
<1>3. index[h] \in Indices /\ UNCHANGED <<locks, index, peer, handed>>
  BY <1>2 DEF LocksInv, LocksTypeOK, replyNotify
<1>4. /\ chMap' \in [Indices -> {"none", "empty", "full"}]
      /\ \A j \in Indices : chMap[j] # "full" => chMap'[j] # "full"
      /\ \A j \in Indices : chMap[j] = "empty" => chMap'[j] = "empty"
  BY <1>3 DEF LocksInv, LocksTypeOK, replyNotify
<1>5. LocksTypeOK' /\ Holders'
  BY <1>2, <1>3, <1>4, ThreadsDiffer DEF LocksInv, LocksTypeOK, Holders, peer, locks
<1>6. SentOnce' /\ RoomAhead'
  BY <1>2, <1>3, <1>4 DEF LocksInv, SentOnce, RoomAhead, peer
<1> QED
  BY <1>5, <1>6 DEF LocksInv

(* Every step keeps the invariant. *)
LEMMA LocksStep ==
  ASSUME LocksAssumption, LocksInv, [Next]_vars
  PROVE  LocksInv'
<1>1. CASE Commit \/ Send \/ AppendEntries
  BY <1>1, CommitStep, SendStep, AppendStep
<1>2. CASE Execute \/ Unlock \/ ApplyChan \/ Notify
  BY <1>2, ExecuteStep, UnlockStep, ApplyChanStep, NotifyStep
<1>3. ASSUME NEW h \in Handler,
             GetState(h) \/ CallStart(h) \/ Start(h) \/ HandlerChan(h)
               \/ replyNotify(h) \/ Read(h) \/ Return(h)
      PROVE  LocksInv'
  <2>0. h # Free /\ h # Apply
    BY ThreadsDiffer
  <2>1. CASE GetState(h)
    BY <2>0, <2>1, MoveOnly DEF GetState, Label, locks, LocksInv, Holders
  <2>2. CASE CallStart(h)
    BY <2>0, <2>2, MoveOnly DEF CallStart, BeforeStart, Label, LocksInv, Holders
  <2>3. CASE Read(h)
    BY <2>3, MoveOnly DEF Read, Label
  <2>4. CASE Return(h)
    BY <2>4, MoveOnly DEF Return, Label
  <2> QED
    BY <1>3, <2>1, <2>2, <2>3, <2>4, StartStep, HandlerChanStep, ReplyStep
<1>4. CASE UNCHANGED vars
  <2>1. UNCHANGED <<rfMu, kvMu, pc, index, last, commitIndex, lastApplied, handed, chMap>>
    BY <1>4 DEF vars, locks, peer
  <2>2. LocksTypeOK' /\ Holders'
    BY <2>1 DEF LocksInv, LocksTypeOK, Holders
  <2>3. SentOnce' /\ RoomAhead'
    BY <2>1 DEF LocksInv, SentOnce, RoomAhead
  <2> QED
    BY <2>2, <2>3 DEF LocksInv
<1> QED
  BY <1>1, <1>2, <1>3, <1>4 DEF Next

(* Whoever is waited for in the end goes on: a holder of kv.mu waits for    *)
(* nobody, the apply goroutine waits only for such a holder, the peer only  *)
(* for the apply goroutine, and the handlers for these.                     *)
LEMMA NobodyInCircle ==
  ASSUME LocksAssumption, LocksInv
  PROVE  NoCircle
<1> SUFFICES ASSUME NEW S \in SUBSET Thread, S # {}, \A t \in S : WaitsFor(t) \cap S # {}
             PROVE  FALSE
  BY DEF NoCircle
<1>0. Holders
  BY DEF LocksInv
<1>1. kvMu \notin S
  <2> SUFFICES ASSUME kvMu \in S PROVE FALSE
    OBVIOUS
  <2>1. kvMu = Apply \/ kvMu \in Handler
    BY <1>0, ThreadsDiffer DEF Holders, Thread
  <2>2. WaitsFor(kvMu) = {}
    BY <1>0, <2>1, ThreadsDiffer DEF WaitsFor, Holders
  <2> QED
    BY <2>2
<1>2. Apply \notin S
  <2> SUFFICES ASSUME Apply \in S PROVE FALSE
    OBVIOUS
  <2>1. PICK u \in S : u \in WaitsFor(Apply)
    OBVIOUS
  <2>2. u = kvMu
    BY <2>1, ThreadsDiffer DEF WaitsFor
  <2> QED
    BY <1>1, <2>2
<1>3. Peer \notin S
  <2> SUFFICES ASSUME Peer \in S PROVE FALSE
    OBVIOUS
  <2>1. PICK u \in S : u \in WaitsFor(Peer)
    OBVIOUS
  <2>2. u = Apply
    BY <2>1, ThreadsDiffer DEF WaitsFor
  <2> QED
    BY <1>2, <2>2
<1>4. PICK t \in S : t \in Handler
  BY <1>2, <1>3 DEF Thread
<1>5. PICK u \in S : u \in WaitsFor(t)
  OBVIOUS
<1>6. u = kvMu \/ u = rfMu
  BY <1>4, <1>5, ThreadsDiffer DEF WaitsFor
<1> QED
  BY <1>0, <1>1, <1>3, <1>6, ThreadsDiffer DEF Holders

-----------------------------------------------------------------------------
(* Theorems. *)

(* raft.go, server.go: although the peer sends on applyCh with rf.mu held,  *)
(* to a goroutine that needs kv.mu, and handlers need both, no goroutines   *)
(* wait for each other in a circle, for any handlers and any log.           *)
THEOREM LocksNoCircle ==
  ASSUME LocksAssumption
  PROVE  Spec => []NoCircle
<1>1. Init => LocksInv
  BY LocksInit
<1>2. LocksInv /\ [Next]_vars => LocksInv'
  BY LocksStep
<1>3. LocksInv => NoCircle
  BY NobodyInCircle
<1> QED
  BY <1>1, <1>2, <1>3, PTL DEF Spec

(* server.go, StartKVServer: the channel of capacity one of an index is     *)
(* empty when the apply goroutine comes to send on it, whether its handler  *)
(* still waits or not.                                                      *)
THEOREM LocksChannelHasRoom ==
  ASSUME LocksAssumption
  PROVE  Spec => []ChannelHasRoom
<1>1. Init => LocksInv
  BY LocksInit
<1>2. LocksInv /\ [Next]_vars => LocksInv'
  BY LocksStep
<1>3. LocksInv => ChannelHasRoom
  BY DEF LocksInv, RoomAhead, ChannelHasRoom
<1> QED
  BY <1>1, <1>2, <1>3, PTL DEF Spec

(* Both: a peer and its key/value server never block each other. *)
THEOREM LocksNeverBlockHolds ==
  ASSUME LocksAssumption
  PROVE  Spec => []LocksNeverBlock
BY LocksNoCircle, LocksChannelHasRoom, PTL DEF LocksNeverBlock

-----------------------------------------------------------------------------
(* The simulated network (LabRPC). *)
CONSTANTS Server, Calls, MaxStart, MaxSwitch
VARIABLES reliable, longReordering, done, enabled, servers, names, saved, live, test, call, switches

Net == INSTANCE LabRPC

(* The records of the network are told apart by their fields. *)
LEMMA CallShapes ==
  ASSUME Net!TypeOK, NEW c \in DOMAIN Calls, call[c] # Net!Idle
  PROVE  /\ call[c] \in Net!Sent \cup Net!Served /\ call[c].at # "idle"
         /\ call[c].end \in Net!End /\ call[c].late \in BOOLEAN
         /\ call[c].handler # "none" => call[c] \in Net!Served
         /\ call[c].at \notin {"sent", "false"} => call[c] \in Net!Served
         /\ call[c].at = "sent" => call[c] \in Net!Sent
BY DEF Net!TypeOK, Net!Sent, Net!Served, Net!Idle

LEMMA NetInit ==
  ASSUME Net!CallsAssumption
  PROVE  Net!Init => Net!NetInv
<1> SUFFICES ASSUME Net!Init PROVE Net!NetInv
  OBVIOUS
<1>1. /\ servers = [i \in Server |-> 1] /\ names = [i \in Server |-> <<1>>]
      /\ saved = [i \in Server |-> << {} >>] /\ live = [i \in Server |-> 1]
      /\ test = Net!Idle /\ call = [c \in DOMAIN Calls |-> Net!Idle]
  BY DEF Net!Init
<1>2. \A e \in enabled : e \in Net!End /\ e.gen = 1
  <2>1. ASSUME NEW x \in Server \cup Net!Senders, NEW e \in Net!MakeEnds(x, 1)
        PROVE  e \in Net!End /\ e.gen = 1
    BY <2>1 DEF Net!MakeEnds, Net!Connect, Net!End
  <2>2. \A e \in enabled : \E x \in Server \cup Net!Senders : e \in Net!MakeEnds(x, 1)
    BY DEF Net!Init, Net!makeClient, Net!Senders
  <2> QED
    BY <2>1, <2>2
<1>3. Net!TypeOK
  <2>1. names \in [Server -> Seq(Nat)] /\ saved \in [Server -> Seq(SUBSET DOMAIN Calls)]
    BY <1>1
  <2>2. reliable \in BOOLEAN /\ longReordering \in BOOLEAN
    BY DEF Net!Init
  <2> QED
    BY <1>1, <1>2, <2>1, <2>2 DEF Net!TypeOK
<1>4. test.at = "idle"
  BY <1>1 DEF Net!Idle
<1>5. Net!LastPersister /\ Net!EnabledAlive
  BY <1>1, <1>2, <1>4 DEF Net!LastPersister, Net!EnabledAlive
<1>6. \A c \in DOMAIN Calls : Net!LateDisabled(c) /\ Net!ReturnedSaved(c)
  BY <1>1 DEF Net!LateDisabled, Net!ReturnedSaved
<1> QED
  BY <1>3, <1>5, <1>6 DEF Net!NetInv

(* A step of one call. *)
LEMMA CallSteps ==
  ASSUME Net!NetInv, NEW c \in DOMAIN Calls, NEW w \in Net!Sent \cup Net!Served,
         call' = [call EXCEPT ![c] = w],
         UNCHANGED <<reliable, longReordering, done, enabled, servers, names, saved, live, test>>,
         w.late => /\ w.handler = "none" /\ w.end.from \in Server
                   /\ w.end.gen <= Len(names[w.end.from])
                   /\ live[w.end.from] # 0 => w.end.gen < Len(names[w.end.from]),
         w.end.to = Calls[c].to,
         w.handler # "none" => w.info.server \in DOMAIN saved[Calls[c].to],
         w.handler = "returned" => c \in saved[Calls[c].to][w.info.server],
         w.at \in {"replying", "delayed", "true"} => w.handler = "returned",
         w.at \in {"delayed", "true"} => c \in Net!Last(saved[Calls[c].to])
  PROVE  Net!NetInv'
<1>1. call \in [DOMAIN Calls -> {Net!Idle} \cup Net!Sent \cup Net!Served]
  BY DEF Net!NetInv, Net!TypeOK
<1>2. call'[c] = w /\ \A d \in DOMAIN Calls \ {c} : call'[d] = call[d]
  BY <1>1
<1>3. Net!TypeOK'
  BY <1>1 DEF Net!NetInv, Net!TypeOK
<1>4. Net!LastPersister' /\ Net!EnabledAlive'
  BY DEF Net!NetInv, Net!LastPersister, Net!EnabledAlive
<1>5. \A d \in DOMAIN Calls \ {c} : Net!LateDisabled(d)' /\ Net!ReturnedSaved(d)'
  BY <1>2 DEF Net!NetInv, Net!LateDisabled, Net!ReturnedSaved, Net!Last
<1>6. Net!LateDisabled(c)' /\ Net!ReturnedSaved(c)'
  BY <1>2 DEF Net!LateDisabled, Net!ReturnedSaved, Net!Last
<1> QED
  BY <1>3, <1>4, <1>5, <1>6 DEF Net!NetInv

(* A call that ends without a reply. *)
LEMMA FalseStep ==
  ASSUME Net!NetInv, NEW c \in DOMAIN Calls, call[c] # Net!Idle, Net!Return(c, FALSE),
         UNCHANGED <<Net!network, Net!bench>>
  PROVE  Net!NetInv'
<1> DEFINE w == [call[c] EXCEPT !.at = "false"]
<1>1. call' = [call EXCEPT ![c] = w]
  BY DEF Net!Return
<1>2. call[c] \in Net!Sent \cup Net!Served /\ Net!LateDisabled(c) /\ Net!ReturnedSaved(c)
  BY CallShapes DEF Net!NetInv
<1>3. /\ w \in Net!Sent \cup Net!Served /\ w.at = "false" /\ w.late = call[c].late
      /\ w.end = call[c].end /\ w.handler = call[c].handler
      /\ w.handler # "none" => w.info = call[c].info
  BY <1>2 DEF Net!Sent, Net!Served
<1> HIDE DEF w
<1>4. UNCHANGED <<reliable, longReordering, done, enabled, servers, names, saved, live, test>>
  BY DEF Net!network, Net!bench
<1>5. w.late => /\ w.handler = "none" /\ w.end.from \in Server
                /\ w.end.gen <= Len(names[w.end.from])
                /\ live[w.end.from] # 0 => w.end.gen < Len(names[w.end.from])
  BY <1>2, <1>3 DEF Net!LateDisabled
<1>6. /\ w.end.to = Calls[c].to
      /\ w.handler # "none" => w.info.server \in DOMAIN saved[Calls[c].to]
      /\ w.handler = "returned" => c \in saved[Calls[c].to][w.info.server]
  BY <1>2, <1>3 DEF Net!ReturnedSaved
<1> QED
  BY <1>1, <1>3, <1>4, <1>5, <1>6, CallSteps

(* A call whose handler runs or has returned goes on. *)
LEMMA ServedStep ==
  ASSUME Net!NetInv, NEW c \in DOMAIN Calls, call[c] \in Net!Served, call[c].handler = "returned",
         NEW at \in {"replying", "delayed", "true"}, call' = [call EXCEPT ![c].at = at],
         at \in {"delayed", "true"} => c \in Net!Last(saved[Calls[c].to]),
         UNCHANGED <<Net!network, Net!bench>>
  PROVE  Net!NetInv'
<1> DEFINE w == [call[c] EXCEPT !.at = at]
<1>1. call' = [call EXCEPT ![c] = w]
  OBVIOUS
<1>2. Net!LateDisabled(c) /\ Net!ReturnedSaved(c) /\ call[c] # Net!Idle
  BY DEF Net!NetInv, Net!Served, Net!Idle
<1>3. /\ w \in Net!Served /\ w.at = at /\ w.late = call[c].late
      /\ w.end = call[c].end /\ w.handler = call[c].handler /\ w.info = call[c].info
  BY DEF Net!Served
<1> HIDE DEF w
<1>4. UNCHANGED <<reliable, longReordering, done, enabled, servers, names, saved, live, test>>
  BY DEF Net!network, Net!bench
<1>5. ~w.late
  BY <1>2, <1>3 DEF Net!LateDisabled
<1>6. /\ w.end.to = Calls[c].to
      /\ w.info.server \in DOMAIN saved[Calls[c].to]
      /\ c \in saved[Calls[c].to][w.info.server]
  BY <1>2, <1>3 DEF Net!ReturnedSaved
<1> QED
  BY <1>1, <1>3, <1>4, <1>5, <1>6, CallSteps

(* What a server that is not dead has saved for a call that returned. *)
LEMMA SavedLast ==
  ASSUME Net!CallsAssumption, Net!NetInv, NEW c \in DOMAIN Calls, call[c] # Net!Idle,
         call[c].handler = "returned", ~Net!isServerDead(c)
  PROVE  c \in Net!Last(saved[Calls[c].to])
<1> DEFINE to == Calls[c].to
<1>1. /\ call[c].end.to = to /\ c \in saved[to][call[c].info.server]
      /\ call[c].info.server \in DOMAIN saved[to] /\ to \in Server
  BY DEF Net!NetInv, Net!ReturnedSaved, Net!CallsAssumption
<1>2. servers[to] = call[c].info.server
  BY <1>1 DEF Net!isServerDead
<1>3. saved[to] \in Seq(SUBSET DOMAIN Calls)
  BY <1>1 DEF Net!NetInv, Net!TypeOK
<1>4. servers[to] = Len(saved[to])
  BY <1>1, <1>2, <1>3 DEF Net!NetInv, Net!LastPersister
<1> QED
  BY <1>1, <1>2, <1>4 DEF Net!Last

LEMMA CallMade ==
  ASSUME Net!CallsAssumption, Net!NetInv, NEW c \in DOMAIN Calls, NEW n \in Net!Instances(Calls[c].from), Net!Call(c, n)
  PROVE  Net!NetInv'
<1> DEFINE from == Calls[c].from
           end == [from |-> from, gen |-> Net!NamesOf(from, n), to |-> Calls[c].to]
           w == [at |-> "sent", handler |-> "none", late |-> Net!Killed(from, n), end |-> end]
<1>1. /\ call' = [call EXCEPT ![c] = w]
      /\ UNCHANGED <<reliable, longReordering, done, enabled, servers, names, saved, live, test>>
  BY DEF Net!Call, Net!network, Net!bench
<1>2. /\ from \in Server => /\ names[from] \in Seq(Nat) /\ n \in 1 .. Len(names[from])
                           /\ Net!NamesOf(from, n) = n
      /\ from \notin Server => Net!NamesOf(from, n) = 1
  BY SMTT(30) DEF Net!NamesOf, Net!Instances, Net!NetInv, Net!TypeOK, Net!LastPersister
<1>3. end \in Net!End /\ Net!Killed(from, n) \in BOOLEAN
  BY <1>2 DEF Net!End, Net!Senders, Net!CallsAssumption, Net!Killed
<1>4. Net!Killed(from, n) => /\ from \in Server /\ end.gen <= Len(names[from])
                             /\ live[from] # 0 => end.gen < Len(names[from])
  BY <1>2 DEF Net!Killed
<1>5. w \in Net!Sent
  BY <1>3 DEF Net!Sent
<1>6. /\ w.late = Net!Killed(from, n) /\ w.end = end /\ w.end.from = from /\ w.end.to = Calls[c].to
      /\ w.handler = "none" /\ w.at = "sent"
  OBVIOUS
<1> HIDE DEF w, end
<1>7. w.late => /\ w.handler = "none" /\ w.end.from \in Server
                /\ w.end.gen <= Len(names[w.end.from])
                /\ live[w.end.from] # 0 => w.end.gen < Len(names[w.end.from])
  BY <1>4, <1>6
<1>8. w.at \notin {"replying", "delayed", "true"} /\ w.handler # "returned" /\ w.end.to = Calls[c].to
  BY <1>6
<1> HIDE DEF from
<1> QED
  BY <1>1, <1>5, <1>6, <1>7, <1>8, CallSteps

LEMMA ProcessStep ==
  ASSUME Net!CallsAssumption, Net!NetInv, NEW c \in DOMAIN Calls, Net!processReq(c)
  PROVE  Net!NetInv'
<1> DEFINE info == Net!readEndnameInfo(c)
           w == [at |-> "waiting", handler |-> "running", late |-> call[c].late,
                 end |-> call[c].end, info |-> info]
           to == Calls[c].to
<1>1. /\ call[c].at = "sent" /\ UNCHANGED <<Net!network, Net!bench>>
      /\ \/ info.enabled /\ info.server # 0 /\ call' = [call EXCEPT ![c] = w]
         \/ Net!Return(c, FALSE)
  BY DEF Net!processReq, Net!NoReply
<1>2. call[c] # Net!Idle
  BY <1>1 DEF Net!Idle
<1>3. CASE Net!Return(c, FALSE)
  BY <1>1, <1>2, <1>3, FalseStep
<1>4. CASE info.enabled /\ info.server # 0 /\ call' = [call EXCEPT ![c] = w]
  <2>1. /\ call[c].end \in enabled /\ info.server = servers[call[c].end.to]
        /\ call[c].end \in Net!End /\ call[c].late \in BOOLEAN
        /\ call[c].end.to = to /\ to \in Server
    BY <1>2, <1>4, CallShapes DEF Net!readEndnameInfo, Net!NetInv, Net!ReturnedSaved, Net!CallsAssumption
  <2>2. ~call[c].late
    BY <1>2, <2>1 DEF Net!NetInv, Net!LateDisabled, Net!EnabledAlive
  <2>3. info \in [enabled : BOOLEAN, server : Nat, reliable : BOOLEAN, longreordering : BOOLEAN]
    BY <2>1 DEF Net!readEndnameInfo, Net!NetInv, Net!TypeOK
  <2>4. info.server \in DOMAIN saved[to]
    <3>1. saved[to] \in Seq(SUBSET DOMAIN Calls) /\ Len(saved[to]) > 0
      BY <2>1 DEF Net!NetInv, Net!TypeOK, Net!LastPersister
    <3>2. info.server = Len(saved[to])
      BY <1>4, <2>1 DEF Net!NetInv, Net!LastPersister
    <3> QED
      BY <3>1, <3>2
  <2> HIDE DEF info
  <2>5. w \in Net!Served
    BY <2>1, <2>3 DEF Net!Served
  <2>6. UNCHANGED <<reliable, longReordering, done, enabled, servers, names, saved, live, test>>
    BY <1>1 DEF Net!network, Net!bench
  <2> QED
    BY <1>4, <2>1, <2>2, <2>4, <2>5, <2>6, CallSteps
<1> QED
  BY <1>1, <1>3, <1>4

LEMMA ReplySteps ==
  ASSUME Net!CallsAssumption, Net!NetInv, NEW c \in DOMAIN Calls,
         Net!CallDone(c) \/ Net!AwaitReply(c) \/ Net!Reply(c) \/ Net!DelayedReply(c)
  PROVE  Net!NetInv'
<1>1. call[c] # Net!Idle /\ UNCHANGED <<Net!network, Net!bench>>
  <2>1. call[c].at # "idle"
    BY DEF Net!CallDone, Net!AwaitReply, Net!Reply, Net!DelayedReply
  <2>2. UNCHANGED <<Net!network, Net!bench>>
    BY DEF Net!CallDone, Net!AwaitReply, Net!Reply, Net!DelayedReply
  <2> QED
    BY <2>1, <2>2 DEF Net!Idle
<1>2. CASE Net!Return(c, FALSE)
  BY <1>1, <1>2, FalseStep
<1>3. call[c].at \in {"waiting", "replying", "delayed"} => call[c] \in Net!Served
  BY <1>1, CallShapes DEF Net!NetInv
<1>4. CASE Net!AwaitReply(c) /\ ~Net!Return(c, FALSE)
  <2>1. call[c].at = "waiting" /\ call[c].handler = "returned" /\ call' = [call EXCEPT ![c].at = "replying"]
    BY <1>4 DEF Net!AwaitReply
  <2> QED
    BY <1>1, <1>3, <2>1, ServedStep
<1>5. CASE Net!Reply(c) /\ ~Net!Return(c, FALSE)
  <2>1. /\ call[c].at = "replying" /\ ~Net!isServerDead(c)
        /\ \E at \in {"delayed", "true"} : call' = [call EXCEPT ![c].at = at]
    BY <1>5 DEF Net!Reply, Net!Return
  <2>2. call[c].handler = "returned"
    BY <1>1, <2>1 DEF Net!NetInv, Net!ReturnedSaved
  <2>3. c \in Net!Last(saved[Calls[c].to])
    BY <1>1, <2>1, <2>2, SavedLast
  <2> QED
    BY <1>1, <1>3, <2>1, <2>2, <2>3, ServedStep
<1>6. CASE Net!DelayedReply(c)
  <2>1. call[c].at = "delayed" /\ call' = [call EXCEPT ![c].at = "true"]
    BY <1>6 DEF Net!DelayedReply, Net!Return
  <2>2. call[c].handler = "returned" /\ c \in Net!Last(saved[Calls[c].to])
    BY <1>1, <2>1 DEF Net!NetInv, Net!ReturnedSaved
  <2> QED
    BY <1>1, <1>3, <2>1, <2>2, ServedStep
<1> QED
  BY <1>2, <1>4, <1>5, <1>6 DEF Net!CallDone

(* A call's view of the persisters: more is saved, or the last is copied.   *)
LEMMA SavedGrows ==
  ASSUME Net!NetInv, NEW d \in DOMAIN Calls, call'[d] = call[d], Calls[d].to \in Server,
         \A i \in Server : /\ DOMAIN saved[i] \subseteq DOMAIN saved'[i]
                           /\ \A n \in DOMAIN saved[i] : saved[i][n] \subseteq saved'[i][n]
                           /\ Net!Last(saved[i]) \subseteq Net!Last(saved'[i])
  PROVE  Net!ReturnedSaved(d)'
<1>1. Net!ReturnedSaved(d)
  BY DEF Net!NetInv
<1> QED
  BY <1>1 DEF Net!ReturnedSaved, Net!Last

(* The handler saves in the persister of its own instance.                  *)
LEMMA DispatchStep ==
  ASSUME Net!CallsAssumption, Net!NetInv, NEW c \in DOMAIN Calls, Net!dispatch(c)
  PROVE  Net!NetInv'
<1> DEFINE to == Calls[c].to
           n == call[c].info.server
           w == [call[c] EXCEPT !.handler = "returned"]
<1>1. /\ call[c] # Net!Idle /\ call[c].handler = "running" /\ call[c].end.to = to
      /\ call[c] \in Net!Served /\ to \in Server /\ n \in DOMAIN saved[to]
      /\ saved \in [Server -> Seq(SUBSET DOMAIN Calls)]
      /\ call \in [DOMAIN Calls -> {Net!Idle} \cup Net!Sent \cup Net!Served]
  BY CallShapes DEF Net!dispatch, Net!NetInv, Net!ReturnedSaved, Net!CallsAssumption, Net!TypeOK
<1>2. /\ saved' = [saved EXCEPT ![to][n] = @ \cup {c}] /\ call' = [call EXCEPT ![c] = w]
      /\ UNCHANGED <<reliable, longReordering, done, enabled, servers, names, live, test>>
  BY <1>1 DEF Net!dispatch, Net!CallMethod, Net!network
<1>3. /\ saved' \in [Server -> Seq(SUBSET DOMAIN Calls)]
      /\ \A i \in Server : Len(saved'[i]) = Len(saved[i]) /\ DOMAIN saved'[i] = DOMAIN saved[i]
      /\ \A i \in Server : \A k \in DOMAIN saved[i] : saved[i][k] \subseteq saved'[i][k]
      /\ c \in saved'[to][n]
  <2>1. \A i \in Server : saved[i] \in Seq(SUBSET DOMAIN Calls)
    BY <1>1
  <2>2. saved'[to] = [saved[to] EXCEPT ![n] = @ \cup {c}] /\ \A i \in Server \ {to} : saved'[i] = saved[i]
    BY <1>1, <1>2
  <2>3. [saved[to] EXCEPT ![n] = @ \cup {c}] \in Seq(SUBSET DOMAIN Calls)
    BY <1>1, <2>1
  <2>4. DOMAIN saved' = Server /\ saved' = [i \in Server |-> saved'[i]]
    BY <1>1, <1>2
  <2>5. \A i \in Server : saved'[i] \in Seq(SUBSET DOMAIN Calls)
    BY <2>1, <2>2, <2>3
  <2>6. saved' \in [Server -> Seq(SUBSET DOMAIN Calls)]
    BY <2>4, <2>5
  <2>7. Len(saved'[to]) = Len(saved[to]) /\ DOMAIN saved'[to] = DOMAIN saved[to]
    BY <1>1, <2>1, <2>2
  <2>8. \A k \in DOMAIN saved[to] : saved[to][k] \subseteq saved'[to][k]
    BY <1>1, <2>1, <2>2
  <2>9. c \in saved'[to][n]
    BY <1>1, <2>1, <2>2
  <2> HIDE DEF to, n
  <2> QED
    BY <2>2, <2>6, <2>7, <2>8, <2>9
<1>4. \A i \in Server : Net!Last(saved[i]) \subseteq Net!Last(saved'[i])
  <2> SUFFICES ASSUME NEW i \in Server PROVE Net!Last(saved[i]) \subseteq Net!Last(saved'[i])
    OBVIOUS
  <2>1. saved[i] \in Seq(SUBSET DOMAIN Calls) /\ Len(saved[i]) > 0
    BY <1>1 DEF Net!NetInv, Net!LastPersister
  <2>2. Len(saved[i]) \in DOMAIN saved[i]
    BY <2>1
  <2> QED
    BY <1>3, <2>2 DEF Net!Last
<1>5. /\ w \in Net!Served /\ w.at = call[c].at /\ w.late = call[c].late
      /\ w.end = call[c].end /\ w.handler = "returned" /\ w.info = call[c].info
      /\ call'[c] = w /\ \A d \in DOMAIN Calls \ {c} : call'[d] = call[d]
  BY <1>1, <1>2 DEF Net!Served
<1>6. Net!TypeOK'
  <2>1. call' \in [DOMAIN Calls -> {Net!Idle} \cup Net!Sent \cup Net!Served]
    BY <1>1, <1>2, <1>5
  <2>2. \A x : x \in Net!Sent <=> x \in Net!Sent'
    BY DEF Net!Sent, Net!End
  <2> QED
    BY Zenon, <1>2, <1>3, <2>1 DEF Net!NetInv, Net!TypeOK
<1>7. Net!LastPersister' /\ Net!EnabledAlive'
  <2>1. Net!LastPersister /\ Net!EnabledAlive
    BY DEF Net!NetInv
  <2> QED
    BY Zenon, <1>2, <1>3, <2>1 DEF Net!LastPersister, Net!EnabledAlive
<1> HIDE DEF w, to, n
<1>8. \A d \in DOMAIN Calls \ {c} : Net!LateDisabled(d)' /\ Net!ReturnedSaved(d)'
  <2>1. \A d \in DOMAIN Calls \ {c} : Net!LateDisabled(d)'
    BY <1>2, <1>5 DEF Net!NetInv, Net!LateDisabled
  <2>2. \A d \in DOMAIN Calls \ {c} : Net!ReturnedSaved(d)'
    BY <1>3, <1>4, <1>5, SavedGrows DEF Net!CallsAssumption
  <2> QED
    BY <2>1, <2>2
<1>9. Net!LateDisabled(c)'
  BY <1>1, <1>5 DEF Net!NetInv, Net!LateDisabled
<1>10. Net!ReturnedSaved(c)'
  <2>1. Net!ReturnedSaved(c)
    BY DEF Net!NetInv
  <2>2. call[c].at \notin {"replying", "delayed", "true"}
    BY <1>1, <2>1 DEF Net!ReturnedSaved
  <2> QED
    BY <1>1, <1>3, <1>5, <2>2 DEF Net!ReturnedSaved, to, n
<1> QED
  BY <1>6, <1>7, <1>8, <1>9, <1>10 DEF Net!NetInv

(* What the test enables is an end of a server that lives, by its last name, *)
(* or one of a clerk.                                                        *)
LEMMA EnableStep ==
  ASSUME Net!NetInv,
         \A e \in enabled' \ enabled :
           /\ e \in Net!End
           /\ e.from \in Server => test = Net!Idle /\ live[e.from] # 0 /\ e.gen = Len(names[e.from]),
         reliable' \in BOOLEAN, longReordering' \in BOOLEAN,
         UNCHANGED <<servers, names, saved, live, test, call>>
  PROVE  Net!NetInv'
<1>1. Net!TypeOK'
  BY DEF Net!NetInv, Net!TypeOK
<1>2. Net!LastPersister'
  BY DEF Net!NetInv, Net!LastPersister
<1>3. Net!EnabledAlive'
  <2>1. test = Net!Idle => test.at = "idle"
    BY DEF Net!Idle
  <2> QED
    BY <2>1 DEF Net!NetInv, Net!EnabledAlive
<1>4. \A c \in DOMAIN Calls : Net!LateDisabled(c)' /\ Net!ReturnedSaved(c)'
  BY DEF Net!NetInv, Net!LateDisabled, Net!ReturnedSaved, Net!Last
<1> QED
  BY <1>1, <1>2, <1>3, <1>4 DEF Net!NetInv

LEMMA SwitchSteps ==
  ASSUME Net!NetInv,
         \/ \E yes \in BOOLEAN : Net!Reliable(yes) \/ Net!LongReordering(yes)
         \/ Net!Cleanup
         \/ \E c \in DOMAIN Calls, to \in SUBSET Server, on \in BOOLEAN :
              Calls[c].from \notin Server /\ Net!SwitchClient(Calls[c].from, to, on)
  PROVE  Net!NetInv'
<1>1. reliable \in BOOLEAN /\ longReordering \in BOOLEAN
  BY DEF Net!NetInv, Net!TypeOK
<1>2. CASE \E yes \in BOOLEAN : Net!Reliable(yes) \/ Net!LongReordering(yes)
  BY <1>1, <1>2, EnableStep DEF Net!Reliable, Net!LongReordering
<1>3. CASE Net!Cleanup
  BY <1>1, <1>3, EnableStep DEF Net!Cleanup
<1>4. ASSUME NEW c \in DOMAIN Calls, NEW to \in SUBSET Server, NEW on \in BOOLEAN,
             Calls[c].from \notin Server, Net!SwitchClient(Calls[c].from, to, on)
      PROVE  Net!NetInv'
  <2>1. \A e \in enabled' \ enabled : e \in Net!makeClient(Calls[c].from)
    BY <1>4 DEF Net!SwitchClient, Net!Enable
  <2>2. \A e \in Net!makeClient(Calls[c].from) : e \in Net!End /\ e.from \notin Server
    BY <1>4 DEF Net!makeClient, Net!MakeEnds, Net!Connect, Net!End, Net!Senders
  <2>3. UNCHANGED <<reliable, longReordering, servers, names, saved, live, test, call>>
    BY <1>4 DEF Net!SwitchClient
  <2> QED
    BY <1>1, <2>1, <2>2, <2>3, EnableStep
<1> QED
  BY <1>2, <1>3, <1>4

(* The ends of server i by the names of now. *)
LEMMA EndsOfNow ==
  ASSUME Net!NetInv, NEW i \in Server, NEW to \in SUBSET Server, NEW e \in Net!endnames(i, to)
  PROVE  e \in Net!End /\ e.from \in Server /\ e.gen = Len(names[e.from])
<1>1. PICK x \in Server, y \in Server : e = Net!Connect(x, Net!Last(names[x]), y)
  <2>1. PICK j \in to : e \in {Net!Connect(i, Net!Last(names[i]), j), Net!Connect(j, Net!Last(names[j]), i)}
    BY DEF Net!endnames
  <2> QED
    BY <2>1
<1>2. names[x] \in Seq(Nat) /\ Len(names[x]) > 0 /\ \A k \in DOMAIN names[x] : names[x][k] = k
  BY DEF Net!NetInv, Net!TypeOK, Net!LastPersister
<1>3. Net!Last(names[x]) = Len(names[x])
  BY <1>2 DEF Net!Last
<1> QED
  BY <1>1, <1>2, <1>3 DEF Net!Connect, Net!End

LEMMA ConnectSteps ==
  ASSUME Net!NetInv, Net!ConnectAll \/ \E p \in SUBSET Server : Net!partition(p)
  PROVE  Net!NetInv'
<1>1. /\ test = Net!Idle /\ Net!AllUp
      /\ UNCHANGED <<reliable, longReordering, servers, names, saved, live, test, call>>
  BY DEF Net!ConnectAll, Net!partition, Net!Bench
<1>2. \A i \in Server : live[i] # 0
  BY <1>1 DEF Net!AllUp, Net!NetInv, Net!LastPersister
<1>3. \A e \in enabled' \ enabled : \E i \in Server, to \in SUBSET Server : e \in Net!endnames(i, to)
  <2>1. CASE Net!ConnectAll
    BY <2>1 DEF Net!ConnectAll, Net!connectUnlocked, Net!Enable
  <2>2. ASSUME NEW p \in SUBSET Server, Net!partition(p)
        PROVE  \A e \in enabled' \ enabled : \E i \in Server, to \in SUBSET Server : e \in Net!endnames(i, to)
    <3>1. \A e \in enabled' : \E i \in Server, to \in SUBSET Server : e \in Net!connectUnlocked(enabled, i, to)
      BY <2>2 DEF Net!partition
    <3> QED
      BY <3>1 DEF Net!connectUnlocked, Net!Enable
  <2> QED
    BY <2>1, <2>2
<1>4. reliable \in BOOLEAN /\ longReordering \in BOOLEAN
  BY DEF Net!NetInv, Net!TypeOK
<1> QED
  BY <1>1, <1>2, <1>3, <1>4, EndsOfNow, EnableStep

(* The test's steps change no call. *)
LEMMA BenchCalls ==
  ASSUME Net!CallsAssumption, Net!NetInv, UNCHANGED call,
         \A i \in Server : /\ \/ saved'[i] = saved[i]
                              \/ saved[i] # << >> /\ saved'[i] = Net!Copy(saved[i])
                           /\ \/ names'[i] = names[i] /\ live'[i] \in {live[i], 0}
                              \/ names'[i] = Net!FreshNames(i)
  PROVE  \A c \in DOMAIN Calls : Net!LateDisabled(c)' /\ Net!ReturnedSaved(c)'
<1>1. \A i \in Server : /\ saved[i] \in Seq(SUBSET DOMAIN Calls) /\ names[i] \in Seq(Nat)
                        /\ Len(saved[i]) > 0 /\ Len(names[i]) > 0
  BY DEF Net!NetInv, Net!TypeOK, Net!LastPersister
<1>2. \A i \in Server : /\ DOMAIN saved[i] \subseteq DOMAIN saved'[i]
                        /\ \A n \in DOMAIN saved[i] : saved[i][n] \subseteq saved'[i][n]
                        /\ Net!Last(saved[i]) \subseteq Net!Last(saved'[i])
  <2> SUFFICES ASSUME NEW i \in Server, saved'[i] = Net!Copy(saved[i])
               PROVE  /\ DOMAIN saved[i] \subseteq DOMAIN saved'[i]
                      /\ \A n \in DOMAIN saved[i] : saved[i][n] \subseteq saved'[i][n]
                      /\ Net!Last(saved[i]) \subseteq Net!Last(saved'[i])
    OBVIOUS
  <2>1. Net!Last(saved[i]) \in SUBSET DOMAIN Calls
    BY <1>1 DEF Net!Last
  <2>2. Net!Last(saved'[i]) = Net!Last(saved[i])
    BY <1>1, <2>1 DEF Net!Copy, Net!Last
  <2> QED
    BY <1>1, <2>1, <2>2 DEF Net!Copy
<1>3. \A i \in Server : names'[i] = Net!FreshNames(i) => Len(names'[i]) = Len(names[i]) + 1
  BY <1>1 DEF Net!FreshNames
<1>4. ASSUME NEW c \in DOMAIN Calls PROVE Net!LateDisabled(c)'
  <2>1. Net!LateDisabled(c)
    BY DEF Net!NetInv
  <2>2. call[c] # Net!Idle => call[c].end.gen \in Nat
    BY CallShapes DEF Net!NetInv, Net!End
  <2> SUFFICES ASSUME call[c] # Net!Idle, call[c].late
               PROVE  LET e == call[c].end
                      IN  /\ call[c].handler = "none" /\ e.from \in Server /\ e.gen <= Len(names'[e.from])
                          /\ live'[e.from] # 0 => e.gen < Len(names'[e.from])
    BY DEF Net!LateDisabled, Net!Idle
  <2> DEFINE e == call[c].end
  <2>3. /\ call[c].handler = "none" /\ e.from \in Server /\ e.gen <= Len(names[e.from])
        /\ live[e.from] # 0 => e.gen < Len(names[e.from])
    BY <2>1 DEF Net!LateDisabled
  <2>4. CASE names'[e.from] = names[e.from] /\ live'[e.from] \in {live[e.from], 0}
    BY <2>3, <2>4
  <2>5. CASE names'[e.from] = Net!FreshNames(e.from)
    BY SMTT(30), <1>1, <1>3, <2>2, <2>3, <2>5
  <2> QED
    BY <2>3, <2>4, <2>5
<1>5. \A c \in DOMAIN Calls : Net!ReturnedSaved(c)'
  BY <1>2, SavedGrows DEF Net!CallsAssumption
<1> QED
  BY <1>4, <1>5

LEMMA TestFields ==
  ASSUME Net!TypeOK
  PROVE  /\ test.at = "start" => test \in [at : {"start"}, server : Server]
         /\ test.at = "shutdown" => test \in [at : {"shutdown"}, server : Server, step : 1 .. 4]
         /\ test = Net!Idle => test.at = "idle"
BY DEF Net!TypeOK, Net!Idle

LEMMA ShutdownBegins ==
  ASSUME Net!CallsAssumption, Net!NetInv, NEW i \in Server, Net!ShutdownServer(i)
  PROVE  Net!NetInv'
<1>1. /\ test = Net!Idle /\ live[i] # 0 /\ test' = [at |-> "shutdown", server |-> i, step |-> 1]
      /\ UNCHANGED <<reliable, longReordering, enabled, servers, names, saved, live, call>>
  BY DEF Net!ShutdownServer, Net!network
<1>2. test'.at = "shutdown" /\ test'.server = i /\ test'.step = 1
  BY <1>1
<1>3. Net!TypeOK'
  BY <1>1 DEF Net!NetInv, Net!TypeOK
<1>4. Net!LastPersister' /\ Net!EnabledAlive'
  BY <1>1, <1>2 DEF Net!NetInv, Net!LastPersister, Net!EnabledAlive
<1>5. \A c \in DOMAIN Calls : Net!LateDisabled(c)' /\ Net!ReturnedSaved(c)'
  BY <1>1 DEF Net!NetInv, Net!LateDisabled, Net!ReturnedSaved, Net!Last
<1> QED
  BY <1>3, <1>4, <1>5 DEF Net!NetInv

(* Disconnect, delete, copy, kill: nothing of the server is enabled and it   *)
(* is out of the network before its persister is copied.                     *)
LEMMA ShutdownGoesOn ==
  ASSUME Net!CallsAssumption, Net!NetInv, Net!ShutdownStep
  PROVE  Net!NetInv'
<1> DEFINE i == test.server
           k == test.step
<1>1. /\ test.at = "shutdown" /\ i \in Server /\ k \in 1 .. 4
      /\ test = [at |-> "shutdown", server |-> i, step |-> k]
  BY TestFields DEF Net!ShutdownStep, Net!NetInv
<1>2. /\ Net!ShutdownOrder[1] = "disconnect" /\ Net!ShutdownOrder[2] = "delete"
      /\ Net!ShutdownOrder[3] = "copy" /\ Net!ShutdownOrder[4] = "kill" /\ Len(Net!ShutdownOrder) = 4
  BY DEF Net!ShutdownOrder
<1>3. /\ test' = IF k = 4 THEN Net!Idle ELSE [test EXCEPT !.step = k + 1]
      /\ enabled' = IF k = 1 THEN enabled \ Net!endnames(i, Server) ELSE enabled
      /\ servers' = IF k = 2 THEN [servers EXCEPT ![i] = 0] ELSE servers
      /\ saved' = IF k = 3 THEN [saved EXCEPT ![i] = Net!Copy(@)] ELSE saved
      /\ live' = IF k = 4 THEN [live EXCEPT ![i] = 0] ELSE live
      /\ UNCHANGED <<reliable, longReordering, names, call>>
  BY <1>1, <1>2 DEF Net!ShutdownStep, Net!disconnectUnlocked, Net!Enable, Net!DeleteServer
<1>4. /\ servers \in [Server -> Nat] /\ live \in [Server -> Nat]
      /\ names \in [Server -> Seq(Nat)] /\ saved \in [Server -> Seq(SUBSET DOMAIN Calls)]
      /\ \A j \in Server : Len(saved[j]) > 0
  BY DEF Net!NetInv, Net!TypeOK, Net!LastPersister
<1>5. CASE k = 4
  <2>1. /\ test' = Net!Idle /\ live' = [live EXCEPT ![i] = 0]
        /\ UNCHANGED <<reliable, longReordering, enabled, servers, saved, names, call>>
    BY <1>3, <1>5
  <2>2. test'.at = "idle"
    BY <2>1 DEF Net!Idle
  <2>3. Net!TypeOK'
    BY <1>4, <2>1 DEF Net!NetInv, Net!TypeOK
  <2>4. servers[i] = 0
    BY <1>1, <1>5 DEF Net!NetInv, Net!LastPersister
  <2>5. Net!LastPersister'
    BY <1>4, <2>1, <2>2, <2>4 DEF Net!NetInv, Net!LastPersister
  <2>6. \A e \in enabled : e.from # i
    BY <1>1, <1>5 DEF Net!NetInv, Net!EnabledAlive
  <2>7. Net!EnabledAlive'
    BY <1>4, <2>1, <2>2, <2>6 DEF Net!NetInv, Net!EnabledAlive
  <2>8. \A c \in DOMAIN Calls : Net!LateDisabled(c)' /\ Net!ReturnedSaved(c)'
    BY <1>4, <2>1, BenchCalls
  <2> QED
    BY <2>3, <2>5, <2>7, <2>8 DEF Net!NetInv
<1>6. CASE k # 4
  <2>1. /\ test' = [at |-> "shutdown", server |-> i, step |-> k + 1] /\ live' = live
        /\ test'.at = "shutdown" /\ test'.server = i /\ test'.step = k + 1
        /\ enabled' \subseteq enabled
        /\ UNCHANGED <<reliable, longReordering, names, call>>
    BY <1>1, <1>3, <1>6
  <2>2. Net!TypeOK'
    <3>1. servers' \in [Server -> Nat]
      BY <1>1, <1>3, <1>4
    <3>2. saved' \in [Server -> Seq(SUBSET DOMAIN Calls)]
      <4>1. Net!Copy(saved[i]) \in Seq(SUBSET DOMAIN Calls)
        BY <1>1, <1>4 DEF Net!Copy, Net!Last
      <4> QED
        BY <1>1, <1>3, <1>4, <4>1
    <3>3. test' \in [at : {"shutdown"}, server : Server, step : 1 .. 4]
      BY <1>1, <1>6, <2>1
    <3> QED
      BY <2>1, <3>1, <3>2, <3>3 DEF Net!NetInv, Net!TypeOK
  <2>3. Net!LastPersister'
    <3>1. \A j \in Server : Len(saved'[j]) > 0 /\ (servers'[j] # 0 => servers'[j] = servers[j])
      BY <1>1, <1>3, <1>4 DEF Net!Copy
    <3>2. \A j \in Server : servers'[j] # 0 => saved'[j] = saved[j]
      <4>1. k = 3 => servers[i] = 0
        BY <1>1 DEF Net!NetInv, Net!LastPersister
      <4> QED
        BY <1>1, <1>3, <1>4, <4>1
    <3>3. k + 1 > 2 => servers'[i] = 0
      <4>1. k = 3 => servers[i] = 0
        BY <1>1 DEF Net!NetInv, Net!LastPersister
      <4> QED
        BY <1>1, <1>3, <1>4, <1>6, <4>1
    <3> QED
      BY <1>3, <2>1, <3>1, <3>2, <3>3 DEF Net!NetInv, Net!LastPersister
  <2>4. Net!EnabledAlive'
    <3>1. \A e \in enabled' : e.from # i
      <4>1. ASSUME NEW e \in enabled, e.from = i PROVE k = 1 /\ e \in Net!endnames(i, Server)
        <5>1. k = 1 /\ e.gen = Len(names[i])
          BY <1>1, <4>1 DEF Net!NetInv, Net!EnabledAlive
        <5>2. e = Net!Connect(i, Len(names[i]), e.to) /\ e.to \in Server
          BY <4>1, <5>1 DEF Net!NetInv, Net!TypeOK, Net!End, Net!Connect
        <5>3. Net!Last(names[i]) = Len(names[i])
          BY <1>1, <1>4 DEF Net!Last, Net!NetInv, Net!LastPersister
        <5> QED
          BY <5>1, <5>2, <5>3 DEF Net!endnames
      <4> QED
        BY <1>3, <4>1
    <3> QED
      BY <2>1, <3>1 DEF Net!NetInv, Net!EnabledAlive
  <2>5. \A c \in DOMAIN Calls : Net!LateDisabled(c)' /\ Net!ReturnedSaved(c)'
    BY <1>1, <1>3, <1>4, <2>1, BenchCalls
  <2> QED
    BY <2>2, <2>3, <2>4, <2>5 DEF Net!NetInv
<1> QED
  BY <1>5, <1>6

(* A server that is down has no enabled end, and gets names of its own.     *)
LEMMA StartBegins ==
  ASSUME Net!CallsAssumption, Net!NetInv, NEW i \in Server, Net!StartServer(i)
  PROVE  Net!NetInv'
<1>1. /\ test = Net!Idle /\ live[i] = 0 /\ test' = [at |-> "start", server |-> i]
      /\ names' = [names EXCEPT ![i] = Net!FreshNames(i)]
      /\ saved' = [saved EXCEPT ![i] = Net!Copy(@)]
      /\ live' = [live EXCEPT ![i] = Len(saved[i]) + 1]
      /\ UNCHANGED <<reliable, longReordering, enabled, servers, call>>
  BY DEF Net!StartServer, Net!network
<1>2. test'.at = "start" /\ test'.server = i /\ test.at = "idle"
  BY <1>1 DEF Net!Idle
<1>3. /\ servers \in [Server -> Nat] /\ live \in [Server -> Nat]
      /\ names \in [Server -> Seq(Nat)] /\ saved \in [Server -> Seq(SUBSET DOMAIN Calls)]
      /\ \A j \in Server : /\ Len(saved[j]) > 0 /\ Len(names[j]) > 0
                           /\ \A k \in DOMAIN names[j] : names[j][k] = k
  BY DEF Net!NetInv, Net!TypeOK, Net!LastPersister
<1>4. /\ Net!Copy(saved[i]) \in Seq(SUBSET DOMAIN Calls) /\ Len(Net!Copy(saved[i])) = Len(saved[i]) + 1
  <2>1. Net!Last(saved[i]) \in SUBSET DOMAIN Calls
    BY <1>3 DEF Net!Last
  <2> QED
    BY <1>3, <2>1 DEF Net!Copy
<1>5. /\ Net!FreshNames(i) \in Seq(Nat) /\ Len(Net!FreshNames(i)) = Len(names[i]) + 1
      /\ \A k \in DOMAIN Net!FreshNames(i) : Net!FreshNames(i)[k] = k
  <2>1. names[i] \in Seq(Nat)
    BY <1>3
  <2>2. \A k \in 1 .. Len(names[i]) + 1 : Append(names[i], Len(names[i]) + 1)[k] = k
    BY <1>3, <2>1
  <2> QED
    BY <2>1, <2>2 DEF Net!FreshNames
<1>6. Net!TypeOK'
  <2>1. names' \in [Server -> Seq(Nat)] /\ saved' \in [Server -> Seq(SUBSET DOMAIN Calls)]
    BY <1>1, <1>3, <1>4, <1>5
  <2>2. live' \in [Server -> Nat]
    BY <1>1, <1>3
  <2> QED
    BY <1>1, <2>1, <2>2 DEF Net!NetInv, Net!TypeOK
<1>7. servers[i] = 0
  BY <1>1 DEF Net!NetInv, Net!LastPersister
<1>8. Net!LastPersister'
  <2> SUFFICES ASSUME NEW j \in Server
               PROVE  /\ Len(saved'[j]) > 0 /\ Len(names'[j]) > 0 /\ \A k \in DOMAIN names'[j] : names'[j][k] = k
                      /\ servers[j] # 0 => servers[j] = Len(saved'[j]) /\ live'[j] # 0
                      /\ i = j => live'[j] = Len(saved'[j])
    BY <1>1, <1>2 DEF Net!LastPersister
  <2>1. CASE j = i
    BY <1>1, <1>3, <1>4, <1>5, <1>7, <2>1
  <2>2. CASE j # i
    <3>1. saved'[j] = saved[j] /\ names'[j] = names[j] /\ live'[j] = live[j]
      BY <1>1, <1>3, <2>2
    <3> QED
      BY <1>3, <2>2, <3>1 DEF Net!NetInv, Net!LastPersister
  <2> QED
    BY <2>1, <2>2
<1>9. Net!EnabledAlive'
  <2>1. \A e \in enabled : e.from # i
    BY <1>1 DEF Net!NetInv, Net!EnabledAlive
  <2> QED
    BY <1>1, <1>2, <1>3, <2>1 DEF Net!NetInv, Net!EnabledAlive
<1>10. \A c \in DOMAIN Calls : Net!LateDisabled(c)' /\ Net!ReturnedSaved(c)'
  <2>1. \A j \in Server : /\ saved'[j] = saved[j] \/ (saved[j] # << >> /\ saved'[j] = Net!Copy(saved[j]))
                          /\ \/ names'[j] = names[j] /\ live'[j] \in {live[j], 0}
                             \/ names'[j] = Net!FreshNames(j)
    BY <1>1, <1>3
  <2> QED
    BY <1>1, <2>1, BenchCalls
<1> QED
  BY <1>6, <1>8, <1>9, <1>10 DEF Net!NetInv

LEMMA StartEnds ==
  ASSUME Net!NetInv, Net!AddServer
  PROVE  Net!NetInv'
<1> DEFINE i == test.server
<1>1. /\ test.at = "start" /\ i \in Server /\ servers' = [servers EXCEPT ![i] = live[i]]
      /\ test' = Net!Idle
      /\ UNCHANGED <<reliable, longReordering, enabled, names, saved, live, call>>
  BY TestFields DEF Net!AddServer, Net!NetInv
<1>2. test'.at = "idle"
  BY <1>1 DEF Net!Idle
<1>3. Net!TypeOK'
  BY <1>1 DEF Net!NetInv, Net!TypeOK
<1>4. Net!LastPersister'
  <2>1. live[i] = Len(saved[i]) /\ Len(saved[i]) > 0 /\ servers \in [Server -> Nat]
    BY <1>1 DEF Net!NetInv, Net!TypeOK, Net!LastPersister
  <2> QED
    BY <1>1, <1>2, <2>1 DEF Net!NetInv, Net!LastPersister
<1>5. Net!EnabledAlive'
  BY <1>1, <1>2 DEF Net!NetInv, Net!EnabledAlive
<1>6. \A c \in DOMAIN Calls : Net!LateDisabled(c)' /\ Net!ReturnedSaved(c)'
  BY <1>1 DEF Net!NetInv, Net!LateDisabled, Net!ReturnedSaved, Net!Last
<1> QED
  BY <1>3, <1>4, <1>5, <1>6 DEF Net!NetInv

LEMMA NetNext ==
  ASSUME Net!CallsAssumption
  PROVE  Net!NetInv /\ [Net!Next]_Net!vars => Net!NetInv'
<1> SUFFICES ASSUME Net!NetInv, [Net!Next]_Net!vars PROVE Net!NetInv'
  OBVIOUS
<1>1. CASE Net!Next
  BY <1>1, CallMade, ReplySteps, ProcessStep, DispatchStep, SwitchSteps, ConnectSteps,
     ShutdownBegins, ShutdownGoesOn, StartBegins, StartEnds
  DEF Net!Next
<1>2. CASE UNCHANGED Net!vars
  <2>1. UNCHANGED <<reliable, longReordering, enabled, servers, names, saved, live, test, call>>
    BY <1>2 DEF Net!vars, Net!network, Net!bench
  <2>2. reliable \in BOOLEAN /\ longReordering \in BOOLEAN
    BY DEF Net!NetInv, Net!TypeOK
  <2> QED
    BY <2>1, <2>2, EnableStep
<1> QED
  BY <1>1, <1>2

(* Network and bench of the key/value lab (labrpc.go, config.go), for any   *)
(* servers, calls, restarts and switches: a call that returned true has its *)
(* update in the persister the server is or will be restarted with, and     *)
(* what a killed and replaced instance sends reaches nobody.                *)
THEOREM NetworkTellsTruthHolds ==
  ASSUME Net!CallsAssumption
  PROVE  Net!Spec => []Net!NetworkTellsTruth
<1>1. Net!NetInv => Net!NetworkTellsTruth
  <2> SUFFICES ASSUME Net!NetInv, NEW c \in DOMAIN Calls
               PROVE  /\ call[c].at = "true" => c \in Net!Last(saved[Calls[c].to])
                      /\ call[c] # Net!Idle /\ call[c].late => call[c].handler = "none"
    BY DEF Net!NetworkTellsTruth, Net!TrueIsDurable, Net!ReplacedIsIsolated
  <2>1. Net!LateDisabled(c) /\ Net!ReturnedSaved(c) /\ Net!Idle.at # "true"
    BY DEF Net!NetInv, Net!Idle
  <2> QED
    BY <2>1 DEF Net!LateDisabled, Net!ReturnedSaved
<1> QED
  BY <1>1, NetInit, NetNext, PTL DEF Net!Spec

(* make_partition (config.go): for any odd number of servers, whichever say *)
(* that they lead: every server is in one part, and a leader in the smaller. *)
THEOREM LeaderInMinorityHolds ==
  ASSUME NEW k \in Nat \ {0}, NEW leads \in SUBSET (0 .. 2 * k)
  PROVE  Net!LeaderInMinority(2 * k + 1, leads)
<1> DEFINE n == 2 * k + 1
           l == Net!Leader(leads)
           other(j) == IF j <= l THEN j - 1 ELSE j
           p1 == {other(j) : j \in 1 .. k + 1}
           p2 == {other(j) : j \in k + 2 .. 2 * k} \cup {l}
<1>1. l \in 0 .. 2 * k /\ (leads # {} => l \in leads)
  <2>1. CASE leads = {}
    BY <2>1 DEF Net!Leader
  <2>2. CASE leads # {}
    <3>1. \E m \in leads : \A i \in leads : m <= i
      <4>1. leads \subseteq Nat
        OBVIOUS
      <4> DEFINE R == {s \in Nat \X Nat : s[1] < s[2]}
      <4>2. IsWellFoundedOn(R, Nat)
        BY NatLessThanWellFounded DEF OpToRel
      <4>3. \A i, j \in Nat : i < j => <<i, j>> \in R
        OBVIOUS
      <4> HIDE DEF R
      <4>4. PICK m \in leads : \A i \in leads : ~(<<i, m>> \in R)
        BY <2>2, <4>1, <4>2, WFMin
      <4>5. ASSUME NEW i \in leads PROVE m <= i
        <5>1. m \in Nat /\ i \in Nat /\ ~(i < m)
          BY <4>1, <4>3, <4>4
        <5> QED
          BY <5>1
      <4> QED
        BY <4>5
    <3> QED
      BY <2>2, <3>1 DEF Net!Leader
  <2> QED
    BY <2>1, <2>2
<1>2. Net!make_partition(n, leads) = <<p1, p2>>
  <2>1. n \div 2 = k /\ Net!Majority(n) = k + 1
    BY DEF Net!Majority
  <2>2. {IF j < n THEN [i \in 1 .. n - 1 |-> other(i)][j] ELSE 0 : j \in k + 2 .. k + 1 + k - 1}
          = {other(j) : j \in k + 2 .. 2 * k}
    <3>1. k + 1 + 1 = k + 2 /\ k + 1 + k - 1 = 2 * k
      OBVIOUS
    <3>2. \A j \in k + 2 .. 2 * k : j < n /\ j \in 1 .. n - 1
      OBVIOUS
    <3> HIDE DEF l
    <3> QED
      BY <3>1, <3>2
  <2>3. {[i \in 1 .. n - 1 |-> other(i)][j] : j \in 1 .. k + 1} = p1
    <3>1. \A j \in 1 .. k + 1 : j \in 1 .. n - 1
      OBVIOUS
    <3> HIDE DEF l
    <3> QED
      BY <3>1
  <2>4. Net!make_partition(n, leads)
          = <<{[i \in 1 .. n - 1 |-> other(i)][j] : j \in 1 .. k + 1},
              {IF j < n THEN [i \in 1 .. n - 1 |-> other(i)][j] ELSE 0 : j \in k + 2 .. k + 1 + k - 1} \cup {l}>>
    <3>1. k + 1 + 1 = k + 2
      OBVIOUS
    <3> HIDE DEF n
    <3> QED
      BY <2>1, <3>1 DEF Net!make_partition
  <2> QED
    BY <2>2, <2>3, <2>4
<1> HIDE DEF l
<1>3. p1 \cup p2 = 0 .. n - 1
  <2>1. \A i \in 0 .. 2 * k : i = l \/ \E j \in 1 .. 2 * k : other(j) = i
    <3> SUFFICES ASSUME NEW i \in 0 .. 2 * k, i # l PROVE \E j \in 1 .. 2 * k : other(j) = i
      OBVIOUS
    <3>1. i < l => i + 1 \in 1 .. 2 * k /\ other(i + 1) = i
      BY <1>1
    <3>2. i > l => i \in 1 .. 2 * k /\ other(i) = i
      BY <1>1
    <3> QED
      BY <1>1, <3>1, <3>2
  <2>2. \A j \in 1 .. 2 * k : other(j) \in 0 .. 2 * k
    BY <1>1
  <2>3. \A j \in 1 .. 2 * k : j \in 1 .. k + 1 \/ j \in k + 2 .. 2 * k
    OBVIOUS
  <2>4. \A j : j \in 1 .. k + 1 \/ j \in k + 2 .. 2 * k => j \in 1 .. 2 * k
    OBVIOUS
  <2>5. p1 \cup p2 = {other(j) : j \in 1 .. 2 * k} \cup {l}
    BY <2>3, <2>4
  <2>6. \A i \in 0 .. 2 * k : i \in p1 \cup p2
    BY <2>1, <2>5
  <2>7. \A i \in p1 \cup p2 : i \in 0 .. 2 * k
    BY <1>1, <2>2, <2>5
  <2>8. n - 1 = 2 * k
    OBVIOUS
  <2> HIDE DEF p1, p2, n
  <2> QED
    BY <2>6, <2>7, <2>8
<1>4. p1 \cap p2 = {}
  <2>1. \A i, j \in 1 .. 2 * k : other(i) # l /\ (other(i) = other(j) => i = j)
    BY <1>1
  <2>2. \A i \in 1 .. k + 1 : \A j \in k + 2 .. 2 * k : i # j /\ i \in 1 .. 2 * k /\ j \in 1 .. 2 * k
    OBVIOUS
  <2> QED
    BY <2>1, <2>2
<1>5. IsFiniteSet(p2) /\ Cardinality(p2) <= k
  <2> DEFINE f == [j \in k + 2 .. 2 * k + 1 |-> IF j = 2 * k + 1 THEN l ELSE other(j)]
  <2>1. IsFiniteSet(k + 2 .. 2 * k + 1) /\ Cardinality(k + 2 .. 2 * k + 1) = k
    <3>1. 2 * k + 1 \in Int /\ k + 2 \in Int /\ 2 * k + 1 - (k + 2) + 1 = k /\ (k + 2 > 2 * k + 1 <=> k < 1)
      OBVIOUS
    <3> QED
      BY <3>1, FS_Interval
  <2>2. f \in Surjection(k + 2 .. 2 * k + 1, p2)
    <3>1. \A j \in k + 2 .. 2 * k + 1 : f[j] \in p2
      OBVIOUS
    <3>2. \A x \in p2 : \E j \in k + 2 .. 2 * k + 1 : f[j] = x
      OBVIOUS
    <3> QED
      BY <3>1, <3>2 DEF Surjection
  <2> QED
    BY <2>1, <2>2, FS_Surjection
<1>6. 2 * Net!Cardinality(p2) < n
  <2>1. Net!Cardinality(p2) = Cardinality(p2)
    BY DEF Net!Cardinality, Cardinality
  <2>2. Cardinality(p2) \in Nat
    BY <1>5, FS_CardinalityType
  <2> QED
    BY <1>5, <2>1, <2>2
<1> HIDE DEF p1
<1>7. leads # {} => \E m \in leads : m \in p2
  BY <1>1
<1> HIDE DEF p2
<1> QED
  BY <1>2, <1>3, <1>4, <1>6, <1>7 DEF Net!LeaderInMinority

-----------------------------------------------------------------------------
(* A sequence, of whatever. *)
IsList(s) == \E S : s \in Seq(S)
Size(s) == Len(s)

(* Appending to a list. *)
LEMMA AppendToList ==
  ASSUME NEW s, NEW e, IsList(s)
  PROVE  /\ IsList(Append(s, e)) /\ Append(s, e) # << >>
         /\ Size(s) \in Nat /\ Size(Append(s, e)) = Size(s) + 1
         /\ Append(s, e)[Size(s) + 1] = e
         /\ \A i \in 1 .. Size(s) : Append(s, e)[i] = s[i]
<1>1. PICK S : s \in Seq(S)
  BY DEF IsList
<1>2. s \in Seq(S \cup {e}) /\ e \in S \cup {e}
  BY <1>1
<1> HIDE DEF IsList
<1>3. Append(s, e) \in Seq(S \cup {e})
  BY <1>2
<1>4. IsList(Append(s, e))
  BY <1>3 DEF IsList
<1> QED
  BY <1>2, <1>4 DEF Size

LEMMA TailOfList ==
  ASSUME NEW s, IsList(s), s # << >>
  PROVE  /\ IsList(Tail(s)) /\ Size(s) \in Nat /\ Size(s) > 0
         /\ Size(Tail(s)) = Size(s) - 1
         /\ \A i \in 1 .. Size(s) - 1 : Tail(s)[i] = s[i + 1]
         /\ Head(s) = s[1]
<1>1. PICK S : s \in Seq(S)
  BY DEF IsList
<1>2. Tail(s) \in Seq(S)
  BY <1>1
<1>3. IsList(Tail(s))
  BY <1>2 DEF IsList
<1> QED
  BY <1>1, <1>3 DEF Size

-----------------------------------------------------------------------------
(* Proof of work in C (PowMiners). *)
CONSTANTS Miner, Length
VARIABLES chain, buffer, block, state, socket, appended, crossed

Pow == INSTANCE PowMiners

(* What a list or a socket looks like, and the blocks searched for: on top  *)
(* of the block appended last.                                              *)
MinersTypeOK ==
  /\ crossed \in BOOLEAN
  /\ chain = [p \in Miner |-> chain[p]] /\ buffer = [p \in Miner |-> buffer[p]]
  /\ block = [p \in Miner |-> block[p]] /\ state = [p \in Miner |-> state[p]]
  /\ socket = [p \in Miner |-> socket[p]] /\ appended = [p \in Miner |-> appended[p]]
  /\ \A p \in Miner : /\ IsList(chain[p]) /\ IsList(socket[p]) /\ IsList(appended[p])
                      /\ chain[p] # << >> /\ appended[p] # << >>

OnTop ==
  \A p \in Miner :
    /\ Pow!Pointed(chain[p][Size(chain[p])], buffer[p]) = appended[p][Size(appended[p])]
    /\ state[p] = "mining" => block[p] = [by |-> p, hashPrevBlock |-> appended[p][Size(appended[p])]]

(* As long as no blocks have crossed: p is behind q by what is on its way,  *)
(* or p has ended, and nothing is on its way to q.                          *)
Behind(p, q) ==
  /\ Size(appended[p]) <= Size(appended[q])
  /\ \A i \in 1 .. Size(appended[p]) : appended[p][i] = appended[q][i]
  /\ state[q] = "mining" => socket[q] = << >>
  /\ state[p] = "mining" =>
       /\ Size(appended[q]) = Size(appended[p]) + Size(socket[p])
       /\ \A i \in 1 .. Size(socket[p]) : appended[q][Size(appended[p]) + i] = socket[p][i]

MinersInv ==
  /\ MinersTypeOK /\ OnTop /\ Pow!NoneAhead
  /\ ~crossed => /\ \A p \in Miner : Pow!Linked(appended[p])
                 /\ \E p, q \in Miner : p # q /\ Behind(p, q)

LEMMA MinersPair ==
  ASSUME Pow!MinersAssumption
  PROVE  \A p \in Miner : /\ Pow!Other(p) \in Miner /\ Pow!Other(p) # p
                          /\ \A q \in Miner : q # p => q = Pow!Other(p)
BY DEF Pow!MinersAssumption, Pow!Other

(* What Extended leaves of the lists of p. *)
Grown(p, entry, b) ==
  /\ chain' = [chain EXCEPT ![p] = Append(@, entry)]
  /\ appended' = [appended EXCEPT ![p] = Append(@, b)]
  /\ block' = [q \in Miner |-> block'[q]] /\ state' = [q \in Miner |-> state'[q]]
  /\ \A q \in Miner : q # p => state'[q] = state[q]
  /\ state'[p] \in {"mining", "closed"}
  /\ IsList(chain'[p]) /\ IsList(appended'[p]) /\ chain'[p] # << >> /\ appended'[p] # << >>
  /\ Size(chain'[p]) = Size(chain[p]) + 1 /\ Size(appended'[p]) = Size(appended[p]) + 1
  /\ Size(chain[p]) \in Nat /\ Size(appended[p]) \in Nat
  /\ appended'[p][Size(appended[p]) + 1] = b
  /\ \A i \in 1 .. Size(appended[p]) : appended'[p][i] = appended[p][i]
  /\ OnTop'

(* A list is what it is called with, entry by entry. *)
LEMMA ExtendedDoes ==
  ASSUME MinersTypeOK, OnTop, NEW p \in Miner, NEW entry, NEW b, NEW buf,
         Pow!Extended(p, entry, b, buf), Pow!Pointed(entry, buf) = b, state[p] = "mining",
         buffer' = [buffer EXCEPT ![p] = buf]
  PROVE  Grown(p, entry, b)
<1> DEFINE list == Append(chain[p], entry)
<1>1. chain' = [chain EXCEPT ![p] = Append(@, entry)] /\ appended' = [appended EXCEPT ![p] = Append(@, b)]
  BY DEF Pow!Extended
<1>2. /\ chain'[p] = list /\ appended'[p] = Append(appended[p], b) /\ buffer'[p] = buf
      /\ \A q \in Miner : q # p => chain'[q] = chain[q] /\ appended'[q] = appended[q] /\ buffer'[q] = buffer[q]
  <2>1. /\ chain = [q \in Miner |-> chain[q]] /\ appended = [q \in Miner |-> appended[q]]
        /\ buffer = [q \in Miner |-> buffer[q]]
    BY DEF MinersTypeOK
  <2> QED
    BY <1>1, <2>1
<1>3. /\ IsList(list) /\ list # << >> /\ Size(list) = Size(chain[p]) + 1 /\ Size(chain[p]) \in Nat
      /\ list[Size(list)] = entry
  <2>1. IsList(chain[p])
    BY DEF MinersTypeOK
  <2> QED
    <3>1. /\ IsList(list) /\ list # << >> /\ Size(list) = Size(chain[p]) + 1 /\ Size(chain[p]) \in Nat
          /\ list[Size(chain[p]) + 1] = entry
      BY <2>1, AppendToList, Zenon
    <3> HIDE DEF list
    <3> QED
      BY <3>1
<1>4. /\ IsList(appended'[p]) /\ appended'[p] # << >> /\ Size(appended'[p]) = Size(appended[p]) + 1
      /\ Size(appended[p]) \in Nat
      /\ appended'[p][Size(appended[p]) + 1] = b
      /\ \A i \in 1 .. Size(appended[p]) : appended'[p][i] = appended[p][i]
  <2>1. IsList(appended[p])
    BY DEF MinersTypeOK
  <2> QED
    <3> DEFINE t == Append(appended[p], b)
    <3>1. /\ IsList(t) /\ t # << >> /\ Size(t) = Size(appended[p]) + 1 /\ Size(appended[p]) \in Nat
          /\ t[Size(appended[p]) + 1] = b
          /\ \A i \in 1 .. Size(appended[p]) : t[i] = appended[p][i]
      BY ZenonT(30), <2>1, AppendToList
    <3>2. appended'[p] = t
      BY <1>2
    <3> HIDE DEF t
    <3> QED
      BY <3>1, <3>2, Zenon
<1>5. /\ block' = [q \in Miner |-> block'[q]] /\ state' = [q \in Miner |-> state'[q]]
      /\ \A q \in Miner : q # p => state'[q] = state[q] /\ block'[q] = block[q]
      /\ state'[p] \in {"mining", "closed"}
      /\ state'[p] = "mining" => block'[p] = Pow!block_init(p, list, buf)
  <2>1. /\ block = [q \in Miner |-> block[q]] /\ state = [q \in Miner |-> state[q]]
    BY DEF MinersTypeOK
  <2>2. CASE Size(list) < Length
    BY <2>1, <2>2 DEF Pow!Extended
  <2>3. CASE ~(Size(list) < Length)
    BY <2>1, <2>3 DEF Pow!Extended
  <2> QED
    BY <2>2, <2>3
<1>6. OnTop'
  <2> SUFFICES ASSUME NEW q \in Miner
               PROVE  /\ Pow!Pointed(chain'[q][Size(chain'[q])], buffer'[q]) = appended'[q][Size(appended'[q])]
                      /\ state'[q] = "mining" => block'[q] = [by |-> q, hashPrevBlock |-> appended'[q][Size(appended'[q])]]
    BY DEF OnTop, Pow!Pointed, Pow!ToBuffer
  <2>1. CASE q # p
    <3>1. /\ Pow!Pointed(chain[q][Size(chain[q])], buffer[q]) = appended[q][Size(appended[q])]
          /\ state[q] = "mining" => block[q] = [by |-> q, hashPrevBlock |-> appended[q][Size(appended[q])]]
      BY DEF OnTop
    <3>2. /\ chain'[q] = chain[q] /\ buffer'[q] = buffer[q] /\ appended'[q] = appended[q]
          /\ state'[q] = state[q] /\ block'[q] = block[q]
      BY <1>2, <1>5, <2>1
    <3> QED
      BY <3>1, <3>2
  <2>2. CASE q = p
    <3>1. Pow!Pointed(list[Size(list)], buf) = appended'[p][Size(appended'[p])]
      BY <1>3, <1>4
    <3>2. Pow!block_init(p, list, buf) = [by |-> p, hashPrevBlock |-> Pow!Pointed(list[Size(list)], buf)]
      BY DEF Pow!block_init, Pow!Last, Size
    <3> QED
      BY <1>2, <1>5, <2>2, <3>1, <3>2
  <2> QED
    BY <2>1, <2>2
<1> HIDE DEF list
<1> QED
  BY Zenon, <1>1, <1>2, <1>3, <1>4, <1>5, <1>6 DEF Grown

(* A block on top of the last of a linked list. *)
LEMMA LinkedOnTop ==
  ASSUME MinersTypeOK, NEW p \in Miner, Pow!Linked(appended[p]), NEW b,
         b.hashPrevBlock = appended[p][Size(appended[p])],
         Size(appended[p]) \in Nat, Size(appended'[p]) = Size(appended[p]) + 1,
         appended'[p][Size(appended[p]) + 1] = b,
         \A i \in 1 .. Size(appended[p]) : appended'[p][i] = appended[p][i]
  PROVE  Pow!Linked(appended'[p])
<1> SUFFICES ASSUME NEW i \in 2 .. Size(appended'[p])
             PROVE  appended'[p][i].hashPrevBlock = appended'[p][i - 1]
  BY DEF Pow!Linked, Size
<1>1. \A j \in 2 .. Size(appended[p]) : appended[p][j].hashPrevBlock = appended[p][j - 1]
  BY DEF Pow!Linked, Size
<1>2. CASE i = Size(appended[p]) + 1
  BY <1>2
<1>3. CASE i # Size(appended[p]) + 1
  <2>1. i \in 2 .. Size(appended[p]) /\ i \in 1 .. Size(appended[p]) /\ i - 1 \in 1 .. Size(appended[p])
    BY <1>3
  <2> QED
    BY <1>1, <2>1
<1> QED
  BY <1>2, <1>3

LEMMA FoundStep ==
  ASSUME Pow!MinersAssumption, MinersInv, NEW p \in Miner, Pow!Found(p)
  PROVE  MinersInv'
<1> DEFINE q == Pow!Other(p)
           b == block[p]
<1>1. q \in Miner /\ q # p /\ Miner = {p, q} /\ Pow!Other(q) = p
  BY MinersPair DEF Pow!MinersAssumption
<1> HIDE DEF q
<1>2. /\ MinersTypeOK /\ OnTop /\ Pow!NoneAhead /\ state[p] = "mining"
      /\ b = [by |-> p, hashPrevBlock |-> appended[p][Size(appended[p])]]
  BY DEF MinersInv, OnTop, Pow!Found
<1>3. Pow!Pointed(b, buffer[p]) = b
  <2>1. "hashPrevBlock" \in DOMAIN b /\ "hashPrevBlock" \notin DOMAIN Pow!ToBuffer
    BY <1>2 DEF Pow!ToBuffer
  <2> QED
    BY <2>1 DEF Pow!Pointed
<1>4. buffer' = [buffer EXCEPT ![p] = buffer[p]]
  BY <1>2 DEF Pow!Found, MinersTypeOK
<1>5. /\ Pow!Extended(p, b, b, buffer[p])
      /\ socket' = IF state[q] = "mining" THEN [socket EXCEPT ![q] = Append(@, b)] ELSE socket
      /\ crossed' = (crossed \/ socket[p] # << >>)
  BY DEF Pow!Found, q
<1>6. /\ chain' = [chain EXCEPT ![p] = Append(@, b)]
      /\ appended' = [appended EXCEPT ![p] = Append(@, b)]
      /\ block' = [r \in Miner |-> block'[r]] /\ state' = [r \in Miner |-> state'[r]]
      /\ state'[q] = state[q]
      /\ IsList(chain'[p]) /\ IsList(appended'[p]) /\ chain'[p] # << >> /\ appended'[p] # << >>
      /\ Size(chain'[p]) = Size(chain[p]) + 1 /\ Size(appended'[p]) = Size(appended[p]) + 1
      /\ Size(chain[p]) \in Nat /\ Size(appended[p]) \in Nat
      /\ appended'[p][Size(appended[p]) + 1] = b
      /\ \A i \in 1 .. Size(appended[p]) : appended'[p][i] = appended[p][i]
      /\ OnTop'
  <2>1. PICK e, f : e = block[p] /\ f = buffer[p]
    OBVIOUS
  <2>2. Pow!Extended(p, e, e, f)
    BY <1>5, <2>1 DEF Pow!Extended
  <2>3. Pow!Pointed(e, f) = e /\ buffer' = [buffer EXCEPT ![p] = f]
    BY <1>3, <1>4, <2>1
  <2>4. chain' = [chain EXCEPT ![p] = Append(@, e)] /\ appended' = [appended EXCEPT ![p] = Append(@, e)]
    BY <2>2 DEF Pow!Extended
  <2>g. Grown(p, e, e)
    BY Zenon, <1>2, <2>2, <2>3, ExtendedDoes
  <2>8. OnTop'
    BY Zenon, <2>g DEF Grown
  <2>5. /\ block' = [r \in Miner |-> block'[r]] /\ state' = [r \in Miner |-> state'[r]]
        /\ \A r \in Miner : r # p => state'[r] = state[r]
    BY Zenon, <2>g DEF Grown
  <2>6. /\ IsList(chain'[p]) /\ IsList(appended'[p]) /\ chain'[p] # << >> /\ appended'[p] # << >>
        /\ Size(chain'[p]) = Size(chain[p]) + 1 /\ Size(appended'[p]) = Size(appended[p]) + 1
        /\ Size(chain[p]) \in Nat /\ Size(appended[p]) \in Nat
    BY Zenon, <2>g DEF Grown
  <2>7. appended'[p][Size(appended[p]) + 1] = e
    <3>1. Append(appended[p], e)[Size(appended[p]) + 1] = e
      <4>1. IsList(appended[p])
        BY <1>2 DEF MinersTypeOK
      <4> QED
        BY <4>1, AppendToList, Zenon
    <3>2. appended'[p] = Append(appended[p], e)
      BY <1>2, <2>4 DEF MinersTypeOK
    <3> QED
      BY <3>1, <3>2, Zenon
  <2>9. \A i \in 1 .. Size(appended[p]) : appended'[p][i] = appended[p][i]
    BY Zenon, <2>g DEF Grown
  <2> QED
    BY <1>1, <2>1, <2>4, <2>5, <2>6, <2>7, <2>8, <2>9
<1>7. /\ chain'[q] = chain[q] /\ appended'[q] = appended[q] /\ socket'[p] = socket[p]
      /\ state[q] = "mining" => socket'[q] = Append(socket[q], b)
      /\ state[q] # "mining" => socket'[q] = socket[q]
      /\ chain' = [r \in Miner |-> chain'[r]] /\ appended' = [r \in Miner |-> appended'[r]]
      /\ socket' = [r \in Miner |-> socket'[r]] /\ buffer' = [r \in Miner |-> buffer'[r]]
  BY ZenonT(30), <1>1, <1>2, <1>4, <1>5, <1>6 DEF MinersTypeOK
<1>8. /\ IsList(socket[p]) /\ IsList(socket[q]) /\ IsList(socket'[q])
      /\ state[q] = "mining" => /\ Size(socket[q]) \in Nat /\ Size(socket'[q]) = Size(socket[q]) + 1
                                /\ socket'[q][Size(socket[q]) + 1] = b
                                /\ \A i \in 1 .. Size(socket[q]) : socket'[q][i] = socket[q][i]
  <2>1. IsList(socket[p]) /\ IsList(socket[q])
    BY <1>1, <1>2 DEF MinersTypeOK
  <2> QED
    <3>1. /\ IsList(Append(socket[q], b)) /\ Size(socket[q]) \in Nat
          /\ Size(Append(socket[q], b)) = Size(socket[q]) + 1 /\ Append(socket[q], b)[Size(socket[q]) + 1] = b
          /\ \A i \in 1 .. Size(socket[q]) : Append(socket[q], b)[i] = socket[q][i]
      BY <2>1, AppendToList, Zenon
    <3> QED
      BY <1>7, <2>1, <3>1, Zenon
<1>9. MinersTypeOK'
  BY ZenonT(30), <1>1, <1>2, <1>5, <1>6, <1>7, <1>8 DEF MinersTypeOK
<1>10. Pow!NoneAhead'
  <2>1. CASE state'[p] = "mining" /\ state[q] = "mining"
    <3>1. \A r, s \in Miner : Size(chain[r]) + Size(socket[r]) = Size(chain[s]) + Size(socket[s])
      BY <1>1, <1>2, <2>1 DEF Pow!NoneAhead, Size
    <3>2. Size(chain'[p]) + Size(socket'[p]) = Size(chain'[q]) + Size(socket'[q])
      <4>1. Size(chain[p]) + Size(socket[p]) = Size(chain[q]) + Size(socket[q])
        BY <1>1, <3>1
      <4>2. Size(chain[p]) \in Nat /\ Size(socket[p]) \in Nat /\ Size(chain[q]) \in Nat /\ Size(socket[q]) \in Nat
        <5>1. IsList(chain[p]) /\ IsList(socket[p]) /\ IsList(chain[q]) /\ IsList(socket[q])
          BY <1>1, <1>2 DEF MinersTypeOK
        <5> QED
          BY <5>1, AppendToList
      <4>3. /\ Size(chain'[p]) = Size(chain[p]) + 1 /\ Size(socket'[q]) = Size(socket[q]) + 1
            /\ chain'[q] = chain[q] /\ socket'[p] = socket[p]
        BY <1>6, <1>7, <1>8, <2>1, Zenon
      <4> QED
        BY <4>1, <4>2, <4>3
    <3> QED
      BY <1>1, <3>2 DEF Pow!NoneAhead, Size
  <2>2. CASE ~(state'[p] = "mining" /\ state[q] = "mining")
    BY <1>1, <1>6, <2>2 DEF Pow!NoneAhead
  <2> QED
    BY <2>1, <2>2
<1>11. ASSUME ~crossed'
       PROVE  /\ \A r \in Miner : Pow!Linked(appended'[r])
              /\ Behind(p, q)' \/ Behind(q, p)'
  <2>1. ~crossed /\ socket[p] = << >> /\ \A r \in Miner : Pow!Linked(appended[r])
    BY <1>5, <1>11 DEF MinersInv
  <2>2. Pow!Linked(appended'[p])
    <3>1. b.hashPrevBlock = appended[p][Size(appended[p])]
      BY <1>2
    <3> QED
      BY <1>2, <1>6, <2>1, <3>1, LinkedOnTop
  <2>3. Behind(p, q) \/ Behind(q, p)
    BY <1>1, <2>1 DEF MinersInv
  <2>4. Size(socket[p]) = 0 /\ Size(appended[p]) \in Nat /\ Size(appended[q]) \in Nat /\ Size(socket[q]) \in Nat
    <3>1. IsList(appended[p]) /\ IsList(appended[q]) /\ IsList(socket[q])
      BY <1>1, <1>2 DEF MinersTypeOK
    <3> QED
      BY <2>1, <3>1, AppendToList DEF Size
  <2>5. CASE Behind(q, p)
    <3>1. Behind(q, p)'
      <4> DEFINE la == Size(appended[p])
                 lq == Size(appended[q])
                 ls == Size(socket[q])
      <4>1. /\ lq <= la /\ \A i \in 1 .. lq : appended[q][i] = appended[p][i]
            /\ state[q] = "mining" => /\ la = lq + ls
                                      /\ \A i \in 1 .. ls : appended[p][lq + i] = socket[q][i]
        BY <2>5 DEF Behind
      <4>2. /\ la \in Nat /\ lq \in Nat /\ ls \in Nat /\ Size(appended'[p]) = la + 1
            /\ appended'[p][la + 1] = b /\ \A i \in 1 .. la : appended'[p][i] = appended[p][i]
            /\ appended'[q] = appended[q] /\ socket'[p] = << >> /\ state'[q] = state[q]
            /\ state[q] = "mining" => /\ Size(socket'[q]) = ls + 1 /\ socket'[q][ls + 1] = b
                                      /\ \A i \in 1 .. ls : socket'[q][i] = socket[q][i]
        BY <1>6, <1>7, <1>8, <2>1, <2>4, Zenon
      <4> HIDE DEF la, lq, ls
      <4>3. /\ lq <= Size(appended'[p]) /\ \A i \in 1 .. lq : appended'[q][i] = appended'[p][i]
        BY <4>1, <4>2
      <4>4. state'[q] = "mining" =>
              /\ Size(appended'[p]) = lq + Size(socket'[q])
              /\ \A i \in 1 .. Size(socket'[q]) : appended'[p][lq + i] = socket'[q][i]
        BY <4>1, <4>2
      <4> QED
        BY <4>2, <4>3, <4>4 DEF Behind, lq
    <3> QED
      BY <1>1, <1>7, <2>1, <2>2, <3>1
  <2>6. CASE Behind(p, q)
    <3>1. /\ Size(appended[p]) = Size(appended[q])
          /\ \A i \in 1 .. Size(appended[p]) : appended[p][i] = appended[q][i]
          /\ state[q] = "mining" => socket[q] = << >>
      BY <1>2, <2>4, <2>6 DEF Behind
    <3>2. Behind(q, p)'
      <4> DEFINE la == Size(appended[p])
      <4>1. /\ la \in Nat /\ Size(appended'[p]) = la + 1
            /\ appended'[p][la + 1] = b /\ \A i \in 1 .. la : appended'[p][i] = appended[p][i]
            /\ appended'[q] = appended[q] /\ socket'[p] = << >> /\ state'[q] = state[q]
        BY <1>6, <1>7, <2>1, Zenon
      <4>2. Size(appended'[q]) = la /\ \A i \in 1 .. la : appended'[q][i] = appended[p][i]
        BY <3>1, <4>1
      <4>3. state[q] = "mining" => Size(socket'[q]) = 1 /\ socket'[q][1] = b
        <5>1. ASSUME state[q] = "mining" PROVE Size(socket[q]) = 0
          BY <3>1, <5>1 DEF Size
        <5> QED
          BY <1>8, <5>1
      <4> HIDE DEF la
      <4> QED
        BY <4>1, <4>2, <4>3 DEF Behind
    <3> QED
      BY <1>1, <1>7, <2>1, <2>2, <3>2
  <2> QED
    BY <2>3, <2>5, <2>6
<1> QED
  BY <1>1, <1>6, <1>9, <1>10, <1>11 DEF MinersInv

LEMMA FailStep ==
  ASSUME Pow!MinersAssumption, MinersInv, NEW p \in Miner, Pow!Fail(p)
  PROVE  MinersInv'
<1> DEFINE q == Pow!Other(p)
<1>1. q \in Miner /\ q # p /\ Miner = {p, q} /\ Pow!Other(q) = p
  BY MinersPair DEF Pow!MinersAssumption
<1> HIDE DEF q
<1>2. PICK b : b = Head(socket[p])
  OBVIOUS
<1>3. /\ MinersTypeOK /\ OnTop /\ Pow!NoneAhead /\ state[p] = "mining" /\ socket[p] # << >>
      /\ buffer' = [buffer EXCEPT ![p] = b] /\ socket' = [socket EXCEPT ![p] = Tail(@)] /\ crossed' = crossed
  BY <1>2 DEF MinersInv, Pow!Fail
<1>4. Pow!Extended(p, Pow!ToBuffer, b, b)
  BY <1>2 DEF Pow!Fail, Pow!Taken, Pow!Extended
<1>5. PICK e : e = Pow!ToBuffer
  OBVIOUS
<1>6. Pow!Extended(p, e, b, b) /\ Pow!Pointed(e, b) = b
  BY <1>4, <1>5 DEF Pow!Extended, Pow!Pointed
<1>7. chain' = [chain EXCEPT ![p] = Append(@, e)] /\ appended' = [appended EXCEPT ![p] = Append(@, b)]
  BY <1>6 DEF Pow!Extended
<1>g. Grown(p, e, b)
  BY Zenon, <1>3, <1>6, ExtendedDoes
<1>8. OnTop'
  BY Zenon, <1>g DEF Grown
<1>9. /\ block' = [r \in Miner |-> block'[r]] /\ state' = [r \in Miner |-> state'[r]]
      /\ state'[q] = state[q]
  <2>1. /\ block' = [r \in Miner |-> block'[r]] /\ state' = [r \in Miner |-> state'[r]]
        /\ \A r \in Miner : r # p => state'[r] = state[r]
    BY Zenon, <1>g DEF Grown
  <2> QED
    BY <1>1, <2>1
<1>10. /\ IsList(chain'[p]) /\ IsList(appended'[p]) /\ chain'[p] # << >> /\ appended'[p] # << >>
       /\ Size(chain'[p]) = Size(chain[p]) + 1 /\ Size(appended'[p]) = Size(appended[p]) + 1
       /\ Size(chain[p]) \in Nat /\ Size(appended[p]) \in Nat
  BY Zenon, <1>g DEF Grown
<1>11. \A i \in 1 .. Size(appended[p]) : appended'[p][i] = appended[p][i]
  BY Zenon, <1>g DEF Grown
<1>12. appended'[p][Size(appended[p]) + 1] = b
  <2>1. IsList(appended[p])
    BY <1>3 DEF MinersTypeOK
  <2>2. Append(appended[p], b)[Size(appended[p]) + 1] = b
    BY <2>1, AppendToList, Zenon
  <2>3. appended'[p] = Append(appended[p], b)
    BY <1>3, <1>7 DEF MinersTypeOK
  <2> QED
    BY <2>2, <2>3, Zenon
<1>13. /\ chain'[q] = chain[q] /\ appended'[q] = appended[q] /\ socket'[q] = socket[q]
       /\ socket'[p] = Tail(socket[p])
       /\ chain' = [r \in Miner |-> chain'[r]] /\ appended' = [r \in Miner |-> appended'[r]]
       /\ socket' = [r \in Miner |-> socket'[r]] /\ buffer' = [r \in Miner |-> buffer'[r]]
  BY <1>1, <1>3, <1>7 DEF MinersTypeOK
<1>14. /\ IsList(socket'[p]) /\ Size(socket[p]) \in Nat /\ Size(socket'[p]) = Size(socket[p]) - 1
       /\ Size(socket[p]) > 0
       /\ \A i \in 1 .. Size(socket[p]) - 1 : socket'[p][i] = socket[p][i + 1]
       /\ b = socket[p][1]
  <2>1. IsList(socket[p]) /\ socket[p] # << >>
    BY <1>3 DEF MinersTypeOK
  <2>2. /\ IsList(Tail(socket[p])) /\ Size(socket[p]) \in Nat /\ Size(socket[p]) > 0
        /\ Size(Tail(socket[p])) = Size(socket[p]) - 1
        /\ \A i \in 1 .. Size(socket[p]) - 1 : Tail(socket[p])[i] = socket[p][i + 1]
        /\ Head(socket[p]) = socket[p][1]
    BY <2>1, TailOfList, Zenon
  <2> QED
    BY <1>2, <1>13, <2>2, Zenon
<1>15. MinersTypeOK'
  BY <1>1, <1>3, <1>9, <1>10, <1>13, <1>14 DEF MinersTypeOK
<1>16. Pow!NoneAhead'
  <2>1. CASE state'[p] = "mining" /\ state[q] = "mining"
    <3>1. \A r, s \in Miner : Size(chain[r]) + Size(socket[r]) = Size(chain[s]) + Size(socket[s])
      BY <1>1, <1>3, <2>1 DEF Pow!NoneAhead, Size
    <3>2. Size(chain'[p]) + Size(socket'[p]) = Size(chain'[q]) + Size(socket'[q])
      <4>1. Size(chain[p]) + Size(socket[p]) = Size(chain[q]) + Size(socket[q])
        BY <1>1, <3>1
      <4> QED
        BY <1>10, <1>13, <1>14, <4>1
    <3> QED
      BY <1>1, <3>2 DEF Pow!NoneAhead, Size
  <2>2. CASE ~(state'[p] = "mining" /\ state[q] = "mining")
    BY <1>1, <1>9, <2>2 DEF Pow!NoneAhead
  <2> QED
    BY <2>1, <2>2
<1>17. ASSUME ~crossed'
       PROVE  (\A r \in Miner : Pow!Linked(appended'[r])) /\ Behind(p, q)'
  <2>1. ~crossed /\ (\A r \in Miner : Pow!Linked(appended[r]))
    BY <1>3, <1>17 DEF MinersInv
  <2>2. Behind(p, q)
    <3>1. Behind(p, q) \/ Behind(q, p)
      BY <1>1, <2>1 DEF MinersInv
    <3> QED
      BY <1>3, <3>1 DEF Behind
  <2> DEFINE la == Size(appended[p])
             lq == Size(appended[q])
             ls == Size(socket[p])
  <2>3. /\ la \in Nat /\ ls \in Nat /\ ls > 0 /\ lq = la + ls
        /\ \A i \in 1 .. la : appended[q][i] = appended[p][i]
        /\ \A i \in 1 .. ls : appended[q][la + i] = socket[p][i]
        /\ state[q] = "mining" => socket[q] = << >>
    BY <1>3, <1>10, <1>14, <2>2 DEF Behind
  <2>4. /\ Size(appended'[p]) = la + 1 /\ Size(appended'[q]) = lq /\ Size(socket'[p]) = ls - 1
        /\ appended'[p][la + 1] = socket[p][1] /\ appended'[q] = appended[q]
        /\ \A i \in 1 .. la : appended'[p][i] = appended[p][i]
        /\ \A i \in 1 .. ls - 1 : socket'[p][i] = socket[p][i + 1]
    BY <1>10, <1>11, <1>12, <1>13, <1>14
  <2> HIDE DEF la, lq, ls
  <2>5. \A i \in 1 .. la + 1 : appended'[p][i] = appended[q][i]
    BY SMTT(30), <2>3, <2>4
  <2>6. Pow!Linked(appended'[p])
    <3>1. \A i \in 2 .. lq : appended[q][i].hashPrevBlock = appended[q][i - 1]
      BY <1>1, <2>1 DEF Pow!Linked, Size, lq
    <3> SUFFICES ASSUME NEW i \in 2 .. la + 1 PROVE appended'[p][i].hashPrevBlock = appended'[p][i - 1]
      BY <2>4 DEF Pow!Linked, Size
    <3>2. i \in 2 .. lq /\ i \in 1 .. la + 1 /\ i - 1 \in 1 .. la + 1
      BY <2>3
    <3> QED
      BY <2>5, <3>1, <3>2
  <2>7. \A i \in 1 .. ls - 1 : appended[q][la + 1 + i] = socket'[p][i]
    <3> SUFFICES ASSUME NEW i \in 1 .. ls - 1 PROVE appended[q][la + 1 + i] = socket'[p][i]
      OBVIOUS
    <3>1. i + 1 \in 1 .. ls /\ la + (i + 1) = la + 1 + i
      BY <2>3
    <3> QED
      BY <2>3, <2>4, <3>1
  <2>8. Behind(p, q)'
    <3>1. Size(appended'[p]) <= Size(appended'[q])
      BY <2>3, <2>4
    <3>2. \A i \in 1 .. Size(appended'[p]) : appended'[p][i] = appended'[q][i]
      BY <2>4, <2>5
    <3>3. /\ Size(appended'[q]) = Size(appended'[p]) + Size(socket'[p])
          /\ \A i \in 1 .. Size(socket'[p]) : appended'[q][Size(appended'[p]) + i] = socket'[p][i]
      BY <2>3, <2>4, <2>7
    <3> QED
      BY <1>9, <1>13, <2>3, <3>1, <3>2, <3>3 DEF Behind
  <2> QED
    BY <1>1, <1>13, <2>1, <2>6, <2>8
<1> QED
  BY <1>1, <1>8, <1>15, <1>16, <1>17 DEF MinersInv

LEMMA KilledStep ==
  ASSUME Pow!MinersAssumption, MinersInv, NEW p \in Miner, Pow!Killed(p)
  PROVE  MinersInv'
<1>1. /\ state' = [state EXCEPT ![p] = "killed"]
      /\ UNCHANGED <<chain, buffer, block, socket, appended, crossed>>
  BY DEF Pow!Killed
<1>2. /\ state' = [r \in Miner |-> state'[r]] /\ state'[p] = "killed"
      /\ \A r \in Miner : r # p => state'[r] = state[r]
  BY <1>1 DEF MinersInv, MinersTypeOK
<1>3. MinersTypeOK'
  BY <1>1, <1>2 DEF MinersInv, MinersTypeOK
<1>4. OnTop'
  BY <1>1, <1>2 DEF MinersInv, OnTop, Pow!Pointed, Pow!ToBuffer
<1>5. Pow!NoneAhead'
  BY <1>2 DEF Pow!NoneAhead
<1>6. \A q, r \in Miner : Behind(q, r) => Behind(q, r)'
  BY <1>1, <1>2 DEF Behind
<1> QED
  BY <1>1, <1>3, <1>4, <1>5, <1>6 DEF MinersInv, Pow!Linked

LEMMA MinersStart ==
  ASSUME Pow!MinersAssumption, Pow!Init
  PROVE  MinersInv
<1> DEFINE one == <<Pow!Genesis>>
<1>1. one \in Seq({Pow!Genesis}) /\ one # << >> /\ Len(one) = 1 /\ one[1] = Pow!Genesis /\ << >> \in Seq({})
  OBVIOUS
<1>2. IsList(one) /\ IsList(<< >>) /\ Size(one) = 1 /\ Size(<< >>) = 0
  BY <1>1 DEF IsList, Size
<1>3. /\ chain = [p \in Miner |-> one] /\ appended = [p \in Miner |-> one]
      /\ buffer = [p \in Miner |-> Pow!Genesis] /\ socket = [p \in Miner |-> << >>]
      /\ state = [p \in Miner |-> "mining"] /\ crossed = FALSE
      /\ block = [p \in Miner |-> Pow!block_init(p, one, Pow!Genesis)]
  BY DEF Pow!Init
<1> HIDE DEF one
<1>4. MinersTypeOK
  BY <1>1, <1>2, <1>3 DEF MinersTypeOK
<1>5. OnTop
  <2>1. Pow!Pointed(Pow!Genesis, Pow!Genesis) = Pow!Genesis
    BY DEF Pow!Pointed
  <2>2. \A p \in Miner : Pow!block_init(p, one, Pow!Genesis) = [by |-> p, hashPrevBlock |-> Pow!Genesis]
    BY <1>1, <2>1 DEF Pow!block_init, Pow!Last
  <2> QED
    BY <1>1, <1>2, <1>3, <2>1, <2>2 DEF OnTop
<1>6. Pow!NoneAhead
  BY <1>3 DEF Pow!NoneAhead
<1>7. \A p \in Miner : Pow!Linked(appended[p])
  <2>1. \A p \in Miner : appended[p] = one
    BY <1>3
  <2>2. \A i \in 2 .. Len(one) : FALSE
    BY <1>1
  <2> QED
    BY <2>1, <2>2 DEF Pow!Linked
<1>8. \A p, q \in Miner : Behind(p, q)
  BY <1>2, <1>3 DEF Behind
<1> QED
  BY <1>4, <1>5, <1>6, <1>7, <1>8 DEF MinersInv, Pow!MinersAssumption

(* Two miners (main.c), whatever the length they stop at: as long as no two *)
(* blocks cross on the way, both lists are one linked chain of which one    *)
(* may have less, although the blocks read share a buffer, and neither is   *)
(* ever ahead by more than what is on its way.                              *)
THEOREM MinersKeepOneChain ==
  ASSUME Pow!MinersAssumption
  PROVE  Pow!Spec => [](Pow!OneChainUnlessCrossed /\ Pow!NoneAhead)
<1>1. MinersInv /\ [Pow!Next]_Pow!vars => MinersInv'
  <2> SUFFICES ASSUME MinersInv, [Pow!Next]_Pow!vars PROVE MinersInv'
    OBVIOUS
  <2>1. CASE UNCHANGED Pow!vars
    BY <2>1 DEF Pow!vars, MinersInv, MinersTypeOK, OnTop, Behind, Pow!NoneAhead, Pow!Linked, Pow!Pointed, Pow!ToBuffer
  <2>2. CASE Pow!Next
    BY <2>1, <2>2, FoundStep, KilledStep, FailStep DEF Pow!Next, Pow!Ended
  <2> QED
    BY <2>1, <2>2
<1>2. MinersInv => Pow!OneChainUnlessCrossed /\ Pow!NoneAhead
  <2> SUFFICES ASSUME MinersInv, ~crossed, NEW r \in Miner
               PROVE  /\ Pow!Linked(appended[r])
                      /\ \/ Pow!IsPrefix(appended[r], appended[Pow!Other(r)])
                         \/ Pow!IsPrefix(appended[Pow!Other(r)], appended[r])
    BY DEF Pow!OneChainUnlessCrossed, MinersInv
  <2>1. PICK p, q \in Miner : p # q /\ Behind(p, q)
    BY DEF MinersInv
  <2>2. Pow!IsPrefix(appended[p], appended[q])
    <3>1. PICK S, T : appended[p] \in Seq(S) /\ appended[q] \in Seq(T)
      BY DEF MinersInv, MinersTypeOK, IsList
    <3>2. /\ Len(appended[p]) <= Len(appended[q])
          /\ \A i \in 1 .. Len(appended[p]) : appended[p][i] = appended[q][i]
      BY <2>1 DEF Behind, Size
    <3>3. SubSeq(appended[p], 1, Len(appended[p])) = SubSeq(appended[q], 1, Len(appended[p]))
      BY <3>1, <3>2
    <3> QED
      BY <3>2, <3>3 DEF Pow!IsPrefix
  <2>3. (r = p /\ Pow!Other(r) = q) \/ (r = q /\ Pow!Other(r) = p)
    <3>1. Miner = {p, q}
      BY <2>1 DEF Pow!MinersAssumption
    <3>2. q = Pow!Other(p) /\ p = Pow!Other(q)
      BY <2>1, MinersPair
    <3>3. r = p \/ r = q
      BY <3>1
    <3> QED
      BY <3>2, <3>3
  <2> QED
    BY <2>2, <2>3 DEF MinersInv
<1> QED
  BY <1>1, <1>2, MinersStart, PTL DEF Pow!Spec

-----------------------------------------------------------------------------
(* The blockchain prototype in Python (PyChain). *)
CONSTANTS Node, Posts, Mines, Resolves
VARIABLES chains, lists, nodes, mining, posting, resolving, seen

Py == INSTANCE PyChain

(* The chains that nodes have had, each the list a thread may still know.   *)
Chained(c) == IsList(c) /\ c # << >> /\ \A i \in 1 .. Size(c) : IsList(c[i])

ChainsOK == chains = [n \in Node |-> chains[n]] /\ \A n \in Node : Chained(chains[n])

(* A resolve_conflicts under way: what it asks for exists, and what it kept *)
(* is valid and longer than the chain was when it began.                    *)
Underway(w) ==
  /\ w = [at |-> w.at, among |-> w.among, left |-> w.left, from |-> w.from, list |-> w.list,
          max_length |-> w.max_length, length |-> w.length, new |-> w.new, since |-> w.since, fits |-> w.fits]
  /\ w.at \in {"ask", "asked", "answered"}
  /\ w.max_length \in Nat /\ w.length \in Nat
  /\ w.since[2] \in Nat /\ w.max_length >= w.since[2]
  /\ w.new # << >> => /\ IsList(w.new) /\ Py!valid_chain(w.new)
                      /\ w.fits => Size(w.new) > w.since[2]

Refers(w) == w.at # "ask" => w.from \in Node /\ w.list \in 1 .. Size(chains[w.from])

ResolvesOK ==
  /\ resolving = [r \in Resolves |-> resolving[r]]
  /\ \A r \in Resolves : \/ \E how \in {"none", "done"} : resolving[r] = [at |-> how]
                         \/ Underway(resolving[r]) /\ Refers(resolving[r])

ResolveInv == ChainsOK /\ ResolvesOK

-----------------------------------------------------------------------------
(* What is made of a list place by place is a list of the same length. *)
LEMMA ListOf ==
  ASSUME NEW n \in Nat, NEW c, c = [i \in 1 .. n |-> c[i]]
  PROVE  IsList(c) /\ Size(c) = n
<1> DEFINE S == {c[i] : i \in 1 .. n}
<1>1. c \in [1 .. n -> S]
  OBVIOUS
<1>2. c \in Seq(S)
  BY <1>1, SeqDef
<1>3. DOMAIN c = 1 .. Len(c) /\ Len(c) \in Nat /\ DOMAIN c = 1 .. n
  BY <1>1, <1>2, LenProperties
<1>4. Len(c) = n
  BY <1>3
<1> QED
  BY <1>2, <1>4 DEF IsList, Size

LEMMA SizeOfList ==
  ASSUME NEW c, IsList(c)
  PROVE  Size(c) \in Nat /\ DOMAIN c = 1 .. Size(c) /\ (c # << >> => Size(c) > 0)
<1>1. PICK S : c \in Seq(S)
  BY DEF IsList
<1> QED
  BY <1>1 DEF Size

(* The current chain is the last one. *)
LEMMA CurrentChain ==
  ASSUME ChainsOK, NEW n \in Node
  PROVE  /\ Size(chains[n]) \in Nat \ {0} /\ Py!chain(n) = chains[n][Size(chains[n])]
         /\ IsList(Py!chain(n)) /\ Size(Py!chain(n)) \in Nat
         /\ Py!Version(n) = <<Size(chains[n]), Size(Py!chain(n))>>
<1>1. Chained(chains[n])
  BY DEF ChainsOK
<1>2. Size(chains[n]) \in Nat \ {0}
  BY <1>1, SizeOfList DEF Chained
<1>3. Py!chain(n) = chains[n][Size(chains[n])]
  BY DEF Py!chain, Py!Last, Size
<1>4. IsList(Py!chain(n))
  BY <1>1, <1>2, <1>3 DEF Chained
<1>5. Size(Py!chain(n)) \in Nat
  BY <1>4, SizeOfList
<1>6. Py!Version(n) = <<Size(chains[n]), Size(Py!chain(n))>>
  BY DEF Py!Version, Size
<1> QED
  BY <1>2, <1>3, <1>4, <1>5, <1>6

(* One more chain, or one more block in a chain. *)
LEMMA OneMoreChain ==
  ASSUME NEW c, Chained(c), NEW d, IsList(d)
  PROVE  Chained(Append(c, d)) /\ Size(Append(c, d)) = Size(c) + 1 /\ Append(c, d)[Size(c) + 1] = d
<1>1. IsList(c)
  BY DEF Chained
<1>2. /\ IsList(Append(c, d)) /\ Append(c, d) # << >> /\ Size(c) \in Nat
      /\ Size(Append(c, d)) = Size(c) + 1 /\ Append(c, d)[Size(c) + 1] = d
      /\ \A i \in 1 .. Size(c) : Append(c, d)[i] = c[i]
  BY Zenon, <1>1, AppendToList
<1> DEFINE e == Append(c, d)
<1> HIDE DEF e
<1>3. ASSUME NEW i \in 1 .. Size(e) PROVE IsList(e[i])
  <2>1. CASE i = Size(c) + 1
    BY <1>2, <2>1 DEF e
  <2>2. CASE i \in 1 .. Size(c)
    BY <1>2, <2>2 DEF e, Chained
  <2>3. Size(e) = Size(c) + 1 /\ Size(c) \in Nat
    BY <1>2 DEF e
  <2> QED
    BY <2>1, <2>2, <2>3
<1> QED
  BY <1>2, <1>3 DEF Chained, e

LEMMA OneMoreBlock ==
  ASSUME NEW c, Chained(c), NEW k, NEW b
  PROVE  Chained([c EXCEPT ![k] = Append(c[k], b)]) /\ Size([c EXCEPT ![k] = Append(c[k], b)]) = Size(c)
<1> DEFINE d == [c EXCEPT ![k] = Append(c[k], b)]
<1>1. Size(c) \in Nat \ {0} /\ DOMAIN c = 1 .. Size(c)
  BY SizeOfList DEF Chained
<1>2. d = [i \in 1 .. Size(c) |-> d[i]]
  BY <1>1
<1> HIDE DEF d
<1>3. IsList(d) /\ Size(d) = Size(c)
  <2>1. Size(c) \in Nat
    BY <1>1
  <2> QED
    BY Zenon, <1>2, <2>1, ListOf
<1>4. ASSUME NEW i \in 1 .. Size(c) PROVE IsList(d[i])
  <2>1. IsList(c[i])
    BY DEF Chained
  <2>2. IsList(Append(c[i], b))
    BY Zenon, <2>1, AppendToList
  <2> QED
    BY <1>1, <2>1, <2>2 DEF d
<1>5. d # << >>
  BY <1>1, <1>3 DEF Size
<1> QED
  BY <1>3, <1>4, <1>5 DEF Chained, d

-----------------------------------------------------------------------------
(* A step that leaves the chains alone or adds a block to one of them.      *)
LEMMA ChainsKept ==
  ASSUME ResolveInv, UNCHANGED resolving,
         \/ UNCHANGED chains
         \/ \E n, k, b : chains' = [chains EXCEPT ![n][k] = Append(@, b)]
  PROVE  ResolveInv' /\ \A n \in Node : Size(chains'[n]) = Size(chains[n])
<1>1. ChainsOK' /\ \A n \in Node : Size(chains'[n]) = Size(chains[n])
  <2>1. CASE UNCHANGED chains
    BY <2>1 DEF ResolveInv, ChainsOK
  <2>2. ASSUME NEW n, NEW k, NEW b, chains' = [chains EXCEPT ![n][k] = Append(@, b)]
        PROVE  ChainsOK' /\ \A m \in Node : Size(chains'[m]) = Size(chains[m])
    <3>1. chains' = [m \in Node |-> chains'[m]]
      BY <2>2 DEF ResolveInv, ChainsOK
    <3>2. ASSUME NEW m \in Node PROVE Chained(chains'[m]) /\ Size(chains'[m]) = Size(chains[m])
      <4>1. Chained(chains[m])
        BY DEF ResolveInv, ChainsOK
      <4>2. CASE m # n
        BY <2>2, <4>1, <4>2 DEF ResolveInv, ChainsOK
      <4>3. CASE m = n
        <5>1. chains'[m] = [chains[m] EXCEPT ![k] = Append(chains[m][k], b)]
          BY <2>2, <4>3 DEF ResolveInv, ChainsOK
        <5> QED
          <6>1. /\ Chained([chains[m] EXCEPT ![k] = Append(chains[m][k], b)])
                /\ Size([chains[m] EXCEPT ![k] = Append(chains[m][k], b)]) = Size(chains[m])
            BY Zenon, <4>1, OneMoreBlock
          <6> QED
            BY Zenon, <5>1, <6>1
      <4> QED
        BY <4>2, <4>3
    <3> QED
      BY <3>1, <3>2 DEF ChainsOK
  <2> QED
    BY <2>1, <2>2
<1>2. ResolvesOK'
  BY <1>1 DEF ResolveInv, ResolvesOK, Refers, Underway, Py!valid_chain, Py!hash, Py!valid_proof, Py!proof_of_work
<1> QED
  BY <1>1, <1>2 DEF ResolveInv

(* A step of one resolve_conflicts that leaves the chains alone. *)
LEMMA ResolveGoes ==
  ASSUME ResolveInv, UNCHANGED chains, NEW r \in Resolves, NEW w, resolving' = [resolving EXCEPT ![r] = w],
         \/ \E how \in {"none", "done"} : w = [at |-> how]
         \/ Underway(w) /\ Refers(w)
  PROVE  ResolveInv' /\ \A n \in Node : Size(chains'[n]) = Size(chains[n])
<1>1. ChainsOK'
  BY DEF ResolveInv, ChainsOK
<1>2. resolving' = [q \in Resolves |-> resolving'[q]]
  BY DEF ResolveInv, ResolvesOK
<1>3. ASSUME NEW q \in Resolves
      PROVE  \/ \E how \in {"none", "done"} : resolving'[q] = [at |-> how]
             \/ Underway(resolving'[q]) /\ Refers(resolving'[q])
  <2>1. resolving'[q] = IF q = r THEN w ELSE resolving[q]
    BY DEF ResolveInv, ResolvesOK
  <2> QED
    BY <2>1 DEF ResolveInv, ResolvesOK
<1>4. \A x : Underway(x)' <=> Underway(x)
  BY DEF Underway, Py!valid_chain, Py!hash, Py!valid_proof, Py!proof_of_work
<1>5. \A x : Refers(x)' <=> Refers(x)
  BY DEF Refers
<1>6. ResolvesOK'
  BY <1>2, <1>3 DEF ResolvesOK, Underway, Refers, Py!valid_chain, Py!hash, Py!valid_proof, Py!proof_of_work
<1> QED
  BY <1>1, <1>6 DEF ResolveInv

(* What full_chain, full_chain_length and resolve_compares change. *)
LEMMA ResolveFields ==
  ASSUME NEW w, Underway(w)
  PROVE  /\ [w EXCEPT !.at = "ask"] =
              [at |-> "ask", among |-> w.among, left |-> w.left, from |-> w.from, list |-> w.list,
               max_length |-> w.max_length, length |-> w.length, new |-> w.new, since |-> w.since, fits |-> w.fits]
         /\ \A m, list :
              [w EXCEPT !.at = "asked", !.left = @ \ {m}, !.from = m, !.list = list] =
              [at |-> "asked", among |-> w.among, left |-> w.left \ {m}, from |-> m, list |-> list,
               max_length |-> w.max_length, length |-> w.length, new |-> w.new, since |-> w.since, fits |-> w.fits]
         /\ \A length :
              [w EXCEPT !.at = "answered", !.length = length] =
              [at |-> "answered", among |-> w.among, left |-> w.left, from |-> w.from, list |-> w.list,
               max_length |-> w.max_length, length |-> length, new |-> w.new, since |-> w.since, fits |-> w.fits]
<1>1. w = [at |-> w.at, among |-> w.among, left |-> w.left, from |-> w.from, list |-> w.list,
           max_length |-> w.max_length, length |-> w.length, new |-> w.new, since |-> w.since, fits |-> w.fits]
  BY DEF Underway
<1>2. DOMAIN w = {"at", "among", "left", "from", "list", "max_length", "length", "new", "since", "fits"}
  BY <1>1
<1>3. [w EXCEPT !.at = "ask"] = [i \in DOMAIN w |-> IF i = "at" THEN "ask" ELSE w[i]]
  OBVIOUS
<1>4. [w EXCEPT !.at = "ask"] =
        [at |-> "ask", among |-> w.among, left |-> w.left, from |-> w.from, list |-> w.list,
         max_length |-> w.max_length, length |-> w.length, new |-> w.new, since |-> w.since, fits |-> w.fits]
  BY <1>2, <1>3
<1>5. ASSUME NEW m, NEW list
      PROVE  [w EXCEPT !.at = "asked", !.left = @ \ {m}, !.from = m, !.list = list] =
              [at |-> "asked", among |-> w.among, left |-> w.left \ {m}, from |-> m, list |-> list,
               max_length |-> w.max_length, length |-> w.length, new |-> w.new, since |-> w.since, fits |-> w.fits]
  <2>1. [w EXCEPT !.at = "asked", !.left = @ \ {m}, !.from = m, !.list = list] =
          [i \in DOMAIN w |-> IF i = "at" THEN "asked" ELSE IF i = "left" THEN w.left \ {m}
                              ELSE IF i = "from" THEN m ELSE IF i = "list" THEN list ELSE w[i]]
    BY <1>2
  <2> QED
    BY <1>2, <2>1
<1>6. ASSUME NEW length
      PROVE  [w EXCEPT !.at = "answered", !.length = length] =
              [at |-> "answered", among |-> w.among, left |-> w.left, from |-> w.from, list |-> w.list,
               max_length |-> w.max_length, length |-> length, new |-> w.new, since |-> w.since, fits |-> w.fits]
  <2>1. [w EXCEPT !.at = "answered", !.length = length] =
          [i \in DOMAIN w |-> IF i = "at" THEN "answered" ELSE IF i = "length" THEN length ELSE w[i]]
    OBVIOUS
  <2> QED
    BY <1>2, <2>1
<1> QED
  BY Zenon, <1>4, <1>5, <1>6

LEMMA ResolveTakes ==
  ASSUME NEW w, Underway(w), NEW c
  PROVE  [w EXCEPT !.at = "ask", !.max_length = w.length, !.new = c, !.fits = w.length <= Len(c)] =
           [at |-> "ask", among |-> w.among, left |-> w.left, from |-> w.from, list |-> w.list,
            max_length |-> w.length, length |-> w.length, new |-> c, since |-> w.since, fits |-> w.length <= Len(c)]
<1>1. PICK f : f = (w.length <= Len(c))
  OBVIOUS
<1>2. w = [at |-> w.at, among |-> w.among, left |-> w.left, from |-> w.from, list |-> w.list,
           max_length |-> w.max_length, length |-> w.length, new |-> w.new, since |-> w.since, fits |-> w.fits]
  BY DEF Underway
<1>3. DOMAIN w = {"at", "among", "left", "from", "list", "max_length", "length", "new", "since", "fits"}
  BY <1>2
<1>4. [w EXCEPT !.at = "ask", !.max_length = w.length, !.new = c, !.fits = f] =
        [i \in DOMAIN w |-> IF i = "at" THEN "ask" ELSE IF i = "max_length" THEN w.length
                            ELSE IF i = "new" THEN c ELSE IF i = "fits" THEN f ELSE w[i]]
  BY <1>3
<1>5. [w EXCEPT !.at = "ask", !.max_length = w.length, !.new = c, !.fits = f] =
        [at |-> "ask", among |-> w.among, left |-> w.left, from |-> w.from, list |-> w.list,
         max_length |-> w.length, length |-> w.length, new |-> c, since |-> w.since, fits |-> f]
  BY <1>3, <1>4
<1> QED
  BY Zenon, <1>1, <1>5

(* One step of resolve_conflicts. *)
LEMMA ResolveBegins ==
  ASSUME ResolveInv, NEW r \in Resolves, r[1] \in Node, Py!resolve_conflicts(r)
  PROVE  ResolveInv' /\ \A n \in Node : Size(chains'[n]) = Size(chains[n])
<1> DEFINE w == [at |-> "ask", among |-> nodes[r[1]], left |-> nodes[r[1]], from |-> r[1], list |-> 0,
                 max_length |-> Len(Py!chain(r[1])), length |-> 0, new |-> << >>,
                 since |-> Py!Version(r[1]), fits |-> TRUE]
<1>1. resolving' = [resolving EXCEPT ![r] = w] /\ UNCHANGED chains
  BY DEF Py!resolve_conflicts, Py!Resolving
<1>2. Size(Py!chain(r[1])) \in Nat /\ Py!Version(r[1])[2] = Size(Py!chain(r[1]))
  BY CurrentChain DEF ResolveInv
<1>3. Underway(w) /\ Refers(w)
  BY <1>2 DEF Underway, Refers, Size
<1> QED
  BY <1>1, <1>3, ResolveGoes

LEMMA ResolveAsks ==
  ASSUME ResolveInv, NEW r \in Resolves, NEW m \in Node, Py!full_chain(r, m) \/ Py!full_chain_length(r)
  PROVE  ResolveInv' /\ \A n \in Node : Size(chains'[n]) = Size(chains[n])
<1> DEFINE w == resolving[r]
<1>1. Underway(w) /\ Refers(w)
  BY DEF ResolveInv, ResolvesOK, Py!full_chain, Py!full_chain_length, Py!Resolving
<1>2. CASE Py!full_chain(r, m)
  <2> DEFINE v == [w EXCEPT !.at = "asked", !.left = @ \ {m}, !.from = m, !.list = Len(chains[m])]
  <2>1. resolving' = [resolving EXCEPT ![r] = v] /\ UNCHANGED chains
    BY <1>2 DEF Py!full_chain, Py!Resolving
  <2>2. Size(chains[m]) \in Nat \ {0}
    BY CurrentChain DEF ResolveInv
  <2>3. v = [at |-> "asked", among |-> w.among, left |-> w.left \ {m}, from |-> m, list |-> Size(chains[m]),
             max_length |-> w.max_length, length |-> w.length, new |-> w.new, since |-> w.since, fits |-> w.fits]
    BY Zenon, <1>1, ResolveFields DEF Size
  <2> HIDE DEF v
  <2>4. Underway(v) /\ Refers(v)
    BY <1>1, <2>2, <2>3 DEF Underway, Refers
  <2> QED
    BY <2>1, <2>4, ResolveGoes
<1>3. CASE Py!full_chain_length(r)
  <2> DEFINE v == [w EXCEPT !.at = "answered", !.length = Len(Py!chain(w.from))]
  <2>1. resolving' = [resolving EXCEPT ![r] = v] /\ UNCHANGED chains /\ w.at = "asked"
    BY <1>3 DEF Py!full_chain_length, Py!Resolving
  <2>2. w.from \in Node /\ Size(Py!chain(w.from)) \in Nat
    BY <1>1, <2>1, CurrentChain DEF ResolveInv, Refers
  <2>3. v = [at |-> "answered", among |-> w.among, left |-> w.left, from |-> w.from, list |-> w.list,
             max_length |-> w.max_length, length |-> Size(Py!chain(w.from)), new |-> w.new, since |-> w.since,
             fits |-> w.fits]
    BY Zenon, <1>1, ResolveFields DEF Size
  <2> HIDE DEF v
  <2>4. Underway(v) /\ Refers(v)
    BY <1>1, <2>1, <2>2, <2>3 DEF Underway, Refers
  <2> QED
    BY <2>1, <2>4, ResolveGoes
<1> QED
  BY <1>2, <1>3

LEMMA ResolveHears ==
  ASSUME ResolveInv, NEW r \in Resolves, Py!resolve_compares(r)
  PROVE  ResolveInv' /\ \A n \in Node : Size(chains'[n]) = Size(chains[n])
<1> DEFINE w == resolving[r]
           c == Py!Views(w.from, chains[w.from][w.list])
           keeps == [w EXCEPT !.at = "ask"]
           takes == [w EXCEPT !.at = "ask", !.max_length = w.length, !.new = c, !.fits = w.length <= Len(c)]
<1>1. Underway(w) /\ Refers(w) /\ w.at = "answered"
  BY DEF ResolveInv, ResolvesOK, Py!resolve_compares, Py!Resolving
<1>2. resolving' = [resolving EXCEPT ![r] = IF Py!Better(c, w.length, w.max_length) THEN takes ELSE keeps]
      /\ UNCHANGED chains
  BY DEF Py!resolve_compares, Py!Resolving
<1>3. IsList(chains[w.from][w.list])
  BY <1>1 DEF Refers, ResolveInv, ChainsOK, Chained
<1>4. IsList(c) /\ Size(c) \in Nat
  <2>1. c = [i \in 1 .. Size(chains[w.from][w.list]) |-> c[i]] /\ Size(chains[w.from][w.list]) \in Nat
    BY <1>3, SizeOfList DEF Py!Views
  <2> HIDE DEF c
  <2> QED
    BY <2>1, ListOf
<1> HIDE DEF c
<1>5. CASE Py!Better(c, w.length, w.max_length)
  <2>1. w.length > w.max_length /\ Py!valid_chain(c)
    BY <1>5 DEF Py!Better
  <2>2. takes = [at |-> "ask", among |-> w.among, left |-> w.left, from |-> w.from, list |-> w.list,
                 max_length |-> w.length, length |-> w.length, new |-> c, since |-> w.since,
                 fits |-> w.length <= Size(c)]
    BY Zenon, <1>1, ResolveTakes DEF Size
  <2>3. resolving' = [resolving EXCEPT ![r] = takes]
    BY <1>2, <1>5
  <2> DEFINE fits == w.length <= Size(c)
  <2>4. fits => Size(c) > w.since[2]
    BY <1>1, <1>4, <2>1 DEF Underway
  <2> HIDE DEF takes, fits
  <2>5. takes = [at |-> "ask", among |-> w.among, left |-> w.left, from |-> w.from, list |-> w.list,
                 max_length |-> w.length, length |-> w.length, new |-> c, since |-> w.since, fits |-> fits]
    BY Zenon, <2>2 DEF fits
  <2>6. Underway(takes) /\ Refers(takes)
    BY <1>1, <1>4, <2>1, <2>4, <2>5 DEF Underway, Refers
  <2> QED
    BY <1>2, <2>3, <2>6, ResolveGoes
<1>6. CASE ~Py!Better(c, w.length, w.max_length)
  <2>1. keeps = [at |-> "ask", among |-> w.among, left |-> w.left, from |-> w.from, list |-> w.list,
                 max_length |-> w.max_length, length |-> w.length, new |-> w.new, since |-> w.since,
                 fits |-> w.fits]
    BY <1>1 DEF Underway
  <2>2. resolving' = [resolving EXCEPT ![r] = keeps]
    BY <1>2, <1>6
  <2> HIDE DEF keeps
  <2>3. Underway(keeps) /\ Refers(keeps)
    BY <1>1, <2>1 DEF Underway, Refers
  <2> QED
    BY <1>2, <2>2, <2>3, ResolveGoes
<1> QED
  BY <1>5, <1>6

LEMMA ResolveStops ==
  ASSUME ResolveInv, NEW r \in Resolves, Py!resolve_fails(r)
  PROVE  ResolveInv' /\ \A n \in Node : Size(chains'[n]) = Size(chains[n])
<1>1. resolving' = [resolving EXCEPT ![r] = [at |-> "done"]] /\ UNCHANGED chains
  BY DEF Py!resolve_fails, Py!Resolving
<1> QED
  BY <1>1, ResolveGoes

(* The chain is replaced: by what was kept. *)
LEMMA ChainTakenOver ==
  ASSUME ResolveInv, NEW r \in Resolves, r[1] \in Node, Py!resolved(r)
  PROVE  ResolveInv' /\ Py!TakenOverIsBetter
<1> DEFINE n == r[1]
           w == resolving[r]
<1>1. Underway(w) /\ w.at = "ask"
  BY DEF ResolveInv, ResolvesOK, Py!resolved, Py!Resolving
<1>2. resolving' = [resolving EXCEPT ![r] = [at |-> "done"]]
  BY DEF Py!resolved, Py!Resolving
<1>3. CASE w.new = << >>
  <2>1. UNCHANGED chains
    BY <1>3 DEF Py!resolved
  <2>2. ResolveInv' /\ \A m \in Node : Size(chains'[m]) = Size(chains[m])
    BY <1>2, <2>1, ResolveGoes
  <2>3. \A m \in Node : Size(chains[m]) \in Nat
    BY CurrentChain DEF ResolveInv
  <2> QED
    BY <2>2, <2>3 DEF Py!TakenOverIsBetter, Size
<1>4. CASE w.new # << >>
  <2>1. chains' = [chains EXCEPT ![n] = Append(chains[n], w.new)]
    BY <1>4 DEF Py!resolved
  <2>2. IsList(w.new) /\ Py!valid_chain(w.new) /\ (w.fits => Size(w.new) > w.since[2])
    BY <1>1, <1>4 DEF Underway
  <2>3. /\ Chained(Append(chains[n], w.new)) /\ Size(Append(chains[n], w.new)) = Size(chains[n]) + 1
        /\ Append(chains[n], w.new)[Size(chains[n]) + 1] = w.new
    BY <2>2, OneMoreChain DEF ResolveInv, ChainsOK
  <2>4. /\ chains' = [m \in Node |-> chains'[m]] /\ chains'[n] = Append(chains[n], w.new)
        /\ \A m \in Node \ {n} : chains'[m] = chains[m]
    BY <2>1 DEF ResolveInv, ChainsOK
  <2>5. ChainsOK'
    BY <2>3, <2>4 DEF ResolveInv, ChainsOK
  <2>6. \A m \in Node : Size(chains[m]) \in Nat /\ Size(chains'[m]) \in Nat /\ Size(chains[m]) <= Size(chains'[m])
    <3>1. \A m \in Node : Size(chains[m]) \in Nat
      BY CurrentChain DEF ResolveInv
    <3>2. Size(chains'[n]) = Size(chains[n]) + 1
      BY Zenon, <2>3, <2>4
    <3>3. \A m \in Node \ {n} : Size(chains'[m]) = Size(chains[m])
      BY Zenon, <2>4
    <3> HIDE DEF n
    <3> QED
      BY <3>1, <3>2, <3>3
  <2>7. ResolvesOK'
    <3>1. resolving' = [q \in Resolves |-> resolving'[q]] /\ resolving'[r] = [at |-> "done"]
          /\ \A q \in Resolves \ {r} : resolving'[q] = resolving[q]
      BY <1>2 DEF ResolveInv, ResolvesOK
    <3>2. ASSUME NEW q \in Resolves \ {r}, Underway(resolving[q]), Refers(resolving[q])
          PROVE  Refers(resolving[q])'
      BY <2>6, <3>1, <3>2 DEF Refers
    <3> QED
      BY <3>1, <3>2 DEF ResolveInv, ResolvesOK, Underway, Refers, Py!valid_chain, Py!hash, Py!valid_proof, Py!proof_of_work
  <2>8. Py!TakenOverIsBetter
    <3> SUFFICES ASSUME NEW m \in Node, Size(chains'[m]) > Size(chains[m])
                 PROVE  /\ r[1] = m /\ w.at = "ask" /\ Py!Last(chains'[m]) = w.new
                        /\ Py!valid_chain(w.new)
                        /\ Size(w.new) > Size(Py!chain(m)) \/ w.since # Py!Version(m) \/ ~w.fits
      BY DEF Py!TakenOverIsBetter, Size
    <3>1. m = n
      BY <2>4, <2>6
    <3>2. Py!Last(chains'[m]) = w.new
      BY <2>3, <2>4, <3>1 DEF Py!Last, Size
    <3>3. w.since = Py!Version(m) => w.since[2] = Size(Py!chain(m))
      BY CurrentChain DEF ResolveInv
    <3> QED
      BY <1>1, <2>2, <3>1, <3>2, <3>3
  <2> QED
    BY <2>5, <2>7, <2>8 DEF ResolveInv
<1> QED
  BY <1>3, <1>4

(* resolve_conflicts, whatever the nodes, requests and steps of threads: a  *)
(* chain is valid when it is taken over, and if it is shorter than the one  *)
(* it replaces, that one has changed since its length was taken, or the     *)
(* neighbour's was replaced before its length was.                          *)
THEOREM TakenOverIsBetterHolds ==
  ASSUME Py!NodesAssumption
  PROVE  Py!Spec => [][Py!TakenOverIsBetter]_Py!vars
<1>1. Py!Init => ResolveInv
  <2> SUFFICES ASSUME Py!Init PROVE ResolveInv
    OBVIOUS
  <2>1. \A n \in Node : \E b : chains[n] = << <<b>> >>
    BY DEF Py!Init
  <2>2. ASSUME NEW b PROVE Chained(<< <<b>> >>)
    <3>1. <<b>> \in Seq({b}) /\ << <<b>> >> \in Seq({<<b>>}) /\ << <<b>> >> # << >>
      OBVIOUS
    <3>2. IsList(<<b>>) /\ IsList(<< <<b>> >>)
      BY Zenon, <3>1 DEF IsList
    <3>3. \A i \in 1 .. Size(<< <<b>> >>) : << <<b>> >>[i] = <<b>>
      BY DEF Size
    <3> QED
      BY Zenon, <3>1, <3>2, <3>3 DEF Chained
  <2>3. ChainsOK
    BY <2>1, <2>2 DEF Py!Init, ChainsOK
  <2>4. ResolvesOK
    BY DEF Py!Init, ResolvesOK
  <2> QED
    BY <2>3, <2>4 DEF ResolveInv
<1>2. ResolveInv /\ [Py!Next]_Py!vars => ResolveInv' /\ [Py!TakenOverIsBetter]_Py!vars
  <2> SUFFICES ASSUME ResolveInv, [Py!Next]_Py!vars PROVE ResolveInv' /\ (Py!TakenOverIsBetter \/ UNCHANGED Py!vars)
    OBVIOUS
  <2>1. \A r \in Resolves : r[1] \in Node
    BY DEF Py!NodesAssumption
  <2>2. \A n \in Node : Size(chains[n]) \in Nat
    BY CurrentChain DEF ResolveInv
  <2>3. (\A n \in Node : Size(chains'[n]) = Size(chains[n])) => Py!TakenOverIsBetter
    BY <2>2 DEF Py!TakenOverIsBetter, Size
  <2>4. CASE UNCHANGED Py!vars
    BY <2>4, ChainsKept DEF Py!vars
  <2>5. ASSUME NEW h \in Mines, Py!new_block_append(h) PROVE ResolveInv' /\ Py!TakenOverIsBetter
    BY <2>3, <2>5, ChainsKept DEF Py!new_block_append
  <2>6. ASSUME UNCHANGED <<chains, resolving>> PROVE ResolveInv' /\ Py!TakenOverIsBetter
    BY <2>3, <2>6, ChainsKept
  <2>7. ASSUME NEW t, Py!new_transaction(t) \/ Py!new_transaction_append(t) PROVE UNCHANGED <<chains, resolving>>
    BY <2>7 DEF Py!new_transaction, Py!new_transaction_append
  <2>8. ASSUME NEW h, \/ Py!mine(h) \/ Py!mine_proof(h) \/ Py!mine_reward(h) \/ Py!mine_reward_append(h)
                      \/ Py!mine_hash(h) \/ Py!new_block(h) \/ Py!new_block_empty(h) \/ Py!new_block_chain(h)
        PROVE  UNCHANGED <<chains, resolving>>
    BY <2>8 DEF Py!mine, Py!mine_proof, Py!mine_reward, Py!mine_reward_append, Py!mine_hash, Py!new_block,
                Py!new_block_empty, Py!new_block_chain
  <2>9. ASSUME NEW n, NEW m, Py!register_node(n, m) PROVE UNCHANGED <<chains, resolving>>
    BY <2>9 DEF Py!register_node
  <2>10. ASSUME NEW r \in Resolves, \/ Py!resolve_conflicts(r) \/ \E m \in Node : Py!full_chain(r, m)
                                    \/ Py!full_chain_length(r) \/ Py!resolve_compares(r) \/ Py!resolve_fails(r)
         PROVE  ResolveInv' /\ Py!TakenOverIsBetter
    BY <2>1, <2>3, <2>10, ResolveBegins, ResolveAsks, ResolveHears, ResolveStops
  <2>11. ASSUME NEW r \in Resolves, Py!resolved(r) PROVE ResolveInv' /\ Py!TakenOverIsBetter
    BY <2>1, <2>11, ChainTakenOver
  <2> QED
    BY <2>4, <2>5, <2>6, <2>7, <2>8, <2>9, <2>10, <2>11 DEF Py!Next
<1> QED
  BY <1>1, <1>2, PTL DEF Py!Spec

-----------------------------------------------------------------------------
(* The Bitcoin demo in Java (BitcoinDemo). *)
CONSTANTS Wallets, First, Genesis, Costs, Times, targetTime, Window, MaxBlocks, MaxSequence
VARIABLES UTXOs, wallet, sequence, blockChain, difficulty, timeCost

Coin == INSTANCE BitcoinDemo

(* The block under construction goes on top of the last one, and has the    *)
(* hash it was created with, without transactions.                          *)
OpenBlock ==
  block # Coin!NoBlock =>
    /\ block = [at |-> block.at, number |-> block.number, previousHash |-> block.previousHash, nonce |-> 0,
                merkleRoot |-> << >>, transactions |-> block.transactions, hash |-> block.hash]
    /\ block.previousHash = blockChain[Size(blockChain)].hash
    /\ block.hash = Coin!calculateHash(block, block.hash.zeros)

CoinInv ==
  /\ wallet = [w \in Wallets |-> wallet[w]] /\ Coin!WalletsUpToDate
  /\ IsList(blockChain) /\ blockChain # << >>
  /\ OpenBlock /\ Coin!BlocksLinked

(* Paying takes the inputs from the outputs and from the payer's wallet, and *)
(* no other wallet knows them.                                              *)
LEMMA PaymentLeaves ==
  ASSUME Coin!WalletsUpToDate, wallet = [w \in Wallets |-> wallet[w]], NEW pay \in Wallets, NEW get, NEW value,
         Coin!sendFunds(pay, get, value)
  PROVE  wallet' = [w \in Wallets |-> wallet'[w]] /\ Coin!WalletsUpToDate'
<1> DEFINE known == Coin!getBalance(pay, wallet[pay])
<1>1. PICK inputs \in Coin!Inputs(known, value) :
        /\ wallet' = [wallet EXCEPT ![pay] = Coin!Kept(known, inputs)]
        /\ Coin!processTransaction(pay, get, value, inputs)
  BY DEF Coin!sendFunds
<1>2. known = {u \in UTXOs : u.recipient = pay} /\ inputs \subseteq known
  BY DEF Coin!WalletsUpToDate, Coin!getBalance, Coin!Inputs
<1>3. \A u \in UTXOs : u \in inputs \/ u \in UTXOs'
  BY <1>1 DEF Coin!processTransaction
<1> HIDE DEF known
<1>4. ASSUME NEW w \in Wallets, NEW u \in wallet'[w] PROVE u \in UTXOs' /\ u.recipient = w
  <2>1. CASE w = pay
    <3>1. u \in known /\ u \notin inputs
      BY <1>1, <1>4, <2>1 DEF Coin!Kept
    <3> QED
      BY <1>2, <1>3, <2>1, <3>1
  <2>2. CASE w # pay
    <3>1. u \in wallet[w]
      BY <1>1, <1>4, <2>2
    <3>2. u \in UTXOs /\ u.recipient = w
      BY <3>1 DEF Coin!WalletsUpToDate
    <3>3. u \notin inputs
      BY <1>2, <2>2, <3>2
    <3> QED
      BY <1>3, <3>2, <3>3
  <2> QED
    BY <2>1, <2>2
<1>5. wallet' = [w \in Wallets |-> wallet'[w]]
  BY <1>1
<1> QED
  BY <1>4, <1>5 DEF Coin!WalletsUpToDate

(* A function on no arguments is the empty sequence. *)
LEMMA NoTransactionsNoTree ==
  ASSUME NEW b, b.transactions = << >>
  PROVE  Coin!buildTree(Coin!TxHashes(b)) = << >>
<1>1. Coin!TxHashes(b) = << >>
  BY DEF Coin!TxHashes
<1> QED
  BY <1>1 DEF Coin!buildTree

(* A block that is mined: its hash is the one of what it is then, or it was *)
(* lucky.                                                                   *)
LEMMA MinedBlock ==
  ASSUME OpenBlock, block # Coin!NoBlock, NEW target, NEW zeros, NEW m, m = Coin!mineBlock(block, target, zeros)
  PROVE  /\ m.previousHash = block.previousHash
         /\ \/ m.hash = Coin!calculateHash(m, m.hash.zeros)
            \/ m.nonce = 0 /\ m.transactions # << >>
<1> DEFINE root == Coin!buildTree(Coin!TxHashes(block))
<1>1. block.transactions = << >> => root = << >>
  BY NoTransactionsNoTree
<1>2. PICK b : b = block
  OBVIOUS
<1>3. b = [at |-> b.at, number |-> b.number, previousHash |-> b.previousHash, nonce |-> 0,
           merkleRoot |-> << >>, transactions |-> b.transactions, hash |-> b.hash]
  BY <1>2 DEF OpenBlock
<1>4. m = [at |-> b.at, number |-> b.number, previousHash |-> b.previousHash, nonce |-> 0,
           merkleRoot |-> root, transactions |-> b.transactions, hash |-> b.hash]
      \/ m = [at |-> b.at, number |-> b.number, previousHash |-> b.previousHash, nonce |-> 1,
              merkleRoot |-> root, transactions |-> b.transactions,
              hash |-> [previousHash |-> b.previousHash, number |-> b.number, nonce |-> 1, merkleRoot |-> root,
                        zeros |-> zeros]]
  <2> HIDE DEF root
  <2>1. Coin!mineBlock(b, target, zeros) = m /\ root = Coin!buildTree(Coin!TxHashes(b))
    BY <1>2 DEF root
  <2>2. [b EXCEPT !.merkleRoot = root] =
           [at |-> b.at, number |-> b.number, previousHash |-> b.previousHash, nonce |-> 0,
            merkleRoot |-> root, transactions |-> b.transactions, hash |-> b.hash]
    BY <1>3
  <2>3. PICK r : r = [b EXCEPT !.merkleRoot = root]
    OBVIOUS
  <2>4. m = r \/ m = [r EXCEPT !.nonce = 1, !.hash = Coin!calculateHash([r EXCEPT !.nonce = 1], zeros)]
    BY <2>1, <2>3 DEF Coin!mineBlock
  <2> QED
    BY ZenonT(30), <2>2, <2>3, <2>4 DEF Coin!calculateHash
<1>5. b.hash = [previousHash |-> b.previousHash, number |-> b.number, nonce |-> 0, merkleRoot |-> << >>,
                zeros |-> b.hash.zeros]
  <2>1. b.hash = Coin!calculateHash(b, b.hash.zeros)
    BY <1>2 DEF OpenBlock
  <2> QED
    BY <1>3, <2>1 DEF Coin!calculateHash
<1> HIDE DEF root
<1> QED
  BY <1>1, <1>2, <1>4, <1>5 DEF Coin!calculateHash

(* The new block is on top of the last one. *)
LEMMA StartedBlock ==
  ASSUME CoinInv, Coin!StartBlock
  PROVE  CoinInv'
<1>1. PICK zeros : block' = Coin!NewBlock(Len(blockChain), blockChain[Len(blockChain)].hash, zeros)
  BY DEF Coin!StartBlock
<1>2. UNCHANGED <<UTXOs, wallet, blockChain>>
  BY DEF Coin!StartBlock
<1>3. PICK b, n, h : b = block' /\ n = Len(blockChain) /\ h = blockChain[Len(blockChain)].hash
  OBVIOUS
<1>4. b = [at |-> "open", number |-> n, previousHash |-> h, nonce |-> 0, merkleRoot |-> << >>,
           transactions |-> << >>,
           hash |-> [previousHash |-> h, number |-> n, nonce |-> 0, merkleRoot |-> << >>, zeros |-> zeros]]
  BY <1>1, <1>3 DEF Coin!NewBlock, Coin!calculateHash
<1>5. OpenBlock'
  BY <1>2, <1>3, <1>4 DEF OpenBlock, Coin!calculateHash, Size
<1> QED
  BY <1>2, <1>5 DEF CoinInv, Coin!WalletsUpToDate, Coin!BlocksLinked

LEMMA PaidInBlock ==
  ASSUME CoinInv, NEW pay \in Wallets, NEW get, NEW value, Coin!sendFunds(pay, get, value)
  PROVE  CoinInv'
<1>1. /\ blockChain' = blockChain /\ block # Coin!NoBlock
      /\ \/ block' = block
         \/ \E txs : block' = [block EXCEPT !.transactions = txs]
  BY DEF Coin!sendFunds, Coin!processTransaction
<1>2. PICK b, c : b = block /\ c = block'
  OBVIOUS
<1>3. /\ b = [at |-> b.at, number |-> b.number, previousHash |-> b.previousHash, nonce |-> 0,
              merkleRoot |-> << >>, transactions |-> b.transactions, hash |-> b.hash]
      /\ b.hash = Coin!calculateHash(b, b.hash.zeros)
  BY <1>1, <1>2 DEF CoinInv, OpenBlock
<1>4. c = [at |-> b.at, number |-> b.number, previousHash |-> b.previousHash, nonce |-> 0,
           merkleRoot |-> << >>, transactions |-> c.transactions, hash |-> b.hash]
  BY <1>1, <1>2, <1>3
<1>5. /\ c.previousHash = b.previousHash /\ c.hash = Coin!calculateHash(c, c.hash.zeros)
      /\ c = [at |-> c.at, number |-> c.number, previousHash |-> c.previousHash, nonce |-> 0,
              merkleRoot |-> << >>, transactions |-> c.transactions, hash |-> c.hash]
  BY <1>3, <1>4 DEF Coin!calculateHash
<1>6. OpenBlock'
  BY <1>1, <1>2, <1>5 DEF OpenBlock, CoinInv
<1> QED
  BY <1>1, <1>6, PaymentLeaves DEF CoinInv, Coin!BlocksLinked

LEMMA AddedBlock ==
  ASSUME CoinInv, NEW time, Coin!addBlock(time)
  PROVE  CoinInv'
<1> DEFINE m == Coin!mineBlock(block, difficulty, difficulty)
<1>1. /\ blockChain' = Append(blockChain, m) /\ block # Coin!NoBlock /\ block' = Coin!NoBlock
      /\ wallet' = [w \in Wallets |-> Coin!getBalance(w, wallet[w])] /\ UTXOs' = UTXOs
  BY DEF Coin!addBlock
<1>2. /\ m.previousHash = blockChain[Size(blockChain)].hash
      /\ \/ m.hash = Coin!calculateHash(m, m.hash.zeros)
         \/ m.nonce = 0 /\ m.transactions # << >>
  <2> HIDE DEF m
  <2>1. PICK x : x = m
    OBVIOUS
  <2>2. block.previousHash = blockChain[Size(blockChain)].hash
    BY <1>1 DEF CoinInv, OpenBlock
  <2>3. /\ x.previousHash = block.previousHash
        /\ \/ x.hash = Coin!calculateHash(x, x.hash.zeros)
           \/ x.nonce = 0 /\ x.transactions # << >>
    BY <1>1, <2>1, MinedBlock DEF CoinInv, m
  <2> QED
    BY <2>1, <2>2, <2>3
<1> HIDE DEF m
<1>3. /\ IsList(blockChain') /\ blockChain' # << >> /\ Size(blockChain) \in Nat
      /\ Size(blockChain') = Size(blockChain) + 1 /\ blockChain'[Size(blockChain) + 1] = m
      /\ \A i \in 1 .. Size(blockChain) : blockChain'[i] = blockChain[i]
  <2>1. PICK x : x = m
    OBVIOUS
  <2>2. /\ IsList(Append(blockChain, x)) /\ Append(blockChain, x) # << >>
        /\ Size(blockChain) \in Nat /\ Size(Append(blockChain, x)) = Size(blockChain) + 1
        /\ Append(blockChain, x)[Size(blockChain) + 1] = x
        /\ \A i \in 1 .. Size(blockChain) : Append(blockChain, x)[i] = blockChain[i]
    <3>1. IsList(blockChain)
      BY DEF CoinInv
    <3>2. /\ IsList(Append(blockChain, x)) /\ Append(blockChain, x) # << >>
          /\ Size(blockChain) \in Nat /\ Size(Append(blockChain, x)) = Size(blockChain) + 1
      BY Zenon, <3>1, AppendToList
    <3>3. Append(blockChain, x)[Size(blockChain) + 1] = x
      BY Zenon, <3>1, AppendToList
    <3>4. ASSUME NEW i \in 1 .. Size(blockChain) PROVE Append(blockChain, x)[i] = blockChain[i]
      BY <3>1, AppendToList
    <3> QED
      BY Zenon, <3>2, <3>3, <3>4
  <2> QED
    BY <1>1, <2>1, <2>2
<1>4. ASSUME NEW i \in 2 .. Size(blockChain')
      PROVE  /\ blockChain'[i].previousHash = blockChain'[i - 1].hash
             /\ \/ blockChain'[i].hash = Coin!calculateHash(blockChain'[i], blockChain'[i].hash.zeros)
                \/ blockChain'[i].nonce = 0 /\ blockChain'[i].transactions # << >>
  <2>1. CASE i = Size(blockChain) + 1
    <3>1. blockChain'[i] = m /\ blockChain'[i - 1] = blockChain[Size(blockChain)]
      BY <1>3, <1>4, <2>1
    <3> QED
      BY <1>2, <3>1
  <2>2. CASE i # Size(blockChain) + 1
    <3>1. i \in 2 .. Size(blockChain) /\ i \in 1 .. Size(blockChain) /\ i - 1 \in 1 .. Size(blockChain)
      BY <1>3, <1>4, <2>2
    <3>2. blockChain'[i] = blockChain[i] /\ blockChain'[i - 1] = blockChain[i - 1]
      BY <1>3, <3>1
    <3> QED
      BY <3>1, <3>2 DEF CoinInv, Coin!BlocksLinked, Size
  <2> QED
    BY <2>1, <2>2
<1>5. Coin!BlocksLinked'
  BY <1>4 DEF Coin!BlocksLinked, Size
<1>6. Coin!WalletsUpToDate' /\ wallet' = [w \in Wallets |-> wallet'[w]]
  BY <1>1 DEF CoinInv, Coin!WalletsUpToDate, Coin!getBalance
<1>7. OpenBlock'
  BY <1>1 DEF OpenBlock
<1> QED
  BY <1>3, <1>5, <1>6, <1>7 DEF CoinInv

(* The Bitcoin demo, whatever the wallets pay and however long mining takes: *)
(* no wallet knows an output that was spent, and the blocks are linked by   *)
(* hashes that cover their transactions, but for the lucky ones.            *)
THEOREM WalletsAndBlocksAgree ==
  Coin!Spec => [](Coin!WalletsUpToDate /\ Coin!BlocksLinked)
<1>1. Coin!Init => CoinInv
  <2> SUFFICES ASSUME Coin!Init PROVE CoinInv
    OBVIOUS
  <2>1. wallet = [w \in Wallets |-> {}] /\ block = Coin!NoBlock
    BY DEF Coin!Init
  <2>2. PICK g : g = Coin!GenesisBlock
    OBVIOUS
  <2>3. blockChain = <<g>>
    BY <2>2 DEF Coin!Init
  <2>4. IsList(blockChain) /\ blockChain # << >> /\ Size(blockChain) = 1
    <3>1. <<g>> \in Seq({g})
      OBVIOUS
    <3> QED
      BY <2>3, <3>1 DEF IsList, Size
  <2>5. Coin!BlocksLinked
    BY <2>4 DEF Coin!BlocksLinked, Size
  <2> QED
    BY <2>1, <2>4, <2>5 DEF CoinInv, OpenBlock, Coin!WalletsUpToDate
<1>2. CoinInv /\ [Coin!Next]_Coin!vars => CoinInv'
  <2> SUFFICES ASSUME CoinInv, [Coin!Next]_Coin!vars PROVE CoinInv'
    OBVIOUS
  <2>1. CASE UNCHANGED Coin!vars
    BY <2>1 DEF Coin!vars, CoinInv, OpenBlock, Coin!WalletsUpToDate, Coin!BlocksLinked
  <2>2. CASE Coin!Next
    BY <2>2, StartedBlock, PaidInBlock, AddedBlock DEF Coin!Next
  <2> QED
    BY <2>1, <2>2
<1>3. CoinInv => Coin!WalletsUpToDate /\ Coin!BlocksLinked
  BY DEF CoinInv
<1> QED
  BY <1>1, <1>2, <1>3, PTL DEF Coin!Spec

-----------------------------------------------------------------------------
(* The Raft library with files (FileRaft). *)
CONSTANTS Timeouts, Commands, SnapAt, MaxSend, MaxCrash
VARIABLES rf, round, busy, disk, files, applyCh, app, msgs, crashes, elected

File == INSTANCE FileRaft

(* The vote of whom has not voted. *)
NoVote == ""
FileAssumption == IsFiniteSet(Server) /\ NoVote \notin Server

(* The fields of the Raft structure that change by themselves. *)
Shaped(r) ==
  {"role", "term", "votedFor", "log", "base", "baseTerm", "commit", "applied", "next", "match"} \subseteq DOMAIN r

Addressed(m) ==
  /\ m.term \in Nat /\ m.from \in Server /\ m.to \in Server
  /\ m.type = "vote" => m.from # m.to
  /\ m.type = "voteReply" => m.argTerm \in Nat /\ m.from # m.to
  /\ m.type = "install" => m.index \in Nat /\ IsList(m.data) /\ Size(m.data) = m.index

PerServer(f) == f = [s \in Server |-> f[s]]

FileTypeOK ==
  /\ PerServer(rf) /\ PerServer(disk) /\ PerServer(round) /\ PerServer(busy)
  /\ PerServer(files) /\ PerServer(applyCh) /\ PerServer(app)
  /\ \A s \in Server : Shaped(rf[s]) /\ rf[s].term \in Nat /\ rf[s].base \in Nat
  /\ \A m \in msgs : Addressed(m)

(* Why a term has one leader.  A granted answer, and the vote it stands for: *)
(* given, or of a term that is over.                                        *)
Grant(m) == m.type = "voteReply" /\ m.granted
GrantedBy(v, c, t) == \E m \in msgs : Grant(m) /\ m.from = v /\ m.to = c /\ m.argTerm = t
Bound(s, c, t) == rf[s].term > t \/ (rf[s].term = t /\ rf[s].votedFor = c)

VotesOnDisk ==
  /\ \A s \in Server : disk[s].term = rf[s].term /\ disk[s].votedFor = rf[s].votedFor
  /\ \A s \in Server : rf[s].role # "Follower" => rf[s].votedFor = s
  /\ \A m \in msgs : Grant(m) => Bound(m.from, m.to, m.argTerm)
  /\ \A m, q \in msgs : Grant(m) /\ Grant(q) /\ m.from = q.from /\ m.argTerm = q.argTerm => m.to = q.to

(* The round of s: answers of one term, which is the own one as long as s   *)
(* is a candidate.                                                          *)
RoundCounts(s) ==
  round[s] # File!None =>
    /\ round[s] = [at |-> round[s].at, term |-> round[s].term, granted |-> round[s].granted,
                   finished |-> round[s].finished, maxTerm |-> round[s].maxTerm]
    /\ round[s].granted \subseteq Server /\ s \in round[s].granted /\ round[s].maxTerm \in Nat
    /\ rf[s].role = "Candidates" => rf[s].term = round[s].term
    /\ \A v \in round[s].granted \ {s} : GrantedBy(v, s, round[s].term)

Elects(x) ==
  /\ x[1] \in Nat /\ x[2] \in Server /\ Bound(x[2], x[2], x[1])
  /\ \E Q \in SUBSET Server : /\ x[2] \in Q /\ 2 * Cardinality(Q) > Cardinality(Server)
                              /\ \A v \in Q \ {x[2]} : GrantedBy(v, x[2], x[1])
  /\ \A c \in Server : ~GrantedBy(x[2], c, x[1])

FileVotes == VotesOnDisk /\ (\A s \in Server : RoundCounts(s)) /\ \A x \in elected : Elects(x)

(* Why a crash finds the snapshot, and the application gets each index.     *)
HasFile(s, i) == \E f \in files[s] : f.index = i

(* Every snapshot is whole; the one the state file names is there, also     *)
(* between the three writes.                                                *)
FilesWhole(s) ==
  /\ \A f \in files[s] : IsList(f.content) /\ Size(f.content) = f.index
  /\ disk[s].base \in Nat /\ (disk[s].base > 0 => HasFile(s, disk[s].base))
  /\ busy[s].at # "saving" => disk[s].base = rf[s].base

Reply(m) == m = File!None \/ (m.type = "installReply" /\ Addressed(m))

Saving(s) ==
  busy[s].at = "saving" =>
    /\ busy[s] = [at |-> "saving", step |-> busy[s].step, content |-> busy[s].content, msg |-> busy[s].msg]
    /\ busy[s].step \in {1, 2, 3} /\ IsList(busy[s].content) /\ Size(busy[s].content) = rf[s].base
    /\ Reply(busy[s].msg)
    /\ busy[s].step = 2 => HasFile(s, rf[s].base)
    /\ busy[s].step = 3 => disk[s].base = rf[s].base

(* What the application will have when it has emptied the channel. *)
After(s) == IF applyCh[s] = << >> THEN Size(app[s].value) ELSE applyCh[s][1].index

Delivers(x, i) ==
  /\ x.index \in Nat /\ x.snapshot \in BOOLEAN /\ IsList(x.content)
  /\ x.snapshot => Size(x.content) = x.index
  /\ ~x.snapshot => Size(x.content) = 1 /\ x.index = i + 1

Applies(s) ==
  /\ app[s] = [value |-> app[s].value, wants |-> app[s].wants] /\ IsList(app[s].value)
  /\ app[s].wants # 0 => app[s].wants = Size(app[s].value)
  /\ applyCh[s] # << >> => /\ applyCh[s] = << applyCh[s][1] >>
                           /\ Delivers(applyCh[s][1], Size(app[s].value))
  /\ busy[s].at # "sending" => rf[s].applied = After(s)
  /\ busy[s].at = "sending" => /\ rf[s].applied = busy[s].index /\ Delivers(busy[s], After(s))
                               /\ Reply(busy[s].msg)

LocalOf(s) == FilesWhole(s) /\ Saving(s) /\ Applies(s)

FileInv == FileTypeOK /\ FileVotes /\ \A s \in Server : LocalOf(s)

-----------------------------------------------------------------------------
(* The sets of the instance are those of this module. *)
LEMMA FileCardinality ==
  \A S : File!Cardinality(S) = Cardinality(S)
<1>1. \A S : File!IsFiniteSet(S) = IsFiniteSet(S)
  BY DEF IsFiniteSet, File!IsFiniteSet
<1> QED
  BY <1>1 DEF Cardinality, File!Cardinality

(* Nothing but s moves. *)
Elsewhere(s) ==
  /\ PerServer(rf)' /\ PerServer(disk)' /\ PerServer(round)' /\ PerServer(busy)'
  /\ PerServer(files)' /\ PerServer(applyCh)' /\ PerServer(app)'
  /\ \A p \in Server \ {s} :
       /\ rf'[p] = rf[p] /\ disk'[p] = disk[p] /\ round'[p] = round[p] /\ busy'[p] = busy[p]
       /\ files'[p] = files[p] /\ applyCh'[p] = applyCh[p] /\ app'[p] = app[p]

(* The structure of s is still one, and what is sent is addressed. *)
StillTyped(s) ==
  /\ Shaped(rf'[s]) /\ rf'[s].term \in Nat /\ rf'[s].base \in Nat
  /\ \A m \in msgs' : m \in msgs \/ Addressed(m)

LEMMA TypesStay ==
  ASSUME FileTypeOK, NEW s \in Server, Elsewhere(s), StillTyped(s)
  PROVE  FileTypeOK'
<1>1. \A p \in Server : Shaped(rf'[p]) /\ rf'[p].term \in Nat /\ rf'[p].base \in Nat
  BY DEF FileTypeOK, Elsewhere, StillTyped
<1>2. \A m \in msgs' : Addressed(m)
  BY DEF FileTypeOK, StillTyped
<1> QED
  BY <1>1, <1>2 DEF FileTypeOK, Elsewhere

(* A step of s as its voters see it: s gives at most its own vote away, once *)
(* a term, and stands only in a new one.                                    *)
VoteMoves(s) ==
  /\ disk'[s].term = rf'[s].term /\ disk'[s].votedFor = rf'[s].votedFor
  /\ \/ /\ rf'[s].term = rf[s].term /\ rf[s].votedFor \in {rf'[s].votedFor, NoVote}
        /\ rf[s].role = "Follower" => rf'[s].role = "Follower"
     \/ rf'[s].term > rf[s].term /\ (rf'[s].role = "Follower" \/ rf'[s].votedFor = s)
  /\ RoundCounts(s)'
  /\ msgs \subseteq msgs'
  /\ \A m \in msgs' : Grant(m) =>
       m \in msgs \/ (m.from = s /\ m.argTerm = rf'[s].term /\ rf'[s].votedFor = m.to /\ m.to \in Server \ {s})
  /\ \A x \in elected' : x \in elected \/ Elects(x)

LEMMA VotesStay ==
  ASSUME FileAssumption, FileTypeOK, FileVotes, NEW s \in Server, Elsewhere(s), StillTyped(s), VoteMoves(s)
  PROVE  FileVotes'
<1>1. \A p \in Server : rf[p].term \in Nat /\ rf'[p].term \in Nat
  BY DEF FileTypeOK, StillTyped, Elsewhere
<1>2. ASSUME NEW p \in Server, NEW c \in Server, NEW t \in Nat, Bound(p, c, t)
      PROVE  Bound(p, c, t)'
  BY <1>1, <1>2 DEF Bound, VoteMoves, Elsewhere, FileAssumption
<1>3. \A v, c, t : GrantedBy(v, c, t) => GrantedBy(v, c, t)'
  BY DEF GrantedBy, Grant, VoteMoves
<1>4. VotesOnDisk'
  <2>1. \A p \in Server : disk'[p].term = rf'[p].term /\ disk'[p].votedFor = rf'[p].votedFor
    BY DEF FileVotes, VotesOnDisk, VoteMoves, Elsewhere
  <2>2. ASSUME NEW p \in Server, rf'[p].role # "Follower" PROVE rf'[p].votedFor = p
    BY <2>2 DEF FileVotes, VotesOnDisk, VoteMoves, Elsewhere, FileAssumption
  <2>3. ASSUME NEW m \in msgs', Grant(m) PROVE Bound(m.from, m.to, m.argTerm)'
    <3>1. CASE m \in msgs
      BY <1>2, <2>3, <3>1 DEF FileVotes, VotesOnDisk, FileTypeOK, Addressed, Grant
    <3>2. CASE m \notin msgs
      BY <2>3, <3>2 DEF VoteMoves, Bound
    <3> QED
      BY <3>1, <3>2
  <2>4. ASSUME NEW m \in msgs', NEW q \in msgs', Grant(m), Grant(q), m.from = q.from, m.argTerm = q.argTerm,
               m \notin msgs
        PROVE  m.to = q.to
    <3>1. m.from = s /\ m.argTerm = rf'[s].term /\ rf'[s].votedFor = m.to
      BY <2>4 DEF VoteMoves
    <3>2. CASE q \in msgs
      <4>1. Bound(s, q.to, rf'[s].term) /\ q.to \in Server
        BY ZenonT(30), <2>4, <3>1, <3>2 DEF FileVotes, VotesOnDisk, FileTypeOK, Addressed, Grant
      <4> QED
        BY <1>1, <3>1, <4>1 DEF Bound, VoteMoves, FileAssumption
    <3>3. CASE q \notin msgs
      BY <2>4, <3>1, <3>3 DEF VoteMoves
    <3> QED
      BY <3>2, <3>3
  <2>5. \A m, q \in msgs' : Grant(m) /\ Grant(q) /\ m.from = q.from /\ m.argTerm = q.argTerm => m.to = q.to
    <3>1. \A m, q \in msgs : Grant(m) /\ Grant(q) /\ m.from = q.from /\ m.argTerm = q.argTerm => m.to = q.to
      BY DEF FileVotes, VotesOnDisk
    <3> QED
      BY <2>4, <3>1
  <2> QED
    BY <2>1, <2>2, <2>3, <2>5 DEF VotesOnDisk, Grant
<1>5. ASSUME NEW p \in Server PROVE RoundCounts(p)'
  <2>1. CASE p = s
    BY <2>1 DEF VoteMoves
  <2>2. CASE p # s
    BY SMTT(30), <1>3, <2>2 DEF RoundCounts, FileVotes, Elsewhere
  <2> QED
    BY <2>1, <2>2
<1>6. ASSUME NEW x \in elected' PROVE Elects(x)'
  <2>1. Elects(x)
    BY <1>6 DEF VoteMoves, FileVotes
  <2>2. ASSUME NEW c \in Server PROVE ~GrantedBy(x[2], c, x[1])'
    <3> SUFFICES ASSUME NEW m \in msgs', Grant(m), m.from = x[2], m.to = c, m.argTerm = x[1] PROVE FALSE
      BY DEF GrantedBy, Grant
    <3>1. m \notin msgs
      BY <2>1 DEF Elects, GrantedBy
    <3>2. x[2] = s /\ x[1] = rf'[s].term /\ rf'[s].votedFor \in Server \ {s}
      BY <3>1 DEF VoteMoves
    <3>3. Bound(s, s, rf'[s].term)
      BY <2>1, <3>2 DEF Elects
    <3> QED
      BY <1>1, <3>2, <3>3 DEF Bound, VoteMoves, FileAssumption
  <2> QED
    BY <1>2, <1>3, <2>1, <2>2 DEF Elects
<1> QED
  BY <1>4, <1>5, <1>6 DEF FileVotes

(* One that gives no vote: s keeps its term, or follows in a later one.     *)
NoVoteGiven(s) ==
  /\ disk'[s].term = rf'[s].term /\ disk'[s].votedFor = rf'[s].votedFor
  /\ \/ /\ rf'[s].term = rf[s].term /\ rf'[s].votedFor = rf[s].votedFor
        /\ rf'[s].role \in {rf[s].role, "Follower"}
     \/ rf'[s].term > rf[s].term /\ rf'[s].role = "Follower"
  /\ round'[s] \in {round[s], File!None}
  /\ msgs \subseteq msgs' /\ \A m \in msgs' : Grant(m) => m \in msgs
  /\ elected' = elected

LEMMA NoVoteMoves ==
  ASSUME FileVotes, NEW s \in Server, NoVoteGiven(s)
  PROVE  VoteMoves(s)
<1>1. \A v, c, t : GrantedBy(v, c, t) => GrantedBy(v, c, t)'
  BY DEF GrantedBy, Grant, NoVoteGiven
<1>2. RoundCounts(s)'
  BY <1>1 DEF RoundCounts, FileVotes, NoVoteGiven
<1> QED
  BY <1>2 DEF VoteMoves, NoVoteGiven

(* What s has on disk and in the application does not change. *)
Still(s) ==
  /\ rf'[s].base = rf[s].base /\ rf'[s].applied = rf[s].applied /\ disk'[s].base = disk[s].base
  /\ busy'[s] = busy[s] /\ files'[s] = files[s] /\ applyCh'[s] = applyCh[s] /\ app'[s] = app[s]

LEMMA LocalStays ==
  ASSUME NEW s \in Server, LocalOf(s), Still(s)
  PROVE  LocalOf(s)'
<1>1. FilesWhole(s)'
  BY DEF LocalOf, FilesWhole, HasFile, Still
<1>2. Saving(s)'
  BY DEF LocalOf, Saving, HasFile, Still, Reply, Addressed
<1>3. After(s)' = After(s)
  BY DEF After, Still
<1>4. Applies(s)'
  BY <1>3 DEF LocalOf, Applies, Delivers, Still, Reply, Addressed
<1> QED
  BY <1>1, <1>2, <1>4 DEF LocalOf

LEMMA ElsewhereLocal ==
  ASSUME \A p \in Server : LocalOf(p), NEW s \in Server, Elsewhere(s), LocalOf(s)'
  PROVE  \A p \in Server : LocalOf(p)'
<1>1. ASSUME NEW p \in Server \ {s} PROVE LocalOf(p)'
  BY <1>1, LocalStays DEF Elsewhere, Still
<1> QED
  BY <1>1

(* A step of s. *)
LEMMA Moves ==
  ASSUME FileAssumption, FileInv, NEW s \in Server, Elsewhere(s), StillTyped(s),
         NoVoteGiven(s) \/ VoteMoves(s), Still(s) \/ LocalOf(s)'
  PROVE  FileInv'
<1>1. VoteMoves(s)
  BY NoVoteMoves DEF FileInv
<1>2. LocalOf(s)'
  BY LocalStays DEF FileInv
<1> QED
  BY <1>1, <1>2, TypesStay, VotesStay, ElsewhereLocal DEF FileInv

(* What is read of a snapshot that is there. *)
LEMMA SnapshotRead ==
  ASSUME NEW s \in Server, FilesWhole(s)
  PROVE  IsList(File!mustReadFile(s, disk[s].base)) /\ Size(File!mustReadFile(s, disk[s].base)) = disk[s].base
<1> DEFINE f == {x \in files[s] : x.index = disk[s].base}
<1>1. CASE f = {}
  <2>1. disk[s].base = 0
    BY <1>1 DEF FilesWhole, HasFile
  <2>2. IsList(<< >>) /\ Size(<< >>) = 0
    <3>1. << >> \in Seq({})
      OBVIOUS
    <3> QED
      BY <3>1 DEF IsList, Size
  <2>3. File!mustReadFile(s, disk[s].base) = << >>
    BY <1>1 DEF File!mustReadFile
  <2> QED
    BY <2>1, <2>2, <2>3
<1>2. CASE f # {}
  <2>1. PICK x \in f : File!mustReadFile(s, disk[s].base) = x.content
    BY <1>2 DEF File!mustReadFile
  <2> QED
    BY <2>1 DEF FilesWhole
<1> QED
  BY <1>1, <1>2

-----------------------------------------------------------------------------
(* The records of the code. *)

(* What a handler starts from after it has seen a term. *)
LEMMA KnownTerm ==
  ASSUME NEW r, Shaped(r), r.term \in Nat, NEW t \in Nat
  PROVE  /\ Shaped(File!Follow(r, t)) /\ File!Follow(r, t).role = "Follower" /\ File!Follow(r, t).term = t
         /\ File!Follow(r, t).votedFor = NoVote
         /\ File!Follow(r, t).base = r.base /\ File!Follow(r, t).applied = r.applied
         /\ File!Known(r, t) = IF t > r.term THEN File!Follow(r, t) ELSE r
<1>1. File!Follow(r, t) = [r EXCEPT !.role = "Follower", !.term = t, !.votedFor = NoVote]
  BY Zenon DEF File!Follow, NoVote
<1>2. PICK n : n = NoVote
  OBVIOUS
<1>3. PICK q : q = [r EXCEPT !.role = "Follower", !.term = t, !.votedFor = n]
  OBVIOUS
<1>4. Shaped(q) /\ q.role = "Follower" /\ q.term = t /\ q.votedFor = n /\ q.base = r.base /\ q.applied = r.applied
  BY <1>3 DEF Shaped
<1>5. q = File!Follow(r, t)
  BY <1>1, <1>2, <1>3, Zenon
<1> QED
  BY <1>2, <1>4, <1>5 DEF File!Known

(* The parts of a structure that its disk or its voters know. *)
Same(q, r) ==
  /\ Shaped(q) /\ q.role = r.role /\ q.term = r.term /\ q.votedFor = r.votedFor
  /\ q.base = r.base /\ q.applied = r.applied

LEMMA CommitOnly ==
  ASSUME NEW r, Shaped(r), NEW s
  PROVE  Same(File!updateCommitIndex(s, r), r)
<1>1. PICK c : File!updateCommitIndex(s, r) = [r EXCEPT !.commit = c]
  BY Zenon DEF File!updateCommitIndex
<1>2. PICK q : q = [r EXCEPT !.commit = c]
  OBVIOUS
<1>3. Same(q, r)
  BY <1>2 DEF Same, Shaped
<1> QED
  BY <1>1, <1>2, <1>3

LEMMA Persisted ==
  ASSUME FileInv, NEW s \in Server, File!Unlocked(s), NEW q, File!persist(s, q),
         Shaped(q), q.base = rf[s].base, q.applied = rf[s].applied,
         UNCHANGED <<busy, files, applyCh, app>>,
         PerServer(round'), \A p \in Server \ {s} : round'[p] = round[p]
  PROVE  /\ Elsewhere(s) /\ Still(s) /\ rf'[s] = q
         /\ disk'[s].term = q.term /\ disk'[s].votedFor = q.votedFor
<1>1. busy[s].at = "none"
  BY DEF File!Unlocked, File!None
<1>2. disk[s].base = rf[s].base
  BY <1>1 DEF FileInv, LocalOf, FilesWhole
<1>3. rf' = [rf EXCEPT ![s] = q] /\ disk' = [disk EXCEPT ![s] = File!Durable(q)]
  BY DEF File!persist
<1>4. rf'[s] = q /\ disk'[s] = File!Durable(q)
  BY <1>3 DEF FileInv, FileTypeOK, PerServer
<1>5. File!Durable(q).term = q.term /\ File!Durable(q).votedFor = q.votedFor /\ File!Durable(q).base = q.base
  BY DEF File!Durable
<1>6. PerServer(rf)' /\ PerServer(disk)' /\ \A p \in Server \ {s} : rf'[p] = rf[p] /\ disk'[p] = disk[p]
  BY <1>3 DEF FileInv, FileTypeOK, PerServer
<1>7. PerServer(busy)' /\ PerServer(files)' /\ PerServer(applyCh)' /\ PerServer(app)' /\ PerServer(round)'
  BY DEF FileInv, FileTypeOK, PerServer
<1> QED
  BY <1>2, <1>4, <1>5, <1>6, <1>7 DEF Elsewhere, Still

LEMMA InMemory ==
  ASSUME FileInv, NEW s \in Server, NEW q, rf' = [rf EXCEPT ![s] = q], Shaped(q),
         q.base = rf[s].base, q.applied = rf[s].applied,
         UNCHANGED <<disk, busy, files, applyCh, app>>,
         PerServer(round'), \A p \in Server \ {s} : round'[p] = round[p]
  PROVE  Elsewhere(s) /\ Still(s) /\ rf'[s] = q
<1>1. rf'[s] = q /\ PerServer(rf)' /\ \A p \in Server \ {s} : rf'[p] = rf[p]
  BY DEF FileInv, FileTypeOK, PerServer
<1>2. PerServer(disk)' /\ PerServer(busy)' /\ PerServer(files)' /\ PerServer(applyCh)' /\ PerServer(app)' /\ PerServer(round)'
  BY DEF FileInv, FileTypeOK, PerServer
<1> QED
  BY <1>1, <1>2 DEF Elsewhere, Still

(* A handler of s that gives no vote, and at most persists. *)
LEMMA PersistOnly ==
  ASSUME FileAssumption, FileInv, NEW s \in Server, File!Unlocked(s), NEW q, File!persist(s, q),
         Shaped(q), q.term \in Nat, q.base = rf[s].base, q.applied = rf[s].applied,
         \/ q.term = rf[s].term /\ q.votedFor = rf[s].votedFor /\ q.role \in {rf[s].role, "Follower"}
         \/ q.term > rf[s].term /\ q.role = "Follower",
         UNCHANGED <<busy, files, applyCh, app, elected>>, PerServer(round'),
         \A p \in Server \ {s} : round'[p] = round[p], round'[s] \in {round[s], File!None},
         msgs \subseteq msgs', \A m \in msgs' : m \in msgs \/ (Addressed(m) /\ ~Grant(m))
  PROVE  FileInv'
<1>1. /\ Elsewhere(s) /\ Still(s) /\ rf'[s] = q
      /\ disk'[s].term = q.term /\ disk'[s].votedFor = q.votedFor
  BY Persisted
<1>2. StillTyped(s)
  BY <1>1 DEF StillTyped, FileInv, FileTypeOK
<1>3. NoVoteGiven(s)
  BY <1>1 DEF NoVoteGiven
<1> QED
  BY <1>1, <1>2, <1>3, Moves

LEMMA MemoryOnly ==
  ASSUME FileAssumption, FileInv, NEW s \in Server, NEW q, rf' = [rf EXCEPT ![s] = q], Same(q, rf[s]),
         UNCHANGED <<disk, busy, files, applyCh, app, elected>>, PerServer(round'),
         \A p \in Server \ {s} : round'[p] = round[p], round'[s] \in {round[s], File!None},
         msgs \subseteq msgs', \A m \in msgs' : m \in msgs \/ (Addressed(m) /\ ~Grant(m))
  PROVE  FileInv'
<1>1. Elsewhere(s) /\ Still(s) /\ rf'[s] = q
  BY InMemory DEF Same
<1>2. StillTyped(s)
  BY <1>1 DEF StillTyped, FileInv, FileTypeOK, Same
<1>3. NoVoteGiven(s)
  BY <1>1 DEF NoVoteGiven, Same, FileInv, FileVotes, VotesOnDisk
<1> QED
  BY <1>1, <1>2, <1>3, Moves

(* Messages only. *)
LEMMA SendsOnly ==
  ASSUME FileAssumption, FileInv, NEW s \in Server, UNCHANGED <<rf, round, disk, busy, files, applyCh, app, elected>>,
         msgs \subseteq msgs', \A m \in msgs' : m \in msgs \/ (Addressed(m) /\ ~Grant(m))
  PROVE  FileInv'
<1>1. Elsewhere(s) /\ Still(s) /\ StillTyped(s)
  BY DEF Elsewhere, Still, StillTyped, FileInv, FileTypeOK, PerServer
<1>2. NoVoteGiven(s)
  BY DEF NoVoteGiven, FileInv, FileVotes, VotesOnDisk
<1> QED
  BY <1>1, <1>2, Moves

-----------------------------------------------------------------------------
(* The steps that neither vote nor save. *)
LEMMA StartCommandStep ==
  ASSUME FileAssumption, FileInv, NEW s \in Server, NEW c, File!Start(s, c)
  PROVE  FileInv'
<1>1. PICK q, e : q = [rf[s] EXCEPT !.log = e] /\ File!persist(s, q)
  BY Zenon DEF File!Start
<1>2. Same(q, rf[s])
  BY <1>1 DEF Same, Shaped, FileInv, FileTypeOK
<1>3. File!Unlocked(s) /\ UNCHANGED <<round, busy, files, applyCh, app, msgs, elected>>
  BY DEF File!Start
<1>4. rf[s].term \in Nat /\ PerServer(round')
  BY <1>3 DEF FileInv, FileTypeOK, PerServer
<1> QED
  BY <1>1, <1>2, <1>3, <1>4, PersistOnly DEF Same

LEMMA AppendEntriesStep ==
  ASSUME FileAssumption, FileInv, NEW m \in msgs, File!AppendEntries(m)
  PROVE  FileInv'
<1> DEFINE s == m.to
           r == File!Known(rf[s], m.term)
<1>1. s \in Server /\ Addressed(m) /\ Shaped(rf[s]) /\ rf[s].term \in Nat /\ s = m.to
  BY DEF FileInv, FileTypeOK, Addressed
<1> HIDE DEF s, r
<1>a. /\ File!Unlocked(s) /\ UNCHANGED <<round, busy, files, applyCh, app, elected>>
      /\ \/ m.term < rf[s].term /\ UNCHANGED <<rf, disk>>
         \/ ~(m.term < rf[s].term) /\ \E ok, lg, ci : File!persist(s, IF ~ok THEN r ELSE [r EXCEPT !.log = lg, !.commit = ci])
  BY Zenon DEF File!AppendEntries, s, r
<1>b. \E ok, c : msgs' = msgs \cup {[type |-> "appendReply", from |-> s, to |-> m.from, term |-> rf[s].term,
                                     success |-> ok, req |-> m, conflict |-> c]}
  BY Zenon DEF File!AppendEntries, s
<1>2. /\ File!Unlocked(s) /\ UNCHANGED <<round, busy, files, applyCh, app, elected>>
      /\ \/ UNCHANGED <<rf, disk>>
         \/ ~(m.term < rf[s].term) /\ \E lg, ci, q : /\ q = r \/ q = [r EXCEPT !.log = lg, !.commit = ci]
                                                    /\ File!persist(s, q)
  BY <1>a, Zenon
<1>3. msgs \subseteq msgs' /\ \A x \in msgs' : x \in msgs \/ (Addressed(x) /\ ~Grant(x))
  BY <1>1, <1>b DEF Addressed, Grant
<1>4. CASE UNCHANGED <<rf, disk>>
  BY SMTT(30), <1>1, <1>2, <1>3, <1>4, SendsOnly
<1>5. ASSUME ~(m.term < rf[s].term), NEW lg, NEW ci, NEW q,
             q = r \/ q = [r EXCEPT !.log = lg, !.commit = ci], File!persist(s, q)
      PROVE  FileInv'
  <2>1. /\ Shaped(r) /\ r.base = rf[s].base /\ r.applied = rf[s].applied
        /\ \/ r.term = rf[s].term /\ r.votedFor = rf[s].votedFor /\ r.role = rf[s].role
           \/ r.term > rf[s].term /\ r.role = "Follower"
        /\ r.term \in Nat
    BY <1>1, KnownTerm DEF Addressed, r
  <2>2. Same(q, r)
    BY <1>5, <2>1 DEF Same, Shaped
  <2>3. PerServer(round')
    BY <1>2 DEF FileInv, FileTypeOK, PerServer
  <2> QED
    BY ZenonT(30), <1>1, <1>2, <1>3, <1>5, <2>1, <2>2, <2>3, PersistOnly DEF Same
<1> QED
  BY <1>2, <1>4, <1>5

LEMMA AppendReplyStep ==
  ASSUME FileAssumption, FileInv, NEW m \in msgs, File!AppendReply(m) \/ File!InstallReply(m)
  PROVE  FileInv'
<1> DEFINE s == m.to
<1>1. s \in Server /\ Addressed(m) /\ Shaped(rf[s]) /\ rf[s].term \in Nat
  BY DEF FileInv, FileTypeOK, Addressed
<1>2. /\ File!Unlocked(s) /\ UNCHANGED <<round, busy, files, applyCh, app, msgs, elected>>
      /\ \/ m.term > rf[s].term /\ File!persist(s, File!Follow(rf[s], m.term))
         \/ UNCHANGED disk /\ \E nx, mt : \/ rf' = [rf EXCEPT ![s] = File!updateCommitIndex(s, [rf[s] EXCEPT !.next[m.from] = nx, !.match[m.from] = mt])]
                                          \/ rf' = [rf EXCEPT ![s].next[m.from] = nx]
  BY ZenonT(30) DEF File!AppendReply, File!InstallReply
<1>3. PerServer(round')
  BY ZenonT(30), <1>2 DEF FileInv, FileTypeOK, PerServer
<1>4. CASE m.term > rf[s].term /\ File!persist(s, File!Follow(rf[s], m.term))
  <2>1. PICK q : q = File!Follow(rf[s], m.term)
    OBVIOUS
  <2>2. Shaped(q) /\ q.base = rf[s].base /\ q.applied = rf[s].applied /\ q.term = m.term /\ q.role = "Follower"
    BY SMTT(30), <1>1, <2>1, KnownTerm DEF Addressed
  <2> QED
    BY Zenon, <1>1, <1>2, <1>3, <1>4, <2>1, <2>2, PersistOnly DEF Addressed
<1>5. ASSUME UNCHANGED disk, NEW q, rf' = [rf EXCEPT ![s] = q], Same(q, rf[s]) PROVE FileInv'
  BY Zenon, <1>1, <1>2, <1>3, <1>5, MemoryOnly
<1>6. ASSUME NEW nx, NEW mt
      PROVE Same(File!updateCommitIndex(s, [rf[s] EXCEPT !.next[m.from] = nx, !.match[m.from] = mt]), rf[s])
  <2>1. PICK q : q = [rf[s] EXCEPT !.next[m.from] = nx, !.match[m.from] = mt]
    OBVIOUS
  <2>2. Same(q, rf[s])
    BY <1>1, <2>1 DEF Same, Shaped
  <2>3. Same(File!updateCommitIndex(s, q), q)
    BY <2>2, CommitOnly DEF Same
  <2> QED
    BY <2>1, <2>2, <2>3 DEF Same
<1>7. ASSUME NEW nx, rf' = [rf EXCEPT ![s].next[m.from] = nx]
      PROVE  \E q : rf' = [rf EXCEPT ![s] = q] /\ Same(q, rf[s])
  <2>1. PICK q : q = [rf[s] EXCEPT !.next = [rf[s].next EXCEPT ![m.from] = nx]]
    OBVIOUS
  <2>2. Same(q, rf[s])
    BY <1>1, <2>1 DEF Same, Shaped
  <2>3. rf' = [rf EXCEPT ![s] = q]
    BY <1>7, <2>1
  <2> QED
    BY <2>2, <2>3
<1> QED
  BY Zenon, <1>2, <1>4, <1>5, <1>6, <1>7

LEMMA SendToStep ==
  ASSUME FileAssumption, FileInv, NEW s \in Server, NEW p \in File!others(s), File!SendTo(s, p)
  PROVE  FileInv'
<1>1. p \in Server
  BY DEF File!others
<1>2. /\ File!Unlocked(s) /\ UNCHANGED <<rf, round, disk, busy, files, applyCh, app, elected>>
      /\ \E m : /\ msgs' = msgs \cup {m}
                /\ \/ m = [type |-> "install", from |-> s, to |-> p, term |-> rf[s].term, index |-> rf[s].base,
                           baseTerm |-> rf[s].baseTerm, data |-> File!ReadSnapshot(s)]
                   \/ \E pr, pt, es : m = [type |-> "append", from |-> s, to |-> p, term |-> rf[s].term, prev |-> pr,
                                           prevTerm |-> pt, commit |-> rf[s].commit, entries |-> es]
  BY ZenonT(30) DEF File!SendTo
<1>3. rf[s].term \in Nat /\ rf[s].base \in Nat
  BY DEF FileInv, FileTypeOK
<1>4. IsList(File!ReadSnapshot(s)) /\ Size(File!ReadSnapshot(s)) = rf[s].base
  BY SnapshotRead, <1>2 DEF FileInv, LocalOf, File!ReadSnapshot, FilesWhole, File!Unlocked, File!None
<1>5. msgs \subseteq msgs' /\ \A x \in msgs' : x \in msgs \/ (Addressed(x) /\ ~Grant(x))
  BY <1>1, <1>2, <1>3, <1>4 DEF Addressed, Grant
<1> QED
  BY <1>2, <1>5, SendsOnly

-----------------------------------------------------------------------------
(* The votes. *)
LEMMA ElectionStep ==
  ASSUME FileAssumption, FileInv, NEW s \in Server, File!electionLoop(s)
  PROVE  FileInv'
<1> DEFINE q == [rf[s] EXCEPT !.role = "Candidates", !.term = @ + 1, !.votedFor = s]
           v == [at |-> "voting", term |-> q.term, granted |-> {s}, finished |-> {s}, maxTerm |-> 0]
<1>1. Shaped(rf[s]) /\ rf[s].term \in Nat
  BY DEF FileInv, FileTypeOK
<1>2. /\ Shaped(q) /\ q.term = rf[s].term + 1 /\ q.votedFor = s /\ q.role = "Candidates"
      /\ q.base = rf[s].base /\ q.applied = rf[s].applied
  BY <1>1 DEF Shaped
<1>3. /\ File!Unlocked(s) /\ File!persist(s, q) /\ round' = [round EXCEPT ![s] = v]
      /\ UNCHANGED <<busy, files, applyCh, app, elected>>
  BY Zenon DEF File!electionLoop
<1>4. msgs' = msgs \cup {[type |-> "vote", from |-> s, to |-> p, term |-> q.term,
                          lastIndex |-> File!lastIndex(q), lastTerm |-> File!lastTerm(q)] : p \in File!others(s)}
  BY Zenon DEF File!electionLoop
<1> HIDE DEF q
<1>5. /\ PerServer(round)' /\ round'[s] = v /\ \A p \in Server \ {s} : round'[p] = round[p]
  BY <1>3 DEF FileInv, FileTypeOK, PerServer
<1>6. /\ Elsewhere(s) /\ Still(s) /\ rf'[s] = q
      /\ disk'[s].term = q.term /\ disk'[s].votedFor = q.votedFor
  BY <1>2, <1>3, <1>5, Persisted
<1>7. msgs \subseteq msgs' /\ \A m \in msgs' : m \in msgs \/ (Addressed(m) /\ ~Grant(m))
  BY <1>1, <1>2, <1>4 DEF Addressed, Grant, File!others
<1>8. StillTyped(s)
  BY <1>1, <1>2, <1>6, <1>7 DEF StillTyped, FileInv, FileTypeOK
<1>9. RoundCounts(s)'
  BY <1>2, <1>5, <1>6 DEF RoundCounts
<1>10. VoteMoves(s)
  BY <1>1, <1>2, <1>3, <1>6, <1>7, <1>9 DEF VoteMoves
<1> QED
  BY <1>6, <1>8, <1>10, Moves

LEMMA VoteResultStep ==
  ASSUME FileAssumption, FileInv, NEW s \in Server, NEW p \in File!others(s), NEW m \in msgs \cup {File!None},
         File!VoteResult(s, p, m)
  PROVE  FileInv'
<1> DEFINE v == round[s]
           w == [v EXCEPT !.finished = @ \cup {p},
                          !.granted = IF m # File!None /\ m.granted THEN @ \cup {p} ELSE @,
                          !.maxTerm = IF m # File!None /\ m.term > @ THEN m.term ELSE @]
<1>1. /\ v # File!None /\ round' = [round EXCEPT ![s] = w]
      /\ m # File!None => m.type = "voteReply" /\ m.from = p /\ m.to = s /\ m.argTerm = v.term
      /\ UNCHANGED <<rf, busy, disk, files, applyCh, app, msgs, elected>>
  BY Zenon DEF File!VoteResult
<1>2. PICK x : x = w
  OBVIOUS
<1>3. PICK u : u = v
  OBVIOUS
<1>4. /\ u = [at |-> u.at, term |-> u.term, granted |-> u.granted, finished |-> u.finished, maxTerm |-> u.maxTerm]
      /\ u.granted \subseteq Server /\ s \in u.granted /\ u.maxTerm \in Nat
      /\ rf[s].role = "Candidates" => rf[s].term = u.term
      /\ \A a \in u.granted \ {s} : GrantedBy(a, s, u.term)
  BY <1>1, <1>3 DEF FileInv, FileVotes, RoundCounts
<1>5. PICK g, t, f : x = [u EXCEPT !.finished = f, !.granted = g, !.maxTerm = t]
                     /\ g \in {u.granted, u.granted \cup {p}} /\ (g # u.granted => m # File!None /\ m.granted)
                     /\ (t = u.maxTerm \/ (m # File!None /\ t = m.term))
  BY <1>2, <1>3, <1>4
<1> HIDE DEF v, w
<1>6. x = [at |-> u.at, term |-> u.term, granted |-> g, finished |-> f, maxTerm |-> t]
  BY <1>4, <1>5
<1>7. m # File!None => m \in msgs /\ m.term \in Nat
  BY DEF FileInv, FileTypeOK, Addressed
<1>8. /\ t \in Nat /\ g \subseteq Server /\ s \in g
  BY <1>4, <1>5, <1>7 DEF File!others
<1>9. \A a \in g \ {s} : GrantedBy(a, s, u.term)
  BY <1>1, <1>3, <1>4, <1>5, <1>7 DEF GrantedBy, Grant, v
<1>10. round'[s] = x /\ PerServer(round)' /\ \A a \in Server \ {s} : round'[a] = round[a]
  BY <1>1, <1>2 DEF FileInv, FileTypeOK, PerServer
<1>11. RoundCounts(s)'
  <2>1. GrantedBy(1, 2, 3)' = GrantedBy(1, 2, 3) /\ \A a, b, c : GrantedBy(a, b, c)' = GrantedBy(a, b, c)
    BY <1>1 DEF GrantedBy, Grant
  <2> QED
    BY <1>1, <1>4, <1>6, <1>8, <1>9, <1>10, <2>1 DEF RoundCounts
<1>12. Elsewhere(s) /\ Still(s) /\ StillTyped(s)
  BY <1>1, <1>10 DEF Elsewhere, Still, StillTyped, FileInv, FileTypeOK, PerServer
<1>13. VoteMoves(s)
  BY <1>1, <1>11 DEF VoteMoves, FileInv, FileVotes, VotesOnDisk
<1> QED
  BY <1>12, <1>13, Moves

LEMMA VoteEndStep ==
  ASSUME FileAssumption, FileInv, NEW s \in Server, File!VoteEnd(s)
  PROVE  FileInv'
<1> DEFINE v == round[s]
           r == rf[s]
           q == [r EXCEPT !.role = "Leader", !.next = [p \in Server |-> File!lastIndex(r) + 1],
                          !.match = [p \in Server |-> 0]]
<1>1. /\ v # File!None /\ File!Unlocked(s) /\ round' = [round EXCEPT ![s] = File!None]
      /\ \/ UNCHANGED <<rf, disk, elected>>
         \/ r.role = "Candidates" /\ v.maxTerm > r.term /\ File!persist(s, File!Follow(r, v.maxTerm)) /\ UNCHANGED elected
         \/ /\ r.role = "Candidates" /\ File!Won(v) /\ UNCHANGED disk
            /\ rf' = [rf EXCEPT ![s] = q] /\ elected' = elected \cup {<<r.term, s>>}
      /\ UNCHANGED <<busy, files, applyCh, app, msgs>>
  BY Zenon DEF File!VoteEnd
<1>2. Shaped(r) /\ r.term \in Nat /\ v.maxTerm \in Nat
  BY <1>1 DEF FileInv, FileTypeOK, FileVotes, RoundCounts
<1>3. /\ PerServer(round)' /\ round'[s] = File!None /\ \A p \in Server \ {s} : round'[p] = round[p]
  BY <1>1 DEF FileInv, FileTypeOK, PerServer
<1>4. CASE UNCHANGED <<rf, disk, elected>>
  <2>1. Elsewhere(s) /\ Still(s) /\ StillTyped(s)
    BY <1>1, <1>3, <1>4 DEF Elsewhere, Still, StillTyped, FileInv, FileTypeOK, PerServer
  <2>2. NoVoteGiven(s)
    BY <1>1, <1>3, <1>4 DEF NoVoteGiven, FileInv, FileVotes, VotesOnDisk
  <2> QED
    BY <2>1, <2>2, Moves
<1>5. CASE v.maxTerm > r.term /\ File!persist(s, File!Follow(r, v.maxTerm)) /\ UNCHANGED elected
  <2>1. PICK x : x = File!Follow(r, v.maxTerm)
    OBVIOUS
  <2>2. Shaped(x) /\ x.base = r.base /\ x.applied = r.applied /\ x.term = v.maxTerm /\ x.role = "Follower"
    BY <1>2, <2>1, KnownTerm
  <2> QED
    BY <1>1, <1>2, <1>3, <1>5, <2>1, <2>2, PersistOnly
<1>6. CASE /\ r.role = "Candidates" /\ File!Won(v) /\ UNCHANGED disk
           /\ rf' = [rf EXCEPT ![s] = q] /\ elected' = elected \cup {<<r.term, s>>}
  <2>1. /\ Shaped(q) /\ q.role = "Leader" /\ q.term = r.term /\ q.votedFor = r.votedFor
        /\ q.base = r.base /\ q.applied = r.applied
    BY <1>2 DEF Shaped
  <2> HIDE DEF q
  <2>2. Elsewhere(s) /\ Still(s) /\ rf'[s] = q
    BY <1>1, <1>3, <1>6, <2>1, InMemory
  <2>3. StillTyped(s)
    BY <1>1, <2>1, <2>2 DEF StillTyped, FileInv, FileTypeOK
  <2>4. r.votedFor = s /\ r.term = v.term /\ v.granted \in SUBSET Server /\ s \in v.granted
        /\ \A a \in v.granted \ {s} : GrantedBy(a, s, r.term)
    BY <1>1, <1>6 DEF FileInv, FileVotes, VotesOnDisk, RoundCounts
  <2>5. 2 * Cardinality(v.granted) > Cardinality(Server)
    BY <1>6, FileCardinality DEF File!Won
  <2>6. ASSUME NEW c \in Server PROVE ~GrantedBy(s, c, r.term)
    <3> SUFFICES ASSUME NEW m \in msgs, Grant(m), m.from = s, m.to = c, m.argTerm = r.term PROVE FALSE
      BY DEF GrantedBy
    <3>1. Bound(s, c, r.term) /\ c # s
      BY DEF FileInv, FileVotes, VotesOnDisk, FileTypeOK, Addressed, Grant
    <3> QED
      BY <1>2, <2>4, <3>1 DEF Bound
  <2>7. Elects(<<r.term, s>>)
    BY <1>2, <2>4, <2>5, <2>6 DEF Elects, Bound
  <2>8. VoteMoves(s)
    <3>1. RoundCounts(s)'
      BY <1>3 DEF RoundCounts
    <3>2. disk[s].term = r.term /\ disk[s].votedFor = r.votedFor
      BY DEF FileInv, FileVotes, VotesOnDisk
    <3> QED
      BY <1>1, <1>6, <2>1, <2>2, <2>7, <3>1, <3>2 DEF VoteMoves
  <2> QED
    BY <2>2, <2>3, <2>8, Moves
<1> QED
  BY <1>1, <1>4, <1>5, <1>6

LEMMA RequestVoteStep ==
  ASSUME FileAssumption, FileInv, NEW m \in msgs, File!RequestVote(m)
  PROVE  FileInv'
<1> DEFINE s == m.to
           r == File!Known(rf[s], m.term)
<1>1. s \in Server /\ Addressed(m) /\ Shaped(rf[s]) /\ rf[s].term \in Nat /\ m.type = "vote" /\ s = m.to
  BY DEF FileInv, FileTypeOK, Addressed, File!RequestVote
<1> HIDE DEF s, r
<1>2. PICK grant \in BOOLEAN :
        /\ grant => ~(m.term < rf[s].term) /\ r.votedFor \in {NoVote, m.from}
        /\ IF m.term < rf[s].term THEN UNCHANGED <<rf, disk>>
           ELSE File!persist(s, IF grant THEN [r EXCEPT !.votedFor = m.from] ELSE r)
        /\ msgs' = msgs \cup {[type |-> "voteReply", from |-> s, to |-> m.from, argTerm |-> m.term,
                               term |-> rf[s].term, granted |-> grant]}
  <2> DEFINE g == /\ m.term >= rf[s].term /\ r.votedFor \in {NoVote, m.from} /\ File!UpToDate(r, m)
  <2>1. /\ IF m.term < rf[s].term THEN UNCHANGED <<rf, disk>>
           ELSE File!persist(s, IF g THEN [r EXCEPT !.votedFor = m.from] ELSE r)
        /\ msgs' = msgs \cup {[type |-> "voteReply", from |-> s, to |-> m.from, argTerm |-> m.term,
                               term |-> rf[s].term, granted |-> g]}
    BY Zenon DEF File!RequestVote, s, r, NoVote
  <2>2. g \in BOOLEAN
    OBVIOUS
  <2>3. g => ~(m.term < rf[s].term) /\ r.votedFor \in {NoVote, m.from}
    BY <1>1 DEF Addressed
  <2> HIDE DEF g
  <2> QED
    BY <2>1, <2>2, <2>3, Zenon
<1>3. File!Unlocked(s) /\ UNCHANGED <<round, busy, files, applyCh, app, elected>>
  BY Zenon DEF File!RequestVote, s
<1>4. /\ Shaped(r) /\ r.base = rf[s].base /\ r.applied = rf[s].applied
      /\ \/ r.term = rf[s].term /\ r.votedFor = rf[s].votedFor /\ r.role = rf[s].role
         \/ r.term > rf[s].term /\ r.role = "Follower"
      /\ r.term \in Nat /\ (m.term < rf[s].term \/ r.term = m.term)
  <2>1. m.term \in Nat
    BY <1>1 DEF Addressed
  <2>2. PICK k : k = File!Follow(rf[s], m.term)
    OBVIOUS
  <2>3. /\ Shaped(k) /\ k.role = "Follower" /\ k.term = m.term /\ k.base = rf[s].base /\ k.applied = rf[s].applied
        /\ r = IF m.term > rf[s].term THEN k ELSE rf[s]
    BY <1>1, <2>1, <2>2, KnownTerm DEF r
  <2> QED
    BY <1>1, <2>1, <2>3
<1>5. msgs \subseteq msgs' /\ \A x \in msgs' : x \in msgs \/ (Addressed(x) /\ (~Grant(x) \/ grant))
  BY <1>1, <1>2 DEF Addressed, Grant
<1>6. PerServer(round')
  BY <1>3 DEF FileInv, FileTypeOK, PerServer
<1>7. CASE m.term < rf[s].term
  BY <1>1, <1>2, <1>3, <1>5, <1>7, SendsOnly
<1>8. CASE ~(m.term < rf[s].term) /\ ~grant
  BY <1>1, <1>2, <1>3, <1>4, <1>5, <1>6, <1>8, PersistOnly
<1>9. CASE ~(m.term < rf[s].term) /\ grant
  <2>1. PICK q : q = [r EXCEPT !.votedFor = m.from]
    OBVIOUS
  <2>2. /\ Shaped(q) /\ q.role = r.role /\ q.term = m.term /\ q.votedFor = m.from
        /\ q.base = rf[s].base /\ q.applied = rf[s].applied
    BY <1>4, <1>9, <2>1 DEF Shaped
  <2>3. File!persist(s, q)
    BY <1>2, <1>9, <2>1
  <2>4. /\ Elsewhere(s) /\ Still(s) /\ rf'[s] = q
        /\ disk'[s].term = q.term /\ disk'[s].votedFor = q.votedFor
    BY <1>1, <1>3, <1>6, <2>2, <2>3, Persisted
  <2>5. StillTyped(s)
    BY <1>1, <1>5, <2>2, <2>4 DEF StillTyped, FileInv, FileTypeOK, Addressed
  <2>6. m.from \in Server \ {s} /\ r.votedFor \in {NoVote, m.from}
    BY <1>1, <1>2, <1>9 DEF Addressed
  <2>7. r.role = "Follower"
    BY <1>1, <1>4, <2>6 DEF FileInv, FileVotes, VotesOnDisk, FileAssumption
  <2>8. \A v, c, t : GrantedBy(v, c, t) => GrantedBy(v, c, t)'
    BY <1>5 DEF GrantedBy, Grant
  <2>9. RoundCounts(s)'
    BY <1>1, <1>3, <2>2, <2>4, <2>7, <2>8 DEF FileInv, FileVotes, RoundCounts
  <2>10. \A x \in msgs' : Grant(x) => x \in msgs \/ (x.from = s /\ x.argTerm = m.term /\ x.to = m.from)
    BY <1>2 DEF Grant
  <2>11. \/ rf'[s].term = rf[s].term /\ rf[s].votedFor \in {rf'[s].votedFor, NoVote}
         \/ rf'[s].term > rf[s].term
    BY <1>4, <1>9, <2>2, <2>4, <2>6
  <2> QED
    BY <1>1, <1>3, <1>5, <2>2, <2>4, <2>5, <2>6, <2>7, <2>9, <2>10, <2>11, Moves DEF VoteMoves
<1> QED
  BY <1>7, <1>8, <1>9

(* Two majorities of the servers have a member in common. *)
LEMMA MajoritiesMeet ==
  ASSUME FileAssumption, NEW P \in SUBSET Server, NEW Q \in SUBSET Server,
         2 * Cardinality(P) > Cardinality(Server), 2 * Cardinality(Q) > Cardinality(Server)
  PROVE  \E v \in Server : v \in P /\ v \in Q
<1> SUFFICES ASSUME P \cap Q = {} PROVE FALSE
  OBVIOUS
<1>1. IsFiniteSet(Server) /\ IsFiniteSet(P) /\ IsFiniteSet(Q)
  BY FS_Subset DEF FileAssumption
<1>2. Cardinality(P) \in Nat /\ Cardinality(Q) \in Nat /\ Cardinality(Server) \in Nat
  BY <1>1, FS_CardinalityType
<1>3. Cardinality(P \cup Q) = Cardinality(P) + Cardinality(Q)
  <2>1. Cardinality(P \cup Q) = Cardinality(P) + Cardinality(Q) - Cardinality(P \cap Q)
    BY <1>1, FS_Union
  <2>2. Cardinality(P \cap Q) = 0
    BY FS_EmptySet
  <2> QED
    BY <1>2, <2>1, <2>2
<1>4. Cardinality(P \cup Q) <= Cardinality(Server)
  BY <1>1, FS_Subset
<1> QED
  BY <1>2, <1>3, <1>4

LEMMA OneLeader ==
  ASSUME FileAssumption, FileInv
  PROVE  File!ElectionSafety
<1> SUFFICES ASSUME NEW x \in elected, NEW y \in elected, x[1] = y[1], x[2] # y[2] PROVE FALSE
  BY DEF File!ElectionSafety
<1>1. Elects(x) /\ Elects(y)
  BY DEF FileInv, FileVotes
<1>2. PICK P \in SUBSET Server : /\ x[2] \in P /\ 2 * Cardinality(P) > Cardinality(Server)
                                 /\ \A v \in P \ {x[2]} : GrantedBy(v, x[2], x[1])
  BY <1>1 DEF Elects
<1>3. PICK Q \in SUBSET Server : /\ y[2] \in Q /\ 2 * Cardinality(Q) > Cardinality(Server)
                                 /\ \A v \in Q \ {y[2]} : GrantedBy(v, y[2], x[1])
  BY <1>1 DEF Elects
<1>4. PICK v \in Server : v \in P /\ v \in Q
  BY <1>2, <1>3, MajoritiesMeet
<1>5. CASE v # x[2] /\ v # y[2]
  <2>1. GrantedBy(v, x[2], x[1]) /\ GrantedBy(v, y[2], x[1])
    BY <1>2, <1>3, <1>4, <1>5
  <2> QED
    BY <2>1 DEF FileInv, FileVotes, VotesOnDisk, GrantedBy
<1>6. CASE v = x[2]
  BY <1>1, <1>3, <1>4, <1>6 DEF Elects
<1>7. CASE v = y[2]
  BY <1>1, <1>2, <1>4, <1>7 DEF Elects
<1> QED
  BY <1>5, <1>6, <1>7

-----------------------------------------------------------------------------
(* The snapshots and the application. *)

(* A step that leaves the votes and the messages alone. *)
LEMMA LocalMove ==
  ASSUME FileAssumption, FileInv, NEW s \in Server, Elsewhere(s), UNCHANGED <<round, elected>>,
         Shaped(rf'[s]), rf'[s].base \in Nat, rf'[s].role = rf[s].role,
         rf'[s].term = rf[s].term, rf'[s].votedFor = rf[s].votedFor,
         disk'[s].term = disk[s].term, disk'[s].votedFor = disk[s].votedFor,
         msgs \subseteq msgs', \A m \in msgs' : m \in msgs \/ (Addressed(m) /\ ~Grant(m)),
         LocalOf(s)'
  PROVE  FileInv'
<1>1. StillTyped(s)
  BY DEF StillTyped, FileInv, FileTypeOK
<1>2. NoVoteGiven(s)
  BY DEF NoVoteGiven, FileInv, FileVotes, VotesOnDisk
<1> QED
  BY <1>1, <1>2, Moves

LEMMA IdleLocal ==
  ASSUME FileInv, NEW s \in Server, File!Unlocked(s)
  PROVE  /\ busy[s].at = "none" /\ disk[s].base = rf[s].base /\ rf[s].base \in Nat /\ Shaped(rf[s])
         /\ rf[s].applied = After(s)
<1>1. busy[s].at = "none"
  BY DEF File!Unlocked, File!None
<1> QED
  BY <1>1 DEF FileInv, FileTypeOK, LocalOf, FilesWhole, Applies

(* The application may stop wanting a snapshot. *)
LEMMA WantsGone ==
  ASSUME FileInv, NEW s \in Server, File!Unlocked(s), applyCh' = applyCh, rf'[s].applied = rf[s].applied,
         busy'[s].at # "sending", app'[s] = [value |-> app'[s].value, wants |-> app'[s].wants],
         app'[s].value = app[s].value, app'[s].wants \in {app[s].wants, 0}
  PROVE  Applies(s)'
<1>1. Applies(s) /\ rf[s].applied = After(s)
  BY IdleLocal DEF FileInv, LocalOf
<1>2. After(s)' = After(s)
  BY DEF After
<1>3. applyCh[s] # << >> => applyCh[s] = << applyCh[s][1] >> /\ Delivers(applyCh[s][1], Size(app[s].value))
  BY <1>1 DEF Applies
<1>4. applyCh'[s] # << >> => applyCh'[s] = << applyCh'[s][1] >> /\ Delivers(applyCh[s][1], Size(app[s].value))'
  BY <1>3 DEF Delivers
<1>5. IsList(app[s].value) /\ (app[s].wants # 0 => app[s].wants = Size(app[s].value))
  BY <1>1 DEF Applies
<1>6. IsList(app'[s].value) /\ (app'[s].wants # 0 => app'[s].wants = Size(app'[s].value))
  BY <1>5
<1> QED
  BY <1>1, <1>2, <1>4, <1>6 DEF Applies

(* What is there when a snapshot is about to be written. *)
Begun(s, q) ==
  /\ LocalOf(s)' /\ rf'[s] = q /\ PerServer(rf') /\ PerServer(busy')
  /\ \A p \in Server \ {s} : rf'[p] = rf[p] /\ busy'[p] = busy[p]

(* A snapshot is about to be written. *)
LEMMA SaveBegins ==
  ASSUME FileInv, NEW s \in Server, File!Unlocked(s), NEW q, NEW content, NEW msg, File!Save(s, q, content, msg),
         Shaped(q), q.base \in Nat, q.applied = rf[s].applied,
         IsList(content), Size(content) = q.base, Reply(msg),
         disk'[s].base = disk[s].base, PerServer(app'),
         app'[s] = app[s] \/ app'[s] = [app[s] EXCEPT !.wants = 0], UNCHANGED <<files, applyCh>>
  PROVE  Begun(s, q)
<1>1. /\ rf'[s] = q /\ PerServer(rf') /\ PerServer(busy')
      /\ busy'[s] = [at |-> "saving", step |-> 1, content |-> content, msg |-> msg]
      /\ \A p \in Server \ {s} : rf'[p] = rf[p] /\ busy'[p] = busy[p]
  BY DEF File!Save, FileInv, FileTypeOK, PerServer
<1>2. FilesWhole(s)'
  BY <1>1 DEF FilesWhole, HasFile, FileInv, LocalOf
<1>3. Reply(msg)'
  BY DEF Reply, Addressed
<1>4. Saving(s)'
  BY <1>1, <1>3 DEF Saving
<1>5. app'[s].value = app[s].value /\ app'[s].wants \in {app[s].wants, 0}
      /\ app'[s] = [value |-> app'[s].value, wants |-> app'[s].wants]
  <2>1. PICK a : a = app[s]
    OBVIOUS
  <2>2. a = [value |-> a.value, wants |-> a.wants]
    BY <2>1 DEF FileInv, LocalOf, Applies
  <2>3. PICK b : b = [a EXCEPT !.wants = 0]
    OBVIOUS
  <2>4. b = [value |-> a.value, wants |-> 0]
    BY <2>2, <2>3
  <2> QED
    BY <2>1, <2>2, <2>3, <2>4
<1>6. Applies(s)'
  BY SMTT(30), <1>1, <1>5, WantsGone DEF FileInv, LocalOf
<1> QED
  BY Zenon, <1>1, <1>2, <1>4, <1>6 DEF LocalOf, Begun

LEMMA InstallStep ==
  ASSUME FileAssumption, FileInv, NEW m \in msgs, File!InstallSnapshot(m)
  PROVE  FileInv'
<1> DEFINE s == m.to
           r == File!Known(rf[s], m.term)
           reply == [type |-> "installReply", from |-> s, to |-> m.from, term |-> rf[s].term, req |-> m]
<1>1. s \in Server /\ Addressed(m) /\ Shaped(rf[s]) /\ rf[s].term \in Nat /\ m.type = "install"
      /\ File!Unlocked(s) /\ m.term \in Nat
  BY DEF FileInv, FileTypeOK, Addressed, File!InstallSnapshot
<1>2. Addressed(reply) /\ ~Grant(reply) /\ Reply(reply)
  BY <1>1 DEF Addressed, Grant, Reply
<1> HIDE DEF s, r, reply
<1>3. UNCHANGED <<round, files, applyCh, app, elected>>
  BY DEF File!InstallSnapshot
<1>4. \/ UNCHANGED <<rf, disk, busy>> /\ msgs' = msgs \cup {reply}
      \/ File!persist(s, r) /\ UNCHANGED busy /\ msgs' = msgs \cup {reply} /\ ~(m.term < rf[s].term)
      \/ /\ ~(m.term < rf[s].term) /\ UNCHANGED msgs
         /\ disk' = [disk EXCEPT ![s] = IF m.term > rf[s].term THEN File!Durable(r) ELSE @]
         /\ \E lg : File!Save(s, [r EXCEPT !.base = m.index, !.baseTerm = m.baseTerm, !.log = lg], m.data, reply)
  <2>1. m.term >= rf[s].term => ~(m.term < rf[s].term)
    BY <1>1
  <2> QED
    BY <2>1, Zenon DEF File!InstallSnapshot, s, r, reply
<1>5. /\ Shaped(r) /\ r.base = rf[s].base /\ r.applied = rf[s].applied /\ r.term \in Nat
      /\ \/ r = rf[s] /\ ~(m.term > rf[s].term)
         \/ r.term > rf[s].term /\ r.role = "Follower" /\ m.term > rf[s].term
  <2>1. PICK k : k = File!Follow(rf[s], m.term)
    OBVIOUS
  <2>2. /\ Shaped(k) /\ k.role = "Follower" /\ k.term = m.term /\ k.base = rf[s].base /\ k.applied = rf[s].applied
        /\ r = IF m.term > rf[s].term THEN k ELSE rf[s]
    BY <1>1, <2>1, KnownTerm DEF r
  <2> QED
    BY <1>1, <2>2
<1>6. CASE UNCHANGED <<rf, disk, busy>> /\ msgs' = msgs \cup {reply}
  BY <1>1, <1>2, <1>3, <1>6, SendsOnly
<1>7. CASE File!persist(s, r) /\ UNCHANGED busy /\ msgs' = msgs \cup {reply}
  <2>1. PerServer(round')
    BY <1>3 DEF FileInv, FileTypeOK, PerServer
  <2> QED
    BY <1>1, <1>2, <1>3, <1>5, <1>7, <2>1, PersistOnly
<1>8. ASSUME NEW lg, File!Save(s, [r EXCEPT !.base = m.index, !.baseTerm = m.baseTerm, !.log = lg], m.data, reply),
             UNCHANGED msgs, disk' = [disk EXCEPT ![s] = IF m.term > rf[s].term THEN File!Durable(r) ELSE @]
      PROVE  FileInv'
  <2>1. PICK q : q = [r EXCEPT !.base = m.index, !.baseTerm = m.baseTerm, !.log = lg]
    OBVIOUS
  <2>2. /\ Shaped(q) /\ q.role = r.role /\ q.term = r.term /\ q.votedFor = r.votedFor
        /\ q.base = m.index /\ q.applied = r.applied
    BY <1>5, <2>1 DEF Shaped
  <2>3. m.index \in Nat /\ IsList(m.data) /\ Size(m.data) = m.index
    BY <1>1 DEF Addressed
  <2>4. /\ PerServer(disk') /\ \A p \in Server \ {s} : disk'[p] = disk[p]
        /\ disk'[s] = IF m.term > rf[s].term THEN File!Durable(r) ELSE disk[s]
    <3>1. PICK d : d = IF m.term > rf[s].term THEN File!Durable(r) ELSE disk[s]
      OBVIOUS
    <3>2. disk' = [disk EXCEPT ![s] = d]
      BY <1>8, <3>1
    <3>3. disk = [p \in Server |-> disk[p]]
      BY DEF FileInv, FileTypeOK, PerServer
    <3>4. disk'[s] = d /\ \A p \in Server \ {s} : disk'[p] = disk[p]
      BY <1>1, <3>2, <3>3
    <3>5. PerServer(disk')
      BY <3>2, <3>3 DEF PerServer
    <3> QED
      BY <3>1, <3>4, <3>5
  <2>5. disk'[s].base = disk[s].base /\ disk'[s].term = r.term /\ disk'[s].votedFor = r.votedFor
    <3>1. disk[s].base = rf[s].base /\ disk[s].term = rf[s].term /\ disk[s].votedFor = rf[s].votedFor
      BY <1>1, IdleLocal DEF FileInv, FileVotes, VotesOnDisk
    <3> QED
      BY <1>5, <2>4, <3>1 DEF File!Durable
  <2>6. PerServer(app') /\ PerServer(files') /\ PerServer(applyCh') /\ PerServer(round')
    BY <1>3 DEF FileInv, FileTypeOK, PerServer
  <2>7. /\ LocalOf(s)' /\ rf'[s] = q /\ PerServer(rf') /\ PerServer(busy')
        /\ \A p \in Server \ {s} : rf'[p] = rf[p] /\ busy'[p] = busy[p]
    <3>1. Begun(s, q)
      BY Zenon, <1>1, <1>2, <1>3, <1>5, <1>8, <2>1, <2>2, <2>3, <2>5, <2>6, SaveBegins
    <3> QED
      BY Zenon, <3>1 DEF Begun
  <2>8. Elsewhere(s)
    BY <1>3, <2>4, <2>6, <2>7 DEF Elsewhere
  <2>9. StillTyped(s)
    BY <1>5, <1>8, <2>2, <2>3, <2>7 DEF StillTyped
  <2>10. NoVoteGiven(s)
    BY SMTT(30), <1>3, <1>5, <1>8, <2>2, <2>5, <2>7 DEF NoVoteGiven
  <2> QED
    BY <1>1, <2>7, <2>8, <2>9, <2>10, Moves
<1> QED
  BY Zenon, <1>4, <1>6, <1>7, <1>8

LEMMA TakeSnapshotStep ==
  ASSUME FileAssumption, FileInv, NEW s \in Server, File!TakeSnapshot(s)
  PROVE  FileInv'
<1> DEFINE i == app[s].wants
<1>1. /\ i # 0 /\ File!Unlocked(s) /\ app' = [app EXCEPT ![s].wants = 0]
      /\ UNCHANGED <<round, disk, files, applyCh, msgs, elected>>
      /\ \/ UNCHANGED <<rf, busy>>
         \/ \E bt, lg : File!Save(s, [rf[s] EXCEPT !.base = i, !.baseTerm = bt, !.log = lg], app[s].value, File!None)
  BY ZenonT(30) DEF File!TakeSnapshot
<1>2. /\ app[s] = [value |-> app[s].value, wants |-> i] /\ IsList(app[s].value) /\ Size(app[s].value) = i /\ i \in Nat
  <2>1. \A l : IsList(l) => Size(l) \in Nat
    BY DEF IsList, Size
  <2> QED
    BY <1>1, <2>1 DEF FileInv, LocalOf, Applies
<1>3. PerServer(app') /\ app'[s] = [app[s] EXCEPT !.wants = 0] /\ \A p \in Server \ {s} : app'[p] = app[p]
  BY <1>1 DEF FileInv, FileTypeOK, PerServer
<1>4. PerServer(disk') /\ PerServer(files') /\ PerServer(applyCh') /\ PerServer(round')
  BY <1>1 DEF FileInv, FileTypeOK, PerServer
<1>5. CASE UNCHANGED <<rf, busy>>
  <2>1. Elsewhere(s)
    BY <1>1, <1>3, <1>4, <1>5 DEF Elsewhere, FileInv, FileTypeOK, PerServer
  <2>2. app'[s] = [value |-> app[s].value, wants |-> 0]
    BY <1>2, <1>3
  <2>3. FilesWhole(s)' /\ Saving(s)'
    BY <1>1, <1>5 DEF FilesWhole, Saving, HasFile, Reply, Addressed, FileInv, LocalOf
  <2>4. Applies(s)'
    BY SMTT(30), <1>1, <1>2, <1>5, <2>2, IdleLocal, WantsGone DEF FileInv, LocalOf
  <2> QED
    BY <1>1, <1>5, <2>1, <2>3, <2>4, LocalMove, IdleLocal DEF LocalOf
<1>6. ASSUME NEW bt, NEW lg, File!Save(s, [rf[s] EXCEPT !.base = i, !.baseTerm = bt, !.log = lg], app[s].value, File!None)
      PROVE  FileInv'
  <2>1. PICK q : q = [rf[s] EXCEPT !.base = i, !.baseTerm = bt, !.log = lg]
    OBVIOUS
  <2>2. /\ Shaped(q) /\ q.role = rf[s].role /\ q.term = rf[s].term /\ q.votedFor = rf[s].votedFor
        /\ q.base = i /\ q.applied = rf[s].applied
    BY ZenonT(30), <1>1, <2>1, IdleLocal DEF Shaped
  <2>3. /\ LocalOf(s)' /\ rf'[s] = q /\ PerServer(rf') /\ PerServer(busy')
        /\ \A p \in Server \ {s} : rf'[p] = rf[p] /\ busy'[p] = busy[p]
    <3>1. Begun(s, q)
      BY ZenonT(30), <1>1, <1>2, <1>3, <1>6, <2>1, <2>2, SaveBegins DEF Reply
    <3> QED
      BY Zenon, <3>1 DEF Begun
  <2>4. Elsewhere(s)
    BY <1>1, <1>3, <1>4, <2>3 DEF Elsewhere
  <2> QED
    BY <1>1, <1>2, <2>2, <2>3, <2>4, LocalMove
<1> QED
  BY Zenon, <1>1, <1>5, <1>6

(* The files are as they were. *)
LEMMA FilesKept ==
  ASSUME NEW s \in Server, FilesWhole(s), files'[s] = files[s], disk'[s].base = disk[s].base, disk[s].base = rf'[s].base
  PROVE  FilesWhole(s)'
BY DEF FilesWhole, HasFile

(* What the application has and will have, told one by one. *)
LEMMA AppliesThen ==
  ASSUME NEW s \in Server, app'[s] = [value |-> app'[s].value, wants |-> app'[s].wants], IsList(app'[s].value),
         app'[s].wants # 0 => app'[s].wants = Size(app'[s].value),
         \/ applyCh'[s] = << >> /\ After(s)' = Size(app'[s].value)
         \/ \E x : applyCh'[s] = << x >> /\ Delivers(x, Size(app'[s].value)) /\ After(s)' = x.index,
         \/ busy'[s].at # "sending" /\ rf'[s].applied = After(s)'
         \/ /\ busy'[s].at = "sending" /\ rf'[s].applied = busy'[s].index
            /\ Delivers(busy'[s], After(s)') /\ Reply(busy'[s].msg)
  PROVE  Applies(s)'
<1>1. applyCh'[s] # << >> => applyCh'[s] = << applyCh'[s][1] >> /\ Delivers(applyCh'[s][1], Size(app'[s].value))
  <2> SUFFICES ASSUME NEW x, applyCh'[s] = << x >>, Delivers(x, Size(app'[s].value))
               PROVE  applyCh'[s] = << applyCh'[s][1] >> /\ Delivers(applyCh'[s][1], Size(app'[s].value))
    OBVIOUS
  <2>1. applyCh'[s][1] = x
    OBVIOUS
  <2> QED
    BY <2>1
<1>2. Reply(busy'[s].msg) => Reply(busy[s].msg)'
  BY DEF Reply, Addressed
<1> QED
  BY <1>1, <1>2 DEF Applies, Delivers

(* The three writes, each by itself. *)
LEMMA WriteSteps ==
  ASSUME FileInv, NEW s \in Server, File!SaveStep(s)
  PROVE  /\ busy[s].at = "saving" /\ UNCHANGED <<round, applyCh, app, msgs, elected>>
         /\ PerServer(rf') /\ PerServer(disk') /\ PerServer(files') /\ PerServer(busy')
         /\ \A p \in Server \ {s} : /\ rf'[p] = rf[p] /\ disk'[p] = disk[p]
                                    /\ files'[p] = files[p] /\ busy'[p] = busy[p]
         /\ \/ /\ busy[s].step = 1 /\ rf' = rf /\ disk' = disk /\ busy'[s] = [busy[s] EXCEPT !.step = 2]
               /\ files'[s] = File!mustWriteFile(s, rf[s].base, busy[s].content)
            \/ /\ busy[s].step = 2 /\ rf' = rf /\ disk'[s] = File!Durable(rf[s]) /\ files' = files
               /\ busy'[s] = [busy[s] EXCEPT !.step = 3]
            \/ /\ busy[s].step = 3 /\ disk' = disk /\ files'[s] = {f \in files[s] : f.index >= rf[s].base}
               /\ \/ busy[s].msg = File!None /\ busy'[s] = File!None /\ rf' = rf
                  \/ /\ busy[s].msg # File!None /\ rf'[s] = [rf[s] EXCEPT !.applied = rf[s].base]
                     /\ busy'[s] = [at |-> "sending", index |-> rf[s].base, content |-> busy[s].content,
                                    snapshot |-> TRUE, msg |-> busy[s].msg]
<1> DEFINE b == busy[s]
           step == File!SaveSteps[b.step]
           kept == CASE step = "snapshot" -> File!mustWriteFile(s, rf[s].base, b.content)
                     [] step = "clean"    -> {f \in files[s] : f.index >= rf[s].base}
                     [] OTHER             -> files[s]
           onDisk == IF step = "state" THEN File!Durable(rf[s]) ELSE disk[s]
<1>1. /\ b.at = "saving" /\ UNCHANGED <<round, applyCh, app, msgs, elected>>
      /\ files' = [files EXCEPT ![s] = kept] /\ disk' = [disk EXCEPT ![s] = onDisk]
      /\ IF b.step < 3 THEN busy' = [busy EXCEPT ![s].step = b.step + 1] /\ UNCHANGED rf
         ELSE IF b.msg = File!None THEN busy' = [busy EXCEPT ![s] = File!None] /\ UNCHANGED rf
         ELSE /\ busy' = [busy EXCEPT ![s] = [at |-> "sending", index |-> rf[s].base, content |-> b.content,
                                              snapshot |-> TRUE, msg |-> b.msg]]
              /\ rf' = [rf EXCEPT ![s].applied = rf[s].base]
  BY DEF File!SaveStep
<1>2. b.step \in {1, 2, 3}
  BY <1>1 DEF FileInv, LocalOf, Saving
<1>3. step = IF b.step = 1 THEN "snapshot" ELSE IF b.step = 2 THEN "state" ELSE "clean"
  BY <1>2 DEF File!SaveSteps
<1>4. /\ b.step = 1 => kept = File!mustWriteFile(s, rf[s].base, b.content) /\ onDisk = disk[s]
      /\ b.step = 2 => kept = files[s] /\ onDisk = File!Durable(rf[s])
      /\ b.step = 3 => kept = {f \in files[s] : f.index >= rf[s].base} /\ onDisk = disk[s]
  BY <1>3
<1> HIDE DEF kept, onDisk, step
<1>5. /\ files'[s] = kept /\ disk'[s] = onDisk /\ PerServer(disk') /\ PerServer(files')
      /\ \A p \in Server \ {s} : disk'[p] = disk[p] /\ files'[p] = files[p]
  BY <1>1 DEF FileInv, FileTypeOK, PerServer
<1>6. (kept = files[s] => files' = files) /\ (onDisk = disk[s] => disk' = disk)
  BY ZenonT(30), <1>1 DEF FileInv, FileTypeOK, PerServer
<1>7. CASE b.step < 3
  <2>1. PICK y : y = [b EXCEPT !.step = b.step + 1]
    OBVIOUS
  <2>2. busy' = [busy EXCEPT ![s] = y] /\ rf' = rf
    BY <1>1, <1>7, <2>1
  <2>3. busy'[s] = y /\ PerServer(busy') /\ PerServer(rf') /\ \A p \in Server \ {s} : rf'[p] = rf[p] /\ busy'[p] = busy[p]
    BY <2>2 DEF FileInv, FileTypeOK, PerServer
  <2>4. CASE b.step = 1
    BY <1>1, <1>4, <1>5, <1>6, <2>1, <2>2, <2>3, <2>4
  <2>5. CASE b.step = 2
    BY <1>1, <1>4, <1>5, <1>6, <2>1, <2>2, <2>3, <2>5
  <2> QED
    BY <1>2, <1>7, <2>4, <2>5
<1>8. CASE b.step = 3
  <2>1. CASE b.msg = File!None
    <3>1. busy'[s] = File!None /\ PerServer(busy') /\ \A p \in Server \ {s} : busy'[p] = busy[p]
      BY <1>1, <1>8, <2>1 DEF FileInv, FileTypeOK, PerServer
    <3>2. rf' = rf /\ PerServer(rf') /\ \A p \in Server \ {s} : rf'[p] = rf[p]
      BY <1>1, <1>8, <2>1 DEF FileInv, FileTypeOK, PerServer
    <3> QED
      BY <1>1, <1>4, <1>5, <1>6, <1>8, <2>1, <3>1, <3>2
  <2>2. CASE b.msg # File!None
    <3>1. PICK y, z : /\ y = [at |-> "sending", index |-> rf[s].base, content |-> b.content, snapshot |-> TRUE, msg |-> b.msg]
                      /\ z = [rf[s] EXCEPT !.applied = rf[s].base]
      OBVIOUS
    <3>2. busy' = [busy EXCEPT ![s] = y] /\ rf' = [rf EXCEPT ![s] = z]
      BY <1>1, <1>8, <2>2, <3>1
    <3>3. /\ busy'[s] = y /\ PerServer(busy') /\ rf'[s] = z /\ PerServer(rf')
          /\ \A p \in Server \ {s} : busy'[p] = busy[p] /\ rf'[p] = rf[p]
      BY <3>2 DEF FileInv, FileTypeOK, PerServer
    <3> QED
      BY <1>1, <1>4, <1>5, <1>6, <1>8, <2>2, <3>1, <3>3
  <2> QED
    BY <2>1, <2>2
<1> QED
  BY <1>2, <1>7, <1>8

LEMMA SavingStep ==
  ASSUME FileAssumption, FileInv, NEW s \in Server, File!SaveStep(s)
  PROVE  FileInv'
<1>1. /\ busy[s].at = "saving" /\ UNCHANGED <<round, applyCh, app, msgs, elected>>
      /\ PerServer(rf') /\ PerServer(disk') /\ PerServer(files') /\ PerServer(busy')
      /\ \A p \in Server \ {s} : /\ rf'[p] = rf[p] /\ disk'[p] = disk[p]
                                 /\ files'[p] = files[p] /\ busy'[p] = busy[p]
  BY WriteSteps
<1>2. Elsewhere(s)
  BY <1>1 DEF Elsewhere, FileInv, FileTypeOK, PerServer
<1>3. /\ FilesWhole(s) /\ Applies(s) /\ rf[s].applied = After(s) /\ rf[s].base \in Nat
      /\ busy[s] = [at |-> "saving", step |-> busy[s].step, content |-> busy[s].content, msg |-> busy[s].msg]
      /\ IsList(busy[s].content) /\ Size(busy[s].content) = rf[s].base /\ Reply(busy[s].msg)
      /\ busy[s].step = 2 => HasFile(s, rf[s].base)
      /\ busy[s].step = 3 => disk[s].base = rf[s].base
  BY <1>1 DEF FileInv, FileTypeOK, LocalOf, Saving, Applies
<1>4. disk[s].term = rf[s].term /\ disk[s].votedFor = rf[s].votedFor /\ Shaped(rf[s])
  BY DEF FileInv, FileTypeOK, FileVotes, VotesOnDisk
<1>5. \A x : Reply(x) => Reply(x)'
  BY DEF Reply, Addressed
<1>6. After(s)' = After(s)
  BY <1>1 DEF After
<1>7. ASSUME busy'[s].at # "sending", rf'[s].applied = rf[s].applied PROVE Applies(s)'
  BY <1>1, <1>3, <1>6, <1>7 DEF Applies, Delivers
<1>8. CASE /\ busy[s].step = 1 /\ rf' = rf /\ disk' = disk /\ busy'[s] = [busy[s] EXCEPT !.step = 2]
           /\ files'[s] = File!mustWriteFile(s, rf[s].base, busy[s].content)
  <2>1. busy'[s] = [at |-> "saving", step |-> 2, content |-> busy[s].content, msg |-> busy[s].msg]
    BY <1>3, <1>8
  <2>2. files'[s] = {f \in files[s] : f.index # rf[s].base} \cup {[index |-> rf[s].base, content |-> busy[s].content]}
    BY <1>8 DEF File!mustWriteFile
  <2>3. /\ FilesWhole(s)'
        /\ \E f \in files'[s] : f.index = rf[s].base
    <3>1. \E f \in files'[s] : f.index = rf[s].base
      <4>1. PICK g : g = [index |-> rf[s].base, content |-> busy[s].content]
        OBVIOUS
      <4>2. g \in files'[s] /\ g.index = rf[s].base
        BY <2>2, <4>1
      <4> QED
        BY <4>2
    <3>2. \A f \in files'[s] : IsList(f.content) /\ Size(f.content) = f.index
      BY <1>3, <2>2 DEF FilesWhole
    <3>3. \A i : HasFile(s, i) => \E f \in files'[s] : f.index = i
      BY <2>2, <3>1 DEF HasFile
    <3> QED
      BY ZenonT(30), <1>3, <1>8, <2>1, <3>1, <3>2, <3>3 DEF FilesWhole, HasFile
  <2>4. Saving(s)'
    BY <1>3, <1>5, <1>8, <2>1, <2>3 DEF Saving, HasFile
  <2>5. LocalOf(s)'
    BY <1>7, <1>8, <2>1, <2>3, <2>4 DEF LocalOf
  <2> QED
    BY <1>1, <1>2, <1>3, <1>4, <1>8, <2>5, LocalMove
<1>9. CASE /\ busy[s].step = 2 /\ rf' = rf /\ disk'[s] = File!Durable(rf[s]) /\ files' = files
           /\ busy'[s] = [busy[s] EXCEPT !.step = 3]
  <2>1. busy'[s] = [at |-> "saving", step |-> 3, content |-> busy[s].content, msg |-> busy[s].msg]
    BY <1>3, <1>9
  <2>2. disk'[s].base = rf[s].base /\ disk'[s].term = rf[s].term /\ disk'[s].votedFor = rf[s].votedFor
    BY <1>9 DEF File!Durable
  <2>3. FilesWhole(s)'
    BY <1>3, <1>9, <2>1, <2>2 DEF FilesWhole, HasFile
  <2>4. Saving(s)'
    BY <1>3, <1>5, <1>9, <2>1, <2>2 DEF Saving, HasFile
  <2>5. LocalOf(s)'
    BY <1>7, <1>9, <2>1, <2>3, <2>4 DEF LocalOf
  <2> QED
    BY <1>1, <1>2, <1>3, <1>4, <1>9, <2>2, <2>5, LocalMove
<1>10. CASE /\ busy[s].step = 3 /\ disk' = disk /\ files'[s] = {f \in files[s] : f.index >= rf[s].base}
            /\ \/ busy[s].msg = File!None /\ busy'[s] = File!None /\ rf' = rf
               \/ /\ busy[s].msg # File!None /\ rf'[s] = [rf[s] EXCEPT !.applied = rf[s].base]
                  /\ busy'[s] = [at |-> "sending", index |-> rf[s].base, content |-> busy[s].content,
                                 snapshot |-> TRUE, msg |-> busy[s].msg]
  <2>1. /\ Shaped(rf'[s]) /\ rf'[s].base = rf[s].base /\ rf'[s].term = rf[s].term
        /\ rf'[s].votedFor = rf[s].votedFor /\ rf'[s].role = rf[s].role
    BY <1>4, <1>10 DEF Shaped
  <2>2. busy'[s].at # "saving"
    BY <1>10 DEF File!None
  <2>3. FilesWhole(s)'
    BY <1>3, <1>10, <2>1, <2>2 DEF FilesWhole, HasFile
  <2>4. Saving(s)'
    BY <2>2 DEF Saving
  <2>5. CASE busy'[s] = File!None /\ rf' = rf
    <3>1. Applies(s)'
      BY <1>7, <2>5 DEF File!None
    <3>2. LocalOf(s)'
      BY <2>3, <2>4, <3>1 DEF LocalOf
    <3> QED
      BY <1>1, <1>2, <1>3, <1>10, <2>1, <3>2, LocalMove
  <2>6. CASE /\ rf'[s] = [rf[s] EXCEPT !.applied = rf[s].base]
             /\ busy'[s] = [at |-> "sending", index |-> rf[s].base, content |-> busy[s].content,
                            snapshot |-> TRUE, msg |-> busy[s].msg]
    <3>1. rf'[s].applied = rf[s].base
      BY <1>4, <2>6 DEF Shaped
    <3>2. Delivers(busy'[s], After(s)')
      BY <1>3, <2>6 DEF Delivers
    <3>3. Applies(s)'
      BY <1>1, <1>3, <1>5, <1>6, <2>6, <3>1, <3>2 DEF Applies, Delivers
    <3>4. LocalOf(s)'
      BY <2>3, <2>4, <3>3 DEF LocalOf
    <3> QED
      BY <1>1, <1>2, <1>3, <1>10, <2>1, <3>4, LocalMove
  <2> QED
    BY <1>10, <2>5, <2>6
<1> QED
  BY <1>8, <1>9, <1>10, WriteSteps

LEMMA ApplyStep ==
  ASSUME FileAssumption, FileInv, NEW s \in Server, File!applyLogLoop(s)
  PROVE  FileInv'
<1> DEFINE i == rf[s].applied + 1
<1>1. /\ File!Unlocked(s) /\ rf' = [rf EXCEPT ![s].applied = i]
      /\ UNCHANGED <<round, disk, files, applyCh, app, msgs, elected>>
      /\ \E c : busy' = [busy EXCEPT ![s] = [at |-> "sending", index |-> i, snapshot |-> FALSE,
                                             content |-> << c >>, msg |-> File!None]]
  BY Zenon DEF File!applyLogLoop
<1>2. PICK c : busy' = [busy EXCEPT ![s] = [at |-> "sending", index |-> i, snapshot |-> FALSE,
                                            content |-> << c >>, msg |-> File!None]]
  BY <1>1
<1>3. PICK q, b : /\ q = [rf[s] EXCEPT !.applied = i]
                  /\ b = [at |-> "sending", index |-> i, snapshot |-> FALSE, content |-> << c >>, msg |-> File!None]
  OBVIOUS
<1>4. rf' = [rf EXCEPT ![s] = q] /\ busy' = [busy EXCEPT ![s] = b]
  BY <1>1, <1>2, <1>3
<1>5. rf'[s] = q /\ busy'[s] = b /\ PerServer(rf') /\ PerServer(busy')
      /\ \A p \in Server \ {s} : rf'[p] = rf[p] /\ busy'[p] = busy[p]
  BY <1>4 DEF FileInv, FileTypeOK, PerServer
<1>6. Elsewhere(s)
  BY <1>1, <1>5 DEF Elsewhere, FileInv, FileTypeOK, PerServer
<1>7. /\ busy[s].at = "none" /\ disk[s].base = rf[s].base /\ rf[s].base \in Nat /\ Shaped(rf[s])
      /\ rf[s].applied = After(s)
  BY <1>1, IdleLocal
<1>8. /\ Shaped(q) /\ q.role = rf[s].role /\ q.term = rf[s].term /\ q.votedFor = rf[s].votedFor
      /\ q.base = rf[s].base /\ q.applied = i
  BY <1>3, <1>7 DEF Shaped
<1>9. IsList(<< c >>) /\ Size(<< c >>) = 1
  <2>1. << c >> \in Seq({c})
    OBVIOUS
  <2> QED
    BY <2>1 DEF IsList, Size
<1>10. After(s)' = After(s) /\ After(s) \in Nat
  <2>1. \A l : IsList(l) => Size(l) \in Nat
    BY DEF IsList, Size
  <2> QED
    BY Zenon, <1>1, <2>1 DEF After, FileInv, LocalOf, Applies, Delivers
<1>11. FilesWhole(s)' /\ Saving(s)'
  <2>1. FilesWhole(s)'
    BY <1>1, <1>5, <1>7, <1>8, FilesKept DEF FileInv, LocalOf
  <2>2. busy'[s].at = "sending"
    BY <1>3, <1>5
  <2> QED
    BY <2>1, <2>2 DEF Saving
<1>12. Delivers(busy'[s], After(s)')
  BY SMTT(30), <1>3, <1>5, <1>7, <1>9, <1>10 DEF Delivers
<1>13. Applies(s)'
  <2>1. Applies(s) /\ app' = app /\ applyCh' = applyCh
    BY <1>1 DEF FileInv, LocalOf
  <2>2. Reply(busy'[s].msg) /\ busy'[s].at = "sending" /\ busy'[s].index = i
    BY <1>3, <1>5 DEF Reply
  <2>3. rf'[s].applied = i
    BY <1>5, <1>8
  <2> QED
    BY <1>12, <2>1, <2>2, <2>3, AppliesThen DEF Applies, After
<1> QED
  BY <1>1, <1>5, <1>6, <1>7, <1>8, <1>11, <1>13, LocalMove DEF LocalOf

LEMMA SentStep ==
  ASSUME FileAssumption, FileInv, NEW s \in Server, File!Sent(s)
  PROVE  FileInv'
<1> DEFINE b == busy[s]
<1>1. /\ b.at = "sending" /\ applyCh[s] = << >> /\ UNCHANGED <<rf, round, disk, files, app, elected>>
      /\ applyCh' = [applyCh EXCEPT ![s] = << [index |-> b.index, snapshot |-> b.snapshot, content |-> b.content] >>]
      /\ busy' = [busy EXCEPT ![s] = File!None]
      /\ msgs' = IF b.msg = File!None THEN msgs ELSE msgs \cup {b.msg}
  BY Zenon DEF File!Sent
<1>2. /\ busy'[s] = File!None /\ applyCh'[s] = << [index |-> b.index, snapshot |-> b.snapshot, content |-> b.content] >>
      /\ PerServer(busy') /\ PerServer(applyCh')
      /\ \A p \in Server \ {s} : busy'[p] = busy[p] /\ applyCh'[p] = applyCh[p]
  BY <1>1 DEF FileInv, FileTypeOK, PerServer
<1>3. Elsewhere(s)
  BY <1>1, <1>2 DEF Elsewhere, FileInv, FileTypeOK, PerServer
<1>4. rf[s].applied = b.index /\ Delivers(b, Size(app[s].value)) /\ Reply(b.msg)
  BY <1>1 DEF FileInv, LocalOf, Applies, After
<1>5. msgs \subseteq msgs' /\ \A m \in msgs' : m \in msgs \/ (Addressed(m) /\ ~Grant(m))
  BY <1>1, <1>4 DEF Reply, Grant
<1>6. FilesWhole(s)' /\ Saving(s)'
  <2>1. disk[s].base = rf[s].base
    BY <1>1 DEF FileInv, LocalOf, FilesWhole
  <2>2. FilesWhole(s)'
    BY <1>1, <2>1, FilesKept DEF FileInv, LocalOf
  <2>3. busy'[s].at = "none"
    BY <1>2 DEF File!None
  <2> QED
    BY <2>2, <2>3 DEF Saving
<1>7. applyCh'[s] = << applyCh'[s][1] >> /\ applyCh'[s] # << >> /\ applyCh'[s][1].index = b.index
  BY <1>2
<1>8. Delivers(applyCh'[s][1], Size(app'[s].value))
  BY <1>1, <1>2, <1>4 DEF Delivers
<1>9. rf'[s].applied = After(s)'
  BY SMTT(30), <1>1, <1>4, <1>7 DEF After
<1>10. Applies(s)'
  BY SMTT(30), <1>1, <1>2, <1>7, <1>8, <1>9 DEF Applies, Delivers, FileInv, LocalOf, File!None
<1> QED
  BY <1>1, <1>3, <1>5, <1>6, <1>10, LocalMove DEF LocalOf, FileInv, FileTypeOK

(* Adding one command to a list. *)
LEMMA OneMore ==
  ASSUME NEW l, NEW k, IsList(l), IsList(k), Size(k) = 1
  PROVE  IsList(l \o k) /\ Size(l \o k) = Size(l) + 1
<1>1. PICK S, T : l \in Seq(S) /\ k \in Seq(T)
  BY DEF IsList
<1>2. l \in Seq(S \cup T) /\ k \in Seq(S \cup T)
  BY <1>1
<1>3. l \o k \in Seq(S \cup T) /\ Len(l \o k) = Len(l) + Len(k)
  BY <1>2
<1> QED
  BY <1>3 DEF IsList, Size

LEMMA ReceiveStep ==
  ASSUME FileAssumption, FileInv, NEW s \in Server, File!Receive(s)
  PROVE  FileInv'
<1> DEFINE m == applyCh[s][1]
           value == IF m.snapshot THEN m.content ELSE app[s].value \o m.content
<1>1. /\ applyCh[s] # << >> /\ applyCh' = [applyCh EXCEPT ![s] = << >>]
      /\ UNCHANGED <<rf, round, busy, disk, files, msgs, elected>>
      /\ \E w : (w = m.index \/ w = 0) /\ app' = [app EXCEPT ![s] = [value |-> value, wants |-> w]]
  BY Zenon DEF File!Receive
<1>2. PICK w : (w = m.index \/ w = 0) /\ app' = [app EXCEPT ![s] = [value |-> value, wants |-> w]]
  BY Zenon, <1>1
<1>3. Delivers(m, Size(app[s].value)) /\ IsList(app[s].value)
  BY <1>1 DEF FileInv, LocalOf, Applies
<1>4. IsList(value) /\ Size(value) = m.index
  BY <1>3, OneMore DEF Delivers
<1> HIDE DEF value
<1>5. /\ applyCh'[s] = << >> /\ app'[s] = [value |-> value, wants |-> w] /\ PerServer(applyCh') /\ PerServer(app')
      /\ \A p \in Server \ {s} : applyCh'[p] = applyCh[p] /\ app'[p] = app[p]
  BY <1>1, <1>2 DEF FileInv, FileTypeOK, PerServer
<1>6. Elsewhere(s)
  BY <1>1, <1>5 DEF Elsewhere, FileInv, FileTypeOK, PerServer
<1>7. After(s)' = After(s)
  BY <1>1, <1>4, <1>5 DEF After
<1>8. FilesWhole(s)' /\ Saving(s)'
  BY <1>1 DEF FilesWhole, Saving, HasFile, Reply, Addressed, FileInv, LocalOf
<1>9. \A x : Reply(x) => Reply(x)'
  BY DEF Reply, Addressed
<1>10. Applies(s)'
  <2>1. /\ busy'[s] = busy[s] /\ rf'[s].applied = rf[s].applied
        /\ app'[s].value = value /\ app'[s].wants = w
    BY <1>1, <1>5
  <2>2. \/ busy[s].at # "sending" /\ rf[s].applied = After(s)
        \/ /\ busy[s].at = "sending" /\ rf[s].applied = busy[s].index
           /\ Delivers(busy[s], After(s)) /\ Reply(busy[s].msg)
    BY DEF FileInv, LocalOf, Applies
  <2>3. After(s)' = m.index
    BY <1>4, <1>5 DEF After
  <2>4. \/ busy'[s].at # "sending" /\ rf'[s].applied = After(s)'
        \/ /\ busy'[s].at = "sending" /\ rf'[s].applied = busy'[s].index
           /\ Delivers(busy'[s], After(s)') /\ Reply(busy'[s].msg)
    BY <1>7, <2>1, <2>2
  <2>5. IsList(app'[s].value) /\ Size(app'[s].value) = m.index /\ (app'[s].wants = m.index \/ app'[s].wants = 0)
    BY <1>2, <1>4, <2>1
  <2> QED
    BY <1>5, <2>3, <2>4, <2>5, AppliesThen
<1> QED
  BY <1>1, <1>6, <1>8, <1>10, LocalMove DEF LocalOf, FileInv, FileTypeOK

LEMMA CrashStep ==
  ASSUME FileAssumption, FileInv, NEW s \in Server, File!Crash(s)
  PROVE  FileInv'
<1> DEFINE r == File!Made(disk[s])
           x == [index |-> r.base, snapshot |-> TRUE, content |-> File!mustReadFile(s, r.base)]
<1>1. /\ rf' = [rf EXCEPT ![s] = r] /\ round' = [round EXCEPT ![s] = File!None]
      /\ busy' = [busy EXCEPT ![s] = File!None] /\ applyCh' = [applyCh EXCEPT ![s] = << x >>]
      /\ app' = [app EXCEPT ![s] = [value |-> << >>, wants |-> 0]]
      /\ UNCHANGED <<disk, files, msgs, elected>>
  BY Zenon DEF File!Crash
<1>2. /\ Shaped(r) /\ r.role = "Follower" /\ r.term = disk[s].term /\ r.votedFor = disk[s].votedFor
      /\ r.base = disk[s].base /\ r.applied = disk[s].base
  BY DEF File!Made, File!AppliedAtStart, Shaped
<1> HIDE DEF r
<1>3. FilesWhole(s) /\ disk[s].base \in Nat
  BY DEF FileInv, LocalOf, FilesWhole
<1>4. /\ x.index = disk[s].base /\ x.snapshot = TRUE /\ IsList(x.content) /\ Size(x.content) = disk[s].base
  BY <1>2, <1>3, SnapshotRead
<1> HIDE DEF x
<1>5. /\ rf'[s] = r /\ round'[s] = File!None /\ busy'[s] = File!None /\ applyCh'[s] = << x >>
      /\ app'[s] = [value |-> << >>, wants |-> 0]
      /\ PerServer(rf') /\ PerServer(round') /\ PerServer(busy') /\ PerServer(applyCh') /\ PerServer(app')
      /\ \A p \in Server \ {s} : /\ rf'[p] = rf[p] /\ round'[p] = round[p] /\ busy'[p] = busy[p]
                                 /\ applyCh'[p] = applyCh[p] /\ app'[p] = app[p]
  BY <1>1 DEF FileInv, FileTypeOK, PerServer
<1>6. Elsewhere(s)
  BY <1>1, <1>5 DEF Elsewhere, FileInv, FileTypeOK, PerServer
<1>7. disk[s].term = rf[s].term /\ disk[s].votedFor = rf[s].votedFor /\ rf[s].term \in Nat
  BY DEF FileInv, FileTypeOK, FileVotes, VotesOnDisk
<1>8. StillTyped(s)
  BY <1>1, <1>2, <1>3, <1>5, <1>7 DEF StillTyped
<1>9. NoVoteGiven(s)
  BY <1>1, <1>2, <1>5, <1>7 DEF NoVoteGiven
<1>10. FilesWhole(s)' /\ Saving(s)'
  BY <1>1, <1>2, <1>3, <1>5 DEF FilesWhole, Saving, HasFile, File!None
<1>11. IsList(<< >>)
  <2>1. << >> \in Seq({})
    OBVIOUS
  <2> QED
    BY <2>1 DEF IsList
<1>12. Applies(s)'
  <2>1. busy'[s].at = "none" /\ app'[s].value = << >> /\ app'[s].wants = 0
    BY <1>5 DEF File!None
  <2>2. Delivers(x, Size(app'[s].value))
    BY <1>3, <1>4 DEF Delivers
  <2>3. After(s)' = x.index
    BY <1>5 DEF After
  <2>4. rf'[s].applied = x.index
    BY <1>2, <1>4, <1>5
  <2> QED
    BY <1>5, <1>11, <2>1, <2>2, <2>3, <2>4, AppliesThen
<1> QED
  BY <1>6, <1>8, <1>9, <1>10, <1>12, Moves DEF LocalOf

-----------------------------------------------------------------------------
LEMMA FileStarts ==
  ASSUME FileAssumption, File!Init
  PROVE  FileInv
<1>1. File!Blank = [term |-> 0, votedFor |-> NoVote, log |-> << >>, base |-> 0, baseTerm |-> 0]
  BY Zenon DEF File!Blank, NoVote
<1>2. PICK d : d = File!Blank
  OBVIOUS
<1>3. PICK r : r = File!Made(d)
  OBVIOUS
<1>4. d.term = 0 /\ d.votedFor = NoVote /\ d.base = 0
  BY <1>1, <1>2
<1>5. /\ Shaped(r) /\ r.role = "Follower" /\ r.term = 0 /\ r.votedFor = NoVote /\ r.base = 0 /\ r.applied = 0
  BY <1>3, <1>4 DEF File!Made, File!AppliedAtStart, Shaped
<1>6. /\ rf = [s \in Server |-> r] /\ disk = [s \in Server |-> d]
      /\ round = [s \in Server |-> File!None] /\ busy = [s \in Server |-> File!None]
      /\ files = [s \in Server |-> {}] /\ applyCh = [s \in Server |-> << >>]
      /\ app = [s \in Server |-> [value |-> << >>, wants |-> 0]]
      /\ msgs = {} /\ elected = {}
  BY <1>2, <1>3 DEF File!Init
<1>7. FileTypeOK
  BY <1>5, <1>6 DEF FileTypeOK, PerServer
<1>8. FileVotes
  BY <1>4, <1>5, <1>6 DEF FileVotes, VotesOnDisk, RoundCounts
<1>9. IsList(<< >>) /\ Size(<< >>) = 0
  <2>1. << >> \in Seq({})
    OBVIOUS
  <2> QED
    BY <2>1 DEF IsList, Size
<1>10. ASSUME NEW s \in Server PROVE LocalOf(s)
  <2>1. FilesWhole(s) /\ Saving(s)
    BY <1>4, <1>5, <1>6 DEF FilesWhole, Saving, File!None
  <2>2. Applies(s)
    BY <1>5, <1>6, <1>9 DEF Applies, After, File!None
  <2> QED
    BY <2>1, <2>2 DEF LocalOf
<1> QED
  BY <1>7, <1>8, <1>10 DEF FileInv

(* The Raft library with files, for any servers and whatever crashes: one   *)
(* leader a term, a snapshot on disk for every state file, and every index  *)
(* applied in order.                                                        *)
THEOREM FilesSurviveCrashes ==
  ASSUME File!ServersAssumption
  PROVE  File!Spec => [](File!ElectionSafety /\ File!Recoverable /\ File!NothingSkipped)
<1> FileAssumption
  <2>1. \A S : File!IsFiniteSet(S) = IsFiniteSet(S)
    BY DEF IsFiniteSet, File!IsFiniteSet
  <2> QED
    BY <2>1, Zenon DEF File!ServersAssumption, FileAssumption, NoVote
<1>1. File!Init => FileInv
  BY FileStarts
<1>2. FileInv /\ [File!Next]_File!vars => FileInv'
  <2> SUFFICES ASSUME FileInv, [File!Next]_File!vars PROVE FileInv'
    OBVIOUS
  <2>1. CASE UNCHANGED File!vars
    <3>1. UNCHANGED <<rf, round, busy, disk, files, applyCh, app, msgs, elected>>
      BY <2>1 DEF File!vars
    <3>2. CASE Server = {}
      BY <3>1, <3>2 DEF FileInv, FileTypeOK, PerServer, FileVotes, VotesOnDisk, Elects, Addressed
    <3>3. ASSUME NEW s \in Server PROVE FileInv'
      BY <3>1, SendsOnly
    <3> QED
      BY <3>2, <3>3
  <2>2. CASE File!Next
    <3>1. ASSUME NEW s \in Server,
                 \/ File!electionLoop(s) \/ File!VoteEnd(s) \/ File!SaveStep(s) \/ File!applyLogLoop(s)
                 \/ File!Sent(s) \/ File!Receive(s) \/ File!TakeSnapshot(s) \/ File!Crash(s)
          PROVE  FileInv'
      BY <3>1, ElectionStep, VoteEndStep, SavingStep, ApplyStep, SentStep, ReceiveStep, TakeSnapshotStep, CrashStep
    <3>2. ASSUME NEW s \in Server, NEW p \in File!others(s),
                 File!SendTo(s, p) \/ \E m \in msgs \cup {File!None} : File!VoteResult(s, p, m)
          PROVE  FileInv'
      BY <3>2, SendToStep, VoteResultStep
    <3>3. ASSUME NEW s \in Server, NEW c, File!Start(s, c) PROVE FileInv'
      BY <3>3, StartCommandStep
    <3>4. ASSUME NEW m \in msgs, \/ File!RequestVote(m) \/ File!AppendEntries(m) \/ File!AppendReply(m)
                                 \/ File!InstallSnapshot(m) \/ File!InstallReply(m)
          PROVE  FileInv'
      BY <3>4, RequestVoteStep, AppendEntriesStep, AppendReplyStep, InstallStep
    <3> QED
      BY <2>2, <3>1, <3>2, <3>3, <3>4, Zenon DEF File!Next
  <2> QED
    BY <2>1, <2>2
<1>3. FileInv => File!ElectionSafety /\ File!Recoverable /\ File!NothingSkipped
  <2> SUFFICES ASSUME FileInv PROVE File!ElectionSafety /\ File!Recoverable /\ File!NothingSkipped
    OBVIOUS
  <2>1. File!Recoverable
    BY DEF FileInv, LocalOf, FilesWhole, HasFile, File!Recoverable, Size
  <2>2. ASSUME NEW s \in Server
        PROVE  /\ \A i \in DOMAIN applyCh[s] : ~applyCh[s][i].snapshot => applyCh[s][i].index = Size(app[s].value) + 1
               /\ applyCh[s] = << >> /\ busy[s].at # "sending" => rf[s].applied = Size(app[s].value)
    <3>1. Applies(s)
      BY DEF FileInv, LocalOf
    <3>2. ASSUME NEW i \in DOMAIN applyCh[s] PROVE applyCh[s] # << >> /\ i = 1
      <4>1. PICK c, e : c = applyCh[s] /\ e = c[1]
        OBVIOUS
      <4>2. c # << >> => c = << e >>
        BY <3>1, <4>1 DEF Applies
      <4> QED
        BY <3>2, <4>1, <4>2
    <3> QED
      BY <3>1, <3>2 DEF Applies, After, Delivers
  <2>3. File!NothingSkipped
    BY <2>2 DEF File!NothingSkipped, Size
  <2> QED
    BY <2>1, <2>3, OneLeader
<1> QED
  BY <1>1, <1>2, <1>3, PTL DEF File!Spec

-----------------------------------------------------------------------------
(* Elections over channels (ChanRaft). *)
CONSTANTS StartState, MaxStand, MaxBeat
VARIABLES srv, loop, calls, beats, down

Chan == INSTANCE ChanRaft

ServersHaveIDs == Chan!NoVote \notin Server

(* The fields of a server, and a request for a vote. *)
Candidacy(p) ==
  /\ {"State", "Voted", "TotalVotes", "AliveServers", "NumAliveServers", "stood", "beaten"} \subseteq DOMAIN p
  /\ p.stood \in Nat

AsksVote(c) ==
  c = [src |-> c.src, dst |-> c.dst, round |-> c.round, at |-> c.at] /\ c.src \in Server /\ c.round \in Nat

ChanTypeOK ==
  /\ PerServer(srv) /\ PerServer(loop)
  /\ \A s \in Server : Candidacy(srv[s])
  /\ \A c \in calls : AsksVote(c)

(* Who waits for votes has voted, so that Elect parks nothing more there.   *)
VotedInLoop == \A s \in Server : loop[s] # Chan!NotWaiting => srv[s].Voted # Chan!NoVote

(* Nothing is asked for an election that has not begun. *)
RoundsBegun == \A c \in calls : c.round < srv[c.src].stood

ChanInv == ChanTypeOK /\ VotedInLoop /\ RoundsBegun /\ Chan!NoCircularWait

-----------------------------------------------------------------------------
(* What every step but StartElection does: nobody starts to wait, and a     *)
(* call is parked only where nobody voted.                                  *)
NobodyStands ==
  /\ PerServer(srv') /\ PerServer(loop')
  /\ \A s \in Server : Candidacy(srv[s])' /\ srv'[s].stood = srv[s].stood
  /\ \A s \in Server : loop'[s] # Chan!NotWaiting => loop[s] # Chan!NotWaiting /\ srv'[s].Voted = srv[s].Voted

Descends(c, x) ==
  /\ AsksVote(c) /\ c.src = x.src /\ c.dst = x.dst /\ c.round = x.round
  /\ c.at = "parked" => x.at = "parked" \/ srv[c.dst].Voted = Chan!NoVote

NobodyAsks == \A c \in calls' : \E x \in calls : Descends(c, x)

(* Such a step keeps the invariant. *)
LEMMA NobodyStandsKeeps ==
  ASSUME ChanInv, NobodyStands, NobodyAsks
  PROVE  ChanInv'
<1>1. ChanTypeOK'
  BY DEF ChanTypeOK, NobodyStands, NobodyAsks, Descends, AsksVote
<1>2. VotedInLoop'
  BY DEF ChanInv, VotedInLoop, NobodyStands
<1>3. RoundsBegun'
  BY DEF ChanInv, RoundsBegun, NobodyStands, NobodyAsks, Descends, AsksVote
<1>4. ASSUME NEW s \in Server, NEW d \in Server, Chan!Waits(s, d)'
      PROVE  Chan!Waits(s, d)
  <2>1. loop'[s] # Chan!NotWaiting /\ loop'[d] # Chan!NotWaiting
    BY <1>4 DEF Chan!Waits, Chan!NotWaiting
  <2>2. PICK c \in calls' : c.dst = d /\ c.at = "parked" /\ c.src = s /\ c.round = srv'[s].stood - 1
    BY <1>4 DEF Chan!Waits, Chan!Parked
  <2>3. PICK x \in calls : Descends(c, x)
    BY DEF NobodyAsks
  <2>4. loop[s] # Chan!NotWaiting /\ loop[d] # Chan!NotWaiting
    BY <2>1 DEF NobodyStands
  <2>5. x.at = "parked" /\ x.dst = d /\ x.src = s /\ x.round = srv[s].stood - 1
    BY <2>2, <2>3, <2>4 DEF Descends, ChanInv, VotedInLoop, NobodyStands
  <2> QED
    BY <2>4, <2>5 DEF Chan!Waits, Chan!Parked
<1>5. Chan!NoCircularWait'
  <2> SUFFICES ASSUME NEW circle \in (SUBSET Server) \ {{}}
               PROVE  \E s \in circle : \A d \in circle : ~Chan!Waits(s, d)'
    BY DEF Chan!NoCircularWait
  <2>1. PICK s \in circle : \A d \in circle : ~Chan!Waits(s, d)
    BY DEF ChanInv, Chan!NoCircularWait
  <2> QED
    BY <1>4, <2>1
<1> QED
  BY <1>1, <1>2, <1>3, <1>5 DEF ChanInv

(* A call that is moved on, but not to where it waits. *)
LEMMA MovedOn ==
  ASSUME ChanInv, NEW c \in calls, NEW at, at # "parked" \/ srv[c.dst].Voted = Chan!NoVote,
         calls' = Chan!Move(calls, c, at)
  PROVE  NobodyAsks
<1>1. [c EXCEPT !.at = at] = [src |-> c.src, dst |-> c.dst, round |-> c.round, at |-> at]
  BY DEF ChanInv, ChanTypeOK, AsksVote
<1>2. Descends([c EXCEPT !.at = at], c)
  BY <1>1 DEF Descends, ChanInv, ChanTypeOK, AsksVote
<1>3. \A x \in calls : Descends(x, x)
  BY DEF Descends, ChanInv, ChanTypeOK
<1> QED
  BY <1>2, <1>3 DEF NobodyAsks, Chan!Move

(* Calls that only go. *)
LEMMA CallsGo ==
  ASSUME ChanInv, calls' \subseteq calls
  PROVE  NobodyAsks
BY DEF NobodyAsks, Descends, ChanInv, ChanTypeOK

(* A step that leaves the votes and the elections of the servers alone. *)
LEMMA ServersRest ==
  ASSUME ChanInv, UNCHANGED <<srv, loop>>
  PROVE  NobodyStands
BY DEF NobodyStands, ChanInv, ChanTypeOK

(* At the start nobody waits and nothing is asked. *)
LEMMA ChanStarts ==
  ASSUME Chan!Init
  PROVE  ChanInv
<1>1. \A s \in Server : srv[s] = Chan!CreateServer(StartState[s]) /\ loop[s] = Chan!NotWaiting
  BY DEF Chan!Init
<1>2. PerServer(srv) /\ PerServer(loop)
  BY <1>1 DEF Chan!Init, PerServer
<1>3. \A s \in Server : Candidacy(srv[s])
  <2> TAKE s \in Server
  <2>1. PICK how, n : srv[s] = [State |-> how, Voted |-> Chan!NoVote, TotalVotes |-> {}, AliveServers |-> Server,
                                  NumAliveServers |-> n, stood |-> 0, beaten |-> 0]
    BY <1>1 DEF Chan!CreateServer
  <2> QED
    BY <2>1 DEF Candidacy
<1> QED
  BY <1>1, <1>2, <1>3 DEF Chan!Init, ChanInv, ChanTypeOK, VotedInLoop, RoundsBegun, Chan!NoCircularWait, Chan!Waits

(* Run's states: a vote request is answered, or the time is out. *)
LEMMA RunStep ==
  ASSUME ChanInv, NEW s \in Server,
         Chan!Stay(s) \/ Chan!RandomTimeout(s) \/ Chan!Withdraw(s) \/ Chan!Surrender(s)
  PROVE  NobodyStands /\ NobodyAsks
<1>1. loop' = loop /\ (srv' # srv => loop[s] = Chan!NotWaiting)
  BY DEF Chan!Stay, Chan!RandomTimeout, Chan!Withdraw, Chan!Surrender, Chan!Runs
<1>2. NobodyStands
  BY <1>1 DEF Chan!Stay, Chan!RandomTimeout, Chan!Withdraw, Chan!Surrender, ChanInv, ChanTypeOK, NobodyStands,
              PerServer, Candidacy
<1>3. CASE calls' = calls
  BY <1>2, <1>3, CallsGo
<1>4. CASE \E c \in calls : calls' = Chan!Move(calls, c, "answered")
  BY <1>2, <1>4, MovedOn
<1> QED
  BY <1>3, <1>4 DEF Chan!Stay, Chan!RandomTimeout, Chan!Withdraw, Chan!Surrender, Chan!Parked

(* StartElection: who stands is not asked by a call of the new round yet.   *)
LEMMA StandsStep ==
  ASSUME ServersHaveIDs, ChanInv, NEW s \in Server, Chan!StartElection(s)
  PROVE  ChanInv'
<1> DEFINE p == srv[s]
<1>1. /\ srv' = [srv EXCEPT ![s] = [p EXCEPT !.Voted = s, !.TotalVotes = @ \cup {s}, !.stood = @ + 1]]
      /\ \A c \in calls' : c \in calls \/ \E d : c = [src |-> s, dst |-> d, round |-> p.stood, at |-> "dial"]
      /\ PerServer(loop') /\ \A u \in Server \ {s} : loop'[u] = loop[u]
  BY DEF Chan!StartElection, Chan!Standing, ChanInv, ChanTypeOK, PerServer
<1>2. /\ Candidacy(srv'[s]) /\ srv'[s].stood = p.stood + 1 /\ srv'[s].Voted = s
      /\ PerServer(srv') /\ \A u \in Server \ {s} : srv'[u] = srv[u]
  <2>1. PICK q : q = [p EXCEPT !.Voted = s, !.TotalVotes = @ \cup {s}, !.stood = @ + 1]
    OBVIOUS
  <2>2. Candidacy(q) /\ q.stood = p.stood + 1 /\ q.Voted = s
    BY <2>1 DEF ChanInv, ChanTypeOK, Candidacy
  <2>3. srv' = [srv EXCEPT ![s] = q]
    BY <1>1, <2>1
  <2> QED
    BY <2>2, <2>3 DEF ChanInv, ChanTypeOK, PerServer
<1>3. \A c \in calls' : c \in calls \/ (AsksVote(c) /\ c.src = s /\ c.round = p.stood /\ c.at = "dial")
  BY <1>1 DEF AsksVote, ChanInv, ChanTypeOK, Candidacy
<1>4. ChanTypeOK'
  BY <1>1, <1>2, <1>3 DEF ChanInv, ChanTypeOK, Candidacy, AsksVote
<1>5. VotedInLoop'
  BY <1>1, <1>2 DEF ChanInv, VotedInLoop, ServersHaveIDs
<1>6. RoundsBegun'
  <2>1. ASSUME NEW c \in calls PROVE c.round < srv'[c.src].stood
    BY <1>2 DEF ChanInv, ChanTypeOK, RoundsBegun, AsksVote, Candidacy
  <2> QED
    BY <1>2, <1>3, <2>1 DEF RoundsBegun, ChanInv, ChanTypeOK, Candidacy
<1>7. ASSUME NEW d PROVE ~Chan!Waits(s, d)'
  <2> SUFFICES ASSUME NEW c \in calls', c.at = "parked", c.src = s, c.round = srv'[s].stood - 1 PROVE FALSE
    BY DEF Chan!Waits, Chan!Parked
  <2>1. c \in calls /\ c.round = p.stood
    BY <1>2, <1>3 DEF ChanInv, ChanTypeOK, Candidacy
  <2> QED
    BY <2>1 DEF ChanInv, ChanTypeOK, RoundsBegun, AsksVote, Candidacy
<1>8. ASSUME NEW u \in Server \ {s}, NEW d \in Server \ {s}, Chan!Waits(u, d)' PROVE Chan!Waits(u, d)
  BY <1>1, <1>2, <1>3, <1>8 DEF Chan!Waits, Chan!Parked
<1>9. Chan!NoCircularWait'
  <2> SUFFICES ASSUME NEW circle \in (SUBSET Server) \ {{}}
               PROVE  \E u \in circle : \A d \in circle : ~Chan!Waits(u, d)'
    BY DEF Chan!NoCircularWait
  <2>1. CASE s \in circle
    BY <1>7, <2>1
  <2>2. CASE s \notin circle
    <3>1. PICK u \in circle : \A d \in circle : ~Chan!Waits(u, d)
      BY DEF ChanInv, Chan!NoCircularWait
    <3> QED
      BY <1>8, <2>2, <3>1
  <2> QED
    BY <2>1, <2>2
<1> QED
  BY <1>4, <1>5, <1>6, <1>9 DEF ChanInv

(* Nobody's vote and nobody's round changes. *)
SameVotes ==
  /\ PerServer(srv')
  /\ \A u \in Server : Candidacy(srv'[u]) /\ srv'[u].stood = srv[u].stood /\ srv'[u].Voted = srv[u].Voted

(* A vote is received, or a leader sends heartbeats. *)
LEMMA LeadsStep ==
  ASSUME ChanInv, NEW s \in Server, Chan!VoteReceived(s) \/ Chan!SendHeartbeats(s)
  PROVE  NobodyStands /\ NobodyAsks
<1>1. calls' \subseteq calls
  BY DEF Chan!VoteReceived, Chan!SendHeartbeats
<1>2. CASE Chan!VoteReceived(s)
  <2>1. /\ PerServer(loop') /\ loop[s] # Chan!NotWaiting /\ \A u \in Server \ {s} : loop'[u] = loop[u]
        /\ srv' = srv \/ srv' = [srv EXCEPT ![s].State = "Leader"]
    BY <1>2 DEF Chan!VoteReceived, ChanInv, ChanTypeOK, PerServer
  <2>2. SameVotes
    BY <2>1 DEF SameVotes, ChanInv, ChanTypeOK, PerServer, Candidacy
  <2> QED
    BY <1>1, <2>1, <2>2, CallsGo DEF SameVotes, NobodyStands
<1>3. CASE Chan!SendHeartbeats(s)
  <2>1. loop' = loop /\ srv' = [srv EXCEPT ![s].beaten = srv[s].beaten + 1]
    BY <1>3 DEF Chan!SendHeartbeats
  <2>2. SameVotes
    BY <2>1 DEF SameVotes, ChanInv, ChanTypeOK, PerServer, Candidacy
  <2> QED
    BY <1>1, <2>1, <2>2, CallsGo DEF SameVotes, NobodyStands, ChanInv, ChanTypeOK
<1> QED
  BY <1>2, <1>3

(* A vote request arrives, or its answer does; the caller may have ended.   *)
LEMMA VoteCallStep ==
  ASSUME ChanInv, NEW c \in calls, Chan!Elect(c) \/ Chan!RequestVote(c)
  PROVE  NobodyStands /\ NobodyAsks
<1>1. CASE Chan!Elect(c)
  <2>1. NobodyStands
    BY <1>1, ServersRest DEF Chan!Elect
  <2>2. CASE calls' = calls \ {c}
    BY <2>1, <2>2, CallsGo
  <2>3. CASE \E at \in {"parked", "answered", "error"} : (at = "parked" => Chan!CanVote(srv[c.dst])) /\ calls' = Chan!Move(calls, c, at)
    BY <2>1, <2>3, MovedOn DEF Chan!CanVote
  <2> QED
    BY <1>1, <2>2, <2>3 DEF Chan!Elect
<1>2. CASE Chan!RequestVote(c)
  <2>1. /\ loop' = loop /\ srv' = [srv EXCEPT ![c.src].TotalVotes = srv[c.src].TotalVotes \cup {c.dst}]
        /\ calls' = Chan!Move(calls, c, "voted")
    BY <1>2 DEF Chan!RequestVote
  <2>2. SameVotes
    BY <2>1 DEF SameVotes, ChanInv, ChanTypeOK, PerServer, Candidacy
  <2> QED
    BY <2>1, <2>2, MovedOn DEF SameVotes, NobodyStands, ChanInv, ChanTypeOK
<1> QED
  BY <1>1, <1>2

(* Heartbeats change who is alive. *)
BeatWrites ==
  \/ srv' = srv
  \/ \E d, n, alive : srv' = [srv EXCEPT ![d].NumAliveServers = n, ![d].AliveServers = alive]
  \/ \E d, n, alive : srv' = [srv EXCEPT ![d].AliveServers = alive, ![d].NumAliveServers = n]

LEMMA BeatOnlyWrites ==
  ASSUME NEW b, Chan!Encode(b) \/ Chan!Heartbeat(b) \/ Chan!NoResponse(b) \/ Chan!GiveUp(b)
  PROVE  loop' = loop /\ calls' = calls /\ BeatWrites
BY Zenon DEF Chan!Encode, Chan!Heartbeat, Chan!NoResponse, Chan!GiveUp, BeatWrites

(* They leave the states of the servers alone. *)
LEMMA BeatKeepsStates ==
  ASSUME ChanInv, BeatWrites
  PROVE  \A u \in Server : srv'[u].State = srv[u].State
<1> DEFINE SameStates == \A u \in Server : srv'[u].State = srv[u].State
<1>1. ASSUME NEW d, NEW n, NEW alive, srv' = [srv EXCEPT ![d].NumAliveServers = n, ![d].AliveServers = alive]
      PROVE  SameStates
  BY <1>1 DEF ChanInv, ChanTypeOK, PerServer, Candidacy
<1>2. ASSUME NEW d, NEW n, NEW alive, srv' = [srv EXCEPT ![d].AliveServers = alive, ![d].NumAliveServers = n]
      PROVE  SameStates
  BY <1>2 DEF ChanInv, ChanTypeOK, PerServer, Candidacy
<1>3. CASE srv' = srv
  BY <1>3
<1> QED
  BY <1>1, <1>2, <1>3 DEF BeatWrites

(* What heartbeats change, a vote does not depend on. *)
LEMMA BeatStep ==
  ASSUME ChanInv, NEW b, Chan!Encode(b) \/ Chan!Heartbeat(b) \/ Chan!NoResponse(b) \/ Chan!GiveUp(b)
  PROVE  NobodyStands /\ NobodyAsks
<1>1. loop' = loop /\ calls' = calls /\ BeatWrites
  BY BeatOnlyWrites
<1>2. SameVotes
  <2>1. CASE srv' = srv
    BY <2>1 DEF SameVotes, ChanInv, ChanTypeOK
  <2>2. ASSUME NEW d, NEW n, NEW alive, srv' = [srv EXCEPT ![d].NumAliveServers = n, ![d].AliveServers = alive]
        PROVE  SameVotes
    BY <2>2 DEF SameVotes, ChanInv, ChanTypeOK, PerServer, Candidacy
  <2>3. ASSUME NEW d, NEW n, NEW alive, srv' = [srv EXCEPT ![d].AliveServers = alive, ![d].NumAliveServers = n]
        PROVE  SameVotes
    BY <2>3 DEF SameVotes, ChanInv, ChanTypeOK, PerServer, Candidacy
  <2> QED
    BY <1>1, <2>1, <2>2, <2>3 DEF BeatWrites
<1> QED
  BY <1>1, <1>2, CallsGo DEF SameVotes, NobodyStands, ChanInv, ChanTypeOK

(* A process ends: parked calls fail. *)
LEMMA EndsStep ==
  ASSUME ChanInv, NEW s \in Server, Chan!Ends(s)
  PROVE  NobodyStands /\ NobodyAsks
<1>1. /\ srv' = srv /\ PerServer(loop') /\ \A u \in Server : loop'[u] # Chan!NotWaiting => loop[u] # Chan!NotWaiting
  BY DEF Chan!Ends, ChanInv, ChanTypeOK, PerServer
<1>2. ASSUME NEW c \in calls' PROVE \E x \in calls : Descends(c, x)
  <2>1. PICK x \in calls : c = x \/ c = [x EXCEPT !.at = "error"]
    BY <1>2 DEF Chan!Ends
  <2>2. [x EXCEPT !.at = "error"] = [src |-> x.src, dst |-> x.dst, round |-> x.round, at |-> "error"]
    BY DEF ChanInv, ChanTypeOK, AsksVote
  <2> QED
    BY <2>1, <2>2 DEF Descends, ChanInv, ChanTypeOK, AsksVote
<1> QED
  BY <1>1, <1>2 DEF SameVotes, NobodyStands, NobodyAsks, ChanInv, ChanTypeOK

-----------------------------------------------------------------------------
(* A leader with its own vote and nothing parked: nothing is parked, ...    *)
LEMMA NothingParks ==
  ASSUME ChanInv, NEW s \in Server, Chan!Parked(s) = {}, srv[s].Voted # Chan!NoVote, NobodyAsks
  PROVE  Chan!Parked(s)' = {}
<1> SUFFICES ASSUME NEW c \in calls', c.dst = s, c.at = "parked" PROVE FALSE
  BY DEF Chan!Parked
<1>1. PICK x \in calls : Descends(c, x)
  BY DEF NobodyAsks
<1> QED
  BY <1>1 DEF Descends, Chan!Parked

(* ... and only a follower, a candidate or who finds a request parked gets  *)
(* another state than Leader.                                               *)
LEMMA LeaderStays ==
  ASSUME ServersHaveIDs, ChanInv, NEW s \in Server, srv[s].State = "Leader", srv[s].Voted = s,
         Chan!Parked(s) = {}, Chan!Next
  PROVE  srv'[s].State = "Leader" /\ Chan!Parked(s)' = {}
<1> DEFINE Leads == srv'[s].State = "Leader"
<1> /\ Candidacy(srv[s]) /\ s \in DOMAIN srv /\ srv[s].Voted # Chan!NoVote
  BY DEF ServersHaveIDs, ChanInv, ChanTypeOK, PerServer
<1>1. ASSUME NEW u \in Server, \/ Chan!Stay(u) \/ Chan!RandomTimeout(u) \/ Chan!Withdraw(u) \/ Chan!Surrender(u)
      PROVE  Leads /\ Chan!Parked(s)' = {}
  <2>1. u # s
    BY <1>1 DEF Chan!Stay, Chan!RandomTimeout, Chan!Withdraw, Chan!Surrender, Chan!Runs
  <2>2. Leads
    BY <1>1, <2>1 DEF Chan!Stay, Chan!RandomTimeout, Chan!Withdraw, Chan!Surrender
  <2> QED
    BY <1>1, <2>2, RunStep, NothingParks
<1>2. ASSUME NEW u \in Server, Chan!StartElection(u) PROVE Leads /\ Chan!Parked(s)' = {}
  <2>1. u # s
    BY <1>2 DEF Chan!StartElection, Chan!Runs
  <2>2. Leads
    BY <1>2, <2>1 DEF Chan!StartElection
  <2>3. \A c \in calls' : c \in calls \/ c.at = "dial"
    BY <1>2 DEF Chan!StartElection
  <2> QED
    BY <2>2, <2>3 DEF Chan!Parked
<1>3. ASSUME NEW u \in Server, Chan!VoteReceived(u) \/ Chan!SendHeartbeats(u) PROVE Leads /\ Chan!Parked(s)' = {}
  <2>1. \/ srv' = srv \/ srv' = [srv EXCEPT ![u].State = "Leader"]
        \/ srv' = [srv EXCEPT ![u].beaten = srv[u].beaten + 1]
    BY <1>3 DEF Chan!VoteReceived, Chan!SendHeartbeats
  <2>2. Leads
    BY <2>1 DEF Candidacy
  <2> QED
    BY <1>3, <2>2, LeadsStep, NothingParks
<1>4. ASSUME NEW u \in Server, Chan!Ends(u) PROVE Leads /\ Chan!Parked(s)' = {}
  BY <1>4, EndsStep, NothingParks DEF Chan!Ends
<1>5. ASSUME NEW c \in calls, Chan!Elect(c) \/ Chan!RequestVote(c) PROVE Leads /\ Chan!Parked(s)' = {}
  <2>1. srv' = srv \/ srv' = [srv EXCEPT ![c.src].TotalVotes = srv[c.src].TotalVotes \cup {c.dst}]
    BY <1>5 DEF Chan!Elect, Chan!RequestVote
  <2>2. Leads
    BY <2>1 DEF Candidacy
  <2> QED
    BY <1>5, <2>2, VoteCallStep, NothingParks
<1>6. ASSUME NEW b, Chan!Encode(b) \/ Chan!Heartbeat(b) \/ Chan!NoResponse(b) \/ Chan!GiveUp(b)
      PROVE  Leads /\ Chan!Parked(s)' = {}
  <2>1. Leads
    BY <1>6, BeatOnlyWrites, BeatKeepsStates
  <2> QED
    BY <1>6, <2>1, BeatStep, NothingParks
<1>7. \A c \in calls : c.src \in Server
  BY DEF ChanInv, ChanTypeOK, AsksVote
<1> QED
  BY <1>1, <1>2, <1>3, <1>4, <1>5, <1>6, <1>7 DEF Chan!Next, Chan!Crash, Chan!Fatal

(* ChanFirstComeFirst for any servers, starting states, elections,          *)
(* heartbeats and crashes: no servers wait in StartElection in a circle for *)
(* each other's parked handlers, and an elected leader at which no request  *)
(* is parked stays leader (candidate.go, server.go Run).                    *)
THEOREM FirstComeFirst ==
  ASSUME Chan!ServersAssumption
  PROVE  Chan!Spec => []Chan!NoCircularWait /\ [][Chan!LeaderKeeps]_Chan!vars
<1>0. ServersHaveIDs
  BY DEF Chan!ServersAssumption, ServersHaveIDs
<1>1. Chan!Init => ChanInv
  BY ChanStarts
<1>2. ChanInv /\ [Chan!Next]_Chan!vars => ChanInv' /\ (Chan!Next => Chan!LeaderKeeps)
  <2> SUFFICES ASSUME ChanInv, [Chan!Next]_Chan!vars PROVE ChanInv' /\ (Chan!Next => Chan!LeaderKeeps)
    OBVIOUS
  <2>1. ASSUME UNCHANGED Chan!vars PROVE ChanInv'
    BY <2>1, ServersRest, CallsGo, NobodyStandsKeeps DEF Chan!vars
  <2>2. ASSUME Chan!Next PROVE ChanInv'
    <3>1. \A c \in calls : c.src \in Server
      BY DEF ChanInv, ChanTypeOK, AsksVote
    <3>2. (NobodyStands /\ NobodyAsks) \/ \E s \in Server : Chan!StartElection(s)
      BY <2>2, <3>1, RunStep, LeadsStep, VoteCallStep, BeatStep, EndsStep DEF Chan!Next, Chan!Crash, Chan!Fatal
    <3> QED
      BY <1>0, <3>2, StandsStep, NobodyStandsKeeps
  <2>3. Chan!Next => Chan!LeaderKeeps
    BY <1>0, LeaderStays DEF Chan!LeaderKeeps
  <2> QED
    BY <2>1, <2>2, <2>3
<1>3. ChanInv => Chan!NoCircularWait
  BY DEF ChanInv
<1> QED
  BY <1>1, <1>2, <1>3, PTL DEF Chan!Spec
=============================================================================
