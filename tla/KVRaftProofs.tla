----------------------------- MODULE KVRaftProofs -----------------------------
(***************************************************************************)
(* The key/value service for every number of servers and clerks and every  *)
(* script of calls: operations are executed once and in order, and what a  *)
(* clerk is told was written is in the replicated log.                     *)
(***************************************************************************)
EXTENDS KVRaft, TLAPS

Inv == TypeOK /\ SeqCoversEffects /\ ExecutedOnceInOrder

(* The next server is a server. *)
LEMMA WrapInServer ==
  ASSUME NEW n \in Server
  PROVE  (n + 1) % NServer \in Server
BY ServersAssumption DEF Server

(* An element of a sequence over S is in S. *)
LEMMA ElementType ==
  ASSUME NEW S, NEW q \in Seq(S), NEW i \in 1 .. Len(q)
  PROVE  q[i] \in S
OBVIOUS

(* Appending an element of S to a sequence over S. *)
LEMMA AppendType ==
  ASSUME NEW S, NEW q \in Seq(S), NEW e \in S
  PROVE  Append(q, e) \in Seq(S)
OBVIOUS

(* Replacing an element of a sequence over S by another of S. *)
LEMMA UpdateType ==
  ASSUME NEW S, NEW q \in Seq(S), NEW i, NEW e \in S
  PROVE  /\ [q EXCEPT ![i] = e] \in Seq(S)
         /\ Len([q EXCEPT ![i] = e]) = Len(q)
         /\ \A j \in 1 .. Len(q) : [q EXCEPT ![i] = e][j] \in {q[j], e}
<1>1. DOMAIN [q EXCEPT ![i] = e] = 1 .. Len(q) /\ Len(q) \in Nat
  OBVIOUS
<1>2. [q EXCEPT ![i] = e] \in [1 .. Len(q) -> S]
  <2>1. q \in [1 .. Len(q) -> S]
    OBVIOUS
  <2> QED
    BY <2>1
<1> QED
  BY <1>1, <1>2

(* A clerk that is not done is at an operation of its script. *)
LEMMA ScriptAt ==
  ASSUME TypeOK, NEW c \in Clerk, ~Done(c)
  PROVE  /\ pc[c] \in 1 .. Len(Script[c])
         /\ Script[c][pc[c]] \in [option : {"Get", "Put", "Append"}, key : Key, value : Value]
<1> DEFINE Call == [option : {"Get", "Put", "Append"}, key : Key, value : Value]
<1>1. Script[c] \in Seq(Call)
  BY ScriptAssumption
<1>2. Len(Script[c]) \in Nat /\ pc[c] \in Nat \ {0} /\ ~(pc[c] > Len(Script[c]))
  BY SMTT(30), <1>1 DEF TypeOK, Done
<1>3. pc[c] \in 1 .. Len(Script[c])
  BY <1>2
<1> HIDE DEF Call
<1>4. Script[c][pc[c]] \in Call
  BY <1>1, <1>3, ElementType
<1> QED
  BY <1>3, <1>4 DEF Call

(* The op a clerk builds is an Op. *)
LEMMA OpOfType ==
  ASSUME TypeOK, NEW c \in Clerk, ~Done(c)
  PROVE  OpOf(c) \in Op
<1>4. Script[c][pc[c]] \in [option : {"Get", "Put", "Append"}, key : Key, value : Value]
  BY ScriptAt
<1>5. seq[c] \in Nat
  BY DEF TypeOK
<1>6. CASE Script[c][pc[c]].option = "Get"
  BY <1>4, <1>6 DEF OpOf, EmptyOp, Op, Id
<1>7. CASE Script[c][pc[c]].option # "Get"
  BY <1>4, <1>5, <1>7 DEF OpOf, Op, Id
<1> QED
  BY <1>6, <1>7

(* The invariant holds at the start. *)
LEMMA InitInv ==
  Init => Inv
<1> SUFFICES ASSUME Init PROVE Inv
  OBVIOUS
<1>1. TypeOK
  <2>1. 0 \in Server
    BY ServersAssumption DEF Server
  <2>2. EmptyOp \in Op
    BY DEF EmptyOp, Op, Id
  <2>3. /\ chosen \in Seq(Op) /\ rlog \in [Server -> Seq(Op)]
        /\ effects \in [Server -> Seq(Id \X Nat)]
    BY DEF Init
  <2>4. Seq_ \in [Server -> [Id -> Int]]
    BY DEF Init, Id
  <2>5. believes \in [Server -> BOOLEAN]
    BY Zenon DEF Init
  <2> QED
    BY <2>1, <2>2, <2>3, <2>4, <2>5 DEF Init, TypeOK
<1>2. SeqCoversEffects /\ ExecutedOnceInOrder
  BY DEF Init, SeqCoversEffects, ExecutedOnceInOrder
<1> QED
  BY <1>1, <1>2 DEF Inv

(* The reply of a handler keeps the clerk's fields in shape. *)
LEMMA ReplyType ==
  ASSUME TypeOK, NEW h \in handlers, NEW ok \in BOOLEAN,
         Reply(h, ok, handlers \ {h})
  PROVE  /\ pc' \in [Clerk -> Nat \ {0}] /\ id' \in [Clerk -> Server] /\ leaderId' \in [Clerk -> Server]
         /\ seq' = seq /\ args' = args
         /\ handlers' \subseteq Handler
<1>1. h.clerk \in Clerk
  BY DEF TypeOK, Handler
<1>2. CASE ~h.live
  BY <1>2 DEF TypeOK, Reply, clerk
<1>3. CASE h.live
  <2>1. seq' = seq /\ args' = args /\ handlers' = handlers \ {h}
    BY <1>3 DEF Reply
  <2>2. pc' \in [Clerk -> Nat \ {0}]
    <3>1. pc[h.clerk] \in Nat \ {0} /\ pc[h.clerk] + 1 \in Nat \ {0}
      <4>1. pc[h.clerk] \in Nat \ {0}
        BY <1>1 DEF TypeOK
      <4> QED
        BY <4>1
    <3>2. pc' = [pc EXCEPT ![h.clerk] = IF ok THEN pc[h.clerk] + 1 ELSE pc[h.clerk]]
      BY <1>3 DEF Reply
    <3> QED
      BY <1>1, <3>1, <3>2 DEF TypeOK
  <2>3. leaderId' \in [Clerk -> Server]
    BY ZenonT(30), <1>1, <1>3 DEF TypeOK, Reply
  <2>4. id' \in [Clerk -> Server]
    <3>1. id[h.clerk] \in Server /\ (id[h.clerk] + 1) % NServer \in Server
      BY <1>1, WrapInServer DEF TypeOK
    <3>2. id' = id \/ id' = [id EXCEPT ![h.clerk] = (id[h.clerk] + 1) % NServer]
      BY <1>3 DEF Reply, NextServer
    <3> QED
      BY <1>1, <3>1, <3>2 DEF TypeOK
  <2> QED
    BY <2>1, <2>2, <2>3, <2>4 DEF TypeOK
<1> QED
  BY <1>2, <1>3

(* Steps that execute nothing leave both parts of the invariant alone. *)
LEMMA NothingExecuted ==
  ASSUME Inv, UNCHANGED <<effects, Seq_>>
  PROVE  SeqCoversEffects' /\ ExecutedOnceInOrder'
BY DEF Inv, SeqCoversEffects, ExecutedOnceInOrder

(* Types, for every action but Apply. *)
LEMMA TypeStep ==
  ASSUME TypeOK, Next, \A s \in Server : ~Apply(s)
  PROVE  TypeOK' /\ UNCHANGED <<effects, Seq_>>
<1>1. ASSUME NEW s \in Server, Elect(s) PROVE TypeOK' /\ UNCHANGED <<effects, Seq_>>
  BY <1>1 DEF TypeOK, Elect, server, clerk, hist
<1>2. ASSUME NEW s \in Server, CatchUp(s) PROVE TypeOK' /\ UNCHANGED <<effects, Seq_>>
  BY <1>2 DEF TypeOK, CatchUp, server, clerk, hist
<1>3. ASSUME Choose PROVE TypeOK' /\ UNCHANGED <<effects, Seq_>>
  <2>1. rlog[ldr] \in Seq(Op) /\ chosen \in Seq(Op)
    BY DEF TypeOK
  <2>2. Len(chosen) + 1 \in 1 .. Len(rlog[ldr])
    BY <1>3, <2>1 DEF Choose
  <2>3. rlog[ldr][Len(chosen) + 1] \in Op
    BY <2>1, <2>2
  <2>4. chosen' \in Seq(Op)
    BY <1>3, <2>1, <2>3 DEF Choose
  <2> QED
    BY <1>3, <2>4 DEF TypeOK, Choose, server, clerk, hist
<1>4. ASSUME NEW c \in Clerk, Begin(c) PROVE TypeOK' /\ UNCHANGED <<effects, Seq_>>
  <2>1. OpOf(c) \in Op
    BY <1>4, OpOfType DEF Begin
  <2>2. args' \in [Clerk -> Op] /\ id' \in [Clerk -> Server]
    BY <1>4, <2>1 DEF TypeOK, Begin
  <2>3. seq' \in [Clerk -> Nat]
    <3>1. seq[c] \in Nat /\ seq[c] + 1 \in Nat
      BY DEF TypeOK
    <3> QED
      BY <1>4, <3>1 DEF TypeOK, Begin
  <2> QED
    BY <1>4, <2>2, <2>3 DEF TypeOK, Begin, raft, server
<1>5. ASSUME NEW c \in Clerk, CallRefused(c) PROVE TypeOK' /\ UNCHANGED <<effects, Seq_>>
  <2>1. id' \in [Clerk -> Server]
    BY <1>5, WrapInServer DEF TypeOK, CallRefused, NextServer
  <2> QED
    BY <1>5, <2>1 DEF TypeOK, CallRefused, raft, server, hist
<1>6. ASSUME NEW c \in Clerk, CallStarted(c) PROVE TypeOK' /\ UNCHANGED <<effects, Seq_>>
  <2>1. id[c] \in Server /\ args[c] \in Op /\ rlog[id[c]] \in Seq(Op)
    BY DEF TypeOK
  <2>2. rlog' \in [Server -> Seq(Op)]
    BY <1>6, <2>1 DEF TypeOK, CallStarted
  <2>3. handlers' \subseteq Handler
    <3>1. Len(rlog[id[c]]) + 1 \in Nat \ {0}
      BY <2>1
    <3> QED
      <4>1. [clerk |-> c, srv |-> id[c], idx |-> Len(rlog[id[c]]) + 1,
             op |-> args[c], live |-> TRUE, phase |-> "wait"] \in Handler
        BY <2>1, <3>1 DEF Handler
      <4> QED
        BY <1>6, <4>1 DEF TypeOK, CallStarted
  <2> QED
    BY <1>6, <2>2, <2>3 DEF TypeOK, CallStarted, server, hist
<1>7. ASSUME NEW c \in Clerk, CallFailed(c) PROVE TypeOK' /\ UNCHANGED <<effects, Seq_>>
  <2>1. id' \in [Clerk -> Server]
    BY <1>7, WrapInServer DEF TypeOK, CallFailed, NextServer
  <2>2. handlers' \subseteq Handler
    <3>1. handlers' = {IF h.clerk = c THEN [h EXCEPT !.live = FALSE] ELSE h : h \in handlers}
      BY <1>7 DEF CallFailed
    <3>2. \A h \in handlers : h \in Handler /\ [h EXCEPT !.live = FALSE] \in Handler
      BY DEF TypeOK, Handler
    <3> QED
      BY <3>1, <3>2
  <2> QED
    BY <1>7, <2>1, <2>2 DEF TypeOK, CallFailed, raft, server, hist
<1>8. ASSUME NEW h \in handlers, Notified(h) PROVE TypeOK' /\ UNCHANGED <<effects, Seq_>>
  <2>1. CASE \E ok \in BOOLEAN : Reply(h, ok, handlers \ {h})
    <3>1. /\ pc' \in [Clerk -> Nat \ {0}] /\ id' \in [Clerk -> Server]
          /\ leaderId' \in [Clerk -> Server] /\ seq' = seq /\ args' = args
          /\ handlers' \subseteq Handler
      BY <2>1, ReplyType
    <3> QED
      BY <1>8, <3>1 DEF TypeOK, Notified, raft
  <2>2. CASE handlers' = (handlers \ {h}) \cup {[h EXCEPT !.phase = "read"]} /\ UNCHANGED clerk
    <3>1. handlers' \subseteq Handler
      BY ZenonT(30), <2>2 DEF TypeOK, Handler
    <3> QED
      BY <1>8, <2>2, <3>1 DEF TypeOK, Notified, raft, clerk
  <2> QED
    BY <1>8, <2>1, <2>2 DEF Notified, Accepts, equal
<1>9. ASSUME NEW h \in handlers, ReadValue(h) \/ Timeout(h)
      PROVE  TypeOK' /\ UNCHANGED <<effects, Seq_>>
  <2>1. /\ pc' \in [Clerk -> Nat \ {0}] /\ id' \in [Clerk -> Server]
        /\ leaderId' \in [Clerk -> Server] /\ seq' = seq /\ args' = args
        /\ handlers' \subseteq Handler
    BY <1>9, ReplyType DEF ReadValue, Timeout
  <2> QED
    BY <1>9, <2>1 DEF TypeOK, ReadValue, Timeout, raft, server
<1> QED
  BY <1>1, <1>2, <1>3, <1>4, <1>5, <1>6, <1>7, <1>8, <1>9 DEF Next

(* The apply goroutine: an operation is executed only above everything the  *)
(* server executed for the same clerk.                                      *)
LEMMA ApplyStep ==
  ASSUME Inv, NEW s \in Server, Apply(s)
  PROVE  Inv'
<1> DEFINE i == lastApplied[s] + 1
           op == chosen[i]
           new == <<op.id, op.seq>>
<1>0. TypeOK /\ SeqCoversEffects /\ ExecutedOnceInOrder
  BY DEF Inv
<1>1. op \in Op
  <2>1. i \in 1 .. Len(chosen) /\ chosen \in Seq(Op)
    BY SMTT(30), <1>0 DEF TypeOK, Apply
  <2> QED
    BY <2>1, ElementType
<1>2. op.id \in Id /\ op.seq \in Nat
  BY <1>1 DEF Op
<1>3. UNCHANGED <<chosen, rlog, believes, ldr, handlers, pc, leaderId, id, seq, args>>
  BY DEF Apply, raft, clerk
<1>4. lastApplied' \in [Server -> Nat]
  <2>1. lastApplied[s] + 1 \in Nat
    BY <1>0 DEF TypeOK
  <2> QED
    BY <1>0, <2>1 DEF TypeOK, Apply
<1>5. CASE UNCHANGED <<Seq_, effects>>
  <2>1. TypeOK'
    BY <1>0, <1>3, <1>4, <1>5 DEF TypeOK
  <2> QED
    BY <1>5, <2>1, NothingExecuted DEF Inv
<1>6. CASE /\ Seq_[s][op.id] < op.seq
           /\ Seq_' = [Seq_ EXCEPT ![s][op.id] = op.seq]
           /\ effects' \in {effects, [effects EXCEPT ![s] = Append(@, new)]}
  <2>1. Seq_' \in [Server -> [Id -> Int]]
    BY SMTT(30), <1>0, <1>2, <1>6 DEF TypeOK
  <2>2. new \in Id \X Nat /\ effects[s] \in Seq(Id \X Nat)
    BY <1>0, <1>2 DEF TypeOK
  <2>0. new[1] = op.id /\ new[2] = op.seq
    OBVIOUS
  <2> HIDE DEF new
  <2>3. effects' \in [Server -> Seq(Id \X Nat)]
    <3>1. Append(effects[s], new) \in Seq(Id \X Nat)
      BY <2>2, AppendType
    <3> QED
      BY ZenonT(30), <1>0, <1>6, <3>1 DEF TypeOK
  <2>4. TypeOK'
    BY <1>0, <1>3, <1>4, <2>1, <2>3 DEF TypeOK
  <2>5. /\ \A p \in Server \ {s} : effects'[p] = effects[p] /\ Seq_'[p] = Seq_[p]
        /\ effects'[s] \in {effects[s], Append(effects[s], new)}
        /\ Seq_'[s] = [Seq_[s] EXCEPT ![op.id] = op.seq]
    BY <1>0, <1>6 DEF TypeOK
  <2>6. \A j \in 1 .. Len(effects[s]) :
          /\ effects[s][j] \in Id \X Nat
          /\ effects[s][j][1] \in Id /\ effects[s][j][2] \in Nat
          /\ effects[s][j][2] <= Seq_[s][effects[s][j][1]]
          /\ effects'[s][j] = effects[s][j]
    <3> SUFFICES ASSUME NEW j \in 1 .. Len(effects[s])
                 PROVE  /\ effects[s][j] \in Id \X Nat
                        /\ effects[s][j][1] \in Id /\ effects[s][j][2] \in Nat
                        /\ effects[s][j][2] <= Seq_[s][effects[s][j][1]]
                        /\ effects'[s][j] = effects[s][j]
      OBVIOUS
    <3>1. effects[s][j] \in Id \X Nat
      BY <2>2, ElementType
    <3>2. effects[s][j][1] \in Id /\ effects[s][j][2] \in Nat
      BY <3>1
    <3>3. effects'[s][j] = effects[s][j]
      BY SMTT(30), <2>2, <2>5
    <3> QED
      BY <1>0, <3>1, <3>2, <3>3 DEF SeqCoversEffects
  <2>7. /\ Len(effects[s]) \in Nat
        /\ Len(effects'[s]) \in {Len(effects[s]), Len(effects[s]) + 1}
        /\ \A j \in 1 .. Len(effects'[s]) :
             j \in 1 .. Len(effects[s]) \/ (j = Len(effects[s]) + 1 /\ effects'[s][j] = new)
    BY SMTT(30), <2>2, <2>5
  <2>8. Seq_[s] \in [Id -> Int]
    BY <1>0 DEF TypeOK
  <2>9. \A j \in 1 .. Len(effects'[s]) : effects'[s][j][2] <= Seq_'[s][effects'[s][j][1]]
    <3>1. \A h \in Id : Seq_[s][h] \in Int /\ Seq_'[s][h] \in Int /\ Seq_[s][h] <= Seq_'[s][h]
      BY <1>2, <1>6, <2>5, <2>8
    <3>2. \A j \in 1 .. Len(effects[s]) : effects'[s][j][2] <= Seq_'[s][effects'[s][j][1]]
      <4> SUFFICES ASSUME NEW j \in 1 .. Len(effects[s])
                   PROVE  effects'[s][j][2] <= Seq_'[s][effects'[s][j][1]]
        OBVIOUS
      <4>1. PICK q : q = effects[s][j]
        OBVIOUS
      <4>2. effects'[s][j] = q /\ q[1] \in Id /\ q[2] \in Nat /\ q[2] <= Seq_[s][q[1]]
        BY <2>6, <4>1
      <4>3. Seq_[s][q[1]] \in Int /\ Seq_'[s][q[1]] \in Int /\ Seq_[s][q[1]] <= Seq_'[s][q[1]]
        BY <3>1, <4>2
      <4> QED
        BY <4>2, <4>3
    <3>3. new[2] <= Seq_'[s][new[1]]
      BY <1>2, <2>0, <2>5, <2>8
    <3> QED
      BY <2>7, <3>2, <3>3
  <2>10. \A j, k \in 1 .. Len(effects'[s]) :
           j < k /\ effects'[s][j][1] = effects'[s][k][1] => effects'[s][j][2] < effects'[s][k][2]
    <3> SUFFICES ASSUME NEW j \in 1 .. Len(effects'[s]), NEW k \in 1 .. Len(effects'[s]),
                        j < k, effects'[s][j][1] = effects'[s][k][1]
                 PROVE  effects'[s][j][2] < effects'[s][k][2]
      OBVIOUS
    <3>1. j \in 1 .. Len(effects[s])
      BY <2>7
    <3>2. CASE k \in 1 .. Len(effects[s])
      BY <1>0, <2>6, <3>1, <3>2 DEF ExecutedOnceInOrder
    <3>3. CASE k = Len(effects[s]) + 1 /\ effects'[s][k] = new
      <4>1. effects[s][j][1] = op.id /\ effects[s][j][2] <= Seq_[s][op.id]
        BY <2>0, <2>6, <3>1, <3>3
      <4>2. effects[s][j][2] \in Nat /\ Seq_[s][op.id] \in Int
        BY <1>2, <2>6, <2>8, <3>1
      <4>3. effects[s][j][2] < op.seq
        BY SMTT(30), <1>2, <1>6, <4>1, <4>2
      <4> QED
        BY <2>0, <2>6, <3>1, <3>3, <4>3
    <3> QED
      BY <2>7, <3>2, <3>3
  <2>11. SeqCoversEffects'
    BY <1>0, <2>5, <2>9 DEF SeqCoversEffects
  <2>12. ExecutedOnceInOrder'
    <3>1. \A p \in Server \ {s} : \A j, k \in 1 .. Len(effects'[p]) :
            j < k /\ effects'[p][j][1] = effects'[p][k][1] => effects'[p][j][2] < effects'[p][k][2]
      BY Zenon, <1>0, <2>5 DEF ExecutedOnceInOrder
    <3> QED
      BY Zenon, <2>10, <3>1 DEF ExecutedOnceInOrder
  <2> QED
    BY <2>4, <2>11, <2>12 DEF Inv
<1> QED
  BY <1>5, <1>6 DEF Apply, Fresh

(* Every step keeps it. *)
LEMMA InvStep ==
  Inv /\ [Next]_vars => Inv'
<1> SUFFICES ASSUME Inv, [Next]_vars PROVE Inv'
  OBVIOUS
<1>1. CASE UNCHANGED vars
  BY <1>1 DEF Inv, TypeOK, SeqCoversEffects, ExecutedOnceInOrder, vars, raft, server, clerk, hist
<1>2. CASE \E s \in Server : Apply(s)
  BY <1>2, ApplyStep
<1>3. CASE Next /\ \A s \in Server : ~Apply(s)
  <2>1. TypeOK' /\ UNCHANGED <<effects, Seq_>>
    BY <1>3, TypeStep DEF Inv
  <2> QED
    BY <2>1, NothingExecuted DEF Inv
<1> QED
  BY <1>1, <1>2, <1>3

(* Every operation of a clerk is executed at most once by every server, and *)
(* in the order the clerk issued them: for any number of retries, leader    *)
(* changes, lost replies and timeouts (the Seq map of StartKVServer's apply *)
(* goroutine).                                                              *)
THEOREM ExactlyOnce ==
  Spec => []ExecutedOnceInOrder
<1>1. Spec => []Inv
  BY InitInv, InvStep, PTL DEF Spec
<1> QED
  BY <1>1, PTL DEF Inv

(* Reachable states have the shape TypeOK gives. *)
THEOREM TypeCorrect ==
  Spec => []TypeOK
<1>1. Spec => []Inv
  BY InitInv, InvStep, PTL DEF Spec
<1> QED
  BY <1>1, PTL DEF Inv

-----------------------------------------------------------------------------
(***************************************************************************)
(* Acknowledged writes are chosen.                                         *)
(*                                                                         *)
(* PutAppend takes the op applied at its index for its own if option, key  *)
(* and value agree (equal, kvraft/server.go): clerk and sequence number    *)
(* are not compared.  So an acknowledgement means that a write like it is  *)
(* chosen, and the write itself if no other is equal to it (Unequalled).   *)
(***************************************************************************)
(* Every op there is: in a log, with a handler, with a clerk. *)
InLog(q) == {q[i] : i \in 1 .. Len(q)}

Ops == InLog(chosen) \cup (UNION {InLog(rlog[s]) : s \in Server})
         \cup {h.op : h \in handlers} \cup {args[c] : c \in Clerk}

(* Clerk c has called, or is calling, operation p of its script. *)
Called(c, p) == p < pc[c] \/ (p = pc[c] /\ calling[c] # "idle")

(* Every write was called by the clerk it names. *)
Issued(x) ==
  /\ x.id \in Clerk
  /\ \E p \in 1 .. Len(Script[x.id]) : equal(x, Script[x.id][p]) /\ Called(x.id, p)

WritesIssued == \A x \in Ops : IsWrite(x) => Issued(x)

(* A write that no other is equal to is equal to its own retries alone. *)
WritesKnown == \A x, y \in Ops : IsWrite(x) /\ Unequalled(x) /\ equal(x, y) => x = y

(* A clerk's arguments and its handlers carry operations of its own. *)
OwnOps ==
  /\ \A c \in Clerk :
       /\ IsWrite(args[c]) => args[c].id = c
       /\ calling[c] # "idle" \/ (\E h \in handlers : h.clerk = c) => args[c].option # ""
  /\ \A h \in handlers :
       /\ h.op.option # "" /\ (IsWrite(h.op) => h.op.id = h.clerk)
       /\ h.phase = "read" => h.op.option = "Get"

(* What a server put into the channel of an index is what is chosen there. *)
Boxes ==
  \A s \in Server :
    /\ Len(chMap[s]) = lastApplied[s] /\ lastApplied[s] <= Len(chosen)
    /\ \A i \in 1 .. Len(chMap[s]) : chMap[s][i] \in {<< >>, <<chosen[i]>>}

AckTypeOK ==
  /\ chMap \in [Server -> Seq(Seq(Op))]
  /\ calling \in [Clerk -> {"idle", "try", "wait"}]

AckInv == AckTypeOK /\ WritesIssued /\ WritesKnown /\ OwnOps /\ Boxes /\ AckedIsChosen

(* Where an op may be. *)
LEMMA OpsAt ==
  /\ \A i \in 1 .. Len(chosen) : chosen[i] \in Ops
  /\ \A s \in Server : \A i \in 1 .. Len(rlog[s]) : rlog[s][i] \in Ops
  /\ \A h \in handlers : h.op \in Ops
  /\ \A c \in Clerk : args[c] \in Ops
<1>1. \A i \in 1 .. Len(chosen) : chosen[i] \in InLog(chosen)
  BY DEF InLog
<1>2. \A s \in Server : \A i \in 1 .. Len(rlog[s]) : rlog[s][i] \in InLog(rlog[s])
  BY DEF InLog
<1>3. \A s \in Server : InLog(rlog[s]) \subseteq Ops
  BY Zenon DEF Ops
<1>4. InLog(chosen) \subseteq Ops
  BY DEF Ops
<1>5. {h.op : h \in handlers} \subseteq Ops /\ {args[c] : c \in Clerk} \subseteq Ops
  BY DEF Ops
<1>6. /\ \A h \in handlers : h.op \in {g.op : g \in handlers}
      /\ \A c \in Clerk : args[c] \in {args[d] : d \in Clerk}
  OBVIOUS
<1> QED
  BY <1>1, <1>2, <1>3, <1>4, <1>5, <1>6, Zenon

(* To bound the ops after a step it is enough to look at every place. *)
LEMMA OpsWithin ==
  ASSUME NEW S,
         \A i \in 1 .. Len(chosen') : chosen'[i] \in S,
         \A s \in Server : \A i \in 1 .. Len(rlog'[s]) : rlog'[s][i] \in S,
         \A h \in handlers' : h.op \in S,
         \A c \in Clerk : args'[c] \in S
  PROVE  Ops' \subseteq S
<1>1. InLog(chosen') \subseteq S
  BY Zenon DEF InLog
<1>2. \A s \in Server : InLog(rlog'[s]) \subseteq S
  BY Zenon DEF InLog
<1>3. {h.op : h \in handlers'} \subseteq S /\ {args'[c] : c \in Clerk} \subseteq S
  BY Zenon
<1>4. UNION {InLog(rlog'[s]) : s \in Server} \subseteq S
  BY <1>2, Zenon
<1> HIDE DEF InLog
<1> QED
  BY <1>1, <1>3, <1>4 DEF Ops

(* Every op has the shape of one. *)
LEMMA OpsType ==
  ASSUME TypeOK
  PROVE  Ops \subseteq Op
<1>1. \A i \in 1 .. Len(chosen) : chosen[i] \in Op
  BY ElementType DEF TypeOK
<1>2. \A s \in Server : \A i \in 1 .. Len(rlog[s]) : rlog[s][i] \in Op
  <2> SUFFICES ASSUME NEW s \in Server, NEW i \in 1 .. Len(rlog[s]) PROVE rlog[s][i] \in Op
    OBVIOUS
  <2>1. rlog[s] \in Seq(Op)
    BY DEF TypeOK
  <2> QED
    BY <2>1, ElementType
<1>3. \A h \in handlers : h.op \in Op
  BY DEF TypeOK, Handler
<1>4. \A c \in Clerk : args[c] \in Op
  BY DEF TypeOK
<1>5. /\ InLog(chosen) \subseteq Op
      /\ \A s \in Server : InLog(rlog[s]) \subseteq Op
  BY <1>1, <1>2, Zenon DEF InLog
<1>6. {h.op : h \in handlers} \subseteq Op /\ {args[c] : c \in Clerk} \subseteq Op
  BY <1>3, <1>4, Zenon
<1>7. UNION {InLog(rlog[s]) : s \in Server} \subseteq Op
  BY <1>5, Zenon
<1> QED
  BY <1>5, <1>6, <1>7 DEF Ops

(* What a reply does to the clerk it reaches: nothing, back to "try", or on *)
(* to the next operation; only a success acknowledges, and only a write.    *)
LEMMA ReplyEffect ==
  ASSUME TypeOK, AckTypeOK, NEW h \in handlers, NEW ok \in BOOLEAN, NEW rest,
         Reply(h, ok, rest)
  PROVE  /\ handlers' = rest /\ args' = args
         /\ calling' \in [Clerk -> {"idle", "try", "wait"}]
         /\ \A c \in Clerk :
              \/ pc'[c] = pc[c] /\ calling'[c] = calling[c]
              \/ c = h.clerk /\ calling'[c] = "try" /\ pc'[c] = pc[c]
              \/ c = h.clerk /\ calling'[c] = "idle" /\ pc'[c] = pc[c] + 1
         /\ acked' \in {acked, acked \cup {h.op}}
         /\ acked' # acked => ok /\ h.op.option # "Get"
<1>1. h.clerk \in Clerk
  BY DEF TypeOK, Handler
<1>2. CASE ~h.live
  BY <1>2 DEF AckTypeOK, Reply, clerk
<1>3. CASE h.live
  <2>1. /\ handlers' = rest /\ args' = args
        /\ calling' = [calling EXCEPT ![h.clerk] = IF ok THEN "idle" ELSE "try"]
        /\ pc' = [pc EXCEPT ![h.clerk] = IF ok THEN pc[h.clerk] + 1 ELSE pc[h.clerk]]
        /\ acked' = IF ok /\ h.op.option # "Get" THEN acked \cup {h.op} ELSE acked
    BY <1>3 DEF Reply
  <2>2. calling' \in [Clerk -> {"idle", "try", "wait"}]
    BY <1>1, <2>1 DEF AckTypeOK
  <2>3. CASE ok
    BY <1>1, <2>1, <2>2, <2>3 DEF TypeOK, AckTypeOK
  <2>4. CASE ~ok
    BY <1>1, <2>1, <2>2, <2>4 DEF TypeOK, AckTypeOK
  <2> QED
    BY <2>3, <2>4
<1> QED
  BY <1>2, <1>3

(* What the actions of a handler do: the handler goes, or a Get goes on to  *)
(* read; and one of the three ways the clerk takes it.                      *)
LEMMA HandlerEffect ==
  ASSUME TypeOK, AckTypeOK, NEW h \in handlers, Notified(h) \/ ReadValue(h) \/ Timeout(h)
  PROVE  /\ UNCHANGED <<chosen, rlog, lastApplied>> /\ args' = args
         /\ \/ handlers' = handlers \ {h}
            \/ /\ handlers' = (handlers \ {h}) \cup {[h EXCEPT !.phase = "read"]}
               /\ h.op.option = "Get"
         /\ calling' \in [Clerk -> {"idle", "try", "wait"}]
         /\ \A c \in Clerk :
              \/ pc'[c] = pc[c] /\ calling'[c] = calling[c]
              \/ c = h.clerk /\ calling'[c] = "try" /\ pc'[c] = pc[c]
              \/ c = h.clerk /\ calling'[c] = "idle" /\ pc'[c] = pc[c] + 1
         /\ acked' \in {acked, acked \cup {h.op}}
         /\ \/ acked' = acked
            \/ ReadValue(h) /\ h.op.option # "Get"
            \/ Notified(h) /\ equal(h.op, chMap[h.srv][h.idx][1]) /\ h.op.option # "Get"
<1>0. ReadValue(h) \/ Timeout(h) => UNCHANGED <<chosen, rlog, lastApplied>>
  BY DEF ReadValue, Timeout, raft, server
<1>1. CASE Timeout(h)
  BY <1>0, <1>1, ReplyEffect DEF Timeout
<1>2. CASE ReadValue(h)
  BY <1>0, <1>2, ReplyEffect DEF ReadValue
<1>3. CASE Notified(h)
  <2> DEFINE b == chMap[h.srv][h.idx][1]
  <2>0. UNCHANGED <<chosen, rlog, lastApplied>>
    BY <1>3 DEF Notified, raft
  <2>1. CASE h.op.option = "Get" /\ Accepts(h, b)
    BY <1>3, <2>0, <2>1 DEF Notified, clerk, AckTypeOK
  <2>2. CASE ~(h.op.option = "Get" /\ Accepts(h, b))
    <3>1. Reply(h, Accepts(h, b), handlers \ {h})
      BY <1>3, <2>2 DEF Notified
    <3>2. Accepts(h, b) \in BOOLEAN
      BY DEF Accepts, equal
    <3>3. Accepts(h, b) /\ h.op.option # "Get" => equal(h.op, b)
      BY DEF Accepts
    <3> HIDE DEF b
    <3>4. PICK ok \in BOOLEAN : ok = Accepts(h, b)
      BY <3>2
    <3>5. Reply(h, ok, handlers \ {h})
      BY <3>1, <3>4
    <3>6. acked' # acked => Notified(h) /\ equal(h.op, b) /\ h.op.option # "Get"
      BY <1>3, <3>3, <3>4, <3>5, ReplyEffect
    <3> QED
      BY <2>0, <3>5, <3>6, ReplyEffect DEF b
  <2> QED
    BY <2>1, <2>2
<1> QED
  BY <1>1, <1>2, <1>3

(* Nothing is ever taken back that was chosen (Choose). *)
LEMMA ChosenGrows ==
  ASSUME TypeOK, Next
  PROVE  /\ chosen' \in Seq(Op) /\ Len(chosen) \in Nat /\ Len(chosen) <= Len(chosen')
         /\ \A i \in 1 .. Len(chosen) : chosen'[i] = chosen[i]
<1>0. chosen \in Seq(Op)
  BY DEF TypeOK
<1>1. CASE Choose
  <2>1. rlog[ldr] \in Seq(Op)
    BY DEF TypeOK
  <2>2. rlog[ldr][Len(chosen) + 1] \in Op
    BY <1>0, <1>1, <2>1, ElementType DEF Choose
  <2> QED
    BY <1>0, <1>1, <2>2 DEF Choose
<1>2. CASE chosen' = chosen
  BY <1>0, <1>2
<1> QED
  BY Zenon, <1>1, <1>2 DEF Next, Elect, CatchUp, Apply, Begin, CallRefused, CallStarted, CallFailed,
                    Notified, ReadValue, Timeout, raft

(* Every step leaves the ops alone, makes no new one, or is a Begin. *)
LEMMA OpsKept ==
  ASSUME TypeOK, AckTypeOK, Next, \A c \in Clerk : ~Begin(c)
  PROVE  Ops' \subseteq Ops
<1>0. /\ \A i \in 1 .. Len(chosen) : chosen[i] \in Ops
      /\ \A s \in Server : \A i \in 1 .. Len(rlog[s]) : rlog[s][i] \in Ops
      /\ \A h \in handlers : h.op \in Ops
      /\ \A c \in Clerk : args[c] \in Ops
  BY OpsAt
<1>a. chosen \in Seq(Op) /\ rlog \in [Server -> Seq(Op)] /\ ldr \in Server
  BY DEF TypeOK
<1> HIDE DEF Ops
<1>1. ASSUME NEW s \in Server, Elect(s) \/ CatchUp(s) PROVE Ops' \subseteq Ops
  <2>1. UNCHANGED <<chosen, handlers, args>>
    BY <1>1 DEF Elect, CatchUp, clerk
  <2>2. \A r \in Server : rlog'[r] = rlog[r] \/ rlog'[r] = chosen \/ rlog'[r] = rlog[ldr]
    BY <1>1, <1>a DEF Elect, CatchUp
  <2>3. \A r \in Server : \A i \in 1 .. Len(rlog'[r]) : rlog'[r][i] \in Ops
    BY <1>0, <1>a, <2>2
  <2> QED
    BY <1>0, <2>1, <2>3, OpsWithin
<1>2. ASSUME Choose PROVE Ops' \subseteq Ops
  <2>1. UNCHANGED <<rlog, handlers, args>>
    BY <1>2 DEF Choose, clerk
  <2>2. rlog[ldr] \in Seq(Op) /\ Len(chosen) + 1 \in 1 .. Len(rlog[ldr])
    BY <1>2, <1>a DEF Choose
  <2>3. rlog[ldr][Len(chosen) + 1] \in Ops
    BY <1>0, <1>a, <2>2
  <2>4. \A i \in 1 .. Len(chosen') : \/ i \in 1 .. Len(chosen) /\ chosen'[i] = chosen[i]
                                     \/ chosen'[i] = rlog[ldr][Len(chosen) + 1]
    BY <1>2, <1>a DEF Choose
  <2> QED
    BY <1>0, <2>1, <2>3, <2>4, OpsWithin
<1>3. ASSUME NEW c \in Clerk, CallStarted(c) PROVE Ops' \subseteq Ops
  <2>1. UNCHANGED <<chosen, args>>
    BY <1>3 DEF CallStarted
  <2>2. \A h \in handlers' : h \in handlers \/ h.op = args[c]
    BY <1>3 DEF CallStarted
  <2>3. id[c] \in Server /\ rlog[id[c]] \in Seq(Op)
    BY <1>a DEF TypeOK
  <2>4. \A r \in Server : rlog'[r] = IF r = id[c] THEN Append(rlog[r], args[c]) ELSE rlog[r]
    BY <1>3, <1>a DEF CallStarted
  <2>5. \A r \in Server : \A i \in 1 .. Len(rlog'[r]) : rlog'[r][i] \in Ops
    <3> SUFFICES ASSUME NEW r \in Server, NEW i \in 1 .. Len(rlog'[r])
                 PROVE  rlog'[r][i] \in Ops
      OBVIOUS
    <3>0. rlog[r] \in Seq(Op)
      BY <1>a
    <3>1. CASE r = id[c]
      <4>1. rlog'[r] = Append(rlog[r], args[c])
        BY <2>4, <3>1
      <4>2. \/ i \in 1 .. Len(rlog[r]) /\ rlog'[r][i] = rlog[r][i]
            \/ rlog'[r][i] = args[c]
        BY <3>0, <4>1
      <4> QED
        BY <1>0, <4>2
    <3>2. CASE r # id[c]
      BY <1>0, <2>4, <3>2
    <3> QED
      BY <3>1, <3>2
  <2> QED
    BY <1>0, <2>1, <2>2, <2>5, OpsWithin
<1>4. ASSUME NEW c \in Clerk, CallFailed(c) PROVE Ops' \subseteq Ops
  <2>1. UNCHANGED <<chosen, rlog, args>>
    BY <1>4 DEF CallFailed, raft
  <2>2. \A h \in handlers' : \E g \in handlers : h.op = g.op
    BY <1>4 DEF CallFailed, TypeOK, Handler
  <2> QED
    BY <1>0, <2>1, <2>2, OpsWithin
<1>5. ASSUME NEW h \in handlers, Notified(h) \/ ReadValue(h) \/ Timeout(h) PROVE Ops' \subseteq Ops
  <2>1. /\ UNCHANGED <<chosen, rlog>> /\ args' = args
        /\ \/ handlers' = handlers \ {h}
           \/ handlers' = (handlers \ {h}) \cup {[h EXCEPT !.phase = "read"]}
    BY <1>5, HandlerEffect
  <2>2. \A g \in handlers' : \E f \in handlers : g.op = f.op
    BY ZenonT(30), <2>1 DEF TypeOK, Handler
  <2> QED
    BY <1>0, <2>1, <2>2, OpsWithin
<1>6. ASSUME UNCHANGED <<chosen, rlog, handlers, args>> PROVE Ops' \subseteq Ops
  BY <1>0, <1>6, OpsWithin
<1>7. (\E s \in Server : Apply(s)) \/ (\E c \in Clerk : CallRefused(c))
        => UNCHANGED <<chosen, rlog, handlers, args>>
  BY Zenon DEF Apply, CallRefused, raft, clerk
<1> QED
  BY <1>1, <1>2, <1>3, <1>4, <1>5, <1>6, <1>7 DEF Next

(* A clerk never forgets what it has called. *)
LEMMA CalledStays ==
  ASSUME TypeOK, AckTypeOK, Next
  PROVE  /\ AckTypeOK'
         /\ \A c \in Clerk : \A p \in Nat : Called(c, p) => Called(c, p)'
<1>0. pc \in [Clerk -> Nat \ {0}] /\ calling \in [Clerk -> {"idle", "try", "wait"}]
  BY DEF TypeOK, AckTypeOK
<1>1. ASSUME NEW c \in Clerk, Begin(c) \/ CallStarted(c) \/ CallFailed(c)
      PROVE  /\ calling' \in [Clerk -> {"idle", "try", "wait"}] /\ chMap' = chMap
             /\ \A d \in Clerk : \A p \in Nat : Called(d, p) => Called(d, p)'
  <2>1. \E v \in {"try", "wait"} : calling' = [calling EXCEPT ![c] = v]
    BY <1>1 DEF Begin, CallStarted, CallFailed
  <2>2. pc' = pc /\ chMap' = chMap
    BY <1>1 DEF Begin, CallStarted, CallFailed, server
  <2> QED
    BY <1>0, <2>1, <2>2 DEF Called
<1>2. ASSUME NEW h \in handlers, Notified(h) \/ ReadValue(h) \/ Timeout(h)
      PROVE  /\ calling' \in [Clerk -> {"idle", "try", "wait"}]
             /\ chMap' \in [Server -> Seq(Seq(Op))]
             /\ \A c \in Clerk : \A p \in Nat : Called(c, p) => Called(c, p)'
  <2>1. /\ calling' \in [Clerk -> {"idle", "try", "wait"}]
        /\ \A c \in Clerk :
             \/ pc'[c] = pc[c] /\ calling'[c] = calling[c]
             \/ c = h.clerk /\ calling'[c] = "try" /\ pc'[c] = pc[c]
             \/ c = h.clerk /\ calling'[c] = "idle" /\ pc'[c] = pc[c] + 1
    BY <1>2, HandlerEffect
  <2>2. \A c \in Clerk : \A p \in Nat : Called(c, p) => Called(c, p)'
    BY <1>0, <2>1 DEF Called
  <2>3. chMap' \in [Server -> Seq(Seq(Op))]
    <3>1. CASE Notified(h)
      <4>1. chMap[h.srv] \in Seq(Seq(Op)) /\ << >> \in Seq(Op)
        <5>1. h.srv \in Server
          BY DEF TypeOK, Handler
        <5> HIDE DEF Op
        <5> QED
          BY <5>1 DEF AckTypeOK
      <4>2. [chMap[h.srv] EXCEPT ![h.idx] = << >>] \in Seq(Seq(Op))
        BY <4>1, UpdateType
      <4>3. chMap' = [chMap EXCEPT ![h.srv] = [chMap[h.srv] EXCEPT ![h.idx] = << >>]]
        BY <3>1 DEF Notified
      <4> QED
        BY <4>1, <4>2, <4>3 DEF AckTypeOK
    <3>2. CASE chMap' = chMap
      BY <3>2 DEF AckTypeOK
    <3> QED
      BY <1>2, <3>1, <3>2 DEF ReadValue, Timeout, server
  <2> QED
    BY <2>1, <2>2, <2>3
<1>3. ASSUME NEW s \in Server, Apply(s)
      PROVE  chMap' \in [Server -> Seq(Seq(Op))] /\ UNCHANGED <<pc, calling>>
  <2>0. lastApplied[s] \in Nat /\ chosen \in Seq(Op) /\ chMap[s] \in Seq(Seq(Op))
    BY DEF TypeOK, AckTypeOK
  <2>1. chosen[lastApplied[s] + 1] \in Op
    <3>1. lastApplied[s] + 1 \in 1 .. Len(chosen)
      BY <1>3, <2>0 DEF Apply
    <3> QED
      BY <2>0, <3>1, ElementType
  <2>2. <<chosen[lastApplied[s] + 1]>> \in Seq(Op)
    BY <2>1
  <2>3. Append(chMap[s], <<chosen[lastApplied[s] + 1]>>) \in Seq(Seq(Op))
    BY <2>0, <2>2, AppendType
  <2>4. chMap' = [chMap EXCEPT ![s] = Append(chMap[s], <<chosen[lastApplied[s] + 1]>>)]
    BY <1>3 DEF Apply
  <2> QED
    BY <1>3, <2>3, <2>4 DEF Apply, AckTypeOK, clerk
<1>4. ASSUME UNCHANGED <<pc, calling, chMap>>
      PROVE  AckTypeOK' /\ \A c \in Clerk : \A p \in Nat : Called(c, p) => Called(c, p)'
  BY <1>4 DEF AckTypeOK, Called
<1>5. \/ \E s \in Server : Elect(s) \/ CatchUp(s)
      \/ Choose \/ \E c \in Clerk : CallRefused(c)
      => UNCHANGED <<pc, calling, chMap>>
  BY DEF Elect, CatchUp, Choose, CallRefused, server, clerk
<1> QED
  BY <1>1, <1>2, <1>3, <1>4, <1>5 DEF Next, AckTypeOK, Called

(* An op that was called stays so. *)
LEMMA IssuedStays ==
  ASSUME \A c \in Clerk : \A p \in Nat : Called(c, p) => Called(c, p)',
         NEW x, Issued(x)
  PROVE  Issued(x)'
<1>1. PICK p \in 1 .. Len(Script[x.id]) : equal(x, Script[x.id][p]) /\ Called(x.id, p)
  BY DEF Issued
<1>2. x.id \in Clerk /\ p \in Nat
  BY DEF Issued
<1>3. Called(x.id, p)'
  BY <1>1, <1>2
<1> QED
  BY <1>1, <1>2, <1>3 DEF Issued, equal

(* A step that makes no op keeps the writes known: what was called stays    *)
(* called.                                                                  *)
LEMMA NoNewWrite ==
  ASSUME WritesIssued, WritesKnown, Ops' \subseteq Ops,
         \A c \in Clerk : \A p \in Nat : Called(c, p) => Called(c, p)'
  PROVE  WritesIssued' /\ WritesKnown'
<1>1. \A x \in Ops : Issued(x) => Issued(x)'
  BY IssuedStays
<1>2. WritesIssued'
  BY <1>1 DEF WritesIssued, IsWrite
<1> QED
  BY <1>2, Zenon DEF WritesKnown, Unequalled, IsWrite, equal

(* The write of a new call is equal to none there is: its place in the      *)
(* script is not called yet, and no other place holds an equal write.       *)
LEMMA NewWrite ==
  ASSUME TypeOK, AckTypeOK, WritesIssued,
         NEW c \in Clerk, Begin(c), NEW w \in {OpOf(c)}
  PROVE  /\ Ops' \subseteq Ops \cup {w}
         /\ IsWrite(w) => Issued(w)'
         /\ \A x \in Ops : IsWrite(x) /\ Unequalled(x) => ~equal(x, w) /\ ~equal(w, x)
<1>0. pc[c] \in 1 .. Len(Script[c]) /\ calling[c] = "idle"
  BY ScriptAt DEF Begin
<1>1. IsWrite(w) => w.id = c /\ equal(w, Script[c][pc[c]])
  <2>0. w = OpOf(c)
    OBVIOUS
  <2>1. CASE Script[c][pc[c]].option = "Get"
    BY <2>0, <2>1 DEF OpOf, IsWrite
  <2>2. CASE Script[c][pc[c]].option # "Get"
    BY <2>0, <2>2 DEF OpOf, equal
  <2> QED
    BY <2>1, <2>2
<1>2. pc' = pc /\ Called(c, pc[c])'
  <2>1. pc' = pc /\ calling'[c] = "try"
    BY DEF Begin, AckTypeOK
  <2> QED
    BY <2>1 DEF Called
<1>3. IsWrite(w) => Issued(w)'
  BY <1>0, <1>1, <1>2 DEF Issued, equal
<1>4. Ops' \subseteq Ops \cup {w}
  <2>1. UNCHANGED <<chosen, rlog, handlers>>
    BY DEF Begin, raft
  <2>2. \A d \in Clerk : args'[d] = args[d] \/ args'[d] = w
    BY DEF Begin, TypeOK
  <2>3. /\ \A i \in 1 .. Len(chosen) : chosen[i] \in Ops
        /\ \A s \in Server : \A i \in 1 .. Len(rlog[s]) : rlog[s][i] \in Ops
        /\ \A h \in handlers : h.op \in Ops
        /\ \A d \in Clerk : args[d] \in Ops
    BY OpsAt
  <2> QED
    BY <2>1, <2>2, <2>3, OpsWithin
<1>5. ASSUME NEW x \in Ops, IsWrite(x), Unequalled(x), equal(x, w) \/ equal(w, x) PROVE FALSE
  <2>1. Issued(x)
    BY <1>5 DEF WritesIssued
  <2>2. PICK p \in 1 .. Len(Script[x.id]) : equal(x, Script[x.id][p]) /\ Called(x.id, p)
    BY <2>1 DEF Issued
  <2>3. x.id \in Clerk
    BY <2>1 DEF Issued
  <2>4. IsWrite(w)
    BY <1>5 DEF IsWrite, equal
  <2>5. equal(Script[x.id][p], x) /\ equal(Script[c][pc[c]], x)
    BY <1>1, <1>5, <2>2, <2>4 DEF IsWrite, equal
  <2>6. x.id = c /\ p = pc[c]
    BY <1>0, <1>5, <2>2, <2>3, <2>5 DEF Unequalled
  <2> QED
    BY <1>0, <2>2, <2>6 DEF Called
<1> QED
  BY <1>3, <1>4, <1>5

(* Every write is called, and one that no other is equal to is equal to its *)
(* retries alone, by every step (OpOf, Begin; equal).                       *)
LEMMA WritesStep ==
  ASSUME TypeOK, AckTypeOK, WritesIssued, WritesKnown, Next
  PROVE  WritesIssued' /\ WritesKnown'
<1>0. \A c \in Clerk : \A p \in Nat : Called(c, p) => Called(c, p)'
  BY CalledStays
<1>1. CASE \A c \in Clerk : ~Begin(c)
  BY <1>0, <1>1, OpsKept, NoNewWrite
<1>2. ASSUME NEW c \in Clerk, Begin(c) PROVE WritesIssued' /\ WritesKnown'
  <2>1. PICK w \in {OpOf(c)} : TRUE
    OBVIOUS
  <2>2. /\ Ops' \subseteq Ops \cup {w}
        /\ IsWrite(w) => Issued(w)'
        /\ \A x \in Ops : IsWrite(x) /\ Unequalled(x) => ~equal(x, w) /\ ~equal(w, x)
    BY <1>2, NewWrite
  <2>3. \A x \in Ops : IsWrite(x) => Issued(x)'
    BY <1>0, IssuedStays DEF WritesIssued
  <2>4. WritesIssued'
    BY <2>2, <2>3 DEF WritesIssued, IsWrite
  <2>5. ASSUME NEW x \in Ops', NEW y \in Ops', IsWrite(x), Unequalled(x), equal(x, y) PROVE x = y
    <3>1. IsWrite(y) /\ Unequalled(y)
      BY <2>5 DEF IsWrite, Unequalled, equal
    <3>2. CASE x \in Ops /\ y \in Ops
      BY <2>5, <3>2 DEF WritesKnown
    <3>3. CASE x = w \/ y = w
      BY <2>2, <2>5, <3>1, <3>3
    <3> QED
      BY <2>2, <3>2, <3>3
  <2> QED
    BY <2>4, <2>5 DEF WritesKnown, Unequalled, IsWrite, equal
<1> QED
  BY <1>1, <1>2

(* Clerks and handlers carry their own operations, at every step. *)
LEMMA OwnOpsStep ==
  ASSUME TypeOK, AckTypeOK, OwnOps, Next
  PROVE  OwnOps'
<1>0. /\ calling \in [Clerk -> {"idle", "try", "wait"}] /\ args \in [Clerk -> Op]
      /\ handlers \subseteq Handler
  BY DEF TypeOK, AckTypeOK
<1> HIDE DEF Op
<1>1. ASSUME NEW c \in Clerk, Begin(c) PROVE OwnOps'
  <2>1. PICK w \in {OpOf(c)} : TRUE
    OBVIOUS
  <2>2. w.option # "" /\ (IsWrite(w) => w.id = c)
    <3>0. w = OpOf(c)
      OBVIOUS
    <3>1. Script[c][pc[c]].option \in {"Get", "Put", "Append"}
      BY <1>1, ScriptAt DEF Begin
    <3>2. CASE Script[c][pc[c]].option = "Get"
      BY <3>0, <3>2 DEF OpOf, IsWrite
    <3>3. CASE Script[c][pc[c]].option # "Get"
      BY <3>0, <3>1, <3>3 DEF OpOf
    <3> QED
      BY <3>2, <3>3
  <2>3. /\ handlers' = handlers
        /\ \A d \in Clerk : IF d = c THEN args'[d] = w
                            ELSE args'[d] = args[d] /\ calling'[d] = calling[d]
    BY <1>0, <1>1 DEF Begin
  <2> QED
    BY <2>2, <2>3 DEF OwnOps, IsWrite
<1>2. ASSUME NEW c \in Clerk, CallStarted(c) PROVE OwnOps'
  <2>1. PICK g \in {[clerk |-> c, srv |-> id[c], idx |-> Len(rlog[id[c]]) + 1,
                     op |-> args[c], live |-> TRUE, phase |-> "wait"]} : TRUE
    OBVIOUS
  <2>2. handlers' = handlers \cup {g} /\ args' = args /\ calling[c] # "idle"
    BY <1>2 DEF CallStarted
  <2>3. \A d \in Clerk : d = c \/ calling'[d] = calling[d]
    BY <1>0, <1>2 DEF CallStarted
  <2>4. g.clerk = c /\ g.op = args[c] /\ g.phase = "wait"
    OBVIOUS
  <2>5. args[c].option # "" /\ (IsWrite(args[c]) => args[c].id = c)
    BY <2>2 DEF OwnOps
  <2>6. \A d \in Clerk : calling'[d] # "idle" \/ (\E h \in handlers' : h.clerk = d)
                           => args[d].option # ""
    BY <2>2, <2>3, <2>4, <2>5 DEF OwnOps
  <2>7. \A h \in handlers' : /\ h.op.option # "" /\ (IsWrite(h.op) => h.op.id = h.clerk)
                             /\ h.phase = "read" => h.op.option = "Get"
    BY <2>2, <2>4, <2>5 DEF OwnOps
  <2> QED
    BY <2>2, <2>6, <2>7 DEF OwnOps, IsWrite
<1>3. ASSUME NEW c \in Clerk, CallFailed(c) PROVE OwnOps'
  <2>1. args' = args /\ calling[c] # "idle"
    BY <1>3 DEF CallFailed
  <2>2. \A d \in Clerk : d = c \/ calling'[d] = calling[d]
    BY <1>0, <1>3 DEF CallFailed
  <2>3. \A h \in handlers' : \E g \in handlers :
          h.op = g.op /\ h.clerk = g.clerk /\ h.phase = g.phase
    BY <1>0, <1>3 DEF CallFailed, Handler
  <2> QED
    <3>1. \A d \in Clerk : calling'[d] # "idle" \/ (\E h \in handlers' : h.clerk = d)
                             => args[d].option # ""
      BY ZenonT(30), <2>1, <2>2, <2>3 DEF OwnOps
    <3>2. \A h \in handlers' : /\ h.op.option # "" /\ (IsWrite(h.op) => h.op.id = h.clerk)
                               /\ h.phase = "read" => h.op.option = "Get"
      BY ZenonT(30), <2>3 DEF OwnOps, IsWrite
    <3> QED
      BY <2>1, <3>1, <3>2 DEF OwnOps, IsWrite
<1>4. ASSUME NEW h \in handlers, Notified(h) \/ ReadValue(h) \/ Timeout(h) PROVE OwnOps'
  <2>1. /\ args' = args
        /\ \/ handlers' = handlers \ {h}
           \/ /\ handlers' = (handlers \ {h}) \cup {[h EXCEPT !.phase = "read"]}
              /\ h.op.option = "Get"
        /\ \A c \in Clerk : c = h.clerk \/ calling'[c] = calling[c]
    BY <1>4, HandlerEffect
  <2>2. \A g \in handlers' : \E f \in handlers :
          /\ g.op = f.op /\ g.clerk = f.clerk
          /\ g.phase = f.phase \/ f.op.option = "Get"
    BY <1>0, <2>1 DEF Handler
  <2>3. \A c \in Clerk : calling'[c] # "idle" \/ (\E g \in handlers' : g.clerk = c)
                           => args[c].option # ""
    BY ZenonT(30), <2>1, <2>2 DEF OwnOps
  <2>4. \A g \in handlers' : /\ g.op.option # "" /\ (IsWrite(g.op) => g.op.id = g.clerk)
                             /\ g.phase = "read" => g.op.option = "Get"
    BY ZenonT(30), <2>2 DEF OwnOps, IsWrite
  <2> QED
    BY <2>1, <2>3, <2>4 DEF OwnOps, IsWrite
<1>5. ASSUME UNCHANGED <<handlers, args, calling>> PROVE OwnOps'
  BY <1>5 DEF OwnOps, IsWrite
<1>6. \/ \E s \in Server : Elect(s) \/ CatchUp(s) \/ Apply(s)
      \/ Choose \/ \E c \in Clerk : CallRefused(c)
      => UNCHANGED <<handlers, args, calling>>
  BY Zenon DEF Elect, CatchUp, Apply, Choose, CallRefused, clerk
<1> QED
  BY <1>1, <1>2, <1>3, <1>4, <1>5, <1>6 DEF Next

(* The channel of an index holds the op chosen there, or nothing any more   *)
(* (the apply goroutine puts, replyNotify takes).                           *)
LEMMA BoxesStep ==
  ASSUME TypeOK, AckTypeOK, Boxes, Next
  PROVE  Boxes'
<1>0. /\ chosen' \in Seq(Op) /\ Len(chosen) \in Nat /\ Len(chosen) <= Len(chosen')
      /\ \A i \in 1 .. Len(chosen) : chosen'[i] = chosen[i]
  BY ChosenGrows
<1>a. lastApplied \in [Server -> Nat] /\ chMap \in [Server -> Seq(Seq(Op))]
  BY DEF TypeOK, AckTypeOK
<1>b. Len(chosen') \in Nat
  BY <1>0
<1>1. ASSUME UNCHANGED <<chMap, lastApplied>> PROVE Boxes'
  BY SMTT(30), <1>0, <1>a, <1>b, <1>1 DEF Boxes
<1>2. ASSUME NEW h \in handlers, Notified(h) PROVE Boxes'
  <2>1. lastApplied' = lastApplied /\ chosen' = chosen
    BY <1>2 DEF Notified, raft
  <2>2. chMap' = [chMap EXCEPT ![h.srv] = [chMap[h.srv] EXCEPT ![h.idx] = << >>]]
    BY <1>2 DEF Notified
  <2>3. \A s \in Server : /\ Len(chMap'[s]) = Len(chMap[s])
                          /\ \A i \in 1 .. Len(chMap[s]) : chMap'[s][i] \in {chMap[s][i], << >>}
    <3> SUFFICES ASSUME NEW s \in Server
                 PROVE  /\ Len(chMap'[s]) = Len(chMap[s])
                        /\ \A i \in 1 .. Len(chMap[s]) : chMap'[s][i] \in {chMap[s][i], << >>}
      OBVIOUS
    <3>0. chMap[s] \in Seq(Seq(Op))
      BY <1>a
    <3>1. chMap'[s] \in {chMap[s], [chMap[s] EXCEPT ![h.idx] = << >>]}
      BY <1>a, <2>2
    <3>2. PICK q \in {[chMap[s] EXCEPT ![h.idx] = << >>]} : TRUE
      OBVIOUS
    <3>3. Len(q) = Len(chMap[s]) /\ \A i \in 1 .. Len(chMap[s]) : q[i] \in {chMap[s][i], << >>}
      <4>1. << >> \in Seq(Op)
        OBVIOUS
      <4> HIDE DEF Op
      <4> QED
        BY <3>0, <4>1, UpdateType
    <3> QED
      BY <3>1, <3>2, <3>3
  <2> QED
    BY <2>1, <2>3 DEF Boxes
<1>3. ASSUME NEW s \in Server, Apply(s) PROVE Boxes'
  <2>1. /\ lastApplied' = [lastApplied EXCEPT ![s] = lastApplied[s] + 1] /\ chosen' = chosen
        /\ lastApplied[s] + 1 <= Len(chosen)
        /\ chMap' = [chMap EXCEPT ![s] = Append(chMap[s], <<chosen[lastApplied[s] + 1]>>)]
    BY <1>3 DEF Apply, raft
  <2> SUFFICES ASSUME NEW r \in Server
               PROVE  /\ Len(chMap'[r]) = lastApplied'[r] /\ lastApplied'[r] <= Len(chosen)
                      /\ \A i \in 1 .. Len(chMap'[r]) : chMap'[r][i] \in {<< >>, <<chosen[i]>>}
    BY <2>1 DEF Boxes
  <2>2. /\ Len(chMap[r]) = lastApplied[r] /\ lastApplied[r] <= Len(chosen)
        /\ \A i \in 1 .. Len(chMap[r]) : chMap[r][i] \in {<< >>, <<chosen[i]>>}
    BY DEF Boxes
  <2>3. CASE r # s
    BY <1>a, <2>1, <2>2, <2>3
  <2>4. CASE r = s
    <3>0. chMap[r] \in Seq(Seq(Op)) /\ lastApplied[r] \in Nat
      BY <1>a
    <3>1. /\ lastApplied'[r] = lastApplied[r] + 1
          /\ chMap'[r] = Append(chMap[r], <<chosen[lastApplied[r] + 1]>>)
      BY <1>a, <2>1, <2>4
    <3>2. Len(chMap'[r]) = lastApplied[r] + 1
      BY <2>2, <3>0, <3>1
    <3>3. \A i \in 1 .. Len(chMap'[r]) :
            \/ i \in 1 .. Len(chMap[r]) /\ chMap'[r][i] = chMap[r][i]
            \/ i = lastApplied[r] + 1 /\ chMap'[r][i] = <<chosen[i]>>
      BY <2>2, <3>0, <3>1, <3>2
    <3> QED
      BY <2>1, <2>2, <2>4, <3>1, <3>2, <3>3
  <2> QED
    BY <2>3, <2>4
<1>4. \/ \E s \in Server : Elect(s) \/ CatchUp(s)
      \/ Choose
      \/ \E c \in Clerk : Begin(c) \/ CallRefused(c) \/ CallStarted(c) \/ CallFailed(c)
      \/ \E h \in handlers : ReadValue(h) \/ Timeout(h)
      => UNCHANGED <<chMap, lastApplied>>
  BY DEF Elect, CatchUp, Choose, Begin, CallRefused, CallStarted, CallFailed, ReadValue, Timeout, server
<1> QED
  BY <1>1, <1>2, <1>3, <1>4 DEF Next

(* An acknowledgement comes from replyNotify alone, and is for an op equal  *)
(* to the one chosen at the index.                                          *)
LEMMA AckedStep ==
  ASSUME TypeOK, AckInv, Next
  PROVE  AckedIsChosen'
<1>0. /\ chosen' \in Seq(Op) /\ Len(chosen) \in Nat /\ Len(chosen) <= Len(chosen')
      /\ \A i \in 1 .. Len(chosen) : chosen'[i] = chosen[i]
  BY ChosenGrows
<1>1. Len(chosen') \in Nat /\ \A i \in 1 .. Len(chosen) : i \in 1 .. Len(chosen')
  BY <1>0
<1>2. \A a \in acked : \E i \in 1 .. Len(chosen') :
        equal(a, chosen'[i]) /\ (Unequalled(a) => chosen'[i] = a)
  BY <1>0, <1>1 DEF AckInv, AckedIsChosen
<1>3. CASE acked' = acked
  BY <1>2, <1>3 DEF AckedIsChosen
<1>4. ASSUME NEW h \in handlers, Notified(h) \/ ReadValue(h) \/ Timeout(h), acked' # acked
      PROVE  AckedIsChosen'
  <2> DEFINE box == chMap[h.srv][h.idx]
  <2>1. /\ acked' = acked \cup {h.op}
        /\ \/ ReadValue(h) /\ h.op.option # "Get"
           \/ Notified(h) /\ equal(h.op, box[1]) /\ h.op.option # "Get"
    BY <1>4, HandlerEffect DEF AckInv
  <2>2. h \in Handler
    BY DEF TypeOK
  <2>3. ~ReadValue(h) \/ h.op.option = "Get"
    BY DEF AckInv, OwnOps, ReadValue
  <2>4. Notified(h) /\ equal(h.op, box[1]) /\ h.op.option # "Get"
    BY <2>1, <2>3
  <2>5. h.op.option # "" /\ h.op.option \in {"", "Get", "Put", "Append"}
    BY <2>2 DEF AckInv, OwnOps, Handler, Op
  <2>6. IsWrite(h.op)
    BY <2>4, <2>5 DEF IsWrite
  <2>7. h.srv \in Server /\ h.idx \in 1 .. Len(chMap[h.srv]) /\ box # << >>
    <3>1. h.srv \in Server /\ h.idx \in Nat \ {0}
      BY <2>2 DEF Handler
    <3>2. h.idx <= Len(chMap[h.srv]) /\ box # << >>
      BY <2>4 DEF Notified
    <3>3. chMap[h.srv] \in Seq(Seq(Op))
      BY <3>1 DEF AckInv, AckTypeOK
    <3> QED
      BY <3>1, <3>2, <3>3
  <2>8. box = <<chosen[h.idx]>> /\ h.idx <= Len(chosen)
    <3>1. /\ Len(chMap[h.srv]) = lastApplied[h.srv] /\ lastApplied[h.srv] <= Len(chosen)
          /\ \A i \in 1 .. Len(chMap[h.srv]) : chMap[h.srv][i] \in {<< >>, <<chosen[i]>>}
      BY <2>7 DEF AckInv, Boxes
    <3>2. lastApplied[h.srv] \in Nat
      BY <2>7 DEF TypeOK
    <3> QED
      BY SMTT(30), <1>0, <2>7, <3>1, <3>2
  <2>9. equal(h.op, chosen[h.idx]) /\ (Unequalled(h.op) => chosen[h.idx] = h.op)
    <3>1. h.op \in Ops /\ chosen[h.idx] \in Ops
      <4>1. h.idx \in 1 .. Len(chosen)
        BY <1>0, <2>7, <2>8
      <4> QED
        BY <4>1, OpsAt
    <3>2. equal(h.op, chosen[h.idx])
      BY <2>4, <2>8
    <3> QED
      BY <2>6, <3>1, <3>2 DEF AckInv, WritesKnown
  <2>10. h.idx \in 1 .. Len(chosen') /\ chosen'[h.idx] = chosen[h.idx]
    BY SMTT(30), <1>0, <1>1, <2>7, <2>8
  <2> QED
    <3>1. \A a \in acked' : \E i \in 1 .. Len(chosen') :
            equal(a, chosen'[i]) /\ (Unequalled(a) => chosen'[i] = a)
      BY <1>2, <2>1, <2>9, <2>10
    <3> QED
      BY <3>1 DEF AckedIsChosen, Unequalled, equal
<1>5. acked' = acked \/ \E h \in handlers : Notified(h) \/ ReadValue(h) \/ Timeout(h)
  BY Zenon DEF Next, Elect, CatchUp, Choose, Apply, Begin, CallRefused, CallStarted, CallFailed, hist
<1> QED
  BY <1>3, <1>4, <1>5

(* At the start every op is the empty one, and nothing is acknowledged. *)
LEMMA AckInit ==
  Init => AckInv
<1> SUFFICES ASSUME Init PROVE AckInv
  OBVIOUS
<1>1. AckTypeOK
  BY DEF Init, AckTypeOK
<1>2. \A x \in Ops : x = EmptyOp
  <2>1. /\ \A i \in 1 .. Len(chosen) : chosen[i] = EmptyOp
        /\ \A s \in Server : \A i \in 1 .. Len(rlog[s]) : rlog[s][i] = EmptyOp
        /\ \A h \in handlers : h.op = EmptyOp
        /\ \A c \in Clerk : args[c] = EmptyOp
    BY DEF Init
  <2>2. /\ InLog(chosen) \subseteq {EmptyOp}
        /\ \A s \in Server : InLog(rlog[s]) \subseteq {EmptyOp}
    BY <2>1, Zenon DEF InLog
  <2>3. (UNION {InLog(rlog[s]) : s \in Server}) \subseteq {EmptyOp}
    BY <2>2, Zenon
  <2> QED
    BY <2>1, <2>2, <2>3 DEF Ops
<1>3. ~IsWrite(EmptyOp) /\ \A c \in Clerk : args[c] = EmptyOp /\ calling[c] = "idle"
  BY DEF Init, EmptyOp, IsWrite
<1>4. WritesIssued /\ WritesKnown /\ OwnOps
  BY <1>2, <1>3 DEF Init, WritesIssued, WritesKnown, OwnOps
<1>5. Boxes /\ AckedIsChosen
  BY DEF Init, Boxes, AckedIsChosen
<1> QED
  BY <1>1, <1>4, <1>5 DEF AckInv

(* Every step keeps what the acknowledgements rest on. *)
LEMMA AckInvStep ==
  TypeOK /\ AckInv /\ [Next]_vars => AckInv'
<1> SUFFICES ASSUME TypeOK, AckInv, [Next]_vars PROVE AckInv'
  OBVIOUS
<1>1. CASE Next
  BY <1>1, CalledStays, WritesStep, OwnOpsStep, BoxesStep, AckedStep DEF AckInv
<1>2. CASE UNCHANGED vars
  <2>1. /\ UNCHANGED <<chosen, rlog, handlers, args, calling, pc, chMap, lastApplied, acked>>
    BY <1>2 DEF vars, raft, server, clerk, hist
  <2>2. AckTypeOK' /\ OwnOps' /\ Boxes' /\ AckedIsChosen'
    BY <2>1 DEF AckInv, AckTypeOK, OwnOps, Boxes, AckedIsChosen, IsWrite
  <2>3. Ops' \subseteq Ops
    BY <2>1, OpsAt, OpsWithin
  <2>4. \A c \in Clerk : \A p \in Nat : Called(c, p) => Called(c, p)'
    BY <2>1 DEF Called
  <2>5. WritesIssued' /\ WritesKnown'
    BY <2>3, <2>4, NoNewWrite DEF AckInv
  <2> QED
    BY <2>2, <2>5 DEF AckInv
<1> QED
  BY <1>1, <1>2

(* PutAppend answers success only if the replicated log holds a write like  *)
(* the clerk's, and that one itself unless the scripts have another that    *)
(* equal of kvraft/server.go takes for it: for any number of servers and    *)
(* clerks, any scripts, leader changes, lost replies and timeouts.          *)
THEOREM AckedIsChosenHolds ==
  Spec => []AckedIsChosen
<1>1. Spec => []Inv
  BY InitInv, InvStep, PTL DEF Spec
<1>2. Inv => TypeOK
  BY DEF Inv
<1>3. TypeOK /\ AckInv /\ [Next]_vars => AckInv'
  BY AckInvStep
<1>4. AckInv => AckedIsChosen
  BY DEF AckInv
<1> QED
  BY <1>1, <1>2, <1>3, <1>4, AckInit, PTL DEF Spec
=============================================================================
