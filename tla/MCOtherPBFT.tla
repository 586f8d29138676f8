---------------------------- MODULE MCOtherPBFT ------------------------------
(* The other PBFT programs, one after the other in one run: the part is     *)
(* chosen once and the variables of the programs that rest keep their       *)
(* initial values.  A program with several parts runs under several bounds. *)
EXTENDS Integers, Sequences, TLC

VARIABLES
  part,
  followView, view, isLeader, nextPropose, lastCommit, status, ckpt, ckptVotes,
  vcVotes, syncs, client, net,                                        \* PyPBFT
  requested, state, committed, buffer, delivery, batch, outbox, alarms, \* SimplePBFT
  toSend, requestQueue, sequence, lastSequence, prePrepareBuffer, prePrepareSet,
  prepareSet, prepareState, commitSet, commitState, executeQueue, notified, stuck,
  executed, checked, proposed, posts,                                                    \* ThreadPBFT
  goView, activeView, log, viewChanges, acks, pendingVC, newViews, panicked,
  mail                                                                \* GoPBFTViewChange

pyVars     == <<followView, view, isLeader, nextPropose, lastCommit, status, ckpt, ckptVotes,
                vcVotes, syncs, client, net>>
simpleVars == <<requested, state, committed, buffer, delivery, batch, outbox, alarms>>
threadVars == <<toSend, requestQueue, sequence, lastSequence, prePrepareBuffer, prePrepareSet,
                prepareSet, prepareState, commitSet, commitState, executeQueue, notified,
                stuck, executed, checked, proposed, posts>>
goVars     == <<goView, activeView, log, viewChanges, acks, pendingVC, newViews, panicked, mail>>

-----------------------------------------------------------------------------
(* PyPBFT: four nodes, one of which is down. *)

(* Slot 0 is committed at node 0 only; then the client has the view changed *)
(* and node 1 takes over.  The new view's votes are not of interest.        *)
PyViewLost ==
  {<<"commit", 0, 1>>, <<"commit", 0, 2>>, <<"vc_vote", 1, 0>>, <<"vc_vote", 1, 2>>,
   <<"request", 0, 1>>, <<"reply", 0, 0>>, <<"preprepare", 1, 0>>}
    \cup {"prepare", "commit"} \X {1} \X {0, 1, 2}
PyView == INSTANCE PyPBFTInv WITH
  N <- 4, Live <- {0, 1, 2}, Lost <- PyViewLost, Interval <- 10, Retry <- 1, MaxSlot <- 1,
  MaxView <- 1, MaxRequest <- 1, MaxAttempt <- 2, MaxSync <- 0

(* The same with the new view's votes, but the view changes only when all   *)
(* messages of view 0 have arrived.                                         *)
PyAgree == INSTANCE PyPBFTInv WITH
  N <- 4, Live <- {0, 1, 2}, Interval <- 10, Retry <- 1, MaxSlot <- 1,
  Lost <- {"commit"} \X {0} \X {1, 2} \cup {"commit", "vc_vote"} \X {1} \X {0, 2}
            \cup {<<"reply", 0, 0>>},
  MaxView <- 1, MaxRequest <- 1, MaxAttempt <- 2, MaxSync <- 0
PyAgreeNext == PyAgree!Next /\ (client'.attempt = 2 /\ client.attempt = 1 => net = {})

(* Two slots; node 2 sees no commit and catches up by synchronisation. *)
PySync == INSTANCE PyPBFTInv WITH
  N <- 4, Live <- {0, 1, 2}, Lost <- {<<"commit", 0, 2>>} \cup {"sync"} \X {0} \X {0, 1},
  Interval <- 10, Retry <- 1, MaxSlot <- 2, MaxView <- 1, MaxRequest <- 2, MaxAttempt <- 1,
  MaxSync <- 1

(* A checkpoint at every slot, and its synchronisation. *)
PyCkpt == INSTANCE PyPBFTInv WITH
  N <- 4, Live <- {0, 1, 2}, Lost <- {<<"ckpt_vote", 0, 1>>} \cup {"sync"} \X {0} \X {0, 1},
  Interval <- 1, Retry <- 1, MaxSlot <- 1, MaxView <- 1, MaxRequest <- 1, MaxAttempt <- 1,
  MaxSync <- 1

(* Two checkpoints, which node 2 fills in one loop of receive_sync while it *)
(* may adopt the first; only the votes for checkpoints are slow.            *)
PyLoop == INSTANCE PyPBFTInv WITH
  N <- 4, Live <- {0, 1, 2}, Interval <- 1, Retry <- 1, MaxSlot <- 2, MaxView <- 0, MaxRequest <- 2,
  Lost <- {<<"commit", 0, 2>>, <<"ckpt_vote", 0, 0>>, <<"ckpt_vote", 0, 1>>} \cup {"sync"} \X {0} \X {0, 1},
  MaxAttempt <- 1, MaxSync <- 1
PyLoopNext ==
  /\ PyLoop!Next
  /\ client'.req > client.req \/ syncs' > syncs => \A m \in net : m.type = "ckpt_vote"
  /\ syncs' > syncs => \E m \in net' : m.type = "sync" /\ DOMAIN m.prop = {0, 1}

(* A request and its retry are prepared in two slots, the first of which is *)
(* committed at node 0; node 1 takes both over.                             *)
PyTakes == INSTANCE PyPBFTInv WITH
  N <- 4, Live <- {0, 1, 2}, Interval <- 10, Retry <- 2, MaxSlot <- 2, MaxView <- 1, MaxRequest <- 1,
  Lost <- {"commit"} \X {0} \X {1, 2} \cup {"vc_vote", "prepare"} \X {1} \X {0, 2}
            \cup {"commit"} \X {1} \X {0, 1, 2} \cup {<<"reply", 0, 0>>, <<"request", 0, 1>>},
  MaxAttempt <- 3, MaxSync <- 0
PyTakesNext == PyTakes!Next /\ (client'.attempt > client.attempt => client.attempt = 0 \/ net = {})

(* Two view changes, each when all messages have arrived. *)
PyViews == INSTANCE PyPBFTInv WITH
  N <- 4, Live <- {0, 1, 2}, Interval <- 10, Retry <- 1, MaxSlot <- 1, MaxView <- 2, MaxRequest <- 1,
  Lost <- {"commit"} \X {0} \X {1, 2} \cup {"commit"} \X {1} \X {0, 2}
            \cup {"prepare"} \X {1} \X {0, 2} \cup {"reply"} \X {0, 1} \X {0}
            \cup {"request"} \X {0} \X {1, 2}
            \cup {"prepare"} \X {2} \X {0} \cup {"commit"} \X {2} \X {0, 1},
  MaxAttempt <- 3, MaxSync <- 0
PyViewsNext == PyViews!Next /\ (client'.attempt > client.attempt => client.attempt = 0 \/ net = {})

(* Two view changes; some nodes may miss the first. *)
PyTwoViews == INSTANCE PyPBFTInv WITH
  N <- 4, Live <- {0, 1, 2}, Lost <- {"request"} \X {0} \X {0, 1, 2}, Interval <- 10, Retry <- 1,
  MaxSlot <- 1, MaxView <- 2, MaxRequest <- 1, MaxAttempt <- 3, MaxSync <- 0

-----------------------------------------------------------------------------
(* SimplePBFT: two requests go to two nodes at the same time.  The order in *)
(* which a node walks its table is fixed.                                   *)
TwoRequests == [r1 |-> "n1", r2 |-> "n2"]
Ascending(nodes) ==
  {SelectSeq(<<"n1", "n2", "n3", "n4">>, LAMBDA n : n \in S) : S \in SUBSET nodes}

Votes == INSTANCE SimplePBFT WITH
  f <- 1, Up <- {"n1", "n2", "n3", "n4"}, Failing <- {<<"commit", "n3">>, <<"commit", "n4">>},
  Requests <- TwoRequests, Orders <- Ascending({"n1", "n2", "n3", "n4"}),
  MaxAlarm <- 0

Alarms == INSTANCE SimplePBFT WITH
  f <- 1, Up <- {"n1", "n2", "n3"}, Failing <- {}, Requests <- TwoRequests,
  Orders <- Ascending({"n1", "n2", "n3"}), MaxAlarm <- 2

-----------------------------------------------------------------------------
(* ThreadPBFT: all four nodes up and one batch, seen by node 2: the commits *)
(* of others reach no other node.                                           *)
ThreadAll == INSTANCE ThreadPBFTInv WITH
  Up <- {0, 1, 2, 3}, FaultNum <- 1, WaterL <- 0, WaterH <- 2, net <- posts,
  Sends <- {[id |-> 1, req |-> "a", to |-> 0]}
ThreadAllNext == /\ ThreadAll!Next
                 /\ \A n \in {0, 1, 3} : \A c \in commitSet'[n] : c[2] = n

(* Two batches of one primary, one node down. *)
Thread == INSTANCE ThreadPBFTInv WITH
  Up <- {0, 1, 2}, FaultNum <- 1, WaterL <- 0, WaterH <- 2, net <- posts,
  Sends <- {[id |-> 1, req |-> "a", to |-> 0], [id |-> 2, req |-> "b", to |-> 0]}

(* Two nodes propose a batch for the same number. *)
ThreadTwo == INSTANCE ThreadPBFTInv WITH
  Up <- {0, 1, 2}, FaultNum <- 1, WaterL <- 0, WaterH <- 2, net <- posts,
  Sends <- {[id |-> 1, req |-> "a", to |-> 0], [id |-> 2, req |-> "b", to |-> 1]}

-----------------------------------------------------------------------------
(* GoPBFTViewChange: four replicas, of which 3 is faulty. *)
LogEntry(d, r) == [sequence |-> 1, digest |-> d, view |-> 0, replica |-> r]
NoLog    == [clients |-> {}, preprepares |-> << >>, prepares |-> << >>, commits |-> << >>]
Hash(x)  == [hash |-> x]
Proposed == [NoLog EXCEPT !.clients = {Hash("t")}, !.preprepares = <<LogEntry(Hash("t"), 0)>>]
Change(v, digests, prepreps) ==
  [type |-> "view-change", view |-> v, sequence |-> 0, replica |-> 3, preps |-> {},
   checkpoints |-> {[sequence |-> s, digest |-> Hash(digests[s])] : s \in DOMAIN digests},
   prepreps |-> {[sequence |-> s, digest |-> Hash(prepreps[s]), view |-> 0] : s \in DOMAIN prepreps}]

(* The faulty replica has replica 1, which has asked for view 1 or does     *)
(* not, make new-views; replicas ack view 6 to it as well.                  *)
GoFaulty == INSTANCE GoPBFTViewChange WITH
  Replica <- 0 .. 3, Correct <- 0 .. 2, Span <- 2, Logged <- [r \in 0 .. 2 |-> NoLog], Asks <- {1},
  FaultyChanges <- {Change(1, <<"c">>, <<"c">>), Change(6, <<"c", "nil">>, << >>)}, FaultyAcks <- {},
  view <- goView, net <- mail

(* Correct replicas ask, with nothing, one prepare or two in their logs. *)
GoAsks == INSTANCE GoPBFTViewChange WITH
  Replica <- 0 .. 3, Correct <- 0 .. 2, Span <- 2, Asks <- 0 .. 2, FaultyChanges <- {}, FaultyAcks <- {},
  Logged <- <<[Proposed EXCEPT !.prepares = <<LogEntry(Hash("t"), 1)>>],
              [Proposed EXCEPT !.prepares = <<LogEntry(Hash("t"), 2), LogEntry(Hash("t"), 2)>>]>>
            @@ (0 :> NoLog),
  view <- goView, net <- mail

(* A new primary that asks for nothing, one that does not exist, and a      *)
(* faulty replica that sends two view-changes for view 1, with its acks.    *)
GoAcks == INSTANCE GoPBFTViewChange WITH
  Replica <- 0 .. 3, Correct <- 0 .. 2, Span <- 2, Logged <- [r \in 0 .. 2 |-> NoLog], Asks <- {},
  FaultyChanges <- {Change(1, <<"c">>, <<"c">>), Change(1, <<"d">>, <<"c">>), Change(4, <<"c">>, << >>)},
  FaultyAcks <- {[type |-> "ack", view |-> 1, replica |-> 3, viewchanger |-> 3, digest |-> Change(1, d, <<"c">>)]
                   : d \in {<<"c">>, <<"d">>}},
  view <- goView, net <- mail

(* The parts meet what the theorems ask of the constants. *)
ASSUME PyView!NodesAssumption /\ PyAgree!NodesAssumption /\ PySync!NodesAssumption /\ PyCkpt!NodesAssumption
ASSUME PyLoop!NodesAssumption /\ PyTakes!NodesAssumption /\ PyViews!NodesAssumption /\ PyTwoViews!NodesAssumption
ASSUME PyView!BeforeCheckpoint /\ PyAgree!BeforeCheckpoint /\ PySync!BeforeCheckpoint
ASSUME PyTakes!BeforeCheckpoint /\ PyViews!BeforeCheckpoint
ASSUME GoFaulty!FaultyAssumption /\ GoAsks!FaultyAssumption /\ GoAcks!FaultyAssumption
ASSUME Votes!NodesAssumption /\ Alarms!NodesAssumption
ASSUME Thread!NodesAssumption /\ ThreadAll!NodesAssumption /\ ThreadTwo!NodesAssumption
ASSUME Thread!SendsDistinct /\ ThreadAll!SendsDistinct /\ ThreadTwo!SendsDistinct

IdleGo ==
  /\ goView = "idle" /\ activeView = "idle" /\ log = "idle" /\ viewChanges = "idle" /\ acks = "idle"
  /\ pendingVC = "idle" /\ newViews = "idle" /\ panicked = "idle" /\ mail = "idle"

-----------------------------------------------------------------------------
Init ==
  \/ /\ IdleGo
     /\ \/ part = "py_view" /\ PyView!Init /\ Votes!Init /\ Thread!Init
        \/ part = "py_agree" /\ PyAgree!Init /\ Votes!Init /\ Thread!Init
        \/ part = "py_sync" /\ PySync!Init /\ Votes!Init /\ Thread!Init
        \/ part = "py_ckpt" /\ PyCkpt!Init /\ Votes!Init /\ Thread!Init
        \/ part = "py_loop" /\ PyLoop!Init /\ Votes!Init /\ Thread!Init
        \/ part = "py_takes" /\ PyTakes!Init /\ Votes!Init /\ Thread!Init
        \/ part = "py_views" /\ PyViews!Init /\ Votes!Init /\ Thread!Init
        \/ part = "votes" /\ PyView!Init /\ Votes!Init /\ Thread!Init
        \/ part = "alarms" /\ PyView!Init /\ Alarms!Init /\ Thread!Init
        \/ part = "thread" /\ PyView!Init /\ Votes!Init /\ Thread!Init
        \/ part = "thread_two" /\ PyView!Init /\ Votes!Init /\ ThreadTwo!Init
        \/ part = "thread_all" /\ PyView!Init /\ Votes!Init /\ ThreadAll!Init
  \/ /\ PyView!Init /\ Votes!Init /\ Thread!Init
     /\ \/ part = "go_faulty" /\ GoFaulty!Init
        \/ part = "go_asks" /\ GoAsks!Init
        \/ part = "go_acks" /\ GoAcks!Init

Next ==
  /\ \/ /\ \/ part = "py_view" /\ PyView!Next /\ UNCHANGED <<simpleVars, threadVars>>
           \/ part = "py_agree" /\ PyAgreeNext /\ UNCHANGED <<simpleVars, threadVars>>
           \/ part = "py_sync" /\ PySync!Next /\ UNCHANGED <<simpleVars, threadVars>>
           \/ part = "py_ckpt" /\ PyCkpt!Next /\ UNCHANGED <<simpleVars, threadVars>>
           \/ part = "py_loop" /\ PyLoopNext /\ UNCHANGED <<simpleVars, threadVars>>
           \/ part = "py_takes" /\ PyTakesNext /\ UNCHANGED <<simpleVars, threadVars>>
           \/ part = "py_views" /\ PyViewsNext /\ UNCHANGED <<simpleVars, threadVars>>
           \/ part = "votes" /\ Votes!Next /\ UNCHANGED <<pyVars, threadVars>>
           \/ part = "alarms" /\ Alarms!Next /\ UNCHANGED <<pyVars, threadVars>>
           \/ part = "thread" /\ Thread!Next /\ UNCHANGED <<pyVars, simpleVars>>
           \/ part = "thread_two" /\ ThreadTwo!Next /\ UNCHANGED <<pyVars, simpleVars>>
           \/ part = "thread_all" /\ ThreadAllNext /\ UNCHANGED <<pyVars, simpleVars>>
        /\ UNCHANGED goVars
     \/ /\ \/ part = "go_faulty" /\ GoFaulty!Next
           \/ part = "go_asks" /\ GoAsks!Next
           \/ part = "go_acks" /\ GoAcks!Next
        /\ UNCHANGED <<pyVars, simpleVars, threadVars>>
  /\ UNCHANGED part

vars == <<part, pyVars, simpleVars, threadVars, goVars>>
Spec == Init /\ [][Next]_vars

(* PyPBFT alone, with a second view change. *)
PyTwoViewsInit == IdleGo /\ part = "py_two_views" /\ PyTwoViews!Init /\ Votes!Init /\ Thread!Init
PyTwoViewsNext == PyTwoViews!Next /\ UNCHANGED <<part, simpleVars, threadVars, goVars>>
PyTwoViewsSpec == PyTwoViewsInit /\ [][PyTwoViewsNext]_vars

-----------------------------------------------------------------------------
(* The programs' properties, in the parts of each. *)

(* node.py:1034: who leads a view after the first counted votes of 2f+1     *)
(* nodes for it.                                                            *)
PyLedByVotes == PyTwoViews!LedByVotes

(* node.py and client.py: until a node is asked for a second view change    *)
(* nodes agree on what is committed, by commit messages or synchronised,    *)
(* and a new leader proposes nothing else for its slots.  Whatever views    *)
(* come and whatever is adopted while receive_sync awaits, no node skips a  *)
(* slot.  The client goes on only with what is committed.                   *)
PyAgreesAcrossViews ==
  /\ part = "py_view" => PyView!PyAgreesAcrossViews
  /\ part = "py_agree" => PyAgree!PyAgreesAcrossViews
  /\ part = "py_sync" => PySync!PyAgreesAcrossViews
  /\ part = "py_takes" => PyTakes!PyAgreesAcrossViews
  /\ part = "py_views" => PyViews!PyAgreesAcrossViews
  /\ part = "py_ckpt" => /\ PyCkpt!AgreesUntilSecondChange
                         /\ PyCkpt!NoBubbles /\ PyCkpt!BubbleInv /\ PyCkpt!SuccessIsCommitted
  /\ part = "py_loop" => /\ PyLoop!AgreesUntilSecondChange
                         /\ PyLoop!NoBubbles /\ PyLoop!BubbleInv /\ PyLoop!SuccessIsCommitted

(* node.go, pbft_impl.go: a vote is true at every place between the node    *)
(* that casts it and the pool in which it is counted, and the two quorums   *)
(* of a round overlap as they are counted: nodes that reached 2f prepares   *)
(* reached them for one request, whichever nodes the clients turn to.       *)
SimpleQuorumsHold ==
  /\ part = "votes" => Votes!SimpleQuorumsHold
  /\ part = "alarms" => Alarms!SimpleQuorumsHold

(* prepare.go, buffer.go, reply.go: batches are executed in one order, each *)
(* after its quorums and as soon as it is due, the executing goroutine      *)
(* never goes to sleep on one that is, and with a single proposer the       *)
(* proposing lock is given back.                                            *)
ThreadExecutesInOrder ==
  /\ part = "thread" => Thread!ThreadExecutesInOrder
  /\ part = "thread_two" => ThreadTwo!ThreadExecutesInOrder
  /\ part = "thread_all" => ThreadAll!ThreadExecutesInOrder

(* goPBFT/replica.go, view change: what is pending was acked by more than   *)
(* two thirds (1083) and all that was so acked is pending (1106), but a     *)
(* view change that a correct replica asks for is not heard (1027) and no   *)
(* new view ever begins (1377).                                             *)
GoViewChangeStops ==
  /\ part = "go_faulty" => GoFaulty!GoViewChangeStops
  /\ part = "go_asks" => GoAsks!GoViewChangeStops
  /\ part = "go_acks" => GoAcks!GoViewChangeStops
=============================================================================
