------------------------------ MODULE MCOthers -------------------------------
(* The lab's network and checker and the blockchain programs, one after the *)
(* other in one run: the part is chosen once.  The variables a part does    *)
(* not have are "idle"; programs share the variables of the same name.      *)
EXTENDS Integers, Sequences

VARIABLES
  part,
  reliable, longReordering, done, servers, live, call, switches,       \* LabRPC
  enabled, names, saved, test,                                         \* LabRPC, LabBench
  rafts, connected, logs, fatal, inst, decided, ops, starts, wrong, used,
  ghost,                                                               \* LabBench
  entries, computeInfo, timeout, run, kill, count, ok, timedOut, at,   \* Porcupine
  UTXOs, wallet, sequence, blockChain, difficulty, timeCost,           \* BitcoinDemo
  chains, lists, nodes, mining, posting, resolving, seen,              \* PyChain
  buffer, state, socket, appended, crossed,                            \* PowMiners
  block, chain,                                  \* BitcoinDemo, PowMiners
  jobs, checked, errorCount, todo,                                     \* LabGob, with at
  events, memory, cache, calls, tried,                                 \* PorcBits
  rfMu, kvMu, pc, index, last, commitIndex, lastApplied, handed, chMap, \* LabLocks
  input                                                                \* PowCodec

rpcVars   == <<reliable, longReordering, done, servers, live, call, switches>>
testVars  == <<enabled, names, saved, test>>
benchVars == <<rafts, connected, logs, fatal, inst, decided, ops, starts, wrong, used, ghost>>
porcOnly  == <<entries, computeInfo, timeout, run, kill, count, ok, timedOut>>
porcVars  == <<porcOnly, at>>
gobVars   == <<jobs, checked, errorCount, todo>>
bitsVars  == <<events, memory, cache, calls, tried>>
lockVars  == <<rfMu, kvMu, pc, index, last, commitIndex, lastApplied, handed, chMap>>
coinVars  == <<UTXOs, wallet, sequence, blockChain, difficulty, timeCost>>
pyVars    == <<chains, lists, nodes, mining, posting, resolving, seen>>
minerVars == <<buffer, state, socket, appended, crossed>>

IdleRpc   == /\ reliable = "idle" /\ longReordering = "idle" /\ done = "idle"
             /\ servers = "idle" /\ live = "idle" /\ call = "idle" /\ switches = "idle"
IdleTest  == enabled = "idle" /\ names = "idle" /\ saved = "idle" /\ test = "idle"
IdleBench == /\ rafts = "idle" /\ connected = "idle" /\ logs = "idle" /\ fatal = "idle"
             /\ inst = "idle" /\ decided = "idle" /\ ops = "idle" /\ starts = "idle"
             /\ wrong = "idle" /\ used = "idle" /\ ghost = "idle"
IdleLab   == IdleRpc /\ IdleTest /\ IdleBench
IdlePorcOnly ==
             /\ entries = "idle" /\ computeInfo = "idle" /\ timeout = "idle" /\ run = "idle"
             /\ kill = "idle" /\ count = "idle" /\ ok = "idle" /\ timedOut = "idle"
IdlePorc  == IdlePorcOnly /\ at = "idle"
IdleGob   == jobs = "idle" /\ checked = "idle" /\ errorCount = "idle" /\ todo = "idle"
IdleBits  == events = "idle" /\ memory = "idle" /\ cache = "idle" /\ calls = "idle" /\ tried = "idle"
IdleLocks == /\ rfMu = "idle" /\ kvMu = "idle" /\ pc = "idle" /\ index = "idle" /\ last = "idle"
             /\ commitIndex = "idle" /\ lastApplied = "idle" /\ handed = "idle" /\ chMap = "idle"
IdleCoin  == /\ UTXOs = "idle" /\ wallet = "idle" /\ sequence = "idle"
             /\ blockChain = "idle" /\ difficulty = "idle" /\ timeCost = "idle"
IdlePy    == /\ chains = "idle" /\ lists = "idle" /\ nodes = "idle" /\ mining = "idle"
             /\ posting = "idle" /\ resolving = "idle" /\ seen = "idle"
IdleMiner == /\ buffer = "idle" /\ state = "idle" /\ socket = "idle" /\ appended = "idle"
             /\ crossed = "idle"

-----------------------------------------------------------------------------
(* LabRPC: a clerk appends at s1, s1 calls s2; each server restarts once. *)
Rpc == INSTANCE LabRPC WITH
  Server <- {"s1", "s2"}, MaxStart <- 1, MaxSwitch <- 2,
  Calls <- [append |-> [from |-> "ck", to |-> "s1"], peer |-> [from |-> "s1", to |-> "s2"]]

(* LabBench: two servers, one of which is crashed, started and connected    *)
(* after two agreements, with one wrong command.                            *)
BenchCrash == INSTANCE LabBench WITH
  Server <- {1, 2}, Cmds <- {"a", "b"}, MaxTerm <- 1, MaxOps <- 2, MaxStart <- 1, MaxSave <- 0, Faults <- 1
BenchCrashNext ==
  /\ BenchCrash!Next
  /\ test'.at \in {"submit", "count", "returned"} => test'.kind = "one" /\ test'.expected = 1
  /\ used' # used => ops = 0
  /\ (test.at # "idle" => test'.at # "submit") /\ test'.at # "scan"
  /\ test'.at = "idle" => fatal' # "no agreement"
  /\ connected' # connected /\ test'.at = "idle" => starts = 1

(* Three servers that are connected, disconnected and asked who leads. *)
BenchLeaders == INSTANCE LabBench WITH
  Server <- {1, 2, 3}, Cmds <- {}, MaxTerm <- 2, MaxOps <- 3, MaxStart <- 0, MaxSave <- 0, Faults <- 0

(* Agreements of two servers and two leaders, and a wait at the end. *)
BenchAgree == INSTANCE LabBench WITH
  Server <- {1, 2}, Cmds <- {"a", "b"}, MaxTerm <- 2, MaxOps <- 1, MaxStart <- 0, MaxSave <- 0, Faults <- 0
BenchAgreeNext ==
  /\ BenchAgree!Next /\ test'.at # "scan"
  /\ test'.at \in {"submit", "count", "returned"} =>
       test'.expected = 2 /\ (test'.kind = "wait" => Len(decided) = 2)

(* Instances that write while they are crashed and started twice. *)
BenchState == INSTANCE LabBench WITH
  Server <- {1, 2}, Cmds <- {}, MaxTerm <- 0, MaxOps <- 3, MaxStart <- 2, MaxSave <- 2, Faults <- 0
BenchStateNext == BenchState!Next /\ test'.at \in {"idle", "crash1", "crash2"}

(* Porcupine: all histories of three operations, in the order of their      *)
(* calls, over two keys.                                                    *)
Op(w, c, r) == [op |-> w[1], key |-> w[2], value |-> w[3], out |-> w[4], call |-> c, return |-> r]
What ==
  {<<"put", "x", <<"a">>, << >>>>, <<"append", "x", <<"b">>, << >>>>, <<"put", "y", <<"a">>, << >>>>}
    \cup {<<"get", "x", << >>, out>> : out \in {<< >>, <<"a">>, <<"a", "b">>, <<"b">>}}
Times ==
  {t \in [1 .. 6 -> 1 .. 6] :
     /\ \A i, j \in 1 .. 6 : t[i] = t[j] => i = j
     /\ t[1] < t[2] /\ t[3] < t[4] /\ t[5] < t[6] /\ t[1] < t[3] /\ t[3] < t[5]}
ThreeOps ==
  {<<Op(u, t[1], t[2]), Op(v, t[3], t[4]), Op(w, t[5], t[6])>> : u \in What, v \in What, w \in What, t \in Times}
Porc == INSTANCE Porcupine WITH Keys <- <<"x", "y">>, Histories <- ThreeOps

(* PorcBits: three operations in words of two bits, all orders in which     *)
(* they are called and return, with ids that are not 0, 1, 2; one order is  *)
(* searched.                                                                *)
Orders == {o \in [1 .. 6 -> {9, 4, 7}] : \A id \in {9, 4, 7} : \E i, j \in 1 .. 6 : i # j /\ o[i] = id /\ o[j] = id}
EventsOf(o) == [i \in 1 .. 6 |-> [kind |-> IF \E j \in 1 .. i - 1 : o[j] = o[i] THEN "return" ELSE "call", id |-> o[i]]]
PBits == INSTANCE PorcBits WITH
  Word <- 2, States <- {"u", "v"}, Histories <- {EventsOf(o) : o \in Orders}, MaxTried <- 4
PBitsNext == PBits!Next /\ events = EventsOf(<<9, 9, 4, 4, 7, 7>>)

(* LabGob: two goroutines, with structs, slices and maps. *)
G == INSTANCE LabGob WITH Work <- {}
Bit    == {0, 1}
Single == G!Struct(<<G!Field(TRUE, G!Scalar)>>)
Lower  == G!Struct(<<G!Field(TRUE, G!Scalar), G!Field(FALSE, G!Scalar)>>)
Nested == G!Struct(<<G!Field(TRUE, G!Scalar), G!Field(TRUE, Single)>>)
Of(t, values) == {<<t, v, w>> : v \in values, w \in values}
First == Of(G!Scalar, Bit) \cup Of(Lower, Bit \X Bit) \cup Of(Nested, Bit \X {<<b>> : b \in Bit})
           \cup Of(G!Slice(G!Scalar), {<< >>, <<0>>, <<1>>}) \cup Of(G!Slice(Single), {<< >>, <<<<0>>>>, <<<<1>>>>})
           \cup Of(G!Map(G!Scalar), {<< >>} \cup UNION {[{k} -> Bit] : k \in {1, 2}})
Gob == INSTANCE LabGob WITH
  Work <- {<<a, b>> : a \in First, b \in Of(Lower, {<<1, 0>>, <<0, 1>>}) \cup Of(Single, {<<b>> : b \in Bit})}

(* BitcoinDemo: two wallets, two blocks after the first, mean time of two. *)
Coin == INSTANCE BitcoinDemo WITH
  Wallets <- {"w1", "w2"}, First <- "w1", Genesis <- 10, Costs <- {2, 8}, Times <- {150, 400},
  targetTime <- 200, Window <- 2, MaxBlocks <- 3, MaxSequence <- 3

(* PyChain: one node mines, both may take over the other's chain. *)
Py == INSTANCE PyChain WITH
  Node <- {"n1", "n2"}, Posts <- {<<"n1", "t">>}, Mines <- {<<"n1", 1>>, <<"n1", 2>>},
  Resolves <- {<<"n1", 1>>, <<"n2", 1>>}
ASSUME Py!NodesAssumption

(* PowMiners: chains of six blocks. *)
Pow == INSTANCE PowMiners WITH Miner <- {"parent", "child"}, Length <- 6
ASSUME Pow!MinersAssumption

(* LabLocks: two handlers, three entries. *)
Locks == INSTANCE LabLocks WITH Handler <- {"h1", "h2"}, MaxIndex <- 3
ASSUME Locks!LocksAssumption
ASSUME Rpc!CallsAssumption

(* PowCodec: four bytes of four values in two words. *)
Codec == INSTANCE PowCodec WITH Hex <- 2, Size <- 4, Word <- 2
NoInput == [x |-> <<0, 0, 0, 0>>, bits |-> <<0, 0, 0, 3>>]
Inputs == [x : [1 .. 4 -> Codec!Byte], bits : {<<a, b, c, d>> : a \in {0, 1}, b \in Codec!Byte, c \in Codec!Byte, d \in 3 .. 4}]

-----------------------------------------------------------------------------
Init ==
  \/ /\ part = "rpc" /\ Rpc!Init /\ IdleBench
     /\ IdlePorc /\ IdleGob /\ IdleCoin /\ IdlePy /\ IdleBits /\ IdleMiner /\ block = "idle" /\ chain = "idle" /\ input = NoInput /\ IdleLocks
  \/ /\ \/ part = "bench_crash" /\ BenchCrash!Init
        \/ part = "bench_leaders" /\ BenchLeaders!Init
        \/ part = "bench_agree" /\ BenchAgree!Init
        \/ part = "bench_state" /\ BenchState!Init
     /\ IdleRpc /\ IdlePorc /\ IdleGob /\ IdleCoin /\ IdlePy /\ IdleBits /\ IdleMiner /\ block = "idle" /\ chain = "idle" /\ input = NoInput /\ IdleLocks
  \/ /\ part = "porcupine" /\ Porc!Init
     /\ IdleLab /\ IdleGob /\ IdleCoin /\ IdlePy /\ IdleBits /\ IdleMiner /\ block = "idle" /\ chain = "idle" /\ input = NoInput /\ IdleLocks
  \/ /\ part = "gob" /\ Gob!Init /\ IdleLab /\ IdlePorcOnly
     /\ IdleCoin /\ IdlePy /\ IdleBits /\ IdleMiner /\ block = "idle" /\ chain = "idle" /\ input = NoInput /\ IdleLocks
  \/ /\ part = "bitcoin" /\ Coin!Init
     /\ IdleLab /\ IdlePorc /\ IdleGob /\ IdlePy /\ IdleBits /\ IdleMiner /\ chain = "idle" /\ input = NoInput /\ IdleLocks
  \/ /\ part = "pychain" /\ Py!Init
     /\ IdleLab /\ IdlePorc /\ IdleGob /\ IdleBits /\ IdleCoin /\ IdleMiner /\ block = "idle" /\ chain = "idle" /\ input = NoInput /\ IdleLocks
  \/ /\ part = "pow" /\ Pow!Init
     /\ IdleLab /\ IdlePorc /\ IdleGob /\ IdleCoin /\ IdlePy /\ IdleBits /\ input = NoInput /\ IdleLocks
  \/ /\ part = "codec" /\ input = NoInput /\ IdleLocks
     /\ IdleLab /\ IdlePorc /\ IdleGob /\ IdleCoin /\ IdlePy /\ IdleBits /\ IdleMiner /\ block = "idle" /\ chain = "idle"
  \/ /\ part = "bits" /\ PBits!Init
     /\ IdleLab /\ IdlePorc /\ IdleGob /\ IdleCoin /\ IdlePy /\ IdleMiner /\ block = "idle" /\ chain = "idle" /\ input = NoInput /\ IdleLocks
  \/ /\ part = "locks" /\ Locks!Init /\ input = NoInput
     /\ IdleLab /\ IdlePorc /\ IdleGob /\ IdleCoin /\ IdlePy /\ IdleBits /\ IdleMiner /\ block = "idle" /\ chain = "idle"

Next ==
  /\ \/ /\ part = "rpc" /\ Rpc!Next
        /\ UNCHANGED <<benchVars, porcVars, gobVars, bitsVars, coinVars, pyVars, minerVars, block, chain, input, lockVars>>
     \/ /\ \/ part = "bench_crash" /\ BenchCrashNext
           \/ part = "bench_leaders" /\ BenchLeaders!Next
           \/ part = "bench_agree" /\ BenchAgreeNext
           \/ part = "bench_state" /\ BenchStateNext
        /\ UNCHANGED <<rpcVars, porcVars, gobVars, bitsVars, coinVars, pyVars, minerVars, block, chain, input, lockVars>>
     \/ /\ part = "porcupine" /\ Porc!Next
        /\ UNCHANGED <<rpcVars, testVars, benchVars, gobVars, bitsVars, coinVars, pyVars, minerVars, block, chain, input, lockVars>>
     \/ /\ part = "gob" /\ Gob!Next
        /\ UNCHANGED <<rpcVars, testVars, benchVars, porcOnly, bitsVars, coinVars, pyVars, minerVars, block, chain, input, lockVars>>
     \/ /\ part = "bitcoin" /\ Coin!Next
        /\ UNCHANGED <<rpcVars, testVars, benchVars, porcVars, gobVars, bitsVars, pyVars, minerVars, chain, input, lockVars>>
     \/ /\ part = "pychain" /\ Py!Next
        /\ UNCHANGED <<rpcVars, testVars, benchVars, porcVars, gobVars, bitsVars, coinVars, minerVars, block, chain, input, lockVars>>
     \/ /\ part = "pow" /\ Pow!Next
        /\ UNCHANGED <<rpcVars, testVars, benchVars, porcVars, gobVars, bitsVars, coinVars, pyVars, input, lockVars>>
     \/ /\ part = "codec" /\ input = NoInput /\ input' \in Inputs
        /\ UNCHANGED <<rpcVars, testVars, benchVars, porcVars, gobVars, bitsVars, coinVars, pyVars, minerVars, block, chain, lockVars>>
     \/ /\ part = "bits" /\ PBitsNext
        /\ UNCHANGED <<rpcVars, testVars, benchVars, porcVars, gobVars, coinVars, pyVars, minerVars, block, chain, input, lockVars>>
     \/ /\ part = "locks" /\ Locks!Next
        /\ UNCHANGED <<rpcVars, testVars, benchVars, porcVars, gobVars, bitsVars, coinVars, pyVars, minerVars, block, chain, input>>
  /\ UNCHANGED part

vars == <<part, rpcVars, testVars, benchVars, porcVars, gobVars, bitsVars, coinVars, pyVars, minerVars, block, chain, input, lockVars>>
Spec == Init /\ [][Next]_vars

-----------------------------------------------------------------------------
(* config.go, make_partition: the leader is left with a minority.           *)
RpcLeaderInMinority ==
  part = "codec" /\ input = NoInput =>
    \A n \in {3, 5, 7} : \A leads \in SUBSET (0 .. n - 1) : Rpc!LeaderInMinority(n, leads)

(* src/raft/config.go: a Raft that keeps its promises is never accused.     *)
BenchNoFalseAlarm ==
  /\ part = "bench_crash" => BenchCrash!NoFalseAlarm
  /\ part = "bench_leaders" => BenchLeaders!NoFalseAlarm
  /\ part = "bench_agree" => BenchAgree!NoFalseAlarm

(* src/raft/config.go, start1: different commands at an index end the test. *)
BenchDisagreementCaught == part = "bench_crash" => BenchCrash!DisagreementCaught

(* src/raft/config.go, one and wait: what they return is committed.         *)
BenchReturnedIsCommitted == part = "bench_agree" => BenchAgree!ReturnedIsCommitted

(* src/raft/config.go, checkOneLeader: the leader reported is the newest.   *)
BenchNewestReported == part = "bench_leaders" => BenchLeaders!NewestReported

(* src/raft/config.go, crash1 and start1: no write from before the crash is *)
(* lost.                                                                    *)
BenchStateSurvives == part = "bench_state" => BenchState!StateSurvives

(* labgob.go: where nothing was complained about, nothing was lost.         *)
GobSilentIsRight == part = "gob" => Gob!SilentIsRight

(* src/raft/config.go, labgob.go: the tester judges rightly: it accuses no  *)
(* Raft that keeps its promises, misses no disagreement, reports the newest *)
(* leader and only committed commands, hands a restarted server its state,  *)
(* and warns of every encoding that loses something.                        *)
BenchJudgesRightly ==
  /\ BenchNoFalseAlarm /\ BenchDisagreementCaught /\ BenchReturnedIsCommitted
  /\ BenchNewestReported /\ BenchStateSurvives /\ GobSilentIsRight

(* checker.go: the answer is that of the definition of linearizability.     *)
PorcAnswerRight == part = "porcupine" => Porc!AnswerRight

(* checker.go: the partial linearizations kept are the longest ones.        *)
PorcLongestRight == part = "porcupine" => Porc!LongestRight

(* checker.go, lift and unlift: the list holds what is not linearized.      *)
PorcListIsRest == part = "porcupine" => Porc!ListIsRest

(* checker.go, renumber: every number has a bit of its own.                 *)
BitsNumbersFit == part = "bits" => PBits!NumbersFit

(* bitset.go: the bits set are the operations on the stack.                 *)
BitsAreStack == part = "bits" => PBits!BitsAreStack

(* checker.go, cacheContains: the cache knows what was tried, no more.      *)
BitsCacheExact == part = "bits" => PBits!CacheExact

(* checker.go, bitset.go: the search gives the answer of the definition and *)
(* the longest partial orders, and its list, bit sets and cache say what    *)
(* was tried, neither more nor less.                                        *)
PorcupineExact ==
  /\ PorcAnswerRight /\ PorcLongestRight /\ PorcListIsRest
  /\ BitsNumbersFit /\ BitsAreStack /\ BitsCacheExact

(* raft.go, server.go: a peer and its service never block each other, by    *)
(* locks, the unbuffered applyCh or the one place of a handler's channel.   *)
LocksNeverBlock == part = "locks" => Locks!LocksNeverBlock

(* labrpc.go, config.go: what the simulated network reports is so: a true   *)
(* answer means a durable update, a replaced server is cut off, and a       *)
(* partition leaves the leader the minority.                                *)
NetworkTellsTruth == (part = "rpc" => Rpc!NetworkTellsTruth /\ Rpc!NetInv) /\ RpcLeaderInMinority

(* Transaction.java: what is unspent is what a replay of the chain leaves.  *)
CoinReplayGivesUTXOs == part = "bitcoin" => Coin!ReplayGivesUTXOs

(* Wallet.java: a wallet never holds an output that was spent.              *)
CoinWalletsUpToDate == part = "bitcoin" => Coin!WalletsUpToDate

(* Main.java: the validation accepts every chain but in two named cases.    *)
CoinValidUnlessRaisedOrLucky == part = "bitcoin" => Coin!ValidUnlessRaisedOrLucky

(* Block.java: linked blocks, whose hashes cover what is in them.           *)
CoinBlocksLinked == part = "bitcoin" => Coin!BlocksLinked

(* Main.java, Wallet.java, Transaction.java: chain, outputs and wallets     *)
(* tell one story, and the validation accepts it but in two named cases.    *)
CoinBooksAgree ==
  /\ CoinReplayGivesUTXOs /\ CoinWalletsUpToDate /\ CoinBlocksLinked
  /\ CoinValidUnlessRaisedOrLucky

(* blockchain.py: the chain is valid but for blocks that come stale and     *)
(* transactions that come late.                                             *)
PyValidUnlessStaleOrLate == part = "pychain" => Py!ValidUnlessStaleOrLate

(* blockchain.py: a transaction is in one block or none yet, unless two     *)
(* threads crossed in new_block or a chain was taken over.                  *)
PyPostedOnce == part = "pychain" => Py!PostedOnce

(* blockchain.py: a chain that is taken over is valid, and no shorter but   *)
(* than a chain that has changed since.                                     *)
PyTakenOverIsBetter == part = "pychain" => Py!TakenOverIsBetter

(* blockchain.py, whatever steps the threads take in whatever order: which  *)
(* steps break a chain, lose or double a transaction or shorten a chain,    *)
(* and that no others do.                                                   *)
PyChainBreaksOnlyWhereNamed ==
  [][(PyValidUnlessStaleOrLate /\ PyPostedOnce)' /\ PyTakenOverIsBetter]_vars

(* main.c: one linked chain as long as no two blocks cross.                 *)
PowOneChainUnlessCrossed == part = "pow" => Pow!OneChainUnlessCrossed

(* main.c: every found block takes one place in both chains.                *)
PowNoneAhead == part = "pow" => Pow!NoneAhead

(* util.c: a hash survives the way through hexadecimal.                     *)
CodecHashSurvives == Codec!HashSurvives(input.x)

(* util.c, main.c: the loop compares with the number the bits stand for.    *)
CodecMeetsTarget == Codec!MeetsTarget(input.x, input.bits)

(* main.c, util.c: the miners keep one chain while no blocks cross, none    *)
(* runs ahead of the other, and each block's hash meets the target.         *)
PowMinersAgree == PowOneChainUnlessCrossed /\ PowNoneAhead /\ CodecHashSurvives /\ CodecMeetsTarget
=============================================================================
