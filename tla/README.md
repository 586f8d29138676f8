# Verification of the Blockchain2020 consensus programs

The repository collects independent programs, one directory per author: Raft and
Raft-based stores, several PBFT implementations, Paxos, and small blockchain
prototypes. They share no code. This project models the ones that carry real
protocol logic, one TLA+ module per program or per part of it, model-checks each
with TLC on small instances and proves the central invariants with TLAPS for every
instance.

## Inventory

Paths are below `src/`. `PROJECT.json` lists every part with its files, and with
the reason for each part that is not modelled.

| Part | Modules | State | What is hard |
|---|---|---|---|
| `22051123杜云箫/Raft实现/raft/raft.go`, a Raft peer with log compaction | LabRaft, LabRaftLog, LabRaftChosen, ReplicatedLog | role, term, vote, log above a snapshot, commit and apply indices, next and match per peer, the Persister | every goroutine re-reads the peer under a lock taken anew: late vote rounds, late replies, crash between any two critical sections |
| `.../src/raft/raft.go`, the peer without compaction | PlainRaft, ReplicatedLog | the same without a snapshot | the same, and the order in which services get commands |
| `.../kvraft`, key/value service and clerk | KVRaft, LabLocks | map, last sequence number per clerk, a channel per log index; clerk: leader guess, sequence number | retries of what was already done, handlers of a deposed leader, equal operations of two clerks; two locks and three kinds of waiting between peer and service |
| `.../myraft`, `.../mykvraft`, Raft and service over gRPC | MyRaft | as above, one token channel for all handlers | RequestVote without the lock, tokens that anyone takes |
| `.../georaft`, `.../geokvraft`, Raft with a secretary | GeoRaft | as above; the secretary's log and match indices | relayed replication, a lock kept while a channel is full |
| `.../labrpc`, `.../labgob`, `.../kvraft/config.go` | LabRPC, LabGob | ends, servers, persisters; types already checked | calls that outlive the server they went to, a partition's two halves |
| `.../src/raft/config.go`, the tester | LabBench | what each server applied, who is connected | a test goroutine against readers of replaced instances |
| `.../src/porcupine`, `.../src/models` | Porcupine, PorcBits | linked list of a history, bit sets, cache, kill switch | backtracking in place, goroutines that stop each other |
| `22051001赵昱/goPBFT/replica.go` | GoPBFT, GoPBFTViewChange | a log of requests per kind, sequence number, replies, checkpoints; view-changes, acks, pending | counts of log entries that stand for counts of replicas, digests that name their replica, multicasts that stop half way |
| `22051198付炬/pbft` (copies in `22051184 田宗飞`, `22051197-张岩`) | BasicPBFT | sequence number, pool, counts per digest, two flags, stored messages | no retransmission and no view change: order of messages decides |
| `22051231曾一鸣/PBFT` (Python) | PyPBFT, PyPBFTInv | a record per slot and view, checkpoint, votes, the client's request | view change, synchronisation with holes, retries under a new time stamp |
| `22051152张浩`, `22051186魏文含`: PBFT with a message pool | SimplePBFT | state of the round, buffers, batches | two goroutines over unbuffered channels, circles of nodes |
| `22051084王晓晖`: PBFT with message buffers | ThreadPBFT, ThreadPBFTInv | buffers, sets, queue of what is due | one goroutine per phase, batches that become ready out of order |
| `22051410郭宁翔/共识算法/raft` | FileRaft | as a Raft peer, with state and snapshot files | crash between the writes of one save, applications that take snapshots |
| `22051139沈文涛/raft` | ChanRaft | state, votes, parked handlers | no locks, unbuffered channels, what gob does to a refusal |
| `22051216刘瑞洋` (Java) | BitcoinDemo | outputs, wallets' caches, chain, difficulty | caches, a difficulty that moves under the validation |
| `22051152张浩/简易区块链原型` (Python) | PyChain | chain, open transactions, neighbours | a thread per request and no lock |
| `22051141冯天祥` (C) | PowMiners, PowCodec | two lists of blocks, one buffer | two processes that find blocks at the same time; conversions |
| Paxos in Java and Python, Rust prototype, kitties pallet, lab skeletons | none | | see "Not modelled" |

The parts interact only inside one program: the kvraft server calls `Start` and
`GetState` of its peer and receives committed commands on `applyCh`; peers call
each other through labrpc, which loses, delays and reorders; the clerk calls one
server after the other; the tester crashes and partitions all of them, and
porcupine judges what the clerks saw. PBFT nodes dial each other over TCP or HTTP.

What makes each part correct: one leader per term, votes that survive crashes,
matching logs, one sequence of applied commands, snapshots that agree with what
they replace (Raft); each operation executed once and in order, an acknowledged
write really chosen, fresh reads, calls that return (services); quorums that mean
what they count, agreement across views, requests stored in order, a client that
gets its reply with one node closed (PBFT); logs that can be cleared and views that
can be changed (goPBFT, which does neither); a tester and a checker that accuse
nobody wrongly and miss nothing; chains, outputs and wallets that tell one story
(blockchains).

## How the modules model the code

In all Raft and PBFT modules requests and replies stay in sets (or in a set of
messages that is consumed, where the code sends once): they may be delivered
never, late, in any order and, where a caller may repeat them, repeatedly. Where
a handler runs under one lock or in one thread until it waits, it is one action;
where it does not, each section between two waits is an action.

### LabRaft (raft/raft.go)

One action per critical section of `rf.mu`. `RequestVote`, `AppendEntries`,
`InstallSnapshot` are the RPC handlers; `VoteReply`, `AppendReply`,
`SnapshotReply` are the second halves of the goroutines that called them;
`beCandidate` is the timer case of the main loop's `select` and `MainLoop` the
loop reading the role again, so that a timer can fire in an iteration that began
under another role; `startElection` runs later than the `beCandidate` that
launched it, and reads the term then. `Restart` is a crash followed by `Make` and
`readPersist`. The Persister is the variable `disk`. A vote round is named by the
term that launched it; `voters` is the counter `votes` of that round with the
names of those counted, since labrpc returns one reply per call.

`applied` is what the service received on `applyCh`; after `InstallSnapshot` and
`Restart` it is the snapshot. `elected` (who won which term) and `leaderLog` (what the
leader of a term had in its log) are history variables.

`LabRaftLog` states the inductive invariant of the logs, `LogInv`, in terms of
`leaderLog`, and what a leader's counts rest on, `MatchInv`; `RaftInv` is both.
`LabRaftChosen` adds the history `chosen`, the longest sequence any service received,
and states the refinement of `ReplicatedLog`. The run `raft` checks `RaftInv` and the
refinement.

### ReplicatedLog, PlainRaft (src/raft/raft.go)

ReplicatedLog is what a Raft cluster promises to a service: one sequence that only
grows, of which every replica receives the entries one by one from the first, and
to whose earlier states a restarted replica falls back. Its two variables are the
sequence (`chosen`) and what each replica received (`applied`).
`LabRaftChosen!ImplementsLog` and `MCOtherRaft!PlainIsOneLog` say that LabRaft and
PlainRaft implement it; `chosen` is there a history variable, the longest sequence
any service received. This is what KVRaft takes a Raft peer to be.

### KVRaft, LabLocks (kvraft/server.go, kvraft/client.go)

Of Raft KVRaft has what the service can see: servers that believe they lead (`Elect`),
`Start` that appends to the caller's own log, logs that are brought up to the leader's
(`CatchUp`), a chosen sequence (`Choose`). They stand for `raft/raft.go`, which LabRaft
models in full. An RPC to a non-leader is one step; one to a leader leaves a handler
blocked in `replyNotify`, which is notified, times out, or lives on after the
clerk gave up. `Get` reads the map in a step of its own, because it takes the
lock anew. `effects`, `acked`, `must` and `reads` are history: what a server
executed, what a clerk was told, what had been acknowledged when a Get was
called, and what its answer reflected.

LabLocks leaves the data out and keeps who holds and who waits: `rf.mu`, `kv.mu`,
the unbuffered `applyCh` on which the peer sends with `rf.mu` held, and the
channel of capacity one of a log index.

### MyRaft, GeoRaft, FileRaft, ChanRaft (the other Rafts)

MyRaft and GeoRaft include the services on them. Both take no lock in RequestVote, nor
for the answer to it, so that the comparison of terms and what follows are two actions
on either side (`decided` is a reply that has been compared and not yet acted upon).
Both grant every vote (the check's result is overwritten), so that one leader per term
does not hold and the properties are about one leader or leaders of different terms. In
GeoRaft a leader sends the entries of some members to the secretary only; `Relayed`
takes over the secretary's `matchIndex`. `updateLastApplied` looks once whether it
leads, and then waits with `rf.mu` while `applyCh` is full (`sending`), whatever happens
to its role. FileRaft has three writes per saved snapshot (`SaveStep`), between which
`Crash` may happen, and the application of its test, which takes snapshots from the
goroutine that receives commands. ChanRaft has elections and heartbeats only, as the
program does; every access to an unlocked field is a step.

### BasicPBFT (pbft/pbft.go)

A node accepts one connection after the other and handles its message to the
end: one action per handler. Messages are a set, delivered in any order. A node
closed by its user (`Close`) loses what is under way to it and possibly what it
was sending (`Lost`); a sender whose write fails exits with `log.Fatal`
(`WriteFails`). Digests and signatures are ideal.

### GoPBFT, GoPBFTViewChange (goPBFT/replica.go)

The normal case: `acceptConnections` handles one request to the end before it
accepts the next, so each `handleRequest...` is one action with the counting loops
inside (their goroutines are waited for). The five logs of `rep.requests` are sets;
a replica's own prepare, commit or checkpoint is an entry with `via = "own"`, and a
second one with `via = "net"` when its multicast comes back, because the loops count
both. The digest of a request is its timestamp, the digest of a checkpoint the pair
of replica and timestamp that the hashed reply contains. `clearing` records that a
replica reached `clearRequestsBySeq`. Nothing obliges a delivery, so crashes and
multicasts cut short are among the behaviours.

The view change is a module of its own, started from given logs: no code asks for a
view change (the comment at `requestViewChange` says so), so the environment does,
and a faulty replica sends view-changes and acks. It goes as far as the point where
a new-view would be processed.

### PyPBFT, SimplePBFT, ThreadPBFT (the other PBFTs)

PyPBFT: an asyncio handler runs until it awaits. Most have nothing left to write then
and are one action; three go on and are several: `get_request` awaits the body between
the look whether it leads and the proposal ("reading"), `prepare` awaits a post for
every slot of a message ("slots"), and `receive_sync` awaits `propose_vote` in the loop
that moves `_last_commit_slot` (node.py:887), for every checkpoint it fills ("loop").
What a handler has left to do is an element of `net`, and any other handler of its node
may run before. A node may therefore vote for a checkpoint past the decisions it holds,
when it adopted another one meanwhile; the number of a checkpoint is then that of its
first vote. View change, synchronisation, checkpoints, garbage collection and the client
are included. `PyPBFTInv` states the invariants from which its properties follow
(`AgreeInv`, `BubbleInv`, `HistoryInv`). SimplePBFT: dispatcher and resolver of a node
hand over on unbuffered channels, and a resolver that broadcasts waits for the
dispatchers of its peers; `Orders` are the orders in which Go may walk the table of
nodes.

ThreadPBFT: one action per turn of a goroutine's loop over the shared buffer, but the
turn that handles a pre-prepare is two (`checkPrePrepare`, `prePrepareRecv`), because
`checkPrePrepareMsg` gives the buffer's lock back before the message is stored, and the
proposing goroutine may take the same number in between. A digest is the batch itself;
`proposed` is history, the batches a node proposed in the order of their numbers.
`ThreadPBFTInv` states the invariant (`ThreadInv`) from which the properties follow.

### LabRPC, LabGob, LabBench, Porcupine, PorcBits (the lab's tools)

LabRPC has four actors: the caller, `processReq`, the goroutine of the handler, and
the test that connects, partitions, shuts down and restarts. LabGob models the
warnings of labgob around what encoding/gob does with zeros and lower-case fields.
LabBench has an external Raft that keeps its promise or breaks it a given number of
times, and the tester that judges it. Porcupine is the search with its list, the
partitions' goroutines, time-out and kill switch; PorcBits the bit sets and hash
cache under it, with slices in a memory so that sharing shows.

### BitcoinDemo, PyChain, PowMiners, PowCodec (blockchains)

BitcoinDemo: wallets pay, blocks process transactions, mining adjusts the difficulty,
the validation replays. PyChain: Flask serves each request in a thread and nothing is
locked, so every access to the chain and to the list of transactions is a step. Both are
Python lists that a thread may still hold when the node has gone on to another; they are
numbered, and a block holds the number of its list, so that a late append changes the
block. Nothing one would like to say of a node holds then: the properties name the
overlaps that break it (`seen`) and say that no others do.
PowMiners: two processes, a socket, and lists of pointers, some into one buffer. A block
is read from the socket whole; that `read` may return a part of one (main.c:101) is left
out. PowCodec: hexadecimal conversion and comparison with the compact target as pure
operators, checked over all inputs of a small word size; the NUL that `btohs` writes
behind the digits, for which `hashPrevBlock[64]` has no room, is left out.

## Abstract specification and refinement

`ReplicatedLog` is the abstract specification; in a step one
replica goes on in the log, or adds at its end, or falls back to a prefix of what it had
applied. `ImplementsLog` (run `raft`) is its whole specification over LabRaft's `applied`
and the history `chosen`; `PlainIsOneLog` (run `other_rafts`) is its step formula over
PlainRaft's `applyCh`. State machine safety is a consequence: two services that applied
an index received the same entry of one sequence.

## Runs

| Run | Bounds | Shows |
|---|---|---|
| `raft` | 3 peers, terms 1..2, log up to 2, in three scenarios (below) | TypeOK, `ElectionSafety`, `VoteOnce`, `LogMatching`, `NextIndexInBounds`, `MatchIndexSoundOnceCompacted`, `LeaderCompleteness`, the invariant of the proofs `RaftInv`, `AppliedGrows`, the refinement `ImplementsLog` |
| `kv` | 2 clerks (one writes, one reads), 2 servers, one leader change, one failure, fairness | TypeOK, `ExecutedOnceInOrder`, `AckedIsChosen`, `CallsReturn` |
| `kv_stale_read` | a read at a deposed leader, 3 servers | violated: `ReadsFresh` |
| `pbft` | 4 nodes, one closed, in two scenarios | TypeOK, `CommitBackedByPrepares`, `StoredBackedByCommits`, `StoredInOrder` |
| `pbft_reply` | 4 nodes, one closed, every message delivered | violated: `ClientGetsReply` |
| `gopbft_quorums` | 4 replicas, one never starts, one request, every number a checkpoint | TypeOK, `LogsTellTruth`, `CommitBackedByPrepares`, `ExecutedBackedByCommits`, `NeverClears` |
| `other_rafts` | parts below, 3 servers each | `MyRaftServesWhatIsCommitted`, `GeoRaftRelaysSafely`, `FileRaftSurvivesCrashes`, `PlainLeaderIsInformed`, `PlainIsOneLog`, `ChanFirstComeFirst` |
| `geo_stale_match` | two leaders, one secretary | violated: `GeoTwoCommittedOnMajority` |
| `fileraft_rewind` | one leader, a snapshot at the leader and one at a follower | violated: `FileAppliedCoversSnapshot` |
| `other_pbfts` | parts below, 4 nodes each | `PyAgreesAcrossViews`, `SimpleQuorumsHold`, `ThreadExecutesInOrder`, `GoViewChangeStops` |
| `py_two_views` | PyPBFT, 4 nodes, one down, two view changes | violated: `PyLedByVotes` |
| `others` | parts below | `NetworkTellsTruth`, `BenchJudgesRightly`, `PorcupineExact`, `LocksNeverBlock`, `CoinBooksAgree`, `PowMinersAgree`, `PyChainBreaksOnlyWhereNamed` |

A run with scenarios or parts chooses one of them in its initial state. Each is a set of
bounds under which TLC reaches one kind of behaviour in full; the scenarios and parts are
defined, with a comment each, in the MC modules.

* `raft`: *elections* (overlapping candidates and a crash, nothing in the logs),
  *replication* (two leaders in turn, conflicting entries, no crash), *snapshots* (one
  leader, compaction, InstallSnapshot, a crash).
* `pbft`: *pipelined* (two requests) and *closing* (one request while a second node
  closes at any moment).
* `other_rafts`, gRPC Raft: `my_one` (one leader, two Puts), `my_append` (a Put and an
  Append), `my_two` (two leaders). GeoRaft: `geo_one`, `geo_lock` (two Puts, secretary
  sends to one member), `geo_two` (two leaders), `geo_again` (a leader elected a second
  time). Raft with files: `file_vote` (a crash between two votes), `file_stand`,
  `file_snap`, `file_two`, `file_crash` (a leader crashes in the middle of a save),
  `file_late` (late messages across a snapshot). Plain: `plain_one` (one leader and a
  crash), `plain_two`, `plain_three` (two and three leaderships). Elections over channels:
  `chan_vote`, `chan_again`, `chan_led`, `chan_alone`.
* `other_pbfts`: `py_view` and `py_agree` (a slot committed at one node before the view
  changes), `py_sync`, `py_ckpt`, `py_loop` (one synchronisation fills two checkpoints),
  `py_takes` (a new leader takes over two slots), `py_views` (two view changes); `votes`
  and `alarms` (two requests at two nodes; three nodes and alarms); `thread` (two
  batches, one node down), `thread_two` (two nodes propose a batch for the same number)
  and `thread_all` (all four up); `go_faulty`, `go_asks`, `go_acks` (view-changes of a
  faulty and of correct replicas, acks of a faulty one, which in `go_acks` also sends
  two view-changes of one view).
* `others`: `rpc` (two servers, each restarted once), `bench_crash`, `bench_leaders`,
  `bench_agree`, `bench_state`; `porcupine` (every history of three operations on two
  keys) and `bits` (words of two bits); `locks` (two handlers, three entries); `gob`
  (two goroutines, six kinds of types); `bitcoin` (two wallets, three blocks), `pychain`
  (two nodes, two requests to mine at one, a takeover at each), `pow` (six blocks),
  `codec` (four bytes of four values).

The properties of the three suites are conjunctions, one per program, of the named
properties of that program's module; every conjunction has several mutants in
`PROJECT.json`, each a change of one definition that makes one of its conjuncts fail.

Bounds. Three servers are the smallest group with a majority that can lose a member; two
terms are enough for a deposed leader and its successor, and the crash bound of one
covers a vote or an entry forgotten between two terms. `Timeouts` names who may stand in
which term, so that the log scenarios spend their states on replication instead of split
votes. Two clerks and one leader change are enough for an operation to be overwritten,
retried and executed late; the writes differ, so that an acknowledgement names one of
them; scripts with equal writes exceed what TLC finishes and are left to the proof of
`AckedIsChosen` (see below). For PBFT four nodes is the programs' own table; with all
four alive the orders of one request's messages alone exceed what TLC finishes, so the
runs close one node first, as the program's README does in its experiment. `Period = 1`
stands for CHECKPOINT_PERIOD in goPBFT so that the one request takes a checkpoint. In
the parts, messages to servers outside the behaviour in question are left out, as a
network that loses them may.

`MatchIndexSoundOnceCompacted`: with two compactions by one leader matchIndex overstates,
because the tail of sendSnapshot credits the follower with the leader's current
`lastIncludedIndex` and not with the one that was sent (raft.go:316). The property
therefore speaks of runs with one compaction.

Symmetry is used over interchangeable backups in runs without liveness. Runs whose
bounded system may stop say `CHECK_DEADLOCK FALSE`: the bounds on terms, messages and
scripts end those behaviours, and in SimplePBFT and FileRaft the code's own circles
(below).

Fairness. `kv`: goroutines are scheduled, the last elected leader replicates, the network
delivers once its bounded failures are spent; elections, failures and timeouts of a
healthy leader are not fair. `pbft_reply`: the client sends and every dialled message is
delivered. No other run assumes any.

## What disagrees with its own documentation

* A PyPBFT node counts the votes for one view and then leads the view it follows. When
  nodes miss the first of two requests to change the view, votes for view 1 make node 2
  lead view 2, for which nobody else voted (`py_two_views`).
* A Get takes any operation on its key for its own, also when its server was deposed
  (`kv_stale_read`).
* With one node closed the PBFT client may wait for ever (`pbft_reply`): a
  message that arrives one step early is dropped and never sent again.
* A GeoRaft secretary keeps what it measured under the previous leader, and the next one
  commits on it (`geo_stale_match`).
* In FileRaft a snapshot that arrives while the application takes its own leaves
  lastApplied below the log's base (`fileraft_rewind`).

Seen while modelling, without a run of its own: InstallSnapshot keeps a suffix of the
log without comparing terms, which its comment says it does (raft.go:280; harmless, see
the proofs); two PyPBFT nodes can commit different proposals for slot 0 once late votes
for view 1 made node 2 lead view 2 (TLC found a way of 46 steps, with two view
changes, three attempts of the client and `Agreement` as the invariant); a PyPBFT leader
that takes over right after a checkpoint finds no certificate above it and numbers new
requests from slot 0 again, which nodes past the checkpoint refuse (node.py:1048); the
key/value service takes an equal operation of another clerk for its own (server.go:95
compares neither Id nor Seq); MyRaft, GeoRaft and ChanRaft grant votes they should
refuse, so that a term may have two leaders; the gRPC services apply Put but not Append,
and their clerks take an empty answer of a follower for the value; dispatchers and
resolvers of SimplePBFT can wait for each other in a circle of nodes; FileRaft's
application, which calls TakeSnapshot from its receiving goroutine, can wait for the
lock that the sender keeps; goPBFT's new primary is computed modulo one replica too
many, and puts the view-change it has of a view and replica into pending when enough
replicas acked one, without comparing the two (replica.go:1083): when a faulty replica
sent two, another one is pending than the one that was acked.

## Proofs

All theorems hold for every value of the constants. The assumptions are the named
ASSUMEs of the modules and the hypotheses `LocksAssumption`, `CallsAssumption`,
`NodesAssumption` and `FaultyAssumption`, which TLC evaluates in the runs (finite,
non-empty sets of peers; NULL is no peer; at least four nodes; at most 3f+1 nodes that
run; well-typed scripts), and two more that are discussed below: `SendsDistinct`, about
what the clients of ThreadPBFT send, and `BeforeCheckpoint`, on which what PyPBFT's
clients are told rests.

* `LabRaftProofs`: `ElectionInvariant`, `ElectionSafetyHolds` and `VoteOnceHolds`.
  Election safety is not inductive: a step that makes a second leader is excluded only
  because the voters of the first still remember. `ElectionInv` says so in three parts:
  `VotesHeld` (each granted reply is still backed by the voter's memory and its
  disk, so a restart changes nothing), `RoundsOfOneTerm` (the requests of one
  round carry one term although startElection reads it late, and each counted
  voter sent a grant in that round) and `LeadersElected` (each leader has a
  majority of grants and gave none itself). Two majorities share a peer, which
  granted once. Most actions touch none of this and are handled together.
* `LabRaftProofs`, second part: `LogInvariant`, and from it `LogMatchingHolds`,
  `LeaderCompletenessHolds`, `StateMachineSafetyHolds`, `IndicesConsistentHolds`,
  `NextIndexInBoundsHolds`, the action property `AppliedGrowsHolds` and the refinement
  `LogImplemented`, for any number of peers, terms, crashes and compactions. None of
  these is inductive. `LogInv` says what is, in seven groups: the logs of the leaders
  match each other (`LeaderLogs`); the log of a peer above its snapshot is a piece of
  the log of the leader of its last term (`HasPiece`), also after InstallSnapshot kept a
  suffix it should not have kept: the suffix is then still a piece of an older leader's
  log, so the missing comparison (raft.go:281) never reaches a service; what a peer has
  acknowledged it keeps, or a majority has left the term without acknowledging it
  (`Keeps`, `Blocked`), so that it will never be committed; what a leader counts was
  acknowledged or is committed (`Counts`); a service has a beginning of a committed log,
  and so has its snapshot (`Serves`); messages carry pieces of their leader's log
  (`MessagesFromLeaders`); a candidate that gets a vote has all that the voter
  acknowledged (`KnowsAcks`), hence a new leader has all that may be committed
  (`Complete`). The refinement adds that `chosen` is itself such a beginning.
  `MatchIndexSoundOnceCompactedHolds` needs more, because `Counts` only remembers that
  an entry was acknowledged once: `MatchInv` says that a peer still holds what it
  acknowledged in the term it is in (`HoldsAck`), also after a shorter AppendEntries of
  that term arrives late. MergedLog cuts only behind an entry that disagrees with that
  leader, and what was acknowledged does not. Of the snapshot path it says that nobody
  answers in the leader's term without a snapshot (`SnapshotsExist`), which in turn
  needs that no back-up takes nextIndex to 0 (`HintsIndex`), and that after one
  compaction all snapshots end at one index (`OneSnapshot`). `RaftInvHolds` is `LogInv`
  and `MatchInv` together.
* `KVRaftProofs`: `ExactlyOnce`, from the invariant that a server remembers a
  sequence number at least as high as that of any operation it executed
  (`SeqCoversEffects`), and `TypeCorrect`. `AckedIsChosenHolds`, for any scripts:
  for an acknowledged write the chosen sequence has an operation equal to it in the fields
  that `equal` compares, and the write itself unless the scripts have another equal to it.
  More does not hold: `equal` (server.go:95) compares neither Id nor Seq, and of two equal
  appends both clerks may be told success when one was chosen. The invariant `AckInv` says
  that every write in the system is one of its clerk's script, and that what a server put
  into the channel of an index is the operation chosen there.
* `BasicPBFTProofs`: `QuorumInvariant`, `CommitIsBacked`, `StoreIsBacked`. The
  invariant follows a Prepare and a Commit from the broadcast to the count and
  from the count to the flag; cardinalities then give 2f backups (a backup counts
  itself, the primary does not) and 2f+1 nodes.
* `BasicPBFTProofs` also has `StoreIsInOrder`. Its invariant `OrderInv` follows a sequence
  number from the primary, which gives each number once, through the messages to
  the stores: the messages of one number carry one request, and what a node stored
  it has answered and is not numbered past the node.
* `OthersProofs`: `LocksNoCircle` and `LocksChannelHasRoom`, for any set of handlers
  and any number of entries (`LocksAssumption`, the hypothesis of both). The invariant
  says who holds a lock at which label (`Holders`), that an index is sent once
  (`SentOnce`) and that the channels of indices still to come are empty (`RoomAhead`).
  A circle would have to pass through the holder of `kv.mu`, and that one waits for
  nobody.
* `OthersProofs`, second part, the simulated network, for any servers, calls, restarts
  and switches of clients, when calls go to servers (`CallsAssumption`):
  `NetworkTellsTruthHolds`. The invariant `NetInv` says that an instance in the network
  is alive and has the last persister (`LastPersister`); that an end is enabled only for
  a server that lives, under the last of its names (`EnabledAlive`), so that a call of a
  replaced instance has an end that is disabled and, names being fresh, stays so
  (`LateDisabled`); and that what a handler has done is in the persister of its
  instance, which was the last one when the reply was let through (`ReturnedSaved`). The
  step that carries it is ShutdownServer: the persister is copied after the server left
  the network, so no reply that passes the check of `isServerDead` can have missed the
  copy. `LeaderInMinorityHolds`, about the operator `make_partition`: for any odd number
  of servers the leader is in the smaller part and every server in exactly one.
* `OthersProofs`, third part, proof of work in C, for two miners (`MinersAssumption`)
  and chains of any length: `MinersKeepOneChain`. As long as no blocks have crossed, one
  process is behind the other by exactly the blocks in its socket, and nothing is on its
  way to the one ahead (`Behind`); whoever finds a block while something is in its
  socket has crossed. The list holds pointers into one buffer, but what its last element
  points to is the block appended last (`OnTop`), which is what the next one is linked
  to.
* `OthersProofs`, fourth part, the Python blockchain, for any nodes, requests and
  interleaving of its unlocked threads (`NodesAssumption`): `TakenOverIsBetterHolds`. A
  chain that is taken over is valid, and not shorter than the one it replaces unless
  that one changed after `max_length` was read, or the neighbour's after its list was
  taken for the answer and before its length was. The invariant `ResolveInv` says that
  what a resolution asks for is a list its neighbour has or had, and that what it keeps
  is valid and longer than the own chain was when it began, if the length it was told is
  its own. What the threads do to a node's own chain and transactions
  (`ValidUnlessStaleOrLate`, `PostedOnce`) stays with TLC.
* `OthersProofs`, fifth part, the Bitcoin demo, for any wallets, payments and mining
  times: `WalletsAndBlocksAgree`. A payment spends outputs its payer knows, which are
  the payer's own, so that no other wallet can know one; and the payer's cache loses
  them in the same step. The block under construction keeps the hash of its creation
  until it is mined (`OpenBlock`), so what is appended is linked to the last block, and
  its hash covers its Merkle root unless the first hash met the target already.
* `OthersProofs`, sixth part, the Raft library with files, for any servers none of which
  has the empty name (`ServersAssumption`), and any timeouts, commands, snapshots and
  crashes: `FilesSurviveCrashes`. `FileVotes`: no step ends with a vote in memory that
  is not on disk (`VotesOnDisk`), so a crash cannot take a vote back; a round counts
  granted answers of its own term only (`RoundCounts`), and a leader stood with a
  majority and gave its own vote to nobody else (`Elects`). `LocalOf`: every snapshot
  file is whole, and between the three writes of a save the file named by the state on
  disk, old or new, is there (`FilesWhole`, `Saving`); what the application has, and
  after it what is in the channel, is what Raft counts as applied (`Applies`), which
  holds even when an older snapshot is installed over newer commands. Most steps change
  one server and give no vote: `Moves` says once what they keep. That two applications
  hold the same commands (`AppliedAgree`) needs the log's invariant, as in
  `LabRaftProofs`, and stays with TLC.
* `OthersProofs`, seventh part, the elections over channels, for any servers none of
  which has the ID -1 (`ServersAssumption`), in any starting states, and any elections,
  heartbeats and crashes: `FirstComeFirst`, which states `NoCircularWait`, about circles
  of any length, and `LeaderKeeps`: what unseats a leader is a request that was let
  through before it stood, never a later election or another's heartbeat. That elections
  end is not claimed: a candidate may wait for ever for votes that are gone. Who waits
  for votes has voted (`VotedInLoop`), so Elect parks nothing more there; and no call is
  of a round its caller has not begun (`RoundsBegun`), so a server that starts to wait
  waits for no handler parked before. Both follow from Voted being set in
  StartElection's first line and need no lock; that refusals count as votes does not
  matter to them.
* `GoPBFTProofs`: `TypeCorrect`, `LogsAreTrue`, `CommitIsBacked`,
  `ExecutionIsBacked`, `CheckpointNeverStable`. The handlers count log entries,
  the properties speak of replicas. `LogsTellTruth` ties the two: every entry
  stands in its sender's own log, only a replica's own entry may be there twice,
  and a received prepare is never the primary's. A counting lemma then maps the
  received entries one to one to their senders; the one entry counted twice makes
  up for the sender of the request being handled, which the loop leaves out, so
  the count never exceeds the senders (commits), or the senders and the primary
  less one (prepares). A checkpoint's digest names its replica, so the count of
  checkpoints from others is always zero.
* `GoPBFTProofs`, second part, the view change, for any table in which more than two
  thirds are correct and whatever the others send (`FaultyAssumption`): `ViewChangeInv`,
  and from it the four parts of `GoViewChangeStops`: `ChangesUnheard`,
  `PendingIsBacked`, `AckedGetsPending`, `NewViewNeverSent`. `ChangeInv` adds that the
  view-changes of correct replicas carry the checkpoint of number 0 (`SentTrue`), for
  which every receiver refuses them; that an ack names a view-change its sender has
  (`AckTrue`); and that a replica logs one view-change per view and replica and one ack
  per view, replica and view-changer (`LoggedOnce`), so that entries count replicas. Two
  thirds rounded down and the sender of the ack being handled, who is not among them,
  are more than two thirds; conversely the correct replicas are, and the new primary's
  own ack says that it has the view-change. That no new-view is processed needs no
  history: a summary is numbered above the low water mark, and a new-view is processed
  only if one is not.
* `SimplePBFTProofs`: `VotesAreBacked`, `PreparedAgreeHolds`, `CommitBackedHolds`. The
  invariant `VotesBacked` follows a vote from the resolver that casts it through the
  post, the dispatcher's buffer and the batch to the pool that counts it, and says that
  no resolver gets a vote before its node has a state. Two sets of 2f others and the
  node itself, out of at most 3f+1 nodes, share one, which holds one request. Requests
  go to any nodes, posts fail as they like, alarms come in any number.
* `ThreadPBFTProofs`: `ThreadInvHolds`, and from it `PreparedAgreeHolds`,
  `ExecutedAgreeHolds`, `ExecutedBackedHolds`, `NothingDueLeftHolds` and
  `LockReleasedHolds`, for any water marks and any number of proposers. 2f prepares,
  none of them the proposer's, are one vote short of the usual quorum: two proposals for
  a number might find 2f voters each without a common one. `VotesApart` excludes it: a
  node votes once for a number and not after it proposed that number itself, so that two
  disjoint sets of 2f voters would take both proposers, each for the other's batch, and
  whoever proposed before it voted refuses. The other parts tie a number to one batch at
  each node (a commit quorum checks the number and the digest, but not that they belong
  together), keep the queue ascending from where execution stopped, and keep the batch
  of every number not yet executed in the buffer. Hypothesis of all is `SendsDistinct`:
  no two posts of the client have the same content. The code identifies a batch by its
  digest only, so a request posted twice is counted as prepared already.

* `PyPBFTProofs`, for 3f+1 nodes of which any are down, any lost messages, any checkpoint
  interval and any number of slots, requests and attempts:
  * `NodesAgree`, from `AgreeInvHolds`, in every state until some node is asked to
    change the view a second time (`OneChange`, part of the theorem's statement and no
    assumption on the constants: views may go on without end). Each view has one leader,
    which proposes once for a slot (`OneLeader`, `OneProposal`), a certificate rests on
    the messages that were counted (`CertificatesBacked`), and a synchronisation repeats
    what some node holds (`SyncsBacked`). Who voted for view 1 sends no commit of view 0
    any more, and its vote has a certificate for every slot for which it sent one, or
    its checkpoint is past the slot (`VotesCover`). A slot committed in view 0 has 2f+1
    nodes that sent a commit, at least f+1 of them among the voters for the new leader.
    Either the certificate of one of them counts, and view 1 proposes the same or
    nothing; or all f+1 are past the slot and refuse it, so that view 1 finds no quorum
    for it (`Handover`). Once a second change begins the code breaks this: a node leads
    a view nobody voted for (`py_two_views`), and then nodes commit different proposals
    (above).
  * `NoBubblesHolds`, for any number of view changes and any interval. `BubbleInv` is about
    what is read again after an await: `receive_sync` goes on with its loop from where
    `_last_commit_slot` and the checkpoint are by then, not from where it left them, so
    that a checkpoint adopted in between, or a slot committed, opens nothing. It does not
    rest on where checkpoints end: a vote sent after an await may announce one past what
    its sender holds.
  * `NewViewKeepsCommittedHolds`, until a second change as well: above its own
    checkpoint the leader of view 1 proposes for a committed slot what was committed.
    Below, it may not, because of the slots numbered from 0 again (above); nodes past
    the checkpoint refuse those.
  * `SuccessIsCommittedHolds`, for any number of view changes, until the first
    checkpoint is taken (`BeforeCheckpoint`). `HistoryInv` says that who replied keeps
    the request among its committed slots; after a checkpoint the history is in part the
    checkpoint's text, and that it contains the reply is a fact about sequences'
    contents that is left to TLC.
  * `PyAgreesAcrossViewsHolds` states the three together, as the run `other_pbfts` checks
    them.

`NodesAssumption` of SimplePBFT, ThreadPBFT and PyPBFT (at most 3f+1 nodes run, in
PyPBFT N = 3f+1 with f ≥ 1, and the types of the other constants) is a hypothesis of
their theorems, because one run instantiates these modules several times: `MCOtherPBFT`
has TLC evaluate it, and the other hypotheses where they are used, for each instance.

Where a run checks a conjunction (`LocksNeverBlock`, `GoViewChangeStops`,
`SimpleQuorumsHold`, `ThreadExecutesInOrder`, `PyAgreesAcrossViews`,
`NetworkTellsTruth`), the component's module defines it under the same name and one
theorem states it whole, beside those for its parts.

Only model-checked: `PlainIsOneLog` and everything else of the suites `other_rafts` and
`others` but FileRaft's elections, files and order, ChanRaft's elections, the locks, the
network, the C miners, the takeovers of the Python blockchain and the wallets and links
of the Bitcoin demo; and all liveness (the proof system does not handle fairness or
ENABLED). PorcBits, PowCodec and LabGob compute over data, which the runs enumerate; the
Bitcoin demo's replay and validation fold over the chain (`CoinReplayGivesUTXOs`,
`CoinValidUnlessRaisedOrLucky`).

## Not modelled

* Paxos in Python does not compile (PaxoProposerProtocol.py:99 lacks a block). Paxos in
  Java is a fragment: nothing implements its Messenger and no program joins its parts, so
  that any composition would be ours.
* The kitties pallet's linked list has empty bodies (append and remove in link.rs); what is
  left is create and transfer, one assignment each. The Rust prototype is one thread that
  mines in a row, its raft.rs types without behaviour.
* Lab skeletons (shardmaster, shardkv, MapReduce) have empty handlers. Earlier versions of
  raft.go under `src/raft/bak`, and the second copies of the services, are not built or
  are the same code. GeoRaft's observer is unfinished and no program sends to it.
* Cryptography, generated gRPC code, main programs, scripts, the checker's HTML output, the
  front ends and the Substrate node: I/O and libraries without protocol state.

## What comes next

1. Proofs: the refinement by PlainRaft along the lines of `LogInv`;
   the clients of PyPBFT past a checkpoint.
2. Larger parts where a faster machine allows: two compactions in LabRaft, two requests in
   goPBFT.
