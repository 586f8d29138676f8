---------------------------- MODULE MCOtherRaft ------------------------------
(* The other Raft programs, one after the other in one run: the part is     *)
(* chosen once.  The programs share the variables of the same name; those   *)
(* a program does not have are "idle".  What a part keeps from happening,   *)
(* beyond the bounds, is said at the part.                                  *)
EXTENDS Integers, Sequences

VARIABLES
  part,
  state, currentTerm, log, commitIndex, lastApplied, nextIndex, matchIndex, loop, pending,
  votes, voting, decided, rvReq, rvRep, aeReq, aeRep, db, calls, acked,  \* MyRaft and GeoRaft
  secnextIndex, sending,                                        \* GeoRaft
  round, busy, files, app,                                      \* FileRaft
  rf, disk, msgs, crashes,                                      \* FileRaft, PlainRaft and ChanRaft, with loop and calls
  chosen,                                                       \* PlainRaft, with loop, pending and votes
  applyCh, elected                                              \* applyCh: all, elected: not PlainRaft

rounds    == <<loop, pending, votes>>
myOnly    == <<state, currentTerm, log, commitIndex, lastApplied, nextIndex, matchIndex,
               voting, decided, rvReq, rvRep, aeReq, aeRep, db, acked>>
myVars    == <<myOnly, calls>>
geoOnly   == <<secnextIndex, sending>>
peers     == <<rf, disk, msgs, crashes>>
fileVars  == <<round, busy, files, app>>

IdleRoundsOnly == pending = "idle" /\ votes = "idle"
IdleRounds == loop = "idle" /\ IdleRoundsOnly
IdleMyOnly == /\ state = "idle" /\ currentTerm = "idle" /\ log = "idle" /\ commitIndex = "idle"
              /\ lastApplied = "idle" /\ nextIndex = "idle" /\ matchIndex = "idle"
              /\ voting = "idle" /\ decided = "idle" /\ rvReq = "idle"
              /\ rvRep = "idle" /\ aeReq = "idle" /\ aeRep = "idle" /\ db = "idle"
              /\ acked = "idle"
IdleMy     == IdleMyOnly /\ calls = "idle"
IdleGeo    == secnextIndex = "idle" /\ sending = "idle"
IdlePeers  == rf = "idle" /\ disk = "idle" /\ msgs = "idle" /\ crashes = "idle"
IdleFile   == round = "idle" /\ busy = "idle" /\ files = "idle" /\ app = "idle"

Three == {"s1", "s2", "s3"}

-----------------------------------------------------------------------------
(* MyRaft: one leader, by the vote of s2, and two Puts; no vote travels     *)
(* once it leads.                                                           *)
MyOne == INSTANCE MyRaft WITH
  Server <- Three, Timeouts <- {<<"s1", 1>>}, Puts <- {"a", "b"}, Appends <- {}, MaxLog <- 2, MaxAppend <- 3
MyOneNext ==
  /\ MyOne!Next
  /\ elected # {} => UNCHANGED <<rvRep, voting>>
  /\ \A r \in rvRep' : r.from = "s2"

(* A Put and an Append. *)
MyAppend == INSTANCE MyRaft WITH
  Server <- Three, Timeouts <- {<<"s1", 1>>}, Puts <- {"a", "b"}, Appends <- {"b"}, MaxLog <- 2, MaxAppend <- 2
MyAppendNext ==
  /\ MyAppend!Next
  /\ elected # {} => UNCHANGED <<rvRep, voting>>
  /\ \A r \in rvRep' : r.from = "s2"

(* Two leaders one after the other, both by the vote of s3 or of s1. *)
MyTwo == INSTANCE MyRaft WITH
  Server <- Three, Timeouts <- {<<"s1", 1>>, <<"s2", 2>>}, Puts <- {"a"}, Appends <- {}, MaxLog <- 1, MaxAppend <- 2
MyTwoNext ==
  /\ MyTwo!Next
  /\ (\E e \in elected : e[1] = 2) => UNCHANGED <<rvRep, voting>>
  /\ \A r \in rvRep' : IF r.argTerm = 1 THEN r.from = "s3" ELSE elected # {}

-----------------------------------------------------------------------------
(* GeoRaft: servers l, a and b, of which a and b get entries from the       *)
(* secretary.  One leader, elected by b.                                    *)
GeoOne == INSTANCE GeoRaft WITH
  Server <- {"l", "a", "b"}, Sec <- "sec", SecMembers <- {"a", "b"},
  Timeouts <- {<<"a", 1>>}, Puts <- {"v"}, Appends <- {}, MaxLog <- 1, MaxAppend <- 4
GeoElects ==
  /\ elected # {} => UNCHANGED <<rvRep, voting>>
  /\ \A r \in rvRep' : r.from = "b"
  /\ aeReq' # aeReq => elected # {}
GeoOneNext == GeoOne!Next /\ GeoElects

(* Two Puts made before anything is sent; the secretary sends to b only. *)
GeoLock == INSTANCE GeoRaft WITH
  Server <- {"l", "a", "b"}, Sec <- "sec", SecMembers <- {"a", "b"},
  Timeouts <- {<<"a", 1>>}, Puts <- {"v", "w"}, Appends <- {}, MaxLog <- 2, MaxAppend <- 4
GeoLockNext ==
  /\ GeoLock!Next /\ GeoElects
  /\ \A m \in aeReq' : m.from = "sec" => m.to # "a"
  /\ log'["a"] # log["a"] => aeReq = {}

(* Leader l of term 1 by the vote of a, then leader a of term 2 by the vote *)
(* of b, when b has the first leader's entry; requests go through the       *)
(* secretary, those of a with two entries.                                  *)
GeoTwo == INSTANCE GeoRaft WITH
  Server <- {"l", "a", "b"}, Sec <- "sec", SecMembers <- {"a", "b"},
  Timeouts <- {<<"l", 1>>, <<"a", 2>>}, Puts <- {"v", "w", "x"}, Appends <- {}, MaxLog <- 2, MaxAppend <- 4
GeoTwoNext ==
  /\ GeoTwo!Next /\ UNCHANGED loop
  /\ aeReq' # aeReq => elected # {}
  /\ \A m \in aeReq' : "sec" \in {m.from, m.to} /\ m.to # "a" /\ m.entries # << >>
  /\ \A m \in aeReq' : m.from = "a" => Len(m.entries) = 2
  /\ calls' \subseteq {<<"v", "l">>, <<"w", "a">>, <<"x", "a">>}
  /\ \A r \in rvRep' : r.from = IF r.argTerm = 1 THEN "a" ELSE "b"
  /\ Len(log'["a"]) > 1 => log'["a"][2].put # "x"
  /\ currentTerm'["a"] = 2 => matchIndex["sec"]["b"] = 1
  /\ state["a"] = "Leader" => UNCHANGED <<rvRep, voting>>

(* A leader that is elected a second time sends with nextIndex ahead of its *)
(* followers; the entry is that of an Append.                               *)
GeoAgain == INSTANCE GeoRaft WITH
  Server <- {"l", "a", "b"}, Sec <- "sec", SecMembers <- {"a", "b"},
  Timeouts <- {<<"a", 1>>, <<"a", 2>>}, Puts <- {"v"}, Appends <- {"v"}, MaxLog <- 1, MaxAppend <- 4
GeoAgainNext ==
  /\ GeoAgain!Next
  /\ aeReq' # aeReq => elected # {}
  /\ \A m \in aeReq' : m.from = "a" /\ m.term = 2
  /\ \A r \in rvRep' : r.from = "b"
  /\ currentTerm'["a"] = 2 => Len(log["a"]) = 2

-----------------------------------------------------------------------------
(* FileRaft: two candidates of a term and a crash. *)
FileVote == INSTANCE FileRaft WITH
  Server <- Three, Timeouts <- {<<"s1", 1>>, <<"s2", 1>>}, Commands <- {}, SnapAt <- {},
  MaxSend <- 0, MaxCrash <- 1

(* No server is named "", in this part and those below. *)
ASSUME FileVote!ServersAssumption

(* Two candidates of two terms. *)
FileStand == INSTANCE FileRaft WITH
  Server <- Three, Timeouts <- {<<"s1", 1>>, <<"s2", 2>>}, Commands <- {}, SnapAt <- {},
  MaxSend <- 0, MaxCrash <- 0
FileStandNext == FileStand!Next /\ \A m \in msgs' : m.type = "voteReply" => "s1" \in {m.to, m.from}

(* One leader, by the vote of s2, that sends to s2; snapshots at index 1. *)
FileSnap == INSTANCE FileRaft WITH
  Server <- Three, Timeouts <- {<<"s1", 1>>}, Commands <- {"a", "b"}, SnapAt <- Three \X {1},
  MaxSend <- 3, MaxCrash <- 0
FileLeads ==
  /\ elected # {} => \A m \in msgs' \ msgs : m.type \notin {"vote", "voteReply"}
  /\ \A m \in msgs' : m.type = "voteReply" => m.from = "s2"
  /\ rf["s1"].role = "Leader" => rf'["s1"].role = "Leader"
  /\ \A m \in msgs' : m.type \in {"append", "install"} => m.to = "s2"
FileSnapNext == FileSnap!Next /\ FileLeads

(* Leader s1 of term 1 appends a, leader s3 of term 2 appends b. *)
FileTwo == INSTANCE FileRaft WITH
  Server <- Three, Timeouts <- {<<"s1", 1>>, <<"s3", 2>>}, Commands <- {"a", "b"}, SnapAt <- {},
  MaxSend <- 2, MaxCrash <- 0
FileTwoNext ==
  /\ FileTwo!Next
  /\ \A m \in msgs' : m.type = "voteReply" => m.from = IF m.argTerm = 1 THEN "s3" ELSE "s2"
  /\ \A m \in msgs' : m.type = "append" => m.to = "s2" /\ m.entries # << >>
  /\ \A s \in {"s1", "s3"} : \A i \in DOMAIN rf'[s].log : rf'[s].log[i].cmd = IF s = "s1" THEN "a" ELSE "b"
  /\ \A s \in Three : round'[s].at # "none" => round'[s].finished # Three

(* A leader that crashes and is elected again by s2. *)
FileCrash == INSTANCE FileRaft WITH
  Server <- Three, Timeouts <- {<<"s1", 1>>, <<"s1", 2>>}, Commands <- {"a"}, SnapAt <- Three \X {1},
  MaxSend <- 2, MaxCrash <- 1
FileCrashNext ==
  /\ FileCrash!Next
  /\ \A m \in msgs' : m.type = "voteReply" => m.from = "s2"
  /\ \A m \in msgs' : m.type \in {"append", "install"} => m.to = "s2"
  /\ rf["s1"].role = "Leader" => \A m \in msgs' \ msgs : m.type \notin {"vote", "voteReply"}
  /\ \/ crashes > 0 \/ msgs' = msgs \/ rf["s1"].role # "Leader"
     \/ \E m \in msgs' : m.type = "append" /\ m.entries # << >>
  /\ crashes' > crashes => rf'["s1"].role # "Leader" /\ applyCh'["s3"] = applyCh["s3"]
  /\ round'["s1"].at # "none" => "s3" \notin round'["s1"].finished

(* Late messages: s1 commits with s3, s2 gets what is committed or the      *)
(* snapshot, and stands itself.                                             *)
FileLate == INSTANCE FileRaft WITH
  Server <- Three, Timeouts <- {<<"s1", 1>>, <<"s2", 2>>}, Commands <- {"a"},
  SnapAt <- {"s1", "s2"} \X {1}, MaxSend <- 4, MaxCrash <- 0
FileLateNext ==
  /\ FileLate!Next
  /\ \A m \in msgs' : m.type = "append" => m.entries # << >> /\ (m.commit = 1 <=> m.to = "s2")
  /\ \A m \in msgs' : m.type = "voteReply" => m.to = "s1" /\ (m.from = "s3" \/ m.term = 2)

(* Snapshots at 1 by the leader and at 2 by s2, for the violation run. *)
FileRewind == INSTANCE FileRaft WITH
  Server <- Three, Timeouts <- {<<"s1", 1>>}, Commands <- {"a", "b"},
  SnapAt <- {<<"s1", 1>>, <<"s2", 2>>}, MaxSend <- 4, MaxCrash <- 0
FileRewindNext ==
  /\ FileRewind!Next /\ FileLeads
  /\ \A m \in msgs' : m.type = "append" => Len(m.entries) # 1

-----------------------------------------------------------------------------
(* PlainRaft: one leader, by the vote of s2, that sends three requests, and *)
(* a crash.                                                                 *)
PlainOne == INSTANCE PlainRaft WITH
  Server <- Three, Timeouts <- {<<"s1", 1>>}, Commands <- {"a"}, MaxLog <- 2, MaxAppend <- 3, MaxCrash <- 1
PlainOneNext == PlainOne!Next /\ \A m \in msgs' : m.type = "voteReply" => m.from = "s2"

(* Leader s1 of term 1, then leader s2 of term 2, both by the vote of s3. *)
PlainTwo == INSTANCE PlainRaft WITH
  Server <- Three, Timeouts <- {<<"s1", 1>>, <<"s2", 2>>}, Commands <- {"a", "b"},
  MaxLog <- 1, MaxAppend <- 3, MaxCrash <- 0
PlainTwoNext ==
  /\ PlainTwo!Next
  /\ \A m \in msgs' : m.type = "voteReply" => m.from = "s3"
  /\ \A m \in msgs' : m.type = "append" => m.to # "s1"

(* The first leader, which replicated nothing, stands again after the       *)
(* second one; nobody's main goroutine wakes up in between.                 *)
PlainThree == INSTANCE PlainRaft WITH
  Server <- Three, Timeouts <- {<<"s1", 1>>, <<"s2", 2>>, <<"s1", 3>>}, Commands <- {"a", "b"},
  MaxLog <- 1, MaxAppend <- 2, MaxCrash <- 0
PlainThreeNext ==
  /\ PlainThree!Next /\ UNCHANGED loop
  /\ \A m \in msgs' : m.type = "voteReply" /\ m.granted => m.from = IF m.argTerm = 1 THEN "s2" ELSE "s3"
  /\ \A m \in msgs' : m.type = "append" => m.to = "s3" /\ m.term > 1 /\ m.entries # << >>

-----------------------------------------------------------------------------
(* ChanRaft: three elections and a process that ends. *)
Followers == [s \in Three |-> "Follower"]
LedByS1   == [Followers EXCEPT !["s1"] = "Leader"]
ChanVote == INSTANCE ChanRaft WITH
  Server <- Three, StartState <- Followers, MaxStand <- 1, MaxBeat <- 0, MaxCrash <- 1,
  srv <- rf, beats <- msgs, down <- crashes

(* No server is "-1", in this part and those below. *)
ASSUME ChanVote!ServersAssumption

(* s1 and s2 stand, twice each. *)
ChanAgain == INSTANCE ChanRaft WITH
  Server <- Three, StartState <- Followers, MaxStand <- 2, MaxBeat <- 0, MaxCrash <- 0,
  srv <- rf, beats <- msgs, down <- crashes
ChanAgainNext == ChanAgain!Next /\ rf'["s3"].State = "Follower"

(* s1 is started as leader, s2 stands, and both stand again. *)
ChanLed == INSTANCE ChanRaft WITH
  Server <- Three, StartState <- LedByS1, MaxStand <- 1, MaxBeat <- 1, MaxCrash <- 0,
  srv <- rf, beats <- msgs, down <- crashes
ChanLedNext == ChanLed!Next /\ rf'["s3"].State = "Follower"

(* A leader that loses both others. *)
ChanAlone == INSTANCE ChanRaft WITH
  Server <- Three, StartState <- LedByS1, MaxStand <- 0, MaxBeat <- 2, MaxCrash <- 2,
  srv <- rf, beats <- msgs, down <- crashes

-----------------------------------------------------------------------------
Init ==
  \/ /\ IdleFile /\ IdlePeers /\ chosen = "idle" /\ IdleGeo
     /\ \/ part = "my_one" /\ MyOne!Init
        \/ part = "my_append" /\ MyAppend!Init
        \/ part = "my_two" /\ MyTwo!Init
  \/ /\ IdleFile /\ IdlePeers /\ chosen = "idle"
     /\ \/ part = "geo_one" /\ GeoOne!Init
        \/ part = "geo_lock" /\ GeoLock!Init
        \/ part = "geo_two" /\ GeoTwo!Init
        \/ part = "geo_again" /\ GeoAgain!Init
  \/ /\ IdleMy /\ IdleRounds /\ chosen = "idle" /\ IdleGeo /\ FileVote!Init
     /\ part \in {"file_vote", "file_stand", "file_snap", "file_two", "file_crash", "file_late"}
  \/ /\ IdleMy /\ IdleFile /\ elected = "idle" /\ IdleGeo
     /\ \/ part = "plain_one" /\ PlainOne!Init
        \/ part = "plain_two" /\ PlainTwo!Init
        \/ part = "plain_three" /\ PlainThree!Init
  \/ /\ IdleMyOnly /\ IdleFile /\ IdleRoundsOnly /\ disk = "idle" /\ chosen = "idle"
     /\ elected = "idle" /\ applyCh = "idle" /\ IdleGeo
     /\ \/ part = "chan_vote" /\ ChanVote!Init
        \/ part = "chan_again" /\ ChanAgain!Init
        \/ part = "chan_led" /\ ChanLed!Init
        \/ part = "chan_alone" /\ ChanAlone!Init

Next ==
  /\ \/ /\ \/ part = "my_one" /\ MyOneNext
           \/ part = "my_append" /\ MyAppendNext
           \/ part = "my_two" /\ MyTwoNext
        /\ UNCHANGED <<geoOnly, fileVars, peers, chosen>>
     \/ /\ \/ part = "geo_one" /\ GeoOneNext
           \/ part = "geo_lock" /\ GeoLockNext
           \/ part = "geo_two" /\ GeoTwoNext
           \/ part = "geo_again" /\ GeoAgainNext
        /\ UNCHANGED <<fileVars, peers, chosen>>
     \/ /\ \/ part = "file_vote" /\ FileVote!Next
           \/ part = "file_stand" /\ FileStandNext
           \/ part = "file_snap" /\ FileSnapNext
           \/ part = "file_two" /\ FileTwoNext
           \/ part = "file_crash" /\ FileCrashNext
           \/ part = "file_late" /\ FileLateNext
        /\ UNCHANGED <<geoOnly, myVars, rounds, chosen>>
     \/ /\ \/ part = "plain_one" /\ PlainOneNext
           \/ part = "plain_two" /\ PlainTwoNext
           \/ part = "plain_three" /\ PlainThreeNext
        /\ UNCHANGED <<geoOnly, myVars, fileVars, elected>>
     \/ /\ \/ part = "chan_vote" /\ ChanVote!Next
           \/ part = "chan_again" /\ ChanAgainNext
           \/ part = "chan_led" /\ ChanLedNext
           \/ part = "chan_alone" /\ ChanAlone!Next
        /\ UNCHANGED <<geoOnly, fileVars, elected, chosen, applyCh, disk, pending, votes, myOnly>>
  /\ UNCHANGED part

vars == <<part, myVars, rounds, geoOnly, fileVars, peers, chosen, applyCh, elected>>
Spec == Init /\ [][Next]_vars

(* The violation runs: the part geo_two alone, and the rewinding part. *)
SpecStaleMatch == Init /\ part = "geo_two" /\ [][Next]_vars
SpecRewind ==
  /\ IdleMy /\ IdleRounds /\ chosen = "idle" /\ IdleGeo
  /\ FileRewind!Init /\ part = "file_rewind"
  /\ [][FileRewindNext /\ UNCHANGED <<part, geoOnly, myVars, rounds, chosen>>]_vars

-----------------------------------------------------------------------------
(* myRaft.go, updateCommitIndex: what a server applied, a majority has.     *)
MyAppliedOnMajority ==
  /\ part = "my_one" => MyOne!AppliedOnMajority
  /\ part = "my_append" => MyAppend!AppliedOnMajority

(* myRaft.go, updateLastApplied: no PutAppend handler of a leader waits for *)
(* a token that nothing will bring, leaders following each other or not.    *)
MyNoHandlerForgotten ==
  /\ part = "my_one" => MyOne!NoHandlerForgotten
  /\ part = "my_two" => MyTwo!NoHandlerForgotten

(* myserver.go and myclient.go: what a Get returns is on a majority, for a  *)
(* leader that nobody replaces.                                             *)
MyReadIsCommitted ==
  /\ part = "my_one" => MyOne!ReadIsCommitted
  /\ part = "my_append" => MyAppend!ReadIsCommitted

(* myRaft.go, AppendEntries: late and repeated requests take nothing        *)
(* applied out of a log.                                                    *)
MyAppliedStays == part = "my_one" => MyOne!AppliedKept

(* The gRPC Raft and its service: what a server applied and what a Get      *)
(* returned is on a majority and stays in the log, and every PutAppend      *)
(* handler that waits for its entry is woken.                               *)
MyRaftServesWhatIsCommitted ==
  [][/\ (MyAppliedOnMajority /\ MyNoHandlerForgotten /\ MyReadIsCommitted)'
     /\ MyAppliedStays]_vars

(* georaft.go, startAppendLogToSecretary: what a leader commits on the      *)
(* secretary's word is on a majority, for a leader that nobody replaces.    *)
GeoCommittedOnMajority ==
  /\ part = "geo_one" => GeoOne!CommittedOnMajority
  /\ part = "geo_lock" => GeoLock!CommittedOnMajority

(* secretary.go: the secretary counts for a server only what that has.      *)
GeoRelaySound ==
  /\ part = "geo_one" => GeoOne!RelaySound
  /\ part = "geo_lock" => GeoLock!RelaySound

(* georaft.go, updateLastApplied: a server never waits on applyCh, with its *)
(* lock held, for a handler that does not come.                             *)
GeoLockReleased ==
  /\ part = "geo_one" => GeoOne!LockReleased
  /\ part = "geo_lock" => GeoLock!LockReleased

(* georaft.go, secretary.go: equal entries at an index have equal logs      *)
(* before them, at servers and secretary, across two leaders.               *)
GeoLogMatching ==
  /\ part = "geo_one" => GeoOne!LogMatching
  /\ part = "geo_two" => GeoTwo!LogMatching

(* geokvraft: what a Get returns is on a majority, for a leader that nobody *)
(* replaces.                                                                *)
GeoReadIsCommitted ==
  /\ part = "geo_one" => GeoOne!ReadIsCommitted
  /\ part = "geo_lock" => GeoLock!ReadIsCommitted

(* GeoRaft: what a leader commits on a secretary's word, and what a Get     *)
(* returns, is on a majority; the secretary counts only what a server has,  *)
(* no server keeps its lock for a handler that does not come, and the logs  *)
(* match up to a common entry.                                              *)
GeoRaftRelaysSafely ==
  GeoCommittedOnMajority /\ GeoReadIsCommitted /\ GeoRelaySound /\ GeoLockReleased /\ GeoLogMatching

(* georaft.go:115: what is committed is on a majority, across two leaders.  *)
GeoTwoCommittedOnMajority == GeoTwo!CommittedOnMajority

(* request_vote.go, persister.go: one leader per term, across crashes.      *)
FileElectionSafety ==
  /\ part = "file_vote" => FileVote!ElectionSafety
  /\ part = "file_stand" => FileStand!ElectionSafety

(* commit.go, snapshot.go: applications agree on what they applied.         *)
FileAppliedAgree ==
  /\ part = "file_snap" => FileSnap!AppliedAgree
  /\ part = "file_two" => FileTwo!AppliedAgree
  /\ part = "file_crash" => FileCrash!AppliedAgree
  /\ part = "file_late" => FileLate!AppliedAgree

(* persister.go, SaveStateAndSnapshot: at every moment a crash finds the    *)
(* snapshot that the state file names.                                      *)
FileRecoverable ==
  /\ part = "file_snap" => FileSnap!Recoverable
  /\ part = "file_crash" => FileCrash!Recoverable
  /\ part = "file_late" => FileLate!Recoverable

(* commit.go, snapshot.go: the application gets every index, in order.      *)
FileNothingSkipped ==
  /\ part = "file_snap" => FileSnap!NothingSkipped
  /\ part = "file_crash" => FileCrash!NothingSkipped
  /\ part = "file_late" => FileLate!NothingSkipped

(* The Raft with files: across crashes at any step of a save, one leader    *)
(* per term, a state file whose snapshot is there, applications that agree, *)
(* and none that misses an index.                                           *)
FileRaftSurvivesCrashes ==
  FileElectionSafety /\ FileRecoverable /\ FileAppliedAgree /\ FileNothingSkipped

(* src/raft/raft.go: every step of the cluster is a step of the one log, or *)
(* none: the refinement of ReplicatedLog.                                   *)
PlainIsOneLog ==
  [][/\ part = "plain_one" => [PlainOne!Log!AbsNext]_<<chosen, applyCh>>
     /\ part = "plain_two" => [PlainTwo!Log!AbsNext]_<<chosen, applyCh>>
     /\ part = "plain_three" => [PlainThree!Log!AbsNext]_<<chosen, applyCh>>]_vars

(* src/raft/raft.go, RequestVote: the newest leader has all that was handed *)
(* over.                                                                    *)
PlainLeaderHasApplied ==
  /\ part = "plain_two" => PlainTwo!LeaderHasApplied
  /\ part = "plain_three" => PlainThree!LeaderHasApplied

(* src/raft/raft.go, startAppendLog: a leader counts what a follower has.   *)
PlainMatchSound ==
  /\ part = "plain_one" => PlainOne!MatchSound
  /\ part = "plain_two" => PlainTwo!MatchSound

(* src/raft/raft.go: a leader knows what it may rely on: it has all that    *)
(* was handed over, and the followers have what it counts for them.         *)
PlainLeaderIsInformed == PlainLeaderHasApplied /\ PlainMatchSound

(* server.go, candidate.go of 22051139: no servers wait in a circle in      *)
(* StartElection for each other's handlers.                                 *)
ChanNoCircularWait ==
  /\ part = "chan_vote" => ChanVote!NoCircularWait
  /\ part = "chan_again" => ChanAgain!NoCircularWait
  /\ part = "chan_led" => ChanLed!NoCircularWait

(* server.go of 22051139: an elected leader with no request parked stays.   *)
ChanLeaderKeeps ==
  /\ part = "chan_vote" => ChanVote!LeaderKeeps
  /\ part = "chan_again" => ChanAgain!LeaderKeeps
  /\ part = "chan_led" => ChanLed!LeaderKeeps

(* 22051139: who stands first is not held up by who stands later: servers   *)
(* do not wait for each other in a circle, and a leader gives up for a      *)
(* request let through before it stood, for no later one.  It does not say  *)
(* that an election ends.                                                   *)
ChanFirstComeFirst == [][ChanNoCircularWait' /\ ChanLeaderKeeps]_vars

(* commit.go:54: what is left to apply is never under the snapshot.         *)
FileAppliedCoversSnapshot == FileRewind!AppliedCoversSnapshot
=============================================================================
