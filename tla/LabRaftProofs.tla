---------------------------- MODULE LabRaftProofs ----------------------------
(***************************************************************************)
(* Proofs about LabRaft, for every set of peers and every value of the     *)
(* bounds: its elections first, then what the parts of LabRaftLog say of   *)
(* the logs and that the steps of candidates, leaders and followers keep   *)
(* it; last the theorems about the logs and the services, that the peers   *)
(* implement ReplicatedLog, and that a leader counts what its peers hold.  *)
(*                                                                         *)
(* Only four actions do anything an election depends on beyond adopting a  *)
(* newer term: beCandidate, startElection, RequestVote and VoteReply.  The *)
(* others are Quiet (role, term, votes and rounds stay) or a Bump (one     *)
(* peer adopts a newer term) or a Restart from disk.                       *)
(***************************************************************************)
EXTENDS LabRaftLog, LabRaftChosen, TLAPS, FiniteSetTheorems, SequenceTheorems, WellFoundedInduction

election == <<pending, running, voters, rvReq, rvRep, elected>>

Quiet == UNCHANGED <<state, currentTerm, votedFor, election>>

Bump(s, t) ==
  /\ t > currentTerm[s]
  /\ state' = [state EXCEPT ![s] = Follower]
  /\ currentTerm' = [currentTerm EXCEPT ![s] = t]
  /\ votedFor' = [votedFor EXCEPT ![s] = NULL]
  /\ UNCHANGED election

(* What an action writes to disk about the election, if anything, is what   *)
(* it leaves in memory.                                                     *)
Saved ==
  /\ DOMAIN disk' = Server
  /\ \A s \in Server : /\ disk'[s].currentTerm = currentTerm'[s]
                       /\ disk'[s].votedFor = votedFor'[s]

Inv == TypeOK /\ ElectionInv

-----------------------------------------------------------------------------
(* The larger of two numbers, whichever is written first. *)
LEMMA Max2Swap ==
  ASSUME NEW a \in Nat, NEW b \in Nat
  PROVE  Max2(a, b) = IF b > a THEN b ELSE a
BY DEF Max2

(* Terms are natural numbers. *)
LEMMA TermNat ==
  Term \subseteq Nat
BY BoundAssumption DEF Term

(* persist() and persistWithSnapShot() save the term and the vote. *)
LEMMA PersistSaves ==
  ASSUME NEW s \in Server, TypeOK, VotesHeld,
         persist(s) \/ (\E data : persistWithSnapShot(s, data)),
         \A p \in Server \ {s} : currentTerm'[p] = currentTerm[p] /\ votedFor'[p] = votedFor[p]
  PROVE  Saved
<1>1. DOMAIN disk = Server
  BY DEF TypeOK
<1>2. \A p \in Server : disk[p].currentTerm = currentTerm[p] /\ disk[p].votedFor = votedFor[p]
  BY DEF VotesHeld
<1>3. DOMAIN disk' = Server /\ \A p \in Server \ {s} : disk'[p] = disk[p]
  BY <1>1 DEF persist, persistWithSnapShot
<1>4. disk'[s].currentTerm = currentTerm'[s] /\ disk'[s].votedFor = votedFor'[s]
  BY <1>1 DEF persist, persistWithSnapShot
<1> QED
  BY <1>2, <1>3, <1>4 DEF Saved

(* A step that leaves term, vote and disk alone keeps them equal. *)
LEMMA UnchangedSaves ==
  ASSUME TypeOK, VotesHeld, UNCHANGED <<currentTerm, votedFor, disk>>
  PROVE  Saved
BY DEF TypeOK, VotesHeld, Saved

-----------------------------------------------------------------------------
(* Type correctness, action by action. *)

USE DEF Follower, Candidate, Leader

(* A peer that adopts a term or a vote keeps the shape of the state. *)
LEMMA TypeStep ==
  ASSUME Inv, Next
  PROVE  TypeOK'
<1> USE ServerAssumption, NullAssumption, BoundAssumption
<1>0. TypeOK /\ VotesHeld
  BY DEF Inv, ElectionInv
<1>1. ASSUME NEW s \in Server, Restart(s) PROVE TypeOK'
  BY <1>0, <1>1 DEF TypeOK, Restart, RestartVolatile, readPersist, network, VotesHeld
<1>2. ASSUME NEW s \in Server, MainLoop(s) PROVE TypeOK'
  BY <1>0, <1>2 DEF TypeOK, MainLoop, Branch, network, persisted, rounds
<1>3. ASSUME NEW s \in Server, beCandidate(s) PROVE TypeOK'
  BY SMTT(30), <1>0, <1>3 DEF TypeOK, beCandidate, persist, network, Term, Round
<1>4. ASSUME NEW s \in Server, NEW e \in pending[s], startElection(s, e) PROVE TypeOK'
  BY <1>0, <1>4 DEF TypeOK, startElection, persisted
<1>5. ASSUME NEW m \in rvReq, RequestVote(m) PROVE TypeOK'
  <2>1. m.term \in Term /\ m.to \in Server /\ m.from \in Server /\ m.round \in Round
    BY <1>0 DEF TypeOK
  <2>2. Max2(m.term, currentTerm[m.to]) \in Term
    BY <1>0, <2>1 DEF TypeOK, Term, Max2
  <2>3. DOMAIN disk' = Server
    BY <1>0, <1>5 DEF TypeOK, RequestVote, persist
  <2>4. /\ state' \in [Server -> {Follower, Candidate, Leader}]
        /\ currentTerm' \in [Server -> Term]
        /\ votedFor' \in [Server -> Server \cup {NULL}]
    BY <1>0, <1>5, <2>1, <2>2 DEF TypeOK, RequestVote
  <2>5. \A r \in rvRep' : /\ {r.term, r.argTerm} \subseteq Term /\ {r.from, r.to} \subseteq Server
                          /\ r.round \in Round
    BY <1>0, <1>5, <2>1, <2>2 DEF TypeOK, RequestVote
  <2> QED
    BY <1>0, <1>5, <2>3, <2>4, <2>5 DEF TypeOK, RequestVote, rounds
<1>6. ASSUME NEW r \in rvRep, VoteReply(r) PROVE TypeOK'
  <2>1. r.term \in Term /\ r.to \in Server /\ r.from \in Server /\ r.round \in Round
    BY <1>0 DEF TypeOK
  <2>2. CASE VoteReplyStale(r.to, r)
    BY <1>0, <2>1, <2>2 DEF TypeOK, VoteReplyStale, beFollower, persist, rounds, network
  <2>3. CASE VoteReplyCounted(r.to, r)
    <3>1. voters' \in [Server -> [Round -> SUBSET Server]]
      BY <1>0, <2>1, <2>3 DEF TypeOK, VoteReplyCounted
    <3>2. /\ state' \in [Server -> {Follower, Candidate, Leader}]
          /\ elected' \subseteq Term \X Server
      <4>1. beLeader(r.to) \/ UNCHANGED <<state, elected>>
        BY <2>3 DEF VoteReplyCounted
      <4>2. <<currentTerm[r.to], r.to>> \in Term \X Server
        BY <1>0, <2>1 DEF TypeOK
      <4> QED
        BY <1>0, <2>1, <4>1, <4>2 DEF TypeOK, beLeader
    <3> QED
      BY <1>0, <2>3, <3>1, <3>2 DEF TypeOK, VoteReplyCounted, persisted, network
  <2> QED
    BY <1>6, <2>2, <2>3 DEF VoteReply
<1>7. ASSUME NEW s \in Server, NEW c \in Command, Start(s, c) PROVE TypeOK'
  BY <1>0, <1>7 DEF TypeOK, Start, persist, rounds, network
<1>8. ASSUME NEW s \in Server, NEW p \in Server, AppendLoop(s, p) PROVE TypeOK'
  BY <1>0, <1>8 DEF TypeOK, AppendLoop, persisted, rounds
<1>9. ASSUME NEW s \in Server, NEW p \in Server, sendSnapshot(s, p) PROVE TypeOK'
  BY <1>0, <1>9 DEF TypeOK, sendSnapshot, persisted, rounds
<1>10. ASSUME NEW m \in aeReq, AppendEntries(m) PROVE TypeOK'
  <2>1. m.term \in Term /\ m.to \in Server /\ m.from \in Server
    BY <1>0 DEF TypeOK
  <2>2. Max2(m.term, currentTerm[m.to]) \in Term
    BY <1>0, <2>1 DEF TypeOK, Term, Max2
  <2>3. DOMAIN disk' = Server
    BY <1>0, <1>10 DEF TypeOK, AppendEntries, persist
  <2>4. /\ state' \in [Server -> {Follower, Candidate, Leader}]
        /\ currentTerm' \in [Server -> Term]
        /\ votedFor' \in [Server -> Server \cup {NULL}]
    BY <1>0, <1>10, <2>1, <2>2 DEF TypeOK, AppendEntries
  <2>5. \A r \in aeRep' : r.term \in Term /\ {r.from, r.to} \subseteq Server
    BY <1>0, <1>10, <2>1, <2>2 DEF TypeOK, AppendEntries
  <2> QED
    BY <1>0, <1>10, <2>3, <2>4, <2>5 DEF TypeOK, AppendEntries, rounds
<1>11. ASSUME NEW r \in aeRep, AppendReply(r) PROVE TypeOK'
  <2>1. r.term \in Term /\ r.to \in Server
    BY <1>0 DEF TypeOK
  <2>2. CASE AppendReplyStale(r.to, r)
    BY <1>0, <1>11, <2>1, <2>2 DEF TypeOK, AppendReply, AppendReplyStale, beFollower,
       persist, rounds, network
  <2>3. CASE UNCHANGED <<state, persisted, disk>>
    BY <1>0, <1>11, <2>3 DEF TypeOK, AppendReply, persisted, rounds, network
  <2> QED
    BY <1>11, <2>2, <2>3 DEF AppendReply, AppendReplyOk, AppendReplyConflict
<1>12. ASSUME NEW s \in Server, NEW i \in 1 .. lastApplied[s], DoSnapShot(s, i) PROVE TypeOK'
  BY <1>0, <1>12 DEF TypeOK, DoSnapShot, persistWithSnapShot, rounds, network
<1>13. ASSUME NEW m \in isReq, InstallSnapshot(m) PROVE TypeOK'
  <2>1. m.term \in Term /\ m.to \in Server /\ m.from \in Server
    BY <1>0 DEF TypeOK
  <2>2. Max2(currentTerm[m.to], m.term) \in Term
    BY <1>0, <2>1 DEF TypeOK, Term, Max2
  <2>3. DOMAIN disk' = Server
    BY <1>0, <1>13 DEF TypeOK, InstallSnapshot, persist, persistWithSnapShot
  <2>4. /\ state' \in [Server -> {Follower, Candidate, Leader}]
        /\ currentTerm' \in [Server -> Term]
        /\ votedFor' \in [Server -> Server \cup {NULL}]
    BY <1>0, <1>13, <2>1, <2>2 DEF TypeOK, InstallSnapshot
  <2>5. \A r \in isRep' : r.term \in Term /\ {r.from, r.to} \subseteq Server
    BY <1>0, <1>13, <2>1 DEF TypeOK, InstallSnapshot
  <2> QED
    BY <1>0, <1>13, <2>3, <2>4, <2>5 DEF TypeOK, InstallSnapshot, rounds
<1>14. ASSUME NEW r \in isRep, SnapshotReply(r) PROVE TypeOK'
  <2>1. r.term \in Term /\ r.to \in Server
    BY <1>0 DEF TypeOK
  <2>2. CASE r.term > currentTerm[r.to]
    BY ZenonT(30), <1>0, <1>14, <2>1, <2>2 DEF TypeOK, SnapshotReply, beFollower, persist, rounds, network
  <2>3. CASE ~(r.term > currentTerm[r.to])
    BY <1>0, <1>14, <2>3 DEF TypeOK, SnapshotReply, persisted, rounds, network
  <2> QED
    BY <2>2, <2>3
<1> QED
  BY <1>1, <1>2, <1>3, <1>4, <1>5, <1>6, <1>7, <1>8, <1>9, <1>10, <1>11, <1>12,
     <1>13, <1>14 DEF Next

-----------------------------------------------------------------------------
(* The fourteen actions seen from the election. *)

(* A handler that received term t: it changes nothing of the election, or   *)
(* adopts t.                                                                *)
LEMMA QuietOrBump ==
  ASSUME Inv, NEW s \in Server, NEW t \in Term,
         currentTerm' = [currentTerm EXCEPT ![s] = IF t > @ THEN t ELSE @],
         votedFor' = [votedFor EXCEPT ![s] = IF t > currentTerm[s] THEN NULL ELSE @],
         state' = [state EXCEPT ![s] = IF t > currentTerm[s] THEN Follower ELSE @],
         UNCHANGED election
  PROVE  Quiet \/ Bump(s, t)
<1>1. TypeOK
  BY DEF Inv
<1>2. CASE t > currentTerm[s]
  BY <1>1, <1>2 DEF TypeOK, Bump
<1>3. CASE ~(t > currentTerm[s])
  BY <1>1, <1>3 DEF TypeOK, Quiet
<1> QED
  BY <1>2, <1>3

(* What the actions are to the election: nothing, a later term, a restart,  *)
(* a candidacy, a round, a vote or a counted vote.                          *)
LEMMA ElectionView ==
  ASSUME Inv, Next
  PROVE  \/ Quiet /\ Saved
         \/ \E s \in Server, t \in Term : Bump(s, t) /\ Saved
         \/ \E s \in Server : Restart(s)
         \/ \E s \in Server : beCandidate(s)
         \/ \E s \in Server : \E e \in pending[s] : startElection(s, e)
         \/ \E m \in rvReq : RequestVote(m)
         \/ \E r \in rvRep : VoteReplyCounted(r.to, r)
<1> DEFINE Goal == \/ Quiet /\ Saved
                   \/ \E s \in Server, t \in Term : Bump(s, t) /\ Saved
<1>0. TypeOK /\ VotesHeld
  BY DEF Inv, ElectionInv
<1>2. ASSUME NEW s \in Server, MainLoop(s) PROVE Goal
  <2>1. Saved
    BY <1>0, <1>2, UnchangedSaves DEF MainLoop, persisted
  <2> QED
    BY <1>2, <2>1 DEF MainLoop, Quiet, persisted, election, rounds, network
<1>6. ASSUME NEW r \in rvRep, VoteReplyStale(r.to, r) PROVE Goal
  <2>1. r.term \in Term /\ r.to \in Server
    BY <1>0 DEF TypeOK
  <2>2. Bump(r.to, r.term)
    BY <1>6 DEF VoteReplyStale, beFollower, Bump, election, rounds, network
  <2>3. persist(r.to)
    BY <1>6 DEF VoteReplyStale, beFollower
  <2>4. \A p \in Server \ {r.to} : currentTerm'[p] = currentTerm[p] /\ votedFor'[p] = votedFor[p]
    BY <1>0, <2>2 DEF TypeOK, Bump
  <2>5. Saved
    BY <1>0, <2>1, <2>3, <2>4, PersistSaves
  <2> QED
    BY <2>1, <2>2, <2>5
<1>7. ASSUME NEW s \in Server, NEW c \in Command, Start(s, c) PROVE Goal
  <2>1. Saved
    <3>1. persist(s) /\ UNCHANGED <<currentTerm, votedFor>>
      BY <1>7 DEF Start
    <3> QED
      BY <1>0, <3>1, PersistSaves
  <2> QED
    BY <1>7, <2>1 DEF Start, Quiet, election, rounds, network
<1>8. ASSUME NEW s \in Server, NEW p \in Server, AppendLoop(s, p) PROVE Goal
  <2>1. Saved
    BY <1>0, <1>8, UnchangedSaves DEF AppendLoop, persisted
  <2> QED
    BY <1>8, <2>1 DEF AppendLoop, Quiet, persisted, election, rounds
<1>9. ASSUME NEW s \in Server, NEW p \in Server, sendSnapshot(s, p) PROVE Goal
  <2>1. Saved
    BY <1>0, <1>9, UnchangedSaves DEF sendSnapshot, persisted
  <2> QED
    BY <1>9, <2>1 DEF sendSnapshot, Quiet, persisted, election, rounds
<1>10. ASSUME NEW m \in aeReq, AppendEntries(m) PROVE Goal
  <2>1. m.term \in Term /\ m.to \in Server
    BY <1>0 DEF TypeOK
  <2>2. Quiet \/ Bump(m.to, m.term)
    <3>1. currentTerm' = [currentTerm EXCEPT ![m.to] = IF m.term > @ THEN m.term ELSE @]
      BY <1>0, <1>10, <2>1 DEF AppendEntries, Max2, TypeOK
    <3>2. /\ votedFor' = [votedFor EXCEPT ![m.to] = IF m.term > currentTerm[m.to] THEN NULL ELSE @]
          /\ state' = [state EXCEPT ![m.to] = IF m.term > currentTerm[m.to] THEN Follower ELSE @]
          /\ UNCHANGED election
      BY <1>10 DEF AppendEntries, election, rounds
    <3> QED
      BY <2>1, <3>1, <3>2, QuietOrBump
  <2>3. \A p \in Server \ {m.to} : currentTerm'[p] = currentTerm[p] /\ votedFor'[p] = votedFor[p]
    BY <1>0, <2>2 DEF TypeOK, Bump, Quiet
  <2>4. CASE persist(m.to)
    BY <1>0, <2>1, <2>2, <2>3, <2>4, PersistSaves
  <2>5. CASE UNCHANGED disk
    <3>1. ~(m.term > currentTerm[m.to]) \/ persist(m.to)
      BY <1>10 DEF AppendEntries
    <3>2. Quiet \/ persist(m.to)
      BY <2>2, <3>1 DEF Bump
    <3>3. Saved
      BY <1>0, <2>1, <2>3, <2>5, <3>2, PersistSaves, UnchangedSaves DEF Quiet
    <3> QED
      BY <2>1, <2>2, <3>3
  <2> QED
    BY <1>10, <2>4, <2>5 DEF AppendEntries
<1>11. ASSUME NEW r \in aeRep, AppendReply(r) PROVE Goal
  <2>1. r.term \in Term /\ r.to \in Server
    BY <1>0 DEF TypeOK
  <2>2. CASE AppendReplyStale(r.to, r)
    <3>1. Bump(r.to, r.term)
      BY <1>11, <2>2 DEF AppendReply, AppendReplyStale, beFollower, Bump, election, rounds, network
    <3>2. persist(r.to)
      BY <2>2 DEF AppendReplyStale, beFollower
    <3>3. \A p \in Server \ {r.to} : currentTerm'[p] = currentTerm[p] /\ votedFor'[p] = votedFor[p]
      BY <1>0, <3>1 DEF TypeOK, Bump
    <3> QED
      BY <1>0, <2>1, <3>1, <3>2, <3>3, PersistSaves
  <2>3. CASE UNCHANGED <<state, persisted, disk>>
    <3>1. Saved
      BY <1>0, <2>3, UnchangedSaves DEF persisted
    <3> QED
      BY <1>11, <2>3, <3>1 DEF AppendReply, Quiet, persisted, election, rounds, network
  <2> QED
    BY <1>11, <2>2, <2>3 DEF AppendReply, AppendReplyOk, AppendReplyConflict
<1>12. ASSUME NEW s \in Server, NEW i \in 1 .. lastApplied[s], DoSnapShot(s, i) PROVE Goal
  <2>1. Saved
    <3>1. (\E data : persistWithSnapShot(s, data)) /\ UNCHANGED <<currentTerm, votedFor>>
      BY <1>12 DEF DoSnapShot
    <3> QED
      BY <1>0, <3>1, PersistSaves
  <2> QED
    BY <1>12, <2>1 DEF DoSnapShot, Quiet, election, rounds, network
<1>13. ASSUME NEW m \in isReq, InstallSnapshot(m) PROVE Goal
  <2>1. m.term \in Term /\ m.to \in Server
    BY <1>0 DEF TypeOK
  <2>2. Quiet \/ Bump(m.to, m.term)
    <3>1. currentTerm' = [currentTerm EXCEPT ![m.to] = IF m.term > @ THEN m.term ELSE @]
      <4>1. Max2(currentTerm[m.to], m.term)
               = IF m.term > currentTerm[m.to] THEN m.term ELSE currentTerm[m.to]
        BY <1>0, <2>1, TermNat, Max2Swap DEF TypeOK
      <4>2. currentTerm' = [currentTerm EXCEPT ![m.to] = Max2(@, m.term)]
        BY <1>13 DEF InstallSnapshot
      <4> QED
        BY <4>1, <4>2
    <3>2. /\ votedFor' = [votedFor EXCEPT ![m.to] = IF m.term > currentTerm[m.to] THEN NULL ELSE @]
          /\ state' = [state EXCEPT ![m.to] = IF m.term > currentTerm[m.to] THEN Follower ELSE @]
          /\ UNCHANGED election
      BY <1>13 DEF InstallSnapshot, election, rounds
    <3> QED
      BY <2>1, <3>1, <3>2, QuietOrBump
  <2>3. \A p \in Server \ {m.to} : currentTerm'[p] = currentTerm[p] /\ votedFor'[p] = votedFor[p]
    BY <1>0, <2>2 DEF TypeOK, Bump, Quiet
  <2>4. CASE persist(m.to) \/ (\E data : persistWithSnapShot(m.to, data))
    BY <1>0, <2>1, <2>2, <2>3, <2>4, PersistSaves
  <2>5. CASE UNCHANGED disk /\ ~(m.term > currentTerm[m.to])
    <3>1. Quiet
      BY <2>2, <2>5 DEF Bump
    <3> QED
      BY <1>0, <2>5, <3>1, UnchangedSaves DEF Quiet
  <2> QED
    BY <1>13, <2>4, <2>5 DEF InstallSnapshot
<1>14. ASSUME NEW r \in isRep, SnapshotReply(r) PROVE Goal
  <2>1. r.term \in Term /\ r.to \in Server
    BY <1>0 DEF TypeOK
  <2>2. CASE r.term > currentTerm[r.to]
    <3>1. Bump(r.to, r.term)
      BY <1>14, <2>2 DEF SnapshotReply, beFollower, Bump, election, rounds, network
    <3>2. persist(r.to)
      BY <1>14, <2>2 DEF SnapshotReply, beFollower
    <3>3. \A p \in Server \ {r.to} : currentTerm'[p] = currentTerm[p] /\ votedFor'[p] = votedFor[p]
      BY <1>0, <3>1 DEF TypeOK, Bump
    <3> QED
      BY <1>0, <2>1, <3>1, <3>2, <3>3, PersistSaves
  <2>3. CASE ~(r.term > currentTerm[r.to])
    <3>1. Saved
      BY <1>0, <1>14, <2>3, UnchangedSaves DEF SnapshotReply, persisted
    <3> QED
      BY <1>14, <2>3, <3>1 DEF SnapshotReply, Quiet, persisted, election, rounds, network
  <2> QED
    BY <2>2, <2>3
<1> QED
  BY <1>2, <1>6, <1>7, <1>8, <1>9, <1>10, <1>11, <1>12, <1>13, <1>14 DEF Next, VoteReply

-----------------------------------------------------------------------------
(* What a peer answered stays true. *)

(* VoteOnce as a predicate on one step. *)
Monotone ==
  \A s \in Server :
    /\ currentTerm[s] <= currentTerm'[s]
    /\ currentTerm[s] = currentTerm'[s] /\ votedFor[s] # NULL => votedFor'[s] = votedFor[s]

SelfVote == \A s \in Server : state[s] # Follower => votedFor[s] = s

Held(v, c, t) ==
  currentTerm[v] > t \/ (currentTerm[v] = t /\ votedFor[v] = c)

(* Under a monotone step a vote that is held stays held. *)
LEMMA HeldStays ==
  ASSUME TypeOK, TypeOK', Monotone, NEW v \in Server, NEW c \in Server, NEW t \in Term,
         Held(v, c, t)
  PROVE  Held(v, c, t)'
<1>1. currentTerm[v] \in Nat /\ currentTerm'[v] \in Nat /\ t \in Nat
  BY TermNat DEF TypeOK
<1>2. c # NULL
  BY NullAssumption
<1>3. CASE currentTerm'[v] > currentTerm[v]
  BY <1>1, <1>3 DEF Held
<1>4. CASE currentTerm'[v] = currentTerm[v]
  <2>1. CASE currentTerm[v] > t
    BY <1>4, <2>1 DEF Held
  <2>2. CASE currentTerm[v] = t /\ votedFor[v] = c
    BY <1>2, <1>4, <2>2 DEF Monotone, Held
  <2> QED
    BY <2>1, <2>2 DEF Held
<1> QED
  BY <1>1, <1>3, <1>4 DEF Monotone

(* Restart brings back the term and the vote that were in memory. *)
LEMMA RestartKeeps ==
  ASSUME Inv, NEW s \in Server, Restart(s)
  PROVE  currentTerm' = currentTerm /\ votedFor' = votedFor
<1>1. TypeOK /\ disk[s].currentTerm = currentTerm[s] /\ disk[s].votedFor = votedFor[s]
  BY DEF Inv, ElectionInv, VotesHeld
<1> QED
  BY <1>1 DEF TypeOK, Restart, RestartVolatile, readPersist

(* Terms never fall and no vote of a term is changed. *)
LEMMA MonotoneStep ==
  ASSUME Inv, Next
  PROVE  Monotone
<1>0. TypeOK
  BY DEF Inv
<1>00. \A p \in Server : currentTerm[p] \in Nat
  BY <1>0, TermNat DEF TypeOK
<1>1. CASE Quiet
  BY <1>00, <1>1 DEF Quiet, Monotone
<1>2. ASSUME NEW s \in Server, NEW t \in Term, Bump(s, t) PROVE Monotone
  <2>1. t \in Nat
    BY TermNat
  <2> QED
    BY <1>0, <1>00, <1>2, <2>1 DEF TypeOK, Bump, Monotone
<1>3. ASSUME NEW s \in Server, Restart(s) PROVE Monotone
  BY <1>00, <1>3, RestartKeeps DEF Monotone
<1>4. ASSUME NEW s \in Server, beCandidate(s) PROVE Monotone
  BY <1>0, <1>00, <1>4 DEF TypeOK, beCandidate, Monotone
<1>5. ASSUME NEW s \in Server, NEW e \in pending[s], startElection(s, e) PROVE Monotone
  BY <1>00, <1>5 DEF startElection, persisted, Monotone
<1>6. ASSUME NEW m \in rvReq, RequestVote(m) PROVE Monotone
  <2>1. m.to \in Server /\ m.term \in Nat
    BY <1>0, TermNat DEF TypeOK
  <2>2. \A p \in Server \ {m.to} : currentTerm'[p] = currentTerm[p] /\ votedFor'[p] = votedFor[p]
    BY <1>0, <1>6 DEF TypeOK, RequestVote
  <2>3. CASE m.term > currentTerm[m.to]
    <3>1. currentTerm'[m.to] = m.term
      BY <1>0, <1>6, <2>1, <2>3 DEF TypeOK, RequestVote, Max2
    <3> QED
      BY <1>00, <2>1, <2>2, <2>3, <3>1 DEF Monotone
  <2>4. CASE ~(m.term > currentTerm[m.to])
    <3>1. currentTerm'[m.to] = currentTerm[m.to]
      BY <1>0, <1>6, <2>1, <2>4 DEF TypeOK, RequestVote, Max2
    <3>2. votedFor[m.to] # NULL => votedFor'[m.to] = votedFor[m.to]
      BY <1>0, <1>6, <2>1, <2>4 DEF TypeOK, RequestVote, MayVote
    <3> QED
      BY <1>00, <2>1, <2>2, <3>1, <3>2 DEF Monotone
  <2> QED
    BY <2>3, <2>4
<1>7. ASSUME NEW r \in rvRep, VoteReplyCounted(r.to, r) PROVE Monotone
  BY <1>00, <1>7 DEF VoteReplyCounted, persisted, Monotone
<1> QED
  BY <1>1, <1>2, <1>3, <1>4, <1>5, <1>6, <1>7, ElectionView

(* A step that adds no request, no reply and no leader. *)
LEMMA NoNewVotes ==
  ASSUME Inv, TypeOK', Monotone, Saved, SelfVote', UNCHANGED <<rvReq, rvRep, elected>>,
         \A s \in Server : \A e \in pending'[s] :
           e \in pending[s] \/ (e = currentTerm'[s] /\ currentTerm[s] < e),
         \A s \in Server : \A e \in Round : voters'[s][e] \subseteq voters[s][e]
  PROVE  ElectionInv'
<1>0. TypeOK /\ VotesHeld /\ RoundsOfOneTerm /\ LeadersElected
  BY DEF Inv, ElectionInv
<1>1. \A s \in Server : /\ currentTerm[s] \in Nat /\ currentTerm'[s] \in Nat
                        /\ currentTerm[s] <= currentTerm'[s]
  BY <1>0, TermNat DEF TypeOK, Monotone
<1>2. VotesHeld'
  <2>1. \A r \in rvRep : r.granted =>
          r.term = r.argTerm /\ r.from # r.to /\ Held(r.from, r.to, r.term)
    BY <1>0 DEF VotesHeld, Held
  <2>2. \A r \in rvRep : r.term \in Term /\ r.from \in Server /\ r.to \in Server
    BY <1>0 DEF TypeOK
  <2>3. \A r \in rvRep : r.granted => Held(r.from, r.to, r.term)'
    BY <1>0, <2>1, <2>2, HeldStays
  <2>4. \A r \in rvRep' : r.granted =>
         /\ r.term = r.argTerm /\ r.from # r.to
         /\ \/ currentTerm'[r.from] > r.term
            \/ currentTerm'[r.from] = r.term /\ votedFor'[r.from] = r.to
    BY <2>1, <2>3 DEF Held
  <2>5. \A q, r \in rvRep' :
       q.granted /\ r.granted /\ q.from = r.from /\ q.term = r.term => q.to = r.to
    BY <1>0 DEF VotesHeld
  <2> QED
    BY <2>4, <2>5 DEF VotesHeld, Saved, SelfVote
<1>3. RoundsOfOneTerm'
  <2>1. \A m \in rvReq : /\ m.from # m.to /\ m.round <= currentTerm[m.from]
                         /\ m.from \in Server /\ m.round \in Nat
    BY <1>0, BoundAssumption DEF TypeOK, RoundsOfOneTerm, Round
  <2>2. \A m \in rvReq' : m.from # m.to /\ m.round <= currentTerm'[m.from]
    BY <1>1, <2>1
  <2>3. \A s \in Server : \A e \in pending'[s] :
          e <= currentTerm'[s] /\ \A m \in rvReq' : m.from = s => m.round # e
    <3> SUFFICES ASSUME NEW s \in Server, NEW e \in pending'[s]
                 PROVE  e <= currentTerm'[s] /\ \A m \in rvReq : m.from = s => m.round # e
      OBVIOUS
    <3>0. e \in Nat
      BY BoundAssumption DEF TypeOK, Round
    <3>1. CASE e \in pending[s]
      BY <1>0, <1>1, <3>0, <3>1 DEF RoundsOfOneTerm
    <3>2. CASE e = currentTerm'[s] /\ currentTerm[s] < e
      BY <1>1, <2>1, <3>2
    <3> QED
      BY <3>1, <3>2
  <2> QED
    BY <1>0, <2>2, <2>3 DEF RoundsOfOneTerm
<1>4. LeadersElected'
  <2> SUFFICES ASSUME NEW x \in elected
               PROVE  /\ \E Q \in SUBSET Server :
                           /\ x[2] \in Q /\ 2 * Cardinality(Q) > N
                           /\ \A v \in Q \ {x[2]} : Granted(v, x[2], x[1])'
                      /\ Held(x[2], x[2], x[1])'
                      /\ \A c \in Server : ~Granted(x[2], c, x[1])'
    BY DEF LeadersElected, Held
  <2>1. x[1] \in Term /\ x[2] \in Server
    BY <1>0 DEF TypeOK
  <2>2. Held(x[2], x[2], x[1])
    BY <1>0 DEF LeadersElected, Held
  <2>3. Held(x[2], x[2], x[1])'
    BY <1>0, <2>1, <2>2, HeldStays
  <2>4. \A v, c, t : Granted(v, c, t)' <=> Granted(v, c, t)
    BY DEF Granted
  <2> QED
    BY <1>0, <2>3, <2>4 DEF LeadersElected
<1> QED
  BY <1>2, <1>3, <1>4 DEF ElectionInv

-----------------------------------------------------------------------------
(* The steps of an election. *)

(* A round sends its requests once, all with the term it reads. *)
LEMMA StartElectionStep ==
  ASSUME Inv, TypeOK', Monotone, NEW s \in Server, NEW e \in pending[s], startElection(s, e)
  PROVE  ElectionInv'
<1>0. TypeOK /\ VotesHeld /\ RoundsOfOneTerm /\ LeadersElected
  BY DEF Inv, ElectionInv
<1>1. /\ UNCHANGED <<state, currentTerm, votedFor, disk, voters, rvRep, elected>>
      /\ pending' = [pending EXCEPT ![s] = @ \ {e}]
  BY DEF startElection, persisted
<1>2. /\ rvReq \subseteq rvReq'
      /\ \A m \in rvReq' : \/ m \in rvReq
                            \/ /\ m.from = s /\ m.round = e /\ m.term = currentTerm[s]
                               /\ m.to # s
  BY DEF startElection
<1>3. /\ e \in Nat /\ e <= currentTerm[s]
      /\ \A m \in rvReq : m.from = s => m.round # e
  BY <1>0, BoundAssumption DEF TypeOK, Round, RoundsOfOneTerm
<1>4. \A p \in Server : pending'[p] \subseteq pending[p] /\ e \notin pending'[s]
  BY <1>0, <1>1 DEF TypeOK
<1>5. VotesHeld'
  BY <1>0, <1>1 DEF VotesHeld
<1>6. LeadersElected'
  BY <1>0, <1>1 DEF LeadersElected, Granted
<1>7. RoundsOfOneTerm'
  <2>1. \A p \in Server : \A d \in pending'[p] :
          d <= currentTerm'[p] /\ \A m \in rvReq' : m.from = p => m.round # d
    BY <1>0, <1>1, <1>2, <1>3, <1>4 DEF RoundsOfOneTerm
  <2>2. \A m \in rvReq' : m.from # m.to /\ m.round <= currentTerm'[m.from]
    BY <1>0, <1>1, <1>2, <1>3 DEF RoundsOfOneTerm
  <2>3. \A m, n \in rvReq' : m.from = n.from /\ m.round = n.round => m.term = n.term
    BY <1>0, <1>2, <1>3 DEF RoundsOfOneTerm
  <2>4. \A r \in rvRep' : \E m \in rvReq' :
          m.from = r.to /\ m.round = r.round /\ m.term = r.argTerm
    BY <1>0, <1>1, <1>2 DEF RoundsOfOneTerm
  <2> QED
    BY <1>0, <1>1, <2>1, <2>2, <2>3, <2>4 DEF RoundsOfOneTerm
<1> QED
  BY <1>5, <1>6, <1>7 DEF ElectionInv

(* What RequestVote adds: at most one reply, and a granting one only when   *)
(* the voter is left in the request's term with its vote for the sender.    *)
LEMMA RequestVoteEffect ==
  ASSUME Inv, NEW m \in rvReq, RequestVote(m)
  PROVE  /\ rvRep \subseteq rvRep'
         /\ \A r \in rvRep' : \/ r \in rvRep
              \/ /\ r.argTerm = m.term /\ r.from = m.to /\ r.to = m.from /\ r.round = m.round
                 /\ r.granted =>
                     /\ r.term = m.term /\ currentTerm'[m.to] = m.term
                     /\ votedFor'[m.to] = m.from
                     /\ \/ currentTerm[m.to] < m.term
                        \/ currentTerm[m.to] = m.term /\ votedFor[m.to] \in {NULL, m.from}
         /\ Saved
         /\ SelfVote'
         /\ UNCHANGED <<pending, running, voters, rvReq, elected>>
<1>0. TypeOK /\ VotesHeld
  BY DEF Inv, ElectionInv
<1>1. /\ m.to \in Server /\ m.from \in Server /\ m.term \in Nat
      /\ currentTerm[m.to] \in Nat
  BY <1>0, TermNat DEF TypeOK
<1> DEFINE s == m.to
           term == Max2(m.term, currentTerm[s])
           vote == IF m.term > currentTerm[s] THEN NULL ELSE votedFor[s]
           grant == MayVote(s, m) /\ UpToDate(s, m)
           reply == [argTerm |-> m.term, term |-> term, granted |-> grant,
                     from |-> s, to |-> m.from, round |-> m.round]
<1>2. /\ currentTerm' = [currentTerm EXCEPT ![s] = term]
      /\ votedFor' = [votedFor EXCEPT ![s] = IF grant THEN m.from ELSE vote]
      /\ state' = [state EXCEPT ![s] = IF m.term > currentTerm[s] \/ grant THEN Follower ELSE @]
      /\ IF m.term > currentTerm[s] \/ grant THEN persist(s) ELSE UNCHANGED disk
      /\ rvRep' \in {rvRep, rvRep \cup {reply}}
      /\ UNCHANGED <<pending, running, voters, rvReq, elected>>
  BY Zenon DEF RequestVote, rounds
<1>3. grant => /\ term = m.term
               /\ \/ currentTerm[s] < m.term
                  \/ currentTerm[s] = m.term /\ votedFor[s] \in {NULL, m.from}
  BY <1>1 DEF Max2, MayVote
<1>4. grant => currentTerm'[s] = m.term /\ votedFor'[s] = m.from
  BY <1>0, <1>1, <1>2, <1>3 DEF TypeOK
<1>5. reply.granted <=> grant
  OBVIOUS
<1>6. Saved
  <2>1. CASE m.term > currentTerm[s] \/ grant
    <3>1. persist(s)
      BY <1>2, <2>1
    <3>2. \A p \in Server \ {s} : currentTerm'[p] = currentTerm[p] /\ votedFor'[p] = votedFor[p]
      BY <1>0, <1>1, <1>2 DEF TypeOK
    <3> QED
      BY <1>0, <1>1, <3>1, <3>2, PersistSaves
  <2>2. CASE ~(m.term > currentTerm[s] \/ grant)
    <3>1. UNCHANGED disk
      BY <1>2, <2>2
    <3>2. currentTerm' = currentTerm
      BY <1>0, <1>1, <1>2, <2>2 DEF TypeOK, Max2
    <3>3. votedFor' = votedFor
      BY <1>0, <1>1, <1>2, <2>2 DEF TypeOK
    <3> QED
      BY <1>0, <3>1, <3>2, <3>3, UnchangedSaves
  <2> QED
    BY <2>1, <2>2
<1>7. SelfVote'
  <2>1. \A p \in Server \ {s} : state'[p] = state[p] /\ votedFor'[p] = votedFor[p]
    BY <1>0, <1>1, <1>2 DEF TypeOK
  <2>2. state'[s] = Follower \/ (state'[s] = state[s] /\ votedFor'[s] = votedFor[s])
    BY <1>0, <1>1, <1>2 DEF TypeOK
  <2> QED
    BY <1>0, <2>1, <2>2 DEF VotesHeld, SelfVote
<1>8. \A r \in rvRep' : r \in rvRep \/ r = reply
  BY <1>2
<1>9. rvRep \subseteq rvRep'
  BY <1>2
<1> HIDE DEF grant, term, vote
<1> QED
  BY <1>2, <1>3, <1>4, <1>6, <1>7, <1>8, <1>9

(* A voter answers one candidate per term, and no peer that was elected in  *)
(* a term grants a vote of that term.                                       *)
LEMMA RequestVoteStep ==
  ASSUME Inv, TypeOK', Monotone, NEW m \in rvReq, RequestVote(m)
  PROVE  ElectionInv'
<1>0. TypeOK /\ VotesHeld /\ RoundsOfOneTerm /\ LeadersElected
  BY DEF Inv, ElectionInv
<1>1. /\ m.to \in Server /\ m.from \in Server /\ m.term \in Term /\ m.from # m.to
      /\ m.term \in Nat /\ currentTerm[m.to] \in Nat
  <2>1. m.to \in Server /\ m.from \in Server /\ m.term \in Term
    BY <1>0 DEF TypeOK
  <2>2. m.from # m.to
    BY <1>0 DEF RoundsOfOneTerm
  <2>3. currentTerm[m.to] \in Term
    BY <1>0, <2>1 DEF TypeOK
  <2> QED
    BY <2>1, <2>2, <2>3, TermNat
<1> DEFINE
     New(r) == /\ r.argTerm = m.term /\ r.from = m.to /\ r.to = m.from /\ r.round = m.round
               /\ r.granted =>
                     /\ r.term = m.term /\ currentTerm'[m.to] = m.term
                     /\ votedFor'[m.to] = m.from
                     /\ \/ currentTerm[m.to] < m.term
                        \/ currentTerm[m.to] = m.term /\ votedFor[m.to] \in {NULL, m.from}
<1>2. /\ rvRep \subseteq rvRep' /\ Saved /\ SelfVote'
      /\ \A r \in rvRep' : r \in rvRep \/ New(r)
      /\ UNCHANGED <<pending, running, voters, rvReq, elected>>
  BY RequestVoteEffect
<1>3. \A r \in rvRep : /\ r.term \in Term /\ r.from \in Server /\ r.to \in Server
                       /\ r.term \in Nat
  BY <1>0, TermNat DEF TypeOK
<1>4. \A r \in rvRep : r.granted =>
        r.term = r.argTerm /\ r.from # r.to /\ Held(r.from, r.to, r.term)
  BY <1>0 DEF VotesHeld, Held
<1>5. ASSUME NEW r \in rvRep', r.granted, New(r), NEW q \in rvRep, q.granted,
             q.from = r.from, q.term = r.term
      PROVE  q.to = r.to
  <2>1. Held(m.to, q.to, m.term)
    BY <1>4, <1>5
  <2>2. currentTerm[m.to] = m.term /\ votedFor[m.to] = q.to
    BY <1>1, <1>5, <2>1 DEF Held
  <2>3. votedFor[m.to] \in {NULL, m.from}
    BY <1>1, <1>5, <2>2
  <2> QED
    BY <1>3, <1>5, <2>2, <2>3, NullAssumption
<1>6. VotesHeld'
  <2>1. \A r \in rvRep' : r.granted =>
         /\ r.term = r.argTerm /\ r.from # r.to
         /\ \/ currentTerm'[r.from] > r.term
            \/ currentTerm'[r.from] = r.term /\ votedFor'[r.from] = r.to
    <3> SUFFICES ASSUME NEW r \in rvRep', r.granted
                 PROVE  r.term = r.argTerm /\ r.from # r.to /\ Held(r.from, r.to, r.term)'
      BY DEF Held
    <3>1. CASE r \in rvRep
      BY <1>0, <1>3, <1>4, <3>1, HeldStays
    <3>2. CASE New(r)
      BY <1>1, <3>2 DEF Held
    <3> QED
      BY <1>2, <3>1, <3>2
  <2>2. \A q, r \in rvRep' :
          q.granted /\ r.granted /\ q.from = r.from /\ q.term = r.term => q.to = r.to
    <3> SUFFICES ASSUME NEW q \in rvRep', NEW r \in rvRep', q.granted, r.granted,
                        q.from = r.from, q.term = r.term
                 PROVE  q.to = r.to
      OBVIOUS
    <3>1. CASE q \in rvRep /\ r \in rvRep
      BY <1>0, <3>1 DEF VotesHeld
    <3>2. CASE q \in rvRep /\ New(r)
      BY <1>5, <3>2
    <3>3. CASE New(q) /\ r \in rvRep
      BY <1>5, <3>3
    <3>4. CASE New(q) /\ New(r)
      BY <3>4
    <3> QED
      BY <1>2, <3>1, <3>2, <3>3, <3>4
  <2> QED
    BY <1>2, <2>1, <2>2 DEF VotesHeld, Saved, SelfVote
<1>7. RoundsOfOneTerm'
  <2>1. \A p \in Server : currentTerm[p] \in Nat /\ currentTerm'[p] \in Nat
                          /\ currentTerm[p] <= currentTerm'[p]
    BY <1>0, TermNat DEF TypeOK, Monotone
  <2>2. \A n \in rvReq : n.from \in Server /\ n.round \in Nat /\ n.round <= currentTerm[n.from]
    BY <1>0, BoundAssumption DEF TypeOK, RoundsOfOneTerm, Round
  <2>3. \A p \in Server : \A e \in pending'[p] :
          e <= currentTerm'[p] /\ \A n \in rvReq' : n.from = p => n.round # e
    <3>1. \A p \in Server : \A e \in pending[p] : e \in Nat /\ e <= currentTerm[p]
      BY <1>0, BoundAssumption DEF TypeOK, RoundsOfOneTerm, Round
    <3> QED
      BY <1>0, <1>2, <2>1, <3>1 DEF RoundsOfOneTerm
  <2>4. \A n \in rvReq' : n.from # n.to /\ n.round <= currentTerm'[n.from]
    BY <1>0, <1>2, <2>1, <2>2 DEF RoundsOfOneTerm
  <2>5. \A r \in rvRep' : \E n \in rvReq' :
          n.from = r.to /\ n.round = r.round /\ n.term = r.argTerm
    BY <1>0, <1>2 DEF RoundsOfOneTerm
  <2>6. \A s \in Server : \A e \in Round : \A v \in voters'[s][e] :
          \E r \in rvRep' : r.granted /\ r.from = v /\ r.to = s /\ r.round = e
    BY <1>0, <1>2 DEF RoundsOfOneTerm
  <2> QED
    BY <1>0, <1>2, <2>3, <2>4, <2>5, <2>6 DEF RoundsOfOneTerm
<1>8. LeadersElected'
  <2> SUFFICES ASSUME NEW x \in elected
               PROVE  /\ \E Q \in SUBSET Server :
                           /\ x[2] \in Q /\ 2 * Cardinality(Q) > N
                           /\ \A v \in Q \ {x[2]} : Granted(v, x[2], x[1])'
                      /\ Held(x[2], x[2], x[1])'
                      /\ \A c \in Server : ~Granted(x[2], c, x[1])'
    BY <1>2 DEF LeadersElected, Held
  <2>1. x[1] \in Term /\ x[2] \in Server /\ Held(x[2], x[2], x[1])
    BY <1>0 DEF TypeOK, LeadersElected, Held
  <2>2. Held(x[2], x[2], x[1])'
    BY <1>0, <2>1, HeldStays
  <2>3. \A v, c, t : Granted(v, c, t) => Granted(v, c, t)'
    BY <1>2 DEF Granted
  <2>4. \E Q \in SUBSET Server :
          /\ x[2] \in Q /\ 2 * Cardinality(Q) > N
          /\ \A v \in Q \ {x[2]} : Granted(v, x[2], x[1])'
    BY <1>0, <2>3 DEF LeadersElected
  <2>5. ASSUME NEW r \in rvRep', r.granted, r.from = x[2], r.term = x[1] PROVE FALSE
    <3>1. CASE r \in rvRep
      <4>1. r.to \in Server /\ Granted(x[2], r.to, x[1])
        BY <1>3, <2>5, <3>1 DEF Granted
      <4> QED
        BY <1>0, <4>1 DEF LeadersElected
    <3>2. CASE New(r)
      <4>1. Held(m.to, m.to, m.term)
        BY <2>1, <2>5, <3>2
      <4> QED
        BY <1>1, <2>5, <3>2, <4>1, NullAssumption DEF Held
    <3> QED
      BY <1>2, <3>1, <3>2
  <2>6. \A c \in Server : ~Granted(x[2], c, x[1])'
    BY <2>5 DEF Granted
  <2> QED
    BY <2>2, <2>4, <2>6
<1> QED
  BY <1>6, <1>7, <1>8 DEF ElectionInv

(* A candidate and the voters it counted are one more than the voters. *)
LEMMA CandidateAndVoters ==
  ASSUME NEW s \in Server, NEW V \in SUBSET Server, s \notin V,
         1 + Cardinality(V) > N \div 2
  PROVE  2 * Cardinality(V \cup {s}) > N
<1>1. IsFiniteSet(V) /\ IsFiniteSet(Server)
  BY ServerAssumption, FS_Subset
<1>2. Cardinality(V) \in Nat /\ N \in Nat
  BY <1>1, FS_CardinalityType DEF N
<1>3. Cardinality(V \cup {s}) = Cardinality(V) + 1
  BY <1>1, FS_AddElement
<1> QED
  BY <1>2, <1>3

(* A peer becomes leader with a majority of grants of its own term. *)
LEMMA VoteCountedStep ==
  ASSUME Inv, TypeOK', Monotone, NEW r \in rvRep, VoteReplyCounted(r.to, r)
  PROVE  ElectionInv'
<1> DEFINE s == r.to
           mine == IF r.granted THEN voters[s][r.round] \cup {r.from} ELSE voters[s][r.round]
<1>0. TypeOK /\ VotesHeld /\ RoundsOfOneTerm /\ LeadersElected
  BY DEF Inv, ElectionInv
<1>1. /\ s \in Server /\ r.from \in Server /\ r.round \in Round /\ r.argTerm \in Term
      /\ voters[s][r.round] \in SUBSET Server
  BY <1>0 DEF TypeOK
<1>2. /\ UNCHANGED <<currentTerm, votedFor, disk, pending, rvReq, rvRep>>
      /\ state[s] = Candidate /\ currentTerm[s] = r.argTerm
      /\ voters' = [voters EXCEPT ![s][r.round] = mine]
  BY DEF VoteReplyCounted, StillCandidate, persisted, network
<1>3. \/ /\ 1 + Cardinality(mine) > N \div 2
         /\ state' = [state EXCEPT ![s] = Leader]
         /\ elected' = elected \cup {<<currentTerm[s], s>>}
      \/ UNCHANGED <<state, elected>>
  BY DEF VoteReplyCounted, beLeader
<1>4. \A p \in Server : state'[p] # Follower => state[p] # Follower
  BY <1>0, <1>1, <1>2, <1>3 DEF TypeOK
<1>5. VotesHeld'
  BY <1>0, <1>2, <1>4 DEF VotesHeld
<1>6. \A p \in Server : \A e \in Round : \A v \in voters'[p][e] :
        \E q \in rvRep : q.granted /\ q.from = v /\ q.to = p /\ q.round = e
  <2> SUFFICES ASSUME NEW p \in Server, NEW e \in Round, NEW v \in voters'[p][e]
               PROVE  \E q \in rvRep : q.granted /\ q.from = v /\ q.to = p /\ q.round = e
    OBVIOUS
  <2>1. v \in voters[p][e] \/ (p = s /\ e = r.round /\ v \in mine)
    BY <1>0, <1>1, <1>2 DEF TypeOK
  <2>2. v \in voters[p][e] \/ (p = s /\ e = r.round /\ r.granted /\ v = r.from)
    BY <2>1
  <2> QED
    BY <1>0, <2>2 DEF RoundsOfOneTerm
<1>7. RoundsOfOneTerm'
  BY <1>0, <1>2, <1>6 DEF RoundsOfOneTerm
<1>8. \A v, c, t : Granted(v, c, t)' <=> Granted(v, c, t)
  BY <1>2 DEF Granted
<1>9. \A v \in mine : v \in Server /\ v # s /\ Granted(v, s, currentTerm[s])
  <2> SUFFICES ASSUME NEW v \in mine
               PROVE  v \in Server /\ v # s /\ Granted(v, s, currentTerm[s])
    OBVIOUS
  <2>1. PICK q \in rvRep : q.granted /\ q.from = v /\ q.to = s /\ q.round = r.round
    BY <1>0, <1>1 DEF RoundsOfOneTerm
  <2>2. PICK m \in rvReq : m.from = s /\ m.round = r.round /\ m.term = q.argTerm
    BY <1>0, <2>1 DEF RoundsOfOneTerm
  <2>3. PICK n \in rvReq : n.from = s /\ n.round = r.round /\ n.term = r.argTerm
    BY <1>0 DEF RoundsOfOneTerm
  <2>4. q.argTerm = r.argTerm
    BY <1>0, <2>2, <2>3 DEF RoundsOfOneTerm
  <2>5. q.term = q.argTerm /\ q.from # q.to /\ q.from \in Server
    BY <1>0, <2>1 DEF VotesHeld, TypeOK
  <2> QED
    BY <1>2, <2>1, <2>4, <2>5 DEF Granted
<1> HIDE DEF mine
<1>10. LeadersElected'
  <2> SUFFICES ASSUME NEW x \in elected', x \notin elected
               PROVE  /\ \E Q \in SUBSET Server :
                           /\ x[2] \in Q /\ 2 * Cardinality(Q) > N
                           /\ \A v \in Q \ {x[2]} : Granted(v, x[2], x[1])
                      /\ Held(x[2], x[2], x[1])
                      /\ \A c \in Server : ~Granted(x[2], c, x[1])
    BY <1>0, <1>2, <1>8 DEF LeadersElected, Held
  <2>1. x[1] = currentTerm[s] /\ x[2] = s /\ 1 + Cardinality(mine) > N \div 2
    BY <1>3
  <2>2. 2 * Cardinality(mine \cup {s}) > N
    BY <1>1, <1>9, <2>1, CandidateAndVoters
  <2>3. \E Q \in SUBSET Server :
          /\ x[2] \in Q /\ 2 * Cardinality(Q) > N
          /\ \A v \in Q \ {x[2]} : Granted(v, x[2], x[1])
    <3>1. mine \cup {s} \in SUBSET Server
      BY <1>1, <1>9
    <3> WITNESS mine \cup {s} \in SUBSET Server
    <3> QED
      BY <1>9, <2>1, <2>2
  <2>4. votedFor[s] = s
    BY <1>0, <1>1, <1>2 DEF VotesHeld
  <2>5. \A c \in Server : ~Granted(s, c, currentTerm[s])
    <3> SUFFICES ASSUME NEW q \in rvRep, q.granted, q.from = s, q.term = currentTerm[s]
                 PROVE  FALSE
      BY DEF Granted
    <3>1. q.from # q.to /\ Held(s, q.to, currentTerm[s])
      BY <1>0 DEF VotesHeld, Held
    <3>2. currentTerm[s] \in Nat
      BY <1>0, <1>1, TermNat DEF TypeOK
    <3> QED
      BY <2>4, <3>1, <3>2 DEF Held
  <2> QED
    BY <2>1, <2>3, <2>4, <2>5 DEF Held
<1> QED
  BY <1>5, <1>7, <1>10 DEF ElectionInv

-----------------------------------------------------------------------------
(* The invariant is inductive. *)

(* The invariant holds at the start. *)
LEMMA InvInit ==
  Init => Inv
<1> SUFFICES ASSUME Init PROVE Inv
  OBVIOUS
<1> USE DEF Init
<1>1. TypeOK
  BY BoundAssumption DEF TypeOK, Term, FreshDisk
<1>2. VotesHeld
  BY DEF VotesHeld, FreshDisk
<1>3. RoundsOfOneTerm
  BY DEF RoundsOfOneTerm
<1>4. LeadersElected
  BY DEF LeadersElected
<1> QED
  BY <1>1, <1>2, <1>3, <1>4 DEF Inv, ElectionInv

(* Every step keeps it. *)
LEMMA InvStep ==
  Inv /\ [Next]_vars => Inv'
<1> SUFFICES ASSUME Inv, [Next]_vars PROVE Inv'
  OBVIOUS
<1>0. TypeOK /\ VotesHeld /\ RoundsOfOneTerm /\ LeadersElected
  BY DEF Inv, ElectionInv
<1>1. CASE UNCHANGED vars
  <2>1. TypeOK'
    BY <1>0, <1>1 DEF TypeOK, vars, persisted, rounds, network
  <2>2. VotesHeld'
    BY <1>0, <1>1 DEF VotesHeld, vars, persisted, network
  <2>3. RoundsOfOneTerm'
    BY <1>0, <1>1 DEF RoundsOfOneTerm, vars, persisted, rounds, network
  <2>4. LeadersElected'
    BY <1>0, <1>1 DEF LeadersElected, Granted, vars, persisted, network
  <2> QED
    BY <2>1, <2>2, <2>3, <2>4 DEF Inv, ElectionInv
<1>2. CASE Next
  <2>1. TypeOK' /\ Monotone
    BY <1>2, TypeStep, MonotoneStep
  <2>2. ASSUME Quiet, Saved PROVE ElectionInv'
    <3>1. SelfVote'
      BY <1>0, <2>2 DEF VotesHeld, SelfVote, Quiet
    <3> QED
      BY <2>1, <2>2, <3>1, NoNewVotes DEF Quiet, election
  <2>3. ASSUME NEW s \in Server, NEW t \in Term, Bump(s, t), Saved PROVE ElectionInv'
    <3>1. SelfVote'
      BY <1>0, <2>3 DEF TypeOK, VotesHeld, SelfVote, Bump
    <3>2. UNCHANGED election
      BY <2>3 DEF Bump
    <3> QED
      BY <2>1, <2>3, <3>1, <3>2, NoNewVotes DEF election
  <2>4. ASSUME NEW s \in Server, Restart(s) PROVE ElectionInv'
    <3>1. SelfVote'
      BY <1>0, <2>4, RestartKeeps DEF TypeOK, VotesHeld, SelfVote, Restart, RestartVolatile
    <3>2. Saved
      BY <1>0, <2>4, RestartKeeps, UnchangedSaves DEF Restart, RestartVolatile
    <3>3. /\ \A p \in Server : pending'[p] \subseteq pending[p]
          /\ \A p \in Server : \A e \in Round : voters'[p][e] \subseteq voters[p][e]
      BY <1>0, <2>4 DEF TypeOK, Restart, RestartVolatile, readPersist
    <3>4. UNCHANGED <<rvReq, rvRep, elected>>
      BY <2>4 DEF Restart, RestartVolatile, network
    <3> QED
      BY <2>1, <3>1, <3>2, <3>3, <3>4, NoNewVotes
  <2>5. ASSUME NEW s \in Server, beCandidate(s) PROVE ElectionInv'
    <3>1. SelfVote'
      BY <1>0, <2>5 DEF TypeOK, VotesHeld, SelfVote, beCandidate
    <3>2. \A p \in Server \ {s} : currentTerm'[p] = currentTerm[p] /\ votedFor'[p] = votedFor[p]
      BY <1>0, <2>5 DEF TypeOK, beCandidate
    <3>3. Saved
      BY <1>0, <2>5, <3>2, PersistSaves DEF beCandidate
    <3>4. \A p \in Server : \A e \in pending'[p] :
             e \in pending[p] \/ (e = currentTerm'[p] /\ currentTerm[p] < e)
      <4>1. currentTerm'[s] = currentTerm[s] + 1 /\ currentTerm[s] \in Nat
        BY <1>0, <2>5, TermNat DEF TypeOK, beCandidate
      <4>2. \A p \in Server : \A e \in pending'[p] :
              e \in pending[p] \/ (p = s /\ e = currentTerm[s] + 1)
        BY <1>0, <2>5 DEF TypeOK, beCandidate
      <4> QED
        BY <4>1, <4>2
    <3>5. UNCHANGED <<rvReq, rvRep, elected, voters>>
      BY <2>5 DEF beCandidate, network
    <3> QED
      BY <2>1, <3>1, <3>3, <3>4, <3>5, NoNewVotes
  <2>6. ASSUME NEW s \in Server, NEW e \in pending[s], startElection(s, e) PROVE ElectionInv'
    BY <2>1, <2>6, StartElectionStep
  <2>7. ASSUME NEW m \in rvReq, RequestVote(m) PROVE ElectionInv'
    BY <2>1, <2>7, RequestVoteStep
  <2>8. ASSUME NEW r \in rvRep, VoteReplyCounted(r.to, r) PROVE ElectionInv'
    BY <2>1, <2>8, VoteCountedStep
  <2>9. ElectionInv'
    BY <1>2, <2>2, <2>3, <2>4, <2>5, <2>6, <2>7, <2>8, ElectionView
  <2> QED
    BY <2>1, <2>9 DEF Inv
<1> QED
  BY <1>1, <1>2

(* Two majorities share a peer, and that peer's votes decide. *)
LEMMA OneLeaderPerTerm ==
  Inv => ElectionSafety
<1> SUFFICES ASSUME Inv, NEW x \in elected, NEW y \in elected, x[1] = y[1], x[2] # y[2]
             PROVE  FALSE
  BY DEF ElectionSafety
<1>0. TypeOK /\ VotesHeld /\ LeadersElected
  BY DEF Inv, ElectionInv
<1>1. x[2] \in Server /\ y[2] \in Server
  BY <1>0 DEF TypeOK
<1>2. PICK Q \in SUBSET Server :
        /\ x[2] \in Q /\ 2 * Cardinality(Q) > N
        /\ \A v \in Q \ {x[2]} : Granted(v, x[2], x[1])
  BY <1>0 DEF LeadersElected
<1>3. PICK R \in SUBSET Server :
        /\ y[2] \in R /\ 2 * Cardinality(R) > N
        /\ \A v \in R \ {y[2]} : Granted(v, y[2], y[1])
  BY <1>0 DEF LeadersElected
<1>4. PICK v \in Q \cap R : TRUE
  <2>1. IsFiniteSet(Q) /\ IsFiniteSet(R)
    BY ServerAssumption, FS_Subset
  <2>2. Cardinality(Q) \in Nat /\ Cardinality(R) \in Nat /\ Cardinality(Server) \in Nat
    BY <2>1, ServerAssumption, FS_CardinalityType
  <2>3. Cardinality(Q) + Cardinality(R) > Cardinality(Server)
    BY <1>2, <1>3, <2>2 DEF N
  <2>4. Q \cap R # {}
    BY <2>3, ServerAssumption, FS_MajoritiesIntersect
  <2> QED
    BY <2>4
<1>5. CASE v = x[2]
  BY <1>0, <1>1, <1>3, <1>5 DEF LeadersElected
<1>6. CASE v = y[2]
  BY <1>0, <1>1, <1>2, <1>6 DEF LeadersElected
<1>7. CASE v # x[2] /\ v # y[2]
  <2>1. Granted(v, x[2], x[1]) /\ Granted(v, y[2], x[1])
    BY <1>2, <1>3, <1>7
  <2>2. PICK q \in rvRep : q.granted /\ q.from = v /\ q.to = x[2] /\ q.term = x[1]
    BY <2>1 DEF Granted
  <2>3. PICK r \in rvRep : r.granted /\ r.from = v /\ r.to = y[2] /\ r.term = x[1]
    BY <2>1 DEF Granted
  <2>4. q.to = r.to
    BY <1>0, <2>2, <2>3 DEF VotesHeld
  <2> QED
    BY <2>2, <2>3, <2>4
<1> QED
  BY <1>5, <1>6, <1>7

-----------------------------------------------------------------------------
(* Theorems. *)

(* Every reachable state has the shape TypeOK gives and satisfies the       *)
(* invariant that explains the elections (beCandidate, startElection,       *)
(* RequestVote, beLeader, readPersist).                                     *)
THEOREM ElectionInvariant ==
  Spec => [](TypeOK /\ ElectionInv)
<1>1. Spec => []Inv
  BY InvInit, InvStep, PTL DEF Spec
<1> QED
  BY <1>1, PTL DEF Inv

(* At most one peer becomes leader of a term: for any number of peers, any  *)
(* interleaving of vote rounds, lost or late replies, and any crashes.      *)
THEOREM ElectionSafetyHolds ==
  Spec => []ElectionSafety
<1>1. Spec => []Inv
  BY InvInit, InvStep, PTL DEF Spec
<1> QED
  BY <1>1, OneLeaderPerTerm, PTL

(* Terms never decrease and a vote is never changed within its term, also   *)
(* across a crash and readPersist.                                          *)
THEOREM VoteOnceHolds ==
  Spec => VoteOnce
<1>1. Spec => []Inv
  BY InvInit, InvStep, PTL DEF Spec
<1>2. Inv /\ [Next]_vars =>
        [\A s \in Server :
           /\ currentTerm[s] <= currentTerm'[s]
           /\ currentTerm[s] = currentTerm'[s] /\ votedFor[s] # NULL
                => votedFor'[s] = votedFor[s]]_vars
  BY MonotoneStep DEF Monotone
<1> QED
  BY <1>1, <1>2, PTL DEF Spec, VoteOnce

-----------------------------------------------------------------------------
(* The logs: what the parts of LabRaftLog say, and that the steps of        *)
(* candidates and leaders keep them.                                        *)



-----------------------------------------------------------------------------
(* Numbers and majorities. *)

(* Terms are numbers. *)
LEMMA TermOrder ==
  \A t \in Term : t \in Nat /\ t <= t /\ t \in 0 .. t
<1> TAKE t \in Term
<1>1. t \in Nat
  BY TermNat
<1> QED
  BY <1>1

(* A set of natural numbers that is not empty has a least one. *)
LEMMA LeastNat ==
  ASSUME NEW T, T \subseteq Nat, T # {}
  PROVE  \E x \in T : \A y \in T : x <= y
<1>1. PICK x \in T : \A y \in T : <<y, x>> \notin OpToRel(<, Nat)
  BY WFMin, NatLessThanWellFounded, Zenon
<1>2. \A y \in T : ~(y < x)
  BY <1>1 DEF OpToRel
<1> QED
  BY <1>2

(* A bounded one has a greatest. *)
LEMMA GreatestNat ==
  ASSUME NEW T, T \subseteq Nat, T # {}, NEW b \in Nat, \A x \in T : x <= b
  PROVE  \E x \in T : \A y \in T : y <= x
<1> DEFINE D == {d \in Nat : b - d \in T}
<1>1. D \subseteq Nat /\ D # {}
  <2>1. PICK x \in T : TRUE
    OBVIOUS
  <2>2. b - x \in Nat /\ b - (b - x) = x
    OBVIOUS
  <2> QED
    BY <2>2
<1>2. PICK d \in D : \A e \in D : d <= e
  BY <1>1, LeastNat
<1>3. \A y \in T : b - y \in D
  <2> TAKE y \in T
  <2>1. b - y \in Nat /\ b - (b - y) = y
    OBVIOUS
  <2> QED
    BY <2>1
<1>4. b - d \in T /\ d \in Nat
  OBVIOUS
<1>5. \A y \in T : d <= b - y
  BY <1>2, <1>3
<1> HIDE DEF D
<1>6. \A y \in T : y <= b - d
  BY <1>4, <1>5
<1> QED
  BY <1>4, <1>6

(* Two majorities share a peer. *)
LEMMA MajoritiesMeet ==
  ASSUME NEW Q, NEW R, Majority(Q), Majority(R)
  PROVE  \E v \in Q \cap R : v \in Server
<1>1. IsFiniteSet(Q) /\ IsFiniteSet(R)
  BY ServerAssumption, FS_Subset DEF Majority
<1>2. Cardinality(Q) \in Nat /\ Cardinality(R) \in Nat /\ Cardinality(Server) \in Nat
  BY <1>1, ServerAssumption, FS_CardinalityType
<1>3. Cardinality(Q) + Cardinality(R) > Cardinality(Server)
  BY <1>2 DEF N, Majority
<1>4. Q \cap R # {}
  BY <1>3, ServerAssumption, FS_MajoritiesIntersect DEF Majority
<1> QED
  BY <1>4 DEF Majority

(* What may never be committed is not. *)
LEMMA CommittedNotBlocked ==
  ASSUME NEW t, NEW i, Committed(t, i)
  PROVE  ~Blocked(t, i)
BY MajoritiesMeet DEF Committed, Blocked

-----------------------------------------------------------------------------
(* The logs of the leaders. *)

(* Terms and lengths are numbers. *)
LEMMA LeaderLogType ==
  ASSUME LogTypeOK, NEW t \in Term
  PROVE  /\ t \in Nat /\ leaderLog[t] \in Seq(Entry) /\ Len(leaderLog[t]) \in Nat
         /\ \A i \in 1 .. Len(leaderLog[t]) : leaderLog[t][i] \in Entry /\ leaderLog[t][i].term \in Nat
<1>1. t \in Nat /\ leaderLog[t] \in Seq(Entry)
  BY TermNat DEF LogTypeOK
<1>2. \A i \in 1 .. Len(leaderLog[t]) : leaderLog[t][i] \in Entry
  BY <1>1, ElementOfSeq
<1> QED
  BY <1>1, <1>2 DEF Entry

(* Log matching among leaders: the same term at an index, the same log up to it. *)
LEMMA SameTermSameLog ==
  ASSUME LeaderLogs, NEW t \in Term, NEW u \in Term, NEW i, NEW k, At(t, i, k), At(u, i, k)
  PROVE  \A j \in 1 .. i : leaderLog[t][j] = leaderLog[u][j]
BY SMTT(30) DEF LeaderLogs, At

(* The entry of term k that another leader has is where the leader of k put it. *)
LEMMA AtItsOwn ==
  ASSUME LogTypeOK, LeaderLogs, NEW t \in Term, NEW i, NEW k, At(t, i, k)
  PROVE  /\ k \in Term /\ k \in 1 .. t /\ At(k, i, k)
         /\ \A j \in 1 .. i : leaderLog[t][j] = leaderLog[k][j]
<1>1. k \in 1 .. t /\ At(k, i, k)
  BY DEF LeaderLogs, At
<1>2. k \in Term
  BY <1>1, BoundAssumption, TermNat DEF Term
<1> QED
  BY <1>1, <1>2, SameTermSameLog

(* A term with a log has a leader. *)
LEMMA LogHasLeader ==
  ASSUME LogTypeOK, LeaderLogs, NEW t \in Term, NEW i, NEW k, At(t, i, k)
  PROVE  \E l \in Server : <<t, l>> \in elected
<1>1. Len(leaderLog[t]) > 0
  BY LeaderLogType DEF At
<1> QED
  BY <1>1 DEF LeaderLogs

(* A leader of a term has what was committed in a term up to it. *)
LEMMA CommittedInLeader ==
  ASSUME LogTypeOK, LeaderLogs, LeadersComplete,
         NEW t \in Term, NEW l, <<t, l>> \in elected,
         NEW k \in 0 .. t, NEW i, Committed(k, i)
  PROVE  /\ At(t, i, k)
         /\ \A j \in 1 .. i : j \in 1 .. Len(leaderLog[t]) /\ leaderLog[t][j] = leaderLog[k][j]
<1>1. At(k, i, k) /\ k \in Term /\ t \in Nat
  BY BoundAssumption, TermNat DEF Committed, Term
<1>2. At(t, i, k)
  <2>1. CASE k = t
    BY <1>1, <2>1
  <2>2. CASE k # t
    <3>1. k \in 0 .. t - 1
      BY <1>1, <2>2
    <3>2. Complete(<<t, l>>)
      BY DEF LeadersComplete
    <3> QED
      BY <1>1, <3>1, <3>2, CommittedNotBlocked DEF Complete, At
  <2> QED
    BY <2>1, <2>2
<1>3. i \in 1 .. Len(leaderLog[t]) /\ Len(leaderLog[t]) \in Nat
  BY <1>2, LeaderLogType DEF At
<1> QED
  BY <1>1, <1>2, <1>3, SameTermSameLog

(* So a leader has every safe beginning. *)
LEMMA SafeInLeader ==
  ASSUME LogTypeOK, LeaderLogs, LeadersComplete,
         NEW t \in Term, NEW l, <<t, l>> \in elected,
         NEW x \in Seq(Entry), NEW u \in 0 .. t, Safe(x, u)
  PROVE  \A j \in 1 .. Len(x) : j \in 1 .. Len(leaderLog[t]) /\ x[j] = leaderLog[t][j]
<1> SUFFICES ASSUME NEW j \in 1 .. Len(x)
             PROVE  j \in 1 .. Len(leaderLog[t]) /\ x[j] = leaderLog[t][j]
  OBVIOUS
<1>1. t \in Nat /\ u \in Nat /\ u <= t /\ Len(x) \in Nat /\ Len(x) > 0
  BY TermNat, LenProperties
<1>2. PICK k \in 0 .. u : \E i \in 1 .. Len(leaderLog[k]) :
        /\ Committed(k, i) /\ Len(x) <= i
        /\ \A h \in 1 .. Len(x) : x[h] = leaderLog[k][h]
  BY <1>1 DEF Safe
<1>3. PICK i \in 1 .. Len(leaderLog[k]) :
        /\ Committed(k, i) /\ Len(x) <= i
        /\ \A h \in 1 .. Len(x) : x[h] = leaderLog[k][h]
  BY <1>2
<1>4. k \in 0 .. t /\ i \in Nat
  BY <1>1, <1>2, <1>3
<1>5. j \in 1 .. i
  BY <1>1, <1>3, <1>4
<1> QED
  BY SMTT(30), <1>3, <1>4, <1>5, CommittedInLeader

(* Two safe beginnings agree. *)
LEMMA SafeAgree ==
  ASSUME LogTypeOK, LeaderLogs, LeadersComplete,
         NEW x \in Seq(Entry), NEW t \in Term, Safe(x, t),
         NEW y \in Seq(Entry), NEW u \in Term, Safe(y, u)
  PROVE  \A j \in 1 .. Len(x) : j <= Len(y) => x[j] = y[j]
<1> SUFFICES ASSUME NEW j \in 1 .. Len(x), j <= Len(y)
             PROVE  x[j] = y[j]
  OBVIOUS
<1>1. /\ t \in Nat /\ u \in Nat /\ Len(x) \in Nat /\ Len(x) > 0 /\ Len(y) \in Nat /\ Len(y) > 0
      /\ j \in 1 .. Len(y)
  BY TermNat, LenProperties
<1>2. PICK k \in 0 .. t, i \in Nat :
        /\ Committed(k, i) /\ Len(x) <= i
        /\ \A h \in 1 .. Len(x) : x[h] = leaderLog[k][h]
  BY SMTT(30), <1>1 DEF Safe
<1>3. PICK m \in 0 .. u, n \in Nat :
        /\ Committed(m, n) /\ Len(y) <= n
        /\ \A h \in 1 .. Len(y) : y[h] = leaderLog[m][h]
  BY <1>1 DEF Safe
<1>4. k \in Term /\ m \in Term /\ j \in 1 .. i /\ j \in 1 .. n
  BY <1>1, <1>2, <1>3, BoundAssumption DEF Term
<1>5. At(k, i, k) /\ At(m, n, m)
  BY <1>2, <1>3 DEF Committed
<1>6. (\E l : <<k, l>> \in elected) /\ (\E l : <<m, l>> \in elected)
  BY <1>4, <1>5, LogHasLeader
<1>7. k \in 0 .. m \/ m \in 0 .. k
  BY <1>2, <1>3
<1>8. leaderLog[k][j] = leaderLog[m][j]
  <2>1. CASE k \in 0 .. m
    BY <1>2, <1>3, <1>4, <1>6, <2>1, CommittedInLeader
  <2>2. CASE m \in 0 .. k
    BY <1>2, <1>3, <1>4, <1>6, <2>2, CommittedInLeader
  <2> QED
    BY <1>7, <2>1, <2>2
<1> QED
  BY <1>1, <1>2, <1>3, <1>8

-----------------------------------------------------------------------------
(* What every step does to the common history. *)

(* A step of peer s: terms grow, s may win its term or add to the log of    *)
(* that term, and s may acknowledge what the leader of its term has.        *)
Grow(s) ==
  /\ \A q \in Server : currentTerm[q] <= currentTerm'[q]
  /\ elected \subseteq elected' /\ elected' \subseteq elected \cup {<<currentTerm[s], s>>}
  /\ \A t \in Term :
       \/ leaderLog'[t] = leaderLog[t]
       \/ /\ t = currentTerm[s] /\ <<t, s>> \in elected'
          /\ Len(leaderLog[t]) <= Len(leaderLog'[t])
          /\ \A i \in 1 .. Len(leaderLog[t]) : leaderLog'[t][i] = leaderLog[t][i]
  /\ aeRep \subseteq aeRep'
  /\ \A r \in aeRep' : r \in aeRep \/ ~r.success \/ (r.from = s /\ r.argTerm = currentTerm'[s])
  /\ rvReq \subseteq rvReq'

(* The invariant of LabRaftProofs and that of LabRaftLog. *)
FullInv == Inv /\ LogInv

(* Logs of leaders only grow: an entry once written stays where it is. *)
LEMMA AtStays ==
  ASSUME LogTypeOK, LogTypeOK', NEW s \in Server, Grow(s), NEW t \in Term
  PROVE  /\ Len(leaderLog[t]) <= Len(leaderLog'[t])
         /\ \A i \in 1 .. Len(leaderLog[t]) : leaderLog'[t][i] = leaderLog[t][i]
         /\ \A i, k : At(t, i, k) => At(t, i, k)'
<1>1. /\ Len(leaderLog[t]) \in Nat /\ Len(leaderLog'[t]) \in Nat
  BY LenProperties DEF LogTypeOK
<1>2. /\ Len(leaderLog[t]) <= Len(leaderLog'[t])
      /\ \A i \in 1 .. Len(leaderLog[t]) : leaderLog'[t][i] = leaderLog[t][i]
  <2>1. CASE leaderLog'[t] = leaderLog[t]
    BY <1>1, <2>1
  <2>2. CASE leaderLog'[t] # leaderLog[t]
    BY <2>2 DEF Grow
  <2> QED
    BY <2>1, <2>2
<1> QED
  BY <1>1, <1>2 DEF At

(* An acknowledgement is never taken back. *)
LEMMA AckedStays ==
  ASSUME NEW s \in Server, Grow(s), NEW q, NEW t, NEW i, Acked(q, t, i)
  PROVE  Acked(q, t, i)'
BY DEF Acked, Grow

(* Only the peer that steps acknowledges anything new, and only in a term   *)
(* it had not passed.                                                       *)
LEMMA AckedNew ==
  ASSUME TypeOK, NEW s \in Server, Grow(s), NEW q, NEW t, NEW i, Acked(q, t, i)'
  PROVE  Acked(q, t, i) \/ (q = s /\ currentTerm[s] <= t)
<1>0. currentTerm[s] \in Nat
  BY TermNat DEF TypeOK
<1>1. currentTerm[s] <= currentTerm'[s] /\ currentTerm[s] <= currentTerm[s]
  BY <1>0 DEF Grow
<1>2. CASE <<t, q>> \in elected'
  BY <1>1, <1>2 DEF Acked, Grow
<1>3. CASE \E r \in aeRep' : r.success /\ r.from = q /\ r.argTerm = t /\ r.match >= i
  BY <1>1, <1>3 DEF Acked, Grow
<1> QED
  BY <1>2, <1>3 DEF Acked

(* What a majority is past acknowledging stays so: terms only rise, and a   *)
(* new acknowledgement is for a term not passed.                            *)
LEMMA BlockedStays ==
  ASSUME TypeOK, TypeOK', NEW s \in Server, Grow(s), NEW t \in Term, NEW i, Blocked(t, i)
  PROVE  Blocked(t, i)'
<1>1. PICK Q \in SUBSET Server :
        Majority(Q) /\ \A q \in Q : currentTerm[q] > t /\ ~Acked(q, t, i)
  BY DEF Blocked
<1>2. t \in Nat /\ \A q \in Server : currentTerm[q] \in Nat /\ currentTerm'[q] \in Nat
  BY TermNat DEF TypeOK
<1>3. \A q \in Q : currentTerm'[q] > t
  BY <1>1, <1>2 DEF Grow
<1>4. \A q \in Q : ~Acked(q, t, i)'
  BY <1>1, <1>2, AckedNew
<1>5. Majority(Q)'
  BY <1>1 DEF Majority, N
<1> QED
  BY <1>3, <1>4, <1>5 DEF Blocked

(* What is committed stays committed. *)
LEMMA CommittedStays ==
  ASSUME LogTypeOK, LogTypeOK', NEW s \in Server, Grow(s), NEW t \in Term, NEW i, Committed(t, i)
  PROVE  Committed(t, i)'
<1>1. PICK Q \in SUBSET Server : Majority(Q) /\ \A q \in Q : Acked(q, t, i)
  BY DEF Committed
<1>2. Majority(Q)' /\ \A q \in Q : Acked(q, t, i)'
  BY <1>1, AckedStays DEF Majority, N
<1>3. At(t, i, t)'
  BY AtStays DEF Committed
<1> QED
  BY <1>2, <1>3 DEF Committed

(* A committed beginning stays one, in every later term. *)
LEMMA SafeStays ==
  ASSUME LogTypeOK, LogTypeOK', NEW s \in Server, Grow(s),
         NEW x \in Seq(Entry), NEW t \in Term, NEW u \in Term, t <= u, Safe(x, t)
  PROVE  Safe(x, u)'
<1> SUFFICES ASSUME Len(x) > 0
             PROVE  \E k \in 0 .. u : \E i \in 1 .. Len(leaderLog'[k]) :
                      /\ Committed(k, i)' /\ Len(x) <= i
                      /\ \A j \in 1 .. Len(x) : x[j] = leaderLog'[k][j]
  BY DEF Safe
<1>0. PICK k \in 0 .. t : \E i \in 1 .. Len(leaderLog[k]) :
        /\ Committed(k, i) /\ Len(x) <= i
        /\ \A j \in 1 .. Len(x) : x[j] = leaderLog[k][j]
  BY DEF Safe
<1>1. PICK i \in 1 .. Len(leaderLog[k]) :
        /\ Committed(k, i) /\ Len(x) <= i
        /\ \A j \in 1 .. Len(x) : x[j] = leaderLog[k][j]
  BY <1>0
<1>2. k \in Term /\ k \in 0 .. u /\ Len(x) \in Nat
  BY TermNat, BoundAssumption, LenProperties DEF Term
<1>3. Len(leaderLog[k]) \in Nat /\ Len(leaderLog'[k]) \in Nat
  BY <1>2, LenProperties DEF LogTypeOK
<1>4. i \in 1 .. Len(leaderLog'[k]) /\ Committed(k, i)'
  BY <1>1, <1>2, <1>3, AtStays, CommittedStays
<1>5. \A j \in 1 .. Len(x) : x[j] = leaderLog'[k][j]
  BY <1>1, <1>2, <1>3, AtStays
<1> QED
  BY <1>1, <1>2, <1>4, <1>5

(* A piece of the log of a leader stays one. *)
LEMMA PieceStays ==
  ASSUME LogTypeOK, LogTypeOK', NEW s \in Server, Grow(s),
         NEW t, NEW base \in Nat, NEW x \in Seq(Entry), Len(x) > 0, PieceOf(t, base, x)
  PROVE  PieceOf(t, base, x)'
<1>1. t \in Term /\ Len(x) \in Nat
  BY LenProperties DEF PieceOf
<1>2. Len(leaderLog[t]) \in Nat /\ Len(leaderLog'[t]) \in Nat
  BY <1>1, LenProperties DEF LogTypeOK
<1>3. /\ Len(leaderLog[t]) <= Len(leaderLog'[t])
      /\ \A i \in 1 .. Len(leaderLog[t]) : leaderLog'[t][i] = leaderLog[t][i]
  BY <1>1, AtStays
<1>4. base + Len(x) - 1 <= Len(leaderLog'[t])
  BY <1>1, <1>2, <1>3 DEF PieceOf
<1>5. base # 0 => leaderLog'[t][base] = leaderLog[t][base]
  BY <1>1, <1>2, <1>3 DEF PieceOf
<1>6. \A i \in base + 1 .. base + Len(x) - 1 : leaderLog'[t][i] = leaderLog[t][i]
  BY <1>1, <1>2, <1>3 DEF PieceOf
<1> QED
  BY <1>1, <1>4, <1>5, <1>6 DEF PieceOf

(* An acknowledgement that counts is old, but for what s writes in its own  *)
(* term: a leader that appends does so before anybody acknowledges it.      *)
LEMMA AckIsOld ==
  ASSUME TypeOK, LogTypeOK, LogTypeOK', MessagesFromLeaders, ElectionSafety',
         NEW s \in Server, Grow(s), NEW q \in Server, NEW t \in Term, NEW i,
         q # s \/ t < currentTerm[s], At(t, i, t)', Acked(q, t, i)'
  PROVE  At(t, i, t) /\ Acked(q, t, i)
<1>1. t \in Nat /\ currentTerm[s] \in Nat
  BY TermNat DEF TypeOK
<1>2. Acked(q, t, i)
  BY <1>1, AckedNew
<1>3. CASE leaderLog'[t] = leaderLog[t]
  BY <1>2, <1>3 DEF At
<1>4. CASE leaderLog'[t] # leaderLog[t]
  <2>1. /\ t = currentTerm[s] /\ <<t, s>> \in elected' /\ q # s
        /\ \A j \in 1 .. Len(leaderLog[t]) : leaderLog'[t][j] = leaderLog[t][j]
    BY <1>1, <1>4 DEF Grow
  <2>2. <<t, q>> \notin elected
    BY <2>1 DEF Grow, ElectionSafety
  <2>3. PICK r \in aeRep : r.success /\ r.from = q /\ r.argTerm = t /\ r.match >= i
    BY <1>2, <2>2 DEF Acked
  <2>4. r.match <= Len(leaderLog[t]) /\ r.match \in Nat
    BY <2>3 DEF MessagesFromLeaders, AnswersLeader, LogTypeOK
  <2>5. i \in 1 .. Len(leaderLog'[t]) /\ leaderLog'[t][i].term = t
    BY DEF At
  <2>6. Len(leaderLog[t]) \in Nat
    BY LeaderLogType
  <2>7. i \in 1 .. Len(leaderLog[t])
    BY <2>3, <2>4, <2>5, <2>6
  <2> QED
    BY <1>2, <2>1, <2>5, <2>7 DEF At
<1> QED
  BY <1>3, <1>4

-----------------------------------------------------------------------------
(* What the history says of old leaders and old messages stays true. *)

(* What a leader lacks of an earlier term is never committed: its voters    *)
(* had not acknowledged it and no longer will.                              *)
LEMMA CompleteStays ==
  ASSUME FullInv, TypeOK', LogTypeOK', ElectionSafety',
         NEW s \in Server, Grow(s), NEW x \in elected
  PROVE  Complete(x)'
<1>0. /\ TypeOK /\ LogTypeOK /\ VotesHeld /\ LeadersElected
      /\ LeadersComplete /\ MessagesFromLeaders
  BY DEF FullInv, Inv, LogInv, ElectionInv
<1> SUFFICES ASSUME NEW t \in 0 .. x[1] - 1, NEW i, At(t, i, t)'
             PROVE  At(x[1], i, t)' \/ Blocked(t, i)'
  BY DEF Complete
<1>1. x[1] \in Term /\ x[2] \in Server /\ t \in Term /\ t \in Nat /\ t < x[1]
  <2>1. x[1] \in Term /\ x[2] \in Server
    BY <1>0 DEF TypeOK
  <2> QED
    BY <2>1, BoundAssumption DEF Term
<1>2. CASE At(t, i, t)
  <2>1. At(x[1], i, t) \/ Blocked(t, i)
    BY <1>0, <1>2 DEF LeadersComplete, Complete, At
  <2> QED
    BY <1>0, <1>1, <2>1, AtStays, BlockedStays
<1>3. CASE ~At(t, i, t)
  <2>1. t = currentTerm[s]
    BY <1>1, <1>3 DEF Grow, At
  <2>2. PICK Q \in SUBSET Server :
          /\ x[2] \in Q /\ 2 * Cardinality(Q) > N
          /\ \A v \in Q \ {x[2]} : Granted(v, x[2], x[1])
    BY <1>0 DEF LeadersElected
  <2>3. \A v \in Q : v \in Server /\ currentTerm[v] \in Nat /\ currentTerm[v] >= x[1]
    <3>1. \A v \in Server : currentTerm[v] \in Nat
      BY <1>0, TermNat DEF TypeOK
    <3>2. x[1] \in Nat
      BY <1>1, TermNat
    <3>3. currentTerm[x[2]] >= x[1]
      BY <1>0, <1>1, <3>1, <3>2 DEF LeadersElected
    <3>4. \A v \in Q \ {x[2]} : currentTerm[v] >= x[1]
      BY <1>0, <2>2, <3>1, <3>2 DEF Granted, VotesHeld
    <3> QED
      BY <3>1, <3>3, <3>4
  <2>4. x[1] \in Nat
    BY <1>1, TermNat
  <2>5. \A v \in Q : v # s /\ currentTerm'[v] > t
    <3>1. \A v \in Q : v # s /\ currentTerm[v] > t
      BY <1>1, <2>1, <2>3, <2>4
    <3>2. \A v \in Server : currentTerm'[v] \in Nat /\ currentTerm[v] <= currentTerm'[v]
      BY TermNat DEF TypeOK, Grow
    <3> QED
      BY <1>1, <2>3, <3>1, <3>2
  <2>6. \A v \in Q : ~Acked(v, t, i)'
    BY <1>0, <1>1, <1>3, <2>3, <2>5, AckIsOld
  <2>7. Majority(Q)'
    BY <2>2 DEF Majority, N
  <2> QED
    BY <2>5, <2>6, <2>7 DEF Blocked
<1> QED
  BY <1>2, <1>3

(* A voter acknowledges nothing more in the terms before its vote. *)
LEMMA KnowsAcksStays ==
  ASSUME FullInv, TypeOK', LogTypeOK', ElectionSafety',
         NEW s \in Server, Grow(s), NEW r \in rvRep
  PROVE  KnowsAcks(r)'
<1>0. TypeOK /\ LogTypeOK /\ VotesHeld /\ VotesKnowAcks /\ MessagesFromLeaders
  BY DEF FullInv, Inv, LogInv, ElectionInv
<1> SUFFICES ASSUME r.granted
             PROVE  \E m \in rvReq' :
                      /\ m.from = r.to /\ m.round = r.round /\ m.term = r.term
                      /\ \A t \in 0 .. r.term - 1 : \A i \in 1 .. Len(leaderLog'[t]) :
                           At(t, i, t)' /\ Acked(r.from, t, i)' =>
                             \/ i <= m.lastLogIndex /\ At(m.lastLogTerm, i, t)'
                             \/ Blocked(t, i)'
  BY DEF KnowsAcks
<1>1. PICK m \in rvReq :
        /\ m.from = r.to /\ m.round = r.round /\ m.term = r.term
        /\ \A t \in 0 .. r.term - 1 : \A i \in 1 .. Len(leaderLog[t]) :
             At(t, i, t) /\ Acked(r.from, t, i) =>
               \/ i <= m.lastLogIndex /\ At(m.lastLogTerm, i, t)
               \/ Blocked(t, i)
  BY <1>0 DEF VotesKnowAcks, KnowsAcks
<1>2. r.term \in Term /\ r.term \in Nat /\ r.from \in Server /\ currentTerm[r.from] \in Nat
  BY <1>0, TermNat DEF TypeOK
<1>3. currentTerm[r.from] >= r.term
  BY <1>0, <1>2 DEF VotesHeld
<1>4. ASSUME NEW t \in 0 .. r.term - 1, NEW i, At(t, i, t)', Acked(r.from, t, i)'
      PROVE  \/ i <= m.lastLogIndex /\ At(m.lastLogTerm, i, t)'
             \/ Blocked(t, i)'
  <2>1. t \in Term /\ t < currentTerm[r.from]
    BY <1>2, <1>3, BoundAssumption DEF Term
  <2>2. At(t, i, t) /\ Acked(r.from, t, i)
    BY <1>0, <1>2, <1>4, <2>1, AckIsOld
  <2>3. \/ i <= m.lastLogIndex /\ At(m.lastLogTerm, i, t)
        \/ Blocked(t, i)
    BY <1>1, <2>2 DEF At
  <2>4. m.lastLogTerm \in Term
    BY <1>0 DEF VotesKnowAcks, NamesLog
  <2> QED
    BY <1>0, <2>1, <2>3, <2>4, AtStays, BlockedStays
<1>5. m \in rvReq'
  BY DEF Grow
<1> QED
  BY <1>1, <1>4, <1>5

(* The beginning of a log is the beginning of any log that extends it. *)
LEMMA BeginningStays ==
  ASSUME LogTypeOK, LogTypeOK', NEW s \in Server, Grow(s), NEW t \in Term,
         NEW n \in Nat, n <= Len(leaderLog[t])
  PROVE  /\ SubSeq(leaderLog'[t], 1, n) = SubSeq(leaderLog[t], 1, n)
         /\ SubSeq(leaderLog[t], 1, n) \in Seq(Entry)
<1>1. /\ leaderLog[t] \in Seq(Entry) /\ leaderLog'[t] \in Seq(Entry)
      /\ Len(leaderLog[t]) \in Nat
  BY LenProperties DEF LogTypeOK
<1>2. \A i \in 1 .. n : leaderLog'[t][i] = leaderLog[t][i] /\ leaderLog[t][i] \in Entry
  BY <1>1, AtStays, ElementOfSeq
<1>3. /\ SubSeq(leaderLog[t], 1, n) \in Seq(Entry) /\ Len(SubSeq(leaderLog[t], 1, n)) = n
      /\ \A i \in 1 .. n : SubSeq(leaderLog[t], 1, n)[i] = leaderLog[t][i]
  BY <1>2, SubSeqProperties
<1>4. /\ SubSeq(leaderLog'[t], 1, n) \in Seq(Entry) /\ Len(SubSeq(leaderLog'[t], 1, n)) = n
      /\ \A i \in 1 .. n : SubSeq(leaderLog'[t], 1, n)[i] = leaderLog'[t][i]
  BY <1>2, SubSeqProperties
<1> QED
  BY <1>2, <1>3, <1>4, SeqEqual

(* An AppendEntries on its way still carries a piece of its leader's log. *)
LEMMA AppendFromLeaderStays ==
  ASSUME LogTypeOK, LogTypeOK', NEW s \in Server, Grow(s),
         NEW m, m.term \in Term, m.prevLogIndex \in Nat, m.entries \in Seq(Entry),
         m.leaderCommit \in Nat, AppendFromLeader(m)
  PROVE  AppendFromLeader(m)'
<1>1. LogTypeOK /\ AppendFromLeader(m)
  OBVIOUS
<1>2. /\ m.term \in Term /\ m.prevLogIndex \in Nat /\ Len(m.entries) \in Nat /\ m.leaderCommit \in Nat
      /\ Len(leaderLog[m.term]) \in Nat /\ Len(leaderLog'[m.term]) \in Nat
  BY LenProperties DEF LogTypeOK
<1>3. /\ Len(leaderLog[m.term]) <= Len(leaderLog'[m.term])
      /\ \A i \in 1 .. Len(leaderLog[m.term]) : leaderLog'[m.term][i] = leaderLog[m.term][i]
  BY <1>1, <1>2, AtStays
<1>4. /\ m.prevLogIndex + Len(m.entries) <= Len(leaderLog'[m.term])
      /\ m.prevLogTerm = IF m.prevLogIndex = 0 THEN 0 ELSE leaderLog'[m.term][m.prevLogIndex].term
      /\ \A k \in 1 .. Len(m.entries) : m.entries[k] = leaderLog'[m.term][m.prevLogIndex + k]
  <2>1. m.prevLogIndex + Len(m.entries) <= Len(leaderLog[m.term])
    BY <1>1 DEF AppendFromLeader
  <2>2. m.prevLogIndex # 0 => m.prevLogIndex \in 1 .. Len(leaderLog[m.term])
    BY <1>2, <2>1
  <2>3. \A k \in 1 .. Len(m.entries) : m.prevLogIndex + k \in 1 .. Len(leaderLog[m.term])
    BY SMTT(30), <1>2, <2>1
  <2>4. /\ m.prevLogTerm = IF m.prevLogIndex = 0 THEN 0 ELSE leaderLog[m.term][m.prevLogIndex].term
        /\ \A k \in 1 .. Len(m.entries) : m.entries[k] = leaderLog[m.term][m.prevLogIndex + k]
    BY <1>1 DEF AppendFromLeader
  <2>5. m.prevLogIndex + Len(m.entries) <= Len(leaderLog'[m.term])
    BY SMTT(30), <1>2, <1>3, <2>1
  <2>6. m.prevLogTerm = IF m.prevLogIndex = 0 THEN 0 ELSE leaderLog'[m.term][m.prevLogIndex].term
    BY <1>3, <2>2, <2>4
  <2>7. \A k \in 1 .. Len(m.entries) : m.entries[k] = leaderLog'[m.term][m.prevLogIndex + k]
    BY <1>3, <2>3, <2>4
  <2> QED
    BY <2>5, <2>6, <2>7
<1>5. Safe(SubSeq(leaderLog[m.term], 1, m.leaderCommit), m.term)'
  <2>1. m.leaderCommit <= Len(leaderLog[m.term])
    BY SMTT(30), <1>1, <1>2 DEF AppendFromLeader
  <2>2. /\ SubSeq(leaderLog'[m.term], 1, m.leaderCommit) = SubSeq(leaderLog[m.term], 1, m.leaderCommit)
        /\ SubSeq(leaderLog[m.term], 1, m.leaderCommit) \in Seq(Entry)
    BY <1>1, <1>2, <2>1, BeginningStays
  <2>3. Safe(SubSeq(leaderLog[m.term], 1, m.leaderCommit), m.term)
    BY <1>1 DEF AppendFromLeader
  <2>4. m.term <= m.term
    BY <1>2, TermOrder
  <2> QED
    BY <1>1, <1>2, <2>2, <2>3, <2>4, SafeStays
<1>6. <<m.term, m.from>> \in elected' /\ m.from # m.to /\ m.leaderCommit <= m.prevLogIndex + Len(m.entries)
  BY <1>1 DEF AppendFromLeader, Grow
<1> QED
  BY <1>4, <1>5, <1>6 DEF AppendFromLeader

(* An answer to AppendEntries stays one to a leader of its term. *)
LEMMA AnswersLeaderStays ==
  ASSUME FullInv, TypeOK', LogTypeOK', NEW s \in Server, Grow(s), NEW r \in aeRep
  PROVE  AnswersLeader(r)'
<1>1. TypeOK /\ LogTypeOK /\ AnswersLeader(r)
  BY DEF FullInv, Inv, LogInv, MessagesFromLeaders
<1>2. /\ r.argTerm \in Term /\ r.match \in Nat /\ r.from \in Server
      /\ Len(leaderLog[r.argTerm]) \in Nat /\ Len(leaderLog'[r.argTerm]) \in Nat
  BY <1>1, LenProperties DEF TypeOK, LogTypeOK
<1>3. Len(leaderLog[r.argTerm]) <= Len(leaderLog'[r.argTerm])
  BY <1>1, <1>2, AtStays
<1>4. /\ r.argTerm \in Nat /\ currentTerm[r.from] \in Nat /\ currentTerm'[r.from] \in Nat
      /\ currentTerm[r.from] <= currentTerm'[r.from]
  BY <1>1, <1>2, TermNat DEF TypeOK, Grow
<1>5. r.match <= Len(leaderLog'[r.argTerm])
  <2>1. r.match <= Len(leaderLog[r.argTerm])
    BY <1>1 DEF AnswersLeader
  <2> QED
    BY <1>2, <1>3, <2>1
<1>6. r.success => r.argTerm <= currentTerm'[r.from]
  <2>1. r.success => r.argTerm <= currentTerm[r.from]
    BY <1>1 DEF AnswersLeader
  <2> QED
    BY <1>4, <2>1
<1>7. r.success => \E l \in Server : l # r.from /\ <<r.argTerm, l>> \in elected'
  BY <1>1 DEF AnswersLeader, Grow
<1> QED
  BY <1>5, <1>6, <1>7 DEF AnswersLeader

(* A snapshot on its way is still a committed beginning of its leader's     *)
(* log.                                                                     *)
LEMMA SnapshotFromLeaderStays ==
  ASSUME LogTypeOK, LogTypeOK', NEW s \in Server, Grow(s),
         NEW m, m.term \in Term, m.data \in Seq(Entry), SnapshotFromLeader(m)
  PROVE  SnapshotFromLeader(m)'
<1>1. LogTypeOK /\ SnapshotFromLeader(m)
  OBVIOUS
<1>2. /\ m.term \in Term /\ m.data \in Seq(Entry) /\ Len(m.data) \in Nat
      /\ Len(leaderLog[m.term]) \in Nat /\ Len(leaderLog'[m.term]) \in Nat
  BY LenProperties DEF LogTypeOK
<1>3. /\ Len(leaderLog[m.term]) <= Len(leaderLog'[m.term])
      /\ \A i \in 1 .. Len(leaderLog[m.term]) : leaderLog'[m.term][i] = leaderLog[m.term][i]
  BY <1>1, <1>2, AtStays
<1>4. Safe(m.data, m.term)'
  <2>1. Safe(m.data, m.term)
    BY <1>1 DEF SnapshotFromLeader
  <2>2. m.term <= m.term
    BY <1>2, TermOrder
  <2> QED
    BY <1>1, <1>2, <2>1, <2>2, SafeStays
<1> QED
  BY <1>1, <1>2, <1>3, <1>4 DEF SnapshotFromLeader, Grow

(* A candidate either stands with the log it had, or has entered a new      *)
(* term, or has lost its term.                                              *)
Standing(p) ==
  state'[p] = Candidate =>
    \/ currentTerm[p] < currentTerm'[p]
    \/ \E l \in Server \ {p} : <<currentTerm'[p], l>> \in elected'
    \/ /\ state[p] = Candidate /\ currentTerm'[p] = currentTerm[p]
       /\ getLastLogIdx(p)' = getLastLogIdx(p) /\ getLastLogTerm(p)' = getLastLogTerm(p)

(* A vote request still names the candidate's log, as long as its candidacy *)
(* lasts.                                                                   *)
LEMMA NamesLogStays ==
  ASSUME FullInv, TypeOK', LogTypeOK', NEW s \in Server, Grow(s),
         \A p \in Server : Standing(p), NEW m \in rvReq
  PROVE  NamesLog(m)'
<1>1. TypeOK /\ LogTypeOK /\ NamesLog(m)
  BY DEF FullInv, Inv, LogInv, VotesKnowAcks
<1>2. m.term \in Term /\ m.term \in Nat /\ m.from \in Server
  BY <1>1, TermNat DEF TypeOK
<1>3. /\ currentTerm[m.from] \in Nat /\ currentTerm'[m.from] \in Nat
      /\ currentTerm[m.from] <= currentTerm'[m.from] /\ m.term <= currentTerm[m.from]
  BY <1>1, <1>2, TermNat DEF TypeOK, Grow, NamesLog
<1>4. /\ m.lastLogTerm \in Term
      /\ IF m.lastLogIndex = 0 THEN m.lastLogTerm = 0
         ELSE At(m.lastLogTerm, m.lastLogIndex, m.lastLogTerm)'
  BY <1>1, AtStays DEF NamesLog
<1>5. ASSUME currentTerm'[m.from] = m.term, state'[m.from] = Candidate
      PROVE  \/ m.lastLogIndex = getLastLogIdx(m.from)' /\ m.lastLogTerm = getLastLogTerm(m.from)'
             \/ \E l \in Server \ {m.from} : <<m.term, l>> \in elected'
  <2>1. \/ \E l \in Server \ {m.from} : <<currentTerm'[m.from], l>> \in elected'
        \/ /\ state[m.from] = Candidate /\ currentTerm'[m.from] = currentTerm[m.from]
           /\ getLastLogIdx(m.from)' = getLastLogIdx(m.from)
           /\ getLastLogTerm(m.from)' = getLastLogTerm(m.from)
    BY <1>2, <1>3, <1>5 DEF Standing
  <2>2. \A l : <<m.term, l>> \in elected => <<m.term, l>> \in elected'
    BY DEF Grow
  <2> QED
    BY <1>1, <1>2, <1>5, <2>1, <2>2 DEF NamesLog
<1>6. m.term <= currentTerm'[m.from]
  BY <1>2, <1>3
<1> QED
  BY <1>4, <1>5, <1>6 DEF NamesLog

-----------------------------------------------------------------------------
(* A peer that a step leaves alone, part by part. *)

SameLog(q) == log'[q] = log[q] /\ lastIncludedIndex'[q] = lastIncludedIndex[q]

SameRole(q) == state'[q] = state[q] /\ currentTerm'[q] = currentTerm[q]

SameCounts(q) == nextIndex'[q] = nextIndex[q] /\ matchIndex'[q] = matchIndex[q]

SameService(q) ==
  /\ commitIndex'[q] = commitIndex[q] /\ lastApplied'[q] = lastApplied[q]
  /\ applied'[q] = applied[q] /\ lastIncludedTerm'[q] = lastIncludedTerm[q]
  /\ disk'[q].snapshot = disk[q].snapshot

Same(q) == SameLog(q) /\ SameRole(q) /\ SameCounts(q) /\ SameService(q)

(* Nothing new for what q has acknowledged. *)
NoNewAck(q) ==
  \A t \in Term : \A i : At(t, i, t)' /\ Acked(q, t, i)' => At(t, i, t) /\ Acked(q, t, i)

(* The log and indices of a peer as numbers and entries. *)
LEMMA LogShape ==
  ASSUME LogTypeOK, NEW q \in Server
  PROVE  /\ lastIncludedIndex[q] \in Nat /\ log[q] \in Seq(Entry) /\ Len(log[q]) \in Nat
         /\ Len(log[q]) > 0 /\ getLastLogIdx(q) \in Nat
         /\ getLastLogIdx(q) = lastIncludedIndex[q] + Len(log[q]) - 1
         /\ logLen(q) = getLastLogIdx(q) + 1
         /\ getLastLogTerm(q) = log[q][Len(log[q])].term /\ getLastLogTerm(q) \in Nat
         /\ \A i \in 1 .. Len(log[q]) : log[q][i] \in Entry /\ log[q][i].term \in Nat
<1>1. lastIncludedIndex[q] \in Nat /\ log[q] \in Seq(Entry) /\ Len(log[q]) > 0
  BY DEF LogTypeOK
<1>2. Len(log[q]) \in Nat
  BY <1>1, LenProperties
<1>3. \A i \in 1 .. Len(log[q]) : log[q][i] \in Entry /\ log[q][i].term \in Nat
  <2>1. \A i \in 1 .. Len(log[q]) : log[q][i] \in Entry
    BY <1>1, ElementOfSeq
  <2> QED
    BY <2>1 DEF Entry
<1>4. /\ getLastLogIdx(q) = lastIncludedIndex[q] + Len(log[q]) - 1
      /\ getLastLogIdx(q) \in Nat /\ logLen(q) = getLastLogIdx(q) + 1
  BY <1>1, <1>2 DEF getLastLogIdx, logLen
<1>5. getLastLogTerm(q) = log[q][Len(log[q])].term /\ getLastLogTerm(q) \in Nat
  <2>1. getLastLogIdx(q) - lastIncludedIndex[q] + 1 = Len(log[q])
    BY <1>1, <1>2, <1>4
  <2>2. Len(log[q]) \in 1 .. Len(log[q])
    BY <1>1, <1>2
  <2> QED
    BY <1>3, <2>1, <2>2 DEF getLastLogTerm, getLog, EntryAt
<1> QED
  BY <1>1, <1>2, <1>3, <1>4, <1>5

(* The operators that read a log see no change where the log did not        *)
(* change.                                                                  *)
LEMMA SameLogFacts ==
  ASSUME NEW q \in Server, SameLog(q)
  PROVE  /\ getLastLogIdx(q)' = getLastLogIdx(q) /\ logLen(q)' = logLen(q)
         /\ getLastLogTerm(q)' = getLastLogTerm(q)
         /\ \A i : getLog(q, i)' = getLog(q, i)
BY DEF SameLog, getLastLogIdx, getLastLogTerm, logLen, getLog, EntryAt

(* A log that did not change is still a piece of its leader's log. *)
LEMMA HasPieceStays ==
  ASSUME FullInv, TypeOK', LogTypeOK', NEW s \in Server, Grow(s), NEW q \in Server, SameLog(q)
  PROVE  HasPiece(q)'
<1>1. TypeOK /\ LogTypeOK /\ HasPiece(q)
  BY DEF FullInv, Inv, LogInv, PeersKeepLogs
<1>2. /\ lastIncludedIndex'[q] = lastIncludedIndex[q] /\ log'[q] = log[q]
      /\ getLastLogTerm(q)' = getLastLogTerm(q)
  BY SameLogFacts DEF SameLog
<1>3. PieceOf(getLastLogTerm(q), lastIncludedIndex[q], log[q])'
  BY <1>1, <1>2, LogShape, PieceStays DEF HasPiece
<1>4. getLastLogTerm(q) <= currentTerm'[q]
  <2>1. getLastLogTerm(q) \in Nat
    BY <1>1, LogShape
  <2>2. currentTerm[q] \in Nat /\ currentTerm'[q] \in Nat /\ currentTerm[q] <= currentTerm'[q]
    BY <1>1, TermNat DEF TypeOK, Grow
  <2> QED
    BY <1>1, <2>1, <2>2 DEF HasPiece
<1> QED
  BY <1>2, <1>3, <1>4 DEF HasPiece

(* A peer that kept role and log still leads with the log of its term. *)
LEMMA LeadsStays ==
  ASSUME FullInv, TypeOK', LogTypeOK', ElectionSafety', NEW s \in Server, Grow(s),
         NEW q \in Server, SameLog(q), SameRole(q),
         q # s \/ UNCHANGED <<leaderLog, elected>>
  PROVE  Leads(q)'
<1>1. TypeOK /\ LogTypeOK /\ Leads(q)
  BY DEF FullInv, Inv, LogInv, PeersKeepLogs
<1>2. /\ lastIncludedIndex'[q] = lastIncludedIndex[q] /\ log'[q] = log[q]
      /\ state'[q] = state[q] /\ currentTerm'[q] = currentTerm[q]
      /\ getLastLogIdx(q)' = getLastLogIdx(q) /\ currentTerm[q] \in Term
  BY <1>1, SameLogFacts DEF SameLog, SameRole, TypeOK
<1>3. CASE state[q] = Leader
  <2>1. /\ <<currentTerm[q], q>> \in elected /\ currentTerm[q] > 0
        /\ Len(leaderLog[currentTerm[q]]) = getLastLogIdx(q)
        /\ PieceOf(currentTerm[q], lastIncludedIndex[q], log[q])
    BY <1>1, <1>3 DEF Leads
  <2>2. <<currentTerm[q], q>> \in elected'
    BY <2>1 DEF Grow
  <2>3. leaderLog'[currentTerm[q]] = leaderLog[currentTerm[q]]
    BY <1>2, <2>2 DEF Grow, ElectionSafety
  <2>4. PieceOf(currentTerm[q], lastIncludedIndex[q], log[q])'
    BY <1>1, <1>2, <2>1, LogShape, PieceStays
  <2> QED
    BY <1>2, <1>3, <2>1, <2>2, <2>3, <2>4 DEF Leads
<1>4. CASE state[q] = Candidate
  <2>1. <<currentTerm[q], q>> \notin elected
    BY <1>1, <1>4 DEF Leads
  <2>2. <<currentTerm[q], q>> \notin elected'
    BY <2>1 DEF Grow
  <2> QED
    BY <1>2, <1>4, <2>2 DEF Leads
<1> QED
  BY <1>2, <1>3, <1>4 DEF Leads

(* A peer that acknowledged nothing new and kept the end of its log keeps   *)
(* its acknowledgements.                                                    *)
LEMMA KeepsStays ==
  ASSUME FullInv, TypeOK', LogTypeOK', NEW s \in Server, Grow(s), NEW q \in Server, NoNewAck(q),
         getLastLogIdx(q)' = getLastLogIdx(q), getLastLogTerm(q)' = getLastLogTerm(q)
  PROVE  Keeps(q)'
<1>1. TypeOK /\ LogTypeOK /\ Keeps(q) /\ HasPiece(q)
  BY DEF FullInv, Inv, LogInv, PeersKeepLogs
<1> SUFFICES ASSUME NEW t \in Term, NEW i, At(t, i, t)', Acked(q, t, i)'
             PROVE  \/ i <= getLastLogIdx(q) /\ At(getLastLogTerm(q), i, t)'
                    \/ Blocked(t, i)'
  BY DEF Keeps
<1>2. At(t, i, t) /\ Acked(q, t, i)
  BY DEF NoNewAck
<1>3. \/ i <= getLastLogIdx(q) /\ At(getLastLogTerm(q), i, t)
      \/ Blocked(t, i)
  BY <1>1, <1>2 DEF Keeps, At
<1>4. getLastLogTerm(q) \in Term
  BY <1>1 DEF HasPiece, PieceOf
<1> QED
  BY <1>1, <1>3, <1>4, AtStays, BlockedStays

(* What a leader counts stays true while it leads and its log only grows. *)
LEMMA CountsStays ==
  ASSUME LogTypeOK, LogTypeOK', NEW s \in Server, Grow(s), NEW q \in Server, Counts(q),
         state'[q] = Leader =>
           /\ state[q] = Leader /\ currentTerm'[q] = currentTerm[q] /\ SameCounts(q)
           /\ commitIndex[q] <= commitIndex'[q] /\ getLastLogIdx(q) <= getLastLogIdx(q)'
  PROVE  Counts(q)'
<1> SUFFICES ASSUME state'[q] = Leader, NEW p \in Server
             PROVE  /\ nextIndex'[q][p] <= logLen(q)'
                    /\ p # q => \/ matchIndex'[q][p] <= commitIndex'[q]
                                \/ /\ Acked(p, currentTerm[q], matchIndex[q][p])'
                                   /\ matchIndex'[q][p] <= getLastLogIdx(q)'
  BY DEF Counts
<1>1. /\ commitIndex[q] \in Nat /\ commitIndex'[q] \in Nat
      /\ nextIndex[q][p] \in Nat /\ matchIndex[q][p] \in Nat
  BY DEF LogTypeOK
<1>2. getLastLogIdx(q) \in Nat /\ logLen(q) = getLastLogIdx(q) + 1
  BY LogShape
<1>3. getLastLogIdx(q)' \in Nat /\ logLen(q)' = getLastLogIdx(q)' + 1
  <2>1. lastIncludedIndex'[q] \in Nat /\ log'[q] \in Seq(Entry) /\ Len(log'[q]) > 0
    BY DEF LogTypeOK
  <2>2. Len(log'[q]) \in Nat
    BY <2>1, LenProperties
  <2> QED
    BY <2>1, <2>2 DEF getLastLogIdx, logLen
<1>4. /\ nextIndex'[q][p] = nextIndex[q][p] /\ matchIndex'[q][p] = matchIndex[q][p]
      /\ commitIndex[q] <= commitIndex'[q] /\ getLastLogIdx(q) <= getLastLogIdx(q)'
      /\ currentTerm'[q] = currentTerm[q]
  BY DEF SameCounts
<1>5. /\ nextIndex[q][p] <= logLen(q)
      /\ p # q => \/ matchIndex[q][p] <= commitIndex[q]
                  \/ /\ Acked(p, currentTerm[q], matchIndex[q][p])
                     /\ matchIndex[q][p] <= getLastLogIdx(q)
  BY DEF Counts
<1>6. nextIndex'[q][p] <= logLen(q)'
  BY <1>1, <1>2, <1>3, <1>4, <1>5
<1>7. ASSUME p # q, matchIndex[q][p] <= commitIndex[q]
      PROVE  matchIndex'[q][p] <= commitIndex'[q]
  BY <1>1, <1>4, <1>7
<1>8. ASSUME Acked(p, currentTerm[q], matchIndex[q][p]), matchIndex[q][p] <= getLastLogIdx(q)
      PROVE  /\ Acked(p, currentTerm[q], matchIndex[q][p])'
             /\ matchIndex'[q][p] <= getLastLogIdx(q)'
  <2>1. Acked(p, currentTerm[q], matchIndex[q][p])'
    BY <1>4, <1>8, AckedStays
  <2> QED
    BY <1>1, <1>2, <1>3, <1>4, <1>8, <2>1
<1> QED
  BY <1>5, <1>6, <1>7, <1>8

(* A service that did not move still has a committed beginning. *)
LEMMA ServesStays ==
  ASSUME FullInv, TypeOK', LogTypeOK', NEW s \in Server, Grow(s), NEW q \in Server,
         SameLog(q), SameService(q)
  PROVE  Serves(q)'
<1>1. TypeOK /\ LogTypeOK /\ Serves(q)
  BY DEF FullInv, Inv, LogInv, PeersKeepLogs
<1>2. /\ getLastLogIdx(q)' = getLastLogIdx(q) /\ \A i : getLog(q, i)' = getLog(q, i)
      /\ lastIncludedIndex'[q] = lastIncludedIndex[q]
  BY SameLogFacts DEF SameLog
<1>3. /\ commitIndex'[q] = commitIndex[q] /\ lastApplied'[q] = lastApplied[q]
      /\ applied'[q] = applied[q] /\ lastIncludedTerm'[q] = lastIncludedTerm[q]
      /\ disk'[q].snapshot = disk[q].snapshot
  BY DEF SameService
<1>4. Safe(applied[q], currentTerm[q])'
  <2>1. applied[q] \in Seq(Entry) /\ currentTerm[q] \in Term /\ currentTerm'[q] \in Term
    BY <1>1 DEF LogTypeOK, TypeOK
  <2>2. currentTerm[q] <= currentTerm'[q]
    BY DEF Grow
  <2>3. Safe(applied[q], currentTerm[q])
    BY <1>1 DEF Serves
  <2> QED
    BY <1>1, <1>3, <2>1, <2>2, <2>3, SafeStays
<1> QED
  BY <1>1, <1>2, <1>3, <1>4 DEF Serves

PeerOK(q) == HasPiece(q) /\ Leads(q) /\ Keeps(q) /\ Counts(q) /\ Serves(q)

(* A peer that did not step keeps every part of the invariant. *)
LEMMA PeerStays ==
  ASSUME FullInv, TypeOK', LogTypeOK', ElectionSafety', NEW s \in Server, Grow(s),
         NEW q \in Server \ {s}, Same(q)
  PROVE  PeerOK(q)'
<1>1. SameLog(q) /\ SameRole(q) /\ SameCounts(q) /\ SameService(q)
  BY DEF Same
<1>2. TypeOK /\ LogTypeOK /\ MessagesFromLeaders /\ Counts(q)
  BY DEF FullInv, Inv, LogInv, PeersKeepLogs
<1>3. NoNewAck(q)
  BY <1>2, AckIsOld DEF NoNewAck
<1>4. HasPiece(q)' /\ Leads(q)' /\ Keeps(q)' /\ Serves(q)'
  BY <1>1, <1>3, SameLogFacts, HasPieceStays, LeadsStays, KeepsStays, ServesStays
<1>5. Counts(q)'
  <2>1. commitIndex[q] \in Nat /\ getLastLogIdx(q) \in Nat
    BY <1>2, LogShape DEF LogTypeOK
  <2>2. commitIndex[q] <= commitIndex'[q] /\ getLastLogIdx(q) <= getLastLogIdx(q)'
    BY <1>1, <2>1, SameLogFacts DEF SameService
  <2> QED
    BY <1>1, <1>2, <2>2, CountsStays DEF SameRole
<1> QED
  BY <1>4, <1>5 DEF PeerOK

-----------------------------------------------------------------------------
(* One step, put together. *)

(* One leader per term, also after the step. *)
LEMMA ElectionSafetyNext ==
  Inv' => ElectionSafety'
BY OneLeaderPerTerm, PTL

(* A step of s adds to the messages only what its leader could say, and     *)
(* leaves s itself in order: then everything is.                            *)
LEMMA StepOfPeer ==
  ASSUME FullInv, Inv', LogTypeOK', DiskCurrent', LeaderLogs', NEW s \in Server, Grow(s),
         \A q \in Server \ {s} : Same(q), Standing(s), PeerOK(s)',
         \A m \in aeReq' : m \in aeReq \/ AppendFromLeader(m)',
         \A r \in aeRep' : r \in aeRep \/ AnswersLeader(r)',
         \A m \in isReq' : m \in isReq \/ SnapshotFromLeader(m)',
         \A m \in rvReq' : m \in rvReq \/ NamesLog(m)',
         \A r \in rvRep' : r \in rvRep \/ KnowsAcks(r)',
         \A x \in elected' : x \in elected \/ Complete(x)'
  PROVE  LogInv'
<1>1. TypeOK' /\ ElectionSafety'
  BY ElectionSafetyNext DEF Inv
<1>2. PeersKeepLogs'
  BY <1>1, PeerStays DEF PeersKeepLogs, PeerOK
<1>3. MessagesFromLeaders'
  <2>1. TypeOK /\ LogTypeOK /\ MessagesFromLeaders
    BY DEF FullInv, Inv, LogInv
  <2>2. \A m \in aeReq : AppendFromLeader(m)'
    <3> TAKE m \in aeReq
    <3>1. /\ m.term \in Term /\ m.prevLogIndex \in Nat /\ m.entries \in Seq(Entry)
          /\ m.leaderCommit \in Nat /\ AppendFromLeader(m)
      BY <2>1 DEF TypeOK, LogTypeOK, MessagesFromLeaders
    <3> QED
      BY <2>1, <3>1, AppendFromLeaderStays
  <2>3. \A m \in isReq : SnapshotFromLeader(m)'
    <3> TAKE m \in isReq
    <3>1. m.term \in Term /\ m.data \in Seq(Entry) /\ SnapshotFromLeader(m)
      BY <2>1 DEF TypeOK, LogTypeOK, MessagesFromLeaders
    <3> QED
      BY <2>1, <3>1, SnapshotFromLeaderStays
  <2>4. \A r \in aeRep : AnswersLeader(r)'
    BY <1>1, AnswersLeaderStays
  <2> QED
    BY <2>2, <2>3, <2>4 DEF MessagesFromLeaders
<1>4. \A q \in Server : Standing(q)
  BY SameLogFacts DEF Same, SameRole, Standing
<1>5. VotesKnowAcks'
  BY <1>1, <1>4, NamesLogStays, KnowsAcksStays DEF VotesKnowAcks
<1>6. LeadersComplete'
  BY <1>1, CompleteStays DEF LeadersComplete
<1> QED
  BY <1>2, <1>3, <1>5, <1>6 DEF LogInv

(* A step that writes no leader's log and acknowledges nothing. *)
Calm == UNCHANGED <<leaderLog, elected, aeRep>> /\ rvReq \subseteq rvReq'

(* A step that writes no log and acknowledges nothing is one of those under *)
(* which all that was said stays.                                           *)
LEMMA CalmGrows ==
  ASSUME FullInv, Monotone, Calm, NEW s \in Server
  PROVE  Grow(s)
BY DEF Calm, Grow, Monotone

(* The logs of the leaders are in order if none is written. *)
LEMMA CalmLeaderLogs ==
  ASSUME LeaderLogs, UNCHANGED <<leaderLog, elected>>
  PROVE  LeaderLogs'
BY ZenonT(30) DEF LeaderLogs, At

(* A calm step acknowledges nothing. *)
LEMMA CalmAcks ==
  ASSUME Calm, NEW q
  PROVE  NoNewAck(q)
BY DEF Calm, NoNewAck, At, Acked

(* persist() and persistWithSnapShot() write what is in memory. *)
LEMMA DiskWritten ==
  ASSUME TypeOK, DiskCurrent, NEW s \in Server,
         persist(s) \/ (\E data : persistWithSnapShot(s, data)),
         \A q \in Server \ {s} :
           /\ SameLog(q) /\ currentTerm'[q] = currentTerm[q] /\ votedFor'[q] = votedFor[q]
           /\ lastIncludedTerm'[q] = lastIncludedTerm[q]
  PROVE  DiskCurrent' /\ \A q \in Server \ {s} : disk'[q] = disk[q]
<1>1. DOMAIN disk = Server
  BY DEF TypeOK
<1>2. \A q \in Server \ {s} : disk'[q] = disk[q]
  BY <1>1 DEF persist, persistWithSnapShot
<1>3. /\ disk'[s].currentTerm = currentTerm'[s] /\ disk'[s].votedFor = votedFor'[s]
      /\ disk'[s].log = log'[s] /\ disk'[s].lastIncludedIndex = lastIncludedIndex'[s]
      /\ disk'[s].lastIncludedTerm = lastIncludedTerm'[s]
  BY <1>1 DEF persist, persistWithSnapShot
<1> QED
  BY <1>2, <1>3 DEF DiskCurrent, SameLog

(* persist() leaves the snapshot alone. *)
LEMMA PersistKeepsSnapshot ==
  ASSUME TypeOK, NEW s \in Server, persist(s)
  PROVE  \A q \in Server : disk'[q].snapshot = disk[q].snapshot
BY DEF TypeOK, persist

(* A step of s that leaves its log alone. *)
LEMMA SameLogStep ==
  ASSUME FullInv, Inv', LogTypeOK', DiskCurrent', NEW s \in Server, Grow(s),
         UNCHANGED <<leaderLog, elected>>, NoNewAck(s),
         \A q \in Server \ {s} : Same(q), SameLog(s), Standing(s),
         Leads(s)', Counts(s)', Serves(s)',
         \A m \in aeReq' : m \in aeReq \/ AppendFromLeader(m)',
         \A r \in aeRep' : r \in aeRep \/ AnswersLeader(r)',
         \A m \in isReq' : m \in isReq \/ SnapshotFromLeader(m)',
         \A m \in rvReq' : m \in rvReq \/ NamesLog(m)',
         \A r \in rvRep' : r \in rvRep \/ KnowsAcks(r)'
  PROVE  LogInv'
<1>1. LeaderLogs'
  BY CalmLeaderLogs DEF FullInv, LogInv
<1>2. TypeOK'
  BY DEF Inv
<1>3. HasPiece(s)' /\ Keeps(s)'
  BY <1>2, SameLogFacts, HasPieceStays, KeepsStays
<1>4. PeerOK(s)'
  BY <1>3 DEF PeerOK
<1> QED
  BY <1>1, <1>4, StepOfPeer

(* What such a step may do to the role of s. *)
RoleOK(s) ==
  \/ state'[s] = Follower
  \/ state'[s] = Candidate /\ currentTerm[s] < currentTerm'[s]
  \/ SameRole(s) /\ SameCounts(s)

(* A step of one peer that touches neither logs nor services keeps the      *)
(* invariant if its role, and each message it sends, is as it should be.    *)
LEMMA RoleStep ==
  ASSUME FullInv, Inv', LogTypeOK', DiskCurrent', NEW s \in Server, Grow(s),
         UNCHANGED <<leaderLog, elected>>, NoNewAck(s),
         \A q \in Server \ {s} : Same(q), SameLog(s), SameService(s), RoleOK(s),
         \A m \in aeReq' : m \in aeReq \/ AppendFromLeader(m)',
         \A r \in aeRep' : r \in aeRep \/ AnswersLeader(r)',
         \A m \in isReq' : m \in isReq \/ SnapshotFromLeader(m)',
         \A m \in rvReq' : m \in rvReq \/ NamesLog(m)',
         \A r \in rvRep' : r \in rvRep \/ KnowsAcks(r)'
  PROVE  LogInv'
<1>1. TypeOK' /\ ElectionSafety' /\ TypeOK /\ LogTypeOK /\ Counts(s) /\ LeadersElected
  BY ElectionSafetyNext DEF FullInv, Inv, LogInv, ElectionInv, PeersKeepLogs
<1>2. /\ getLastLogIdx(s)' = getLastLogIdx(s) /\ getLastLogTerm(s)' = getLastLogTerm(s)
      /\ commitIndex'[s] = commitIndex[s]
  BY SameLogFacts DEF SameService
<1>3. Serves(s)'
  BY <1>1, ServesStays
<1>4. Standing(s)
  BY <1>2 DEF Standing, RoleOK, SameRole
<1>5. Leads(s)'
  <2>1. CASE state'[s] = Follower
    BY <2>1 DEF Leads
  <2>2. CASE state'[s] = Candidate /\ currentTerm[s] < currentTerm'[s]
    <3>1. <<currentTerm'[s], s>> \notin elected
      <4>1. currentTerm[s] \in Nat /\ currentTerm'[s] \in Nat
        BY <1>1, TermNat DEF TypeOK
      <4> QED
        BY <1>1, <2>2, <4>1 DEF LeadersElected
    <3> QED
      BY <2>2, <3>1 DEF Leads
  <2>3. CASE SameRole(s)
    BY <1>1, <2>3, LeadsStays
  <2> QED
    BY <2>1, <2>2, <2>3 DEF RoleOK
<1>6. Counts(s)'
  <2>1. commitIndex[s] \in Nat /\ getLastLogIdx(s) \in Nat
    BY <1>1, LogShape DEF LogTypeOK
  <2>2. commitIndex[s] <= commitIndex'[s] /\ getLastLogIdx(s) <= getLastLogIdx(s)'
    BY <1>2, <2>1
  <2>3. state'[s] = Leader => SameRole(s) /\ SameCounts(s)
    BY DEF RoleOK
  <2> QED
    BY <1>1, <2>2, <2>3, CountsStays DEF SameRole
<1> QED
  BY <1>3, <1>4, <1>5, <1>6, SameLogStep

-----------------------------------------------------------------------------
(* The actions that leave logs and services alone. *)

(* The main loop only chooses a branch. *)
LEMMA MainLoopKeeps ==
  ASSUME FullInv, Inv', Monotone, NEW s \in Server, MainLoop(s)
  PROVE  LogInv'
<1>1. LogTypeOK' /\ DiskCurrent'
  BY DEF FullInv, LogInv, LogTypeOK, DiskCurrent, MainLoop, persisted, volatile, leading, network
<1>2. Calm
  BY DEF MainLoop, Calm, network
<1>3. Grow(s) /\ NoNewAck(s) /\ UNCHANGED <<leaderLog, elected>>
  BY <1>2, CalmGrows, CalmAcks DEF Calm
<1>4. \A q \in Server : Same(q)
  BY DEF MainLoop, persisted, volatile, leading, Same, SameLog, SameRole, SameCounts, SameService
<1>5. SameLog(s) /\ SameService(s) /\ RoleOK(s)
  BY <1>4 DEF Same, RoleOK
<1>6. UNCHANGED network
  BY DEF MainLoop
<1> QED
  BY <1>1, <1>3, <1>4, <1>5, <1>6, RoleStep DEF network

(* A candidate has won nothing yet in its new term. *)
LEMMA BeCandidateKeeps ==
  ASSUME FullInv, Inv', Monotone, NEW s \in Server, beCandidate(s)
  PROVE  LogInv'
<1>0. TypeOK /\ LogTypeOK /\ DiskCurrent
  BY DEF FullInv, Inv, LogInv
<1>1. \A q \in Server : disk'[q].snapshot = disk[q].snapshot
  BY <1>0, PersistKeepsSnapshot DEF beCandidate
<1>2. LogTypeOK'
  BY <1>0, <1>1 DEF LogTypeOK, beCandidate, volatile, leading, network
<1>3. Calm
  BY DEF beCandidate, Calm, network
<1>4. Grow(s) /\ NoNewAck(s) /\ UNCHANGED <<leaderLog, elected>>
  BY <1>3, CalmGrows, CalmAcks DEF Calm
<1>5. \A q \in Server : SameLog(q) /\ SameCounts(q) /\ SameService(q)
  BY <1>1 DEF beCandidate, volatile, leading, SameLog, SameCounts, SameService
<1>6. \A q \in Server \ {s} : SameRole(q) /\ votedFor'[q] = votedFor[q]
  BY <1>0 DEF TypeOK, beCandidate, SameRole
<1>7. DiskCurrent'
  BY <1>0, <1>5, <1>6, DiskWritten DEF beCandidate, SameRole, SameService
<1>8. RoleOK(s)
  <2>1. state'[s] = Candidate /\ currentTerm'[s] = currentTerm[s] + 1 /\ currentTerm[s] \in Nat
    BY <1>0, TermNat DEF TypeOK, beCandidate
  <2> QED
    BY <2>1 DEF RoleOK
<1>9. UNCHANGED network
  BY DEF beCandidate
<1> QED
  BY <1>2, <1>4, <1>5, <1>6, <1>7, <1>8, <1>9, RoleStep DEF Same, network

(* What a piece says of the entries of a peer. *)
LEMMA PieceEntries ==
  ASSUME LogTypeOK, NEW s \in Server, NEW t, PieceOf(t, lastIncludedIndex[s], log[s])
  PROVE  /\ t \in Term /\ getLastLogIdx(s) <= Len(leaderLog[t])
         /\ \A i \in lastIncludedIndex[s] + 1 .. getLastLogIdx(s) : getLog(s, i) = leaderLog[t][i]
         /\ \A i \in lastIncludedIndex[s] .. getLastLogIdx(s) :
              /\ getLog(s, i).term \in Nat
              /\ getLog(s, i).term = IF i = 0 THEN 0 ELSE leaderLog[t][i].term
<1>1. /\ lastIncludedIndex[s] \in Nat /\ Len(log[s]) \in Nat /\ Len(log[s]) > 0
      /\ getLastLogIdx(s) = lastIncludedIndex[s] + Len(log[s]) - 1
  BY LogShape
<1>2. t \in Term /\ getLastLogIdx(s) <= Len(leaderLog[t])
  BY <1>1 DEF PieceOf
<1>3. \A i \in lastIncludedIndex[s] + 1 .. getLastLogIdx(s) : getLog(s, i) = leaderLog[t][i]
  BY <1>1 DEF PieceOf, getLog, EntryAt
<1>4. \A i \in lastIncludedIndex[s] .. getLastLogIdx(s) : getLog(s, i).term \in Nat
  <2> TAKE i \in lastIncludedIndex[s] .. getLastLogIdx(s)
  <2>1. i - lastIncludedIndex[s] + 1 \in 1 .. Len(log[s])
    BY <1>1
  <2> QED
    BY <2>1, LogShape DEF getLog, EntryAt
<1>5. getLog(s, lastIncludedIndex[s]).term
        = IF lastIncludedIndex[s] = 0 THEN 0 ELSE leaderLog[t][lastIncludedIndex[s]].term
  <2>1. lastIncludedIndex[s] - lastIncludedIndex[s] + 1 = 1
    BY <1>1
  <2> QED
    BY <2>1 DEF PieceOf, getLog, EntryAt
<1>6. \A i \in lastIncludedIndex[s] .. getLastLogIdx(s) :
        getLog(s, i).term = IF i = 0 THEN 0 ELSE leaderLog[t][i].term
  <2> TAKE i \in lastIncludedIndex[s] .. getLastLogIdx(s)
  <2>1. CASE i = lastIncludedIndex[s]
    BY <1>5, <2>1
  <2>2. CASE i # lastIncludedIndex[s]
    <3>1. i \in lastIncludedIndex[s] + 1 .. getLastLogIdx(s) /\ i # 0
      BY <1>1, <2>2
    <3> QED
      BY <1>3, <3>1
  <2> QED
    BY <2>1, <2>2
<1> QED
  BY <1>2, <1>3, <1>4, <1>6

(* The last entry of a peer is where the leader of its term put it. *)
LEMMA LastEntry ==
  ASSUME FullInv, NEW s \in Server
  PROVE  /\ getLastLogTerm(s) \in Term /\ getLastLogTerm(s) <= currentTerm[s]
         /\ IF getLastLogIdx(s) = 0 THEN getLastLogTerm(s) = 0
            ELSE At(getLastLogTerm(s), getLastLogIdx(s), getLastLogTerm(s))
<1>1. LogTypeOK /\ HasPiece(s)
  BY DEF FullInv, LogInv, PeersKeepLogs
<1>2. /\ getLastLogIdx(s) \in Nat /\ lastIncludedIndex[s] \in Nat
      /\ lastIncludedIndex[s] <= getLastLogIdx(s)
  BY <1>1, LogShape
<1>3. PieceOf(getLastLogTerm(s), lastIncludedIndex[s], log[s]) /\ getLastLogTerm(s) <= currentTerm[s]
  BY <1>1 DEF HasPiece
<1>4. /\ getLastLogTerm(s) \in Term /\ getLastLogIdx(s) <= Len(leaderLog[getLastLogTerm(s)])
      /\ getLog(s, getLastLogIdx(s)).term
           = IF getLastLogIdx(s) = 0 THEN 0 ELSE leaderLog[getLastLogTerm(s)][getLastLogIdx(s)].term
  <2>1. getLastLogIdx(s) \in lastIncludedIndex[s] .. getLastLogIdx(s)
    BY <1>2
  <2> QED
    BY ZenonT(30), <1>1, <1>3, <2>1, PieceEntries
<1>5. getLog(s, getLastLogIdx(s)).term = getLastLogTerm(s)
  BY DEF getLastLogTerm
<1>6. Len(leaderLog[getLastLogTerm(s)]) \in Nat
  BY <1>1, <1>4, LeaderLogType
<1> QED
  BY <1>2, <1>3, <1>4, <1>5, <1>6 DEF At

(* A leader holds the log of its term, applied entries included. *)
LEMMA LeaderHolds ==
  ASSUME FullInv, NEW s \in Server, state[s] = Leader
  PROVE  /\ currentTerm[s] \in Term /\ <<currentTerm[s], s>> \in elected /\ currentTerm[s] > 0
         /\ PieceOf(currentTerm[s], lastIncludedIndex[s], log[s])
         /\ Len(leaderLog[currentTerm[s]]) = getLastLogIdx(s)
         /\ \A j \in 1 .. lastApplied[s] : applied[s][j] = leaderLog[currentTerm[s]][j]
<1>1. TypeOK /\ LogTypeOK /\ LeaderLogs /\ LeadersComplete /\ Leads(s) /\ Serves(s)
  BY DEF FullInv, Inv, LogInv, PeersKeepLogs
<1>2. currentTerm[s] \in Term /\ currentTerm[s] \in 0 .. currentTerm[s] /\ applied[s] \in Seq(Entry)
  BY <1>1, TermOrder DEF TypeOK, LogTypeOK
<1>3. /\ <<currentTerm[s], s>> \in elected /\ currentTerm[s] > 0
      /\ PieceOf(currentTerm[s], lastIncludedIndex[s], log[s])
      /\ Len(leaderLog[currentTerm[s]]) = getLastLogIdx(s)
  BY <1>1 DEF Leads
<1>4. Safe(applied[s], currentTerm[s]) /\ Len(applied[s]) = lastApplied[s]
  BY <1>1 DEF Serves
<1> QED
  BY SMTT(30), <1>1, <1>2, <1>3, <1>4, SafeInLeader

(* A vote request names the candidate's log, unless another peer has won    *)
(* the term meanwhile.                                                      *)
LEMMA StartElectionKeeps ==
  ASSUME FullInv, Inv', Monotone, NEW s \in Server, NEW e \in pending[s], startElection(s, e)
  PROVE  LogInv'
<1> DEFINE New(m) == /\ m.from = s /\ m.term = currentTerm[s]
                     /\ m.lastLogIndex = getLastLogIdx(s) /\ m.lastLogTerm = getLastLogTerm(s)
<1>0. TypeOK /\ LogTypeOK /\ DiskCurrent
  BY DEF FullInv, Inv, LogInv
<1>1. \A m \in rvReq' : m \in rvReq \/ New(m)
  BY DEF startElection
<1>2. /\ UNCHANGED <<state, persisted, volatile, leading, disk, rvRep, aeReq, aeRep, isReq, isRep>>
      /\ UNCHANGED <<elected, leaderLog>> /\ rvReq \subseteq rvReq'
  BY DEF startElection
<1>3. getLastLogIdx(s) \in Nat /\ getLastLogTerm(s) \in Nat
  BY <1>0, LogShape
<1>4. LogTypeOK' /\ DiskCurrent'
  BY SMTT(30), <1>0, <1>1, <1>2, <1>3 DEF LogTypeOK, DiskCurrent, persisted, volatile, leading
<1>5. Calm
  BY <1>2 DEF Calm
<1>6. Grow(s) /\ NoNewAck(s)
  BY <1>5, CalmGrows, CalmAcks
<1>7. \A q \in Server : Same(q)
  BY <1>2 DEF persisted, volatile, leading, Same, SameLog, SameRole, SameCounts, SameService
<1>8. SameLog(s) /\ SameService(s) /\ RoleOK(s)
  BY <1>7 DEF Same, RoleOK
<1>9. ASSUME NEW m \in rvReq', New(m) PROVE NamesLog(m)'
  <2>1. /\ getLastLogTerm(s) \in Term
        /\ IF getLastLogIdx(s) = 0 THEN getLastLogTerm(s) = 0
           ELSE At(getLastLogTerm(s), getLastLogIdx(s), getLastLogTerm(s))
    BY LastEntry
  <2>2. /\ getLastLogIdx(s)' = getLastLogIdx(s) /\ getLastLogTerm(s)' = getLastLogTerm(s)
        /\ currentTerm' = currentTerm
    BY <1>2, <1>8, SameLogFacts DEF persisted
  <2>3. currentTerm[s] <= currentTerm[s]
    BY <1>0, TermOrder DEF TypeOK
  <2>4. IF m.lastLogIndex = 0 THEN m.lastLogTerm = 0
        ELSE At(m.lastLogTerm, m.lastLogIndex, m.lastLogTerm)'
    BY <1>2, <1>9, <2>1 DEF At
  <2> QED
    BY <1>9, <2>1, <2>2, <2>3, <2>4 DEF NamesLog
<1>10. \A m \in rvReq' : m \in rvReq \/ NamesLog(m)'
  BY <1>1, <1>9
<1> QED
  BY <1>2, <1>4, <1>6, <1>7, <1>8, <1>10, RoleStep

(* The tail of a log from position a on. *)
LEMMA SuffixFacts ==
  ASSUME NEW x \in Seq(Entry), NEW a \in 1 .. Len(x) + 1
  PROVE  /\ SubSeq(x, a, Len(x)) \in Seq(Entry) /\ Len(SubSeq(x, a, Len(x))) = Len(x) - a + 1
         /\ \A i \in 1 .. Len(x) - a + 1 : SubSeq(x, a, Len(x))[i] = x[a + i - 1]
<1>1. Len(x) \in Nat /\ a \in Int /\ Len(x) \in Int
  BY LenProperties
<1>2. \A i \in a .. Len(x) : x[i] \in Entry
  BY <1>1, ElementOfSeq
<1>3. /\ SubSeq(x, a, Len(x)) \in Seq(Entry)
      /\ Len(SubSeq(x, a, Len(x))) = IF a <= Len(x) THEN Len(x) - a + 1 ELSE 0
      /\ \A i \in 1 .. Len(x) - a + 1 : SubSeq(x, a, Len(x))[i] = x[a + i - 1]
  BY <1>1, <1>2, SubSeqProperties
<1> QED
  BY <1>1, <1>3

(* AppendEntries carries a piece of the leader's log and a committed index. *)
LEMMA AppendLoopKeeps ==
  ASSUME FullInv, Inv', Monotone, NEW s \in Server, NEW p \in Server, AppendLoop(s, p)
  PROVE  LogInv'
<1> DEFINE base == lastIncludedIndex[s]
           L == leaderLog[currentTerm[s]]
<1>0. TypeOK /\ LogTypeOK /\ DiskCurrent /\ Counts(s) /\ Serves(s)
  BY DEF FullInv, Inv, LogInv, PeersKeepLogs
<1>1. state[s] = Leader /\ p # s /\ nextIndex[s][p] - base >= 1
  BY DEF AppendLoop
<1>2. /\ UNCHANGED <<state, persisted, volatile, leading, disk, rvReq, rvRep, aeRep, isReq, isRep>>
      /\ UNCHANGED <<elected, leaderLog>>
  BY DEF AppendLoop
<1>3. /\ base \in Nat /\ log[s] \in Seq(Entry) /\ Len(log[s]) \in Nat /\ Len(log[s]) > 0
      /\ getLastLogIdx(s) = base + Len(log[s]) - 1 /\ logLen(s) = getLastLogIdx(s) + 1
      /\ nextIndex[s][p] \in Nat /\ commitIndex[s] \in Nat /\ applied[s] \in Seq(Entry)
  BY <1>0, LogShape DEF LogTypeOK
<1>4. PICK prev : prev = nextIndex[s][p] - 1
  OBVIOUS
<1>5. prev \in Nat /\ prev \in base .. getLastLogIdx(s)
  <2>1. nextIndex[s][p] <= logLen(s)
    BY <1>0, <1>1 DEF Counts
  <2> QED
    BY SMTT(30), <1>1, <1>3, <1>4, <2>1
<1>6. /\ currentTerm[s] \in Term /\ <<currentTerm[s], s>> \in elected
      /\ PieceOf(currentTerm[s], base, log[s]) /\ Len(L) = getLastLogIdx(s)
      /\ \A j \in 1 .. lastApplied[s] : applied[s][j] = L[j]
  BY <1>1, LeaderHolds
<1>7. /\ \A i \in base + 1 .. getLastLogIdx(s) : getLog(s, i) = L[i]
      /\ \A i \in base .. getLastLogIdx(s) :
           /\ getLog(s, i).term \in Nat
           /\ getLog(s, i).term = IF i = 0 THEN 0 ELSE L[i].term
  BY <1>0, <1>6, PieceEntries
<1>8. PICK sent : sent = SubSeq(log[s], prev - base + 2, Len(log[s]))
  OBVIOUS
<1>9. /\ sent \in Seq(Entry) /\ Len(sent) = getLastLogIdx(s) - prev
      /\ \A k \in 1 .. Len(sent) : sent[k] = L[prev + k]
  <2>1. prev - base + 2 \in 1 .. Len(log[s]) + 1
    BY SMTT(30), <1>3, <1>5
  <2>2. /\ sent \in Seq(Entry) /\ Len(sent) = Len(log[s]) - (prev - base + 2) + 1
        /\ \A k \in 1 .. Len(log[s]) - (prev - base + 2) + 1 :
             sent[k] = log[s][(prev - base + 2) + k - 1]
    BY <1>3, <1>8, <2>1, SuffixFacts
  <2>3. Len(log[s]) - (prev - base + 2) + 1 = getLastLogIdx(s) - prev
    BY SMTT(30), <1>3, <1>5
  <2>4. ASSUME NEW k \in 1 .. getLastLogIdx(s) - prev PROVE sent[k] = L[prev + k]
    <3>1. (prev - base + 2) + k - 1 = (prev + k) - base + 1 /\ prev + k \in base + 1 .. getLastLogIdx(s)
      BY SMTT(30), <1>3, <1>5, <2>4
    <3>2. sent[k] = getLog(s, prev + k)
      BY <2>2, <2>3, <3>1 DEF getLog, EntryAt
    <3> QED
      BY <1>7, <3>1, <3>2
  <2> QED
    BY <2>2, <2>3, <2>4
<1>10. PICK m : m = [term |-> currentTerm[s], from |-> s, to |-> p, prevLogIndex |-> prev,
                    prevLogTerm |-> getLog(s, prev).term, entries |-> sent,
                    leaderCommit |-> commitIndex[s]]
  OBVIOUS
<1>11. aeReq' = aeReq \cup {m}
  BY <1>4, <1>8, <1>10 DEF AppendLoop
<1>12. /\ m.term = currentTerm[s] /\ m.from = s /\ m.to = p /\ m.prevLogIndex = prev
       /\ m.prevLogTerm = getLog(s, prev).term /\ m.entries = sent
       /\ m.leaderCommit = commitIndex[s]
  BY <1>10
<1>13. /\ m.term \in Term /\ m.prevLogIndex \in Nat /\ m.prevLogTerm \in Nat
       /\ m.entries \in Seq(Entry) /\ m.leaderCommit \in Nat
  BY <1>3, <1>5, <1>6, <1>7, <1>9, <1>12
<1>14. AppendFromLeader(m)
  <2>1. prev + Len(sent) = Len(L)
    BY <1>3, <1>5, <1>6, <1>9
  <2>2. commitIndex[s] = lastApplied[s] /\ Len(applied[s]) = lastApplied[s] /\ commitIndex[s] <= Len(L)
    BY <1>0, <1>6 DEF Serves
  <2>3. SubSeq(L, 1, commitIndex[s]) = applied[s]
    <3>1. \A j \in 1 .. commitIndex[s] : L[j] = applied[s][j] /\ L[j] \in Entry
      BY <1>3, <1>6, <2>2, ElementOfSeq
    <3>2. /\ SubSeq(L, 1, commitIndex[s]) \in Seq(Entry)
          /\ Len(SubSeq(L, 1, commitIndex[s])) = commitIndex[s]
          /\ \A j \in 1 .. commitIndex[s] : SubSeq(L, 1, commitIndex[s])[j] = L[j]
      BY <1>3, <3>1, SubSeqProperties
    <3> QED
      BY SMTT(30), <1>3, <2>2, <3>1, <3>2, SeqEqual
  <2>4. Safe(SubSeq(L, 1, commitIndex[s]), currentTerm[s])
    BY <1>0, <2>3 DEF Serves
  <2>5. getLog(s, prev).term = IF prev = 0 THEN 0 ELSE L[prev].term
    BY <1>5, <1>7
  <2> QED
    BY <1>1, <1>6, <1>9, <1>12, <2>1, <2>2, <2>4, <2>5 DEF AppendFromLeader
<1>15. LogTypeOK'
  BY <1>0, <1>2, <1>11, <1>13 DEF LogTypeOK, persisted, volatile, leading
<1>16. Calm /\ DiskCurrent'
  BY <1>0, <1>2 DEF Calm, DiskCurrent, persisted
<1>17. Grow(s) /\ NoNewAck(s)
  BY <1>16, CalmGrows, CalmAcks
<1>18. \A n \in aeReq' : n \in aeReq \/ AppendFromLeader(n)'
  BY <1>0, <1>11, <1>13, <1>14, <1>15, <1>17, AppendFromLeaderStays
<1>19. \A q \in Server : Same(q)
  BY <1>2 DEF persisted, volatile, leading, Same, SameLog, SameRole, SameCounts, SameService
<1>20. SameLog(s) /\ SameService(s) /\ RoleOK(s)
  BY <1>19 DEF Same, RoleOK
<1> QED
  BY <1>2, <1>15, <1>16, <1>17, <1>18, <1>19, <1>20, RoleStep

(* A beginning of something safe is safe. *)
LEMMA SafeBeginning ==
  ASSUME NEW x \in Seq(Entry), NEW y \in Seq(Entry), NEW t, Safe(x, t),
         Len(y) <= Len(x), \A j \in 1 .. Len(y) : y[j] = x[j]
  PROVE  Safe(y, t)
<1> SUFFICES ASSUME Len(y) > 0 PROVE Safe(y, t)
  BY DEF Safe
<1>1. Len(x) \in Nat /\ Len(y) \in Nat /\ Len(x) > 0
  BY LenProperties
<1>2. PICK k \in 0 .. t : \E i \in 1 .. Len(leaderLog[k]) :
        /\ Committed(k, i) /\ Len(x) <= i
        /\ \A j \in 1 .. Len(x) : x[j] = leaderLog[k][j]
  BY <1>1 DEF Safe
<1>3. PICK i \in 1 .. Len(leaderLog[k]) :
        /\ Committed(k, i) /\ Len(x) <= i
        /\ \A j \in 1 .. Len(x) : x[j] = leaderLog[k][j]
  BY <1>2
<1>4. i \in Int /\ Len(y) <= i
  BY <1>1, <1>3
<1>5. \A j \in 1 .. Len(y) : y[j] = leaderLog[k][j]
  BY <1>1, <1>3
<1> QED
  BY <1>3, <1>4, <1>5 DEF Safe

(* InstallSnapshot carries the leader's snapshot, a committed beginning. *)
LEMMA SendSnapshotKeeps ==
  ASSUME FullInv, Inv', Monotone, NEW s \in Server, NEW p \in Server, sendSnapshot(s, p)
  PROVE  LogInv'
<1> DEFINE base == lastIncludedIndex[s]
           L == leaderLog[currentTerm[s]]
<1>0. TypeOK /\ LogTypeOK /\ DiskCurrent /\ Serves(s)
  BY DEF FullInv, Inv, LogInv, PeersKeepLogs
<1>1. state[s] = Leader /\ p # s
  BY DEF sendSnapshot
<1>2. /\ UNCHANGED <<state, persisted, volatile, leading, disk, rvReq, rvRep, aeReq, aeRep, isRep>>
      /\ UNCHANGED <<elected, leaderLog>>
  BY DEF sendSnapshot
<1>3. PICK data : data = disk[s].snapshot
  OBVIOUS
<1>4. PICK m : m = [term |-> currentTerm[s], from |-> s, to |-> p, lastIncludedIndex |-> base,
                    lastIncludedTerm |-> lastIncludedTerm[s], data |-> data]
  OBVIOUS
<1>5. isReq' = isReq \cup {m}
  BY <1>3, <1>4 DEF sendSnapshot
<1>6. /\ m.term = currentTerm[s] /\ m.from = s /\ m.to = p /\ m.lastIncludedIndex = base
      /\ m.lastIncludedTerm = lastIncludedTerm[s] /\ m.data = data
  BY <1>4
<1>7. /\ base \in Nat /\ applied[s] \in Seq(Entry) /\ data \in Seq(Entry)
      /\ lastIncludedTerm[s] \in Nat /\ lastApplied[s] \in Nat /\ getLastLogIdx(s) \in Nat
  BY <1>0, <1>3, LogShape DEF LogTypeOK
<1>8. /\ currentTerm[s] \in Term /\ <<currentTerm[s], s>> \in elected
      /\ Len(L) = getLastLogIdx(s)
      /\ \A j \in 1 .. lastApplied[s] : applied[s][j] = L[j]
  BY <1>1, LeaderHolds
<1>9. /\ Len(applied[s]) = lastApplied[s] /\ base <= lastApplied[s] /\ lastApplied[s] <= getLastLogIdx(s)
      /\ Safe(applied[s], currentTerm[s]) /\ Len(data) = base
      /\ \A j \in 1 .. base : data[j] = applied[s][j]
      /\ lastIncludedTerm[s] = IF base = 0 THEN 0 ELSE applied[s][base].term
  BY <1>0, <1>3 DEF Serves
<1>10. \A j \in 1 .. Len(data) : data[j] = applied[s][j] /\ data[j] = L[j]
  BY <1>7, <1>8, <1>9
<1>11. Safe(data, currentTerm[s])
  BY <1>7, <1>9, <1>10, SafeBeginning
<1>12. Len(data) <= Len(L) /\ (Len(data) > 0 => lastIncludedTerm[s] = data[Len(data)].term)
  BY <1>7, <1>8, <1>9
<1>13. SnapshotFromLeader(m)
  BY <1>1, <1>6, <1>8, <1>9, <1>10, <1>11, <1>12 DEF SnapshotFromLeader
<1>14. /\ m.term \in Term /\ m.lastIncludedIndex \in Nat /\ m.lastIncludedTerm \in Nat
       /\ m.data \in Seq(Entry)
  BY <1>6, <1>7, <1>8
<1>15. LogTypeOK'
  BY <1>0, <1>2, <1>5, <1>14 DEF LogTypeOK, persisted, volatile, leading
<1>16. Calm /\ DiskCurrent'
  BY <1>0, <1>2 DEF Calm, DiskCurrent, persisted
<1>17. Grow(s) /\ NoNewAck(s)
  BY <1>16, CalmGrows, CalmAcks
<1>18. \A n \in isReq' : n \in isReq \/ SnapshotFromLeader(n)'
  BY <1>0, <1>5, <1>13, <1>14, <1>15, <1>17, SnapshotFromLeaderStays
<1>19. \A q \in Server : Same(q)
  BY <1>2 DEF persisted, volatile, leading, Same, SameLog, SameRole, SameCounts, SameService
<1>20. SameLog(s) /\ SameService(s) /\ RoleOK(s)
  BY <1>19 DEF Same, RoleOK
<1> QED
  BY <1>2, <1>15, <1>16, <1>17, <1>18, <1>19, <1>20, RoleStep

(* A reply of a newer term (VoteReplyStale, AppendReplyStale, SnapshotReply). *)
LEMMA BeFollowerKeeps ==
  ASSUME FullInv, Inv', Monotone, NEW s \in Server, NEW t, beFollower(s, t),
         UNCHANGED <<volatile, leading, network, elected, leaderLog>>
  PROVE  LogInv'
<1>0. TypeOK /\ LogTypeOK /\ DiskCurrent
  BY DEF FullInv, Inv, LogInv
<1>1. /\ UNCHANGED <<log, lastIncludedIndex, lastIncludedTerm>> /\ persist(s)
      /\ state'[s] = Follower
      /\ \A q \in Server \ {s} : /\ state'[q] = state[q] /\ currentTerm'[q] = currentTerm[q]
                                 /\ votedFor'[q] = votedFor[q]
  BY <1>0 DEF beFollower, TypeOK
<1>2. \A q \in Server : disk'[q].snapshot = disk[q].snapshot
  BY <1>0, <1>1, PersistKeepsSnapshot
<1>3. LogTypeOK'
  BY <1>0, <1>1, <1>2 DEF LogTypeOK, volatile, leading, network
<1>4. Calm
  BY DEF Calm, network
<1>5. Grow(s) /\ NoNewAck(s)
  BY <1>4, CalmGrows, CalmAcks
<1>6. \A q \in Server : SameLog(q) /\ SameCounts(q) /\ SameService(q)
  BY <1>1, <1>2 DEF volatile, leading, SameLog, SameCounts, SameService
<1>7. \A q \in Server \ {s} : Same(q)
  BY <1>1, <1>6 DEF Same, SameRole
<1>8. DiskCurrent'
  BY <1>0, <1>1, <1>6, DiskWritten DEF SameService
<1>9. RoleOK(s)
  BY <1>1 DEF RoleOK
<1> QED
  BY <1>3, <1>5, <1>6, <1>7, <1>8, <1>9, RoleStep DEF network

(* A vote goes to a candidate whose log is no older: it knows all the voter *)
(* acknowledged that can still be committed (the up-to-date test).          *)
LEMMA RequestVoteKeeps ==
  ASSUME FullInv, Inv', Monotone, NEW m \in rvReq, RequestVote(m)
  PROVE  LogInv'
<1> DEFINE s == m.to
           newer == m.term > currentTerm[s]
           grant == MayVote(s, m) /\ UpToDate(s, m)
<1>0. TypeOK /\ LogTypeOK /\ DiskCurrent /\ LeaderLogs /\ LeadersComplete /\ Keeps(s) /\ NamesLog(m)
  BY DEF FullInv, Inv, LogInv, PeersKeepLogs, VotesKnowAcks, TypeOK
<1>1. s \in Server /\ m.term \in Term /\ m.term \in Nat /\ currentTerm[s] \in Nat /\ m.from \in Server
  BY <1>0, TermNat DEF TypeOK
<1>2. /\ UNCHANGED <<log, lastIncludedIndex, lastIncludedTerm>>
      /\ UNCHANGED <<volatile, leading, rvReq, aeReq, aeRep, isReq, isRep, elected, leaderLog>>
      /\ state' = [state EXCEPT ![s] = IF newer \/ grant THEN Follower ELSE @]
      /\ currentTerm' = [currentTerm EXCEPT ![s] = Max2(m.term, currentTerm[s])]
      /\ votedFor' = [votedFor EXCEPT ![s] = IF grant THEN m.from ELSE IF newer THEN NULL ELSE votedFor[s]]
      /\ IF newer \/ grant THEN persist(s) ELSE UNCHANGED disk
  BY DEF RequestVote
<1>2a. \A r \in rvRep' : r \in rvRep \/ r = [argTerm |-> m.term, term |-> Max2(m.term, currentTerm[s]),
         granted |-> grant, from |-> s, to |-> m.from, round |-> m.round]
  BY DEF RequestVote
<1>2b. \A r \in rvRep' : r \in rvRep \/
         /\ r.term = Max2(m.term, currentTerm[s]) /\ (r.granted = grant)
         /\ r.from = s /\ r.to = m.from /\ r.round = m.round
  <2> HIDE DEF grant
  <2> QED
    BY <1>2a
<1>3. \A q \in Server : disk'[q].snapshot = disk[q].snapshot
  BY <1>0, <1>1, <1>2, PersistKeepsSnapshot
<1>4. LogTypeOK'
  BY <1>0, <1>2, <1>3 DEF LogTypeOK, volatile, leading
<1>5. Calm
  BY <1>2 DEF Calm
<1>6. Grow(s) /\ NoNewAck(s)
  BY <1>1, <1>5, CalmGrows, CalmAcks
<1>7. \A q \in Server : SameLog(q) /\ SameCounts(q) /\ SameService(q)
  BY <1>2, <1>3 DEF volatile, leading, SameLog, SameCounts, SameService
<1>8. \A q \in Server \ {s} : /\ state'[q] = state[q] /\ currentTerm'[q] = currentTerm[q]
                            /\ votedFor'[q] = votedFor[q]
  BY <1>0, <1>2 DEF TypeOK
<1>9. \A q \in Server \ {s} : Same(q)
  BY <1>7, <1>8 DEF Same, SameRole
<1>10. CASE newer \/ grant
  <2>1. RoleOK(s)
    BY <1>0, <1>1, <1>2, <1>10 DEF TypeOK, RoleOK
  <2>2. DiskCurrent'
    BY <1>0, <1>1, <1>2, <1>7, <1>8, <1>10, DiskWritten DEF SameService
  <2>3. ASSUME NEW r \in rvRep', r \notin rvRep PROVE KnowsAcks(r)'
    <3> SUFFICES ASSUME r.granted PROVE KnowsAcks(r)'
      BY DEF KnowsAcks
    <3>1. /\ r.term = Max2(m.term, currentTerm[s]) /\ (r.granted = grant)
          /\ r.from = s /\ r.to = m.from /\ r.round = m.round
      BY <1>2b, <2>3
    <3>2. grant
      BY <3>1
    <3>3. r.term = m.term
      BY <1>1, <3>1, <3>2 DEF MayVote, Max2
    <3>4. ASSUME NEW t \in 0 .. r.term - 1, NEW i, At(t, i, t), Acked(s, t, i), ~Blocked(t, i)
          PROVE  i <= m.lastLogIndex /\ At(m.lastLogTerm, i, t)
      <4>1. t \in Term /\ t \in Nat /\ i \in Nat
        <5>1. t \in Term /\ t \in Nat
          BY <1>1, <3>3, BoundAssumption DEF Term
        <5> QED
          BY <3>4, <5>1 DEF At
      <4>2. i <= getLastLogIdx(s) /\ At(getLastLogTerm(s), i, t)
        BY <1>0, <3>4, <4>1 DEF Keeps, At
      <4>3. /\ getLastLogTerm(s) \in Term /\ getLastLogTerm(s) \in Nat
            /\ m.lastLogTerm \in Term /\ m.lastLogTerm \in Nat
            /\ m.lastLogIndex \in Nat /\ getLastLogIdx(s) \in Nat
        BY <1>0, <1>1, LastEntry, LogShape, TermNat DEF NamesLog, LogTypeOK
      <4>4. CASE m.lastLogTerm = getLastLogTerm(s) /\ m.lastLogIndex >= getLastLogIdx(s)
        BY <4>1, <4>2, <4>3, <4>4
      <4>5. CASE m.lastLogTerm > getLastLogTerm(s)
        <5>1. At(m.lastLogTerm, m.lastLogIndex, m.lastLogTerm) /\ m.lastLogIndex > 0
          BY <1>0, <4>3, <4>5 DEF NamesLog
        <5>2. t < m.lastLogTerm
          <6>1. t \in 1 .. getLastLogTerm(s)
            BY <1>0, <4>2, <4>3, AtItsOwn
          <6> QED
            BY <4>3, <4>5, <6>1
        <5>3. PICK l \in Server : <<m.lastLogTerm, l>> \in elected
          BY <1>0, <4>3, <5>1, LogHasLeader
        <5>4. At(m.lastLogTerm, i, t)
          <6>1. Complete(<<m.lastLogTerm, l>>)
            BY <1>0, <5>3 DEF LeadersComplete
          <6>2. t \in 0 .. m.lastLogTerm - 1
            BY <4>1, <4>3, <5>2
          <6> QED
            BY <3>4, <6>1, <6>2 DEF Complete, At
        <5>5. i <= m.lastLogIndex
          <6> SUFFICES ASSUME m.lastLogIndex <= i PROVE i = m.lastLogIndex
            BY <4>1, <4>3
          <6>1. m.lastLogTerm <= t
            BY <1>0, <4>3, <5>1, <5>4 DEF LeaderLogs, At
          <6> QED
            BY <4>1, <4>3, <5>2, <6>1
        <5> QED
          BY <5>4, <5>5
      <4> QED
        BY <3>2, <4>4, <4>5 DEF UpToDate
    <3>5. ASSUME NEW t \in 0 .. r.term - 1, NEW i, At(t, i, t)', Acked(s, t, i)'
          PROVE  \/ i <= m.lastLogIndex /\ At(m.lastLogTerm, i, t)'
                 \/ Blocked(t, i)'
      <4>1. t \in Term /\ t \in Nat
        BY <1>1, <3>3, BoundAssumption DEF Term
      <4>2. At(t, i, t) /\ Acked(s, t, i)
        BY <1>6, <3>5, <4>1 DEF NoNewAck
      <4>3. m.lastLogTerm \in Term /\ TypeOK'
        BY <1>0 DEF NamesLog, Inv
      <4> QED
        BY <1>0, <1>1, <1>4, <1>6, <3>4, <4>1, <4>2, <4>3, AtStays, BlockedStays
    <3>6. m \in rvReq'
      BY <1>2
    <3> QED
      BY <3>1, <3>3, <3>5, <3>6 DEF KnowsAcks
  <2> QED
    BY <1>1, <1>2, <1>4, <1>6, <1>7, <1>9, <2>1, <2>2, <2>3, RoleStep
<1>11. CASE ~(newer \/ grant)
  <2>1. currentTerm' = currentTerm /\ votedFor' = votedFor /\ state' = state /\ disk' = disk
    BY <1>0, <1>1, <1>2, <1>11 DEF TypeOK, Max2
  <2>2. RoleOK(s)
    BY <1>1, <1>7, <2>1 DEF RoleOK, SameRole
  <2>3. DiskCurrent'
    BY <1>0, <1>2, <2>1 DEF DiskCurrent
  <2>4. \A r \in rvRep' : r \in rvRep \/ ~r.granted
    BY <1>11, <1>2b
  <2>5. \A r \in rvRep' : r \in rvRep \/ KnowsAcks(r)'
    BY <2>4 DEF KnowsAcks
  <2> QED
    BY <1>1, <1>2, <1>4, <1>6, <1>7, <1>9, <2>2, <2>3, <2>5, RoleStep
<1> QED
  BY <1>10, <1>11

(* A peer restarts with the log it had, and a service at its snapshot. *)
LEMMA RestartKeepsLogs ==
  ASSUME FullInv, Inv', Monotone, NEW s \in Server, Restart(s)
  PROVE  LogInv'
<1>0. TypeOK /\ LogTypeOK /\ DiskCurrent /\ Serves(s) /\ Inv
  BY DEF FullInv, Inv, LogInv, PeersKeepLogs
<1>1. currentTerm' = currentTerm /\ votedFor' = votedFor
  BY <1>0, RestartKeeps
<1>2. /\ UNCHANGED <<disk, network, elected, leaderLog>> /\ state'[s] = Follower
      /\ \A q \in Server \ {s} : /\ state'[q] = state[q] /\ nextIndex'[q] = nextIndex[q]
                                 /\ matchIndex'[q] = matchIndex[q]
      /\ nextIndex' \in [Server -> [Server -> Nat]] /\ matchIndex' \in [Server -> [Server -> Nat]]
  BY <1>0 DEF Restart, RestartVolatile, TypeOK, LogTypeOK
<1>3. log' = log /\ lastIncludedIndex' = lastIncludedIndex /\ lastIncludedTerm' = lastIncludedTerm
  BY <1>0 DEF Restart, readPersist, DiskCurrent, LogTypeOK
<1>4. /\ commitIndex'[s] = lastIncludedIndex[s] /\ lastApplied'[s] = lastIncludedIndex[s]
      /\ applied'[s] = disk[s].snapshot
      /\ \A q \in Server \ {s} : /\ commitIndex'[q] = commitIndex[q] /\ lastApplied'[q] = lastApplied[q]
                                 /\ applied'[q] = applied[q]
      /\ commitIndex' \in [Server -> Nat] /\ lastApplied' \in [Server -> Nat]
      /\ applied' \in [Server -> Seq(Entry)]
  BY <1>0 DEF Restart, readPersist, DiskCurrent, LogTypeOK
<1>5. LogTypeOK'
  BY <1>0, <1>2, <1>3, <1>4 DEF LogTypeOK, network
<1>6. DiskCurrent'
  BY <1>0, <1>1, <1>2, <1>3 DEF DiskCurrent
<1>7. Calm
  BY <1>2 DEF Calm, network
<1>8. Grow(s) /\ NoNewAck(s)
  BY <1>7, CalmGrows, CalmAcks
<1>9. SameLog(s) /\ \A q \in Server \ {s} : Same(q)
  BY <1>1, <1>2, <1>3, <1>4 DEF Same, SameLog, SameRole, SameCounts, SameService
<1>10. Standing(s) /\ Leads(s)' /\ Counts(s)'
  BY <1>2 DEF Standing, Leads, Counts
<1>11. Serves(s)'
  <2>1. /\ lastIncludedIndex[s] \in Nat /\ lastApplied[s] \in Nat /\ getLastLogIdx(s) \in Nat
        /\ applied[s] \in Seq(Entry) /\ disk[s].snapshot \in Seq(Entry) /\ currentTerm[s] \in Term
    BY <1>0, LogShape DEF LogTypeOK, TypeOK
  <2>2. /\ Len(applied[s]) = lastApplied[s] /\ lastIncludedIndex[s] <= lastApplied[s]
        /\ lastApplied[s] <= getLastLogIdx(s) /\ Safe(applied[s], currentTerm[s])
        /\ Len(disk[s].snapshot) = lastIncludedIndex[s]
        /\ \A j \in 1 .. lastIncludedIndex[s] : disk[s].snapshot[j] = applied[s][j]
        /\ lastIncludedTerm[s] =
             IF lastIncludedIndex[s] = 0 THEN 0 ELSE applied[s][lastIncludedIndex[s]].term
    BY <1>0 DEF Serves
  <2>3. Safe(disk[s].snapshot, currentTerm[s])
    BY <2>1, <2>2, SafeBeginning
  <2>4. currentTerm[s] <= currentTerm[s]
    BY <2>1, TermOrder
  <2>5. Safe(applied[s], currentTerm[s])'
    BY <1>0, <1>1, <1>4, <1>5, <1>8, <2>1, <2>3, <2>4, SafeStays
  <2>6. getLastLogIdx(s)' = getLastLogIdx(s) /\ lastIncludedIndex'[s] = lastIncludedIndex[s]
        /\ disk'[s].snapshot = disk[s].snapshot /\ lastIncludedTerm'[s] = lastIncludedTerm[s]
    BY <1>2, <1>3, <1>9, SameLogFacts
  <2>7. /\ lastIncludedIndex[s] <= lastIncludedIndex[s] /\ lastIncludedIndex[s] <= getLastLogIdx(s)
        /\ lastIncludedIndex[s] # 0 => lastIncludedIndex[s] \in 1 .. lastIncludedIndex[s]
    BY <2>1, <2>2
  <2>8. \A j \in lastIncludedIndex[s] + 1 .. lastIncludedIndex[s] : FALSE
    BY <2>1
  <2> QED
    BY <1>4, <2>2, <2>5, <2>6, <2>7, <2>8 DEF Serves
<1> QED
  BY <1>2, <1>5, <1>6, <1>8, <1>9, <1>10, <1>11, SameLogStep DEF network

(* Compaction keeps the term of the entry the snapshot ends with, and the   *)
(* log above it.                                                            *)
LEMMA DoSnapShotKeeps ==
  ASSUME FullInv, Inv', Monotone, NEW s \in Server, NEW i \in 1 .. lastApplied[s], DoSnapShot(s, i)
  PROVE  LogInv'
<1> DEFINE base == lastIncludedIndex[s]
           lt == getLastLogTerm(s)
<1>0. /\ TypeOK /\ LogTypeOK /\ DiskCurrent /\ LeaderLogs
      /\ HasPiece(s) /\ Leads(s) /\ Counts(s) /\ Serves(s)
  BY DEF FullInv, Inv, LogInv, PeersKeepLogs
<1>1. /\ base \in Nat /\ log[s] \in Seq(Entry) /\ Len(log[s]) \in Nat /\ Len(log[s]) > 0
      /\ getLastLogIdx(s) \in Nat /\ getLastLogIdx(s) = base + Len(log[s]) - 1
      /\ logLen(s) = getLastLogIdx(s) + 1
      /\ lastApplied[s] \in Nat /\ applied[s] \in Seq(Entry) /\ currentTerm[s] \in Term
      /\ lastApplied[s] <= getLastLogIdx(s) /\ Len(applied[s]) = lastApplied[s]
  BY <1>0, LogShape DEF LogTypeOK, TypeOK, Serves
<1>2. i \in Nat /\ i > base /\ i <= lastApplied[s] /\ i <= getLastLogIdx(s) /\ i > 0
  BY SMTT(30), <1>1 DEF DoSnapShot
<1>3. PICK lg : lg = SubSeq(log[s], i - base + 1, Len(log[s]))
  OBVIOUS
<1>4. PICK snap : snap = SubSeq(applied[s], 1, i)
  OBVIOUS
<1>5. /\ log' = [log EXCEPT ![s] = lg] /\ lastIncludedIndex' = [lastIncludedIndex EXCEPT ![s] = i]
      /\ lastIncludedTerm' = [lastIncludedTerm EXCEPT ![s] = getLog(s, i).term]
      /\ persistWithSnapShot(s, snap)
  BY <1>3, <1>4 DEF DoSnapShot
<1>6. /\ UNCHANGED <<state, currentTerm, votedFor, volatile, leading, network, elected, leaderLog>>
  BY DEF DoSnapShot
<1>7. /\ log'[s] = lg /\ lastIncludedIndex'[s] = i /\ lastIncludedTerm'[s] = getLog(s, i).term
      /\ \A q \in Server \ {s} : /\ log'[q] = log[q] /\ lastIncludedIndex'[q] = lastIncludedIndex[q]
                                 /\ lastIncludedTerm'[q] = lastIncludedTerm[q]
  BY <1>0, <1>5 DEF LogTypeOK
<1>8. /\ lg \in Seq(Entry) /\ Len(lg) = getLastLogIdx(s) - i + 1
      /\ \A k \in 1 .. Len(lg) : lg[k] = getLog(s, i + k - 1)
  <2>1. i - base + 1 \in 1 .. Len(log[s]) + 1
    BY SMTT(30), <1>1, <1>2
  <2>2. /\ lg \in Seq(Entry) /\ Len(lg) = Len(log[s]) - (i - base + 1) + 1
        /\ \A k \in 1 .. Len(log[s]) - (i - base + 1) + 1 : lg[k] = log[s][(i - base + 1) + k - 1]
    BY <1>1, <1>3, <2>1, SuffixFacts
  <2>3. Len(log[s]) - (i - base + 1) + 1 = getLastLogIdx(s) - i + 1
    BY SMTT(30), <1>1, <1>2
  <2>4. ASSUME NEW k \in 1 .. getLastLogIdx(s) - i + 1
        PROVE  lg[k] = getLog(s, i + k - 1)
    <3>1. k \in Int /\ i \in Int /\ base \in Int
      BY <1>1, <1>2, <2>4
    <3>2. (i - base + 1) + k - 1 = (i + k - 1) - base + 1
      BY <3>1
    <3> QED
      BY <2>2, <2>3, <2>4, <3>2 DEF getLog, EntryAt
  <2> QED
    BY <2>2, <2>3, <2>4
<1>9. /\ snap \in Seq(Entry) /\ Len(snap) = i /\ \A j \in 1 .. i : snap[j] = applied[s][j]
  <2>1. \A j \in 1 .. i : applied[s][j] \in Entry
    BY <1>1, <1>2, ElementOfSeq
  <2> QED
    BY <1>2, <1>4, <2>1, SubSeqProperties
<1>10. Len(lg) \in Nat /\ Len(lg) > 0
  BY <1>1, <1>2, <1>8
<1>11. \A j \in i .. getLastLogIdx(s) : getLog(s, j)' = getLog(s, j)
  <2> TAKE j \in i .. getLastLogIdx(s)
  <2>1. j - i + 1 \in 1 .. Len(lg) /\ i + (j - i + 1) - 1 = j
    BY <1>1, <1>2, <1>8
  <2>2. getLog(s, j)' = lg[j - i + 1]
    BY <1>7 DEF getLog, EntryAt
  <2> QED
    BY <1>8, <2>1, <2>2
<1>12. /\ getLastLogIdx(s)' = getLastLogIdx(s) /\ getLastLogTerm(s)' = lt
       /\ logLen(s)' = logLen(s)
  <2>1. getLastLogIdx(s)' = getLastLogIdx(s) /\ logLen(s)' = logLen(s)
    BY SMTT(30), <1>1, <1>2, <1>7, <1>8 DEF getLastLogIdx, logLen
  <2>2. getLastLogTerm(s)' = getLog(s, getLastLogIdx(s))'.term
    BY DEF getLastLogTerm
  <2>3. getLastLogIdx(s) \in i .. getLastLogIdx(s)
    BY <1>1, <1>2
  <2>4. getLog(s, getLastLogIdx(s))' = getLog(s, getLastLogIdx(s))
    BY <1>11, <2>1, <2>3
  <2> QED
    BY <2>1, <2>2, <2>4 DEF getLastLogTerm
<1>13. ASSUME NEW t, PieceOf(t, base, log[s]) PROVE PieceOf(t, i, lg)
  <2>1. /\ t \in Term /\ getLastLogIdx(s) <= Len(leaderLog[t])
        /\ \A j \in base + 1 .. getLastLogIdx(s) : getLog(s, j) = leaderLog[t][j]
    BY <1>0, <1>13, PieceEntries
  <2>2. i + Len(lg) - 1 = getLastLogIdx(s) /\ 1 \in 1 .. Len(lg) /\ i + 1 - 1 = i
        /\ i \in base + 1 .. getLastLogIdx(s) /\ i # 0
    BY SMTT(30), <1>1, <1>2, <1>8
  <2>3. lg[1] = leaderLog[t][i]
    BY <1>8, <2>1, <2>2
  <2>4. \A j \in i + 1 .. getLastLogIdx(s) : lg[j - i + 1] = leaderLog[t][j]
    <3> TAKE j \in i + 1 .. getLastLogIdx(s)
    <3>0. PICK top : top = getLastLogIdx(s)
      OBVIOUS
    <3>1. /\ j \in Int /\ i \in Int /\ base \in Int /\ top \in Int
          /\ i + 1 <= j /\ j <= top /\ base < i /\ Len(lg) = top - i + 1
      BY <1>1, <1>2, <1>8, <3>0
    <3>2. j - i + 1 \in 1 .. Len(lg) /\ i + (j - i + 1) - 1 = j /\ j \in base + 1 .. top
      BY SMTT(30), <3>1
    <3> QED
      BY <1>8, <2>1, <3>0, <3>2
  <2> QED
    BY <2>1, <2>2, <2>3, <2>4 DEF PieceOf
<1>14. \A q \in Server \ {s} : disk'[q] = disk[q]
  BY <1>0, <1>5 DEF TypeOK, persistWithSnapShot
<1>15. disk'[s].snapshot = snap
  BY <1>0, <1>5 DEF TypeOK, persistWithSnapShot
<1>16. getLog(s, i).term \in Nat /\ getLog(s, i) = applied[s][i]
  <2>1. i \in base + 1 .. lastApplied[s] /\ i - base + 1 \in 1 .. Len(log[s])
    BY SMTT(30), <1>1, <1>2
  <2> QED
    BY <1>0, <2>1, LogShape DEF Serves, getLog, EntryAt
<1>17. LogTypeOK'
  <2>1. log' \in [Server -> Seq(Entry)] /\ lastIncludedIndex' \in [Server -> Nat]
        /\ lastIncludedTerm' \in [Server -> Nat]
    BY <1>0, <1>2, <1>5, <1>8, <1>16 DEF LogTypeOK
  <2>2. \A q \in Server : Len(log'[q]) > 0
    BY <1>0, <1>7, <1>10 DEF LogTypeOK
  <2>3. \A q \in Server : disk'[q].snapshot \in Seq(Entry)
    BY <1>0, <1>9, <1>14, <1>15 DEF LogTypeOK
  <2> QED
    BY <1>0, <1>6, <2>1, <2>2, <2>3 DEF LogTypeOK, volatile, leading, network
<1>18. DiskCurrent'
  BY <1>0, <1>5, <1>6, <1>7, DiskWritten DEF SameLog
<1>19. Calm
  BY <1>6 DEF Calm, network
<1>20. Grow(s) /\ NoNewAck(s)
  BY <1>19, CalmGrows, CalmAcks
<1>21. \A q \in Server \ {s} : Same(q)
  BY <1>6, <1>7, <1>14 DEF volatile, leading, Same, SameLog, SameRole, SameCounts, SameService
<1>22. LeaderLogs'
  BY <1>0, <1>6, CalmLeaderLogs
<1>23. TypeOK'
  BY DEF Inv
<1>24. HasPiece(s)'
  <2>0. PICK t : t = lt
    OBVIOUS
  <2>1. PieceOf(t, i, lg) /\ t <= currentTerm[s]
    BY <1>0, <1>13, <2>0 DEF HasPiece
  <2>2. PieceOf(t, i, lg)'
    BY <1>0, <1>2, <1>8, <1>10, <1>17, <1>20, <2>1, PieceStays
  <2> QED
    BY <1>6, <1>7, <1>12, <2>0, <2>1, <2>2 DEF HasPiece
<1>25. Leads(s)'
  <2>1. CASE state[s] = Leader
    <3>0. PICK t : t = currentTerm[s]
      OBVIOUS
    <3>1. PieceOf(t, i, lg) /\ <<t, s>> \in elected /\ t > 0 /\ Len(leaderLog[t]) = getLastLogIdx(s)
      BY <1>0, <1>13, <2>1, <3>0 DEF Leads
    <3>2. PieceOf(t, i, lg)'
      BY <1>0, <1>2, <1>8, <1>10, <1>17, <1>20, <3>1, PieceStays
    <3> QED
      BY <1>6, <1>7, <1>12, <2>1, <3>0, <3>1, <3>2 DEF Leads
  <2>2. CASE state[s] # Leader
    BY <1>0, <1>6, <2>2 DEF Leads
  <2> QED
    BY <2>1, <2>2
<1>26. Keeps(s)'
  BY <1>12, <1>17, <1>20, <1>23, KeepsStays
<1>27. Counts(s)'
  <2>1. commitIndex[s] <= commitIndex'[s] /\ getLastLogIdx(s) <= getLastLogIdx(s)'
        /\ state'[s] = state[s] /\ currentTerm'[s] = currentTerm[s] /\ SameCounts(s)
    <3>1. commitIndex[s] \in Nat
      BY <1>0 DEF LogTypeOK
    <3> QED
      BY <1>1, <1>6, <1>12, <3>1 DEF volatile, leading, SameCounts
  <2> QED
    BY <1>0, <1>17, <1>20, <2>1, CountsStays
<1>28. Serves(s)'
  <2>1. Safe(applied[s], currentTerm[s])'
    <3>1. Safe(applied[s], currentTerm[s]) /\ currentTerm[s] <= currentTerm[s]
      BY <1>0, <1>1, TermOrder DEF Serves
    <3> QED
      BY <1>0, <1>1, <1>6, <1>17, <1>20, <3>1, SafeStays DEF volatile
  <2>2. /\ lastIncludedTerm'[s] = applied[s][i].term /\ Len(disk'[s].snapshot) = i
        /\ \A j \in 1 .. i : disk'[s].snapshot[j] = applied[s][j]
    BY <1>7, <1>9, <1>15, <1>16
  <2>3. \A j \in i + 1 .. lastApplied[s] : getLog(s, j)' = applied[s][j]
    <3> TAKE j \in i + 1 .. lastApplied[s]
    <3>1. j \in i .. getLastLogIdx(s) /\ j \in base + 1 .. lastApplied[s]
      BY <1>1, <1>2
    <3> QED
      BY <1>0, <1>11, <3>1 DEF Serves
  <2>4. /\ applied' = applied /\ commitIndex' = commitIndex /\ lastApplied' = lastApplied
        /\ commitIndex[s] = lastApplied[s]
    BY <1>0, <1>6 DEF volatile, Serves
  <2> QED
    BY SMTT(30), <1>1, <1>2, <1>7, <1>12, <2>1, <2>2, <2>3, <2>4 DEF Serves
<1>29. Standing(s) /\ PeerOK(s)'
  BY <1>6, <1>12, <1>24, <1>25, <1>26, <1>27, <1>28 DEF Standing, PeerOK
<1> QED
  BY <1>6, <1>17, <1>18, <1>20, <1>21, <1>22, <1>29, StepOfPeer DEF network

-----------------------------------------------------------------------------
(* The whole log of a peer. *)

(* The entries of a peer from index 1 on: the snapshot up to the base, the  *)
(* log above it.                                                            *)
LEMMA FullLogShape ==
  ASSUME FullInv, NEW s \in Server
  PROVE  /\ FullLog(s) \in Seq(Entry) /\ Len(FullLog(s)) = getLastLogIdx(s)
         /\ \A j \in 1 .. lastIncludedIndex[s] : FullLog(s)[j] = disk[s].snapshot[j]
         /\ \A j \in lastIncludedIndex[s] + 1 .. getLastLogIdx(s) : FullLog(s)[j] = getLog(s, j)
<1>0. LogTypeOK /\ Serves(s)
  BY DEF FullInv, LogInv, PeersKeepLogs
<1>1. PICK base : base = lastIncludedIndex[s]
  OBVIOUS
<1>2. PICK top : top = getLastLogIdx(s)
  OBVIOUS
<1>3. PICK x : x = log[s]
  OBVIOUS
<1>4. PICK snap : snap = disk[s].snapshot
  OBVIOUS
<1>5. /\ base \in Nat /\ top \in Nat /\ x \in Seq(Entry) /\ Len(x) \in Nat /\ Len(x) > 0
      /\ top = base + Len(x) - 1
  BY <1>0, <1>1, <1>2, <1>3, LogShape
<1>6. snap \in Seq(Entry) /\ Len(snap) = base
  BY <1>0, <1>1, <1>4 DEF LogTypeOK, Serves
<1>7. /\ Tail(x) \in Seq(Entry) /\ Len(Tail(x)) = Len(x) - 1
      /\ \A i \in 1 .. Len(Tail(x)) : Tail(x)[i] = x[i + 1]
  <2>1. x # << >>
    BY <1>5, EmptySeq
  <2> QED
    BY <1>5, <2>1, HeadTailProperties
<1>8. /\ snap \o Tail(x) \in Seq(Entry) /\ Len(snap \o Tail(x)) = Len(snap) + Len(Tail(x))
      /\ \A i \in 1 .. Len(snap) + Len(Tail(x)) :
           (snap \o Tail(x))[i] = IF i <= Len(snap) THEN snap[i] ELSE Tail(x)[i - Len(snap)]
  BY <1>6, <1>7, ConcatProperties
<1>9. FullLog(s) = snap \o Tail(x)
  BY <1>3, <1>4 DEF FullLog
<1>10. Len(snap) + Len(Tail(x)) = top
  BY <1>5, <1>6, <1>7
<1>11. ASSUME NEW j \in 1 .. base PROVE (snap \o Tail(x))[j] = snap[j]
  <2>1. j \in 1 .. Len(snap) + Len(Tail(x)) /\ j <= Len(snap)
    BY <1>5, <1>6, <1>10
  <2> QED
    BY <1>8, <2>1
<1>12. ASSUME NEW j \in base + 1 .. top PROVE (snap \o Tail(x))[j] = x[j - base + 1]
  <2>1. j \in 1 .. Len(snap) + Len(Tail(x)) /\ ~(j <= Len(snap))
    BY <1>5, <1>6, <1>10
  <2>2. j - base \in 1 .. Len(Tail(x))
    BY <1>5, <1>7
  <2> QED
    BY <1>6, <1>7, <1>8, <2>1, <2>2
<1>13. \A j : getLog(s, j) = x[j - base + 1]
  BY <1>1, <1>3 DEF getLog, EntryAt
<1> QED
  BY ZenonT(30), <1>1, <1>2, <1>4, <1>8, <1>9, <1>10, <1>11, <1>12, <1>13

(* Two leaders of whose logs a peer holds a piece have the same log up to   *)
(* its last entry.                                                          *)
LEMMA SameEnd ==
  ASSUME LogTypeOK, LeaderLogs, NEW s \in Server,
         NEW t, PieceOf(t, lastIncludedIndex[s], log[s]),
         NEW u, PieceOf(u, lastIncludedIndex[s], log[s])
  PROVE  \A j \in 1 .. getLastLogIdx(s) : leaderLog[t][j] = leaderLog[u][j]
<1>1. /\ t \in Term /\ getLastLogIdx(s) <= Len(leaderLog[t])
      /\ u \in Term /\ getLastLogIdx(s) <= Len(leaderLog[u])
      /\ \A i \in lastIncludedIndex[s] .. getLastLogIdx(s) :
           /\ getLog(s, i).term = IF i = 0 THEN 0 ELSE leaderLog[t][i].term
           /\ getLog(s, i).term = IF i = 0 THEN 0 ELSE leaderLog[u][i].term
  BY SMTT(30), PieceEntries
<1>2. /\ getLastLogIdx(s) \in Nat /\ lastIncludedIndex[s] \in Nat
      /\ getLastLogIdx(s) \in lastIncludedIndex[s] .. getLastLogIdx(s)
  BY LogShape
<1>3. Len(leaderLog[t]) \in Nat /\ Len(leaderLog[u]) \in Nat
  BY <1>1, LeaderLogType
<1>4. CASE getLastLogIdx(s) = 0
  BY <1>4
<1>5. CASE getLastLogIdx(s) # 0
  <2>1. leaderLog[t][getLastLogIdx(s)].term = leaderLog[u][getLastLogIdx(s)].term
    BY <1>1, <1>2, <1>5
  <2>2. At(t, getLastLogIdx(s), leaderLog[t][getLastLogIdx(s)].term)
    BY <1>1, <1>2, <1>3, <1>5 DEF At
  <2>3. At(u, getLastLogIdx(s), leaderLog[t][getLastLogIdx(s)].term)
    BY <1>1, <1>2, <1>3, <1>5, <2>1 DEF At
  <2> QED
    BY <1>1, <2>2, <2>3, SameTermSameLog
<1> QED
  BY <1>4, <1>5

-----------------------------------------------------------------------------
(* Elections. *)

(* A reply that does not make a majority only adds a voter. *)
LEMMA VoteCountedKeeps ==
  ASSUME FullInv, Inv', Monotone, NEW s \in Server,
         UNCHANGED <<state, persisted, volatile, leading, disk, network, elected, leaderLog>>
  PROVE  LogInv'
<1>1. LogTypeOK' /\ DiskCurrent'
  BY DEF FullInv, LogInv, LogTypeOK, DiskCurrent, persisted, volatile, leading, network
<1>2. Calm
  BY DEF Calm, network
<1>3. Grow(s) /\ NoNewAck(s)
  BY <1>2, CalmGrows, CalmAcks
<1>4. \A q \in Server : Same(q)
  BY DEF persisted, volatile, leading, Same, SameLog, SameRole, SameCounts, SameService
<1>5. SameLog(s) /\ SameService(s) /\ RoleOK(s)
  BY <1>4 DEF Same, RoleOK
<1> QED
  BY <1>1, <1>3, <1>4, <1>5, RoleStep DEF network

(* What a majority of voters has not acknowledged, and the candidate does   *)
(* not hold, will never be committed.                                       *)
LEMMA WinnerHolds ==
  ASSUME FullInv, NEW s \in Server, state[s] = Candidate,
         \A l \in Server : <<currentTerm[s], l>> \notin elected,
         NEW Q \in SUBSET Server, Majority(Q),
         \A v \in Q \ {s} : Granted(v, s, currentTerm[s]),
         NEW t \in 0 .. currentTerm[s] - 1, NEW i, At(t, i, t), ~Blocked(t, i)
  PROVE  i <= getLastLogIdx(s) /\ At(getLastLogTerm(s), i, t)
<1>0. /\ TypeOK /\ LogTypeOK /\ VotesHeld /\ VotesKnowAcks /\ Keeps(s)
  BY DEF FullInv, Inv, LogInv, ElectionInv, PeersKeepLogs
<1>1. currentTerm[s] \in Term /\ currentTerm[s] \in Nat /\ t \in Term /\ t \in Nat /\ t < currentTerm[s]
  <2>1. currentTerm[s] \in Term
    BY <1>0 DEF TypeOK
  <2> QED
    BY <2>1, BoundAssumption DEF Term
<1>2. CASE Acked(s, t, i)
  BY <1>0, <1>1, <1>2 DEF Keeps, At
<1>3. CASE \E v \in Q \ {s} : Acked(v, t, i)
  <2>1. PICK v \in Q \ {s} : Acked(v, t, i)
    BY <1>3
  <2>2. PICK r \in rvRep : r.granted /\ r.from = v /\ r.to = s /\ r.term = currentTerm[s]
    BY <2>1 DEF Granted
  <2>3. PICK m \in rvReq :
          /\ m.from = r.to /\ m.round = r.round /\ m.term = r.term
          /\ \A u \in 0 .. r.term - 1 : \A j \in 1 .. Len(leaderLog[u]) :
               At(u, j, u) /\ Acked(r.from, u, j) =>
                 \/ j <= m.lastLogIndex /\ At(m.lastLogTerm, j, u)
                 \/ Blocked(u, j)
    BY <1>0, <2>2 DEF VotesKnowAcks, KnowsAcks
  <2>4. i <= m.lastLogIndex /\ At(m.lastLogTerm, i, t)
    BY <2>1, <2>2, <2>3 DEF At
  <2>5. m.lastLogIndex = getLastLogIdx(s) /\ m.lastLogTerm = getLastLogTerm(s)
    BY <1>0, <2>2, <2>3 DEF VotesKnowAcks, NamesLog
  <2> QED
    BY <2>4, <2>5
<1>4. CASE \A v \in Q : ~Acked(v, t, i)
  <2>1. \A v \in Q : currentTerm[v] \in Nat
    BY <1>0, TermNat DEF TypeOK
  <2>2. \A v \in Q \ {s} : currentTerm[v] >= currentTerm[s]
    BY <1>0, <1>1, <2>1 DEF Granted, VotesHeld
  <2>3. \A v \in Q : currentTerm[v] > t
    BY <1>1, <2>1, <2>2
  <2> QED
    BY <1>4, <2>3 DEF Blocked
<1> QED
  BY <1>2, <1>3, <1>4

(* Every log of the history was there before, but for that of term c, which *)
(* is the beginning of the log of term l.                                   *)
LEMMA LeaderLogsCopied ==
  ASSUME LogTypeOK, LogTypeOK', LeaderLogs, NEW s \in Server, Grow(s), NEW c \in Term, NEW l \in Term,
         \A t \in Term \ {c} : leaderLog'[t] = leaderLog[t],
         Len(leaderLog[c]) = 0, <<c, s>> \in elected', l <= c,
         Len(leaderLog'[c]) <= Len(leaderLog[l]),
         \A j \in 1 .. Len(leaderLog'[c]) : leaderLog'[c][j] = leaderLog[l][j]
  PROVE  LeaderLogs'
<1> DEFINE f(t) == IF t = c THEN l ELSE t
<1>1. \A t \in Term : /\ f(t) \in Term /\ f(t) \in Nat /\ t \in Nat /\ f(t) <= t
                      /\ Len(leaderLog[f(t)]) \in Nat /\ Len(leaderLog'[t]) \in Nat
  <2>1. \A t \in Term : t \in Nat /\ Len(leaderLog[t]) \in Nat /\ Len(leaderLog'[t]) \in Nat
    BY TermNat, LenProperties DEF LogTypeOK
  <2> QED
    BY <2>1
<1>2. \A t \in Term : /\ Len(leaderLog'[t]) <= Len(leaderLog[f(t)])
                      /\ \A j \in 1 .. Len(leaderLog'[t]) : leaderLog'[t][j] = leaderLog[f(t)][j]
  BY SMTT(30), <1>1
<1> HIDE DEF f
<1>3. \A t \in Term : \A i \in 1 .. Len(leaderLog'[t]) :
        i \in 1 .. Len(leaderLog[f(t)]) /\ leaderLog'[t][i] = leaderLog[f(t)][i]
  <2> TAKE t \in Term
  <2> TAKE i \in 1 .. Len(leaderLog'[t])
  <2>1. i \in 1 .. Len(leaderLog[f(t)])
    <3>1. PICK a : a = Len(leaderLog'[t])
      OBVIOUS
    <3>2. PICK b : b = Len(leaderLog[f(t)])
      OBVIOUS
    <3>3. a \in Nat /\ b \in Nat /\ a <= b /\ i \in 1 .. a
      BY <1>1, <1>2, <3>1, <3>2
    <3> QED
      BY <3>2, <3>3
  <2> QED
    BY <1>2, <2>1
<1>4. \A t \in Term : \A i, k : At(t, i, k)' => At(f(t), i, k)
  BY <1>3 DEF At
<1>5. \A t \in Term : Len(leaderLog'[t]) > 0 => \E p \in Server : <<t, p>> \in elected'
  <2> SUFFICES ASSUME NEW t \in Term, Len(leaderLog'[t]) > 0
               PROVE  \E p \in Server : <<t, p>> \in elected'
    OBVIOUS
  <2>1. CASE t = c
    BY <2>1
  <2>2. CASE t # c
    <3>1. \E p \in Server : <<t, p>> \in elected
      BY <2>2 DEF LeaderLogs
    <3> QED
      BY <3>1 DEF Grow
  <2> QED
    BY <2>1, <2>2
<1>6. ASSUME NEW t \in Term, NEW i \in 1 .. Len(leaderLog'[t])
      PROVE  leaderLog'[t][i].term \in 1 .. t /\ At(leaderLog[t][i].term, i, leaderLog[t][i].term)'
  <2>1. PICK k : k = leaderLog[f(t)][i].term
    OBVIOUS
  <2>2. k \in 1 .. f(t) /\ At(k, i, k)
    BY <1>1, <1>3, <2>1 DEF LeaderLogs
  <2>3. k \in Term /\ k \in 1 .. t
    <3>1. f(t) \in Term /\ f(t) \in Nat /\ t \in Nat /\ f(t) <= t
      BY <1>1
    <3> QED
      BY <2>2, <3>1, BoundAssumption DEF Term
  <2>4. At(k, i, k)'
    BY <2>2, <2>3, AtStays
  <2>5. leaderLog'[t][i].term = k
    BY <1>3, <2>1
  <2>6. At(leaderLog[t][i].term, i, leaderLog[t][i].term)'
    BY <2>4, <2>5 DEF At
  <2> QED
    BY <2>3, <2>5, <2>6
<1>7. ASSUME NEW t \in Term, NEW i \in 1 .. Len(leaderLog'[t]), NEW j \in 1 .. Len(leaderLog'[t]), i <= j
      PROVE  leaderLog'[t][i].term <= leaderLog'[t][j].term
  BY ZenonT(30), <1>1, <1>3, <1>7 DEF LeaderLogs
<1>8. ASSUME NEW t \in Term, NEW u \in Term, NEW i \in 1 .. Len(leaderLog'[t]),
             At(u, i, leaderLog[t][i].term)', NEW j \in 1 .. i
      PROVE  leaderLog'[t][j] = leaderLog'[u][j]
  <2>1. i \in 1 .. Len(leaderLog'[u]) /\ Len(leaderLog'[u]) \in Nat /\ Len(leaderLog'[t]) \in Nat
    BY <1>1, <1>8 DEF At
  <2>2. j \in 1 .. Len(leaderLog'[u]) /\ j \in 1 .. Len(leaderLog'[t])
    BY <2>1
  <2>3. At(f(u), i, leaderLog[f(t)][i].term) /\ i \in 1 .. Len(leaderLog[f(t)])
    BY <1>3, <1>8 DEF At
  <2>4. leaderLog[f(t)][j] = leaderLog[f(u)][j]
    BY <1>1, <2>3 DEF LeaderLogs
  <2> QED
    BY <1>3, <2>2, <2>4
<1> QED
  BY <1>5, <1>6, <1>7, <1>8 DEF LeaderLogs

(* A candidate that wins its term has, in its snapshot and log, what the    *)
(* leader of its last term had there.                                       *)
LEMMA WinnersLog ==
  ASSUME FullInv, NEW s \in Server, state[s] = Candidate, Len(leaderLog[currentTerm[s]]) = 0,
         \A t \in 0 .. currentTerm[s] - 1 : \A i : At(t, i, t) =>
           (i <= getLastLogIdx(s) /\ At(getLastLogTerm(s), i, t)) \/ Blocked(t, i)
  PROVE  /\ Len(FullLog(s)) <= Len(leaderLog[getLastLogTerm(s)])
         /\ \A j \in 1 .. Len(FullLog(s)) : FullLog(s)[j] = leaderLog[getLastLogTerm(s)][j]
<1>0. TypeOK /\ LogTypeOK /\ LeaderLogs /\ HasPiece(s) /\ Serves(s)
  BY DEF FullInv, Inv, LogInv, PeersKeepLogs
<1>1. PICK lt : lt = getLastLogTerm(s)
  OBVIOUS
<1>2. /\ lt \in Term /\ getLastLogIdx(s) <= Len(leaderLog[lt])
      /\ \A j \in lastIncludedIndex[s] + 1 .. getLastLogIdx(s) : getLog(s, j) = leaderLog[lt][j]
  BY <1>0, <1>1, PieceEntries DEF HasPiece
<1>3. /\ Len(FullLog(s)) = getLastLogIdx(s)
      /\ \A j \in 1 .. lastIncludedIndex[s] : FullLog(s)[j] = disk[s].snapshot[j]
      /\ \A j \in lastIncludedIndex[s] + 1 .. getLastLogIdx(s) : FullLog(s)[j] = getLog(s, j)
  BY FullLogShape
<1>4. lastIncludedIndex[s] \in Nat /\ getLastLogIdx(s) \in Nat /\ currentTerm[s] \in Nat
  BY <1>0, LogShape, TermNat DEF TypeOK
<1>5. ASSUME NEW j \in 1 .. lastIncludedIndex[s]
      PROVE  disk[s].snapshot[j] = leaderLog[lt][j]
  <2>1. /\ disk[s].snapshot[j] = applied[s][j] /\ Len(applied[s]) > 0 /\ j \in 1 .. Len(applied[s])
        /\ Safe(applied[s], currentTerm[s])
    <3>1. /\ disk[s].snapshot[j] = applied[s][j] /\ Len(applied[s]) = lastApplied[s]
          /\ Safe(applied[s], currentTerm[s]) /\ lastIncludedIndex[s] <= lastApplied[s]
          /\ lastApplied[s] \in Nat
      BY <1>0 DEF Serves, LogTypeOK
    <3> QED
      BY <1>4, <3>1
  <2>2. PICK k \in 0 .. currentTerm[s] : \E i \in 1 .. Len(leaderLog[k]) :
          /\ Committed(k, i) /\ Len(applied[s]) <= i
          /\ \A h \in 1 .. Len(applied[s]) : applied[s][h] = leaderLog[k][h]
    BY <2>1 DEF Safe
  <2>3. PICK i \in 1 .. Len(leaderLog[k]) :
          /\ Committed(k, i) /\ Len(applied[s]) <= i
          /\ \A h \in 1 .. Len(applied[s]) : applied[s][h] = leaderLog[k][h]
    BY <2>2
  <2>4. k \in Term /\ k # currentTerm[s]
    <3>1. currentTerm[s] \in Term /\ MaxTerm \in Nat
      BY <1>0, BoundAssumption DEF TypeOK
    <3>2. k \in Term
      BY <1>4, <3>1 DEF Term
    <3> QED
      BY <2>3, <3>2
  <2>5. k \in 0 .. currentTerm[s] - 1
    BY <1>4, <2>4
  <2>6. At(k, i, k) /\ ~Blocked(k, i)
    BY <2>3, CommittedNotBlocked DEF Committed
  <2>7. At(lt, i, k)
    BY <1>1, <2>5, <2>6
  <2>8. j \in 1 .. i
    <3>1. Len(applied[s]) \in Nat
      BY <1>0, LenProperties DEF LogTypeOK
    <3> QED
      BY <2>1, <2>3, <3>1
  <2>9. leaderLog[k][j] = leaderLog[lt][j]
    BY <1>0, <1>2, <2>4, <2>6, <2>7, <2>8, SameTermSameLog
  <2> QED
    BY <2>1, <2>3, <2>9
<1>6. \A j \in 1 .. getLastLogIdx(s) : FullLog(s)[j] = leaderLog[lt][j]
  <2> TAKE j \in 1 .. getLastLogIdx(s)
  <2>1. CASE j \in 1 .. lastIncludedIndex[s]
    BY <1>3, <1>5, <2>1
  <2>2. CASE j \in lastIncludedIndex[s] + 1 .. getLastLogIdx(s)
    BY <1>2, <1>3, <2>2
  <2> QED
    BY <1>4, <2>1, <2>2
<1> QED
  BY <1>1, <1>2, <1>3, <1>6

(* beLeader(): the majority's votes make the log of the candidate complete. *)
LEMMA BeLeaderKeeps ==
  ASSUME FullInv, Inv', Monotone, NEW s \in Server, state[s] = Candidate, currentTerm[s] > 0,
         beLeader(s), UNCHANGED <<persisted, volatile, disk, network>>
  PROVE  LogInv'
<1>0. /\ TypeOK /\ LogTypeOK /\ DiskCurrent /\ LeaderLogs /\ HasPiece(s) /\ Leads(s) /\ Serves(s)
      /\ TypeOK' /\ ElectionSafety' /\ LeadersElected'
  BY ElectionSafetyNext DEF FullInv, Inv, LogInv, PeersKeepLogs, ElectionInv
<1>1. PICK ct : ct = currentTerm[s]
  OBVIOUS
<1>2. PICK lt : lt = getLastLogTerm(s)
  OBVIOUS
<1>3. PICK full : full = FullLog(s)
  OBVIOUS
<1>4. /\ ct \in Term /\ ct \in Nat /\ lt \in Term /\ lt \in Nat /\ lt <= ct
      /\ getLastLogIdx(s) \in Nat /\ lastIncludedIndex[s] \in Nat /\ logLen(s) = getLastLogIdx(s) + 1
  BY <1>0, <1>1, <1>2, LastEntry, LogShape, TermNat DEF TypeOK
<1>5. /\ state'[s] = Leader /\ elected' = elected \cup {<<ct, s>>} /\ leaderLog'[ct] = full
      /\ \A t \in Term \ {ct} : leaderLog'[t] = leaderLog[t]
      /\ nextIndex'[s] = [p \in Server |-> getLastLogIdx(s) + 1]
      /\ matchIndex'[s] = [p \in Server |-> 0]
      /\ \A q \in Server \ {s} : /\ state'[q] = state[q] /\ nextIndex'[q] = nextIndex[q]
                                 /\ matchIndex'[q] = matchIndex[q]
  BY <1>0, <1>1, <1>3, <1>4 DEF beLeader, TypeOK, LogTypeOK
<1>6. \A q \in Server : SameLog(q) /\ SameService(q) /\ currentTerm'[q] = currentTerm[q]
  BY DEF persisted, volatile, SameLog, SameService
<1>7. full \in Seq(Entry) /\ Len(full) = getLastLogIdx(s)
  BY <1>3, FullLogShape
<1>8. LogTypeOK'
  <2>1. leaderLog' \in [Term -> Seq(Entry)]
    BY <1>0, <1>1, <1>3, <1>4, <1>7 DEF beLeader, LogTypeOK
  <2>2. nextIndex' \in [Server -> [Server -> Nat]]
    <3>1. [p \in Server |-> getLastLogIdx(s) + 1] \in [Server -> Nat]
      BY <1>4
    <3> QED
      BY <1>0, <3>1 DEF beLeader, LogTypeOK
  <2>3. matchIndex' \in [Server -> [Server -> Nat]]
    BY <1>0 DEF beLeader, LogTypeOK
  <2> QED
    BY <1>0, <2>1, <2>2, <2>3 DEF LogTypeOK, persisted, volatile, network
<1>9. DiskCurrent'
  BY <1>0 DEF DiskCurrent, persisted
<1>10. \A l \in Server : <<ct, l>> \notin elected
  BY <1>0, <1>1, <1>5 DEF Leads, ElectionSafety
<1>11. Len(leaderLog[ct]) = 0
  <2>1. Len(leaderLog[ct]) \in Nat
    BY <1>0, <1>4, LeaderLogType
  <2>2. ~(Len(leaderLog[ct]) > 0)
    BY <1>0, <1>4, <1>10 DEF LeaderLogs
  <2> QED
    BY <2>1, <2>2
<1>12. Grow(s)
  <2>1. \A q \in Server : currentTerm[q] <= currentTerm'[q]
    BY DEF Monotone
  <2>2. /\ <<ct, s>> \in elected' /\ Len(leaderLog[ct]) <= Len(leaderLog'[ct])
        /\ \A i \in 1 .. Len(leaderLog[ct]) : leaderLog'[ct][i] = leaderLog[ct][i]
    BY <1>4, <1>5, <1>7, <1>11
  <2>3. aeRep' = aeRep /\ rvReq' = rvReq
    BY DEF network
  <2> QED
    BY <1>1, <1>5, <2>1, <2>2, <2>3 DEF Grow
<1>13. \A t \in 0 .. ct - 1 : \A i : At(t, i, t) =>
         (i <= getLastLogIdx(s) /\ At(lt, i, t)) \/ Blocked(t, i)
  <2>1. PICK Q \in SUBSET Server :
          /\ s \in Q /\ 2 * Cardinality(Q) > N
          /\ \A v \in Q \ {s} : Granted(v, s, ct)'
    <3>1. \E Q \in SUBSET Server :
            /\ s \in Q /\ 2 * Cardinality(Q) > N'
            /\ \A v \in Q \ {s} : Granted(v, s, ct)'
      <4>1. PICK x \in elected' : x = <<ct, s>>
        BY <1>5
      <4>2. x[1] = ct /\ x[2] = s
        BY <4>1
      <4> QED
        BY <1>0, <4>2 DEF LeadersElected
    <3> QED
      BY <3>1 DEF N
  <2>2. \A v \in Q \ {s} : Granted(v, s, ct)
    BY <2>1 DEF Granted, network
  <2> QED
    BY <1>1, <1>2, <1>10, <2>1, <2>2, WinnerHolds DEF Majority
<1>14. /\ Len(full) <= Len(leaderLog[lt])
       /\ \A j \in 1 .. Len(full) : full[j] = leaderLog[lt][j]
  BY <1>1, <1>2, <1>3, <1>11, <1>13, WinnersLog
<1>15. LeaderLogs'
  BY <1>0, <1>4, <1>5, <1>8, <1>11, <1>12, <1>14, LeaderLogsCopied
<1>16. \A i, k : i <= getLastLogIdx(s) /\ At(lt, i, k) => At(ct, i, k)'
  BY <1>4, <1>5, <1>7, <1>14 DEF At
<1>17. ~ \E i : At(ct, i, ct)'
  <2> SUFFICES ASSUME NEW i, At(ct, i, ct)' PROVE FALSE
    OBVIOUS
  <2>1. i \in 1 .. Len(full) /\ full[i].term = ct
    BY <1>5 DEF At
  <2>2. i \in 1 .. Len(leaderLog[lt]) /\ leaderLog[lt][i].term = ct
    BY <1>0, <1>4, <1>7, <1>14, <2>1, LeaderLogType
  <2>3. ct \in 1 .. lt
    BY <1>0, <1>4, <2>2 DEF LeaderLogs
  <2>4. lt = ct
    BY <1>4, <2>3
  <2> QED
    BY <1>11, <2>2, <2>4
<1>18. NoNewAck(s)
  <2> SUFFICES ASSUME NEW t \in Term, NEW i, At(t, i, t)', Acked(s, t, i)'
               PROVE  At(t, i, t) /\ Acked(s, t, i)
    BY DEF NoNewAck
  <2>1. t # ct
    BY <1>17
  <2> QED
    BY <1>5, <2>1 DEF At, Acked, network
<1>19. Complete(<<ct, s>>)'
  <2> SUFFICES ASSUME NEW t \in 0 .. ct - 1, NEW i, At(t, i, t)'
               PROVE  At(ct, i, t)' \/ Blocked(t, i)'
    BY DEF Complete
  <2>1. t \in Term /\ t # ct
    BY <1>4, BoundAssumption DEF Term
  <2>2. At(t, i, t)
    BY <1>5, <2>1 DEF At
  <2> QED
    BY <1>0, <1>12, <1>13, <1>16, <2>1, <2>2, BlockedStays
<1>20. PeerOK(s)'
  <2>1. HasPiece(s)' /\ Keeps(s)' /\ Serves(s)'
    BY <1>0, <1>6, <1>8, <1>12, <1>18, SameLogFacts, HasPieceStays, KeepsStays, ServesStays
  <2>2. /\ getLastLogIdx(s)' = getLastLogIdx(s) /\ logLen(s)' = logLen(s)
        /\ lastIncludedIndex'[s] = lastIncludedIndex[s] /\ log'[s] = log[s]
        /\ currentTerm'[s] = ct /\ commitIndex'[s] \in Nat
    BY <1>1, <1>6, <1>8, SameLogFacts DEF SameLog, LogTypeOK
  <2>3. Leads(s)'
    <3>1. PieceOf(ct, lastIncludedIndex[s], log[s])'
      <4>1. PICK base : base = lastIncludedIndex[s]
        OBVIOUS
      <4>2. PICK x : x = log[s]
        OBVIOUS
      <4>3. PieceOf(lt, base, x) /\ base \in Nat /\ base + Len(x) - 1 = getLastLogIdx(s) /\ Len(x) > 0
            /\ Len(x) \in Nat
        BY <1>0, <1>2, <4>1, <4>2, LogShape DEF HasPiece
      <4>4. base # 0 => base \in 1 .. Len(full)
        BY <1>7, <4>3
      <4>5. \A j \in base + 1 .. base + Len(x) - 1 : j \in 1 .. Len(full)
        BY <1>7, <4>3
      <4>6. base + Len(x) - 1 <= Len(full)
        BY <1>4, <1>7, <4>3
      <4>7. PieceOf(ct, base, x)'
        BY <1>4, <1>5, <1>14, <4>3, <4>4, <4>5, <4>6 DEF PieceOf
      <4> QED
        BY <2>2, <4>1, <4>2, <4>7
    <3>2. state'[s] = Leader /\ <<ct, s>> \in elected' /\ leaderLog'[ct] = full /\ ct > 0
      BY <1>1, <1>5
    <3> QED
      BY <1>7, <2>2, <3>1, <3>2 DEF Leads
  <2>4. Counts(s)'
    BY <1>4, <1>5, <2>2 DEF Counts
  <2> QED
    BY <2>1, <2>3, <2>4 DEF PeerOK
<1>21. \A q \in Server \ {s} : Same(q)
  BY <1>5, <1>6 DEF Same, SameRole, SameCounts
<1>22. Standing(s)
  <2>1. state'[s] = Leader
    BY <1>5
  <2> QED
    BY <2>1 DEF Standing
<1>23. /\ aeReq' = aeReq /\ aeRep' = aeRep /\ isReq' = isReq /\ rvReq' = rvReq /\ rvRep' = rvRep
       /\ \A x \in elected' : x \in elected \/ Complete(x)'
  BY <1>5, <1>19 DEF network
<1> QED
  BY <1>8, <1>9, <1>12, <1>15, <1>20, <1>21, <1>22, <1>23, StepOfPeer

(* VoteReply: a stale reply ends the candidacy, another may win it. *)
LEMMA VoteReplyKeeps ==
  ASSUME FullInv, Inv', Monotone, NEW r \in rvRep, VoteReply(r)
  PROVE  LogInv'
<1> DEFINE s == r.to
<1>0. TypeOK /\ LogTypeOK /\ RoundsOfOneTerm
  BY DEF FullInv, Inv, LogInv, ElectionInv
<1>1. s \in Server /\ r.round \in Round /\ r.argTerm \in Term
  BY <1>0 DEF TypeOK
<1>2. CASE VoteReplyStale(s, r)
  BY <1>1, <1>2, BeFollowerKeeps DEF VoteReplyStale
<1>3. CASE VoteReplyCounted(s, r)
  <2>1. state[s] = Candidate /\ currentTerm[s] = r.argTerm
    BY <1>3 DEF VoteReplyCounted, StillCandidate
  <2>2. UNCHANGED <<persisted, volatile, disk, network>>
    BY <1>3 DEF VoteReplyCounted
  <2>3. beLeader(s) \/ UNCHANGED <<state, leading, elected, leaderLog>>
    BY <1>3 DEF VoteReplyCounted
  <2>4. currentTerm[s] > 0
    <3>1. PICK m \in rvReq : m.from = s /\ m.round = r.round
      BY <1>0 DEF RoundsOfOneTerm
    <3>2. r.round <= currentTerm[s] /\ r.round \in 1 .. MaxTerm /\ currentTerm[s] \in Nat
      BY ZenonT(30), <1>0, <1>1, <3>1, TermNat DEF RoundsOfOneTerm, Round, TypeOK
    <3> QED
      BY <3>2, BoundAssumption
  <2> QED
    BY <1>1, <2>1, <2>2, <2>3, <2>4, BeLeaderKeeps, VoteCountedKeeps
<1> QED
  BY <1>2, <1>3 DEF VoteReply

-----------------------------------------------------------------------------
(* Replication. *)

(* An entry more at the end of the log of the leader of term c. *)
LEMMA LeaderLogsAppended ==
  ASSUME LogTypeOK, LogTypeOK', LeaderLogs, NEW s \in Server, Grow(s), NEW c \in Term, c > 0,
         \A t \in Term \ {c} : leaderLog'[t] = leaderLog[t],
         <<c, s>> \in elected, NEW n \in Nat, Len(leaderLog[c]) = n, Len(leaderLog'[c]) = n + 1,
         leaderLog'[c][n + 1].term = c
  PROVE  LeaderLogs'
<1>1. \A t \in Term : t \in Nat /\ Len(leaderLog[t]) \in Nat /\ Len(leaderLog'[t]) \in Nat
  BY TermNat, LenProperties DEF LogTypeOK
<1>2. ASSUME NEW t \in Term, NEW i \in 1 .. Len(leaderLog'[t])
      PROVE  \/ i \in 1 .. Len(leaderLog[t]) /\ leaderLog'[t][i] = leaderLog[t][i]
             \/ t = c /\ i = n + 1 /\ leaderLog'[t][i].term = c
  <2>1. CASE t = c /\ i = n + 1
    BY <2>1
  <2>2. CASE ~(t = c /\ i = n + 1)
    <3>1. i \in 1 .. Len(leaderLog[t])
      BY <1>1, <2>2
    <3> QED
      BY <3>1, AtStays
  <2> QED
    BY <2>1, <2>2
<1>3. \A t \in Term : Len(leaderLog'[t]) > 0 => \E p \in Server : <<t, p>> \in elected'
  <2> TAKE t \in Term
  <2>1. CASE t = c
    BY <2>1 DEF Grow
  <2>2. CASE t # c
    BY <2>2 DEF LeaderLogs, Grow
  <2> QED
    BY <2>1, <2>2
<1>4. ASSUME NEW t \in Term, NEW i \in 1 .. Len(leaderLog'[t])
      PROVE  leaderLog'[t][i].term \in 1 .. t /\ At(leaderLog[t][i].term, i, leaderLog[t][i].term)'
  <2>1. CASE i \in 1 .. Len(leaderLog[t]) /\ leaderLog'[t][i] = leaderLog[t][i]
    <3>1. PICK k : k = leaderLog[t][i].term
      OBVIOUS
    <3>2. k \in 1 .. t /\ At(k, i, k)
      BY <2>1, <3>1 DEF LeaderLogs
    <3>3. k \in Term
      BY <1>1, <3>2, BoundAssumption DEF Term
    <3>4. At(k, i, k)'
      BY <3>2, <3>3, AtStays
    <3>5. leaderLog'[t][i].term = k
      BY <2>1, <3>1
    <3>6. At(leaderLog[t][i].term, i, leaderLog[t][i].term)'
      BY <3>4, <3>5 DEF At
    <3> QED
      BY <3>2, <3>5, <3>6
  <2>2. CASE t = c /\ i = n + 1 /\ leaderLog'[t][i].term = c
    <3>1. c \in 1 .. c
      BY <1>1
    <3>2. At(leaderLog[t][i].term, i, leaderLog[t][i].term)'
      BY <2>2 DEF At
    <3> QED
      BY <2>2, <3>1, <3>2
  <2> QED
    BY <1>2, <2>1, <2>2
<1>5. ASSUME NEW t \in Term, NEW i \in 1 .. Len(leaderLog'[t]), NEW j \in 1 .. Len(leaderLog'[t]), i <= j
      PROVE  leaderLog'[t][i].term <= leaderLog'[t][j].term
  <2>1. CASE j \in 1 .. Len(leaderLog[t])
    <3>1. i \in 1 .. Len(leaderLog[t])
      BY <1>1, <1>5, <2>1
    <3>2. leaderLog[t][i].term <= leaderLog[t][j].term
      BY <1>5, <2>1, <3>1 DEF LeaderLogs
    <3> QED
      BY <2>1, <3>1, <3>2, AtStays
  <2>2. CASE t = c /\ j = n + 1 /\ leaderLog'[t][j].term = c
    <3>1. leaderLog'[t][i].term \in 1 .. t
      BY <1>4
    <3> QED
      BY <1>1, <2>2, <3>1
  <2> QED
    BY <1>2, <2>1, <2>2
<1>6. ASSUME NEW u \in Term, At(u, n + 1, c) PROVE FALSE
  <2>1. At(c, n + 1, c)
    BY <1>6, AtItsOwn
  <2> QED
    BY <1>1, <2>1 DEF At
<1>7. ASSUME NEW t \in Term, NEW u \in Term, NEW i \in 1 .. Len(leaderLog'[t]),
             At(u, i, leaderLog[t][i].term)', NEW j \in 1 .. i
      PROVE  leaderLog'[t][j] = leaderLog'[u][j]
  <2>1. i \in 1 .. Len(leaderLog'[u]) /\ leaderLog'[u][i].term = leaderLog'[t][i].term
    BY <1>7 DEF At
  <2>2. CASE t = u
    BY <2>2
  <2>3. CASE i \in 1 .. Len(leaderLog[t]) /\ i \in 1 .. Len(leaderLog[u])
    <3>1. leaderLog'[t][i] = leaderLog[t][i] /\ leaderLog'[u][i] = leaderLog[u][i]
      BY <2>3, AtStays
    <3>2. At(u, i, leaderLog[t][i].term)
      BY <2>1, <2>3, <3>1 DEF At
    <3>3. leaderLog[t][j] = leaderLog[u][j]
      BY <2>3, <3>2 DEF LeaderLogs
    <3>4. j \in 1 .. Len(leaderLog[t]) /\ j \in 1 .. Len(leaderLog[u])
      BY SMTT(30), <1>1, <2>3
    <3> QED
      BY <3>3, <3>4, AtStays
  <2>4. CASE t = c /\ i = n + 1 /\ leaderLog'[t][i].term = c /\ u # t
    <3>1. i \in 1 .. Len(leaderLog[u]) /\ leaderLog[u][i].term = c
      BY <1>2, <2>1, <2>4
    <3> QED
      BY <1>6, <2>4, <3>1 DEF At
  <2>5. CASE u = c /\ i = n + 1 /\ leaderLog'[u][i].term = c /\ u # t
    <3>1. i \in 1 .. Len(leaderLog[t]) /\ leaderLog[t][i].term = c
      BY <1>2, <2>1, <2>5
    <3> QED
      BY <1>6, <2>5, <3>1 DEF At
  <2> QED
    BY <1>2, <2>1, <2>2, <2>3, <2>4, <2>5
<1> QED
  BY <1>3, <1>4, <1>5, <1>7 DEF LeaderLogs

(* Start(): the leader writes an entry, which nobody has acknowledged. *)
LEMMA StartKeeps ==
  ASSUME FullInv, Inv', Monotone, NEW s \in Server, NEW c \in Command, Start(s, c)
  PROVE  LogInv'
<1>0. /\ TypeOK /\ LogTypeOK /\ DiskCurrent /\ LeaderLogs /\ MessagesFromLeaders
      /\ HasPiece(s) /\ Keeps(s) /\ Counts(s) /\ Serves(s) /\ TypeOK' /\ ElectionSafety'
  BY ElectionSafetyNext DEF FullInv, Inv, LogInv, PeersKeepLogs
<1>1. PICK ct : ct = currentTerm[s]
  OBVIOUS
<1>2. PICK lt : lt = getLastLogTerm(s)
  OBVIOUS
<1>3. PICK n : n = getLastLogIdx(s)
  OBVIOUS
<1>4. PICK base : base = lastIncludedIndex[s]
  OBVIOUS
<1>5. PICK e : e = [term |-> ct, cmd |-> c]
  OBVIOUS
<1>6. PICK lg : lg = Append(log[s], e)
  OBVIOUS
<1>7. PICK L : L = Append(leaderLog[ct], e)
  OBVIOUS
<1>8. /\ ct \in Term /\ ct \in Nat /\ <<ct, s>> \in elected /\ ct > 0
      /\ PieceOf(ct, base, log[s]) /\ Len(leaderLog[ct]) = n
      /\ leaderLog[ct] \in Seq(Entry)
  BY <1>0, <1>1, <1>3, <1>4, TermNat, LeaderHolds DEF Start, TypeOK, LogTypeOK
<1>9. /\ base \in Nat /\ n \in Nat /\ log[s] \in Seq(Entry) /\ Len(log[s]) \in Nat /\ Len(log[s]) > 0
      /\ n = base + Len(log[s]) - 1 /\ logLen(s) = n + 1 /\ lt \in Term /\ lt \in Nat
  BY <1>0, <1>2, <1>3, <1>4, LogShape, LastEntry
<1>10. e \in Entry /\ e.term = ct
  BY <1>5, <1>8 DEF Entry
<1>11. /\ lg \in Seq(Entry) /\ Len(lg) = Len(log[s]) + 1 /\ lg[Len(lg)] = e
       /\ \A i \in 1 .. Len(log[s]) : lg[i] = log[s][i]
  BY <1>6, <1>9, <1>10, AppendProperties
<1>12. /\ L \in Seq(Entry) /\ Len(L) = n + 1 /\ L[n + 1] = e
       /\ \A i \in 1 .. n : L[i] = leaderLog[ct][i]
  BY <1>7, <1>8, <1>10, AppendProperties
<1>13. /\ log' = [log EXCEPT ![s] = lg] /\ leaderLog' = [leaderLog EXCEPT ![ct] = L]
       /\ UNCHANGED <<state, currentTerm, votedFor, lastIncludedIndex, lastIncludedTerm>>
       /\ UNCHANGED <<volatile, leading, network, elected>> /\ persist(s)
  BY <1>1, <1>5, <1>6, <1>7 DEF Start
<1>14. /\ log'[s] = lg /\ leaderLog'[ct] = L /\ \A q \in Server \ {s} : log'[q] = log[q]
       /\ \A t \in Term \ {ct} : leaderLog'[t] = leaderLog[t]
  BY <1>0, <1>8, <1>13 DEF LogTypeOK
<1>15. \A q \in Server : disk'[q].snapshot = disk[q].snapshot
  BY <1>0, <1>13, PersistKeepsSnapshot
<1>16. LogTypeOK'
  <2>1. /\ log' \in [Server -> Seq(Entry)] /\ leaderLog' \in [Term -> Seq(Entry)]
    BY <1>0, <1>11, <1>12, <1>13 DEF LogTypeOK
  <2>2. \A q \in Server : Len(log'[q]) > 0
    <3>1. Len(lg) > 0
      BY <1>9, <1>11
    <3> QED
      BY <1>0, <1>14, <3>1 DEF LogTypeOK
  <2> QED
    BY <1>0, <1>13, <1>15, <2>1, <2>2 DEF LogTypeOK, volatile, leading, network
<1>17. DiskCurrent'
  BY <1>0, <1>13, <1>14, DiskWritten DEF SameLog
<1>18. Grow(s)
  <2>1. \A q \in Server : currentTerm[q] <= currentTerm'[q]
    BY DEF Monotone
  <2>2. /\ <<ct, s>> \in elected' /\ Len(leaderLog[ct]) <= Len(leaderLog'[ct])
        /\ \A i \in 1 .. Len(leaderLog[ct]) : leaderLog'[ct][i] = leaderLog[ct][i]
    BY <1>8, <1>9, <1>12, <1>13, <1>14
  <2>3. aeRep' = aeRep /\ rvReq' = rvReq /\ elected' = elected
    BY <1>13 DEF network
  <2> QED
    BY <1>1, <1>14, <2>1, <2>2, <2>3 DEF Grow
<1>19. LeaderLogs'
  <2>1. Len(leaderLog'[ct]) = n + 1 /\ leaderLog'[ct][n + 1].term = ct
    BY <1>10, <1>12, <1>14
  <2>2. n \in Nat /\ Len(leaderLog[ct]) = n /\ ct \in Term /\ ct > 0 /\ <<ct, s>> \in elected
    BY <1>8, <1>9
  <2> QED
    BY <1>0, <1>14, <1>16, <1>18, <2>1, <2>2, LeaderLogsAppended
<1>20. /\ lastIncludedIndex'[s] = base /\ currentTerm'[s] = ct /\ state'[s] = Leader
  BY <1>1, <1>4, <1>13 DEF Start
<1>21. getLastLogIdx(s)' = n + 1 /\ getLastLogTerm(s)' = ct /\ logLen(s)' = n + 2
  <2>1. getLastLogIdx(s)' = n + 1 /\ logLen(s)' = n + 2
    <3>1. logLen(s)' = Len(lg) + base /\ getLastLogIdx(s)' = logLen(s)' - 1
      BY <1>14, <1>20 DEF getLastLogIdx, logLen
    <3>2. Len(lg) + base = n + 2
      BY <1>9, <1>11
    <3> QED
      BY <1>9, <3>1, <3>2
  <2>2. (n + 1) - base + 1 = Len(lg)
    BY <1>9, <1>11
  <2>3. getLog(s, n + 1)' = lg[(n + 1) - base + 1]
    BY <1>14, <1>20 DEF getLog, EntryAt
  <2>4. getLastLogTerm(s)' = getLog(s, n + 1)'.term
    BY <2>1 DEF getLastLogTerm
  <2> QED
    BY <1>10, <1>11, <2>1, <2>2, <2>3, <2>4
<1>22. PieceOf(ct, base, lg)'
  <2>1. \A i \in base + 1 .. n : lg[i - base + 1] = leaderLog'[ct][i]
    <3> TAKE i \in base + 1 .. n
    <3>1. i - base + 1 \in 1 .. Len(log[s]) /\ i \in 1 .. n /\ i \in base + 1 .. base + Len(log[s]) - 1
      BY <1>9
    <3> QED
      BY <1>8, <1>11, <1>12, <1>14, <3>1 DEF PieceOf
  <2>2. lg[(n + 1) - base + 1] = leaderLog'[ct][n + 1]
    <3>1. (n + 1) - base + 1 = Len(lg)
      BY <1>9, <1>11
    <3> QED
      BY <1>11, <1>12, <1>14, <3>1
  <2>3. \A i \in base + 1 .. n + 1 : lg[i - base + 1] = leaderLog'[ct][i]
    <3> TAKE i \in base + 1 .. n + 1
    <3>1. i \in base + 1 .. n \/ i = n + 1
      BY <1>9
    <3> QED
      BY <2>1, <2>2, <3>1
  <2>4. lg[1].term = IF base = 0 THEN 0 ELSE leaderLog'[ct][base].term
    <3>1. 1 \in 1 .. Len(log[s]) /\ (base # 0 => base \in 1 .. n)
      BY <1>9
    <3> QED
      BY <1>8, <1>11, <1>12, <1>14, <3>1 DEF PieceOf
  <2>5. base + Len(lg) - 1 = n + 1
    BY <1>9, <1>11
  <2>6. Len(leaderLog'[ct]) = n + 1 /\ n + 1 <= n + 1
    BY <1>9, <1>12, <1>14
  <2> QED
    BY <1>8, <2>3, <2>4, <2>5, <2>6 DEF PieceOf
<1>23. PeerOK(s)'
  <2>1. HasPiece(s)'
    <3>1. ct <= ct
      BY <1>8
    <3> QED
      BY <1>14, <1>20, <1>21, <1>22, <3>1 DEF HasPiece
  <2>2. Leads(s)'
    <3>1. Len(leaderLog'[ct]) = n + 1 /\ <<ct, s>> \in elected'
      BY <1>8, <1>12, <1>13, <1>14
    <3> QED
      BY <1>8, <1>14, <1>20, <1>21, <1>22, <3>1 DEF Leads
  <2>3. Keeps(s)'
    <3> SUFFICES ASSUME NEW t \in Term, NEW i, At(t, i, t)', Acked(s, t, i)'
                 PROVE  \/ i <= n + 1 /\ At(ct, i, t)'
                        \/ Blocked(t, i)'
      BY <1>21 DEF Keeps
    <3>1. CASE t = ct
      <4>1. i \in 1 .. Len(leaderLog'[ct])
        BY <3>1 DEF At
      <4> QED
        BY SMTT(30), <1>9, <1>12, <1>14, <3>1, <4>1
    <3>2. CASE t # ct
      <4>1. At(t, i, t) /\ Acked(s, t, i)
        BY <1>13, <1>14, <3>2 DEF At, Acked, network
      <4>2. (i <= n /\ At(lt, i, t)) \/ Blocked(t, i)
        BY <1>0, <1>2, <1>3, <4>1 DEF Keeps, At
      <4>3. ASSUME i <= n, At(lt, i, t) PROVE i <= n + 1 /\ At(ct, i, t)'
        <5>1. i \in 1 .. n /\ i <= n + 1
          <6>1. i \in Int /\ i >= 1
            BY <4>3 DEF At
          <6> QED
            BY <1>9, <4>3, <6>1
        <5>2. leaderLog[lt][i] = leaderLog[ct][i]
          BY <1>0, <1>2, <1>3, <1>4, <1>8, <5>1, SameEnd DEF HasPiece
        <5>3. At(ct, i, t)
          BY <1>8, <4>3, <5>1, <5>2 DEF At
        <5> QED
          BY <1>0, <1>8, <1>16, <1>18, <5>1, <5>3, AtStays
      <4> QED
        BY <1>0, <1>18, <4>2, <4>3, BlockedStays
    <3> QED
      BY <3>1, <3>2
  <2>4. Counts(s)'
    <3>1. commitIndex[s] <= commitIndex'[s] /\ getLastLogIdx(s) <= getLastLogIdx(s)'
      <4>1. commitIndex[s] \in Nat /\ commitIndex'[s] = commitIndex[s]
        BY <1>0, <1>13 DEF LogTypeOK, volatile
      <4> QED
        BY <1>3, <1>9, <1>21, <4>1
    <3>2. state[s] = Leader /\ currentTerm'[s] = currentTerm[s] /\ SameCounts(s)
      BY <1>13 DEF Start, leading, SameCounts
    <3> QED
      BY <1>0, <1>16, <1>18, <3>1, <3>2, CountsStays
  <2>5. Serves(s)'
    <3>1. Safe(applied[s], currentTerm[s])'
      <4>1. applied'[s] = applied[s] /\ applied[s] \in Seq(Entry) /\ ct <= ct /\ Safe(applied[s], ct)
        BY <1>0, <1>1, <1>8, <1>13 DEF LogTypeOK, Serves, volatile
      <4> QED
        BY <1>0, <1>1, <1>8, <1>16, <1>18, <1>20, <4>1, SafeStays
    <3>2. /\ lastApplied[s] \in Nat /\ base <= lastApplied[s] /\ lastApplied[s] <= n
          /\ \A j \in base + 1 .. lastApplied[s] : getLog(s, j) = applied[s][j]
      BY <1>0, <1>3, <1>4 DEF Serves, LogTypeOK
    <3>3. \A j \in base + 1 .. lastApplied[s] : getLog(s, j)' = applied[s][j]
      <4> TAKE j \in base + 1 .. lastApplied[s]
      <4>1. j - base + 1 \in 1 .. Len(log[s])
        BY <1>9, <3>2
      <4>2. getLog(s, j)' = getLog(s, j)
        BY <1>4, <1>11, <1>14, <1>20, <4>1 DEF getLog, EntryAt
      <4> QED
        BY <3>2, <4>2
    <3>4. lastApplied[s] <= n + 1
      BY <1>9, <3>2
    <3>5. /\ applied'[s] = applied[s] /\ commitIndex'[s] = commitIndex[s] /\ lastApplied'[s] = lastApplied[s]
          /\ lastIncludedTerm'[s] = lastIncludedTerm[s] /\ disk'[s].snapshot = disk[s].snapshot
      BY <1>13, <1>15 DEF volatile
    <3> QED
      BY <1>0, <1>4, <1>20, <1>21, <3>1, <3>2, <3>3, <3>4, <3>5 DEF Serves
  <2> QED
    BY <2>1, <2>2, <2>3, <2>4, <2>5 DEF PeerOK
<1>24. \A q \in Server \ {s} : Same(q)
  BY <1>13, <1>14, <1>15 DEF volatile, leading, Same, SameLog, SameRole, SameCounts, SameService
<1>25. Standing(s)
  BY <1>20 DEF Standing
<1>26. UNCHANGED <<network, elected>>
  BY <1>13
<1> QED
  BY <1>16, <1>17, <1>18, <1>19, <1>23, <1>24, <1>25, <1>26, StepOfPeer DEF network

(* The back-up after a refusal is an index the leader's log reaches. *)
LEMMA BackUpInLog ==
  ASSUME LogTypeOK, NEW s \in Server, NEW r \in aeRep
  PROVE  /\ BackUp(s, r) \in Nat /\ BackUp(s, r) <= logLen(s)
         /\ r.conflictIndex > 0 => BackUp(s, r) > 0
<1> DEFINE own == {i \in lastIncludedIndex[s] .. getLastLogIdx(s) : getLog(s, i).term = r.conflictTerm}
           best == CHOOSE i \in own : \A j \in own : j <= i
           tar == IF r.conflictTerm # -1 /\ own # {} THEN 1 + best ELSE r.conflictIndex
<1>1. /\ lastIncludedIndex[s] \in Nat /\ getLastLogIdx(s) \in Nat /\ logLen(s) = getLastLogIdx(s) + 1
      /\ r.conflictIndex \in Nat
  BY LogShape DEF LogTypeOK
<1>2. own \subseteq Nat /\ \A i \in own : i <= getLastLogIdx(s)
  BY <1>1
<1>3. own # {} => best \in Nat
  <2> SUFFICES ASSUME own # {} PROVE best \in Nat
    OBVIOUS
  <2>1. \E i \in own : \A j \in own : j <= i
    <3> HIDE DEF own
    <3> QED
      BY <1>1, <1>2, GreatestNat
  <2>2. best \in own
    BY <2>1
  <2> QED
    BY <1>2, <2>2
<1> HIDE DEF best, own
<1>4. tar \in Nat /\ (r.conflictIndex > 0 => tar > 0)
  BY <1>1, <1>3
<1>5. BackUp(s, r) = Min2(logLen(s), tar)
  BY DEF BackUp, best, own
<1> HIDE DEF tar
<1> QED
  BY <1>1, <1>4, <1>5 DEF Min2

(* A refusal only moves nextIndex back. *)
LEMMA AppendReplyConflictKeeps ==
  ASSUME FullInv, Inv', Monotone, NEW r \in aeRep, NEW s \in Server, AppendReplyConflict(s, r),
         UNCHANGED <<network, elected, leaderLog>>
  PROVE  LogInv'
<1>0. TypeOK /\ LogTypeOK /\ DiskCurrent /\ Counts(s) /\ TypeOK' /\ ElectionSafety' /\ r.from \in Server
  BY ElectionSafetyNext DEF FullInv, Inv, LogInv, PeersKeepLogs, TypeOK
<1>1. PICK b : b = BackUp(s, r)
  OBVIOUS
<1>2. b \in Nat /\ b <= logLen(s)
  BY <1>0, <1>1, BackUpInLog
<1>3. /\ nextIndex' = [nextIndex EXCEPT ![s][r.from] = b]
      /\ UNCHANGED <<state, persisted, volatile, matchIndex, disk>>
  BY <1>1 DEF AppendReplyConflict
<1>4. /\ nextIndex' \in [Server -> [Server -> Nat]]
      /\ \A p \in Server : nextIndex'[s][p] = nextIndex[s][p] \/ nextIndex'[s][p] = b
      /\ \A q \in Server \ {s} : nextIndex'[q] = nextIndex[q]
  BY <1>0, <1>2, <1>3 DEF LogTypeOK
<1>5. LogTypeOK' /\ DiskCurrent'
  BY <1>0, <1>3, <1>4 DEF LogTypeOK, DiskCurrent, persisted, volatile, network
<1>6. Calm
  BY DEF Calm, network
<1>7. Grow(s) /\ NoNewAck(s)
  BY <1>6, CalmGrows, CalmAcks
<1>8. \A q \in Server : SameLog(q) /\ SameRole(q) /\ SameService(q)
  BY <1>3 DEF persisted, volatile, SameLog, SameRole, SameService
<1>9. \A q \in Server \ {s} : Same(q)
  BY <1>3, <1>4, <1>8 DEF Same, SameCounts
<1>10. Leads(s)' /\ Serves(s)'
  BY <1>0, <1>5, <1>7, <1>8, LeadsStays, ServesStays
<1>11. Standing(s)
  BY <1>8, SameLogFacts DEF Standing, SameRole
<1>12. Counts(s)'
  <2> SUFFICES ASSUME state'[s] = Leader, NEW p \in Server
               PROVE  /\ nextIndex'[s][p] <= logLen(s)'
                      /\ p # s => \/ matchIndex'[s][p] <= commitIndex'[s]
                                  \/ /\ Acked(p, currentTerm[s], matchIndex[s][p])'
                                     /\ matchIndex'[s][p] <= getLastLogIdx(s)'
    BY DEF Counts
  <2>1. /\ state[s] = Leader /\ logLen(s)' = logLen(s) /\ getLastLogIdx(s)' = getLastLogIdx(s)
        /\ matchIndex'[s][p] = matchIndex[s][p] /\ commitIndex'[s] = commitIndex[s]
        /\ currentTerm'[s] = currentTerm[s]
    BY <1>3, <1>8, SameLogFacts DEF SameRole, volatile
  <2>2. nextIndex'[s][p] <= logLen(s)
    BY <1>0, <1>2, <1>4, <2>1 DEF Counts
  <2>3. p # s => \/ matchIndex[s][p] <= commitIndex[s]
                 \/ /\ Acked(p, currentTerm[s], matchIndex[s][p])
                    /\ matchIndex[s][p] <= getLastLogIdx(s)
    BY <1>0, <2>1 DEF Counts
  <2>4. Acked(p, currentTerm[s], matchIndex[s][p]) => Acked(p, currentTerm[s], matchIndex[s][p])'
    <3>1. PICK t : t = currentTerm[s]
      OBVIOUS
    <3>2. PICK i : i = matchIndex[s][p]
      OBVIOUS
    <3>3. Acked(p, t, i) => Acked(p, t, i)'
      BY <1>7, AckedStays
    <3> QED
      BY <2>1, <3>1, <3>2, <3>3
  <2> QED
    BY <2>1, <2>2, <2>3, <2>4
<1> QED
  BY <1>5, <1>7, <1>8, <1>9, <1>10, <1>11, <1>12, SameLogStep DEF network

(* updateLastApplied(): the service gets the entries after the last it has, *)
(* up to the commit index.                                                  *)
LEMMA ApplyFacts ==
  ASSUME LogTypeOK, NEW s \in Server, NEW c \in Nat, NEW lg \in Seq(Entry), NEW base \in Nat,
         updateLastApplied(s, c, lg, base), Len(applied[s]) = lastApplied[s],
         base <= lastApplied[s], lastApplied[s] < c, c <= base + Len(lg) - 1
  PROVE  /\ commitIndex' = [commitIndex EXCEPT ![s] = c]
         /\ lastApplied' = [lastApplied EXCEPT ![s] = c]
         /\ applied' \in [Server -> Seq(Entry)] /\ Len(applied'[s]) = c
         /\ \A j \in 1 .. lastApplied[s] : applied'[s][j] = applied[s][j]
         /\ \A j \in lastApplied[s] + 1 .. c : applied'[s][j] = EntryAt(lg, base, j)
         /\ \A q \in Server \ {s} : applied'[q] = applied[q]
<1>1. PICK la : la = lastApplied[s]
  OBVIOUS
<1>2. PICK old : old = applied[s]
  OBVIOUS
<1>3. la \in Nat /\ old \in Seq(Entry) /\ Len(old) = la /\ Len(lg) \in Nat
  BY <1>1, <1>2, LenProperties DEF LogTypeOK
<1>4. base <= la /\ la < c /\ c <= base + Len(lg) - 1
  BY <1>1
<1>5. Max2(la, base) = la /\ Max2(c, base) = c /\ Max2(la, c) = c /\ Max2(c - la, 0) = c - la
  BY <1>3, <1>4 DEF Max2
<1>6. PICK new : new = [k \in 1 .. c - la |-> EntryAt(lg, base, la + k)]
  OBVIOUS
<1>7. new \in Seq(Entry) /\ Len(new) = c - la /\ \A k \in 1 .. c - la : new[k] = EntryAt(lg, base, la + k)
  <2>1. \A k \in 1 .. c - la : EntryAt(lg, base, la + k) \in Entry
    <3> TAKE k \in 1 .. c - la
    <3>1. (la + k) - base + 1 \in 1 .. Len(lg)
      BY <1>3, <1>4
    <3>2. lg[(la + k) - base + 1] \in Entry
      BY <3>1, ElementOfSeq
    <3> QED
      BY <3>2 DEF EntryAt
  <2>2. c - la \in Nat
    BY <1>3, <1>4
  <2> QED
    BY <1>6, <2>1, <2>2, SeqDef, LenProperties
<1>8. /\ commitIndex' = [commitIndex EXCEPT ![s] = c] /\ lastApplied' = [lastApplied EXCEPT ![s] = c]
      /\ applied' = [applied EXCEPT ![s] = old \o new]
  <2>1. /\ commitIndex' = [commitIndex EXCEPT ![s] = Max2(c, base)]
        /\ lastApplied' = [lastApplied EXCEPT ![s] = Max2(Max2(la, base), Max2(c, base))]
        /\ applied' = [applied EXCEPT ![s] = old \o
             [k \in 1 .. Max2(Max2(c, base) - Max2(la, base), 0) |-> EntryAt(lg, base, Max2(la, base) + k)]]
    BY <1>1, <1>2 DEF updateLastApplied
  <2> QED
    BY <1>5, <1>6, <2>1
<1>9. /\ old \o new \in Seq(Entry) /\ Len(old \o new) = la + (c - la)
      /\ \A j \in 1 .. la + (c - la) : (old \o new)[j] = IF j <= la THEN old[j] ELSE new[j - la]
  <2>1. /\ old \o new \in Seq(Entry) /\ Len(old \o new) = Len(old) + Len(new)
        /\ \A j \in 1 .. Len(old) + Len(new) :
             (old \o new)[j] = IF j <= Len(old) THEN old[j] ELSE new[j - Len(old)]
    BY Zenon, <1>3, <1>7, ConcatProperties
  <2> QED
    BY <1>3, <1>7, <2>1
<1>10. la + (c - la) = c
  BY <1>3
<1>11. /\ applied' \in [Server -> Seq(Entry)] /\ applied'[s] = old \o new
       /\ \A q \in Server \ {s} : applied'[q] = applied[q]
  BY <1>8, <1>9 DEF LogTypeOK
<1>12. ASSUME NEW j \in 1 .. la PROVE (old \o new)[j] = old[j]
  <2>1. j \in 1 .. c /\ j <= la
    BY <1>3, <1>4
  <2> QED
    BY <1>9, <1>10, <2>1
<1>13. ASSUME NEW j \in la + 1 .. c PROVE (old \o new)[j] = EntryAt(lg, base, j)
  <2>1. j \in 1 .. c /\ ~(j <= la) /\ j - la \in 1 .. c - la /\ la + (j - la) = j
    BY <1>3, <1>4
  <2> QED
    BY <1>7, <1>9, <1>10, <2>1
<1> QED
  BY <1>1, <1>2, <1>8, <1>9, <1>10, <1>11, <1>12, <1>13

(* MajorityMatch() is an index that a majority has reached. *)
LEMMA MajorityMatchFacts ==
  ASSUME NEW mi \in [Server -> Nat], NEW b \in Nat, \A p \in Server : mi[p] <= b
  PROVE  /\ \E p \in Server : MajorityMatch(mi) = mi[p]
         /\ Majority({p \in Server : mi[p] >= MajorityMatch(mi)})
<1> DEFINE vals == {mi[p] : p \in Server}
           above(n) == {p \in Server : mi[p] >= n}
           good == {n \in vals : 2 * Cardinality(above(n)) > N}
<1>1. vals \subseteq Nat /\ vals # {}
  BY ServerAssumption
<1>2. \A n : IsFiniteSet(above(n)) /\ Cardinality(above(n)) \in Nat
  <2> TAKE n
  <2>1. above(n) \subseteq Server
    OBVIOUS
  <2> QED
    BY <2>1, ServerAssumption, FS_Subset, FS_CardinalityType
<1>3. N \in Nat /\ N > 0
  BY ServerAssumption, FS_CardinalityType, FS_EmptySet DEF N
<1>4. good # {}
  <2>1. PICK n \in vals : \A y \in vals : n <= y
    <3> HIDE DEF vals
    <3> QED
      BY <1>1, LeastNat
  <2>2. above(n) = Server
    BY <1>1, <2>1
  <2>3. 2 * Cardinality(Server) > N
    BY <1>3 DEF N
  <2> QED
    BY <2>2, <2>3
<1>5. PICK n \in good : \A y \in good : y <= n
  <2>1. good \subseteq Nat /\ \A x \in good : x <= b
    BY <1>1
  <2> HIDE DEF good
  <2> QED
    BY <1>4, <2>1, GreatestNat
<1>6. ASSUME NEW q \in Server, mi[q] > n
      PROVE  2 * Cardinality({p \in Server : mi[p] >= mi[q]}) <= N
  <2>1. mi[q] \notin good
    <3>1. n \in Nat /\ mi[q] \in Nat /\ ~(mi[q] <= n)
      BY <1>1, <1>6
    <3> QED
      BY <1>5, <3>1
  <2>2. ~(2 * Cardinality(above(mi[q])) > N)
    BY <2>1
  <2>3. Cardinality(above(mi[q])) \in Nat
    BY <1>2
  <2>4. 2 * Cardinality(above(mi[q])) <= N
    BY <1>3, <2>2, <2>3
  <2> QED
    BY <2>4
<1>7. /\ MajorityMatch(mi) \in vals
      /\ 2 * Cardinality({p \in Server : mi[p] >= MajorityMatch(mi)}) > N
  <2>1. n \in vals /\ 2 * Cardinality({p \in Server : mi[p] >= n}) > N
    OBVIOUS
  <2> QED
    BY <1>6, <2>1 DEF MajorityMatch
<1> QED
  BY <1>7 DEF Majority

(* updateNextMatchIdx(): what a peer has acknowledged, or what is committed *)
(* anyway, is counted for it; an entry of the leader's own term that a      *)
(* majority has reached is committed.                                       *)
LEMMA UpdateMatchKeeps ==
  ASSUME FullInv, Inv', Monotone, NEW s \in Server, NEW p \in Server, NEW idx \in Nat,
         state[s] = Leader, idx <= getLastLogIdx(s),
         idx <= commitIndex[s] \/ Acked(p, currentTerm[s], idx),
         updateNextMatchIdx(s, p, idx),
         UNCHANGED <<state, persisted, disk, network, elected, leaderLog>>
  PROVE  LogInv'
<1>0. /\ TypeOK /\ LogTypeOK /\ DiskCurrent /\ Counts(s) /\ Serves(s) /\ TypeOK' /\ ElectionSafety'
  BY ElectionSafetyNext DEF FullInv, Inv, LogInv, PeersKeepLogs
<1>1. PICK ct : ct = currentTerm[s]
  OBVIOUS
<1>2. PICK last : last = getLastLogIdx(s)
  OBVIOUS
<1>3. PICK mi : mi = [matchIndex[s] EXCEPT ![p] = idx, ![s] = last]
  OBVIOUS
<1>4. PICK n : n = MajorityMatch(mi)
  OBVIOUS
<1>5. /\ ct \in Term /\ ct \in Nat /\ <<ct, s>> \in elected
      /\ Len(leaderLog[ct]) = last /\ PieceOf(ct, lastIncludedIndex[s], log[s])
      /\ \A j \in 1 .. lastApplied[s] : applied[s][j] = leaderLog[ct][j]
  BY <1>1, <1>2, LeaderHolds, TermNat
<1>6. /\ last \in Nat /\ logLen(s) = last + 1 /\ idx <= last /\ lastIncludedIndex[s] \in Nat
      /\ last = lastIncludedIndex[s] + Len(log[s]) - 1 /\ log[s] \in Seq(Entry)
      /\ commitIndex[s] \in Nat /\ lastApplied[s] \in Nat /\ commitIndex[s] <= last
      /\ commitIndex[s] = lastApplied[s] /\ lastIncludedIndex[s] <= lastApplied[s]
      /\ Len(applied[s]) = lastApplied[s]
  BY <1>0, <1>2, LogShape DEF LogTypeOK, Serves
<1>7. /\ matchIndex' = [matchIndex EXCEPT ![s] = mi]
      /\ nextIndex' = [nextIndex EXCEPT ![s][p] = idx + 1]
      /\ IF n > commitIndex[s] /\ getLog(s, n).term = ct
         THEN updateLastApplied(s, n, log[s], lastIncludedIndex[s])
         ELSE UNCHANGED volatile
  BY <1>1, <1>2, <1>3, <1>4 DEF updateNextMatchIdx
<1>8. /\ mi \in [Server -> Nat]
      /\ \A q \in Server : mi[q] <= last /\ (mi[q] <= commitIndex[s] \/ Acked(q, ct, mi[q]))
  <2>1. mi \in [Server -> Nat]
    BY <1>0, <1>3, <1>6 DEF LogTypeOK
  <2>2. ASSUME NEW q \in Server
        PROVE  mi[q] <= last /\ (mi[q] <= commitIndex[s] \/ Acked(q, ct, mi[q]))
    <3>1. CASE q = s
      <4>1. mi[q] = last
        BY <1>0, <1>3, <3>1 DEF LogTypeOK
      <4>2. Acked(q, ct, mi[q])
        BY <1>5, <3>1 DEF Acked
      <4> QED
        BY <1>6, <4>1, <4>2
    <3>2. CASE q # s /\ q = p
      <4>1. mi[q] = idx
        BY <1>0, <1>3, <3>2 DEF LogTypeOK
      <4> QED
        BY <1>1, <1>2, <3>2, <4>1
    <3>3. CASE q # s /\ q # p
      <4>1. mi[q] = matchIndex[s][q]
        BY <1>0, <1>3, <3>3 DEF LogTypeOK
      <4>2. \/ matchIndex[s][q] <= commitIndex[s]
            \/ Acked(q, ct, matchIndex[s][q]) /\ matchIndex[s][q] <= last
        <5>1. Counts(s)
          BY <1>0
        <5>2. \/ matchIndex[s][q] <= commitIndex[s]
              \/ Acked(q, currentTerm[s], matchIndex[s][q]) /\ matchIndex[s][q] <= getLastLogIdx(s)
          BY <3>3, <5>1 DEF Counts
        <5>3. Acked(q, currentTerm[s], matchIndex[s][q]) => Acked(q, ct, matchIndex[s][q])
          BY <1>1
        <5>4. matchIndex[s][q] <= getLastLogIdx(s) => matchIndex[s][q] <= last
          BY <1>2
        <5> QED
          BY <5>2, <5>3, <5>4
      <4>3. matchIndex[s][q] \in Nat
        BY <1>0 DEF LogTypeOK
      <4>4. matchIndex[s][q] <= last
        BY <1>6, <4>2, <4>3
      <4> QED
        BY <4>1, <4>2, <4>4
    <3> QED
      BY <3>1, <3>2, <3>3
  <2> QED
    BY <2>1, <2>2
<1>9. (\E q \in Server : n = mi[q]) /\ Majority({q \in Server : mi[q] >= n})
  BY <1>4, <1>6, <1>8, MajorityMatchFacts
<1>10. n \in Nat /\ n <= last
  BY <1>8, <1>9
<1>11. /\ nextIndex' \in [Server -> [Server -> Nat]] /\ matchIndex' \in [Server -> [Server -> Nat]]
       /\ \A q \in Server \ {s} : nextIndex'[q] = nextIndex[q] /\ matchIndex'[q] = matchIndex[q]
       /\ matchIndex'[s] = mi
       /\ \A q \in Server : nextIndex'[s][q] = nextIndex[s][q] \/ nextIndex'[s][q] = idx + 1
  <2>1. /\ matchIndex' = [matchIndex EXCEPT ![s] = mi] /\ mi \in [Server -> Nat]
        /\ matchIndex \in [Server -> [Server -> Nat]]
    BY <1>0, <1>7, <1>8 DEF LogTypeOK
  <2>2. PICK k : k = idx + 1
    OBVIOUS
  <2>3. /\ nextIndex' = [nextIndex EXCEPT ![s][p] = k] /\ k \in Nat
        /\ nextIndex \in [Server -> [Server -> Nat]]
    BY <1>0, <1>7, <2>2 DEF LogTypeOK
  <2>4. /\ matchIndex' \in [Server -> [Server -> Nat]] /\ matchIndex'[s] = mi
        /\ \A q \in Server \ {s} : matchIndex'[q] = matchIndex[q]
    BY <2>1
  <2>5. /\ nextIndex' \in [Server -> [Server -> Nat]]
        /\ \A q \in Server \ {s} : nextIndex'[q] = nextIndex[q]
        /\ \A q \in Server : nextIndex'[s][q] = nextIndex[s][q] \/ nextIndex'[s][q] = k
    BY <2>3
  <2> QED
    BY <2>2, <2>4, <2>5
<1>12. Calm
  BY DEF Calm, network
<1>13. Grow(s) /\ NoNewAck(s)
  BY <1>12, CalmGrows, CalmAcks
<1>14. \A q \in Server : SameLog(q) /\ SameRole(q)
  BY DEF persisted, SameLog, SameRole
<1>15. ASSUME LogTypeOK', Serves(s)', commitIndex[s] <= commitIndex'[s],
              \A q \in Server \ {s} : SameService(q)
       PROVE  LogInv'
  <2>1. DiskCurrent'
    BY <1>0 DEF DiskCurrent, persisted
  <2>2. \A q \in Server \ {s} : Same(q)
    BY <1>11, <1>14, <1>15 DEF Same, SameCounts
  <2>3. Leads(s)'
    BY <1>0, <1>13, <1>14, <1>15, LeadsStays
  <2>4. Standing(s)
    BY <1>14, SameLogFacts DEF Standing, SameRole
  <2>5. Counts(s)'
    <3> SUFFICES ASSUME NEW q \in Server
                 PROVE  /\ nextIndex'[s][q] <= logLen(s)'
                        /\ q # s => \/ matchIndex'[s][q] <= commitIndex'[s]
                                    \/ /\ Acked(q, currentTerm[s], matchIndex[s][q])'
                                       /\ matchIndex'[s][q] <= getLastLogIdx(s)'
      BY DEF Counts
    <3>1. /\ logLen(s)' = last + 1 /\ getLastLogIdx(s)' = last /\ currentTerm'[s] = ct
          /\ matchIndex'[s][q] = mi[q]
      BY <1>1, <1>2, <1>6, <1>11, <1>14, SameLogFacts DEF SameRole
    <3>2. nextIndex'[s][q] <= last + 1
      <4>1. nextIndex[s][q] <= last + 1
        BY <1>0, <1>6 DEF Counts
      <4>2. idx + 1 <= last + 1
        BY <1>6
      <4> QED
        BY <1>11, <4>1, <4>2
    <3>3. PICK i : i = mi[q]
      OBVIOUS
    <3>4. i \in Nat /\ i <= last /\ (i <= commitIndex[s] \/ Acked(q, ct, i))
      BY <1>8, <3>3
    <3>5. Acked(q, ct, i) => Acked(q, ct, i)'
      BY <1>13, AckedStays
    <3>6. i <= commitIndex'[s] \/ Acked(q, ct, i)'
      <4>1. commitIndex'[s] \in Nat
        BY <1>15 DEF LogTypeOK
      <4> QED
        BY <1>6, <1>15, <3>4, <3>5, <4>1
    <3> QED
      BY <3>1, <3>2, <3>3, <3>4, <3>6
  <2> QED
    BY <1>13, <1>14, <1>15, <2>1, <2>2, <2>3, <2>4, <2>5, SameLogStep DEF network
<1>16. CASE ~(n > commitIndex[s] /\ getLog(s, n).term = ct)
  <2>1. UNCHANGED volatile
    BY <1>7, <1>16
  <2>2. LogTypeOK'
    BY <1>0, <1>11, <2>1 DEF LogTypeOK, persisted, volatile, network
  <2>3. \A q \in Server : SameService(q)
    BY <2>1 DEF volatile, persisted, SameService
  <2>4. Serves(s)'
    BY <1>0, <1>13, <1>14, <2>2, <2>3, ServesStays
  <2>5. commitIndex[s] <= commitIndex'[s]
    BY <1>6, <2>3 DEF SameService
  <2> QED
    BY <1>15, <2>2, <2>3, <2>4, <2>5
<1>17. CASE n > commitIndex[s] /\ getLog(s, n).term = ct
  <2>1. /\ commitIndex' = [commitIndex EXCEPT ![s] = n] /\ lastApplied' = [lastApplied EXCEPT ![s] = n]
        /\ applied' \in [Server -> Seq(Entry)] /\ Len(applied'[s]) = n
        /\ \A j \in 1 .. lastApplied[s] : applied'[s][j] = applied[s][j]
        /\ \A j \in lastApplied[s] + 1 .. n : applied'[s][j] = EntryAt(log[s], lastIncludedIndex[s], j)
        /\ \A q \in Server \ {s} : applied'[q] = applied[q]
    <3>1. updateLastApplied(s, n, log[s], lastIncludedIndex[s])
      BY <1>7, <1>17
    <3>2. lastApplied[s] < n /\ n <= lastIncludedIndex[s] + Len(log[s]) - 1
      BY <1>6, <1>10, <1>17
    <3> QED
      BY SMTT(30), <1>0, <1>6, <1>10, <3>1, <3>2, ApplyFacts
  <2>2. /\ commitIndex'[s] = n /\ lastApplied'[s] = n /\ commitIndex[s] <= n
        /\ commitIndex' \in [Server -> Nat] /\ lastApplied' \in [Server -> Nat]
        /\ \A q \in Server \ {s} : commitIndex'[q] = commitIndex[q] /\ lastApplied'[q] = lastApplied[q]
    <3>1. commitIndex \in [Server -> Nat] /\ lastApplied \in [Server -> Nat]
      BY <1>0 DEF LogTypeOK
    <3>2. commitIndex[s] <= n
      BY <1>6, <1>10, <1>17
    <3> QED
      BY <1>10, <2>1, <3>1, <3>2
  <2>3. LogTypeOK'
    BY <1>0, <1>11, <2>1, <2>2 DEF LogTypeOK, persisted, network
  <2>4. \A q \in Server \ {s} : SameService(q)
    BY <2>1, <2>2 DEF persisted, SameService
  <2>5. /\ \A j \in lastIncludedIndex[s] + 1 .. last : getLog(s, j) = leaderLog[ct][j]
    BY <1>0, <1>2, <1>5, PieceEntries
  <2>6. \A j \in 1 .. n : applied'[s][j] = leaderLog[ct][j]
    <3> TAKE j \in 1 .. n
    <3>1. CASE j <= lastApplied[s]
      <4>1. j \in 1 .. lastApplied[s]
        BY <1>6, <1>10, <3>1
      <4> QED
        BY <1>5, <2>1, <4>1
    <3>2. CASE ~(j <= lastApplied[s])
      <4>1. j \in lastApplied[s] + 1 .. n /\ j \in lastIncludedIndex[s] + 1 .. last
        BY SMTT(30), <1>6, <1>10, <3>2
      <4> QED
        BY <2>1, <2>5, <4>1 DEF getLog
    <3> QED
      BY <3>1, <3>2
  <2>7. Committed(ct, n)
    <3>1. n \in 1 .. last /\ n \in lastIncludedIndex[s] + 1 .. last
      BY <1>6, <1>10, <1>17
    <3>2. At(ct, n, ct)
      BY <1>5, <1>17, <2>5, <3>1 DEF At
    <3>3. \A q \in {q \in Server : mi[q] >= n} : Acked(q, ct, n)
      <4> TAKE q \in {q \in Server : mi[q] >= n}
      <4>1. Acked(q, ct, mi[q]) /\ mi[q] \in Nat /\ mi[q] >= n
        BY <1>6, <1>8, <1>10, <1>17
      <4>2. ASSUME NEW r \in aeRep, r.match >= mi[q] PROVE r.match >= n
        <5>1. r.match \in Nat
          BY <1>0 DEF LogTypeOK
        <5> QED
          BY <1>10, <4>1, <4>2, <5>1
      <4> QED
        BY <4>1, <4>2 DEF Acked
    <3> QED
      BY <1>9, <3>2, <3>3 DEF Committed
  <2>8. Safe(applied[s], currentTerm[s])'
    <3>1. Committed(ct, n)'
      BY <1>0, <1>5, <1>13, <2>3, <2>7, CommittedStays
    <3>2. ct \in 0 .. ct /\ n \in 1 .. Len(leaderLog[ct]) /\ n <= n
      BY SMTT(30), <1>5, <1>6, <1>10, <1>17
    <3>3. leaderLog' = leaderLog /\ currentTerm'[s] = ct
      BY <1>1 DEF persisted
    <3>4. PICK x : x = applied'[s]
      OBVIOUS
    <3>5. Safe(x, ct)'
      BY SMTT(30), <2>1, <2>6, <3>1, <3>2, <3>3, <3>4 DEF Safe
    <3> QED
      BY <3>3, <3>4, <3>5
  <2>9. Serves(s)'
    <3>1. /\ getLastLogIdx(s)' = last /\ lastIncludedIndex'[s] = lastIncludedIndex[s]
          /\ \A j : getLog(s, j)' = getLog(s, j)
          /\ disk'[s].snapshot = disk[s].snapshot /\ lastIncludedTerm'[s] = lastIncludedTerm[s]
      BY <1>2, <1>14, SameLogFacts DEF SameLog, persisted
    <3>2. lastIncludedIndex[s] <= n /\ n <= last
      BY <1>6, <1>10, <1>17
    <3>3. \A j \in lastIncludedIndex[s] + 1 .. n : getLog(s, j) = applied'[s][j]
      <4> TAKE j \in lastIncludedIndex[s] + 1 .. n
      <4>1. j \in 1 .. n /\ j \in lastIncludedIndex[s] + 1 .. last
        BY SMTT(30), <1>6, <1>10, <1>17
      <4> QED
        BY <2>5, <2>6, <4>1
    <3>4. /\ \A j \in 1 .. lastIncludedIndex[s] : applied'[s][j] = applied[s][j]
          /\ lastIncludedIndex[s] # 0 =>
               applied'[s][lastIncludedIndex[s]] = applied[s][lastIncludedIndex[s]]
      <4>1. /\ \A j \in 1 .. lastIncludedIndex[s] : j \in 1 .. lastApplied[s]
            /\ lastIncludedIndex[s] # 0 => lastIncludedIndex[s] \in 1 .. lastApplied[s]
        BY <1>6
      <4> QED
        BY <2>1, <4>1
    <3>5. /\ Len(disk[s].snapshot) = lastIncludedIndex[s]
          /\ \A j \in 1 .. lastIncludedIndex[s] : disk[s].snapshot[j] = applied[s][j]
          /\ lastIncludedTerm[s] =
               IF lastIncludedIndex[s] = 0 THEN 0 ELSE applied[s][lastIncludedIndex[s]].term
      BY <1>0 DEF Serves
    <3> QED
      BY <2>1, <2>2, <2>8, <3>1, <3>2, <3>3, <3>4, <3>5 DEF Serves
  <2> QED
    BY <1>15, <2>2, <2>3, <2>4, <2>9
<1> QED
  BY <1>16, <1>17

(* A late, repeated or current answer to AppendEntries keeps the invariant, *)
(* in each of its branches.                                                 *)
LEMMA AppendReplyKeeps ==
  ASSUME FullInv, Inv', Monotone, NEW r \in aeRep, AppendReply(r)
  PROVE  LogInv'
<1> DEFINE s == r.to
<1>0. /\ TypeOK /\ LogTypeOK /\ AnswersLeader(r) /\ ElectionSafety
  BY OneLeaderPerTerm DEF FullInv, Inv, LogInv, MessagesFromLeaders
<1>1. s \in Server /\ r.from \in Server /\ r.match \in Nat /\ r.argTerm \in Term
  BY <1>0 DEF TypeOK, LogTypeOK
<1>2. state[s] = Leader /\ currentTerm[s] = r.argTerm /\ UNCHANGED <<network, elected, leaderLog>>
  BY DEF AppendReply
<1>3. CASE AppendReplyStale(s, r)
  <2>1. beFollower(s, r.term) /\ UNCHANGED <<volatile, leading>>
    BY <1>3 DEF AppendReplyStale
  <2> QED
    BY <1>1, <1>2, <2>1, BeFollowerKeeps
<1>4. CASE AppendReplyConflict(s, r)
  BY <1>1, <1>2, <1>4, AppendReplyConflictKeeps
<1>5. CASE AppendReplyOk(s, r)
  <2>1. r.success /\ updateNextMatchIdx(s, r.from, r.match) /\ UNCHANGED <<state, persisted, disk>>
    BY <1>5 DEF AppendReplyOk
  <2>2. r.match <= getLastLogIdx(s)
    BY <1>0, <1>1, <1>2, LeaderHolds DEF AnswersLeader
  <2>3. Acked(r.from, currentTerm[s], r.match)
    <3>1. r.match >= r.match
      BY <1>1
    <3> QED
      BY <1>2, <2>1, <3>1 DEF Acked
  <2> QED
    BY <1>1, <1>2, <2>1, <2>2, <2>3, UpdateMatchKeeps
<1> QED
  BY <1>3, <1>4, <1>5 DEF AppendReply

(* The tail of sendSnapshot: what the leader's own snapshot covers is        *)
(* committed.                                                               *)
LEMMA SnapshotReplyKeeps ==
  ASSUME FullInv, Inv', Monotone, NEW r \in isRep, SnapshotReply(r)
  PROVE  LogInv'
<1> DEFINE s == r.to
<1>0. TypeOK /\ LogTypeOK /\ PeersKeepLogs
  BY DEF FullInv, Inv, LogInv
<1>1. s \in Server /\ r.from \in Server
  BY <1>0 DEF TypeOK
<1>2. state[s] = Leader /\ UNCHANGED <<network, elected, leaderLog>>
  BY DEF SnapshotReply
<1>3. CASE beFollower(s, r.term) /\ UNCHANGED <<volatile, leading>>
  BY <1>1, <1>2, <1>3, BeFollowerKeeps
<1>4. CASE updateNextMatchIdx(s, r.from, lastIncludedIndex[s]) /\ UNCHANGED <<state, persisted, disk>>
  <2>1. PICK idx : idx = lastIncludedIndex[s]
    OBVIOUS
  <2>2. /\ idx \in Nat /\ lastApplied[s] \in Nat /\ getLastLogIdx(s) \in Nat
        /\ idx <= lastApplied[s] /\ lastApplied[s] <= getLastLogIdx(s)
        /\ commitIndex[s] = lastApplied[s]
    BY <1>0, <1>1, <2>1, LogShape DEF LogTypeOK, PeersKeepLogs, Serves
  <2>3. idx <= getLastLogIdx(s) /\ idx <= commitIndex[s]
    BY <2>2
  <2>4. updateNextMatchIdx(s, r.from, idx)
    BY <1>4, <2>1
  <2> QED
    BY <1>1, <1>2, <1>4, <2>2, <2>3, <2>4, UpdateMatchKeeps
<1> QED
  BY <1>3, <1>4 DEF SnapshotReply

-----------------------------------------------------------------------------
(* AppendEntries: the follower's log and that of the leader. *)

(* The index the follower suggests is one of its log, of that term. *)
LEMMA FirstIndexOfTermFacts ==
  ASSUME LogTypeOK, NEW s \in Server, NEW i \in lastIncludedIndex[s] .. getLastLogIdx(s)
  PROVE  /\ FirstIndexOfTerm(s, getLog(s, i).term) \in Nat
         /\ FirstIndexOfTerm(s, getLog(s, i).term) \in lastIncludedIndex[s] .. getLastLogIdx(s)
         /\ getLog(s, FirstIndexOfTerm(s, getLog(s, i).term)).term = getLog(s, i).term
<1>1. PICK t : t = getLog(s, i).term
  OBVIOUS
<1>2. PICK base : base = lastIncludedIndex[s]
  OBVIOUS
<1>3. PICK last : last = getLastLogIdx(s)
  OBVIOUS
<1>4. base \in Nat /\ last \in Nat
  BY <1>2, <1>3, LogShape
<1> DEFINE S == {j \in base .. last : getLog(s, j).term = t}
<1>5. S \subseteq Nat /\ S # {}
  BY <1>1, <1>2, <1>3, <1>4
<1>6. PICK n \in S : \A y \in S : n <= y
  <2> HIDE DEF S
  <2> QED
    BY <1>5, LeastNat
<1>7. \A j \in base .. (n - 1) : getLog(s, j).term # t
  <2> SUFFICES ASSUME NEW j \in base .. (n - 1), getLog(s, j).term = t PROVE FALSE
    OBVIOUS
  <2>1. n \in base .. last
    OBVIOUS
  <2>2. j \in S
    BY <1>4, <2>1
  <2> QED
    BY <1>4, <1>6, <2>1, <2>2
<1>8. \E j \in base .. last : getLog(s, j).term = t /\ \A h \in base .. (j - 1) : getLog(s, h).term # t
  BY <1>7
<1>9. FirstIndexOfTerm(s, t) \in base .. last /\ getLog(s, FirstIndexOfTerm(s, t)).term = t
  BY <1>2, <1>3, <1>8 DEF FirstIndexOfTerm
<1> QED
  BY <1>1, <1>2, <1>3, <1>4, <1>9

(* The entries before FirstNew() are in the follower's log, that one is not. *)
LEMMA FirstNewFacts ==
  ASSUME NEW s \in Server, NEW m, m.entries \in Seq(Entry)
  PROVE  /\ FirstNew(s, m) \in 1 .. Len(m.entries) + 1
         /\ \A k \in 1 .. FirstNew(s, m) - 1 :
              ~(\/ m.prevLogIndex + k >= logLen(s)
                \/ getLog(s, m.prevLogIndex + k).term # m.entries[k].term)
         /\ FirstNew(s, m) <= Len(m.entries) =>
              (\/ m.prevLogIndex + FirstNew(s, m) >= logLen(s)
               \/ getLog(s, m.prevLogIndex + FirstNew(s, m)).term # m.entries[FirstNew(s, m)].term)
<1> DEFINE New(k) == \/ m.prevLogIndex + k >= logLen(s)
                     \/ getLog(s, m.prevLogIndex + k).term # m.entries[k].term
           missing == {k \in 1 .. Len(m.entries) : New(k)}
<1>1. PICK len : len = Len(m.entries)
  OBVIOUS
<1>2. len \in Nat
  BY <1>1, LenProperties
<1>3. FirstNew(s, m) = IF missing = {} THEN len + 1 ELSE CHOOSE k \in missing : \A j \in missing : k <= j
  BY <1>1 DEF FirstNew
<1> HIDE DEF New
<1>4. missing \subseteq 1 .. len /\ \A k \in 1 .. len : k \in missing <=> New(k)
  BY <1>1
<1> HIDE DEF missing
<1>5. PICK f : f = FirstNew(s, m)
  OBVIOUS
<1>6. /\ f \in 1 .. len + 1 /\ (\A k \in 1 .. f - 1 : ~New(k)) /\ (f <= len => New(f))
  <2>1. CASE missing = {}
    <3>1. f = len + 1
      BY <1>3, <1>5, <2>1
    <3> QED
      BY <1>2, <1>4, <2>1, <3>1
  <2>2. CASE missing # {}
    <3>1. \E k \in missing : \A j \in missing : k <= j
      <4>1. missing \subseteq Nat
        BY <1>2, <1>4
      <4> QED
        BY <2>2, <4>1, LeastNat
    <3>2. f \in missing /\ \A j \in missing : f <= j
      BY <1>3, <1>5, <2>2, <3>1
    <3>3. f \in 1 .. len
      BY <1>4, <3>2
    <3>4. \A k \in 1 .. f - 1 : k \in 1 .. len /\ ~(f <= k)
      BY <1>2, <3>3
    <3> QED
      BY <1>2, <1>4, <3>2, <3>3, <3>4
  <2> QED
    BY <2>1, <2>2
<1> QED
  BY <1>1, <1>5, <1>6 DEF New

(* Where the follower has an entry of the same term as a leader, it has the *)
(* log of that leader up to there.                                          *)
LEMMA PieceAgrees ==
  ASSUME LogTypeOK, LeaderLogs, NEW s \in Server, NEW t, PieceOf(t, lastIncludedIndex[s], log[s]),
         NEW u \in Term, NEW d \in lastIncludedIndex[s] .. getLastLogIdx(s), d <= Len(leaderLog[u]),
         d > 0 => getLog(s, d).term = leaderLog[u][d].term
  PROVE  \A j \in 1 .. d : leaderLog[t][j] = leaderLog[u][j]
<1>1. /\ t \in Term /\ getLastLogIdx(s) <= Len(leaderLog[t])
      /\ getLog(s, d).term = IF d = 0 THEN 0 ELSE leaderLog[t][d].term
  BY ZenonT(30), PieceEntries
<1>2. lastIncludedIndex[s] \in Nat /\ getLastLogIdx(s) \in Nat
  BY LogShape
<1>3. Len(leaderLog[t]) \in Nat /\ Len(leaderLog[u]) \in Nat
  BY <1>1, LeaderLogType
<1>4. CASE d = 0
  BY <1>4
<1>5. CASE d # 0
  <2>1. d \in 1 .. Len(leaderLog[t]) /\ d \in 1 .. Len(leaderLog[u])
    BY <1>1, <1>2, <1>3, <1>5
  <2>2. leaderLog[t][d].term = leaderLog[u][d].term
    BY <1>1, <1>2, <1>5
  <2>3. At(t, d, leaderLog[t][d].term) /\ At(u, d, leaderLog[t][d].term)
    BY <2>1, <2>2 DEF At
  <2> QED
    BY <1>1, <2>3, SameTermSameLog
<1> QED
  BY <1>4, <1>5

(* x, above index base, holds the entries of request m and is the piece of  *)
(* the log of a leader that has them too.                                   *)
Follows(x, base, m) ==
  LET e == m.prevLogIndex + Len(m.entries)
      t == x[Len(x)].term
  IN  /\ x \in Seq(Entry) /\ Len(x) > 0 /\ e <= base + Len(x) - 1
      /\ PieceOf(t, base, x) /\ t <= m.term
      /\ \A j \in 1 .. e : leaderLog[t][j] = leaderLog[m.term][j]

(* s has m's previous entry: the consistency check of AppendEntries. *)
HasPrev(s, m) ==
  /\ m.prevLogIndex \in lastIncludedIndex[s] .. getLastLogIdx(s)
  /\ getLog(s, m.prevLogIndex).term = m.prevLogTerm

(* Where the check succeeds the log of s and that of the leader agree up to *)
(* the first new entry.                                                     *)
LEMMA AgreesUpToNew ==
  ASSUME FullInv, NEW s \in Server, NEW m \in aeReq, HasPrev(s, m),
         NEW h \in 0 .. FirstNew(s, m) - 1
  PROVE  /\ m.prevLogIndex + h <= getLastLogIdx(s)
         /\ \A j \in 1 .. m.prevLogIndex + h : leaderLog[getLastLogTerm(s)][j] = leaderLog[m.term][j]
<1>0. LogTypeOK /\ LeaderLogs /\ HasPiece(s) /\ AppendFromLeader(m) /\ TypeOK
  BY DEF FullInv, Inv, LogInv, PeersKeepLogs, MessagesFromLeaders
<1>1. PICK prev : prev = m.prevLogIndex
  OBVIOUS
<1>2. PICK len : len = Len(m.entries)
  OBVIOUS
<1>3. PICK last : last = getLastLogIdx(s)
  OBVIOUS
<1>4. PICK base : base = lastIncludedIndex[s]
  OBVIOUS
<1>5. PICK f : f = FirstNew(s, m)
  OBVIOUS
<1>6. /\ prev \in Nat /\ len \in Nat /\ last \in Nat /\ base \in Nat /\ logLen(s) = last + 1
      /\ m.term \in Term /\ Len(leaderLog[m.term]) \in Nat /\ m.entries \in Seq(Entry)
  BY <1>0, <1>1, <1>2, <1>3, <1>4, LogShape, LeaderLogType, LenProperties DEF LogTypeOK, TypeOK
<1>7. /\ f \in 1 .. len + 1
      /\ \A k \in 1 .. f - 1 : ~(\/ prev + k >= last + 1
                                 \/ getLog(s, prev + k).term # m.entries[k].term)
  BY SMTT(30), <1>1, <1>2, <1>5, <1>6, FirstNewFacts
<1>8. /\ prev + len <= Len(leaderLog[m.term])
      /\ m.prevLogTerm = IF prev = 0 THEN 0 ELSE leaderLog[m.term][prev].term
      /\ \A k \in 1 .. len : m.entries[k] = leaderLog[m.term][prev + k]
  BY <1>0, <1>1, <1>2 DEF AppendFromLeader
<1>9. prev \in base .. last /\ getLog(s, prev).term = m.prevLogTerm
  BY <1>1, <1>3, <1>4 DEF HasPrev
<1>10. h \in 0 .. f - 1
  BY <1>5
<1>11. CASE h = 0
  <2>1. prev <= Len(leaderLog[m.term]) /\ prev + h = prev /\ prev <= last
    BY <1>6, <1>8, <1>9, <1>11
  <2>2. prev > 0 => getLog(s, prev).term = leaderLog[m.term][prev].term
    BY <1>8, <1>9
  <2>3. \A j \in 1 .. prev : leaderLog[getLastLogTerm(s)][j] = leaderLog[m.term][j]
    BY ZenonT(30), <1>0, <1>3, <1>4, <1>6, <1>9, <2>1, <2>2, PieceAgrees DEF HasPiece
  <2> QED
    BY <1>1, <1>3, <2>1, <2>3
<1>12. CASE h # 0
  <2>1. h \in 1 .. f - 1 /\ h \in 1 .. len
    BY <1>6, <1>7, <1>10, <1>12
  <2>2. ~(prev + h >= last + 1) /\ getLog(s, prev + h).term = m.entries[h].term
    BY <1>7, <2>1
  <2>3. /\ prev + h \in base .. last /\ prev + h <= Len(leaderLog[m.term]) /\ prev + h <= last
    BY <1>6, <1>8, <1>9, <2>1, <2>2
  <2>4. getLog(s, prev + h).term = leaderLog[m.term][prev + h].term
    BY <1>8, <2>1, <2>2
  <2>5. \A j \in 1 .. prev + h : leaderLog[getLastLogTerm(s)][j] = leaderLog[m.term][j]
    BY SMTT(30), <1>0, <1>3, <1>4, <1>6, <2>3, <2>4, PieceAgrees DEF HasPiece
  <2> QED
    BY <1>1, <1>3, <2>3, <2>5
<1> QED
  BY <1>11, <1>12

(* Nothing new: the log is left as it is. *)
LEMMA MergedNothing ==
  ASSUME FullInv, NEW s \in Server, NEW m \in aeReq, HasPrev(s, m), currentTerm[s] <= m.term,
         ~(FirstNew(s, m) <= Len(m.entries))
  PROVE  MergedLog(s, m) = log[s] /\ Follows(log[s], lastIncludedIndex[s], m)
<1>0. LogTypeOK /\ TypeOK /\ HasPiece(s)
  BY DEF FullInv, Inv, LogInv, PeersKeepLogs
<1>1. /\ Len(m.entries) \in Nat /\ m.prevLogIndex \in Nat /\ m.entries \in Seq(Entry)
      /\ m.term \in Nat /\ currentTerm[s] \in Nat
  BY <1>0, TermNat, LenProperties DEF LogTypeOK, TypeOK
<1>2. FirstNew(s, m) = Len(m.entries) + 1
  <2>1. FirstNew(s, m) \in 1 .. Len(m.entries) + 1
    BY <1>1, FirstNewFacts
  <2> QED
    BY <1>1, <2>1
<1>3. Len(m.entries) \in 0 .. FirstNew(s, m) - 1
  BY <1>1, <1>2
<1>4. /\ m.prevLogIndex + Len(m.entries) <= getLastLogIdx(s)
      /\ \A j \in 1 .. m.prevLogIndex + Len(m.entries) :
           leaderLog[getLastLogTerm(s)][j] = leaderLog[m.term][j]
  BY <1>3, AgreesUpToNew
<1>5. /\ log[s] \in Seq(Entry) /\ Len(log[s]) > 0 /\ getLastLogTerm(s) = log[s][Len(log[s])].term
      /\ getLastLogIdx(s) = lastIncludedIndex[s] + Len(log[s]) - 1 /\ getLastLogTerm(s) \in Nat
  BY <1>0, LogShape
<1>6. PieceOf(getLastLogTerm(s), lastIncludedIndex[s], log[s]) /\ getLastLogTerm(s) <= m.term
  <2>1. getLastLogTerm(s) <= currentTerm[s]
    BY <1>0 DEF HasPiece
  <2>2. getLastLogTerm(s) <= m.term
    BY <1>1, <1>5, <2>1
  <2> QED
    BY <1>0, <2>2 DEF HasPiece
<1>7. MergedLog(s, m) = log[s]
  <2>1. FirstNew(s, m) > Len(m.entries)
    BY <1>1, <1>2
  <2> QED
    BY <2>1 DEF MergedLog
<1>8. Follows(log[s], lastIncludedIndex[s], m)
  BY <1>4, <1>5, <1>6 DEF Follows
<1> QED
  BY <1>7, <1>8

(* Something new: the log is cut after the last entry that agrees, d, and   *)
(* gets the rest of the leader's.                                           *)
LEMMA MergedNew ==
  ASSUME FullInv, NEW s \in Server, NEW m \in aeReq, HasPrev(s, m), currentTerm[s] <= m.term,
         FirstNew(s, m) <= Len(m.entries)
  PROVE  /\ Follows(MergedLog(s, m), lastIncludedIndex[s], m)
         /\ lastIncludedIndex[s] + Len(MergedLog(s, m)) - 1 = m.prevLogIndex + Len(m.entries)
         /\ \A j \in lastIncludedIndex[s] + 1 .. m.prevLogIndex + Len(m.entries) :
              EntryAt(MergedLog(s, m), lastIncludedIndex[s], j) = leaderLog[m.term][j]
         /\ \E d \in Nat :
              /\ d < m.prevLogIndex + Len(m.entries)
              /\ d <= getLastLogIdx(s) /\ lastIncludedIndex[s] <= d
              /\ \A j \in 1 .. d : leaderLog[getLastLogTerm(s)][j] = leaderLog[m.term][j]
              /\ d < getLastLogIdx(s) =>
                   leaderLog[getLastLogTerm(s)][d + 1].term # leaderLog[m.term][d + 1].term
<1>0. /\ LogTypeOK /\ LeaderLogs /\ HasPiece(s) /\ AppendFromLeader(m) /\ TypeOK
  BY DEF FullInv, Inv, LogInv, PeersKeepLogs, MessagesFromLeaders
<1>1. PICK prev : prev = m.prevLogIndex
  OBVIOUS
<1>2. PICK len : len = Len(m.entries)
  OBVIOUS
<1>3. PICK last : last = getLastLogIdx(s)
  OBVIOUS
<1>4. PICK base : base = lastIncludedIndex[s]
  OBVIOUS
<1>5. PICK k : k = FirstNew(s, m)
  OBVIOUS
<1>6. PICK x : x = log[s]
  OBVIOUS
<1>7. PICK lt : lt = getLastLogTerm(s)
  OBVIOUS
<1>8. PICK ent : ent = m.entries
  OBVIOUS
<1>9. PICK T : T = m.term
  OBVIOUS
<1>10. PICK L : L = leaderLog[T]
  OBVIOUS
<1>11. PICK own : own = leaderLog[lt]
  OBVIOUS
<1>12. PICK lg : lg = MergedLog(s, m)
  OBVIOUS
<1>13. /\ prev \in Nat /\ len \in Nat /\ last \in Nat /\ base \in Nat /\ logLen(s) = last + 1
       /\ T \in Term /\ T \in Nat /\ L \in Seq(Entry) /\ Len(L) \in Nat /\ ent \in Seq(Entry) /\ len = Len(ent)
       /\ x \in Seq(Entry) /\ Len(x) \in Nat /\ last = base + Len(x) - 1 /\ Len(x) > 0
       /\ \A j \in 1 .. Len(L) : L[j].term \in Nat
  BY <1>0, <1>1, <1>2, <1>3, <1>4, <1>6, <1>8, <1>9, <1>10, LogShape, LeaderLogType, TermNat, LenProperties
     DEF LogTypeOK, TypeOK
<1>14. /\ lt \in Term /\ PieceOf(lt, base, x) /\ last <= Len(own)
       /\ \A j \in base + 1 .. last : getLog(s, j) = own[j]
  BY <1>0, <1>3, <1>4, <1>6, <1>7, <1>11, PieceEntries DEF HasPiece
<1>15. k \in 1 .. len + 1 /\ k <= len
       /\ (prev + k >= last + 1 \/ getLog(s, prev + k).term # ent[k].term)
  BY <1>1, <1>2, <1>5, <1>8, <1>13, FirstNewFacts
<1>16. prev + len <= Len(L) /\ \A j \in 1 .. len : ent[j] = L[prev + j]
  BY <1>0, <1>1, <1>2, <1>8, <1>9, <1>10 DEF AppendFromLeader
<1>17. PICK d : d = prev + k - 1
  OBVIOUS
<1>18. d <= last /\ \A j \in 1 .. d : own[j] = L[j]
  <2>1. k - 1 \in 0 .. k - 1
    BY SMTT(30), <1>13, <1>15
  <2>2. /\ prev + (k - 1) <= last
        /\ \A j \in 1 .. prev + (k - 1) : own[j] = L[j]
    BY <1>1, <1>3, <1>5, <1>7, <1>9, <1>10, <1>11, <2>1, AgreesUpToNew
  <2>3. prev + (k - 1) = d
    BY <1>13, <1>15, <1>17
  <2> QED
    BY <2>2, <2>3
<1>19. prev \in base .. last
  BY <1>1, <1>3, <1>4 DEF HasPrev
<1>20. /\ d \in Nat /\ base <= d /\ d < prev + len /\ d + 1 = prev + k /\ d + 1 \in Nat
  BY <1>13, <1>15, <1>17, <1>19
<1>21. PICK a : a = prev + k - base
  OBVIOUS
<1>22. a = d - base + 1 /\ a \in 1 .. Len(x)
  <2>1. PICK n : n = Len(x)
    OBVIOUS
  <2>2. /\ base \in Nat /\ prev \in Nat /\ last \in Nat /\ n \in Nat /\ len \in Nat /\ last = base + n - 1
        /\ k \in 1 .. len + 1 /\ d = prev + k - 1 /\ d <= last /\ base <= prev /\ a = prev + k - base
    BY <1>13, <1>15, <1>17, <1>18, <1>19, <1>21, <2>1
  <2>3. a = d - base + 1 /\ a \in 1 .. n
    BY <2>2
  <2> QED
    BY <2>1, <2>3
<1>23. PICK head : head = SubSeq(x, 1, a)
  OBVIOUS
<1>24. PICK rest : rest = SubSeq(ent, k, len)
  OBVIOUS
<1>25. lg = head \o rest
  <2>1. ~(k > len)
    BY <1>13, <1>15
  <2> QED
    BY <1>1, <1>2, <1>4, <1>5, <1>6, <1>8, <1>12, <1>21, <1>23, <1>24, <2>1 DEF MergedLog
<1>26. head \in Seq(Entry) /\ Len(head) = a /\ \A i \in 1 .. a : head[i] = x[i]
  <2>1. a \in Nat /\ \A i \in 1 .. a : x[i] \in Entry
    BY <1>13, <1>22, ElementOfSeq
  <2> QED
    BY <1>23, <2>1, SubSeqProperties
<1>27. rest \in Seq(Entry) /\ Len(rest) = len - k + 1 /\ \A i \in 1 .. len - k + 1 : rest[i] = ent[k + i - 1]
  <2>1. k \in 1 .. Len(ent) + 1
    BY <1>13, <1>15
  <2> QED
    BY <1>13, <1>24, <2>1, SuffixFacts
<1>28. /\ lg \in Seq(Entry) /\ Len(lg) = a + (len - k + 1)
       /\ \A i \in 1 .. a + (len - k + 1) : lg[i] = IF i <= a THEN head[i] ELSE rest[i - a]
  <2>1. /\ head \o rest \in Seq(Entry) /\ Len(head \o rest) = Len(head) + Len(rest)
        /\ \A i \in 1 .. Len(head) + Len(rest) :
             (head \o rest)[i] = IF i <= Len(head) THEN head[i] ELSE rest[i - Len(head)]
    BY <1>26, <1>27, ConcatProperties
  <2> QED
    BY <1>25, <1>26, <1>27, <2>1
<1>29. PICK e : e = prev + len
  OBVIOUS
<1>30. e \in Nat /\ e > 0 /\ d < e /\ e <= Len(L) /\ base + Len(lg) - 1 = e /\ Len(lg) > 0 /\ Len(lg) \in Nat
       /\ base <= e
  <2>1. PICK n : n = Len(lg)
    OBVIOUS
  <2>2. PICK n2 : n2 = Len(L)
    OBVIOUS
  <2>3. /\ n = a + (len - k + 1) /\ a = d - base + 1 /\ d + 1 = prev + k /\ e = prev + len
        /\ d \in Nat /\ prev \in Nat /\ base \in Nat /\ len \in Nat /\ k \in 1 .. len + 1 /\ k <= len
        /\ base <= d /\ e <= n2
    BY <1>13, <1>15, <1>16, <1>20, <1>22, <1>28, <1>29, <2>1, <2>2
  <2>4. e \in Nat /\ e > 0 /\ d < e /\ e <= n2 /\ base + n - 1 = e /\ n > 0 /\ n \in Nat /\ base <= e
    BY <2>3
  <2> QED
    BY <2>1, <2>2, <2>4
<1>31. \A i \in 1 .. a : lg[i] = x[i]
  <2> TAKE i \in 1 .. a
  <2>1. i \in 1 .. a + (len - k + 1) /\ i <= a
    BY SMTT(30), <1>13, <1>15, <1>22
  <2> QED
    BY <1>26, <1>28, <2>1
<1>32. \A j \in base + 1 .. d : lg[j - base + 1] = L[j]
  <2> TAKE j \in base + 1 .. d
  <2>1. j - base + 1 \in 1 .. a /\ j \in base + 1 .. last /\ j \in 1 .. d
    BY <1>13, <1>18, <1>20, <1>22
  <2>2. getLog(s, j) = x[j - base + 1]
    BY <1>4, <1>6 DEF getLog, EntryAt
  <2> QED
    BY <1>14, <1>18, <1>31, <2>1, <2>2
<1>33. \A j \in d + 1 .. e : lg[j - base + 1] = L[j]
  <2> TAKE j \in d + 1 .. e
  <2>1. /\ j \in Int /\ d + 1 <= j /\ j <= e /\ e = prev + len /\ a = d - base + 1 /\ d = prev + k - 1
        /\ d \in Nat /\ prev \in Nat /\ base \in Nat /\ len \in Nat /\ k \in Nat /\ base <= d /\ k >= 1
    BY <1>13, <1>15, <1>17, <1>20, <1>22, <1>29
  <2>2. j - base + 1 \in 1 .. a + (len - k + 1) /\ ~(j - base + 1 <= a)
    BY <2>1
  <2>3. (j - base + 1) - a \in 1 .. len - k + 1 /\ k + ((j - base + 1) - a) - 1 = j - prev
    BY <2>1
  <2>4. j - prev \in 1 .. len /\ prev + (j - prev) = j
    BY <2>1
  <2>5. lg[j - base + 1] = rest[(j - base + 1) - a]
    BY <1>28, <2>2
  <2>6. lg[j - base + 1] = ent[j - prev]
    BY <1>27, <2>3, <2>5
  <2> QED
    BY <1>16, <2>4, <2>6
<1>34. \A j \in base + 1 .. e : lg[j - base + 1] = L[j]
  <2> TAKE j \in base + 1 .. e
  <2>1. j \in base + 1 .. d \/ j \in d + 1 .. e
    BY <1>13, <1>20, <1>30
  <2> QED
    BY <1>32, <1>33, <2>1
<1>35. lg[1].term = IF base = 0 THEN 0 ELSE L[base].term
  <2>1. 1 \in 1 .. a /\ (base # 0 => base \in 1 .. d)
    BY <1>13, <1>20, <1>22
  <2>2. x[1].term = IF base = 0 THEN 0 ELSE own[base].term
    BY <1>11, <1>14 DEF PieceOf
  <2> QED
    BY <1>18, <1>31, <2>1, <2>2
<1>36. PICK t : t = L[e].term
  OBVIOUS
<1>37. lg[Len(lg)].term = t
  <2>1. e \in base + 1 .. e /\ e - base + 1 = Len(lg)
    BY <1>13, <1>20, <1>30
  <2> QED
    BY <1>34, <1>36, <2>1
<1>38. /\ t \in Term /\ t \in Nat /\ t <= T /\ e <= Len(leaderLog[t])
       /\ \A j \in 1 .. e : leaderLog[t][j] = L[j]
  <2>1. At(T, e, t)
    BY <1>10, <1>30, <1>36 DEF At
  <2>2. t \in Term /\ t \in 1 .. T /\ At(t, e, t) /\ \A j \in 1 .. e : L[j] = leaderLog[t][j]
    BY <1>0, <1>10, <1>13, <2>1, AtItsOwn
  <2>3. e <= Len(leaderLog[t])
    BY <1>0, <1>30, <2>2, LeaderLogType DEF At
  <2> QED
    BY <1>13, <2>2, <2>3
<1>39. PieceOf(t, base, lg)
  <2>1. base # 0 => leaderLog[t][base] = L[base]
    BY <1>13, <1>30, <1>38
  <2>2. \A j \in base + 1 .. e : leaderLog[t][j] = L[j]
    BY <1>13, <1>38
  <2> QED
    BY <1>30, <1>34, <1>35, <1>38, <2>1, <2>2 DEF PieceOf
<1>40. Follows(lg, base, m)
  <2>1. e <= base + Len(lg) - 1
    BY <1>30
  <2> QED
    BY <1>1, <1>2, <1>9, <1>10, <1>28, <1>29, <1>30, <1>37, <1>38, <1>39, <2>1 DEF Follows
<1>41. d < last => own[d + 1].term # L[d + 1].term
  <2> SUFFICES ASSUME d < last PROVE own[d + 1].term # L[d + 1].term
    OBVIOUS
  <2>1. d + 1 \in base + 1 .. last /\ ~(prev + k >= last + 1) /\ k \in 1 .. len
    BY SMTT(30), <1>13, <1>15, <1>20
  <2>2. getLog(s, d + 1) = own[d + 1] /\ ent[k] = L[d + 1]
    BY <1>14, <1>16, <1>20, <2>1
  <2> QED
    BY <1>15, <1>20, <2>1, <2>2
<1>42. \A j \in base + 1 .. e : EntryAt(lg, base, j) = L[j]
  BY <1>34 DEF EntryAt
<1> QED
  BY <1>1, <1>2, <1>3, <1>4, <1>7, <1>9, <1>10, <1>11, <1>12, <1>18, <1>20, <1>29, <1>30, <1>40, <1>41, <1>42

(* Whatever is merged follows the request. *)
LEMMA MergedFollows ==
  ASSUME FullInv, NEW s \in Server, NEW m \in aeReq, HasPrev(s, m), currentTerm[s] <= m.term
  PROVE  Follows(MergedLog(s, m), lastIncludedIndex[s], m)
BY MergedNothing, MergedNew

(* What follows a request has the entries of the leader up to the request's last. *)
LEMMA FollowsFacts ==
  ASSUME LogTypeOK, NEW x, NEW base \in Nat, NEW m \in aeReq, Follows(x, base, m)
  PROVE  /\ m.prevLogIndex + Len(m.entries) \in Nat /\ x \in Seq(Entry) /\ Len(x) \in Nat /\ Len(x) > 0
         /\ m.prevLogIndex + Len(m.entries) <= base + Len(x) - 1
         /\ base + Len(x) - 1 <= Len(leaderLog[x[Len(x)].term])
         /\ x[Len(x)].term \in Term /\ Len(leaderLog[x[Len(x)].term]) \in Nat
         /\ \A i, k : At(m.term, i, k) /\ i <= m.prevLogIndex + Len(m.entries) =>
              /\ At(x[Len(x)].term, i, k) /\ i <= base + Len(x) - 1
         /\ \A j \in base + 1 .. m.prevLogIndex + Len(m.entries) :
              EntryAt(x, base, j) = leaderLog[m.term][j]
<1>1. PICK e : e = m.prevLogIndex + Len(m.entries)
  OBVIOUS
<1>2. PICK t : t = x[Len(x)].term
  OBVIOUS
<1>3. PICK top : top = base + Len(x) - 1
  OBVIOUS
<1>4. /\ x \in Seq(Entry) /\ Len(x) > 0 /\ e <= top /\ PieceOf(t, base, x)
      /\ \A j \in 1 .. e : leaderLog[t][j] = leaderLog[m.term][j]
  BY <1>1, <1>2, <1>3 DEF Follows
<1>5. Len(x) \in Nat /\ e \in Nat /\ top \in Nat
  <2>1. Len(x) \in Nat /\ m.prevLogIndex \in Nat /\ Len(m.entries) \in Nat
    BY <1>4, LenProperties DEF LogTypeOK
  <2> QED
    BY <1>1, <1>3, <1>4, <2>1
<1>6. /\ t \in Term /\ top <= Len(leaderLog[t]) /\ Len(leaderLog[t]) \in Nat
      /\ \A j \in base + 1 .. top : x[j - base + 1] = leaderLog[t][j]
  BY <1>3, <1>4, LeaderLogType DEF PieceOf
<1>7. ASSUME NEW i, NEW k, At(m.term, i, k), i <= e PROVE At(t, i, k) /\ i <= top
  <2>1. i \in Int /\ 1 <= i /\ leaderLog[m.term][i].term = k
    BY <1>7 DEF At
  <2>2. i \in 1 .. e /\ i <= top /\ i \in 1 .. Len(leaderLog[t])
    BY <1>4, <1>5, <1>6, <1>7, <2>1
  <2> QED
    BY <1>4, <2>1, <2>2 DEF At
<1>8. \A j \in base + 1 .. e : EntryAt(x, base, j) = leaderLog[m.term][j]
  <2> TAKE j \in base + 1 .. e
  <2>1. j \in base + 1 .. top /\ j \in 1 .. e
    BY <1>4, <1>5
  <2> QED
    BY <1>4, <1>6, <2>1 DEF EntryAt
<1> QED
  BY <1>1, <1>2, <1>3, <1>4, <1>5, <1>6, <1>7, <1>8

(* No peer has acknowledged anything in a term it has not reached. *)
LEMMA AckedTerm ==
  ASSUME FullInv, NEW s \in Server, NEW t, NEW i, Acked(s, t, i)
  PROVE  t \in Term /\ t \in Nat /\ t <= currentTerm[s]
<1>0. TypeOK /\ LogTypeOK /\ LeadersElected /\ MessagesFromLeaders
  BY DEF FullInv, Inv, ElectionInv, LogInv
<1>1. currentTerm[s] \in Nat
  BY <1>0, TermNat DEF TypeOK
<1>2. CASE <<t, s>> \in elected
  <2>1. currentTerm[s] > t \/ currentTerm[s] = t
    BY <1>0, <1>2 DEF LeadersElected
  <2>2. t \in Term /\ t \in Nat
    BY <1>0, <1>2, TermNat DEF TypeOK
  <2> QED
    BY <1>1, <2>1, <2>2
<1>3. CASE <<t, s>> \notin elected
  <2>1. PICK r \in aeRep : r.success /\ r.from = s /\ r.argTerm = t
    BY <1>3 DEF Acked
  <2>2. t \in Term /\ t <= currentTerm[s]
    BY <1>0, <2>1 DEF LogTypeOK, MessagesFromLeaders, AnswersLeader
  <2> QED
    BY <2>2, TermNat
<1> QED
  BY <1>2, <1>3

(* Merging loses nothing the peer has acknowledged, unless it can never be *)
(* committed: what is cut off differs from the leader's log, and the leader *)
(* has everything that may be committed.                                    *)
LEMMA AcksSurvive ==
  ASSUME FullInv, NEW s \in Server, NEW m \in aeReq, HasPrev(s, m), currentTerm[s] <= m.term,
         NEW t \in Term, NEW i, At(t, i, t), Acked(s, t, i), ~Blocked(t, i),
         NEW lg, lg = MergedLog(s, m)
  PROVE  i <= lastIncludedIndex[s] + Len(lg) - 1 /\ At(lg[Len(lg)].term, i, t)
<1>0. /\ TypeOK /\ LogTypeOK /\ LeaderLogs /\ LeadersComplete /\ Keeps(s) /\ AppendFromLeader(m)
  BY DEF FullInv, Inv, LogInv, PeersKeepLogs, MessagesFromLeaders
<1>1. i \in Nat /\ t \in Nat /\ i \in 1 .. Len(leaderLog[t]) /\ i > 0
  BY TermNat DEF At
<1>2. i <= getLastLogIdx(s) /\ At(getLastLogTerm(s), i, t)
  BY <1>0, <1>1 DEF Keeps
<1>3. /\ lastIncludedIndex[s] \in Nat /\ getLastLogIdx(s) \in Nat
      /\ getLastLogTerm(s) = log[s][Len(log[s])].term
      /\ getLastLogIdx(s) = lastIncludedIndex[s] + Len(log[s]) - 1
  BY <1>0, LogShape
<1>4. CASE ~(FirstNew(s, m) <= Len(m.entries))
  <2>1. lg = log[s]
    BY <1>4, MergedNothing
  <2> QED
    BY <1>2, <1>3, <2>1
<1>5. CASE FirstNew(s, m) <= Len(m.entries)
  <2>1. PICK e : e = m.prevLogIndex + Len(m.entries)
    OBVIOUS
  <2>2. PICK last : last = getLastLogIdx(s)
    OBVIOUS
  <2>3. PICK lt : lt = getLastLogTerm(s)
    OBVIOUS
  <2>4. PICK d \in Nat :
          /\ d < e /\ d <= last
          /\ \A j \in 1 .. d : leaderLog[lt][j] = leaderLog[m.term][j]
          /\ d < last => leaderLog[lt][d + 1].term # leaderLog[m.term][d + 1].term
    BY <1>5, <2>1, <2>2, <2>3, MergedNew
  <2>5. Follows(lg, lastIncludedIndex[s], m)
    BY MergedFollows
  <2>6. e \in Nat /\ \A k : At(m.term, i, k) /\ i <= e =>
          At(lg[Len(lg)].term, i, k) /\ i <= lastIncludedIndex[s] + Len(lg) - 1
    BY <1>0, <1>3, <2>1, <2>5, FollowsFacts
  <2>7. /\ e <= Len(leaderLog[m.term]) /\ Len(leaderLog[m.term]) \in Nat /\ m.term \in Term
        /\ m.term \in Nat /\ <<m.term, m.from>> \in elected
    BY <1>0, <2>1, LeaderLogType, TermNat DEF AppendFromLeader, TypeOK
  <2>8. CASE i <= d
    <3>1. i \in 1 .. d /\ i <= e /\ i \in 1 .. Len(leaderLog[m.term])
      BY <1>1, <2>4, <2>6, <2>7, <2>8
    <3>2. At(m.term, i, t)
      BY <1>2, <2>3, <2>4, <3>1 DEF At
    <3> QED
      BY <2>6, <3>1, <3>2
  <2>9. CASE ~(i <= d)
    <3>1. t <= currentTerm[s] /\ currentTerm[s] \in Nat
      BY <1>0, AckedTerm, TermNat DEF TypeOK
    <3>2. At(m.term, i, t)
      <4>1. CASE t = m.term
        BY <4>1
      <4>2. CASE t # m.term
        <5>1. t \in 0 .. m.term - 1
          BY <1>1, <2>7, <3>1, <4>2
        <5>2. Complete(<<m.term, m.from>>)
          BY <1>0, <2>7 DEF LeadersComplete
        <5> QED
          BY <1>1, <5>1, <5>2 DEF Complete
      <4> QED
        BY <4>1, <4>2
    <3>3. lt \in Term
      BY <2>3, LastEntry
    <3>4. \A j \in 1 .. i : leaderLog[lt][j] = leaderLog[m.term][j]
      BY <1>0, <1>2, <2>3, <2>7, <3>2, <3>3, SameTermSameLog
    <3>5. d + 1 \in 1 .. i /\ d < last
      BY <1>1, <1>2, <1>3, <2>2, <2>4, <2>9
    <3> QED
      BY <2>4, <3>4, <3>5
  <2> QED
    BY <2>8, <2>9
<1> QED
  BY <1>4, <1>5

(* What the service has, and what it is about to get, is in the merged log. *)
LEMMA MergedServes ==
  ASSUME FullInv, NEW s \in Server, NEW m \in aeReq, HasPrev(s, m), currentTerm[s] <= m.term,
         NEW lg, lg = MergedLog(s, m)
  PROVE  /\ lastApplied[s] <= lastIncludedIndex[s] + Len(lg) - 1
         /\ m.leaderCommit <= lastIncludedIndex[s] + Len(lg) - 1
         /\ \A j \in 1 .. lastApplied[s] : applied[s][j] = leaderLog[m.term][j]
         /\ \A j \in lastIncludedIndex[s] + 1 .. lastIncludedIndex[s] + Len(lg) - 1 :
              j <= lastApplied[s] \/ j <= m.leaderCommit =>
                EntryAt(lg, lastIncludedIndex[s], j) = leaderLog[m.term][j]
<1>0. /\ TypeOK /\ LogTypeOK /\ LeaderLogs /\ LeadersComplete /\ HasPiece(s) /\ Serves(s)
      /\ AppendFromLeader(m)
  BY DEF FullInv, Inv, LogInv, PeersKeepLogs, MessagesFromLeaders
<1>1. PICK e : e = m.prevLogIndex + Len(m.entries)
  OBVIOUS
<1>2. PICK last : last = getLastLogIdx(s)
  OBVIOUS
<1>3. PICK base : base = lastIncludedIndex[s]
  OBVIOUS
<1>4. PICK top : top = base + Len(lg) - 1
  OBVIOUS
<1>5. PICK n : n = lastApplied[s]
  OBVIOUS
<1>6. PICK T : T = m.term
  OBVIOUS
<1>7. PICK cm : cm = m.leaderCommit
  OBVIOUS
<1>8. /\ last \in Nat /\ base \in Nat /\ n \in Nat /\ n <= last /\ applied[s] \in Seq(Entry)
      /\ last = base + Len(log[s]) - 1 /\ Len(applied[s]) = n /\ cm \in Nat
      /\ T \in Term /\ T \in Nat /\ currentTerm[s] \in Nat /\ base <= n
  BY ZenonT(30), <1>0, <1>2, <1>3, <1>5, <1>6, <1>7, LogShape, TermNat DEF LogTypeOK, TypeOK, Serves
<1>9. Follows(lg, base, m)
  BY <1>3, MergedFollows
<1>10. /\ e \in Nat /\ e <= top /\ Len(lg) \in Nat /\ top \in Nat
       /\ \A j \in base + 1 .. e : EntryAt(lg, base, j) = leaderLog[T][j]
  <2>1. /\ e \in Nat /\ e <= top /\ Len(lg) \in Nat /\ Len(lg) > 0
        /\ \A j \in base + 1 .. e : EntryAt(lg, base, j) = leaderLog[T][j]
    <3>1. /\ m.prevLogIndex + Len(m.entries) \in Nat /\ Len(lg) \in Nat /\ Len(lg) > 0
          /\ m.prevLogIndex + Len(m.entries) <= base + Len(lg) - 1
          /\ \A j \in base + 1 .. m.prevLogIndex + Len(m.entries) :
               EntryAt(lg, base, j) = leaderLog[m.term][j]
      <4>1. /\ m.prevLogIndex + Len(m.entries) \in Nat /\ Len(lg) \in Nat /\ Len(lg) > 0
            /\ m.prevLogIndex + Len(m.entries) <= base + Len(lg) - 1
        BY Zenon, <1>0, <1>8, <1>9, FollowsFacts
      <4>2. ASSUME NEW j \in base + 1 .. m.prevLogIndex + Len(m.entries)
            PROVE  EntryAt(lg, base, j) = leaderLog[m.term][j]
        BY ZenonT(30), <1>0, <1>8, <1>9, FollowsFacts
      <4> QED
        BY Zenon, <4>1, <4>2
    <3> QED
      BY <1>1, <1>4, <1>6, <3>1
  <2> QED
    BY <1>4, <1>8, <2>1
<1>11. cm <= e /\ cm <= top
  <2>1. cm <= e
    BY <1>0, <1>1, <1>7 DEF AppendFromLeader
  <2> QED
    BY <1>8, <1>10, <2>1
<1>12. \A j \in 1 .. n : applied[s][j] = leaderLog[T][j]
  <2>1. <<T, m.from>> \in elected
    BY <1>0, <1>6 DEF AppendFromLeader
  <2>2. Safe(applied[s], currentTerm[s]) /\ currentTerm[s] \in 0 .. T
    BY <1>0, <1>6, <1>8 DEF Serves
  <2>3. \A j \in 1 .. Len(applied[s]) : applied[s][j] = leaderLog[T][j]
    BY SMTT(30), <1>0, <1>8, <2>1, <2>2, SafeInLeader
  <2> QED
    BY <1>8, <2>3
<1>13. \A j \in base + 1 .. n : getLog(s, j) = leaderLog[T][j]
  <2> TAKE j \in base + 1 .. n
  <2>1. j \in 1 .. n
    BY <1>8
  <2>2. getLog(s, j) = applied[s][j]
    BY <1>0, <1>3, <1>5 DEF Serves
  <2> QED
    BY <1>12, <2>1, <2>2
<1>14. n <= top /\ \A j \in base + 1 .. n : EntryAt(lg, base, j) = leaderLog[T][j]
  <2>1. CASE ~(FirstNew(s, m) <= Len(m.entries))
    <3>1. lg = log[s]
      BY <2>1, MergedNothing
    <3> QED
      BY <1>3, <1>4, <1>8, <1>13, <3>1 DEF getLog
  <2>2. CASE FirstNew(s, m) <= Len(m.entries)
    <3>1. PICK lt : lt = getLastLogTerm(s)
      OBVIOUS
    <3>2. PICK d \in Nat :
            /\ d < e /\ d <= last /\ base <= d
            /\ d < last => leaderLog[lt][d + 1].term # leaderLog[T][d + 1].term
      BY <1>1, <1>2, <1>3, <1>6, <2>2, <3>1, MergedNew
    <3>3. n <= d
      <4> SUFFICES ASSUME d < n PROVE FALSE
        BY <1>8
      <4>1. d + 1 \in base + 1 .. n /\ d + 1 \in base + 1 .. last /\ d < last
        BY <1>8, <3>2
      <4>2. getLog(s, d + 1) = leaderLog[lt][d + 1]
        BY <1>0, <1>2, <1>3, <3>1, <4>1, PieceEntries DEF HasPiece
      <4> QED
        BY <1>13, <3>2, <4>1, <4>2
    <3>4. n <= top /\ \A j \in base + 1 .. n : j \in base + 1 .. e
      BY SMTT(30), <1>8, <1>10, <3>2, <3>3
    <3> QED
      BY <1>10, <3>4
  <2> QED
    BY <2>1, <2>2
<1>15. \A j \in base + 1 .. top : j <= n \/ j <= cm => EntryAt(lg, base, j) = leaderLog[T][j]
  <2> TAKE j \in base + 1 .. top
  <2>1. j <= n => j \in base + 1 .. n
    BY <1>8
  <2>2. j <= cm => j \in base + 1 .. e
    BY <1>8, <1>10, <1>11
  <2> QED
    BY <1>10, <1>14, <2>1, <2>2
<1> QED
  BY <1>3, <1>4, <1>5, <1>6, <1>7, <1>11, <1>12, <1>14, <1>15

(* What the handler of AppendEntries does, refused or accepted. *)
LEMMA AppendEntriesEffect ==
  ASSUME FullInv, NEW m \in aeReq, NEW s, s = m.to, AppendEntries(m)
  PROVE  /\ UNCHANGED <<lastIncludedIndex, lastIncludedTerm, leading, rvReq, rvRep, aeReq,
                        isReq, isRep, elected, leaderLog>>
         /\ currentTerm' = [currentTerm EXCEPT ![s] = Max2(m.term, currentTerm[s])]
         /\ votedFor' = [votedFor EXCEPT ![s] = IF m.term > currentTerm[s] THEN NULL ELSE votedFor[s]]
         /\ state' = [state EXCEPT ![s] = IF m.term > currentTerm[s] THEN Follower ELSE state[s]]
         /\ \E r :
              /\ aeRep' = aeRep \cup {r}
              /\ r.argTerm = m.term /\ r.from = s /\ r.match = m.prevLogIndex + Len(m.entries)
              /\ r.conflictTerm \in Int /\ r.conflictIndex \in Nat /\ r.success \in BOOLEAN
              /\ IF r.success
                 THEN /\ HasPrev(s, m) /\ currentTerm[s] <= m.term
                      /\ log' = [log EXCEPT ![s] = MergedLog(s, m)]
                      /\ \/ persist(s)
                         \/ /\ ~(m.term > currentTerm[s]) /\ ~(FirstNew(s, m) <= Len(m.entries))
                            /\ UNCHANGED disk
                      /\ IF m.leaderCommit > commitIndex[s]
                         THEN updateLastApplied(s, Min2(m.leaderCommit, Len(log'[s]) + lastIncludedIndex[s] - 1),
                                                log'[s], lastIncludedIndex[s])
                         ELSE UNCHANGED volatile
                 ELSE /\ UNCHANGED <<log, volatile>>
                      /\ IF m.term > currentTerm[s] THEN persist(s) ELSE UNCHANGED disk
<1> DEFINE has   == m.prevLogIndex >= lastIncludedIndex[s] /\ m.prevLogIndex < logLen(s)
           mine  == IF has THEN getLog(s, m.prevLogIndex).term ELSE -1
           match == mine = m.prevLogTerm
           ok    == match /\ m.term = Max2(m.term, currentTerm[s])
           cTerm == IF match \/ ~has THEN -1 ELSE mine
           cIdx  == IF match THEN 0 ELSE IF has THEN FirstIndexOfTerm(s, mine) ELSE logLen(s)
           c     == Min2(m.leaderCommit, Len(log'[s]) + lastIncludedIndex[s] - 1)
<1>0. TypeOK /\ LogTypeOK /\ s \in Server
  BY DEF FullInv, Inv, LogInv, TypeOK
<1>1. /\ m.term \in Nat /\ currentTerm[s] \in Nat /\ m.prevLogIndex \in Nat /\ m.prevLogTerm \in Nat
      /\ lastIncludedIndex[s] \in Nat /\ getLastLogIdx(s) \in Nat /\ logLen(s) = getLastLogIdx(s) + 1
      /\ Len(log[s]) \in Nat /\ getLastLogIdx(s) = lastIncludedIndex[s] + Len(log[s]) - 1
      /\ \A i \in 1 .. Len(log[s]) : log[s][i].term \in Nat
  BY <1>0, LogShape, TermNat DEF TypeOK, LogTypeOK
<1>2. has => /\ m.prevLogIndex \in lastIncludedIndex[s] .. getLastLogIdx(s)
             /\ mine \in Nat
  <2> SUFFICES ASSUME has
               PROVE  m.prevLogIndex \in lastIncludedIndex[s] .. getLastLogIdx(s) /\ mine \in Nat
    OBVIOUS
  <2>1. /\ m.prevLogIndex \in lastIncludedIndex[s] .. getLastLogIdx(s)
        /\ m.prevLogIndex - lastIncludedIndex[s] + 1 \in 1 .. Len(log[s])
    BY SMTT(30), <1>1
  <2> QED
    BY <1>1, <2>1 DEF getLog, EntryAt
<1>3. cTerm \in Int /\ cIdx \in Nat
  <2>1. CASE match
    BY <2>1
  <2>2. CASE ~match /\ has
    BY <1>0, <1>2, <2>2, FirstIndexOfTermFacts
  <2>3. CASE ~match /\ ~has
    BY SMTT(30), <1>1, <2>3
  <2> QED
    BY <2>1, <2>2, <2>3
<1>4. ok => HasPrev(s, m) /\ currentTerm[s] <= m.term
  <2> SUFFICES ASSUME ok PROVE HasPrev(s, m) /\ currentTerm[s] <= m.term
    OBVIOUS
  <2>1. has
    BY <1>1
  <2>2. currentTerm[s] <= m.term
    BY <1>1 DEF Max2
  <2> QED
    BY <1>2, <2>1, <2>2 DEF HasPrev
<1>5. ok \in BOOLEAN
  OBVIOUS
<1>6. /\ UNCHANGED <<lastIncludedIndex, lastIncludedTerm, leading, rvReq, rvRep, aeReq,
                     isReq, isRep, elected, leaderLog>>
      /\ currentTerm' = [currentTerm EXCEPT ![s] = Max2(m.term, currentTerm[s])]
      /\ votedFor' = [votedFor EXCEPT ![s] = IF m.term > currentTerm[s] THEN NULL ELSE votedFor[s]]
      /\ state' = [state EXCEPT ![s] = IF m.term > currentTerm[s] THEN Follower ELSE state[s]]
      /\ log' = [log EXCEPT ![s] = IF ok THEN MergedLog(s, m) ELSE log[s]]
      /\ IF m.term > currentTerm[s] \/ (ok /\ FirstNew(s, m) <= Len(m.entries))
         THEN persist(s) ELSE UNCHANGED disk
      /\ IF ok /\ m.leaderCommit > commitIndex[s]
         THEN updateLastApplied(s, c, log'[s], lastIncludedIndex[s])
         ELSE UNCHANGED volatile
      /\ aeRep' = aeRep \cup
           {[argTerm |-> m.term, term |-> Max2(m.term, currentTerm[s]), from |-> s, to |-> m.from,
             success |-> ok, match |-> m.prevLogIndex + Len(m.entries),
             conflictTerm |-> cTerm, conflictIndex |-> cIdx]}
  BY DEF AppendEntries
<1> HIDE DEF ok, cTerm, cIdx
<1>7. PICK r : r = [argTerm |-> m.term, term |-> Max2(m.term, currentTerm[s]), from |-> s, to |-> m.from,
             success |-> ok, match |-> m.prevLogIndex + Len(m.entries),
             conflictTerm |-> cTerm, conflictIndex |-> cIdx]
  OBVIOUS
<1>8. /\ aeRep' = aeRep \cup {r}
      /\ r.argTerm = m.term /\ r.from = s /\ r.match = m.prevLogIndex + Len(m.entries)
      /\ r.conflictTerm \in Int /\ r.conflictIndex \in Nat
  BY <1>3, <1>6, <1>7
<1>9. r.success = ok
  BY <1>7
<1>10. CASE ok
  <2>1. r.success /\ r.success \in BOOLEAN
    BY <1>5, <1>9, <1>10
  <2> QED
    BY <1>4, <1>6, <1>8, <1>10, <2>1
<1>11. CASE ~ok
  <2>1. ~r.success /\ r.success \in BOOLEAN
    BY <1>5, <1>9, <1>11
  <2>2. UNCHANGED log
    BY <1>0, <1>6, <1>11 DEF LogTypeOK
  <2> QED
    BY <1>6, <1>8, <1>11, <2>1, <2>2
<1> QED
  BY <1>10, <1>11

(* The reply to a request, added to the replies, grows what is known. *)
LEMMA ReplyGrows ==
  ASSUME FullInv, Inv', Monotone, NEW s \in Server, NEW m \in aeReq, s = m.to, NEW r,
         UNCHANGED <<rvReq, elected, leaderLog>>, aeRep' = aeRep \cup {r},
         r.argTerm = m.term, r.from = s, r.match = m.prevLogIndex + Len(m.entries),
         ~r.success \/ currentTerm'[s] = m.term
  PROVE  /\ Grow(s) /\ AnswersLeader(r)'
         /\ ~r.success => NoNewAck(s)
         /\ \A t \in Term : \A i : Acked(s, t, i)' =>
              \/ Acked(s, t, i)
              \/ r.success /\ t = m.term /\ i <= m.prevLogIndex + Len(m.entries)
<1>0. TypeOK /\ LogTypeOK /\ AppendFromLeader(m) /\ TypeOK'
  BY DEF FullInv, Inv, LogInv, MessagesFromLeaders
<1>1. Grow(s)
  BY <1>0 DEF Grow, Monotone
<1>2. \A t \in Term : \A i : Acked(s, t, i)' =>
        \/ Acked(s, t, i)
        \/ r.success /\ t = m.term /\ i <= m.prevLogIndex + Len(m.entries)
  <2> TAKE t \in Term
  <2> TAKE i
  <2> HAVE Acked(s, t, i)'
  <2>1. CASE <<t, s>> \in elected
    BY <2>1 DEF Acked
  <2>2. CASE <<t, s>> \notin elected
    <3>1. PICK q \in aeRep \cup {r} : q.success /\ q.from = s /\ q.argTerm = t /\ q.match >= i
      BY <2>2 DEF Acked
    <3>2. CASE q \in aeRep
      BY <3>1, <3>2 DEF Acked
    <3>3. CASE q = r
      BY <3>1, <3>3
    <3> QED
      BY <3>1, <3>2, <3>3
  <2> QED
    BY <2>1, <2>2
<1>3. ~r.success => NoNewAck(s)
  <2>1. \A t, i : At(t, i, t)' => At(t, i, t)
    BY DEF At
  <2> QED
    BY <1>2, <2>1 DEF NoNewAck
<1>4. AnswersLeader(r)'
  <2>1. r.match <= Len(leaderLog'[r.argTerm])
    BY <1>0 DEF AppendFromLeader
  <2>2. r.success => r.argTerm <= currentTerm'[r.from]
    <3>1. m.term \in Term
      BY <1>0 DEF TypeOK
    <3> QED
      BY <3>1, TermOrder
  <2>3. m.from # r.from /\ <<r.argTerm, m.from>> \in elected' /\ m.from \in Server
    BY <1>0 DEF AppendFromLeader, TypeOK
  <2> QED
    BY <2>1, <2>2, <2>3 DEF AnswersLeader
<1> QED
  BY <1>1, <1>2, <1>3, <1>4

(* AppendEntries, refused: the log stays. *)
LEMMA AppendRefusedKeeps ==
  ASSUME FullInv, Inv', Monotone, NEW s \in Server, NEW m \in aeReq, s = m.to, NEW r,
         UNCHANGED <<log, volatile, lastIncludedIndex, lastIncludedTerm, leading, rvReq, rvRep,
                     aeReq, isReq, isRep, elected, leaderLog>>,
         currentTerm' = [currentTerm EXCEPT ![s] = Max2(m.term, currentTerm[s])],
         votedFor' = [votedFor EXCEPT ![s] = IF m.term > currentTerm[s] THEN NULL ELSE votedFor[s]],
         state' = [state EXCEPT ![s] = IF m.term > currentTerm[s] THEN Follower ELSE state[s]],
         IF m.term > currentTerm[s] THEN persist(s) ELSE UNCHANGED disk,
         aeRep' = aeRep \cup {r}, ~r.success, r.success \in BOOLEAN,
         r.argTerm = m.term, r.from = s, r.match = m.prevLogIndex + Len(m.entries),
         r.conflictTerm \in Int, r.conflictIndex \in Nat
  PROVE  LogInv'
<1>0. TypeOK /\ LogTypeOK /\ DiskCurrent
  BY DEF FullInv, Inv, LogInv
<1>1. m.term \in Term /\ m.term \in Nat /\ currentTerm[s] \in Nat
  BY <1>0, TermNat DEF TypeOK
<1>2. Grow(s) /\ AnswersLeader(r)' /\ NoNewAck(s)
  BY ReplyGrows
<1>3. \A q \in Server : disk'[q].snapshot = disk[q].snapshot
  BY <1>0, PersistKeepsSnapshot
<1>4. r.match \in Nat
  BY SMTT(30), <1>0, LenProperties DEF LogTypeOK
<1>5. LogTypeOK'
  BY <1>0, <1>1, <1>3, <1>4 DEF LogTypeOK, volatile, leading
<1>6. \A q \in Server : SameLog(q) /\ SameCounts(q) /\ SameService(q)
  BY <1>3 DEF volatile, leading, SameLog, SameCounts, SameService
<1>7. \A q \in Server \ {s} : /\ state'[q] = state[q] /\ currentTerm'[q] = currentTerm[q]
                              /\ votedFor'[q] = votedFor[q]
  BY <1>0 DEF TypeOK
<1>8. \A q \in Server \ {s} : Same(q)
  BY <1>6, <1>7 DEF Same, SameRole
<1>9. RoleOK(s) /\ DiskCurrent'
  <2>1. CASE m.term > currentTerm[s]
    <3>1. RoleOK(s)
      BY <1>0, <2>1 DEF TypeOK, RoleOK
    <3>2. DiskCurrent'
      BY <1>0, <1>6, <1>7, <2>1, DiskWritten DEF SameService
    <3> QED
      BY <3>1, <3>2
  <2>2. CASE ~(m.term > currentTerm[s])
    <3>1. currentTerm' = currentTerm /\ votedFor' = votedFor /\ state' = state /\ disk' = disk
      BY <1>0, <1>1, <2>2 DEF TypeOK, Max2
    <3> QED
      BY <1>0, <1>6, <3>1 DEF RoleOK, SameRole, DiskCurrent
  <2> QED
    BY <2>1, <2>2
<1> QED
  BY <1>2, <1>5, <1>6, <1>8, <1>9, RoleStep

(* What an accepted request gives the service: the leader's log, up to the  *)
(* leader's commit index.                                                   *)
LEMMA AppendApplies ==
  ASSUME FullInv, NEW s \in Server, NEW m \in aeReq, HasPrev(s, m), currentTerm[s] <= m.term,
         NEW lg, lg = MergedLog(s, m), log'[s] = lg,
         IF m.leaderCommit > commitIndex[s]
         THEN updateLastApplied(s, Min2(m.leaderCommit, Len(log'[s]) + lastIncludedIndex[s] - 1),
                                log'[s], lastIncludedIndex[s])
         ELSE UNCHANGED volatile
  PROVE  \E n \in Nat : \E y \in Seq(Entry) :
           /\ commitIndex' = [commitIndex EXCEPT ![s] = n]
           /\ lastApplied' = [lastApplied EXCEPT ![s] = n]
           /\ applied' = [applied EXCEPT ![s] = y]
           /\ lastApplied[s] <= n /\ n <= lastIncludedIndex[s] + Len(lg) - 1
           /\ Len(y) = n /\ Safe(y, m.term)
           /\ \A j \in 1 .. lastApplied[s] : y[j] = applied[s][j]
           /\ \A j \in lastIncludedIndex[s] + 1 .. n : EntryAt(lg, lastIncludedIndex[s], j) = y[j]
<1>0. /\ TypeOK /\ LogTypeOK /\ Serves(s) /\ AppendFromLeader(m)
  BY DEF FullInv, Inv, LogInv, PeersKeepLogs, MessagesFromLeaders
<1>1. PICK base : base = lastIncludedIndex[s]
  OBVIOUS
<1>2. PICK top : top = base + Len(lg) - 1
  OBVIOUS
<1>3. PICK a : a = lastApplied[s]
  OBVIOUS
<1>4. PICK T : T = m.term
  OBVIOUS
<1>5. PICK cm : cm = m.leaderCommit
  OBVIOUS
<1>6. PICK L : L = leaderLog[T]
  OBVIOUS
<1>7. /\ base \in Nat /\ a \in Nat /\ base <= a /\ cm \in Nat /\ applied[s] \in Seq(Entry)
      /\ Len(applied[s]) = a /\ commitIndex[s] = a
      /\ T \in Nat /\ currentTerm[s] \in Nat /\ currentTerm[s] <= T /\ Safe(applied[s], currentTerm[s])
      /\ L \in Seq(Entry) /\ Len(L) \in Nat
  BY <1>0, <1>1, <1>3, <1>4, <1>5, <1>6, TermNat, LeaderLogType DEF LogTypeOK, TypeOK, Serves
<1>8. /\ a <= top /\ cm <= top /\ \A j \in 1 .. a : applied[s][j] = L[j]
      /\ \A j \in base + 1 .. top : j <= a \/ j <= cm => EntryAt(lg, base, j) = L[j]
  BY <1>1, <1>2, <1>3, <1>4, <1>5, <1>6, MergedServes
<1>9. lg \in Seq(Entry) /\ Len(lg) \in Nat /\ Len(lg) > 0 /\ top \in Nat
  <2>1. Follows(lg, base, m)
    BY <1>1, MergedFollows
  <2>2. lg \in Seq(Entry) /\ Len(lg) \in Nat /\ Len(lg) > 0
    BY <1>0, <1>7, <2>1, FollowsFacts
  <2> QED
    BY <1>2, <1>7, <2>2
<1>10. CASE ~(cm > a)
  <2>1. UNCHANGED volatile
    BY <1>5, <1>7, <1>10
  <2>2. /\ commitIndex' = [commitIndex EXCEPT ![s] = a] /\ lastApplied' = [lastApplied EXCEPT ![s] = a]
        /\ applied' = [applied EXCEPT ![s] = applied[s]]
    BY <1>0, <1>3, <1>7, <2>1 DEF volatile, LogTypeOK
  <2>3. Safe(applied[s], T)
    <3>1. \A k \in 0 .. currentTerm[s] : k \in 0 .. T
      BY <1>7
    <3> QED
      BY <1>7, <3>1 DEF Safe
  <2>4. \A j \in base + 1 .. a : EntryAt(lg, base, j) = applied[s][j]
    <3> TAKE j \in base + 1 .. a
    <3>1. j \in 1 .. a /\ j \in base + 1 .. top /\ j <= a
      BY <1>7, <1>8, <1>9
    <3> QED
      BY <1>8, <3>1
  <2>5. a <= a
    BY <1>7
  <2> QED
    BY <1>1, <1>2, <1>3, <1>4, <1>7, <1>8, <2>2, <2>3, <2>4, <2>5
<1>11. CASE cm > a
  <2>1. Min2(cm, Len(lg) + base - 1) = cm
    BY <1>2, <1>7, <1>8, <1>9 DEF Min2
  <2>2. updateLastApplied(s, cm, lg, base)
    BY <1>1, <1>5, <1>7, <1>11, <2>1
  <2>3. /\ commitIndex' = [commitIndex EXCEPT ![s] = cm] /\ lastApplied' = [lastApplied EXCEPT ![s] = cm]
        /\ applied' \in [Server -> Seq(Entry)] /\ Len(applied'[s]) = cm
        /\ \A j \in 1 .. a : applied'[s][j] = applied[s][j]
        /\ \A j \in a + 1 .. cm : applied'[s][j] = EntryAt(lg, base, j)
        /\ \A q \in Server \ {s} : applied'[q] = applied[q]
    <3>1. a < cm /\ cm <= base + Len(lg) - 1
      BY <1>2, <1>7, <1>8, <1>11
    <3> QED
      BY SMTT(30), <1>0, <1>3, <1>7, <1>9, <2>2, <3>1, ApplyFacts
  <2>4. PICK y : y = applied'[s]
    OBVIOUS
  <2>5. y \in Seq(Entry) /\ Len(y) = cm /\ applied' = [applied EXCEPT ![s] = y]
    BY <1>0, <2>3, <2>4 DEF LogTypeOK
  <2>6. \A j \in 1 .. cm : y[j] = L[j]
    <3> TAKE j \in 1 .. cm
    <3>1. CASE j <= a
      <4>1. j \in 1 .. a
        BY <1>7, <3>1
      <4> QED
        BY <1>8, <2>3, <2>4, <4>1
    <3>2. CASE ~(j <= a)
      <4>1. j \in a + 1 .. cm /\ j \in base + 1 .. top /\ j <= cm
        BY <1>7, <1>8, <1>9, <3>2
      <4> QED
        BY <1>8, <2>3, <2>4, <4>1
    <3> QED
      BY <3>1, <3>2
  <2>7. Safe(y, T)
    <3>1. cm <= Len(L) /\ Safe(SubSeq(L, 1, cm), T)
      <4>1. /\ cm <= m.prevLogIndex + Len(m.entries) /\ m.prevLogIndex + Len(m.entries) <= Len(L)
            /\ Safe(SubSeq(L, 1, cm), T)
        BY <1>0, <1>4, <1>5, <1>6 DEF AppendFromLeader
      <4>2. m.prevLogIndex + Len(m.entries) \in Nat
        BY SMTT(30), <1>0, LenProperties DEF LogTypeOK
      <4> QED
        BY <1>7, <4>1, <4>2
    <3>2. \A j \in 1 .. cm : L[j] \in Entry
      BY <1>7, <3>1, ElementOfSeq
    <3>3. /\ SubSeq(L, 1, cm) \in Seq(Entry) /\ Len(SubSeq(L, 1, cm)) = cm
          /\ \A j \in 1 .. cm : SubSeq(L, 1, cm)[j] = L[j]
      BY <1>7, <3>2, SubSeqProperties
    <3>4. cm <= cm
      BY <1>7
    <3> QED
      BY ZenonT(30), <2>5, <2>6, <3>1, <3>3, <3>4, SafeBeginning
  <2>8. \A j \in base + 1 .. cm : EntryAt(lg, base, j) = y[j]
    <3> TAKE j \in base + 1 .. cm
    <3>1. j \in 1 .. cm /\ j \in base + 1 .. top /\ j <= cm
      BY <1>7, <1>8, <1>9
    <3> QED
      BY <1>8, <2>6, <3>1
  <2>9. a <= cm
    BY <1>7, <1>11
  <2> QED
    <3>1. /\ lastApplied[s] <= cm /\ cm <= lastIncludedIndex[s] + Len(lg) - 1
          /\ Len(y) = cm /\ Safe(y, m.term)
          /\ \A j \in 1 .. lastApplied[s] : y[j] = applied[s][j]
          /\ \A j \in lastIncludedIndex[s] + 1 .. cm : EntryAt(lg, lastIncludedIndex[s], j) = y[j]
      BY <1>1, <1>2, <1>3, <1>4, <1>8, <2>3, <2>4, <2>5, <2>7, <2>8, <2>9
    <3> QED
      BY <1>7, <2>3, <2>5, <3>1
<1> QED
  BY <1>7, <1>10, <1>11

(* AppendEntries, accepted: s answers m with r, and its log becomes the merged one. *)
Accepts(s, m, r) ==
  /\ UNCHANGED <<lastIncludedIndex, lastIncludedTerm, leading, rvReq, rvRep,
                 aeReq, isReq, isRep, elected, leaderLog>>
  /\ currentTerm' = [currentTerm EXCEPT ![s] = Max2(m.term, currentTerm[s])]
  /\ votedFor' = [votedFor EXCEPT ![s] = IF m.term > currentTerm[s] THEN NULL ELSE votedFor[s]]
  /\ state' = [state EXCEPT ![s] = IF m.term > currentTerm[s] THEN Follower ELSE state[s]]
  /\ s = m.to /\ HasPrev(s, m) /\ currentTerm[s] <= m.term
  /\ log' = [log EXCEPT ![s] = MergedLog(s, m)]
  /\ \/ persist(s)
     \/ ~(m.term > currentTerm[s]) /\ ~(FirstNew(s, m) <= Len(m.entries)) /\ UNCHANGED disk
  /\ IF m.leaderCommit > commitIndex[s]
     THEN updateLastApplied(s, Min2(m.leaderCommit, Len(log'[s]) + lastIncludedIndex[s] - 1),
                            log'[s], lastIncludedIndex[s])
     ELSE UNCHANGED volatile
  /\ aeRep' = aeRep \cup {r} /\ r.success /\ r.success \in BOOLEAN
  /\ r.argTerm = m.term /\ r.from = s /\ r.match = m.prevLogIndex + Len(m.entries)
  /\ r.conflictTerm \in Int /\ r.conflictIndex \in Nat

(* An accepted AppendEntries keeps the invariant. *)
LEMMA AppendAcceptedKeeps ==
  ASSUME FullInv, Inv', Monotone, NEW s \in Server, NEW m \in aeReq, NEW r, Accepts(s, m, r)
  PROVE  LogInv'
<1>a. /\ UNCHANGED <<lastIncludedIndex, lastIncludedTerm, leading, rvReq, rvRep,
                     aeReq, isReq, isRep, elected, leaderLog>>
  BY DEF Accepts
<1>b. /\ currentTerm' = [currentTerm EXCEPT ![s] = Max2(m.term, currentTerm[s])]
      /\ votedFor' = [votedFor EXCEPT ![s] = IF m.term > currentTerm[s] THEN NULL ELSE votedFor[s]]
      /\ state' = [state EXCEPT ![s] = IF m.term > currentTerm[s] THEN Follower ELSE state[s]]
  BY DEF Accepts
<1>c. HasPrev(s, m) /\ currentTerm[s] <= m.term
  BY DEF Accepts
<1>i. s = m.to
  BY DEF Accepts
<1>d. PICK lg : lg = MergedLog(s, m)
  OBVIOUS
<1>e. log' = [log EXCEPT ![s] = lg]
  BY <1>d DEF Accepts
<1>f. \/ persist(s)
      \/ ~(m.term > currentTerm[s]) /\ ~(FirstNew(s, m) <= Len(m.entries)) /\ UNCHANGED disk
  BY DEF Accepts
<1>g. IF m.leaderCommit > commitIndex[s]
      THEN updateLastApplied(s, Min2(m.leaderCommit, Len(log'[s]) + lastIncludedIndex[s] - 1),
                             log'[s], lastIncludedIndex[s])
      ELSE UNCHANGED volatile
  BY DEF Accepts
<1>h. /\ aeRep' = aeRep \cup {r} /\ r.success /\ r.success \in BOOLEAN
      /\ r.argTerm = m.term /\ r.from = s /\ r.match = m.prevLogIndex + Len(m.entries)
      /\ r.conflictTerm \in Int /\ r.conflictIndex \in Nat
  BY DEF Accepts
<1>0. /\ TypeOK /\ LogTypeOK /\ DiskCurrent /\ LeaderLogs /\ Serves(s) /\ Leads(s)
      /\ AppendFromLeader(m) /\ TypeOK' /\ ElectionSafety' /\ ElectionSafety
  <2>1. ElectionSafety
    BY OneLeaderPerTerm DEF FullInv
  <2> QED
    BY <2>1, ElectionSafetyNext DEF FullInv, Inv, LogInv, PeersKeepLogs, MessagesFromLeaders
<1>1. PICK base : base = lastIncludedIndex[s]
  OBVIOUS
<1>2. PICK T : T = m.term
  OBVIOUS
<1>3. PICK e : e = m.prevLogIndex + Len(m.entries)
  OBVIOUS
<1>4. PICK top : top = base + Len(lg) - 1
  OBVIOUS
<1>5. PICK t : t = lg[Len(lg)].term
  OBVIOUS
<1>6. /\ T \in Term /\ T \in Nat /\ currentTerm[s] \in Nat /\ base \in Nat /\ currentTerm[s] <= T
      /\ m.from \in Server \ {s} /\ <<T, m.from>> \in elected
  <2>1. m.from \in Server /\ m.from # s /\ <<T, m.from>> \in elected
    BY <1>0, <1>2, <1>i DEF TypeOK, AppendFromLeader
  <2>2. T \in Term /\ currentTerm[s] \in Term /\ base \in Nat
    BY <1>0, <1>1, <1>2 DEF TypeOK, LogTypeOK
  <2> QED
    BY <1>2, <1>c, <2>1, <2>2, TermNat
<1>7. /\ currentTerm'[s] = T /\ state'[s] = (IF T > currentTerm[s] THEN Follower ELSE state[s])
      /\ \A q \in Server \ {s} : /\ state'[q] = state[q] /\ currentTerm'[q] = currentTerm[q]
                                 /\ votedFor'[q] = votedFor[q]
  <2>1. Max2(m.term, currentTerm[s]) = T
    BY <1>2, <1>6 DEF Max2
  <2>2. state \in [Server -> {Follower, Candidate, Leader}] /\ currentTerm \in [Server -> Term]
        /\ votedFor \in [Server -> Server \cup {NULL}]
    BY <1>0 DEF TypeOK
  <2> QED
    BY <1>2, <1>b, <2>1, <2>2
<1>8. /\ log'[s] = lg /\ lastIncludedIndex'[s] = base
      /\ \A q \in Server \ {s} : log'[q] = log[q] /\ lastIncludedIndex'[q] = lastIncludedIndex[q]
  BY <1>0, <1>1, <1>a, <1>e DEF LogTypeOK
<1>9. Follows(lg, base, m)
  BY <1>1, <1>c, <1>d, MergedFollows
<1>10. /\ e \in Nat /\ lg \in Seq(Entry) /\ Len(lg) \in Nat /\ Len(lg) > 0 /\ e <= top /\ top \in Nat
       /\ t \in Term /\ t \in Nat /\ t <= T /\ PieceOf(t, base, lg)
       /\ \A i, k : At(T, i, k) /\ i <= e => At(t, i, k) /\ i <= top
  <2>1. /\ m.prevLogIndex + Len(m.entries) \in Nat /\ lg \in Seq(Entry) /\ Len(lg) \in Nat /\ Len(lg) > 0
        /\ m.prevLogIndex + Len(m.entries) <= base + Len(lg) - 1
        /\ lg[Len(lg)].term \in Term
        /\ \A i, k : At(m.term, i, k) /\ i <= m.prevLogIndex + Len(m.entries) =>
              /\ At(lg[Len(lg)].term, i, k) /\ i <= base + Len(lg) - 1
    BY <1>0, <1>6, <1>9, FollowsFacts
  <2>2. lg[Len(lg)].term <= m.term /\ PieceOf(lg[Len(lg)].term, base, lg)
    BY <1>9 DEF Follows
  <2>3. top \in Nat
    BY <1>4, <1>6, <2>1
  <2> QED
    BY <1>2, <1>3, <1>4, <1>5, <2>1, <2>2, <2>3, TermNat
<1>11. PICK n \in Nat, y \in Seq(Entry) :
         /\ commitIndex' = [commitIndex EXCEPT ![s] = n]
         /\ lastApplied' = [lastApplied EXCEPT ![s] = n]
         /\ applied' = [applied EXCEPT ![s] = y]
         /\ lastApplied[s] <= n /\ n <= top
         /\ Len(y) = n /\ Safe(y, T)
         /\ \A j \in 1 .. lastApplied[s] : y[j] = applied[s][j]
         /\ \A j \in base + 1 .. n : EntryAt(lg, base, j) = y[j]
  <2>1. \E n \in Nat : \E y \in Seq(Entry) :
           /\ commitIndex' = [commitIndex EXCEPT ![s] = n]
           /\ lastApplied' = [lastApplied EXCEPT ![s] = n]
           /\ applied' = [applied EXCEPT ![s] = y]
           /\ lastApplied[s] <= n /\ n <= lastIncludedIndex[s] + Len(lg) - 1
           /\ Len(y) = n /\ Safe(y, m.term)
           /\ \A j \in 1 .. lastApplied[s] : y[j] = applied[s][j]
           /\ \A j \in lastIncludedIndex[s] + 1 .. n : EntryAt(lg, lastIncludedIndex[s], j) = y[j]
    BY <1>8, <1>c, <1>d, <1>g, AppendApplies
  <2> QED
    BY ZenonT(30), <1>1, <1>2, <1>4, <2>1
<1>12. Grow(s) /\ AnswersLeader(r)'
       /\ \A u \in Term : \A i : Acked(s, u, i)' => Acked(s, u, i) \/ (u = T /\ i <= e)
  BY <1>2, <1>3, <1>7, <1>a, <1>i, <1>h, ReplyGrows
<1>13. \A q \in Server : disk'[q].snapshot = disk[q].snapshot
  BY <1>0, <1>f, PersistKeepsSnapshot
<1>14. LogTypeOK'
  <2>1. log' \in [Server -> Seq(Entry)] /\ \A q \in Server : Len(log'[q]) > 0
    BY <1>0, <1>8, <1>10, <1>e DEF LogTypeOK
  <2>2. commitIndex' \in [Server -> Nat] /\ lastApplied' \in [Server -> Nat]
        /\ applied' \in [Server -> Seq(Entry)]
    BY <1>0, <1>11 DEF LogTypeOK
  <2>3. \A q \in aeRep' : /\ q.argTerm \in Term /\ q.match \in Nat /\ q.success \in BOOLEAN
                          /\ q.conflictTerm \in Int /\ q.conflictIndex \in Nat
    BY <1>0, <1>2, <1>3, <1>6, <1>10, <1>h DEF LogTypeOK
  <2> QED
    BY <1>0, <1>13, <1>a, <2>1, <2>2, <2>3 DEF LogTypeOK, leading
<1>15. \A q \in Server \ {s} : Same(q)
  <2>1. \A q \in Server \ {s} : /\ commitIndex'[q] = commitIndex[q] /\ lastApplied'[q] = lastApplied[q]
                                /\ applied'[q] = applied[q]
    BY <1>0, <1>11 DEF LogTypeOK
  <2> QED
    BY <1>7, <1>8, <1>13, <1>a, <2>1 DEF leading, Same, SameLog, SameRole, SameCounts, SameService
<1>16. DiskCurrent'
  <2>1. CASE persist(s)
    BY <1>0, <1>7, <1>8, <1>a, <2>1, DiskWritten DEF SameLog
  <2>2. CASE ~(m.term > currentTerm[s]) /\ ~(FirstNew(s, m) <= Len(m.entries)) /\ UNCHANGED disk
    <3>1. lg = log[s]
      BY <1>c, <1>d, <2>2, MergedNothing
    <3>2. currentTerm' = currentTerm /\ votedFor' = votedFor /\ log' = log
      BY <1>0, <1>2, <1>6, <1>b, <1>e, <2>2, <3>1 DEF TypeOK, LogTypeOK, Max2
    <3> QED
      BY <1>0, <1>a, <2>2, <3>2 DEF DiskCurrent
  <2> QED
    BY <1>f, <2>1, <2>2
<1>17. LeaderLogs'
  BY <1>0, <1>a, CalmLeaderLogs
<1>18. getLastLogIdx(s)' = top /\ getLastLogTerm(s)' = t
  <2>1. getLastLogIdx(s)' = top
    <3>1. getLastLogIdx(s)' = Len(lg) + base - 1
      BY <1>6, <1>8, <1>10 DEF getLastLogIdx, logLen
    <3> QED
      BY <1>4, <1>6, <1>10, <3>1
  <2>2. top - base + 1 = Len(lg)
    BY SMTT(30), <1>4, <1>6, <1>10
  <2> QED
    BY <1>5, <1>8, <2>1, <2>2 DEF getLastLogTerm, getLog, EntryAt
<1>19. state'[s] # Leader /\ \A x : <<T, x>> \in elected => x # s
  <2>1. \A x : <<T, x>> \in elected => x = m.from
    BY <1>0, <1>6 DEF ElectionSafety
  <2>2. CASE T > currentTerm[s]
    BY <1>6, <1>7, <2>1, <2>2
  <2>3. CASE ~(T > currentTerm[s])
    <3>1. T = currentTerm[s]
      BY <1>6, <2>3
    <3> QED
      BY <1>0, <1>6, <1>7, <2>1, <2>3, <3>1 DEF Leads
  <2> QED
    BY <2>2, <2>3
<1>20. HasPiece(s)'
  <2>1. PieceOf(t, base, lg)'
    BY <1>0, <1>6, <1>10, <1>12, <1>14, PieceStays
  <2> QED
    BY <1>7, <1>8, <1>10, <1>18, <2>1 DEF HasPiece
<1>21. Leads(s)' /\ Counts(s)' /\ Standing(s)
  BY <1>6, <1>7, <1>19, <1>a DEF Leads, Counts, Standing
<1>22. Keeps(s)'
  <2> SUFFICES ASSUME NEW u \in Term, NEW i, At(u, i, u)', Acked(s, u, i)'
               PROVE  (i <= top /\ At(t, i, u)') \/ Blocked(u, i)'
    BY <1>18 DEF Keeps
  <2>1. At(u, i, u)
    BY <1>a DEF At
  <2>2. CASE Acked(s, u, i) /\ Blocked(u, i)
    BY <1>0, <1>12, <2>2, BlockedStays
  <2>3. CASE Acked(s, u, i) /\ ~Blocked(u, i)
    <3>1. i <= top /\ At(t, i, u)
      BY <1>1, <1>4, <1>5, <1>c, <1>d, <2>1, <2>3, AcksSurvive
    <3> QED
      BY <1>0, <1>10, <1>12, <1>14, <3>1, AtStays
  <2>4. CASE u = T /\ i <= e
    <3>1. i <= top /\ At(t, i, u)
      BY <1>10, <2>1, <2>4
    <3> QED
      BY <1>0, <1>10, <1>12, <1>14, <3>1, AtStays
  <2> QED
    BY <1>12, <2>2, <2>3, <2>4
<1>23. Serves(s)'
  <2>1. lastApplied'[s] = n /\ commitIndex'[s] = n /\ applied'[s] = y
    BY <1>0, <1>11 DEF LogTypeOK
  <2>2. Safe(applied[s], currentTerm[s])'
    <3>1. Safe(y, T)'
      BY <1>0, <1>6, <1>11, <1>12, <1>14, SafeStays, TermOrder
    <3> QED
      BY <1>7, <2>1, <3>1
  <2>3. /\ base <= lastApplied[s] /\ Len(disk[s].snapshot) = base /\ lastApplied[s] \in Nat
        /\ \A j \in 1 .. base : disk[s].snapshot[j] = applied[s][j]
        /\ lastIncludedTerm[s] = IF base = 0 THEN 0 ELSE applied[s][base].term
    BY <1>0, <1>1 DEF Serves, LogTypeOK
  <2>4. base <= n /\ (\A j \in 1 .. base : y[j] = applied[s][j]) /\ (base # 0 => y[base] = applied[s][base])
    <3>1. /\ \A j \in 1 .. base : j \in 1 .. lastApplied[s]
          /\ base # 0 => base \in 1 .. lastApplied[s]
      BY <1>6, <2>3
    <3> QED
      BY <1>6, <1>11, <2>3, <3>1
  <2>5. \A j \in base + 1 .. n : getLog(s, j)' = y[j]
    BY <1>8, <1>11 DEF getLog
  <2> QED
    BY SMTT(30), <1>8, <1>11, <1>13, <1>18, <1>a, <2>1, <2>2, <2>3, <2>4, <2>5 DEF Serves
<1>24. PeerOK(s)'
  BY <1>20, <1>21, <1>22, <1>23 DEF PeerOK
<1> QED
  BY <1>12, <1>14, <1>15, <1>16, <1>17, <1>21, <1>24, <1>a, <1>h, StepOfPeer

(* AppendEntries keeps the invariant. *)
LEMMA AppendEntriesKeeps ==
  ASSUME FullInv, Inv', Monotone, NEW m \in aeReq, AppendEntries(m)
  PROVE  LogInv'
<1>1. PICK s \in Server : s = m.to
  BY DEF FullInv, Inv, TypeOK
<1>2. /\ UNCHANGED <<lastIncludedIndex, lastIncludedTerm, leading, rvReq, rvRep, aeReq,
                        isReq, isRep, elected, leaderLog>>
      /\ currentTerm' = [currentTerm EXCEPT ![s] = Max2(m.term, currentTerm[s])]
      /\ votedFor' = [votedFor EXCEPT ![s] = IF m.term > currentTerm[s] THEN NULL ELSE votedFor[s]]
      /\ state' = [state EXCEPT ![s] = IF m.term > currentTerm[s] THEN Follower ELSE state[s]]
  BY <1>1, AppendEntriesEffect
<1>3. PICK r :
        /\ aeRep' = aeRep \cup {r}
        /\ r.argTerm = m.term /\ r.from = s /\ r.match = m.prevLogIndex + Len(m.entries)
        /\ r.conflictTerm \in Int /\ r.conflictIndex \in Nat /\ r.success \in BOOLEAN
        /\ IF r.success
           THEN /\ HasPrev(s, m) /\ currentTerm[s] <= m.term
                /\ log' = [log EXCEPT ![s] = MergedLog(s, m)]
                /\ \/ persist(s)
                   \/ /\ ~(m.term > currentTerm[s]) /\ ~(FirstNew(s, m) <= Len(m.entries))
                      /\ UNCHANGED disk
                /\ IF m.leaderCommit > commitIndex[s]
                   THEN updateLastApplied(s, Min2(m.leaderCommit, Len(log'[s]) + lastIncludedIndex[s] - 1),
                                          log'[s], lastIncludedIndex[s])
                   ELSE UNCHANGED volatile
           ELSE /\ UNCHANGED <<log, volatile>>
                /\ IF m.term > currentTerm[s] THEN persist(s) ELSE UNCHANGED disk
  BY <1>1, AppendEntriesEffect
<1>4. CASE r.success
  <2>1. Accepts(s, m, r)
    BY <1>1, <1>2, <1>3, <1>4 DEF Accepts
  <2> QED
    BY <2>1, AppendAcceptedKeeps
<1>5. CASE ~r.success
  BY <1>1, <1>2, <1>3, <1>5, AppendRefusedKeeps
<1> QED
  BY <1>4, <1>5

(* The leader of a later term has what a peer has acknowledged, unless it   *)
(* can never be committed.                                                  *)
LEMMA LeaderHasAck ==
  ASSUME FullInv, NEW s \in Server, NEW T \in Term, NEW l, <<T, l>> \in elected, currentTerm[s] <= T,
         NEW t \in Term, NEW i, At(t, i, t), Acked(s, t, i), ~Blocked(t, i)
  PROVE  At(T, i, t)
<1>0. TypeOK /\ LeadersComplete
  BY DEF FullInv, Inv, LogInv
<1>1. t <= currentTerm[s] /\ currentTerm[s] \in Nat /\ t \in Nat /\ T \in Nat
  BY <1>0, AckedTerm, TermNat DEF TypeOK
<1>2. CASE t = T
  BY <1>2
<1>3. CASE t # T
  <2>1. t \in 0 .. T - 1
    BY <1>1, <1>3
  <2>2. Complete(<<T, l>>)
    BY <1>0 DEF LeadersComplete
  <2>3. i \in 1 .. Len(leaderLog[t])
    BY DEF At
  <2> QED
    BY <2>1, <2>2, <2>3 DEF Complete
<1> QED
  BY <1>2, <1>3

(* What InstallSnapshot finds in a request that is fresh. *)
LEMMA SnapshotFacts ==
  ASSUME FullInv, NEW m \in isReq, NEW s \in Server, s = m.to,
         currentTerm[s] <= m.term, m.lastIncludedIndex > lastIncludedIndex[s]
  PROVE  /\ m.term \in Term /\ m.from \in Server \ {s} /\ <<m.term, m.from>> \in elected
         /\ m.lastIncludedIndex \in Nat /\ m.lastIncludedIndex > 0 /\ m.data \in Seq(Entry)
         /\ Len(m.data) = m.lastIncludedIndex /\ Safe(m.data, m.term)
         /\ m.lastIncludedTerm = m.data[m.lastIncludedIndex].term
         /\ At(m.term, m.lastIncludedIndex, m.lastIncludedTerm)
<1>0. /\ TypeOK /\ LogTypeOK /\ SnapshotFromLeader(m)
  BY DEF FullInv, Inv, LogInv, MessagesFromLeaders
<1>1. PICK ii : ii = m.lastIncludedIndex
  OBVIOUS
<1>2. /\ m.term \in Term /\ m.from \in Server /\ m.from # s /\ <<m.term, m.from>> \in elected
      /\ m.data \in Seq(Entry) /\ ii \in Nat /\ lastIncludedIndex[s] \in Nat
  BY <1>0, <1>1 DEF TypeOK, LogTypeOK, SnapshotFromLeader
<1>3. ii > 0 /\ ii > lastIncludedIndex[s]
  BY <1>1, <1>2
<1>4. /\ Len(m.data) = ii /\ ii <= Len(leaderLog[m.term]) /\ Safe(m.data, m.term)
      /\ m.lastIncludedTerm = m.data[ii].term
      /\ \A j \in 1 .. ii : m.data[j] = leaderLog[m.term][j]
  BY <1>0, <1>1, <1>3 DEF SnapshotFromLeader
<1>5. Len(leaderLog[m.term]) \in Nat
  BY <1>0, <1>2, LeaderLogType
<1>6. At(m.term, ii, m.lastIncludedTerm)
  <2>1. ii \in 1 .. ii /\ ii \in 1 .. Len(leaderLog[m.term])
    BY <1>2, <1>3, <1>4, <1>5
  <2> QED
    BY <1>4, <2>1 DEF At
<1> QED
  BY <1>1, <1>2, <1>3, <1>4, <1>6

(* The log above a snapshot: the old suffix where there is one, else the    *)
(* placeholder.  Either is a piece of a leader's log and keeps what was     *)
(* acknowledged.                                                            *)
LEMMA SnapshotLogFacts ==
  ASSUME FullInv, NEW m \in isReq, NEW s \in Server, s = m.to,
         currentTerm[s] <= m.term, m.lastIncludedIndex > lastIncludedIndex[s],
         NEW lg, lg = SnapshotLog(s, m), NEW t, t = lg[Len(lg)].term,
         NEW top, top = m.lastIncludedIndex + Len(lg) - 1
  PROVE  /\ lg \in Seq(Entry) /\ Len(lg) \in Nat /\ Len(lg) > 0
         /\ top \in Nat /\ m.lastIncludedIndex <= top
         /\ PieceOf(t, m.lastIncludedIndex, lg) /\ t \in Term /\ t <= m.term
         /\ \A u \in Term : \A i : At(u, i, u) /\ Acked(s, u, i) =>
              (i <= top /\ At(t, i, u)) \/ Blocked(u, i)
         /\ lastApplied[s] > m.lastIncludedIndex =>
              /\ lastApplied[s] <= top
              /\ \A j \in m.lastIncludedIndex + 1 .. lastApplied[s] :
                   EntryAt(lg, m.lastIncludedIndex, j) = applied[s][j]
<1>0. /\ TypeOK /\ LogTypeOK /\ LeaderLogs /\ HasPiece(s) /\ Keeps(s) /\ Serves(s)
  BY DEF FullInv, Inv, LogInv, PeersKeepLogs
<1>1. PICK base : base = lastIncludedIndex[s]
  OBVIOUS
<1>2. PICK last : last = getLastLogIdx(s)
  OBVIOUS
<1>3. PICK lt : lt = getLastLogTerm(s)
  OBVIOUS
<1>4. PICK ii : ii = m.lastIncludedIndex
  OBVIOUS
<1>5. PICK T : T = m.term
  OBVIOUS
<1>6. PICK x : x = log[s]
  OBVIOUS
<1>7. /\ base \in Nat /\ last \in Nat /\ x \in Seq(Entry) /\ Len(x) \in Nat /\ Len(x) > 0
      /\ last = base + Len(x) - 1 /\ lt = x[Len(x)].term /\ lt \in Nat /\ lastApplied[s] \in Nat
      /\ currentTerm[s] \in Nat
  BY <1>0, <1>1, <1>2, <1>3, <1>6, LogShape, TermNat DEF LogTypeOK, TypeOK
<1>8. /\ T \in Term /\ T \in Nat /\ <<T, m.from>> \in elected /\ ii \in Nat /\ ii > 0
      /\ At(T, ii, m.lastIncludedTerm) /\ currentTerm[s] <= T /\ base < ii
  BY <1>1, <1>4, <1>5, <1>7, SnapshotFacts, TermNat
<1>9. PieceOf(lt, base, x) /\ lt \in Term /\ lt <= T
  <2>1. PieceOf(lt, base, x) /\ lt <= currentTerm[s]
    BY <1>0, <1>1, <1>3, <1>6 DEF HasPiece
  <2> QED
    BY SMTT(30), <1>7, <1>8, <2>1 DEF PieceOf
<1>10. ASSUME NEW u \in Term, NEW i, At(u, i, u), Acked(s, u, i), ~Blocked(u, i)
       PROVE  i \in Nat /\ i > 0 /\ i <= last /\ At(lt, i, u) /\ At(T, i, u)
  <2>1. i \in 1 .. Len(leaderLog[u]) /\ i \in Nat /\ i > 0
    BY <1>10 DEF At
  <2>2. i <= last /\ At(lt, i, u)
    BY <1>0, <1>2, <1>3, <1>10, <2>1 DEF Keeps
  <2>3. At(T, i, u)
    BY <1>8, <1>10, LeaderHasAck
  <2> QED
    BY <2>1, <2>2, <2>3
<1>11. CASE ii < last
  <2>1. PICK a : a = ii - base + 1
    OBVIOUS
  <2>2. lg = SubSeq(x, a, Len(x))
    BY <1>1, <1>2, <1>4, <1>6, <1>11, <2>1 DEF SnapshotLog
  <2>3. /\ lg \in Seq(Entry) /\ Len(lg) = Len(x) - a + 1
        /\ \A k \in 1 .. Len(x) - a + 1 : lg[k] = x[a + k - 1]
    <3>1. a \in 1 .. Len(x) + 1
      BY <1>7, <1>8, <1>11, <2>1
    <3> QED
      BY <1>7, <2>2, <3>1, SuffixFacts
  <2>4. PICK n : n = Len(x)
    OBVIOUS
  <2>5. PICK n2 : n2 = Len(lg)
    OBVIOUS
  <2>6. n2 \in Nat /\ n2 > 0 /\ top = last /\ ii <= top /\ n2 = n - a + 1 /\ a + n2 - 1 = n
        /\ n2 \in 1 .. n - a + 1 /\ a = ii - base + 1 /\ n = last - base + 1 /\ a \in Nat /\ n \in Nat
    <3>1. /\ base \in Nat /\ last \in Nat /\ n \in Nat /\ last = base + n - 1 /\ base < ii /\ ii < last
          /\ ii \in Nat /\ a = ii - base + 1 /\ n2 = n - a + 1 /\ top = ii + n2 - 1
      BY <1>4, <1>7, <1>8, <1>11, <2>1, <2>3, <2>4, <2>5
    <3> QED
      BY <3>1
  <2>7. t = lt
    BY ZenonT(30), <1>7, <2>3, <2>4, <2>5, <2>6
  <2>8. ASSUME NEW j \in ii .. last
        PROVE  /\ lg[j - ii + 1] = x[j - base + 1]
    <3>1. j - ii + 1 \in 1 .. n - a + 1 /\ a + (j - ii + 1) - 1 = j - base + 1
      BY <1>7, <1>8, <2>6
    <3> QED
      BY <2>3, <2>4, <3>1
  <2>9. PieceOf(lt, ii, lg)
    <3>1. ii + Len(lg) - 1 = last
      BY <1>4, <2>6
    <3>2. last <= Len(leaderLog[lt]) /\ \A j \in base + 1 .. last : x[j - base + 1] = leaderLog[lt][j]
      BY <1>7, <1>9 DEF PieceOf
    <3>3. ii \in ii .. last /\ ii - ii + 1 = 1 /\ ii \in base + 1 .. last /\ ii # 0
      BY SMTT(30), <1>7, <1>8, <1>11
    <3>4. lg[1].term = leaderLog[lt][ii].term
      BY <2>8, <3>2, <3>3
    <3>5. \A j \in ii + 1 .. last : lg[j - ii + 1] = leaderLog[lt][j]
      <4> TAKE j \in ii + 1 .. last
      <4>1. j \in ii .. last /\ j \in base + 1 .. last
        BY <1>7, <1>8
      <4> QED
        BY <2>8, <3>2, <4>1
    <3> QED
      BY <1>9, <3>1, <3>2, <3>3, <3>4, <3>5 DEF PieceOf
  <2>10. \A u \in Term : \A i : At(u, i, u) /\ Acked(s, u, i) => (i <= top /\ At(t, i, u)) \/ Blocked(u, i)
    BY <1>10, <2>6, <2>7
  <2>11. lastApplied[s] > ii => /\ lastApplied[s] <= top
                                /\ \A j \in ii + 1 .. lastApplied[s] : EntryAt(lg, ii, j) = applied[s][j]
    <3> SUFFICES ASSUME lastApplied[s] > ii
                 PROVE  /\ lastApplied[s] <= top
                        /\ \A j \in ii + 1 .. lastApplied[s] : EntryAt(lg, ii, j) = applied[s][j]
      OBVIOUS
    <3>1. lastApplied[s] <= last
      BY <1>0, <1>2 DEF Serves
    <3>2. ASSUME NEW j \in ii + 1 .. lastApplied[s] PROVE EntryAt(lg, ii, j) = applied[s][j]
      <4>1. j \in ii .. last /\ j \in base + 1 .. lastApplied[s]
        BY SMTT(30), <1>7, <1>8, <3>1
      <4>2. getLog(s, j) = applied[s][j]
        BY <1>0, <1>1, <4>1 DEF Serves
      <4> QED
        BY <1>1, <1>6, <2>8, <4>1, <4>2 DEF getLog, EntryAt
    <3> QED
      BY <2>6, <3>1, <3>2
  <2> QED
    <3>1. /\ lg \in Seq(Entry) /\ Len(lg) \in Nat /\ Len(lg) > 0 /\ top \in Nat /\ ii <= top
      BY <1>7, <2>3, <2>5, <2>6
    <3>2. PieceOf(t, ii, lg) /\ t \in Term /\ t <= T
      BY <1>9, <2>7, <2>9
    <3> QED
      BY <1>4, <1>5, <2>10, <2>11, <3>1, <3>2
<1>12. CASE ~(ii < last)
  <2>1. PICK mt : mt = m.lastIncludedTerm
    OBVIOUS
  <2>2. /\ mt \in Term /\ mt \in 1 .. T /\ At(mt, ii, mt)
        /\ \A j \in 1 .. ii : leaderLog[T][j] = leaderLog[mt][j]
    BY <1>0, <1>8, <2>1, AtItsOwn
  <2>3. /\ mt \in Nat /\ mt <= T /\ ii <= Len(leaderLog[mt]) /\ Len(leaderLog[mt]) \in Nat
        /\ leaderLog[mt][ii].term = mt
    BY <1>0, <1>8, <2>2, TermNat, LeaderLogType DEF At
  <2>4. lg = << [term |-> mt, cmd |-> NoCommand] >>
    BY <1>2, <1>4, <1>12, <2>1 DEF SnapshotLog
  <2>5. lg \in Seq(Entry) /\ Len(lg) = 1 /\ lg[1].term = mt
    BY <2>3, <2>4 DEF Entry
  <2>6. top = ii /\ t = mt
    BY <1>4, <1>8, <2>5
  <2>7. PieceOf(mt, ii, lg)
    <3>1. ii + Len(lg) - 1 = ii /\ ii # 0 /\ ii + 1 .. ii = {}
      BY <1>8, <2>5
    <3> QED
      BY <2>2, <2>3, <2>5, <3>1 DEF PieceOf
  <2>8. ASSUME NEW u \in Term, NEW i, At(u, i, u), Acked(s, u, i), ~Blocked(u, i)
        PROVE  i <= ii /\ At(mt, i, u)
    <3>1. i \in Nat /\ i > 0 /\ i <= last /\ At(T, i, u)
      BY <1>10, <2>8
    <3>2. /\ ii \in Nat /\ last \in Nat /\ ~(ii < last)
          /\ Len(leaderLog[mt]) \in Nat /\ ii <= Len(leaderLog[mt])
      <4>1. ii \in Nat /\ last \in Nat
        BY <1>7, <1>8
      <4> QED
        BY <1>12, <2>3, <4>1
    <3>3. i \in Nat /\ i > 0 /\ i <= last
      BY <3>1
    <3>4. PICK len : len = Len(leaderLog[mt])
      OBVIOUS
    <3>5. len \in Nat /\ ii <= len
      BY <3>2, <3>4
    <3>6. i \in 1 .. ii /\ i <= ii /\ i \in 1 .. len
      BY <3>2, <3>3, <3>5
    <3> QED
      BY <2>2, <3>1, <3>4, <3>6 DEF At
  <2>9. ~(lastApplied[s] > ii)
    <3>1. lastApplied[s] <= last
      BY <1>0, <1>2 DEF Serves
    <3> QED
      BY <1>7, <1>8, <1>12, <3>1
  <2>10. ii <= ii /\ Len(lg) \in Nat /\ Len(lg) > 0
    BY <1>8, <2>5
  <2> QED
    BY <1>4, <1>5, <1>8, <2>2, <2>3, <2>5, <2>6, <2>7, <2>8, <2>9, <2>10
<1> QED
  BY <1>11, <1>12

(* What the service has once a snapshot is in: the snapshot, or what it had *)
(* if that is more.                                                         *)
Installed(s, m) == IF NewerThanService(s, m) THEN m.data ELSE applied[s]

(* What InstallSnapshot leaves behind: a service with a committed beginning *)
(* no shorter than before, and a log that agrees with it above the          *)
(* snapshot.                                                                *)
LEMMA InstalledFacts ==
  ASSUME FullInv, NEW m \in isReq, NEW s \in Server, s = m.to,
         currentTerm[s] <= m.term, m.lastIncludedIndex > lastIncludedIndex[s],
         NEW lg, lg = SnapshotLog(s, m), NEW y, y = Installed(s, m),
         NEW n, n = Max2(lastApplied[s], m.lastIncludedIndex)
  PROVE  /\ y \in Seq(Entry) /\ n \in Nat /\ Len(y) = n /\ Safe(y, m.term)
         /\ m.lastIncludedIndex <= n /\ n <= m.lastIncludedIndex + Len(lg) - 1
         /\ \A j \in 1 .. m.lastIncludedIndex : m.data[j] = y[j]
         /\ m.lastIncludedTerm = y[m.lastIncludedIndex].term
         /\ \A j \in m.lastIncludedIndex + 1 .. n : EntryAt(lg, m.lastIncludedIndex, j) = y[j]
         /\ lastApplied[s] <= n /\ \A j \in 1 .. lastApplied[s] : y[j] = applied[s][j]
<1>0. /\ TypeOK /\ LogTypeOK /\ LeaderLogs /\ LeadersComplete /\ Serves(s)
  BY DEF FullInv, Inv, LogInv, PeersKeepLogs
<1>1. PICK ii : ii = m.lastIncludedIndex
  OBVIOUS
<1>2. PICK T : T = m.term
  OBVIOUS
<1>3. PICK a : a = lastApplied[s]
  OBVIOUS
<1>4. PICK data : data = m.data
  OBVIOUS
<1>5. PICK top : top = ii + Len(lg) - 1
  OBVIOUS
<1>6. PICK l : l = m.from
  OBVIOUS
<1>7. /\ T \in Term /\ T \in Nat /\ <<T, l>> \in elected /\ ii \in Nat /\ ii > 0 /\ data \in Seq(Entry)
      /\ Len(data) = ii /\ Safe(data, T) /\ m.lastIncludedTerm = data[ii].term
  BY <1>1, <1>2, <1>4, <1>6, SnapshotFacts, TermNat
<1>8. /\ a \in Nat /\ applied[s] \in Seq(Entry) /\ Len(applied[s]) = a /\ currentTerm[s] \in Nat
      /\ Safe(applied[s], currentTerm[s]) /\ currentTerm[s] <= T /\ currentTerm[s] \in Term
  BY <1>0, <1>2, <1>3, TermNat DEF LogTypeOK, TypeOK, Serves
<1>9. /\ top \in Nat /\ ii <= top
      /\ a > ii => a <= top /\ \A j \in ii + 1 .. a : EntryAt(lg, ii, j) = applied[s][j]
  <2>1. PICK t : t = lg[Len(lg)].term
    OBVIOUS
  <2> QED
    BY <1>1, <1>3, <1>5, <2>1, SnapshotLogFacts
<1>10. \A j \in 1 .. ii : j <= a => data[j] = applied[s][j]
  BY <1>0, <1>7, <1>8, SafeAgree
<1>11. CASE ~(a > ii)
  <2>1. y = data /\ n = ii
    BY <1>1, <1>3, <1>4, <1>7, <1>8, <1>11 DEF Installed, NewerThanService, Max2
  <2>2. ii + 1 .. ii = {} /\ ii <= ii /\ a <= ii /\ \A j \in 1 .. a : j \in 1 .. ii /\ j <= a
    BY <1>7, <1>8, <1>11
  <2>3. \A j \in 1 .. a : y[j] = applied[s][j]
    BY <1>10, <2>1, <2>2
  <2>4. \A j \in ii + 1 .. n : EntryAt(lg, ii, j) = y[j]
    BY <2>1, <2>2
  <2> QED
    BY <1>1, <1>2, <1>3, <1>4, <1>5, <1>7, <1>9, <2>1, <2>2, <2>3, <2>4
<1>12. CASE a > ii
  <2>1. y = applied[s] /\ n = a
    BY <1>1, <1>3, <1>7, <1>8, <1>12 DEF Installed, NewerThanService, Max2
  <2>2. Safe(y, T)
    <3>1. \A k \in 0 .. currentTerm[s] : k \in 0 .. T
      BY <1>7, <1>8
    <3> QED
      BY <1>8, <2>1, <3>1 DEF Safe
  <2>3. ii <= a /\ a <= a /\ ii \in 1 .. ii /\ \A j \in 1 .. ii : j <= a
    BY <1>7, <1>8, <1>12
  <2>4. \A j \in 1 .. ii : data[j] = y[j]
    BY <1>10, <2>1, <2>3
  <2>5. m.lastIncludedTerm = y[ii].term
    BY <1>7, <2>3, <2>4
  <2> QED
    BY <1>1, <1>2, <1>3, <1>4, <1>5, <1>8, <1>9, <1>12, <2>1, <2>2, <2>3, <2>4, <2>5
<1> QED
  BY <1>11, <1>12

(* InstallSnapshot, fresh: the snapshot is installed. *)
LEMMA InstallFreshKeeps ==
  ASSUME FullInv, Inv', Monotone, NEW m \in isReq, NEW s \in Server, s = m.to, InstallSnapshot(m),
         currentTerm[s] <= m.term, m.lastIncludedIndex > lastIncludedIndex[s]
  PROVE  LogInv'
<1>0. /\ TypeOK /\ LogTypeOK /\ DiskCurrent /\ LeaderLogs /\ Serves(s) /\ Leads(s)
      /\ TypeOK' /\ ElectionSafety' /\ ElectionSafety
  <2>1. ElectionSafety
    BY OneLeaderPerTerm DEF FullInv
  <2> QED
    BY <2>1, ElectionSafetyNext DEF FullInv, Inv, LogInv, PeersKeepLogs, MessagesFromLeaders
<1>1. PICK ii : ii = m.lastIncludedIndex
  OBVIOUS
<1>2. PICK T : T = m.term
  OBVIOUS
<1>3. PICK lg : lg = SnapshotLog(s, m)
  OBVIOUS
<1>4. PICK t : t = lg[Len(lg)].term
  OBVIOUS
<1>5. PICK top : top = ii + Len(lg) - 1
  OBVIOUS
<1>6. PICK n : n = Max2(lastApplied[s], ii)
  OBVIOUS
<1>7. PICK y : y = Installed(s, m)
  OBVIOUS
<1>8. PICK data : data = m.data
  OBVIOUS
<1>9. PICK mt : mt = m.lastIncludedTerm
  OBVIOUS
<1>10. /\ T \in Term /\ T \in Nat /\ m.from \in Server \ {s} /\ <<T, m.from>> \in elected
       /\ ii \in Nat /\ ii > 0 /\ data \in Seq(Entry) /\ Len(data) = ii /\ mt \in Nat
       /\ currentTerm[s] \in Nat /\ currentTerm[s] <= T
  BY <1>0, <1>1, <1>2, <1>8, <1>9, SnapshotFacts, TermNat DEF LogTypeOK, TypeOK
<1>11. /\ lg \in Seq(Entry) /\ Len(lg) \in Nat /\ Len(lg) > 0
       /\ top \in Nat /\ PieceOf(t, ii, lg) /\ t \in Term /\ t <= T
       /\ \A u \in Term : \A i : At(u, i, u) /\ Acked(s, u, i) => (i <= top /\ At(t, i, u)) \/ Blocked(u, i)
  <2>1. top = m.lastIncludedIndex + Len(lg) - 1
    BY <1>1, <1>5
  <2> QED
    BY <1>1, <1>2, <1>3, <1>4, <2>1, SnapshotLogFacts
<1>12. /\ y \in Seq(Entry) /\ n \in Nat /\ Len(y) = n /\ Safe(y, T) /\ ii <= n /\ n <= top
       /\ \A j \in 1 .. ii : data[j] = y[j]
       /\ mt = y[ii].term
       /\ \A j \in ii + 1 .. n : EntryAt(lg, ii, j) = y[j]
  <2>1. n = Max2(lastApplied[s], m.lastIncludedIndex)
    BY <1>1, <1>6
  <2> QED
    BY <1>1, <1>2, <1>3, <1>5, <1>7, <1>8, <1>9, <2>1, InstalledFacts
<1>13. /\ UNCHANGED <<leading, rvReq, rvRep, aeReq, aeRep, isReq, elected, leaderLog>>
       /\ isRep' = isRep \cup {[argTerm |-> m.term, term |-> currentTerm[s], from |-> s, to |-> m.from]}
  BY DEF InstallSnapshot
<1>14. /\ currentTerm' = [currentTerm EXCEPT ![s] = Max2(currentTerm[s], T)]
       /\ votedFor' = [votedFor EXCEPT ![s] = IF T > currentTerm[s] THEN NULL ELSE votedFor[s]]
       /\ state' = [state EXCEPT ![s] = IF T > currentTerm[s] THEN Follower ELSE state[s]]
  BY <1>2 DEF InstallSnapshot
<1>15. /\ log' = [log EXCEPT ![s] = lg]
       /\ lastIncludedIndex' = [lastIncludedIndex EXCEPT ![s] = ii]
       /\ lastIncludedTerm' = [lastIncludedTerm EXCEPT ![s] = mt]
       /\ persistWithSnapShot(s, data)
       /\ commitIndex' = [commitIndex EXCEPT ![s] = Max2(commitIndex[s], ii)]
       /\ lastApplied' = [lastApplied EXCEPT ![s] = n]
       /\ applied' = [applied EXCEPT ![s] = y]
  <2>1. m.term >= currentTerm[s] /\ m.lastIncludedIndex > lastIncludedIndex[s]
    BY <1>2, <1>10
  <2> QED
    BY <1>1, <1>3, <1>6, <1>7, <1>8, <1>9, <2>1 DEF InstallSnapshot, Installed
<1>16. commitIndex[s] = lastApplied[s] /\ commitIndex' = [commitIndex EXCEPT ![s] = n]
  BY <1>0, <1>6, <1>15 DEF Serves
<1>17. /\ currentTerm'[s] = T /\ state'[s] = (IF T > currentTerm[s] THEN Follower ELSE state[s])
       /\ \A q \in Server \ {s} : /\ state'[q] = state[q] /\ currentTerm'[q] = currentTerm[q]
                                  /\ votedFor'[q] = votedFor[q]
  <2>1. Max2(currentTerm[s], T) = T
    BY <1>10 DEF Max2
  <2>2. state \in [Server -> {Follower, Candidate, Leader}] /\ currentTerm \in [Server -> Term]
        /\ votedFor \in [Server -> Server \cup {NULL}]
    BY <1>0 DEF TypeOK
  <2> QED
    BY <1>14, <2>1, <2>2
<1>18. /\ log'[s] = lg /\ lastIncludedIndex'[s] = ii /\ lastIncludedTerm'[s] = mt
       /\ \A q \in Server \ {s} : /\ log'[q] = log[q] /\ lastIncludedIndex'[q] = lastIncludedIndex[q]
                                  /\ lastIncludedTerm'[q] = lastIncludedTerm[q]
  BY <1>0, <1>15 DEF LogTypeOK
<1>19. /\ disk'[s].snapshot = data /\ \A q \in Server \ {s} : disk'[q] = disk[q]
  BY <1>0, <1>15 DEF TypeOK, persistWithSnapShot
<1>20. Calm
  BY <1>13 DEF Calm
<1>21. Grow(s) /\ NoNewAck(s)
  BY <1>20, CalmGrows, CalmAcks
<1>22. LogTypeOK'
  <2>1. /\ log' \in [Server -> Seq(Entry)] /\ lastIncludedIndex' \in [Server -> Nat]
        /\ lastIncludedTerm' \in [Server -> Nat]
    BY <1>0, <1>10, <1>11, <1>15 DEF LogTypeOK
  <2>2. /\ commitIndex' \in [Server -> Nat] /\ lastApplied' \in [Server -> Nat]
        /\ applied' \in [Server -> Seq(Entry)]
    BY SMTT(30), <1>0, <1>12, <1>15, <1>16 DEF LogTypeOK
  <2>3. (\A q \in Server : Len(log'[q]) > 0) /\ \A q \in Server : disk'[q].snapshot \in Seq(Entry)
    BY <1>0, <1>10, <1>11, <1>18, <1>19 DEF LogTypeOK
  <2>4. \A r \in isRep' : r.argTerm \in Term
    <3>1. PICK q : q = [argTerm |-> m.term, term |-> currentTerm[s], from |-> s, to |-> m.from]
      OBVIOUS
    <3>2. isRep' = isRep \cup {q} /\ q.argTerm \in Term
      BY <1>2, <1>10, <1>13, <3>1
    <3> QED
      BY <1>0, <3>2 DEF LogTypeOK
  <2> QED
    BY <1>0, <1>13, <2>1, <2>2, <2>3, <2>4 DEF LogTypeOK, leading
<1>23. \A q \in Server \ {s} : Same(q)
  <2>1. \A q \in Server \ {s} : /\ commitIndex'[q] = commitIndex[q] /\ lastApplied'[q] = lastApplied[q]
                                /\ applied'[q] = applied[q]
    BY <1>0, <1>15, <1>16 DEF LogTypeOK
  <2> QED
    BY <1>13, <1>17, <1>18, <1>19, <2>1 DEF leading, Same, SameLog, SameRole, SameCounts, SameService
<1>24. DiskCurrent'
  BY <1>0, <1>15, <1>17, <1>18, DiskWritten DEF SameLog
<1>25. LeaderLogs'
  BY <1>0, <1>13, CalmLeaderLogs
<1>26. getLastLogIdx(s)' = top /\ getLastLogTerm(s)' = t
  <2>1. getLastLogIdx(s)' = top
    <3>1. getLastLogIdx(s)' = Len(lg) + ii - 1
      BY <1>10, <1>11, <1>18 DEF getLastLogIdx, logLen
    <3> QED
      BY <1>5, <1>10, <1>11, <3>1
  <2>2. top - ii + 1 = Len(lg)
    BY <1>5, <1>10, <1>11
  <2> QED
    BY <1>4, <1>18, <2>1, <2>2 DEF getLastLogTerm, getLog, EntryAt
<1>27. state'[s] # Leader /\ \A x : <<T, x>> \in elected => x # s
  <2>1. \A x : <<T, x>> \in elected => x = m.from
    BY <1>0, <1>10 DEF ElectionSafety
  <2>2. CASE T > currentTerm[s]
    BY <1>10, <1>17, <2>1, <2>2
  <2>3. CASE ~(T > currentTerm[s])
    <3>1. T = currentTerm[s]
      BY <1>10, <2>3
    <3> QED
      BY <1>0, <1>10, <1>17, <2>1, <2>3, <3>1 DEF Leads
  <2> QED
    BY <2>2, <2>3
<1>28. HasPiece(s)'
  <2>1. PieceOf(t, ii, lg)'
    BY <1>0, <1>10, <1>11, <1>21, <1>22, PieceStays
  <2> QED
    BY <1>11, <1>17, <1>18, <1>26, <2>1 DEF HasPiece
<1>29. Leads(s)' /\ Counts(s)' /\ Standing(s)
  BY <1>10, <1>13, <1>17, <1>27 DEF Leads, Counts, Standing
<1>30. Keeps(s)'
  <2> SUFFICES ASSUME NEW u \in Term, NEW i, At(u, i, u)', Acked(s, u, i)'
               PROVE  (i <= top /\ At(t, i, u)') \/ Blocked(u, i)'
    BY <1>26 DEF Keeps
  <2>1. At(u, i, u) /\ Acked(s, u, i)
    BY <1>21 DEF NoNewAck
  <2>2. CASE Blocked(u, i)
    BY <1>0, <1>21, <2>2, BlockedStays
  <2>3. CASE ~Blocked(u, i)
    <3>1. i <= top /\ At(t, i, u)
      BY <1>11, <2>1, <2>3
    <3> QED
      BY <1>0, <1>11, <1>21, <1>22, <3>1, AtStays
  <2> QED
    BY <2>2, <2>3
<1>31. Serves(s)'
  <2>1. lastApplied'[s] = n /\ commitIndex'[s] = n /\ applied'[s] = y
    BY <1>0, <1>15, <1>16 DEF LogTypeOK
  <2>2. Safe(applied[s], currentTerm[s])'
    <3>1. Safe(y, T)'
      BY <1>0, <1>10, <1>12, <1>21, <1>22, SafeStays, TermOrder
    <3> QED
      BY <1>17, <2>1, <3>1
  <2>3. \A j \in ii + 1 .. n : getLog(s, j)' = y[j]
    BY <1>12, <1>18 DEF getLog
  <2>4. ii # 0
    BY <1>10
  <2> QED
    BY <1>10, <1>12, <1>18, <1>19, <1>26, <2>1, <2>2, <2>3, <2>4 DEF Serves
<1>32. PeerOK(s)'
  BY <1>28, <1>29, <1>30, <1>31 DEF PeerOK
<1> QED
  BY <1>13, <1>21, <1>22, <1>23, <1>24, <1>25, <1>29, <1>32, StepOfPeer

(* InstallSnapshot, not fresh: at most the term is taken over. *)
LEMMA InstallStaleKeeps ==
  ASSUME FullInv, Inv', Monotone, NEW m \in isReq, NEW s \in Server, s = m.to, InstallSnapshot(m),
         ~(m.term >= currentTerm[s] /\ m.lastIncludedIndex > lastIncludedIndex[s])
  PROVE  LogInv'
<1>0. TypeOK /\ LogTypeOK /\ DiskCurrent
  BY DEF FullInv, Inv, LogInv
<1>1. m.term \in Term /\ m.term \in Nat /\ currentTerm[s] \in Nat
  BY <1>0, TermNat DEF TypeOK
<1>2. /\ UNCHANGED <<leading, rvReq, rvRep, aeReq, aeRep, isReq, elected, leaderLog>>
      /\ isRep' = isRep \cup {[argTerm |-> m.term, term |-> currentTerm[s], from |-> s, to |-> m.from]}
  BY DEF InstallSnapshot
<1>3. /\ currentTerm' = [currentTerm EXCEPT ![s] = Max2(currentTerm[s], m.term)]
      /\ votedFor' = [votedFor EXCEPT ![s] = IF m.term > currentTerm[s] THEN NULL ELSE votedFor[s]]
      /\ state' = [state EXCEPT ![s] = IF m.term > currentTerm[s] THEN Follower ELSE state[s]]
  BY DEF InstallSnapshot
<1>4. /\ UNCHANGED <<log, lastIncludedIndex, lastIncludedTerm, volatile>>
      /\ IF m.term > currentTerm[s] THEN persist(s) ELSE UNCHANGED disk
  BY DEF InstallSnapshot
<1>5. \A q \in Server : disk'[q].snapshot = disk[q].snapshot
  BY <1>0, <1>4, PersistKeepsSnapshot
<1>6. LogTypeOK'
  <2>1. \A r \in isRep' : r.argTerm \in Term
    BY <1>0, <1>1, <1>2 DEF LogTypeOK
  <2> QED
    BY <1>0, <1>2, <1>4, <1>5, <2>1 DEF LogTypeOK, volatile, leading
<1>7. Calm
  BY <1>2 DEF Calm
<1>8. Grow(s) /\ NoNewAck(s)
  BY <1>7, CalmGrows, CalmAcks
<1>9. \A q \in Server : SameLog(q) /\ SameCounts(q) /\ SameService(q)
  BY <1>2, <1>4, <1>5 DEF volatile, leading, SameLog, SameCounts, SameService
<1>10. \A q \in Server \ {s} : /\ state'[q] = state[q] /\ currentTerm'[q] = currentTerm[q]
                               /\ votedFor'[q] = votedFor[q]
  BY <1>0, <1>3 DEF TypeOK
<1>11. \A q \in Server \ {s} : Same(q)
  BY <1>9, <1>10 DEF Same, SameRole
<1>12. RoleOK(s) /\ DiskCurrent'
  <2>1. CASE m.term > currentTerm[s]
    <3>1. RoleOK(s)
      BY <1>0, <1>3, <2>1 DEF TypeOK, RoleOK
    <3>2. DiskCurrent'
      BY <1>0, <1>4, <1>9, <1>10, <2>1, DiskWritten DEF SameService
    <3> QED
      BY <3>1, <3>2
  <2>2. CASE ~(m.term > currentTerm[s])
    <3>1. currentTerm' = currentTerm /\ votedFor' = votedFor /\ state' = state /\ disk' = disk
      <4>1. Max2(currentTerm[s], m.term) = currentTerm[s]
        BY <1>1, <2>2 DEF Max2
      <4>2. state \in [Server -> {Follower, Candidate, Leader}] /\ currentTerm \in [Server -> Term]
            /\ votedFor \in [Server -> Server \cup {NULL}]
        BY <1>0 DEF TypeOK
      <4> QED
        BY <1>3, <1>4, <2>2, <4>1, <4>2
    <3> QED
      BY <1>0, <1>4, <1>9, <3>1 DEF RoleOK, SameRole, DiskCurrent
  <2> QED
    BY <2>1, <2>2
<1> QED
  BY <1>2, <1>6, <1>8, <1>9, <1>11, <1>12, RoleStep

(* InstallSnapshot keeps the invariant. *)
LEMMA InstallSnapshotKeeps ==
  ASSUME FullInv, Inv', Monotone, NEW m \in isReq, InstallSnapshot(m)
  PROVE  LogInv'
<1>1. PICK s \in Server : s = m.to
  BY DEF FullInv, Inv, TypeOK
<1>2. m.term \in Nat /\ currentTerm[s] \in Nat
  BY TermNat DEF FullInv, Inv, TypeOK
<1>3. CASE m.term >= currentTerm[s] /\ m.lastIncludedIndex > lastIncludedIndex[s]
  <2>1. currentTerm[s] <= m.term
    BY <1>2, <1>3
  <2> QED
    BY <1>1, <1>3, <2>1, InstallFreshKeeps
<1>4. CASE ~(m.term >= currentTerm[s] /\ m.lastIncludedIndex > lastIncludedIndex[s])
  BY <1>1, <1>4, InstallStaleKeeps
<1> QED
  BY <1>3, <1>4

-----------------------------------------------------------------------------
(* The invariant. *)

(* Fresh peers: one placeholder in every log, nothing sent, nobody elected. *)
LEMMA LogInit ==
  Init => LogInv
<1> SUFFICES ASSUME Init PROVE LogInv
  OBVIOUS
<1> DEFINE fresh == << [term |-> 0, cmd |-> NoCommand] >>
<1>1. 0 \in Term /\ 0 \in Nat
  BY BoundAssumption DEF Term
<1>2. fresh \in Seq(Entry) /\ Len(fresh) = 1 /\ fresh[1].term = 0
  BY DEF Entry
<1>3. /\ log = [s \in Server |-> fresh] /\ leaderLog = [t \in Term |-> << >>]
      /\ lastIncludedIndex = [s \in Server |-> 0] /\ applied = [s \in Server |-> << >>]
      /\ disk = [s \in Server |-> FreshDisk] /\ elected = {}
      /\ rvReq = {} /\ rvRep = {} /\ aeReq = {} /\ aeRep = {} /\ isReq = {} /\ isRep = {}
  BY DEF Init, FreshDisk
<1>4. << >> \in Seq(Entry) /\ Len(<< >>) = 0
  OBVIOUS
<1>5. LogTypeOK
  <2>1. \A s \in Server : disk[s].snapshot \in Seq(Entry)
    BY <1>3, <1>4 DEF FreshDisk
  <2>2. /\ nextIndex \in [Server -> [Server -> Nat]] /\ matchIndex \in [Server -> [Server -> Nat]]
        /\ commitIndex \in [Server -> Nat] /\ lastApplied \in [Server -> Nat]
        /\ lastIncludedTerm \in [Server -> Nat]
    BY DEF Init
  <2> QED
    BY <1>2, <1>3, <1>4, <2>1, <2>2 DEF LogTypeOK
<1>6. DiskCurrent
  BY DEF Init, DiskCurrent, FreshDisk
<1>7. \A t \in Term : Len(leaderLog[t]) = 0
  BY <1>3, <1>4
<1>8. LeaderLogs
  BY <1>7 DEF LeaderLogs, At
<1>9. PeersKeepLogs
  <2> SUFFICES ASSUME NEW s \in Server
               PROVE  HasPiece(s) /\ Leads(s) /\ Keeps(s) /\ Counts(s) /\ Serves(s)
    BY DEF PeersKeepLogs
  <2>1. /\ log[s] = fresh /\ lastIncludedIndex[s] = 0 /\ currentTerm[s] = 0 /\ state[s] = Follower
        /\ commitIndex[s] = 0 /\ lastApplied[s] = 0 /\ applied[s] = << >>
        /\ disk[s].snapshot = << >> /\ lastIncludedTerm[s] = 0
    BY DEF Init, FreshDisk
  <2>2. getLastLogIdx(s) = 0 /\ getLastLogTerm(s) = 0
    BY <1>2, <1>5, <2>1, LogShape
  <2>3. PieceOf(0, 0, log[s])
    BY <1>1, <1>2, <1>7, <2>1 DEF PieceOf
  <2>4. HasPiece(s)
    BY <2>1, <2>2, <2>3 DEF HasPiece
  <2>5. Leads(s) /\ Keeps(s) /\ Counts(s)
    BY <1>7, <2>1 DEF Leads, Keeps, Counts
  <2>6. Safe(applied[s], currentTerm[s])
    BY <1>4, <2>1 DEF Safe
  <2>7. Serves(s)
    BY <1>4, <2>1, <2>2, <2>6 DEF Serves
  <2> QED
    BY <2>4, <2>5, <2>7
<1>10. MessagesFromLeaders /\ VotesKnowAcks /\ LeadersComplete
  BY <1>3 DEF MessagesFromLeaders, VotesKnowAcks, LeadersComplete
<1> QED
  BY <1>5, <1>6, <1>8, <1>9, <1>10 DEF LogInv

(* Nothing happens to the peers. *)
LEMMA StutterKeepsLogs ==
  ASSUME FullInv, Inv', UNCHANGED vars
  PROVE  LogInv'
<1>0. LogTypeOK /\ DiskCurrent /\ TypeOK
  BY DEF FullInv, LogInv, Inv
<1>1. /\ UNCHANGED <<state, persisted, volatile, leading, disk, network>>
      /\ UNCHANGED <<elected, leaderLog>>
  BY DEF vars
<1>2. PICK s \in Server : TRUE
  BY ServerAssumption
<1>3. LogTypeOK' /\ DiskCurrent'
  BY <1>0, <1>1 DEF LogTypeOK, DiskCurrent, persisted, volatile, leading, network
<1>4. Calm /\ Monotone
  <2>1. \A q \in Server : currentTerm[q] \in Nat
    BY <1>0, TermNat DEF TypeOK
  <2>2. UNCHANGED <<leaderLog, elected, aeRep, rvReq, currentTerm, votedFor>>
    BY <1>1 DEF network, persisted
  <2> QED
    BY <2>1, <2>2 DEF Calm, Monotone
<1>5. Grow(s) /\ NoNewAck(s)
  BY <1>4, CalmGrows, CalmAcks
<1>6. \A q \in Server : Same(q)
  BY <1>1 DEF persisted, volatile, leading, Same, SameLog, SameRole, SameCounts, SameService
<1>7. SameLog(s) /\ SameService(s) /\ RoleOK(s)
  BY <1>6 DEF Same, RoleOK
<1> QED
  BY <1>1, <1>3, <1>5, <1>6, <1>7, RoleStep DEF network

(* Every action keeps the logs in order. *)
LEMMA LogNext ==
  ASSUME FullInv, Inv', Monotone, Next
  PROVE  LogInv'
<1>1. CASE \E s \in Server : Restart(s)
  BY <1>1, RestartKeepsLogs
<1>2. CASE \E s \in Server : MainLoop(s)
  BY <1>2, MainLoopKeeps
<1>3. CASE \E s \in Server : beCandidate(s)
  BY <1>3, BeCandidateKeeps
<1>4. CASE \E s \in Server : \E e \in pending[s] : startElection(s, e)
  BY <1>4, StartElectionKeeps
<1>5. CASE \E m \in rvReq : RequestVote(m)
  BY <1>5, RequestVoteKeeps
<1>6. CASE \E r \in rvRep : VoteReply(r)
  BY <1>6, VoteReplyKeeps
<1>7. CASE \E s \in Server, c \in Command : Start(s, c)
  BY <1>7, StartKeeps
<1>8. CASE \E s \in Server, p \in Server : AppendLoop(s, p)
  BY <1>8, AppendLoopKeeps
<1>9. CASE \E s \in Server, p \in Server : sendSnapshot(s, p)
  BY <1>9, SendSnapshotKeeps
<1>10. CASE \E m \in aeReq : AppendEntries(m)
  BY <1>10, AppendEntriesKeeps
<1>11. CASE \E r \in aeRep : AppendReply(r)
  BY <1>11, AppendReplyKeeps
<1>12. CASE \E s \in Server : \E i \in 1 .. lastApplied[s] : DoSnapShot(s, i)
  BY <1>12, DoSnapShotKeeps
<1>13. CASE \E m \in isReq : InstallSnapshot(m)
  BY <1>13, InstallSnapshotKeeps
<1>14. CASE \E r \in isRep : SnapshotReply(r)
  BY <1>14, SnapshotReplyKeeps
<1> QED
  BY <1>1, <1>2, <1>3, <1>4, <1>5, <1>6, <1>7, <1>8, <1>9, <1>10, <1>11, <1>12, <1>13, <1>14 DEF Next

(* The two invariants together are inductive. *)
LEMMA FullInvStep ==
  FullInv /\ [Next]_vars => FullInv'
<1> SUFFICES ASSUME FullInv, [Next]_vars PROVE FullInv'
  OBVIOUS
<1>1. Inv'
  BY InvStep DEF FullInv
<1>2. LogInv'
  <2>1. CASE Next
    BY <1>1, <2>1, MonotoneStep, LogNext DEF FullInv
  <2>2. CASE UNCHANGED vars
    BY <1>1, <2>2, StutterKeepsLogs
  <2> QED
    BY <2>1, <2>2
<1> QED
  BY <1>1, <1>2 DEF FullInv

(* Every reachable state has logs that are pieces of their leaders' logs,   *)
(* acknowledgements that are kept or can no longer matter, and services     *)
(* that were given a committed beginning (AppendEntries, updateNextMatchIdx, *)
(* InstallSnapshot, readPersist).                                           *)
THEOREM LogInvariant ==
  Spec => [](Inv /\ LogInv)
<1>1. Init => FullInv
  BY InvInit, LogInit DEF FullInv
<1>2. Spec => []FullInv
  BY <1>1, FullInvStep, PTL DEF Spec
<1> QED
  BY <1>2, PTL DEF FullInv

-----------------------------------------------------------------------------
(* Safety of every reachable state. *)

(* An entry-wise beginning is a prefix. *)
LEMMA PrefixByEntries ==
  ASSUME NEW x \in Seq(Entry), NEW y \in Seq(Entry), Len(x) <= Len(y),
         \A j \in 1 .. Len(x) : y[j] = x[j]
  PROVE  Prefix(x, y)
<1>1. Len(x) \in Nat /\ Len(y) \in Nat /\ \A j \in 1 .. Len(x) : y[j] \in Entry
  BY LenProperties, ElementOfSeq
<1>2. /\ SubSeq(y, 1, Len(x)) \in Seq(Entry) /\ Len(SubSeq(y, 1, Len(x))) = Len(x)
      /\ \A j \in 1 .. Len(x) : SubSeq(y, 1, Len(x))[j] = x[j]
  BY <1>1, SubSeqProperties
<1>3. SubSeq(y, 1, Len(x)) = x
  BY <1>2, SeqEqual
<1> QED
  BY <1>3 DEF Prefix

(* What two peers apply is committed, hence a beginning of one log. *)
LEMMA ServicesAgree ==
  FullInv => StateMachineSafety
<1> SUFFICES ASSUME FullInv, NEW s \in Server, NEW t \in Server
             PROVE  Prefix(applied[s], applied[t]) \/ Prefix(applied[t], applied[s])
  BY DEF StateMachineSafety
<1>1. PICK x : x = applied[s]
  OBVIOUS
<1>2. PICK y : y = applied[t]
  OBVIOUS
<1>3. LogTypeOK /\ LeaderLogs /\ LeadersComplete /\ TypeOK /\ Serves(s) /\ Serves(t)
  BY DEF FullInv, Inv, LogInv, PeersKeepLogs
<1>4. /\ x \in Seq(Entry) /\ y \in Seq(Entry) /\ currentTerm[s] \in Term /\ currentTerm[t] \in Term
      /\ Safe(x, currentTerm[s]) /\ Safe(y, currentTerm[t]) /\ Len(x) \in Nat /\ Len(y) \in Nat
  BY <1>1, <1>2, <1>3, LenProperties DEF LogTypeOK, TypeOK, Serves
<1>5. /\ \A j \in 1 .. Len(x) : j <= Len(y) => x[j] = y[j]
      /\ \A j \in 1 .. Len(y) : j <= Len(x) => y[j] = x[j]
  BY <1>3, <1>4, SafeAgree
<1>6. CASE Len(x) <= Len(y)
  <2>1. \A j \in 1 .. Len(x) : y[j] = x[j]
    BY <1>4, <1>5, <1>6
  <2> QED
    BY <1>1, <1>2, <1>4, <1>6, <2>1, PrefixByEntries
<1>7. CASE Len(y) <= Len(x)
  <2>1. \A j \in 1 .. Len(y) : x[j] = y[j]
    BY <1>4, <1>5, <1>7
  <2> QED
    BY <1>1, <1>2, <1>4, <1>7, <2>1, PrefixByEntries
<1> QED
  BY <1>4, <1>6, <1>7

(* A leader has what was committed in any term up to its own. *)
LEMMA LeadersHoldApplied ==
  FullInv => LeaderCompleteness
<1> SUFFICES ASSUME FullInv, NEW s \in Server, NEW t \in Server,
                    state[s] = Leader, currentTerm[s] >= currentTerm[t]
             PROVE  Prefix(applied[t], FullLog(s))
  BY DEF LeaderCompleteness
<1>1. PICK x : x = applied[t]
  OBVIOUS
<1>2. PICK y : y = FullLog(s)
  OBVIOUS
<1>3. PICK ct : ct = currentTerm[s]
  OBVIOUS
<1>4. PICK L : L = leaderLog[ct]
  OBVIOUS
<1>5. /\ LogTypeOK /\ LeaderLogs /\ LeadersComplete /\ TypeOK /\ Serves(s) /\ Serves(t)
  BY DEF FullInv, Inv, LogInv, PeersKeepLogs
<1>6. /\ x \in Seq(Entry) /\ Safe(x, currentTerm[t]) /\ ct \in Term /\ ct \in Nat
      /\ currentTerm[t] \in Nat /\ currentTerm[t] \in 0 .. ct /\ Len(x) \in Nat
  <2>1. x \in Seq(Entry) /\ Safe(x, currentTerm[t]) /\ Len(x) \in Nat
    BY <1>1, <1>5, LenProperties DEF LogTypeOK, Serves
  <2>2. currentTerm[s] \in Term /\ currentTerm[s] \in Nat /\ currentTerm[t] \in Nat
    BY <1>5, TermNat DEF TypeOK
  <2>3. currentTerm[t] \in 0 .. ct
    BY <1>3, <2>2
  <2> QED
    BY <1>3, <2>1, <2>2, <2>3
<1>7. /\ <<ct, s>> \in elected /\ PieceOf(ct, lastIncludedIndex[s], log[s])
      /\ Len(L) = getLastLogIdx(s) /\ \A j \in 1 .. lastApplied[s] : applied[s][j] = L[j]
  BY <1>3, <1>4, LeaderHolds
<1>8. \A j \in 1 .. Len(x) : j \in 1 .. Len(L) /\ x[j] = L[j]
  BY <1>4, <1>5, <1>6, <1>7, SafeInLeader
<1>9. /\ y \in Seq(Entry) /\ Len(y) = getLastLogIdx(s)
      /\ \A j \in 1 .. lastIncludedIndex[s] : y[j] = disk[s].snapshot[j]
      /\ \A j \in lastIncludedIndex[s] + 1 .. getLastLogIdx(s) : y[j] = getLog(s, j)
  BY <1>2, FullLogShape
<1>10. /\ lastIncludedIndex[s] \in Nat /\ lastApplied[s] \in Nat /\ getLastLogIdx(s) \in Nat
       /\ lastIncludedIndex[s] <= lastApplied[s]
       /\ \A j \in 1 .. lastIncludedIndex[s] : disk[s].snapshot[j] = applied[s][j]
  BY <1>5, LogShape DEF LogTypeOK, Serves
<1>11. \A i \in lastIncludedIndex[s] + 1 .. getLastLogIdx(s) : getLog(s, i) = L[i]
  BY <1>4, <1>5, <1>7, PieceEntries
<1>12. ASSUME NEW j \in 1 .. getLastLogIdx(s) PROVE y[j] = L[j]
  <2>1. CASE j \in 1 .. lastIncludedIndex[s]
    <3>1. j \in 1 .. lastApplied[s]
      BY <1>10, <2>1
    <3> QED
      BY <1>7, <1>9, <1>10, <2>1, <3>1
  <2>2. CASE j \in lastIncludedIndex[s] + 1 .. getLastLogIdx(s)
    BY <1>9, <1>11, <2>2
  <2> QED
    BY <1>10, <2>1, <2>2
<1>13. Len(x) <= Len(y) /\ \A j \in 1 .. Len(x) : y[j] = x[j]
  <2>1. Len(x) > 0 => Len(x) \in 1 .. Len(x)
    BY <1>6
  <2>2. Len(x) <= Len(y)
    BY <1>6, <1>7, <1>8, <1>9, <1>10, <2>1
  <2> QED
    BY <1>7, <1>8, <1>12, <2>2
<1> QED
  BY <1>1, <1>2, <1>6, <1>9, <1>13, PrefixByEntries

(* Two logs are pieces of leaders' logs, which match. *)
LEMMA PiecesMatch ==
  FullInv => LogMatching
<1> SUFFICES ASSUME FullInv, NEW s \in Server, NEW t \in Server,
                    NEW low, low = Max2(lastIncludedIndex[s], lastIncludedIndex[t]) + 1,
                    NEW i \in low .. Min2(getLastLogIdx(s), getLastLogIdx(t)),
                    getLog(s, i).term = getLog(t, i).term, NEW j \in low .. i
             PROVE  getLog(s, j) = getLog(t, j)
  BY DEF LogMatching
<1>1. LogTypeOK /\ LeaderLogs /\ HasPiece(s) /\ HasPiece(t)
  BY DEF FullInv, LogInv, PeersKeepLogs
<1>2. PICK a : a = getLastLogTerm(s)
  OBVIOUS
<1>3. PICK b : b = getLastLogTerm(t)
  OBVIOUS
<1>4. PICK k : k = getLog(s, i).term
  OBVIOUS
<1>5. /\ a \in Term /\ getLastLogIdx(s) <= Len(leaderLog[a])
      /\ \A h \in lastIncludedIndex[s] + 1 .. getLastLogIdx(s) : getLog(s, h) = leaderLog[a][h]
  BY <1>1, <1>2, PieceEntries DEF HasPiece
<1>6. /\ b \in Term /\ getLastLogIdx(t) <= Len(leaderLog[b])
      /\ \A h \in lastIncludedIndex[t] + 1 .. getLastLogIdx(t) : getLog(t, h) = leaderLog[b][h]
  BY <1>1, <1>3, PieceEntries DEF HasPiece
<1>7. /\ lastIncludedIndex[s] \in Nat /\ lastIncludedIndex[t] \in Nat
      /\ getLastLogIdx(s) \in Nat /\ getLastLogIdx(t) \in Nat
      /\ Len(leaderLog[a]) \in Nat /\ Len(leaderLog[b]) \in Nat
  BY <1>1, <1>5, <1>6, LogShape, LeaderLogType
<1>8. PICK lis \in Nat : lis = lastIncludedIndex[s]
  BY <1>7
<1>9. PICK lit \in Nat : lit = lastIncludedIndex[t]
  BY <1>7
<1>10. PICK ls \in Nat : ls = getLastLogIdx(s)
  BY <1>7
<1>11. PICK lt \in Nat : lt = getLastLogIdx(t)
  BY <1>7
<1>12. /\ i \in lis + 1 .. ls /\ i \in lit + 1 .. lt /\ j \in lis + 1 .. ls /\ j \in lit + 1 .. lt
       /\ j \in 1 .. i /\ i \in 1 .. Len(leaderLog[a]) /\ i \in 1 .. Len(leaderLog[b])
  <2>1. low \in Nat /\ low >= lis + 1 /\ low >= lit + 1
    BY <1>8, <1>9 DEF Max2
  <2>2. /\ Min2(ls, lt) \in Nat /\ Min2(ls, lt) <= ls /\ Min2(ls, lt) <= lt
    BY DEF Min2
  <2>3. i \in low .. Min2(ls, lt)
    BY <1>10, <1>11
  <2>4. ls <= Len(leaderLog[a]) /\ lt <= Len(leaderLog[b])
    BY <1>5, <1>6, <1>10, <1>11
  <2>5. i \in Nat /\ j \in Nat /\ low <= i /\ i <= ls /\ i <= lt /\ low <= j /\ j <= i
    BY <2>1, <2>2, <2>3
  <2> QED
    BY SMTT(30), <1>7, <2>1, <2>4, <2>5
<1>13. At(a, i, k) /\ At(b, i, k)
  <2>1. getLog(s, i) = leaderLog[a][i] /\ getLog(t, i) = leaderLog[b][i]
    BY <1>5, <1>6, <1>8, <1>9, <1>10, <1>11, <1>12
  <2> QED
    BY <1>4, <1>12, <2>1 DEF At
<1>14. leaderLog[a][j] = leaderLog[b][j]
  BY <1>1, <1>5, <1>6, <1>12, <1>13, SameTermSameLog
<1> QED
  BY <1>5, <1>6, <1>8, <1>9, <1>10, <1>11, <1>12, <1>14

(* What Serves says, in the words of the code. *)
LEMMA IndicesAgree ==
  FullInv => IndicesConsistent
<1> SUFFICES ASSUME FullInv, NEW s \in Server
             PROVE  /\ Len(applied[s]) = lastApplied[s]
                    /\ lastIncludedIndex[s] <= lastApplied[s]
                    /\ lastApplied[s] = commitIndex[s]
                    /\ commitIndex[s] <= getLastLogIdx(s)
                    /\ Len(disk[s].snapshot) = lastIncludedIndex[s]
  BY DEF IndicesConsistent
<1>1. Serves(s)
  BY DEF FullInv, LogInv, PeersKeepLogs
<1> QED
  BY <1>1 DEF Serves

(* What Counts says of nextIndex. *)
LEMMA NextIndexReaches ==
  FullInv => NextIndexInBounds
<1> SUFFICES ASSUME FullInv, NEW s \in Server, NEW p \in Server, state[s] = Leader
             PROVE  nextIndex[s][p] \in 0 .. logLen(s)
  BY DEF NextIndexInBounds
<1>1. LogTypeOK /\ Counts(s)
  BY DEF FullInv, LogInv, PeersKeepLogs
<1>2. nextIndex[s][p] \in Nat /\ nextIndex[s][p] <= logLen(s)
  BY <1>1 DEF LogTypeOK, Counts
<1>3. logLen(s) \in Nat
  BY <1>1, LogShape
<1> QED
  BY <1>2, <1>3

(* No two services are ever given different commands at the same index: for *)
(* any number of peers, any crashes, any delays and any log compaction      *)
(* (updateLastApplied, InstallSnapshot).                                    *)
THEOREM StateMachineSafetyHolds ==
  Spec => []StateMachineSafety
BY LogInvariant, ServicesAgree, PTL DEF FullInv

(* A leader holds everything that was ever applied up to its term, in its   *)
(* snapshot or in its log (the up-to-date test of RequestVote).             *)
THEOREM LeaderCompletenessHolds ==
  Spec => []LeaderCompleteness
BY LogInvariant, LeadersHoldApplied, PTL DEF FullInv

(* Two logs with entries of one term at an index are the same up to it, as  *)
(* far as both keep their entries (AppendEntries, InstallSnapshot).         *)
THEOREM LogMatchingHolds ==
  Spec => []LogMatching
BY LogInvariant, PiecesMatch, PTL DEF FullInv

(* The service has exactly lastApplied commands, all of them committed, in  *)
(* the log or in the snapshot (updateLastApplied, DoSnapShot, readPersist). *)
THEOREM IndicesConsistentHolds ==
  Spec => []IndicesConsistent
BY LogInvariant, IndicesAgree, PTL DEF FullInv

(* nextIndex never points further than one past the leader's log, so the    *)
(* slice startAppendLog takes is never out of range.                        *)
THEOREM NextIndexInBoundsHolds ==
  Spec => []NextIndexInBounds
BY LogInvariant, NextIndexReaches, PTL DEF FullInv

-----------------------------------------------------------------------------
(* What one step does to the services. *)

(* The step is one of peer s: it adds to the common history as Grow says,   *)
(* and only the service of s moves, forwards unless s has crashed.          *)
Moves(s) ==
  /\ Grow(s)
  /\ \A q \in Server \ {s} : applied'[q] = applied[q]
  /\ \/ Prefix(applied[s], applied'[s])
     \/ crashes' # crashes /\ Prefix(applied'[s], applied[s])

(* A step that gives no service anything. *)
LEMMA QuietMoves ==
  ASSUME LogTypeOK, NEW s \in Server, Grow(s), applied' = applied
  PROVE  Moves(s)
<1>1. applied[s] \in Seq(Entry) /\ Len(applied[s]) \in Nat
  BY LenProperties DEF LogTypeOK
<1>2. Len(applied[s]) <= Len(applied[s])
  BY <1>1
<1>3. Prefix(applied[s], applied[s])
  BY <1>1, <1>2, PrefixByEntries
<1> QED
  BY <1>3 DEF Moves

(* updateLastApplied() adds behind what the service has. *)
LEMMA ApplyExtends ==
  ASSUME LogTypeOK, LogTypeOK', NEW s \in Server, NEW c, NEW lg, NEW base \in Nat,
         updateLastApplied(s, c, lg, base)
  PROVE  /\ \A q \in Server \ {s} : applied'[q] = applied[q]
         /\ Prefix(applied[s], applied'[s])
<1>1. PICK from : from = Max2(lastApplied[s], base)
  OBVIOUS
<1>2. PICK upto : upto = Max2(c, base)
  OBVIOUS
<1>3. PICK n : n = Max2(upto - from, 0)
  OBVIOUS
<1>4. PICK new : new = [k \in 1 .. n |-> EntryAt(lg, base, from + k)]
  OBVIOUS
<1>5. PICK old : old = applied[s]
  OBVIOUS
<1>6. /\ commitIndex' = [commitIndex EXCEPT ![s] = upto]
      /\ applied' = [applied EXCEPT ![s] = old \o new]
  BY <1>1, <1>2, <1>3, <1>4, <1>5 DEF updateLastApplied
<1>7. old \in Seq(Entry) /\ Len(old) \in Nat /\ lastApplied[s] \in Nat
  BY <1>5, LenProperties DEF LogTypeOK
<1>8. upto \in Nat
  <2>1. commitIndex'[s] = upto
    BY <1>6 DEF LogTypeOK
  <2> QED
    BY <2>1 DEF LogTypeOK
<1>9. n \in Nat
  BY <1>1, <1>3, <1>7, <1>8 DEF Max2
<1>10. PICK S : S = Entry \cup {new[k] : k \in 1 .. n}
  OBVIOUS
<1>11. new \in Seq(S) /\ Len(new) = n
  <2>1. new \in [1 .. n -> S]
    BY <1>4, <1>10
  <2> QED
    BY <1>9, <2>1, SeqDef, LenProperties
<1>12. old \in Seq(S)
  <2>1. \A i \in 1 .. Len(old) : old[i] \in S
    BY <1>7, <1>10, ElementOfSeq
  <2>2. old = [i \in 1 .. Len(old) |-> old[i]]
    BY <1>7, LenProperties
  <2>3. old \in [1 .. Len(old) -> S]
    BY <2>1, <2>2
  <2> QED
    BY <1>7, <2>3, SeqDef
<1>13. /\ Len(old \o new) = Len(old) + n
       /\ \A i \in 1 .. Len(old) + n : (old \o new)[i] = IF i <= Len(old) THEN old[i] ELSE new[i - Len(old)]
  BY <1>11, <1>12, ConcatProperties
<1>14. applied'[s] = old \o new /\ \A q \in Server \ {s} : applied'[q] = applied[q]
  BY <1>6 DEF LogTypeOK
<1>15. old \o new \in Seq(Entry)
  BY ZenonT(30), <1>14 DEF LogTypeOK
<1>16. Len(old) <= Len(old \o new) /\ \A j \in 1 .. Len(old) : (old \o new)[j] = old[j]
  BY <1>7, <1>9, <1>13
<1>17. Prefix(old, old \o new)
  BY <1>7, <1>15, <1>16, PrefixByEntries
<1> QED
  BY <1>5, <1>14, <1>17

(* The same from the two places that call it under a test. *)
LEMMA MaybeApplyMoves ==
  ASSUME LogTypeOK, LogTypeOK', NEW s \in Server, Grow(s), NEW c, NEW lg, NEW base \in Nat,
         updateLastApplied(s, c, lg, base) \/ UNCHANGED volatile
  PROVE  Moves(s)
<1>1. CASE updateLastApplied(s, c, lg, base)
  BY <1>1, ApplyExtends DEF Moves
<1>2. CASE UNCHANGED volatile
  BY <1>2, QuietMoves DEF volatile
<1> QED
  BY <1>1, <1>2

(* A step that leaves services, leaders' logs and replies alone. *)
LEMMA CalmMoves ==
  ASSUME FullInv, Monotone, Calm, NEW s \in Server, UNCHANGED volatile
  PROVE  Moves(s)
<1>1. LogTypeOK
  BY DEF FullInv, LogInv
<1> QED
  BY <1>1, CalmGrows, QuietMoves DEF volatile

(* Winning an election starts the log of a term that had none. *)
LEMMA VoteReplyMoves ==
  ASSUME FullInv, Inv', Monotone, NEW r \in rvRep, VoteReply(r)
  PROVE  \E s \in Server : Moves(s)
<1>0. /\ TypeOK /\ LogTypeOK /\ LeaderLogs /\ ElectionSafety'
  BY ElectionSafetyNext DEF FullInv, Inv, LogInv
<1>1. PICK s \in Server : s = r.to
  BY <1>0 DEF TypeOK
<1>2. UNCHANGED volatile /\ UNCHANGED network
  BY DEF VoteReply, VoteReplyStale, VoteReplyCounted
<1>3. CASE UNCHANGED <<elected, leaderLog>>
  <2>1. Calm
    BY <1>2, <1>3 DEF Calm, network
  <2> QED
    BY <1>2, <2>1, CalmMoves
<1>4. CASE state[s] = Candidate /\ beLeader(s)
  <2>1. PICK ct : ct = currentTerm[s]
    OBVIOUS
  <2>2. ct \in Term /\ Leads(s) /\ leaderLog \in [Term -> Seq(Entry)]
    BY <1>0, <2>1 DEF TypeOK, LogTypeOK, FullInv, LogInv, PeersKeepLogs
  <2>3. elected' = elected \cup {<<ct, s>>} /\ leaderLog' = [leaderLog EXCEPT ![ct] = FullLog(s)]
    BY <1>4, <2>1 DEF beLeader
  <2>4. \A l \in Server : <<ct, l>> \notin elected
    BY SMTT(30), <1>0, <1>4, <2>1, <2>2, <2>3 DEF Leads, ElectionSafety
  <2>5. Len(leaderLog[ct]) = 0
    <3>1. Len(leaderLog[ct]) \in Nat
      BY <1>0, <2>2, LeaderLogType
    <3>2. ~(Len(leaderLog[ct]) > 0)
      BY <1>0, <2>2, <2>4 DEF LeaderLogs
    <3> QED
      BY <3>1, <3>2
  <2>6. Len(FullLog(s)) \in Nat
    BY FullLogShape, LenProperties
  <2>7. /\ Len(leaderLog[ct]) <= Len(leaderLog'[ct])
        /\ \A i \in 1 .. Len(leaderLog[ct]) : leaderLog'[ct][i] = leaderLog[ct][i]
    BY <2>2, <2>3, <2>5, <2>6
  <2>8. \A t \in Term \ {ct} : leaderLog'[t] = leaderLog[t]
    BY <2>2, <2>3
  <2>9. \A q \in Server : currentTerm[q] <= currentTerm'[q]
    BY DEF Monotone
  <2>10. aeRep' = aeRep /\ rvReq' = rvReq
    BY <1>2 DEF network
  <2>11. Grow(s)
    BY <2>1, <2>3, <2>7, <2>8, <2>9, <2>10 DEF Grow
  <2> QED
    BY <1>0, <1>2, <2>11, QuietMoves DEF volatile
<1> QED
  BY <1>1, <1>3, <1>4 DEF VoteReply, VoteReplyStale, VoteReplyCounted, StillCandidate

(* Start() adds at the end of the leader's log. *)
LEMMA StartMoves ==
  ASSUME FullInv, Monotone, NEW s \in Server, NEW c \in Command, Start(s, c)
  PROVE  Moves(s)
<1>0. TypeOK /\ LogTypeOK /\ state[s] = Leader
  BY DEF FullInv, Inv, LogInv, Start
<1>1. PICK ct : ct = currentTerm[s]
  OBVIOUS
<1>2. PICK e : e = [term |-> ct, cmd |-> c]
  OBVIOUS
<1>3. /\ ct \in Term /\ ct \in Nat /\ <<ct, s>> \in elected
      /\ leaderLog \in [Term -> Seq(Entry)] /\ Len(leaderLog[ct]) \in Nat
  BY <1>0, <1>1, TermNat, LeaderHolds, LeaderLogType DEF LogTypeOK
<1>4. e \in Entry
  BY <1>2, <1>3 DEF Entry
<1>5. /\ leaderLog' = [leaderLog EXCEPT ![ct] = Append(leaderLog[ct], e)]
      /\ UNCHANGED <<volatile, elected, network>>
  BY <1>1, <1>2 DEF Start
<1>6. /\ Len(leaderLog[ct]) <= Len(leaderLog'[ct])
      /\ \A i \in 1 .. Len(leaderLog[ct]) : leaderLog'[ct][i] = leaderLog[ct][i]
  <2>1. leaderLog'[ct] = Append(leaderLog[ct], e) /\ leaderLog[ct] \in Seq(Entry)
    BY <1>3, <1>5
  <2> QED
    BY <1>3, <1>4, <2>1, AppendProperties
<1>7. \A t \in Term \ {ct} : leaderLog'[t] = leaderLog[t]
  BY <1>3, <1>5
<1>8. /\ \A q \in Server : currentTerm[q] <= currentTerm'[q]
      /\ aeRep' = aeRep /\ rvReq' = rvReq /\ elected' = elected
  BY <1>5 DEF Monotone, network
<1>9. Grow(s)
  BY <1>1, <1>3, <1>6, <1>7, <1>8 DEF Grow
<1> QED
  BY <1>0, <1>5, <1>9, QuietMoves DEF volatile

(* Only a restart counts as a crash. *)
CrashesCounted == crashes \in Nat

(* The count of crashes stays a number. *)
LEMMA CrashesCountedStep ==
  CrashesCounted /\ [Next]_vars => CrashesCounted'
<1> SUFFICES ASSUME CrashesCounted, [Next]_vars PROVE CrashesCounted'
  OBVIOUS
<1>1. crashes' = crashes \/ crashes' = crashes + 1
  <2>1. CASE UNCHANGED vars
    BY <2>1 DEF vars, bounds
  <2>2. CASE \E s \in Server : Restart(s) \/ MainLoop(s) \/ beCandidate(s)
    BY <2>2 DEF Restart, RestartVolatile, MainLoop, beCandidate, bounds
  <2>3. CASE \E s \in Server : \E e \in pending[s] : startElection(s, e)
    BY <2>3 DEF startElection, bounds
  <2>4. CASE \E s \in Server, c \in Command : Start(s, c)
    BY SMTT(30), <2>4 DEF Start, bounds
  <2>5. CASE \E m : RequestVote(m) \/ AppendEntries(m) \/ InstallSnapshot(m)
    BY <2>5 DEF RequestVote, AppendEntries, InstallSnapshot, bounds
  <2>6. CASE \E r : VoteReply(r) \/ AppendReply(r) \/ SnapshotReply(r)
    BY <2>6 DEF VoteReply, VoteReplyStale, VoteReplyCounted, AppendReply, SnapshotReply, bounds
  <2>7. CASE \E s \in Server : \E i \in 1 .. lastApplied[s] : DoSnapShot(s, i)
    BY <2>7 DEF DoSnapShot
  <2>8. CASE \E s \in Server, p \in Server : AppendLoop(s, p) \/ sendSnapshot(s, p)
    BY <2>8 DEF AppendLoop, sendSnapshot, bounds
  <2> QED
    BY <2>1, <2>2, <2>3, <2>4, <2>5, <2>6, <2>7, <2>8 DEF Next
<1> QED
  BY <1>1 DEF CrashesCounted

(* A restart takes the service back to the snapshot, which it had applied. *)
LEMMA RestartMoves ==
  ASSUME FullInv, CrashesCounted, Monotone, NEW s \in Server, Restart(s)
  PROVE  Moves(s)
<1>0. LogTypeOK /\ Serves(s)
  BY DEF FullInv, LogInv, PeersKeepLogs
<1>1. UNCHANGED <<network, elected, leaderLog>> /\ crashes < MaxCrash /\ crashes' = crashes + 1
  BY DEF Restart, RestartVolatile
<1>2. Grow(s)
  BY <1>1, CalmGrows DEF Calm, network
<1>3. applied'[s] = disk[s].snapshot /\ \A q \in Server \ {s} : applied'[q] = applied[q]
  BY <1>0 DEF Restart, LogTypeOK
<1>4. crashes' # crashes
  BY <1>1 DEF CrashesCounted
<1>5. Prefix(disk[s].snapshot, applied[s])
  <2>1. /\ disk[s].snapshot \in Seq(Entry) /\ applied[s] \in Seq(Entry)
        /\ Len(disk[s].snapshot) <= Len(applied[s])
        /\ \A j \in 1 .. Len(disk[s].snapshot) : applied[s][j] = disk[s].snapshot[j]
    BY <1>0 DEF LogTypeOK, Serves
  <2> QED
    BY <2>1, PrefixByEntries
<1> QED
  BY <1>2, <1>3, <1>4, <1>5 DEF Moves

(* AppendEntries applies what is committed by now, or nothing. *)
LEMMA AppendEntriesMoves ==
  ASSUME FullInv, Inv', LogTypeOK', Monotone, NEW m \in aeReq, AppendEntries(m)
  PROVE  \E s \in Server : Moves(s)
<1>0. TypeOK /\ LogTypeOK
  BY DEF FullInv, Inv, LogInv
<1>1. PICK s \in Server : s = m.to
  BY <1>0 DEF TypeOK
<1>2. /\ UNCHANGED <<rvReq, elected, leaderLog>>
      /\ currentTerm' = [currentTerm EXCEPT ![s] = Max2(m.term, currentTerm[s])]
  BY <1>1, AppendEntriesEffect
<1>3. PICK r :
        /\ aeRep' = aeRep \cup {r}
        /\ r.argTerm = m.term /\ r.from = s /\ r.match = m.prevLogIndex + Len(m.entries)
        /\ r.success => currentTerm[s] <= m.term
        /\ IF r.success
           THEN IF m.leaderCommit > commitIndex[s]
                THEN updateLastApplied(s, Min2(m.leaderCommit, Len(log'[s]) + lastIncludedIndex[s] - 1),
                                       log'[s], lastIncludedIndex[s])
                ELSE UNCHANGED volatile
           ELSE UNCHANGED volatile
  BY <1>1, AppendEntriesEffect
<1>4. ~r.success \/ currentTerm'[s] = m.term
  <2>1. m.term \in Nat /\ currentTerm[s] \in Nat /\ currentTerm'[s] = Max2(m.term, currentTerm[s])
    BY <1>0, <1>2, TermNat DEF TypeOK
  <2> QED
    BY <1>3, <2>1 DEF Max2
<1>5. Grow(s)
  BY <1>1, <1>2, <1>3, <1>4, ReplyGrows
<1>6. lastIncludedIndex[s] \in Nat
  BY <1>0 DEF LogTypeOK
<1> QED
  BY <1>0, <1>3, <1>5, <1>6, MaybeApplyMoves

(* updateCommitIndex() applies what has become committed, or nothing. *)
LEMMA UpdateMatchMoves ==
  ASSUME FullInv, LogTypeOK', Monotone, NEW s \in Server, NEW p, NEW idx,
         updateNextMatchIdx(s, p, idx), UNCHANGED <<network, elected, leaderLog>>
  PROVE  Moves(s)
<1>1. Grow(s)
  BY CalmGrows DEF Calm, network
<1>2. PICK n : updateLastApplied(s, n, log[s], lastIncludedIndex[s]) \/ UNCHANGED volatile
  BY DEF updateNextMatchIdx
<1>3. LogTypeOK /\ lastIncludedIndex[s] \in Nat
  BY DEF FullInv, LogInv, LogTypeOK
<1> QED
  BY <1>1, <1>2, <1>3, MaybeApplyMoves

(* The replies a leader gets. *)
LEMMA LeaderRepliesMove ==
  ASSUME FullInv, LogTypeOK', Monotone,
         (\E r \in aeRep : AppendReply(r)) \/ (\E r \in isRep : SnapshotReply(r))
  PROVE  \E s \in Server : Moves(s)
<1>0. TypeOK
  BY DEF FullInv, Inv
<1>1. UNCHANGED <<network, elected, leaderLog>>
  BY DEF AppendReply, SnapshotReply
<1>2. \/ UNCHANGED volatile
      \/ \E s \in Server : \E p, idx : updateNextMatchIdx(s, p, idx)
  <2>1. CASE \E r \in aeRep : AppendReply(r)
    <3>1. PICK r \in aeRep : AppendReply(r)
      BY <2>1
    <3>2. r.to \in Server
      BY <1>0 DEF TypeOK
    <3> QED
      BY <3>1, <3>2 DEF AppendReply, AppendReplyStale, AppendReplyOk, AppendReplyConflict
  <2>2. CASE \E r \in isRep : SnapshotReply(r)
    <3>1. PICK r \in isRep : SnapshotReply(r)
      BY <2>2
    <3>2. r.to \in Server
      BY <1>0 DEF TypeOK
    <3> QED
      BY <3>1, <3>2 DEF SnapshotReply
  <2> QED
    BY <2>1, <2>2
<1>3. CASE UNCHANGED volatile
  <2>1. PICK s \in Server : TRUE
    BY ServerAssumption
  <2> QED
    BY <1>1, <1>3, <2>1, CalmMoves DEF Calm, network
<1>4. CASE \E s \in Server : \E p, idx : updateNextMatchIdx(s, p, idx)
  BY <1>1, <1>4, UpdateMatchMoves
<1> QED
  BY <1>2, <1>3, <1>4

(* A snapshot that is installed goes on from what the service had. *)
LEMMA InstallSnapshotMoves ==
  ASSUME FullInv, Monotone, NEW m \in isReq, InstallSnapshot(m)
  PROVE  \E s \in Server : Moves(s)
<1>0. TypeOK /\ LogTypeOK
  BY DEF FullInv, Inv, LogInv
<1>1. PICK s \in Server : s = m.to
  BY <1>0 DEF TypeOK
<1>2. UNCHANGED <<rvReq, aeRep, elected, leaderLog>>
  BY DEF InstallSnapshot
<1>3. Grow(s)
  BY <1>2, CalmGrows DEF Calm
<1>4. m.term \in Nat /\ currentTerm[s] \in Nat /\ Serves(s)
  BY <1>0, TermNat DEF TypeOK, FullInv, LogInv, PeersKeepLogs
<1>5. CASE m.term >= currentTerm[s] /\ m.lastIncludedIndex > lastIncludedIndex[s]
  <2>1. PICK y : y = Installed(s, m)
    OBVIOUS
  <2>2. PICK lg : lg = SnapshotLog(s, m)
    OBVIOUS
  <2>3. PICK n : n = Max2(lastApplied[s], m.lastIncludedIndex)
    OBVIOUS
  <2>4. currentTerm[s] <= m.term
    BY <1>4, <1>5
  <2>5. /\ y \in Seq(Entry) /\ Len(y) = n /\ lastApplied[s] <= n
        /\ \A j \in 1 .. lastApplied[s] : y[j] = applied[s][j]
    BY <1>1, <1>5, <2>1, <2>2, <2>3, <2>4, InstalledFacts
  <2>6. applied' = [applied EXCEPT ![s] = y]
    BY <1>1, <1>5, <2>1 DEF InstallSnapshot, Installed
  <2>7. applied'[s] = y /\ \A q \in Server \ {s} : applied'[q] = applied[q]
    BY <1>0, <2>6 DEF LogTypeOK
  <2>8. applied[s] \in Seq(Entry) /\ Len(applied[s]) = lastApplied[s]
    BY <1>0, <1>4 DEF LogTypeOK, Serves
  <2>9. Prefix(applied[s], y)
    BY <2>5, <2>8, PrefixByEntries
  <2> QED
    BY <1>3, <2>7, <2>9 DEF Moves
<1>6. CASE ~(m.term >= currentTerm[s] /\ m.lastIncludedIndex > lastIncludedIndex[s])
  <2>1. UNCHANGED volatile
    BY <1>1, <1>6 DEF InstallSnapshot
  <2> QED
    BY <1>0, <1>3, <2>1, QuietMoves DEF volatile
<1> QED
  BY <1>5, <1>6

(* Every step is the step of one peer, as far as services are concerned. *)
LEMMA NextMoves ==
  ASSUME FullInv, FullInv', CrashesCounted, Monotone, Next
  PROVE  \E s \in Server : Moves(s)
<1>0. LogTypeOK' /\ Inv'
  BY DEF FullInv, LogInv
<1>1. CASE \E s \in Server : Restart(s)
  BY <1>1, RestartMoves
<1>2. CASE Calm /\ UNCHANGED volatile
  <2>1. PICK s \in Server : TRUE
    BY ServerAssumption
  <2> QED
    BY <1>2, <2>1, CalmMoves
<1>3. CASE \E s \in Server : MainLoop(s) \/ beCandidate(s)
  BY <1>2, <1>3 DEF MainLoop, beCandidate, Calm, network
<1>4. CASE \E s \in Server : \E e \in pending[s] : startElection(s, e)
  BY <1>2, <1>4 DEF startElection, Calm
<1>5. CASE \E m \in rvReq : RequestVote(m)
  BY <1>2, <1>5 DEF RequestVote, Calm
<1>6. CASE \E s \in Server, p \in Server : AppendLoop(s, p) \/ sendSnapshot(s, p)
  BY <1>2, <1>6 DEF AppendLoop, sendSnapshot, Calm
<1>7. CASE \E s \in Server : \E i \in 1 .. lastApplied[s] : DoSnapShot(s, i)
  BY <1>2, <1>7 DEF DoSnapShot, Calm, network
<1>8. CASE \E r \in rvRep : VoteReply(r)
  BY <1>0, <1>8, VoteReplyMoves
<1>9. CASE \E s \in Server, c \in Command : Start(s, c)
  BY <1>9, StartMoves
<1>10. CASE \E m \in aeReq : AppendEntries(m)
  BY <1>0, <1>10, AppendEntriesMoves
<1>11. CASE (\E r \in aeRep : AppendReply(r)) \/ (\E r \in isRep : SnapshotReply(r))
  BY <1>0, <1>11, LeaderRepliesMove
<1>12. CASE \E m \in isReq : InstallSnapshot(m)
  BY <1>12, InstallSnapshotMoves
<1> QED
  BY <1>1, <1>3, <1>4, <1>5, <1>6, <1>7, <1>8, <1>9, <1>10, <1>11, <1>12 DEF Next

(* A service only moves forwards, unless its peer crashes: nothing it was   *)
(* given is taken back or replaced (updateLastApplied, InstallSnapshot).    *)
THEOREM AppliedGrowsHolds ==
  Spec => AppliedGrows
<1>1. FullInv /\ FullInv' /\ CrashesCounted /\ [Next]_vars =>
        [\A s \in Server : crashes' = crashes => Prefix(applied[s], applied'[s])]_vars
  <2> SUFFICES ASSUME FullInv, FullInv', CrashesCounted, Next, crashes' = crashes, NEW s \in Server
               PROVE  Prefix(applied[s], applied'[s])
    OBVIOUS
  <2>1. Monotone
    BY MonotoneStep DEF FullInv
  <2>2. PICK q \in Server : Moves(q)
    BY <2>1, NextMoves
  <2>3. CASE s = q
    BY <2>2, <2>3 DEF Moves
  <2>4. CASE s # q
    <3>1. applied'[s] = applied[s]
      BY <2>2, <2>4 DEF Moves
    <3>2. applied[s] \in Seq(Entry) /\ Len(applied[s]) \in Nat
      BY LenProperties DEF FullInv, LogInv, LogTypeOK
    <3>3. Len(applied[s]) <= Len(applied[s])
      BY <3>2
    <3> QED
      BY <3>1, <3>2, <3>3, PrefixByEntries
  <2> QED
    BY <2>3, <2>4
<1>2. Spec => []FullInv
  BY LogInvariant, PTL DEF FullInv
<1>3. Spec => []CrashesCounted
  <2>1. Init => CrashesCounted
    BY DEF Init, CrashesCounted
  <2> QED
    BY <2>1, CrashesCountedStep, PTL DEF Spec
<1> QED
  BY <1>1, <1>2, <1>3, PTL DEF Spec, AppliedGrows

-----------------------------------------------------------------------------
(* One replicated log. *)

(* What is committed agrees with every service, as far as both go. *)
Fits(x) ==
  \A s \in Server :
    /\ Len(applied[s]) <= Len(x) => Prefix(applied[s], x)
    /\ Len(x) <= Len(applied[s]) => Prefix(x, applied[s])

SafeFits == \A x \in Seq(Entry) : \A t \in Term : Safe(x, t) => Fits(x)

(* Any two committed beginnings fit: one is a beginning of the other, so    *)
(* each fits what is chosen.                                                *)
LEMMA CommittedFits ==
  FullInv => SafeFits
<1> SUFFICES ASSUME FullInv, NEW x \in Seq(Entry), NEW t \in Term, Safe(x, t), NEW s \in Server
             PROVE  /\ Len(applied[s]) <= Len(x) => Prefix(applied[s], x)
                    /\ Len(x) <= Len(applied[s]) => Prefix(x, applied[s])
  BY DEF SafeFits, Fits
<1>1. LogTypeOK /\ LeaderLogs /\ LeadersComplete /\ TypeOK /\ Serves(s)
  BY DEF FullInv, Inv, LogInv, PeersKeepLogs
<1>2. PICK y : y = applied[s]
  OBVIOUS
<1>3. /\ y \in Seq(Entry) /\ currentTerm[s] \in Term /\ Safe(y, currentTerm[s])
      /\ Len(x) \in Nat /\ Len(y) \in Nat
  BY <1>1, <1>2, LenProperties DEF LogTypeOK, TypeOK, Serves
<1>4. \A j \in 1 .. Len(x) : j <= Len(y) => x[j] = y[j]
  BY <1>1, <1>3, SafeAgree
<1>5. Len(y) <= Len(x) => Prefix(y, x)
  <2>1. ASSUME Len(y) <= Len(x), NEW j \in 1 .. Len(y) PROVE x[j] = y[j]
    <3>1. j \in 1 .. Len(x) /\ j <= Len(y)
      BY <1>3, <2>1
    <3> QED
      BY <1>4, <3>1
  <2> QED
    BY <1>3, <2>1, PrefixByEntries
<1>6. Len(x) <= Len(y) => Prefix(x, y)
  <2>1. ASSUME Len(x) <= Len(y), NEW j \in 1 .. Len(x) PROVE y[j] = x[j]
    <3>1. j <= Len(y)
      BY <1>3, <2>1
    <3> QED
      BY <1>4, <3>1
  <2> QED
    BY <1>3, <2>1, PrefixByEntries
<1> QED
  BY <1>2, <1>5, <1>6

(* The replicated log is committed, and no service is ahead of it. *)
ChosenInv ==
  /\ chosen \in Seq(Entry) /\ \E t \in Term : Safe(chosen, t)
  /\ \A s \in Server : Len(applied[s]) <= Len(chosen)

(* A step of the peers is a step of the replicated log: what is chosen      *)
(* grows at its end, services go forwards in it, or back to a state they    *)
(* had.                                                                     *)
LEMMA ChosenStep ==
  ASSUME FullInv, FullInv', CrashesCounted, ChosenInv, ChosenNext
  PROVE  ChosenInv' /\ Log!AbsNext
<1>1. Next /\ chosen' = NewlyChosen /\ Monotone
  BY MonotoneStep DEF ChosenNext, FullInv
<1>2. PICK s \in Server : Moves(s)
  BY <1>1, NextMoves
<1>3. /\ LogTypeOK /\ LogTypeOK' /\ TypeOK' /\ PeersKeepLogs'
  BY DEF FullInv, Inv, LogInv
<1>4. PICK x : x = chosen
  OBVIOUS
<1>5. PICK y : y = applied'[s]
  OBVIOUS
<1>6. /\ x \in Seq(Entry) /\ Len(x) \in Nat /\ y \in Seq(Entry) /\ Len(y) \in Nat
      /\ \A q \in Server : Len(applied[q]) <= Len(x)
      /\ \A q \in Server : Len(applied[q]) \in Nat /\ Len(applied'[q]) \in Nat
  BY <1>3, <1>4, <1>5, LenProperties DEF ChosenInv, LogTypeOK
<1>7. PICK t \in Term : Safe(x, t)'
  <2>1. PICK u \in Term : Safe(x, u)
    BY <1>4 DEF ChosenInv
  <2>2. Grow(s) /\ u <= u
    BY <1>2, <2>1, TermOrder DEF Moves
  <2> QED
    BY <1>3, <1>6, <2>1, <2>2, SafeStays
<1>8. Fits(x)'
  <2>1. SafeFits'
    <3>1. FullInv' => SafeFits'
      BY CommittedFits, PTL
    <3> QED
      BY <3>1
  <2> QED
    BY <1>6, <1>7, <2>1 DEF SafeFits
<1>9. /\ \A q \in Server \ {s} : applied'[q] = applied[q]
      /\ Prefix(applied[s], y) \/ Prefix(y, applied[s])
  BY <1>2, <1>5 DEF Moves
<1>10. DOMAIN applied = Server
  BY <1>3 DEF LogTypeOK
<1>11. CASE Len(y) <= Len(x)
  <2>1. \A q \in Server : Len(applied'[q]) <= Len(x)
    BY <1>5, <1>6, <1>9, <1>11
  <2>2. chosen' = x
    <3>1. {q \in Server : Len(applied'[q]) > Len(x)} = {}
      BY <1>6, <2>1
    <3> QED
      BY <1>1, <1>4, <3>1 DEF NewlyChosen
  <2>3. ChosenInv'
    BY <1>6, <1>7, <2>1, <2>2 DEF ChosenInv
  <2>4. Prefix(y, x)
    BY <1>5, <1>8, <1>11 DEF Fits
  <2>5. Log!Apply(s) \/ Log!Recover(s)
    BY <1>4, <1>5, <1>9, <2>2, <2>4 DEF Log!Apply, Log!Recover, Log!IsPrefix, Prefix
  <2> QED
    BY <1>9, <1>10, <2>3, <2>5 DEF Log!AbsNext
<1>12. CASE Len(y) > Len(x)
  <2>1. {q \in Server : Len(applied'[q]) > Len(x)} = {s}
    BY <1>5, <1>6, <1>9, <1>12
  <2>2. chosen' = y
    BY <1>1, <1>4, <1>5, <2>1 DEF NewlyChosen
  <2>3. ChosenInv'
    <3>1. currentTerm'[s] \in Term /\ Safe(y, currentTerm[s])'
      BY <1>3, <1>5 DEF TypeOK, PeersKeepLogs, Serves
    <3>2. \A q \in Server : Len(applied'[q]) <= Len(y)
      BY <1>5, <1>6, <1>9, <1>12
    <3> QED
      BY <1>6, <2>2, <3>1, <3>2 DEF ChosenInv
  <2>4. Prefix(x, y)
    BY <1>5, <1>6, <1>8, <1>12 DEF Fits
  <2>5. Prefix(applied[s], y)
    BY <1>6, <1>9, <1>12 DEF Prefix
  <2>6. Log!Apply(s)
    BY <1>4, <1>5, <2>2, <2>4, <2>5 DEF Log!Apply, Log!IsPrefix, Prefix
  <2> QED
    BY <1>9, <1>10, <2>3, <2>6 DEF Log!AbsNext
<1> QED
  BY <1>6, <1>11, <1>12

(* Nothing is chosen at first. *)
LEMMA ChosenStart ==
  ChosenInit => ChosenInv /\ Log!AbsInit
<1> SUFFICES ASSUME ChosenInit PROVE ChosenInv /\ Log!AbsInit
  OBVIOUS
<1>1. chosen = << >> /\ applied = [s \in Server |-> << >>] /\ 0 \in Term
  BY BoundAssumption DEF ChosenInit, Init, Term
<1>2. << >> \in Seq(Entry) /\ Len(<< >>) = 0 /\ Safe(<< >>, 0)
  BY DEF Safe
<1> QED
  BY <1>1, <1>2 DEF ChosenInv, Log!AbsInit

(* The peers of LabRaft, whatever is lost, late or restarted, behave like   *)
(* replicas of one log that only grows: each service receives it entry by   *)
(* entry from the first, and after a crash goes on from a state it had.     *)
THEOREM LogImplemented ==
  ChosenSpec => ImplementsLog
<1>1. ChosenSpec => Spec
  <2>1. ChosenInit => Init
    BY DEF ChosenInit
  <2>2. [ChosenNext]_<<vars, chosen>> => [Next]_vars
    BY DEF ChosenNext
  <2> QED
    BY <2>1, <2>2, PTL DEF ChosenSpec, Spec
<1>2. ChosenSpec => [](FullInv /\ CrashesCounted)
  <2>1. Spec => []FullInv
    BY LogInvariant, PTL DEF FullInv
  <2>2. Init => CrashesCounted
    BY DEF Init, CrashesCounted
  <2>3. Spec => []CrashesCounted
    BY <2>2, CrashesCountedStep, PTL DEF Spec
  <2> QED
    BY <1>1, <2>1, <2>3, PTL
<1>3. FullInv /\ FullInv' /\ CrashesCounted /\ ChosenInv /\ [ChosenNext]_<<vars, chosen>>
        => ChosenInv' /\ [Log!AbsNext]_(Log!absVars)
  <2> SUFFICES ASSUME FullInv, FullInv', CrashesCounted, ChosenInv, [ChosenNext]_<<vars, chosen>>
               PROVE  ChosenInv' /\ [Log!AbsNext]_(Log!absVars)
    OBVIOUS
  <2>1. CASE ChosenNext
    BY <2>1, ChosenStep
  <2>2. CASE UNCHANGED <<vars, chosen>>
    <3>1. chosen' = chosen /\ UNCHANGED <<volatile, network, elected, leaderLog>>
      BY <2>2 DEF vars
    <3>2. applied' = applied
      BY <3>1 DEF volatile
    <3>3. \A t : Safe(chosen, t) => Safe(chosen, t)'
      BY <3>1 DEF Safe, Committed, At, Acked, Majority, N, network
    <3> QED
      BY <3>1, <3>2, <3>3 DEF ChosenInv, Log!absVars
  <2> QED
    BY <2>1, <2>2
<1>4. ChosenInit => ChosenInv /\ Log!AbsInit
  BY ChosenStart
<1> QED
  BY <1>2, <1>3, <1>4, PTL DEF ChosenSpec, ImplementsLog, Log!AbsSpec

-----------------------------------------------------------------------------
(* What a step leaves of the logs. *)

(* The log of q loses nothing but what goes into a snapshot. *)
NothingLost(q) ==
  /\ lastIncludedIndex[q] <= lastIncludedIndex'[q]
  /\ getLastLogIdx(q) <= getLastLogIdx(q)'
  /\ \A i \in lastIncludedIndex'[q] + 1 .. getLastLogIdx(q) : getLog(q, i)' = getLog(q, i)

(* A log that did not change has lost nothing. *)
LEMMA SameLogLosesNothing ==
  ASSUME LogTypeOK, NEW q \in Server, SameLog(q)
  PROVE  NothingLost(q)
<1>1. lastIncludedIndex[q] \in Nat /\ getLastLogIdx(q) \in Nat
  BY LogShape
<1>2. lastIncludedIndex[q] <= lastIncludedIndex[q] /\ getLastLogIdx(q) <= getLastLogIdx(q)
  BY <1>1
<1> QED
  BY <1>2, SameLogFacts DEF NothingLost, SameLog

(* The log behind an index, cut off at the front, has lost nothing. *)
LEMMA CutLosesNothing ==
  ASSUME LogTypeOK, NEW s \in Server, NEW i \in lastIncludedIndex[s] + 1 .. getLastLogIdx(s),
         log' = [log EXCEPT ![s] = SubSeq(log[s], i - lastIncludedIndex[s] + 1, Len(log[s]))],
         lastIncludedIndex' = [lastIncludedIndex EXCEPT ![s] = i]
  PROVE  NothingLost(s)
<1>1. PICK base : base = lastIncludedIndex[s]
  OBVIOUS
<1>2. PICK last : last = getLastLogIdx(s)
  OBVIOUS
<1>3. PICK x : x = log[s]
  OBVIOUS
<1>4. PICK a : a = i - base + 1
  OBVIOUS
<1>5. PICK lg : lg = SubSeq(x, a, Len(x))
  OBVIOUS
<1>6. /\ base \in Nat /\ last \in Nat /\ x \in Seq(Entry) /\ Len(x) \in Nat
      /\ last = base + Len(x) - 1
  BY <1>1, <1>2, <1>3, LogShape
<1>7. i \in Nat /\ base < i /\ i <= last /\ a \in 1 .. Len(x) + 1
  BY SMTT(30), <1>1, <1>2, <1>4, <1>6
<1>8. /\ Len(lg) = Len(x) - a + 1
      /\ \A k \in 1 .. Len(x) - a + 1 : lg[k] = x[a + k - 1]
  BY <1>5, <1>6, <1>7, SuffixFacts
<1>9. log'[s] = lg /\ lastIncludedIndex'[s] = i
  BY <1>1, <1>3, <1>4, <1>5 DEF LogTypeOK
<1>10. getLastLogIdx(s)' = last
  <2>0. Len(lg) \in Int /\ i \in Int
    BY <1>6, <1>7, <1>8
  <2>1. logLen(s)' = Len(lg) + i /\ getLastLogIdx(s)' = logLen(s)' - 1
    BY <1>9 DEF getLastLogIdx, logLen
  <2> QED
    BY <1>4, <1>6, <1>7, <1>8, <2>0, <2>1
<1>11. \A j \in i + 1 .. last : getLog(s, j)' = getLog(s, j)
  <2> TAKE j \in i + 1 .. last
  <2>1. j - i + 1 \in 1 .. Len(x) - a + 1 /\ a + (j - i + 1) - 1 = j - base + 1
    BY <1>4, <1>6, <1>7
  <2>2. lg[j - i + 1] = x[j - base + 1]
    BY <1>8, <2>1
  <2> QED
    BY <1>1, <1>3, <1>9, <2>2 DEF getLog, EntryAt
<1>12. base <= i /\ last <= last
  BY <1>6, <1>7
<1> QED
  BY <1>1, <1>2, <1>9, <1>10, <1>11, <1>12 DEF NothingLost

(* Start() adds behind the log. *)
LEMMA StartLosesNothing ==
  ASSUME LogTypeOK, NEW s \in Server, NEW e,
         log' = [log EXCEPT ![s] = Append(log[s], e)], lastIncludedIndex' = lastIncludedIndex
  PROVE  NothingLost(s)
<1>1. PICK base : base = lastIncludedIndex[s]
  OBVIOUS
<1>2. PICK last : last = getLastLogIdx(s)
  OBVIOUS
<1>3. PICK x : x = log[s]
  OBVIOUS
<1>4. /\ base \in Nat /\ last \in Nat /\ x \in Seq(Entry) /\ Len(x) \in Nat
      /\ last = base + Len(x) - 1
  BY <1>1, <1>2, <1>3, LogShape
<1>5. log'[s] = Append(x, e) /\ lastIncludedIndex'[s] = base
  BY <1>1, <1>3 DEF LogTypeOK
<1>6. Len(Append(x, e)) = Len(x) + 1 /\ \A k \in 1 .. Len(x) : Append(x, e)[k] = x[k]
  BY <1>4
<1>7. last <= getLastLogIdx(s)'
  <2>1. getLastLogIdx(s)' = Len(Append(x, e)) + base - 1
    BY SMTT(30), <1>4, <1>5, <1>6 DEF getLastLogIdx, logLen
  <2> QED
    BY <1>4, <1>6, <2>1
<1>8. \A j \in base + 1 .. last : getLog(s, j)' = getLog(s, j)
  <2> TAKE j \in base + 1 .. last
  <2>1. j - base + 1 \in 1 .. Len(x)
    BY <1>4
  <2> QED
    BY <1>1, <1>3, <1>5, <1>6, <2>1 DEF getLog, EntryAt
<1>9. base <= base
  BY <1>4
<1> QED
  BY <1>1, <1>2, <1>5, <1>7, <1>8, <1>9 DEF NothingLost

(* InstallSnapshot keeps the suffix of a longer log, and where the log is   *)
(* shorter nothing of it is above the snapshot.                             *)
LEMMA InstallLosesNothing ==
  ASSUME FullInv, NEW m \in isReq, InstallSnapshot(m)
  PROVE  \A q \in Server : NothingLost(q)
<1>0. LogTypeOK /\ TypeOK /\ m.to \in Server
  BY DEF FullInv, Inv, LogInv, TypeOK
<1>1. PICK s \in Server : s = m.to
  BY <1>0
<1>2. PICK ii : ii = m.lastIncludedIndex
  OBVIOUS
<1>3. CASE ~(m.term >= currentTerm[s] /\ ii > lastIncludedIndex[s])
  <2>1. UNCHANGED <<log, lastIncludedIndex>>
    BY <1>1, <1>2, <1>3 DEF InstallSnapshot
  <2> QED
    BY <1>0, <2>1, SameLogLosesNothing DEF SameLog
<1>4. CASE m.term >= currentTerm[s] /\ ii > lastIncludedIndex[s]
  <2>1. /\ log' = [log EXCEPT ![s] = SnapshotLog(s, m)]
        /\ lastIncludedIndex' = [lastIncludedIndex EXCEPT ![s] = ii]
    BY <1>1, <1>2, <1>4 DEF InstallSnapshot
  <2>2. \A q \in Server \ {s} : SameLog(q)
    BY <1>0, <2>1 DEF LogTypeOK, SameLog
  <2>3. /\ ii \in Nat /\ lastIncludedIndex[s] \in Nat /\ getLastLogIdx(s) \in Nat
        /\ lastIncludedIndex[s] < ii
    BY <1>0, <1>2, <1>4, LogShape DEF LogTypeOK
  <2>4. CASE ii < getLastLogIdx(s)
    <3>1. log' = [log EXCEPT ![s] = SubSeq(log[s], ii - lastIncludedIndex[s] + 1, Len(log[s]))]
      BY <1>2, <2>1, <2>4 DEF SnapshotLog
    <3>2. ii \in lastIncludedIndex[s] + 1 .. getLastLogIdx(s)
      BY <2>3, <2>4
    <3>3. NothingLost(s)
      BY <1>0, <2>1, <3>1, <3>2, CutLosesNothing
    <3> QED
      BY <1>0, <2>2, <3>3, SameLogLosesNothing
  <2>5. CASE ~(ii < getLastLogIdx(s))
    <3>1. log'[s] = << [term |-> m.lastIncludedTerm, cmd |-> NoCommand] >> /\ lastIncludedIndex'[s] = ii
      BY <1>0, <1>2, <2>1, <2>5 DEF SnapshotLog, LogTypeOK
    <3>2. getLastLogIdx(s)' = ii
      <4>1. Len(log'[s]) = 1
        BY <3>1
      <4>2. getLastLogIdx(s)' = 1 + ii - 1
        BY <2>3, <3>1, <4>1 DEF getLastLogIdx, logLen
      <4> QED
        BY <2>3, <4>2
    <3>3. ii + 1 .. getLastLogIdx(s) = {} /\ getLastLogIdx(s) <= ii /\ lastIncludedIndex[s] <= ii
      BY <2>3, <2>5
    <3>4. NothingLost(s)
      BY <3>1, <3>2, <3>3 DEF NothingLost
    <3> QED
      BY <1>0, <2>2, <3>4, SameLogLosesNothing
  <2> QED
    BY <2>4, <2>5
<1> QED
  BY <1>3, <1>4
-----------------------------------------------------------------------------
(* Acknowledgements. *)

(* Every step but an accepted AppendEntries acknowledges nothing and loses  *)
(* nothing of any log.                                                      *)
LosesNothing ==
  /\ \A q \in Server : NothingLost(q)
  /\ \A r \in aeRep' : r \in aeRep \/ ~r.success

(* Where no log is written nothing is lost. *)
LEMMA NoLogWritten ==
  ASSUME LogTypeOK, UNCHANGED <<log, lastIncludedIndex, aeRep>>
  PROVE  LosesNothing
BY SameLogLosesNothing DEF LosesNothing, SameLog

(* A restart finds on disk what was in memory. *)
LEMMA RestartLosesNothing ==
  ASSUME FullInv, NEW s \in Server, Restart(s)
  PROVE  LosesNothing
<1>0. LogTypeOK /\ DiskCurrent
  BY DEF FullInv, LogInv
<1>1. /\ log' = [log EXCEPT ![s] = disk[s].log]
      /\ lastIncludedIndex' = [lastIncludedIndex EXCEPT ![s] = disk[s].lastIncludedIndex]
      /\ aeRep' = aeRep
  BY DEF Restart, RestartVolatile, readPersist, network
<1>2. UNCHANGED <<log, lastIncludedIndex>>
  BY <1>0, <1>1 DEF LogTypeOK, DiskCurrent
<1> QED
  BY <1>0, <1>1, <1>2, NoLogWritten

(* Of the steps, only AppendEntries may write over a log. *)
LEMMA WhatIsLost ==
  ASSUME FullInv, Next
  PROVE  LosesNothing \/ \E m \in aeReq : \E r : Accepts(m.to, m, r)
<1>0. LogTypeOK /\ TypeOK
  BY DEF FullInv, Inv, LogInv
<1>1. CASE UNCHANGED <<log, lastIncludedIndex, aeRep>>
  BY <1>0, <1>1, NoLogWritten
<1>2. CASE \E s \in Server : Restart(s)
  BY <1>2, RestartLosesNothing
<1>3. CASE \E s \in Server : MainLoop(s) \/ beCandidate(s)
  BY <1>1, <1>3 DEF MainLoop, beCandidate, persisted, network
<1>4. CASE \E s \in Server : \E e \in pending[s] : startElection(s, e)
  BY <1>1, <1>4 DEF startElection, persisted
<1>5. CASE \E m \in rvReq : RequestVote(m)
  BY <1>1, <1>5 DEF RequestVote
<1>6. CASE \E r \in rvRep : VoteReply(r)
  BY <1>1, <1>6 DEF VoteReply, VoteReplyStale, VoteReplyCounted, beFollower, persisted, network
<1>7. CASE \E s \in Server, c \in Command : Start(s, c)
  <2>1. PICK s \in Server, c \in Command : Start(s, c)
    BY <1>7
  <2>2. PICK e : e = [term |-> currentTerm[s], cmd |-> c]
    OBVIOUS
  <2>3. log' = [log EXCEPT ![s] = Append(log[s], e)] /\ UNCHANGED <<lastIncludedIndex, aeRep>>
    BY <2>1, <2>2 DEF Start, network
  <2>4. NothingLost(s)
    BY <1>0, <2>3, StartLosesNothing
  <2>5. \A q \in Server \ {s} : SameLog(q)
    BY <1>0, <2>3 DEF LogTypeOK, SameLog
  <2> QED
    BY <1>0, <2>3, <2>4, <2>5, SameLogLosesNothing DEF LosesNothing
<1>8. CASE \E s \in Server, p \in Server : AppendLoop(s, p) \/ sendSnapshot(s, p)
  BY <1>1, <1>8 DEF AppendLoop, sendSnapshot, persisted
<1>9. CASE \E m \in aeReq : AppendEntries(m)
  <2>1. PICK m \in aeReq : AppendEntries(m)
    BY <1>9
  <2>2. PICK s : s = m.to
    OBVIOUS
  <2>3. PICK r :
          /\ aeRep' = aeRep \cup {r}
          /\ r.argTerm = m.term /\ r.from = s /\ r.match = m.prevLogIndex + Len(m.entries)
          /\ r.conflictTerm \in Int /\ r.conflictIndex \in Nat /\ r.success \in BOOLEAN
          /\ IF r.success
             THEN /\ HasPrev(s, m) /\ currentTerm[s] <= m.term
                  /\ log' = [log EXCEPT ![s] = MergedLog(s, m)]
                  /\ \/ persist(s)
                     \/ /\ ~(m.term > currentTerm[s]) /\ ~(FirstNew(s, m) <= Len(m.entries))
                        /\ UNCHANGED disk
                  /\ IF m.leaderCommit > commitIndex[s]
                     THEN updateLastApplied(s, Min2(m.leaderCommit, Len(log'[s]) + lastIncludedIndex[s] - 1),
                                            log'[s], lastIncludedIndex[s])
                     ELSE UNCHANGED volatile
             ELSE /\ UNCHANGED <<log, volatile>>
                  /\ IF m.term > currentTerm[s] THEN persist(s) ELSE UNCHANGED disk
    BY <2>1, <2>2, AppendEntriesEffect
  <2>4. /\ UNCHANGED <<lastIncludedIndex, lastIncludedTerm, leading, rvReq, rvRep, aeReq,
                       isReq, isRep, elected, leaderLog>>
        /\ currentTerm' = [currentTerm EXCEPT ![s] = Max2(m.term, currentTerm[s])]
        /\ votedFor' = [votedFor EXCEPT ![s] = IF m.term > currentTerm[s] THEN NULL ELSE votedFor[s]]
        /\ state' = [state EXCEPT ![s] = IF m.term > currentTerm[s] THEN Follower ELSE state[s]]
    BY <2>1, <2>2, AppendEntriesEffect
  <2>5. CASE r.success
    BY <2>2, <2>3, <2>4, <2>5 DEF Accepts
  <2>6. CASE ~r.success
    <3>1. \A q \in Server : NothingLost(q)
      BY <1>0, <2>3, <2>4, <2>6, SameLogLosesNothing DEF SameLog
    <3> QED
      BY <2>3, <2>6, <3>1 DEF LosesNothing
  <2> QED
    BY <2>5, <2>6
<1>10. CASE \E r \in aeRep : AppendReply(r)
  BY <1>1, <1>10 DEF AppendReply, AppendReplyStale, AppendReplyOk, AppendReplyConflict, beFollower,
     persisted, network
<1>11. CASE \E s \in Server : \E i \in 1 .. lastApplied[s] : DoSnapShot(s, i)
  <2>1. PICK s \in Server : \E i \in 1 .. lastApplied[s] : DoSnapShot(s, i)
    BY <1>11
  <2>2. PICK i \in 1 .. lastApplied[s] : DoSnapShot(s, i)
    BY <2>1
  <2>3. /\ log' = [log EXCEPT ![s] = SubSeq(log[s], i - lastIncludedIndex[s] + 1, Len(log[s]))]
        /\ lastIncludedIndex' = [lastIncludedIndex EXCEPT ![s] = i]
        /\ i > lastIncludedIndex[s] /\ aeRep' = aeRep
    BY <2>2 DEF DoSnapShot, network
  <2>4. lastApplied[s] <= getLastLogIdx(s)
    BY DEF FullInv, LogInv, PeersKeepLogs, Serves
  <2>5. i \in lastIncludedIndex[s] + 1 .. getLastLogIdx(s)
    <3>1. lastIncludedIndex[s] \in Nat /\ getLastLogIdx(s) \in Nat /\ lastApplied[s] \in Nat
      BY <1>0, LogShape DEF LogTypeOK
    <3> QED
      BY <2>3, <2>4, <3>1
  <2>6. NothingLost(s)
    BY <1>0, <2>3, <2>5, CutLosesNothing
  <2>7. \A q \in Server \ {s} : SameLog(q)
    BY <1>0, <2>3 DEF LogTypeOK, SameLog
  <2> QED
    BY <1>0, <2>3, <2>6, <2>7, SameLogLosesNothing DEF LosesNothing
<1>12. CASE \E m \in isReq : InstallSnapshot(m)
  <2>1. PICK m \in isReq : InstallSnapshot(m)
    BY <1>12
  <2>2. aeRep' = aeRep
    BY <2>1 DEF InstallSnapshot
  <2> QED
    BY <2>1, <2>2, InstallLosesNothing DEF LosesNothing
<1>13. CASE \E r \in isRep : SnapshotReply(r)
  BY <1>1, <1>13 DEF SnapshotReply, beFollower, persisted, network
<1> QED
  BY <1>2, <1>3, <1>4, <1>5, <1>6, <1>7, <1>8, <1>9, <1>10, <1>11, <1>12, <1>13 DEF Next

(* An acknowledgement for the term a peer is in after a step was one before *)
(* it, for the term the peer was in.                                        *)
LEMMA AckOfThisTerm ==
  ASSUME FullInv, Inv', Monotone, NEW r \in aeRep, r.success, currentTerm'[r.from] = r.argTerm
  PROVE  currentTerm[r.from] = r.argTerm
<1>1. TypeOK /\ TypeOK' /\ LogTypeOK /\ AnswersLeader(r)
  BY DEF FullInv, Inv, LogInv, MessagesFromLeaders
<1>2. /\ r.from \in Server /\ currentTerm[r.from] \in Nat /\ r.argTerm \in Nat
      /\ currentTerm[r.from] <= currentTerm'[r.from]
  BY <1>1, TermNat DEF TypeOK, LogTypeOK, Monotone
<1>3. r.argTerm <= currentTerm[r.from]
  BY <1>1 DEF AnswersLeader
<1> QED
  BY <1>2, <1>3

(* The last index of a log is a number, also after a step. *)
LEMMA LastIdxNext ==
  ASSUME LogTypeOK', NEW q \in Server
  PROVE  getLastLogIdx(q)' \in Nat
<1>1. lastIncludedIndex'[q] \in Nat /\ log'[q] \in Seq(Entry) /\ Len(log'[q]) > 0
  BY DEF LogTypeOK
<1>2. Len(log'[q]) \in Nat
  BY <1>1, LenProperties
<1>3. logLen(q)' = Len(log'[q]) + lastIncludedIndex'[q] /\ getLastLogIdx(q)' = logLen(q)' - 1
  BY DEF logLen, getLastLogIdx
<1> QED
  BY <1>1, <1>2, <1>3

(* What was acknowledged from a log that loses nothing is still there. *)
LEMMA HoldsAckStays ==
  ASSUME FullInv, Inv', LogTypeOK', Monotone, NEW s \in Server, Grow(s),
         NEW r \in aeRep, HoldsAck(r), NothingLost(r.from)
  PROVE  HoldsAck(r)'
<1> SUFFICES ASSUME r.success, currentTerm'[r.from] = r.argTerm
             PROVE  /\ r.match <= getLastLogIdx(r.from)'
                    /\ \A i \in lastIncludedIndex'[r.from] + 1 .. r.match :
                         getLog(r.from, i)' = leaderLog'[r.argTerm][i]
  BY DEF HoldsAck
<1>1. PICK q : q = r.from
  OBVIOUS
<1>2. PICK n : n = r.match
  OBVIOUS
<1>3. PICK t : t = r.argTerm
  OBVIOUS
<1>4. LogTypeOK /\ AnswersLeader(r) /\ q \in Server
  BY <1>1 DEF FullInv, Inv, LogInv, MessagesFromLeaders, TypeOK
<1>5. t \in Term /\ n \in Nat /\ n <= Len(leaderLog[t]) /\ Len(leaderLog[t]) \in Nat
  BY <1>2, <1>3, <1>4, LeaderLogType DEF LogTypeOK, AnswersLeader
<1>6. /\ n <= getLastLogIdx(q)
      /\ \A i \in lastIncludedIndex[q] + 1 .. n : getLog(q, i) = leaderLog[t][i]
  BY <1>1, <1>2, <1>3, AckOfThisTerm DEF HoldsAck
<1>7. /\ lastIncludedIndex[q] \in Nat /\ lastIncludedIndex'[q] \in Nat
      /\ getLastLogIdx(q) \in Nat /\ getLastLogIdx(q)' \in Nat
  <2>1. getLastLogIdx(q)' \in Nat
    BY <1>4, LastIdxNext
  <2> QED
    BY <1>4, <2>1, LogShape DEF LogTypeOK
<1>8. /\ lastIncludedIndex[q] <= lastIncludedIndex'[q] /\ getLastLogIdx(q) <= getLastLogIdx(q)'
      /\ \A i \in lastIncludedIndex'[q] + 1 .. getLastLogIdx(q) : getLog(q, i)' = getLog(q, i)
  BY <1>1 DEF NothingLost
<1>9. \A i \in 1 .. Len(leaderLog[t]) : leaderLog'[t][i] = leaderLog[t][i]
  BY <1>4, <1>5, AtStays
<1>10. \A i \in lastIncludedIndex'[q] + 1 .. n : getLog(q, i)' = leaderLog'[t][i]
  <2> TAKE i \in lastIncludedIndex'[q] + 1 .. n
  <2>1. /\ i \in lastIncludedIndex[q] + 1 .. n
        /\ i \in lastIncludedIndex'[q] + 1 .. getLastLogIdx(q)
        /\ i \in 1 .. Len(leaderLog[t])
    BY <1>5, <1>6, <1>7, <1>8
  <2> QED
    BY <1>6, <1>8, <1>9, <2>1
<1>11. n <= getLastLogIdx(q)'
  BY <1>5, <1>6, <1>7, <1>8
<1> QED
  BY <1>1, <1>2, <1>3, <1>10, <1>11

(* Who accepts an AppendEntries holds what it acknowledges. *)
LEMMA AcceptedHolds ==
  ASSUME FullInv, NEW m \in aeReq, NEW s \in Server, NEW r, Accepts(s, m, r)
  PROVE  HoldsAck(r)'
<1>0. LogTypeOK
  BY DEF FullInv, LogInv
<1>1. PICK base : base = lastIncludedIndex[s]
  OBVIOUS
<1>2. PICK lg : lg = MergedLog(s, m)
  OBVIOUS
<1>3. PICK e : e = m.prevLogIndex + Len(m.entries)
  OBVIOUS
<1>4. /\ HasPrev(s, m) /\ currentTerm[s] <= m.term
      /\ UNCHANGED <<lastIncludedIndex, leaderLog>>
      /\ log' = [log EXCEPT ![s] = lg]
      /\ r.argTerm = m.term /\ r.from = s /\ r.match = e
  BY <1>2, <1>3 DEF Accepts
<1>5. Follows(lg, base, m)
  BY <1>1, <1>2, <1>4, MergedFollows
<1>6. base \in Nat
  BY <1>0, <1>1 DEF LogTypeOK
<1>7. /\ Len(lg) \in Nat /\ e <= base + Len(lg) - 1
      /\ \A j \in base + 1 .. e : EntryAt(lg, base, j) = leaderLog[m.term][j]
  BY <1>0, <1>3, <1>5, <1>6, FollowsFacts
<1>8. log'[s] = lg /\ lastIncludedIndex'[s] = base
  BY <1>0, <1>1, <1>4 DEF LogTypeOK
<1>9. getLastLogIdx(s)' = base + Len(lg) - 1
  <2>1. logLen(s)' = Len(lg) + base /\ getLastLogIdx(s)' = logLen(s)' - 1
    BY <1>8 DEF getLastLogIdx, logLen
  <2> QED
    BY <1>6, <1>7, <2>1
<1>10. \A j : getLog(s, j)' = EntryAt(lg, base, j)
  BY <1>8 DEF getLog, EntryAt
<1> QED
  BY <1>4, <1>7, <1>8, <1>9, <1>10 DEF HoldsAck

(* A peer that accepts an AppendEntries in its term keeps what it           *)
(* acknowledged in that term before: it agrees with the same leader there,  *)
(* and what is cut off disagrees.                                           *)
LEMMA AcksOutlastMerge ==
  ASSUME FullInv, NEW m \in aeReq, NEW s \in Server, HasPrev(s, m), currentTerm[s] <= m.term,
         FirstNew(s, m) <= Len(m.entries), NEW n \in Nat, n <= getLastLogIdx(s),
         n <= Len(leaderLog[m.term]),
         \A i \in lastIncludedIndex[s] + 1 .. n : getLog(s, i) = leaderLog[m.term][i]
  PROVE  n <= m.prevLogIndex + Len(m.entries)
<1>0. LogTypeOK /\ HasPiece(s)
  BY DEF FullInv, LogInv, PeersKeepLogs
<1>1. PICK base : base = lastIncludedIndex[s]
  OBVIOUS
<1>2. PICK last : last = getLastLogIdx(s)
  OBVIOUS
<1>3. PICK e : e = m.prevLogIndex + Len(m.entries)
  OBVIOUS
<1>4. PICK lt : lt = getLastLogTerm(s)
  OBVIOUS
<1>5. base \in Nat /\ last \in Nat /\ e \in Nat
  <2>1. m.prevLogIndex \in Nat /\ Len(m.entries) \in Nat
    BY <1>0, LenProperties DEF LogTypeOK
  <2> QED
    BY <1>0, <1>1, <1>2, <1>3, <2>1, LogShape
<1>6. PICK d \in Nat :
        /\ d < e /\ d <= last /\ base <= d
        /\ d < last => leaderLog[lt][d + 1].term # leaderLog[m.term][d + 1].term
  BY <1>1, <1>2, <1>3, <1>4, MergedNew
<1>7. \A i \in base + 1 .. last : getLog(s, i) = leaderLog[lt][i]
  BY <1>0, <1>1, <1>2, <1>4, PieceEntries DEF HasPiece
<1>8. ~(d < n)
  <2> SUFFICES ASSUME d < n PROVE FALSE
    OBVIOUS
  <2>1. d + 1 \in base + 1 .. last /\ d + 1 \in base + 1 .. n /\ d < last
    BY <1>2, <1>5, <1>6
  <2>2. getLog(s, d + 1) = leaderLog[lt][d + 1] /\ getLog(s, d + 1) = leaderLog[m.term][d + 1]
    BY <1>1, <1>7, <2>1
  <2> QED
    BY <1>6, <2>1, <2>2
<1> QED
  BY <1>3, <1>5, <1>6, <1>8

(* What was acknowledged is held after a step that loses nothing. *)
LEMMA AcksStay ==
  ASSUME FullInv, Inv', LogTypeOK', Monotone, NEW s \in Server, Grow(s),
         \A r \in aeRep : HoldsAck(r), LosesNothing
  PROVE  \A r \in aeRep' : HoldsAck(r)'
<1> SUFFICES ASSUME NEW r \in aeRep' PROVE HoldsAck(r)'
  OBVIOUS
<1>1. CASE r \in aeRep
  <2>1. r.from \in Server
    BY <1>1 DEF FullInv, Inv, TypeOK
  <2>2. NothingLost(r.from) /\ HoldsAck(r)
    BY <1>1, <2>1 DEF LosesNothing
  <2> QED
    BY <1>1, <2>2, HoldsAckStays
<1>2. CASE ~r.success
  BY <1>2 DEF HoldsAck
<1> QED
  BY <1>1, <1>2 DEF LosesNothing

(* What was acknowledged, and what is acknowledged now, is held after an    *)
(* accepted AppendEntries.                                                  *)
LEMMA AcksStayAccepted ==
  ASSUME FullInv, Inv', LogTypeOK', Monotone, NEW s \in Server, Grow(s),
         \A r \in aeRep : HoldsAck(r), NEW m \in aeReq, NEW a, Accepts(m.to, m, a)
  PROVE  \A r \in aeRep' : HoldsAck(r)'
<1> SUFFICES ASSUME NEW r \in aeRep' PROVE HoldsAck(r)'
  OBVIOUS
<1>1. PICK p : p = m.to
  OBVIOUS
<1>2. LogTypeOK /\ TypeOK /\ p \in Server /\ MessagesFromLeaders
  BY <1>1 DEF FullInv, Inv, LogInv, TypeOK
<1>3. Accepts(p, m, a)
  BY <1>1
<1>4. HoldsAck(a)'
  BY <1>2, <1>3, AcceptedHolds
<1>5. /\ HasPrev(p, m) /\ currentTerm[p] <= m.term /\ lastIncludedIndex' = lastIncludedIndex
      /\ log' = [log EXCEPT ![p] = MergedLog(p, m)] /\ aeRep' = aeRep \cup {a}
      /\ currentTerm' = [currentTerm EXCEPT ![p] = Max2(m.term, currentTerm[p])]
      /\ a.success /\ a.argTerm = m.term /\ a.from = p
      /\ a.match = m.prevLogIndex + Len(m.entries)
      /\ leaderLog' = leaderLog
  BY <1>3 DEF Accepts
<1>6. CASE r \in aeRep /\ SameLog(r.from)
  <2>1. r.from \in Server
    BY <1>2, <1>6 DEF TypeOK
  <2>2. NothingLost(r.from) /\ HoldsAck(r)
    BY <1>2, <1>6, <2>1, SameLogLosesNothing
  <2> QED
    BY <1>6, <2>2, HoldsAckStays
<1>7. CASE r \in aeRep /\ ~SameLog(r.from)
  <2> SUFFICES ASSUME r.success, currentTerm'[r.from] = r.argTerm PROVE HoldsAck(r)'
    BY DEF HoldsAck
  <2>1. r.from = p
    <3>1. r.from \in Server
      BY <1>2, <1>7 DEF TypeOK
    <3> QED
      BY <1>2, <1>5, <1>7, <3>1 DEF LogTypeOK, SameLog
  <2>2. FirstNew(p, m) <= Len(m.entries)
    <3>1. MergedLog(p, m) # log[p]
      BY <1>2, <1>5, <1>7, <2>1 DEF LogTypeOK, SameLog
    <3> QED
      BY <1>2, <1>5, <3>1, MergedNothing
  <2>3. r.argTerm = m.term /\ currentTerm[p] = m.term
    <3>1. currentTerm[p] \in Nat /\ m.term \in Nat
      BY <1>2, TermNat DEF TypeOK
    <3>2. currentTerm'[p] = m.term
      BY <1>2, <1>5, <3>1 DEF TypeOK, Max2
    <3>3. currentTerm[r.from] = r.argTerm
      BY <1>7, AckOfThisTerm
    <3> QED
      BY <2>1, <3>2, <3>3
  <2>4. PICK n : n = r.match
    OBVIOUS
  <2>5. n \in Nat /\ n <= Len(leaderLog[m.term])
    <3>1. AnswersLeader(r) /\ r.match \in Nat
      BY <1>2, <1>7 DEF MessagesFromLeaders, LogTypeOK
    <3> QED
      BY <2>3, <2>4, <3>1 DEF AnswersLeader
  <2>6. /\ n <= getLastLogIdx(p)
        /\ \A i \in lastIncludedIndex[p] + 1 .. n : getLog(p, i) = leaderLog[m.term][i]
    BY <1>7, <2>1, <2>3, <2>4 DEF HoldsAck
  <2>7. n <= a.match
    <3>1. n <= m.prevLogIndex + Len(m.entries)
      BY <1>2, <1>5, <2>2, <2>5, <2>6, AcksOutlastMerge
    <3> QED
      BY <1>5, <3>1
  <2>8. /\ a.match <= getLastLogIdx(p)'
        /\ \A i \in lastIncludedIndex'[p] + 1 .. a.match : getLog(p, i)' = leaderLog'[m.term][i]
    BY <1>4, <1>5, <2>1, <2>3 DEF HoldsAck
  <2>9. a.match \in Nat /\ getLastLogIdx(p)' \in Nat /\ lastIncludedIndex'[p] \in Nat
    <3>1. m.prevLogIndex \in Nat /\ Len(m.entries) \in Nat
      BY <1>2, LenProperties DEF LogTypeOK
    <3>2. getLastLogIdx(p)' \in Nat
      BY <1>2, LastIdxNext
    <3>3. a.match \in Nat
      BY <1>5, <3>1
    <3> QED
      BY <1>2, <3>2, <3>3 DEF LogTypeOK
  <2>10. n <= getLastLogIdx(p)'
    BY <2>5, <2>7, <2>8, <2>9
  <2>11. \A i \in lastIncludedIndex'[p] + 1 .. n : getLog(p, i)' = leaderLog'[m.term][i]
    <3> TAKE i \in lastIncludedIndex'[p] + 1 .. n
    <3>1. i \in lastIncludedIndex'[p] + 1 .. a.match
      BY <2>5, <2>7, <2>9
    <3> QED
      BY <2>8, <3>1
  <2> QED
    BY <2>1, <2>3, <2>4, <2>10, <2>11 DEF HoldsAck
<1>8. CASE r = a
  BY <1>4, <1>8
<1> QED
  BY <1>5, <1>6, <1>7, <1>8

-----------------------------------------------------------------------------
(* Refusals, snapshots and what a leader counts. *)

(* A refusal in the term of the request names an index past the first: the  *)
(* placeholder at index 0 matches every request that starts there.          *)
LEMMA RefusalHints ==
  ASSUME FullInv, NEW m \in aeReq, AppendEntries(m)
  PROVE  \A r \in aeRep' : r \in aeRep \/ HintsIndex(r)
<1>1. PICK s : s = m.to
  OBVIOUS
<1> DEFINE has   == m.prevLogIndex >= lastIncludedIndex[s] /\ m.prevLogIndex < logLen(s)
           mine  == IF has THEN getLog(s, m.prevLogIndex).term ELSE -1
           match == mine = m.prevLogTerm
           ok    == match /\ m.term = Max2(m.term, currentTerm[s])
           cTerm == IF match \/ ~has THEN -1 ELSE mine
           cIdx  == IF match THEN 0 ELSE IF has THEN FirstIndexOfTerm(s, mine) ELSE logLen(s)
<1>2. TypeOK /\ LogTypeOK /\ LeaderLogs /\ s \in Server /\ HasPiece(s) /\ AppendFromLeader(m)
  BY <1>1 DEF FullInv, Inv, LogInv, TypeOK, PeersKeepLogs, MessagesFromLeaders
<1>3. /\ m.term \in Nat /\ currentTerm[s] \in Nat /\ m.prevLogIndex \in Nat
      /\ lastIncludedIndex[s] \in Nat /\ getLastLogIdx(s) \in Nat /\ logLen(s) = getLastLogIdx(s) + 1
  BY <1>2, LogShape, TermNat DEF TypeOK, LogTypeOK
<1>4. PICK t : t = getLastLogTerm(s)
  OBVIOUS
<1>5. /\ t \in Term /\ getLastLogIdx(s) <= Len(leaderLog[t]) /\ Len(leaderLog[t]) \in Nat
      /\ \A i \in lastIncludedIndex[s] .. getLastLogIdx(s) :
           getLog(s, i).term = IF i = 0 THEN 0 ELSE leaderLog[t][i].term
  BY <1>2, <1>4, PieceEntries, LeaderLogType DEF HasPiece
<1>6. \A i \in lastIncludedIndex[s] .. getLastLogIdx(s) : getLog(s, i).term = 0 => i = 0
  <2> SUFFICES ASSUME NEW i \in lastIncludedIndex[s] .. getLastLogIdx(s), getLog(s, i).term = 0, i # 0
               PROVE  FALSE
    OBVIOUS
  <2>1. i \in 1 .. Len(leaderLog[t]) /\ leaderLog[t][i].term = 0
    BY <1>3, <1>5
  <2>2. leaderLog[t][i].term \in 1 .. t
    BY <1>2, <1>5, <2>1 DEF LeaderLogs
  <2> QED
    BY <2>1, <2>2
<1>7. ~match => cIdx > 0
  <2> SUFFICES ASSUME ~match PROVE cIdx > 0
    OBVIOUS
  <2>1. CASE has
    <3>1. m.prevLogIndex \in lastIncludedIndex[s] .. getLastLogIdx(s)
      BY <1>3, <2>1
    <3>2. PICK f : f = FirstIndexOfTerm(s, mine)
      OBVIOUS
    <3>3. f \in Nat /\ f \in lastIncludedIndex[s] .. getLastLogIdx(s) /\ getLog(s, f).term = mine
      BY <1>2, <2>1, <3>1, <3>2, FirstIndexOfTermFacts
    <3>4. mine # 0
      <4> SUFFICES ASSUME mine = 0 PROVE FALSE
        OBVIOUS
      <4>1. m.prevLogIndex = 0
        BY <1>6, <2>1, <3>1
      <4> QED
        BY <1>2, <4>1 DEF AppendFromLeader
    <3>5. f # 0
      <4> SUFFICES ASSUME f = 0 PROVE FALSE
        OBVIOUS
      <4> QED
        BY <1>5, <3>3, <3>4
    <3>6. f > 0
      BY <3>3, <3>5
    <3> QED
      BY <2>1, <3>2, <3>6
  <2>2. CASE ~has
    BY <1>3, <2>2
  <2> QED
    BY <2>1, <2>2
<1>8. aeRep' = aeRep \cup
           {[argTerm |-> m.term, term |-> Max2(m.term, currentTerm[s]), from |-> s, to |-> m.from,
             success |-> ok, match |-> m.prevLogIndex + Len(m.entries),
             conflictTerm |-> cTerm, conflictIndex |-> cIdx]}
  BY <1>1 DEF AppendEntries
<1>9. ~ok /\ Max2(m.term, currentTerm[s]) <= m.term => ~match
  BY <1>3 DEF Max2
<1> HIDE DEF ok, match, cIdx, cTerm
<1>10. PICK r : r = [argTerm |-> m.term, term |-> Max2(m.term, currentTerm[s]), from |-> s, to |-> m.from,
             success |-> ok, match |-> m.prevLogIndex + Len(m.entries),
             conflictTerm |-> cTerm, conflictIndex |-> cIdx]
  OBVIOUS
<1>11. HintsIndex(r)
  BY <1>7, <1>9, <1>10 DEF HintsIndex
<1> QED
  BY <1>8, <1>10, <1>11

(* No other step adds replies to AppendEntries. *)
LEMMA HintsStay ==
  ASSUME FullInv, Next, \A r \in aeRep : HintsIndex(r)
  PROVE  \A r \in aeRep' : HintsIndex(r)
<1>1. CASE \E m \in aeReq : AppendEntries(m)
  BY <1>1, RefusalHints
<1>2. CASE aeRep' = aeRep
  BY <1>2
<1>3. CASE \E s \in Server : Restart(s) \/ MainLoop(s) \/ beCandidate(s)
  BY <1>2, <1>3 DEF Restart, RestartVolatile, MainLoop, beCandidate, network
<1>4. CASE \E s \in Server : \E e \in pending[s] : startElection(s, e)
  BY <1>2, <1>4 DEF startElection
<1>5. CASE \E m : RequestVote(m) \/ InstallSnapshot(m)
  BY <1>2, <1>5 DEF RequestVote, InstallSnapshot
<1>6. CASE \E r : VoteReply(r) \/ AppendReply(r) \/ SnapshotReply(r)
  BY <1>2, <1>6 DEF VoteReply, VoteReplyStale, VoteReplyCounted, AppendReply, SnapshotReply, network
<1>7. CASE \E s \in Server, c \in Command : Start(s, c)
  BY <1>2, <1>7 DEF Start, network
<1>8. CASE \E s \in Server, p \in Server : AppendLoop(s, p) \/ sendSnapshot(s, p)
  BY <1>2, <1>8 DEF AppendLoop, sendSnapshot
<1>9. CASE \E s \in Server : \E i \in 1 .. lastApplied[s] : DoSnapShot(s, i)
  BY <1>2, <1>9 DEF DoSnapShot, network
<1> QED
  BY <1>1, <1>3, <1>4, <1>5, <1>6, <1>7, <1>8, <1>9 DEF Next

(* A leader accepts no AppendEntries of its own term. *)
LEMMA NoLeaderAccepts ==
  ASSUME FullInv, NEW m \in aeReq, NEW a, Accepts(m.to, m, a)
  PROVE  state'[m.to] # Leader
<1>1. PICK p : p = m.to
  OBVIOUS
<1>2. TypeOK /\ ElectionSafety /\ p \in Server /\ Leads(p) /\ AppendFromLeader(m)
  BY <1>1, OneLeaderPerTerm DEF FullInv, Inv, LogInv, TypeOK, PeersKeepLogs, MessagesFromLeaders
<1>3. /\ currentTerm[p] <= m.term
      /\ state' = [state EXCEPT ![p] = IF m.term > currentTerm[p] THEN Follower ELSE state[p]]
  BY <1>1 DEF Accepts
<1> SUFFICES ASSUME state'[p] = Leader PROVE FALSE
  BY <1>1
<1>4. state[p] = Leader /\ ~(m.term > currentTerm[p])
  BY <1>2, <1>3 DEF TypeOK
<1>5. currentTerm[p] = m.term
  <2>1. currentTerm[p] \in Nat /\ m.term \in Nat
    BY <1>2, TermNat DEF TypeOK
  <2> QED
    BY <1>3, <1>4, <2>1
<1>6. <<m.term, p>> \in elected /\ <<m.term, m.from>> \in elected /\ m.from # p
  BY <1>1, <1>2, <1>4, <1>5 DEF Leads, AppendFromLeader
<1> QED
  BY <1>2, <1>6 DEF ElectionSafety

(* Every step keeps what is known: snapshots only get longer, and a leader  *)
(* cuts nothing off its log.                                                *)
LEMMA BasesGrow ==
  ASSUME FullInv, Next
  PROVE  /\ \A q \in Server : lastIncludedIndex[q] <= lastIncludedIndex'[q]
         /\ \A q \in Server : state'[q] = Leader => getLastLogIdx(q) <= getLastLogIdx(q)'
<1>1. CASE LosesNothing
  BY <1>1 DEF LosesNothing, NothingLost
<1>2. CASE \E m \in aeReq : \E a : Accepts(m.to, m, a)
  <2>1. PICK m \in aeReq : \E a : Accepts(m.to, m, a)
    BY <1>2
  <2>2. PICK a : Accepts(m.to, m, a)
    BY <2>1
  <2>3. state'[m.to] # Leader
    BY <2>2, NoLeaderAccepts
  <2>4. LogTypeOK /\ lastIncludedIndex' = lastIncludedIndex /\ log' = [log EXCEPT ![m.to] = MergedLog(m.to, m)]
    BY <2>2 DEF Accepts, FullInv, LogInv
  <2>5. \A q \in Server : lastIncludedIndex[q] \in Nat /\ getLastLogIdx(q) \in Nat
    BY <2>4, LogShape
  <2>6. \A q \in Server \ {m.to} : SameLog(q)
    BY <2>4 DEF LogTypeOK, SameLog
  <2>7. \A q \in Server \ {m.to} : getLastLogIdx(q)' = getLastLogIdx(q)
    BY <2>6, SameLogFacts
  <2> QED
    BY <2>3, <2>4, <2>5, <2>7
<1> QED
  BY <1>1, <1>2, WhatIsLost

(* A snapshot is sent only by a leader that has one, and who answers it in  *)
(* its term has one then.                                                   *)
LEMMA SnapshotMessagesExist ==
  ASSUME FullInv, LogTypeOK', Next, SnapshotsExist
  PROVE  /\ \A m \in isReq' : m.lastIncludedIndex > 0
         /\ \A r \in isRep' : r.term <= r.argTerm => lastIncludedIndex'[r.from] > 0
<1>0. TypeOK /\ LogTypeOK
  BY DEF FullInv, Inv, LogInv
<1>1. /\ \A q \in Server : lastIncludedIndex[q] <= lastIncludedIndex'[q]
      /\ \A q \in Server : lastIncludedIndex[q] \in Nat /\ lastIncludedIndex'[q] \in Nat
  BY <1>0, BasesGrow DEF LogTypeOK
<1>2. \A r \in isRep : r.term <= r.argTerm => lastIncludedIndex'[r.from] > 0
  <2> SUFFICES ASSUME NEW r \in isRep, r.term <= r.argTerm PROVE lastIncludedIndex'[r.from] > 0
    OBVIOUS
  <2>1. r.from \in Server /\ lastIncludedIndex[r.from] > 0
    BY <1>0 DEF TypeOK, SnapshotsExist
  <2> QED
    BY <1>1, <2>1
<1>3. CASE UNCHANGED <<isReq, isRep>>
  BY <1>2, <1>3 DEF SnapshotsExist
<1>4. CASE \E s \in Server : Restart(s) \/ MainLoop(s) \/ beCandidate(s)
  BY <1>3, <1>4 DEF Restart, RestartVolatile, MainLoop, beCandidate, network
<1>5. CASE \E s \in Server : \E e \in pending[s] : startElection(s, e)
  BY <1>3, <1>5 DEF startElection
<1>6. CASE \E m : RequestVote(m) \/ AppendEntries(m)
  BY <1>3, <1>6 DEF RequestVote, AppendEntries
<1>7. CASE \E r : VoteReply(r) \/ AppendReply(r) \/ SnapshotReply(r)
  BY <1>3, <1>7 DEF VoteReply, VoteReplyStale, VoteReplyCounted, AppendReply, SnapshotReply, network
<1>8. CASE \E s \in Server, c \in Command : Start(s, c)
  BY <1>3, <1>8 DEF Start, network
<1>9. CASE \E s \in Server, p \in Server : AppendLoop(s, p)
  BY <1>3, <1>9 DEF AppendLoop
<1>10. CASE \E s \in Server : \E i \in 1 .. lastApplied[s] : DoSnapShot(s, i)
  BY <1>3, <1>10 DEF DoSnapShot, network
<1>11. CASE \E s \in Server, p \in Server : sendSnapshot(s, p)
  <2>1. PICK s \in Server, p \in Server : sendSnapshot(s, p)
    BY <1>11
  <2>2. PICK m : m = [term |-> currentTerm[s], from |-> s, to |-> p,
                      lastIncludedIndex |-> lastIncludedIndex[s],
                      lastIncludedTerm |-> lastIncludedTerm[s], data |-> disk[s].snapshot]
    OBVIOUS
  <2>3. isReq' = isReq \cup {m} /\ isRep' = isRep
    BY <2>1, <2>2 DEF sendSnapshot
  <2>4. m.lastIncludedIndex > 0
    <3>1. state[s] = Leader /\ nextIndex[s][p] - lastIncludedIndex[s] < 1
      BY <2>1 DEF sendSnapshot
    <3>2. nextIndex[s][p] \in Nat /\ nextIndex[s][p] > 0
      <4>1. nextIndex[s][p] \in Nat
        BY <1>0 DEF LogTypeOK
      <4> QED
        BY <3>1, <4>1 DEF SnapshotsExist
    <3>3. lastIncludedIndex[s] > 0
      BY <1>1, <3>1, <3>2
    <3> QED
      BY <2>2, <3>3
  <2> QED
    BY <1>2, <2>3, <2>4 DEF SnapshotsExist
<1>12. CASE \E m \in isReq : InstallSnapshot(m)
  <2>1. PICK m \in isReq : InstallSnapshot(m)
    BY <1>12
  <2>2. PICK s : s = m.to
    OBVIOUS
  <2>3. PICK r : r = [argTerm |-> m.term, term |-> currentTerm[s], from |-> s, to |-> m.from]
    OBVIOUS
  <2>4. isRep' = isRep \cup {r} /\ isReq' = isReq
    BY <2>1, <2>2, <2>3 DEF InstallSnapshot
  <2>5. s \in Server /\ m.term \in Nat /\ currentTerm[s] \in Nat /\ m.lastIncludedIndex \in Nat
    BY <1>0, <2>2, TermNat DEF TypeOK, LogTypeOK
  <2>6. m.lastIncludedIndex > 0
    BY DEF SnapshotsExist
  <2>7. r.term <= r.argTerm => lastIncludedIndex'[s] > 0
    <3> SUFFICES ASSUME r.term <= r.argTerm PROVE lastIncludedIndex'[s] > 0
      OBVIOUS
    <3>1. m.term >= currentTerm[s]
      BY <2>3, <2>5
    <3>2. CASE m.lastIncludedIndex > lastIncludedIndex[s]
      <4>1. lastIncludedIndex' = [lastIncludedIndex EXCEPT ![s] = m.lastIncludedIndex]
        BY <2>1, <2>2, <3>1, <3>2 DEF InstallSnapshot
      <4>2. lastIncludedIndex'[s] = m.lastIncludedIndex
        BY <1>0, <2>5, <4>1 DEF LogTypeOK
      <4> QED
        BY <2>6, <4>2
    <3>3. CASE ~(m.lastIncludedIndex > lastIncludedIndex[s])
      BY <1>1, <2>5, <2>6, <3>3
    <3> QED
      BY <3>2, <3>3
  <2> QED
    BY <1>2, <2>3, <2>4, <2>7 DEF SnapshotsExist
<1> QED
  BY <1>4, <1>5, <1>6, <1>7, <1>8, <1>9, <1>10, <1>11, <1>12 DEF Next

(* Only DoSnapShot() ends a snapshot at an index none has ended at before. *)
LEMMA IndicesFrom ==
  ASSUME FullInv, Next
  PROVE  \/ snaps' = snaps /\ SnapshotIndices' \subseteq SnapshotIndices
         \/ \E s \in Server : \E i \in 1 .. lastApplied[s] : DoSnapShot(s, i)
<1>0. TypeOK /\ LogTypeOK /\ DiskCurrent
  BY DEF FullInv, Inv, LogInv
<1>1. CASE UNCHANGED <<lastIncludedIndex, isReq, snaps>>
  BY <1>1 DEF SnapshotIndices
<1>2. CASE \E s \in Server : Restart(s)
  <2>1. PICK s \in Server : Restart(s)
    BY <1>2
  <2>2. lastIncludedIndex' = [lastIncludedIndex EXCEPT ![s] = disk[s].lastIncludedIndex]
    BY <2>1 DEF Restart, readPersist
  <2>3. UNCHANGED <<lastIncludedIndex, isReq, snaps>>
    BY <1>0, <2>1, <2>2 DEF Restart, RestartVolatile, network, LogTypeOK, DiskCurrent
  <2> QED
    BY <1>1, <2>3
<1>3. CASE \E s \in Server : MainLoop(s) \/ beCandidate(s)
  BY <1>1, <1>3 DEF MainLoop, beCandidate, persisted, network, bounds
<1>4. CASE \E s \in Server : \E e \in pending[s] : startElection(s, e)
  BY <1>1, <1>4 DEF startElection, persisted, bounds
<1>5. CASE \E m : RequestVote(m) \/ AppendEntries(m)
  BY <1>1, <1>5 DEF RequestVote, AppendEntries, bounds
<1>6. CASE \E r : VoteReply(r) \/ AppendReply(r) \/ SnapshotReply(r)
  BY <1>1, <1>6 DEF VoteReply, VoteReplyStale, VoteReplyCounted, AppendReply, AppendReplyStale,
     AppendReplyOk, AppendReplyConflict, SnapshotReply, beFollower, persisted, network, bounds
<1>7. CASE \E s \in Server, c \in Command : Start(s, c)
  BY <1>1, <1>7 DEF Start, network, bounds
<1>8. CASE \E s \in Server, p \in Server : AppendLoop(s, p)
  BY <1>1, <1>8 DEF AppendLoop, persisted, bounds
<1>9. CASE \E s \in Server, p \in Server : sendSnapshot(s, p)
  <2>1. PICK s \in Server, p \in Server : sendSnapshot(s, p)
    BY <1>9
  <2>2. PICK m : m = [term |-> currentTerm[s], from |-> s, to |-> p,
                      lastIncludedIndex |-> lastIncludedIndex[s],
                      lastIncludedTerm |-> lastIncludedTerm[s], data |-> disk[s].snapshot]
    OBVIOUS
  <2>3. isReq' = isReq \cup {m} /\ UNCHANGED <<lastIncludedIndex, snaps>>
    BY <2>1, <2>2 DEF sendSnapshot, persisted, bounds
  <2>4. m.lastIncludedIndex = lastIncludedIndex[s]
    BY <2>2
  <2> QED
    BY <2>3, <2>4 DEF SnapshotIndices
<1>10. CASE \E m \in isReq : InstallSnapshot(m)
  <2>1. PICK m \in isReq : InstallSnapshot(m)
    BY <1>10
  <2>2. \/ lastIncludedIndex' = lastIncludedIndex
        \/ lastIncludedIndex' = [lastIncludedIndex EXCEPT ![m.to] = m.lastIncludedIndex]
    BY <2>1 DEF InstallSnapshot
  <2>3. isReq' = isReq /\ snaps' = snaps
    BY <2>1 DEF InstallSnapshot, bounds
  <2>4. \A q \in Server : \/ lastIncludedIndex'[q] = lastIncludedIndex[q]
                           \/ lastIncludedIndex'[q] = m.lastIncludedIndex
    BY <1>0, <2>2 DEF LogTypeOK
  <2> QED
    BY <2>3, <2>4 DEF SnapshotIndices
<1> QED
  BY <1>2, <1>3, <1>4, <1>5, <1>6, <1>7, <1>8, <1>9, <1>10 DEF Next

(* While one compaction was made all snapshots end where it did. *)
LEMMA OneSnapshotStep ==
  ASSUME FullInv, Next, OneSnapshot
  PROVE  OneSnapshot' /\ snaps <= snaps'
<1>1. CASE snaps' = snaps /\ SnapshotIndices' \subseteq SnapshotIndices
  <2>1. snaps <= snaps
    BY DEF OneSnapshot
  <2> QED
    BY <1>1, <2>1 DEF OneSnapshot
<1>2. CASE \E s \in Server : \E i \in 1 .. lastApplied[s] : DoSnapShot(s, i)
  <2>1. PICK s \in Server : \E i \in 1 .. lastApplied[s] : DoSnapShot(s, i)
    BY <1>2
  <2>2. PICK i \in 1 .. lastApplied[s] : DoSnapShot(s, i)
    BY <2>1
  <2>3. /\ snaps' = snaps + 1 /\ isReq' = isReq
        /\ lastIncludedIndex' = [lastIncludedIndex EXCEPT ![s] = i]
    BY <2>2 DEF DoSnapShot, network
  <2>4. SnapshotIndices' \subseteq SnapshotIndices \cup {i}
    <3>1. \A q \in Server : lastIncludedIndex'[q] = lastIncludedIndex[q] \/ lastIncludedIndex'[q] = i
      BY <2>3 DEF FullInv, LogInv, LogTypeOK
    <3> QED
      BY <2>3, <3>1 DEF SnapshotIndices
  <2>5. snaps \in Nat
    BY DEF OneSnapshot
  <2>6. snaps' \in Nat /\ snaps' # 0 /\ snaps <= snaps' /\ (snaps' = 1 => snaps = 0)
    BY <2>3, <2>5
  <2>7. snaps' = 1 => \A j, k \in SnapshotIndices' \ {0} : j = k
    BY <2>4, <2>6 DEF OneSnapshot
  <2> QED
    BY <2>6, <2>7 DEF OneSnapshot
<1> QED
  BY <1>1, <1>2, IndicesFrom

(* With one compaction a peer that has a snapshot has that of every other. *)
LEMMA SameSnapshot ==
  ASSUME LogTypeOK, OneSnapshot, snaps <= 1, NEW s \in Server, NEW p \in Server, lastIncludedIndex[p] > 0
  PROVE  lastIncludedIndex[s] <= lastIncludedIndex[p]
<1>1. /\ lastIncludedIndex[s] \in SnapshotIndices /\ lastIncludedIndex[p] \in SnapshotIndices
      /\ lastIncludedIndex[s] \in Nat /\ lastIncludedIndex[p] \in Nat
  BY DEF LogTypeOK, SnapshotIndices
<1>2. snaps = 0 \/ snaps = 1
  BY DEF OneSnapshot
<1>3. lastIncludedIndex[s] = 0 \/ lastIncludedIndex[s] = lastIncludedIndex[p]
  BY <1>1, <1>2 DEF OneSnapshot
<1> QED
  BY <1>1, <1>3

(* What a leader sends and counts from: never the placeholder, and only     *)
(* what its peers hold.                                                     *)
Informed(s) ==
  state[s] = Leader =>
    \A p \in Server : nextIndex[s][p] > 0 /\ (snaps <= 1 => CountsHeld(s, p))

(* What a step does not take from a leader's counts: snapshots, replies and *)
(* its own log.                                                             *)
KeepsCounts ==
  /\ \A q \in Server : lastIncludedIndex[q] <= lastIncludedIndex'[q]
  /\ \A q \in Server : state'[q] = Leader => getLastLogIdx(q) <= getLastLogIdx(q)'
  /\ aeRep \subseteq aeRep'
  /\ snaps \in Nat /\ snaps' \in Nat /\ snaps <= snaps'

(* A leader whose counts a step leaves alone. *)
LEMMA InformedStays ==
  ASSUME LogTypeOK, LogTypeOK', KeepsCounts, NEW q \in Server, Informed(q),
         state'[q] = Leader => SameRole(q) /\ SameCounts(q)
  PROVE  Informed(q)'
<1> SUFFICES ASSUME state'[q] = Leader, NEW p \in Server
             PROVE  nextIndex'[q][p] > 0 /\ (snaps' <= 1 => CountsHeld(q, p)')
  BY DEF Informed
<1>1. /\ state[q] = Leader /\ currentTerm'[q] = currentTerm[q]
      /\ nextIndex'[q] = nextIndex[q] /\ matchIndex'[q] = matchIndex[q]
  BY DEF SameRole, SameCounts
<1>2. nextIndex[q][p] > 0 /\ (snaps <= 1 => CountsHeld(q, p))
  BY <1>1 DEF Informed
<1>3. /\ matchIndex[q][p] \in Nat /\ lastIncludedIndex[p] \in Nat /\ lastIncludedIndex'[p] \in Nat
      /\ getLastLogIdx(q) \in Nat /\ getLastLogIdx(q)' \in Nat
  <2>1. getLastLogIdx(q)' \in Nat
    BY LastIdxNext
  <2> QED
    BY <2>1, LogShape DEF LogTypeOK
<1>4. snaps' <= 1 => snaps <= 1
  BY DEF KeepsCounts
<1>5. CountsHeld(q, p) => CountsHeld(q, p)'
  <2>1. CASE p = q /\ matchIndex[q][p] <= getLastLogIdx(q)
    BY <1>1, <1>3, <2>1 DEF CountsHeld, KeepsCounts
  <2>2. CASE matchIndex[q][p] <= lastIncludedIndex[p]
    BY <1>1, <1>3, <2>2 DEF CountsHeld, KeepsCounts
  <2>3. CASE \E r \in aeRep : /\ r.success /\ r.from = p /\ r.argTerm = currentTerm[q]
                               /\ r.match = matchIndex[q][p]
    BY <1>1, <2>3 DEF CountsHeld, KeepsCounts
  <2> QED
    BY <2>1, <2>2, <2>3 DEF CountsHeld
<1> QED
  BY <1>1, <1>2, <1>4, <1>5

(* A new leader counts nothing. *)
LEMMA BeLeaderInforms ==
  ASSUME LogTypeOK, LogTypeOK', NEW s \in Server, beLeader(s)
  PROVE  Informed(s)'
<1>1. getLastLogIdx(s) \in Nat
  BY LogShape
<1>2. \A p \in Server : nextIndex'[s][p] = getLastLogIdx(s) + 1 /\ matchIndex'[s][p] = 0
  BY DEF beLeader, LogTypeOK
<1>3. \A p \in Server : nextIndex'[s][p] > 0
  BY <1>1, <1>2
<1>4. \A p \in Server : matchIndex'[s][p] <= lastIncludedIndex'[p]
  BY <1>2 DEF LogTypeOK
<1> QED
  BY <1>3, <1>4 DEF Informed, CountsHeld

(* updateNextMatchIdx() with an index the peer has acknowledged, or has in  *)
(* its snapshot.                                                            *)
LEMMA UpdateInforms ==
  ASSUME LogTypeOK, NEW s \in Server, NEW p \in Server, NEW x \in Nat, state[s] = Leader,
         updateNextMatchIdx(s, p, x), Informed(s),
         UNCHANGED <<state, currentTerm, log, lastIncludedIndex, aeRep, snaps>>,
         snaps <= 1 => \/ x <= lastIncludedIndex[p]
                       \/ \E r \in aeRep : /\ r.success /\ r.from = p /\ r.argTerm = currentTerm[s]
                                            /\ r.match = x
  PROVE  Informed(s)'
<1>1. PICK last : last = getLastLogIdx(s)
  OBVIOUS
<1>2. /\ matchIndex' = [matchIndex EXCEPT ![s] = [matchIndex[s] EXCEPT ![p] = x, ![s] = last]]
      /\ nextIndex' = [nextIndex EXCEPT ![s][p] = x + 1]
  BY <1>1 DEF updateNextMatchIdx
<1>3. matchIndex'[s][s] = last
  BY <1>2 DEF LogTypeOK
<1>4. p # s => matchIndex'[s][p] = x
  BY <1>2 DEF LogTypeOK
<1>5. \A q \in Server \ {s, p} : matchIndex'[s][q] = matchIndex[s][q]
  BY <1>2 DEF LogTypeOK
<1>6. \A q \in Server : nextIndex'[s][q] > 0
  <2>1. \A q \in Server : nextIndex[s][q] > 0
    BY DEF Informed
  <2>2. \A q \in Server : nextIndex'[s][q] = IF q = p THEN x + 1 ELSE nextIndex[s][q]
    BY <1>2 DEF LogTypeOK
  <2> QED
    BY <2>1, <2>2
<1>7. ASSUME snaps <= 1, NEW q \in Server PROVE CountsHeld(s, q)'
  <2>1. CASE q = s
    <3>1. last \in Nat /\ getLastLogIdx(s)' = last
      BY <1>1, LogShape DEF getLastLogIdx, logLen
    <3>2. last <= last
      BY <3>1
    <3> QED
      BY <1>3, <2>1, <3>1, <3>2 DEF CountsHeld
  <2>2. CASE q # s /\ q = p
    BY <1>4, <1>7, <2>2 DEF CountsHeld
  <2>3. CASE q # s /\ q # p
    <3>1. CountsHeld(s, q)
      BY <1>7 DEF Informed
    <3> QED
      BY <1>5, <2>3, <3>1 DEF CountsHeld
  <2> QED
    BY <2>1, <2>2, <2>3
<1> QED
  BY <1>6, <1>7 DEF Informed

(* Who is leader after the step was it before, in the same term and with    *)
(* the same counts.                                                         *)
LeadersUndisturbed == \A q \in Server : state'[q] = Leader => SameRole(q) /\ SameCounts(q)

(* So it is for all steps but those of a vote or reply that a peer counts,  *)
(* which touch one peer.                                                    *)
LEMMA WhoCounts ==
  ASSUME FullInv, Next
  PROVE  \/ LeadersUndisturbed
         \/ \E r \in rvRep : VoteReplyCounted(r.to, r) /\ beLeader(r.to)
         \/ \E r \in aeRep : AppendReply(r) /\ (AppendReplyOk(r.to, r) \/ AppendReplyConflict(r.to, r))
         \/ \E r \in isRep : SnapshotReply(r) /\ ~(r.term > currentTerm[r.to])
<1>0. TypeOK /\ LogTypeOK
  BY DEF FullInv, Inv, LogInv
<1>1. CASE UNCHANGED <<state, currentTerm, leading>>
  BY <1>1 DEF LeadersUndisturbed, SameRole, SameCounts, leading
<1>2. ASSUME NEW s \in Server, \A q \in Server \ {s} : SameRole(q), leading' = leading,
             state'[s] = Follower
      PROVE  LeadersUndisturbed
  BY <1>2 DEF LeadersUndisturbed, SameCounts, leading
<1>3. CASE \E s \in Server : Restart(s)
  <2>1. PICK s \in Server : Restart(s)
    BY <1>3
  <2>2. /\ state'[s] = Follower
        /\ \A q \in Server \ {s} : SameRole(q) /\ SameCounts(q)
    BY <1>0, <2>1 DEF Restart, RestartVolatile, readPersist, SameRole, SameCounts, TypeOK, LogTypeOK
  <2> QED
    BY <2>2 DEF LeadersUndisturbed
<1>4. CASE \E s \in Server : MainLoop(s)
  BY <1>1, <1>4 DEF MainLoop, persisted
<1>5. CASE \E s \in Server : beCandidate(s)
  <2>1. PICK s \in Server : beCandidate(s)
    BY <1>5
  <2>2. state'[s] = Candidate /\ leading' = leading /\ \A q \in Server \ {s} : SameRole(q)
    BY <1>0, <2>1 DEF beCandidate, SameRole, TypeOK
  <2> QED
    BY <2>2 DEF LeadersUndisturbed, SameCounts, leading
<1>6. CASE \E s \in Server : \E e \in pending[s] : startElection(s, e)
  BY <1>1, <1>6 DEF startElection, persisted
<1>7. ASSUME NEW s \in Server, NEW t \in Term, leading' = leading,
             currentTerm' = [currentTerm EXCEPT ![s] = Max2(t, currentTerm[s])],
             \/ t > currentTerm[s] /\ state' = [state EXCEPT ![s] = Follower]
             \/ state' = [state EXCEPT ![s] = IF t > currentTerm[s] THEN Follower ELSE state[s]]
             \/ state' = [state EXCEPT ![s] = Follower]
      PROVE  LeadersUndisturbed
  <2>1. \A q \in Server \ {s} : SameRole(q)
    BY <1>0, <1>7 DEF SameRole, TypeOK
  <2>2. CASE state'[s] = Follower
    BY <1>2, <1>7, <2>1, <2>2
  <2>3. CASE state'[s] # Follower
    <3>1. ~(t > currentTerm[s]) /\ state'[s] = state[s]
      BY <1>0, <1>7, <2>3 DEF TypeOK
    <3>2. t \in Nat /\ currentTerm[s] \in Nat
      BY <1>0, TermNat DEF TypeOK
    <3>3. Max2(t, currentTerm[s]) = currentTerm[s]
      BY <3>1, <3>2 DEF Max2
    <3>4. SameRole(s)
      BY <1>0, <1>7, <3>1, <3>3 DEF SameRole, TypeOK
    <3> QED
      BY <1>7, <2>1, <3>4 DEF LeadersUndisturbed, SameCounts, leading
  <2> QED
    BY <2>2, <2>3
<1>8. CASE \E m \in rvReq : RequestVote(m)
  <2>1. PICK m \in rvReq : RequestVote(m)
    BY <1>8
  <2>2. m.to \in Server /\ m.term \in Term
    BY <1>0 DEF TypeOK
  <2>3. /\ leading' = leading
        /\ currentTerm' = [currentTerm EXCEPT ![m.to] = Max2(m.term, currentTerm[m.to])]
        /\ \/ state' = [state EXCEPT ![m.to] = IF m.term > currentTerm[m.to] THEN Follower ELSE state[m.to]]
           \/ state' = [state EXCEPT ![m.to] = Follower]
    BY <2>1 DEF RequestVote
  <2> QED
    BY <1>7, <2>2, <2>3
<1>9. CASE \E m \in aeReq : AppendEntries(m)
  <2>1. PICK m \in aeReq : AppendEntries(m)
    BY <1>9
  <2>2. m.to \in Server /\ m.term \in Term
    BY <1>0 DEF TypeOK
  <2>3. /\ leading' = leading
        /\ currentTerm' = [currentTerm EXCEPT ![m.to] = Max2(m.term, currentTerm[m.to])]
        /\ state' = [state EXCEPT ![m.to] = IF m.term > currentTerm[m.to] THEN Follower ELSE state[m.to]]
    BY <2>1 DEF AppendEntries
  <2> QED
    BY <1>7, <2>2, <2>3
<1>10. CASE \E m \in isReq : InstallSnapshot(m)
  <2>1. PICK m \in isReq : InstallSnapshot(m)
    BY <1>10
  <2>2. m.to \in Server /\ m.term \in Term
    BY <1>0 DEF TypeOK
  <2>3. /\ leading' = leading
        /\ currentTerm' = [currentTerm EXCEPT ![m.to] = Max2(currentTerm[m.to], m.term)]
        /\ state' = [state EXCEPT ![m.to] = IF m.term > currentTerm[m.to] THEN Follower ELSE state[m.to]]
    BY <2>1 DEF InstallSnapshot
  <2>4. Max2(currentTerm[m.to], m.term) = Max2(m.term, currentTerm[m.to])
    <3>1. m.term \in Nat /\ currentTerm[m.to] \in Nat
      BY <1>0, <2>2, TermNat DEF TypeOK
    <3> QED
      BY <3>1 DEF Max2
  <2> QED
    BY <1>7, <2>2, <2>3, <2>4
<1>11. ASSUME NEW s \in Server, NEW t, beFollower(s, t), leading' = leading
       PROVE  LeadersUndisturbed
  <2>1. state'[s] = Follower /\ \A q \in Server \ {s} : SameRole(q)
    BY <1>0, <1>11 DEF beFollower, SameRole, TypeOK
  <2> QED
    BY <1>2, <1>11, <2>1
<1>12. CASE \E r \in rvRep : VoteReply(r)
  <2>1. PICK r \in rvRep : VoteReply(r)
    BY <1>12
  <2>2. r.to \in Server
    BY <1>0 DEF TypeOK
  <2>3. CASE VoteReplyStale(r.to, r)
    BY <1>11, <2>2, <2>3 DEF VoteReplyStale
  <2>4. CASE VoteReplyCounted(r.to, r)
    <3>1. beLeader(r.to) \/ UNCHANGED <<state, currentTerm, leading>>
      BY <2>4 DEF VoteReplyCounted, persisted
    <3> QED
      BY <1>1, <2>4, <3>1
  <2> QED
    BY <2>1, <2>3, <2>4 DEF VoteReply
<1>13. CASE \E s \in Server, c \in Command : Start(s, c)
  BY <1>1, <1>13 DEF Start
<1>14. CASE \E s \in Server, p \in Server : AppendLoop(s, p) \/ sendSnapshot(s, p)
  BY <1>1, <1>14 DEF AppendLoop, sendSnapshot, persisted
<1>15. CASE \E r \in aeRep : AppendReply(r)
  <2>1. PICK r \in aeRep : AppendReply(r)
    BY <1>15
  <2>2. r.to \in Server
    BY <1>0 DEF TypeOK
  <2>3. CASE AppendReplyStale(r.to, r)
    BY <1>11, <2>2, <2>3 DEF AppendReplyStale
  <2> QED
    BY <2>1, <2>3 DEF AppendReply
<1>16. CASE \E s \in Server : \E i \in 1 .. lastApplied[s] : DoSnapShot(s, i)
  BY <1>1, <1>16 DEF DoSnapShot
<1>17. CASE \E r \in isRep : SnapshotReply(r)
  <2>1. PICK r \in isRep : SnapshotReply(r)
    BY <1>17
  <2>2. r.to \in Server
    BY <1>0 DEF TypeOK
  <2>3. CASE r.term > currentTerm[r.to]
    <3>1. beFollower(r.to, r.term) /\ leading' = leading
      BY <2>1, <2>3 DEF SnapshotReply
    <3> QED
      BY <1>11, <2>2, <3>1
  <2> QED
    BY <2>1, <2>3
<1> QED
  BY <1>3, <1>4, <1>5, <1>6, <1>8, <1>9, <1>10, <1>12, <1>13, <1>14, <1>15, <1>16, <1>17 DEF Next

(* A counted vote, if it is the one that makes a leader. *)
LEMMA VoteInforms ==
  ASSUME FullInv, LogTypeOK', KeepsCounts, \A q \in Server : Informed(q),
         NEW r \in rvRep, VoteReplyCounted(r.to, r), beLeader(r.to)
  PROVE  \A q \in Server : Informed(q)'
<1>1. PICK s : s = r.to
  OBVIOUS
<1>2. TypeOK /\ LogTypeOK /\ s \in Server
  BY <1>1 DEF FullInv, Inv, LogInv, TypeOK
<1>3. Informed(s)'
  BY <1>1, <1>2, BeLeaderInforms
<1>4. \A q \in Server \ {s} : SameRole(q) /\ SameCounts(q)
  <2>1. beLeader(s) /\ UNCHANGED persisted
    BY <1>1 DEF VoteReplyCounted
  <2> QED
    BY <1>2, <2>1 DEF beLeader, persisted, SameRole, SameCounts, TypeOK, LogTypeOK
<1>5. \A q \in Server \ {s} : Informed(q)'
  BY <1>2, <1>4, InformedStays
<1> QED
  BY <1>3, <1>5

(* A reply to AppendEntries that the leader counts. *)
LEMMA ReplyInforms ==
  ASSUME FullInv, LogTypeOK', KeepsCounts, \A q \in Server : Informed(q), \A r \in aeRep : HintsIndex(r),
         NEW r \in aeRep, AppendReply(r), AppendReplyOk(r.to, r) \/ AppendReplyConflict(r.to, r)
  PROVE  \A q \in Server : Informed(q)'
<1>1. PICK s : s = r.to
  OBVIOUS
<1>2. PICK p : p = r.from
  OBVIOUS
<1>3. TypeOK /\ LogTypeOK /\ s \in Server /\ p \in Server
  BY <1>1, <1>2 DEF FullInv, Inv, LogInv, TypeOK
<1>4. /\ state[s] = Leader /\ currentTerm[s] = r.argTerm /\ r.term <= currentTerm[s]
      /\ UNCHANGED <<network, bounds>> /\ UNCHANGED <<state, persisted>>
  BY <1>1 DEF AppendReply, AppendReplyOk, AppendReplyConflict
<1>5. UNCHANGED <<state, currentTerm, log, lastIncludedIndex, aeRep, snaps>>
  BY <1>4 DEF persisted, network, bounds
<1>6. CASE AppendReplyOk(s, r)
  <2>1. r.success /\ updateNextMatchIdx(s, p, r.match) /\ r.match \in Nat
    BY <1>2, <1>3, <1>6 DEF AppendReplyOk, LogTypeOK
  <2>2. \E a \in aeRep : /\ a.success /\ a.from = p /\ a.argTerm = currentTerm[s]
                         /\ a.match = r.match
    BY <1>2, <1>4, <2>1
  <2>3. Informed(s)'
    BY <1>3, <1>4, <1>5, <2>1, <2>2, UpdateInforms
  <2>4. \A q \in Server \ {s} : SameRole(q) /\ SameCounts(q)
    BY <1>3, <1>5, <2>1 DEF updateNextMatchIdx, SameRole, SameCounts, LogTypeOK
  <2> QED
    BY <1>3, <2>3, <2>4, InformedStays
<1>7. CASE AppendReplyConflict(s, r)
  <2>1. PICK b : b = BackUp(s, r)
    OBVIOUS
  <2>2. b \in Nat /\ b > 0
    <3>1. ~r.success /\ r.term <= r.argTerm
      BY <1>4, <1>7 DEF AppendReplyConflict
    <3>2. r.conflictIndex > 0
      BY <3>1 DEF HintsIndex
    <3> QED
      BY <1>3, <2>1, <3>2, BackUpInLog
  <2>3. nextIndex' = [nextIndex EXCEPT ![s][p] = b] /\ matchIndex' = matchIndex
    BY <1>2, <1>7, <2>1 DEF AppendReplyConflict
  <2>4. \A q \in Server : nextIndex'[s][q] = IF q = p THEN b ELSE nextIndex[s][q]
    BY <1>3, <2>3 DEF LogTypeOK
  <2>5. Informed(s)'
    <3>1. \A q \in Server : nextIndex[s][q] > 0 /\ (snaps <= 1 => CountsHeld(s, q))
      BY <1>3, <1>4 DEF Informed
    <3>2. \A q \in Server : nextIndex'[s][q] > 0
      BY <2>2, <2>4, <3>1
    <3>3. \A q \in Server : CountsHeld(s, q) => CountsHeld(s, q)'
      BY <1>5, <2>3 DEF CountsHeld, getLastLogIdx, logLen
    <3> QED
      BY <1>5, <3>1, <3>2, <3>3 DEF Informed
  <2>6. \A q \in Server \ {s} : SameRole(q) /\ SameCounts(q)
    BY <1>3, <1>5, <2>3 DEF SameRole, SameCounts, LogTypeOK
  <2> QED
    BY <1>3, <2>5, <2>6, InformedStays
<1> QED
  BY <1>1, <1>6, <1>7

(* A reply to InstallSnapshot: the leader's last snapshot is the one the    *)
(* peer has.                                                                *)
LEMMA SnapshotReplyInforms ==
  ASSUME FullInv, LogTypeOK', KeepsCounts, \A q \in Server : Informed(q), SnapshotsExist, OneSnapshot,
         NEW r \in isRep, SnapshotReply(r), ~(r.term > currentTerm[r.to])
  PROVE  \A q \in Server : Informed(q)'
<1>1. PICK s : s = r.to
  OBVIOUS
<1>2. PICK p : p = r.from
  OBVIOUS
<1>3. /\ TypeOK /\ LogTypeOK /\ s \in Server /\ p \in Server
      /\ r.term \in Nat /\ currentTerm[s] \in Nat
  BY <1>1, <1>2, TermNat DEF FullInv, Inv, LogInv, TypeOK
<1>4. PICK x : x = lastIncludedIndex[s]
  OBVIOUS
<1>5. /\ state[s] = Leader /\ currentTerm[s] = r.argTerm
      /\ updateNextMatchIdx(s, p, x) /\ x \in Nat
      /\ UNCHANGED <<state, currentTerm, log, lastIncludedIndex, aeRep, snaps>>
  BY <1>1, <1>2, <1>3, <1>4 DEF SnapshotReply, persisted, network, bounds, LogTypeOK
<1>6. lastIncludedIndex[p] > 0
  <2>1. r.term <= r.argTerm
    BY <1>1, <1>3, <1>5
  <2> QED
    BY <1>2, <2>1 DEF SnapshotsExist
<1>7. snaps <= 1 => x <= lastIncludedIndex[p]
  BY <1>3, <1>4, <1>6, SameSnapshot
<1>8. Informed(s)'
  BY <1>3, <1>5, <1>7, UpdateInforms
<1>9. \A q \in Server \ {s} : SameRole(q) /\ SameCounts(q)
  BY <1>3, <1>5 DEF updateNextMatchIdx, SameRole, SameCounts, LogTypeOK
<1> QED
  BY <1>3, <1>8, <1>9, InformedStays

(* Every step keeps the counts honest. *)
LEMMA MatchNext ==
  ASSUME FullInv, FullInv', CrashesCounted, Monotone, MatchInv, Next
  PROVE  MatchInv'
<1>0. /\ LogTypeOK /\ LogTypeOK' /\ Inv' /\ SnapshotsExist /\ OneSnapshot
      /\ \A r \in aeRep : HoldsAck(r) /\ HintsIndex(r)
  BY DEF FullInv, LogInv, MatchInv
<1>1. PICK s \in Server : Grow(s)
  BY NextMoves DEF Moves
<1>2. \A r \in aeRep' : HoldsAck(r)'
  <2>1. CASE LosesNothing
    BY <1>0, <1>1, <2>1, AcksStay
  <2>2. CASE \E m \in aeReq : \E a : Accepts(m.to, m, a)
    BY <1>0, <1>1, <2>2, AcksStayAccepted
  <2> QED
    BY <2>1, <2>2, WhatIsLost
<1>3. \A r \in aeRep' : HintsIndex(r)'
  <2>1. \A r \in aeRep' : HintsIndex(r)
    BY <1>0, HintsStay
  <2> QED
    BY <2>1 DEF HintsIndex
<1>4. OneSnapshot' /\ snaps <= snaps'
  BY <1>0, OneSnapshotStep
<1>5. KeepsCounts
  BY <1>0, <1>1, <1>4, BasesGrow DEF KeepsCounts, Grow, OneSnapshot
<1>6. \A q \in Server : Informed(q)
  BY DEF MatchInv, SnapshotsExist, Informed
<1>7. \A q \in Server : Informed(q)'
  <2>1. CASE LeadersUndisturbed
    BY <1>0, <1>5, <1>6, <2>1, InformedStays DEF LeadersUndisturbed
  <2>2. CASE \E r \in rvRep : VoteReplyCounted(r.to, r) /\ beLeader(r.to)
    BY <1>0, <1>5, <1>6, <2>2, VoteInforms
  <2>3. CASE \E r \in aeRep : AppendReply(r) /\ (AppendReplyOk(r.to, r) \/ AppendReplyConflict(r.to, r))
    BY <1>0, <1>5, <1>6, <2>3, ReplyInforms
  <2>4. CASE \E r \in isRep : SnapshotReply(r) /\ ~(r.term > currentTerm[r.to])
    BY <1>0, <1>5, <1>6, <2>4, SnapshotReplyInforms
  <2> QED
    BY <2>1, <2>2, <2>3, <2>4, WhoCounts
<1>8. SnapshotsExist'
  <2>1. \A q, p \in Server : state'[q] = Leader => nextIndex'[q][p] > 0
    BY <1>7 DEF Informed
  <2> QED
    BY <1>0, <2>1, SnapshotMessagesExist DEF SnapshotsExist
<1>9. snaps' <= 1 => \A q, p \in Server : state'[q] = Leader => CountsHeld(q, p)'
  BY <1>7 DEF Informed
<1> QED
  BY <1>2, <1>3, <1>4, <1>8, <1>9 DEF MatchInv

(* Nothing is counted, acknowledged or compacted at first. *)
LEMMA MatchInit ==
  Init => MatchInv
<1> SUFFICES ASSUME Init PROVE MatchInv
  OBVIOUS
<1>1. aeRep = {} /\ isReq = {} /\ isRep = {} /\ snaps = 0
  BY DEF Init
<1>2. \A s \in Server : state[s] # Leader /\ lastIncludedIndex[s] = 0
  BY DEF Init
<1>3. SnapshotIndices \subseteq {0}
  BY <1>1, <1>2 DEF SnapshotIndices
<1> QED
  BY <1>1, <1>2, <1>3 DEF MatchInv, SnapshotsExist, OneSnapshot

(* A stuttering step changes nothing of it. *)
LEMMA StutterKeepsCounts ==
  ASSUME MatchInv, UNCHANGED vars
  PROVE  MatchInv'
<1>1. /\ UNCHANGED <<state, currentTerm, log, lastIncludedIndex, nextIndex, matchIndex, isReq, isRep>>
      /\ UNCHANGED <<aeRep, leaderLog, snaps>>
  BY DEF vars, persisted, leading, network, bounds
<1>2. \A r \in aeRep : (HoldsAck(r) => HoldsAck(r)') /\ (HintsIndex(r) => HintsIndex(r)')
  BY <1>1 DEF HoldsAck, HintsIndex, getLastLogIdx, logLen, getLog, EntryAt
<1>3. SnapshotsExist' /\ OneSnapshot'
  BY <1>1 DEF MatchInv, SnapshotsExist, OneSnapshot, SnapshotIndices
<1>4. \A s, p \in Server : CountsHeld(s, p) => CountsHeld(s, p)'
  BY <1>1 DEF CountsHeld, getLastLogIdx, logLen
<1> QED
  BY <1>1, <1>2, <1>3, <1>4 DEF MatchInv

(* Every reachable state keeps what the leader's counts rest on as well: a  *)
(* peer holds what it acknowledged in its term, refusals and snapshots name *)
(* real indices (AppendEntries, updateNextMatchIdx, sendSnapshot).          *)
THEOREM RaftInvHolds ==
  Spec => []RaftInv
<1>1. Spec => [](FullInv /\ CrashesCounted)
  <2>1. Spec => []FullInv
    BY LogInvariant, PTL DEF FullInv
  <2>2. Init => CrashesCounted
    BY DEF Init, CrashesCounted
  <2>3. Spec => []CrashesCounted
    BY <2>2, CrashesCountedStep, PTL DEF Spec
  <2> QED
    BY <2>1, <2>3, PTL
<1>2. FullInv /\ FullInv' /\ CrashesCounted /\ MatchInv /\ [Next]_vars => MatchInv'
  <2> SUFFICES ASSUME FullInv, FullInv', CrashesCounted, MatchInv, [Next]_vars PROVE MatchInv'
    OBVIOUS
  <2>1. CASE Next
    BY <2>1, MonotoneStep, MatchNext DEF FullInv
  <2>2. CASE UNCHANGED vars
    BY <2>2, StutterKeepsCounts
  <2> QED
    BY <2>1, <2>2
<1>3. FullInv /\ MatchInv => RaftInv
  BY DEF FullInv, RaftInv
<1> QED
  BY <1>1, <1>2, <1>3, MatchInit, PTL DEF Spec

(* What a leader counts for a peer of its term the peer holds. *)
LEMMA CountsAreHeld ==
  Inv /\ RaftInv => MatchIndexSoundOnceCompacted
<1> SUFFICES ASSUME Inv, RaftInv, snaps <= 1, NEW s \in Server, NEW p \in Server,
                    state[s] = Leader, currentTerm[p] = currentTerm[s]
             PROVE  /\ matchIndex[s][p] <= getLastLogIdx(p)
                    /\ \A i \in (Max2(lastIncludedIndex[s], lastIncludedIndex[p]) + 1) .. matchIndex[s][p] :
                          getLog(s, i) = getLog(p, i)
  BY DEF MatchIndexSoundOnceCompacted, MatchIndexSound
<1>1. PICK n : n = matchIndex[s][p]
  OBVIOUS
<1>2. PICK t : t = currentTerm[s]
  OBVIOUS
<1>3. PICK b : b = Max2(lastIncludedIndex[s], lastIncludedIndex[p])
  OBVIOUS
<1>4. LogTypeOK /\ MatchInv /\ Leads(s) /\ MessagesFromLeaders
  BY DEF RaftInv, LogInv, PeersKeepLogs
<1>5. /\ n \in Nat /\ lastIncludedIndex[s] \in Nat /\ lastIncludedIndex[p] \in Nat
      /\ getLastLogIdx(s) \in Nat /\ getLastLogIdx(p) \in Nat
      /\ lastIncludedIndex[p] <= getLastLogIdx(p)
  <2>1. n \in Nat
    BY <1>1, <1>4 DEF LogTypeOK
  <2>2. /\ lastIncludedIndex[p] \in Nat /\ Len(log[p]) \in Nat /\ Len(log[p]) > 0
        /\ getLastLogIdx(p) = lastIncludedIndex[p] + Len(log[p]) - 1
    BY <1>4, LogShape
  <2> QED
    BY <1>4, <2>1, <2>2, LogShape
<1>6. b \in Nat /\ b >= lastIncludedIndex[s] /\ b >= lastIncludedIndex[p]
  BY <1>3, <1>5 DEF Max2
<1>7. CountsHeld(s, p)
  BY <1>4 DEF MatchInv
<1>8. n <= getLastLogIdx(p) /\ \A i \in b + 1 .. n : getLog(s, i) = getLog(p, i)
  <2>1. CASE p = s /\ n <= getLastLogIdx(s)
    BY <2>1
  <2>2. CASE n <= lastIncludedIndex[p]
    <3>1. b + 1 .. n = {}
      BY <1>5, <1>6, <2>2
    <3> QED
      BY <1>5, <2>2, <3>1
  <2>3. CASE \E r \in aeRep : r.success /\ r.from = p /\ r.argTerm = t /\ r.match = n
    <3>1. PICK r \in aeRep : r.success /\ r.from = p /\ r.argTerm = t /\ r.match = n
      BY <2>3
    <3>2. /\ n <= getLastLogIdx(p)
          /\ \A i \in lastIncludedIndex[p] + 1 .. n : getLog(p, i) = leaderLog[t][i]
      BY <1>2, <1>4, <3>1 DEF MatchInv, HoldsAck
    <3>3. n <= Len(leaderLog[t])
      BY <1>4, <3>1 DEF MessagesFromLeaders, AnswersLeader
    <3>4. /\ Len(leaderLog[t]) = getLastLogIdx(s)
          /\ \A i \in lastIncludedIndex[s] + 1 .. getLastLogIdx(s) : getLog(s, i) = leaderLog[t][i]
      <4>1. PieceOf(t, lastIncludedIndex[s], log[s]) /\ Len(leaderLog[t]) = getLastLogIdx(s)
        BY <1>2, <1>4 DEF Leads
      <4> QED
        BY <1>4, <4>1, PieceEntries
    <3>5. ASSUME NEW i \in b + 1 .. n PROVE getLog(s, i) = getLog(p, i)
      <4>1. i \in lastIncludedIndex[p] + 1 .. n /\ i \in lastIncludedIndex[s] + 1 .. getLastLogIdx(s)
        BY <1>5, <1>6, <3>3, <3>4
      <4> QED
        BY <3>2, <3>4, <4>1
    <3> QED
      BY <3>2, <3>5
  <2> QED
    BY <1>1, <1>2, <1>7, <2>1, <2>2, <2>3 DEF CountsHeld
<1> QED
  BY <1>1, <1>3, <1>8

(* While the cluster has compacted at most once a leader's matchIndex tells *)
(* the truth (updateNextMatchIdx, SnapshotReply): a follower of its term    *)
(* holds the leader's entries up to it.                                     *)
THEOREM MatchIndexSoundOnceCompactedHolds ==
  Spec => []MatchIndexSoundOnceCompacted
BY RaftInvHolds, LogInvariant, CountsAreHeld, PTL
=============================================================================
