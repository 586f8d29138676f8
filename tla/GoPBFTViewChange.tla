--------------------------- MODULE GoPBFTViewChange --------------------------
(***************************************************************************)
(* The view change of goPBFT/replica.go: view-change, ack, new-view.       *)
(*                                                                         *)
(* The code that would ask for a view change is missing (the comment at    *)
(* requestViewChange says so): here the environment asks, and one faulty   *)
(* replica sends view-changes of its own.  A replica handles one message   *)
(* to its end; handleRequestAck waits for the two goroutines it starts, so *)
(* it is one action.  Messages arrive in any order, at most once.          *)
(*                                                                         *)
(* A digest stands for its message.  A new-view that is processed is as    *)
(* far as the model goes: NoNewView says that it does not come to that.    *)
(***************************************************************************)
EXTENDS Integers, Sequences, FiniteSets

CONSTANTS
  Replica,       \* the keys of rep.replicas, 0 .. N - 1
  Correct,       \* the replicas that run this code; the others send what they like
  Span,          \* CHECKPOINT_PERIOD * CONSTANT_FACTOR
  Logged,        \* rep.requests of view 0 per replica: clients (a set of digests) and
                 \* preprepares, prepares, commits (sequences)
  Asks,          \* bound: the replicas that ask for view 1
  FaultyChanges, \* view-changes of the faulty replica
  FaultyAcks     \* and its acks

VARIABLES
  view, activeView,
  log,           \* the entries of Logged that are left
  viewChanges,   \* rep.requests["view-change"]
  acks,          \* rep.requests["ack"]
  pendingVC,
  newViews,      \* the new-views sent, by replica
  panicked,      \* the replicas whose process ended
  net            \* [to, msg]

vars == <<view, activeView, log, viewChanges, acks, pendingVC, newViews, panicked, net>>

N == Cardinality(Replica)
newPrimary(v) == v % (N + 1)

(* Mutant of twoThirds: > for >=. *)
MoreThanTwoThirds(count) == count > (2 * N) \div 3

twoThirds(count) == count >= (2 * N) \div 3

oneThird(count)  == count >= (N + 1) \div 3

(* The digests that are not those of messages of this module. *)
NoDigest == [hash |-> "nil"]

(* The checkpoints of a replica are those of number 0 that newReplica and   *)
(* NewServer add: no other becomes stable (NeverClears of GoPBFT).          *)
Checkpoints  == {[sequence |-> 0, digest |-> [hash |-> "start"]]}
lowWaterMark == 0

(* Mutant of sequenceInRange: the low water mark is in range. *)
fromLowWaterMark(s) == s >= lowWaterMark /\ s <= lowWaterMark + Span

sequenceInRange(s) == s > lowWaterMark /\ s <= lowWaterMark + Span

Multicast(m) == {[to |-> p, msg |-> m] : p \in Replica}

(* The faulty replica's messages are under way from the start; those for no *)
(* replica of the table cannot be dialled.                                  *)
Init ==
  /\ view = [r \in Correct |-> 0] /\ activeView = [r \in Correct |-> TRUE]
  /\ log = Logged
  /\ viewChanges = [r \in Correct |-> {}] /\ acks = [r \in Correct |-> {}]
  /\ pendingVC = [r \in Correct |-> << >>] /\ newViews = {} /\ panicked = {}
  /\ net = (UNION {Multicast(m) : m \in FaultyChanges})
           \cup {[to |-> newPrimary(m.view), msg |-> m] : m \in FaultyAcks}

-----------------------------------------------------------------------------
(* prePrepBySequence: the pre-prepares of number s, of the newest view, if  *)
(* the request of each is known.                                            *)
Entry(e) == [sequence |-> e.sequence, digest |-> e.digest, view |-> e.view]
ElementsOf(q) == {q[i] : i \in DOMAIN q}

prePrepBySequence(lg, s) ==
  LET of     == {e \in ElementsOf(lg.preprepares) : e.sequence = s}
      newest == {e \in of : \A f \in of : f.view <= e.view}
  IN  IF \A e \in newest : e.digest \in lg.clients THEN {Entry(e) : e \in newest} ELSE {}

(* prepBySequence: prepared, when one replica's prepares fill the count;    *)
(* one entry that is not prepared hides them all.                           *)
prepBySequence(lg, s) ==
  LET agree(e, r) == {i \in DOMAIN lg.prepares : Entry(lg.prepares[i]) = e /\ lg.prepares[i].replica = r}
      prePreps    == prePrepBySequence(lg, s)
  IN  IF \A e \in prePreps : \E r \in Replica : twoThirds(Cardinality(agree(e, r))) THEN prePreps ELSE {}

(* clearRequestsByView: its loops delete by the index of the list they      *)
(* started with; the entries are all of view 0, so the second deletion, or  *)
(* a later one, is beyond the end.                                          *)
ClearPanics(lg) == \E q \in {lg.preprepares, lg.prepares, lg.commits} : Len(q) > 1
Cleared(lg) == [lg EXCEPT !.preprepares = << >>, !.prepares = << >>, !.commits = << >>]

(* The goroutine that sends may be too late when the process ends. *)
requestViewChange(r) ==
  LET numbers == lowWaterMark + 1 .. lowWaterMark + Span
      m == [type |-> "view-change", view |-> view[r] + 1, sequence |-> lowWaterMark, checkpoints |-> Checkpoints,
            preps |-> UNION {prepBySequence(log[r], s) : s \in numbers},
            prepreps |-> UNION {prePrepBySequence(log[r], s) : s \in numbers}, replica |-> r]
  IN  /\ r \in Asks \ panicked /\ view[r] = 0
      /\ view' = [view EXCEPT ![r] = @ + 1] /\ activeView' = [activeView EXCEPT ![r] = FALSE]
      /\ viewChanges' = [viewChanges EXCEPT ![r] = @ \cup {m}]
      /\ IF ClearPanics(log[r])
         THEN /\ panicked' = panicked \cup {r} /\ net' \in {net, net \cup Multicast(m)}
              /\ UNCHANGED log
         ELSE /\ log' = [log EXCEPT ![r] = Cleared(@)] /\ net' = net \cup Multicast(m)
              /\ UNCHANGED panicked
      /\ UNCHANGED <<acks, pendingVC, newViews>>

-----------------------------------------------------------------------------
Takes(r, m)   == [to |-> r, msg |-> m] \in net /\ r \in Correct \ panicked
Without(r, m) == net \ {[to |-> r, msg |-> m]}

Valid(m) ==
  /\ \A e \in m.preps \cup m.prepreps : e.view < m.view /\ sequenceInRange(e.sequence)
  /\ \A c \in m.checkpoints : sequenceInRange(c.sequence)

hasRequestViewChange(r, m) == \E x \in viewChanges[r] : x.view = m.view /\ x.replica = m.replica

(* The ack goes to the new primary, if there is such a replica. *)
handleRequestViewChange(r, m) ==
  LET ack == [type |-> "ack", view |-> m.view, replica |-> r, viewchanger |-> m.replica, digest |-> m]
  IN  /\ m.type = "view-change" /\ Takes(r, m)
      /\ IF m.view >= view[r] /\ Valid(m) /\ ~hasRequestViewChange(r, m)
         THEN /\ viewChanges' = [viewChanges EXCEPT ![r] = @ \cup {m}]
              /\ net' = Without(r, m) \cup
                   {x \in {[to |-> newPrimary(m.view), msg |-> ack]} : x.to \in Replica}
         ELSE net' = Without(r, m) /\ UNCHANGED viewChanges
      /\ UNCHANGED <<view, activeView, log, acks, pendingVC, newViews, panicked>>

-----------------------------------------------------------------------------
(* createNewView over the list pend: a summary for the last number at which *)
(* some prefix has view-changes that reach it and a checkpoint ...          *)
Count(pend, k, P(_)) == Cardinality({j \in 1 .. k : P(pend[j])})

Has(m, s, d) == [sequence |-> s, digest |-> d] \in m.checkpoints
Reached(pend, s, k) == twoThirds(Count(pend, k, LAMBDA m : m.sequence <= s))
(* ... whose digest is the last one counted in that prefix. *)
Counted(pend, s, k) ==
  {x \in (1 .. k) \X {c.digest : c \in UNION {m.checkpoints : m \in ElementsOf(pend)}} :
     Has(pend[x[1]], s, x[2]) /\ oneThird(Count(pend, x[1], LAMBDA m : Has(m, s, x[2])))}
Starts(pend, s) == {k \in DOMAIN pend : Reached(pend, s, k) /\ Counted(pend, s, k) # {}}

StartSummary(pend) ==
  {x \in [sequence : lowWaterMark + 1 .. lowWaterMark + Span,
          digest : {c.digest : c \in UNION {m.checkpoints : m \in ElementsOf(pend)}}] :
     /\ \E k \in Starts(pend, x.sequence) :
          /\ \A l \in Starts(pend, x.sequence) : k <= l
          /\ \E j \in 1 .. k : <<j, x.digest>> \in Counted(pend, x.sequence, k)
                               /\ \A y \in Counted(pend, x.sequence, k) : y[1] <= j
     /\ \A s \in x.sequence + 1 .. lowWaterMark + Span : Starts(pend, s) = {}}

(* ... and, from there on, one for each view-change that others bear out.   *)
BearsOut(m, x) ==   \* in A1
  /\ m.sequence < x.sequence
  /\ \A e \in m.preps : e.sequence = x.sequence => e.view < x.view \/ (e.view = x.view /\ e.digest = x)
Blocked(m, x) == m.sequence < x.sequence /\ ~BearsOut(m, x)
Proposes(m, x) ==   \* in A2
  ~Blocked(m, x) /\ \E e \in m.prepreps : e.sequence = x.sequence /\ e.view >= x.view /\ e.digest = x

BorneOut(pend, x) ==
  /\ twoThirds(Count(pend, Len(pend), LAMBDA m : BearsOut(m, x)))
  /\ oneThird(Count(pend, Len(pend), LAMBDA m : Proposes(m, x)))

MoreSummaries(pend, start) ==
  {[sequence |-> x.sequence, digest |-> x] :
     x \in {y \in ElementsOf(pend) : y.sequence \in start .. start + Span /\ BorneOut(pend, y)}}

(* The new-views createNewView can return for this list: none, or one.      *)
createNewView(r, v, pend) ==
  {[type |-> "new-view", view |-> v, viewChanges |-> pend, replica |-> r,
    summaries |-> {x} \cup MoreSummaries(pend, x.sequence)] : x \in StartSummary(pend)}

(* correctViewChanges: the first must be of the present view, and the       *)
(* primary wants some replica to have sent many acks.                       *)
correctViewChanges(r, pend, mine) ==
  /\ pend # << >> /\ pend[1].view = view[r]
  /\ r = newPrimary(view[r]) =>
       \E p \in Replica : twoThirds(Cardinality({a \in mine : a.replica = p}))

(* correctSummaries, for the starting checkpoint ...                        *)
MinOf(S) == CHOOSE s \in S : \A t \in S : s <= t

StartVerified(pend, x) ==
  /\ twoThirds(Count(pend, Len(pend), LAMBDA m : m.sequence <= x.sequence))
  /\ oneThird(Count(pend, Len(pend), LAMBDA m : Has(m, x.sequence, x.digest)))

(* ... and for each number's summary, with or without a digest. *)
NewestPrep(pend, x) ==
  LET views == {e.view : e \in {f \in UNION {m.preps : m \in ElementsOf(pend)} :
                                  f.sequence = x.sequence /\ f.digest = x.digest}}
  IN  IF views = {} THEN 0 ELSE CHOOSE v \in views : \A w \in views : w <= v

VerifiedA1(pend, x) ==
  LET v == NewestPrep(pend, x)
      agrees(m) == /\ m.sequence < x.sequence
                   /\ \A e \in m.preps : e.sequence = x.sequence =>
                        e.view < v \/ (e.view = v /\ e.digest = x.digest)
  IN  twoThirds(Count(pend, Len(pend), agrees))

VerifiedA2(pend, x) ==
  LET proposes(m) == \E e \in m.prepreps :
                       e.sequence = x.sequence /\ e.digest = x.digest /\ e.view >= NewestPrep(pend, x)
  IN  oneThird(Count(pend, Len(pend), proposes))

VerifiedNil(pend, x) ==
  LET silent(m) == m.sequence < x.sequence /\ \A e \in m.preps : e.sequence # x.sequence
  IN  twoThirds(Count(pend, Len(pend), silent))

correctSummaries(pend, summaries) ==
  LET start == MinOf({x.sequence : x \in summaries})
  IN  /\ \A x, y \in summaries : x.sequence = y.sequence => x = y
      /\ \E x \in summaries : x.sequence = start /\ StartVerified(pend, x)
      /\ \A s \in start .. start + Span : \E x \in summaries :
           /\ x.sequence = s
           /\ IF x.digest = NoDigest THEN VerifiedNil(pend, x) ELSE VerifiedA1(pend, x) /\ VerifiedA2(pend, x)

(* Mutant of processNewView: the summaries are not looked at. *)
trustNewView(r, nv, mine) == ~activeView[r] /\ correctViewChanges(r, nv.viewChanges, mine)

(* processNewView, up to the point where it processes. *)
processNewView(r, nv, mine) ==
  /\ ~activeView[r]
  /\ correctViewChanges(r, nv.viewChanges, mine)
  /\ correctSummaries(nv.viewChanges, nv.summaries)
  /\ \A x \in nv.summaries : x.sequence > lowWaterMark => x.digest \in viewChanges[r]
  /\ lowWaterMark >= MinOf({x.sequence : x \in nv.summaries})

hasRequestNewView(r, v) == \E x \in newViews : x.replica = r /\ x.view = v

(* The new-views, none or one, that requestNewView processes and sends. *)
requestNewView(r, v, pend, mine) ==
  {nv \in createNewView(r, v, pend) : ~hasRequestNewView(r, v) /\ processNewView(r, nv, mine)}

logPendingVC(r, m) == pendingVC' = [pendingVC EXCEPT ![r] = Append(@, m)]

(* Mutant of OthersAgree: the ack being handled counts as well. *)
AllAgree(a, mine) == {b \in mine : b.view = a.view /\ b.viewchanger = a.viewchanger /\ b.digest = a.digest}

OthersAgree(a, mine) ==
  {b \in mine : b.view = a.view /\ b.viewchanger = a.viewchanger /\ b.digest = a.digest /\ b.replica # a.replica}

hasRequestAck(r, a) == \E b \in acks[r] : b.view = a.view /\ b.replica = a.replica /\ b.viewchanger = a.viewchanger

(* Only the new primary counts acks, and without the one it handles; the    *)
(* view-change is the one it has of this view and viewchanger.              *)
handleRequestAck(r, a) ==
  LET mine  == acks[r] \cup {a}
      found == {m \in viewChanges[r] : m.view = a.view /\ m.replica = a.viewchanger}
      goes  == found # {} /\ twoThirds(Cardinality(OthersAgree(a, mine)))
  IN  /\ a.type = "ack" /\ Takes(r, a)
      /\ IF r # newPrimary(a.view) \/ hasRequestAck(r, a) THEN UNCHANGED acks
         ELSE acks' = [acks EXCEPT ![r] = mine]
      /\ IF acks'[r] # acks[r] /\ goes
         THEN \E m \in found :
                LET sent == requestNewView(r, a.view, Append(pendingVC[r], m), mine)
                IN  /\ logPendingVC(r, m)
                    /\ newViews' = newViews \cup sent
                    /\ activeView' = [activeView EXCEPT ![r] = @ \/ sent # {}]
         ELSE UNCHANGED <<pendingVC, newViews, activeView>>
      /\ net' = Without(r, a)
      /\ UNCHANGED <<view, log, viewChanges, panicked>>

Next ==
  \/ \E r \in Correct : requestViewChange(r)
  \/ \E x \in net : handleRequestViewChange(x.to, x.msg) \/ handleRequestAck(x.to, x.msg)

Spec == Init /\ [][Next]_vars

-----------------------------------------------------------------------------
(* replica.go:1027, newReplica: what a correct replica asks for, no other   *)
(* replica ever logs: its checkpoints always include the one of number 0,   *)
(* which is not in range.                                                   *)
ViewChangeUnheard == \A r \in Correct : \A m \in viewChanges[r] : m.replica \in Correct => m.replica = r

(* replica.go:1083: whatever is pending at a new primary, more than two     *)
(* thirds of the replicas acked a view-change of that view and replica,     *)
(* although the ack being handled is not counted and the threshold is       *)
(* rounded down.  The digest they agree on is not compared with what is     *)
(* pending: it is another one when a faulty replica sent two view-changes.  *)
Ackers(r, v, c, d) ==
  {p \in Replica : \E a \in acks[r] : a.replica = p /\ a.view = v /\ a.viewchanger = c /\ a.digest = d}

PendingBacked ==
  \A r \in Correct : \A m \in ElementsOf(pendingVC[r]) :
    \E d \in {a.digest : a \in acks[r]} : 3 * Cardinality(Ackers(r, m.view, m.replica, d)) > 2 * N

(* replica.go:1106: in whatever order the acks and the view-change itself   *)
(* arrive at the new primary, the view-change is pending once it has the    *)
(* acks of all correct replicas; an ack without the view-change is passed   *)
(* over, and nothing looks at it again but the acks that follow.            *)
AckedIsPending ==
  \A r \in Correct : \A a \in acks[r] :
    (\A p \in Correct : [a EXCEPT !.replica = p] \in acks[r]) => a.digest \in ElementsOf(pendingVC[r])

(* replica.go:1377, 1417: no new-view is ever processed or sent, however    *)
(* the primary has come to leave its view and whatever it has pending: the  *)
(* lowest summary is always above the lowest checkpoint.                    *)
NoNewView == newViews = {}

-----------------------------------------------------------------------------
(* What GoPBFTProofs shows of every reachable state, from what it asks of   *)
(* the table and of the faulty replicas' messages.                          *)
Ack(v, r, c, d) == [type |-> "ack", view |-> v, replica |-> r, viewchanger |-> c, digest |-> d]

FaultyAssumption ==
  /\ IsFiniteSet(Replica) /\ Correct \subseteq Replica /\ 3 * Cardinality(Correct) > 2 * N
  /\ Span \in Nat
  /\ \A m \in FaultyChanges : m.type = "view-change" /\ m.replica \notin Correct
  /\ \A a \in FaultyAcks : /\ a.replica \in Replica \ Correct
                           /\ a = Ack(a.view, a.replica, a.viewchanger, a.digest)

(* What correct replicas send: view-changes with the checkpoint of number   *)
(* 0, and acks of what they have.                                           *)
AckTrue(a) ==
  /\ a = Ack(a.view, a.replica, a.viewchanger, a.digest) /\ a.replica \in Replica
  /\ a.replica \in Correct => /\ a.digest \in viewChanges[a.replica]
                             /\ a.digest.view = a.view /\ a.digest.replica = a.viewchanger

SentTrue ==
  \A x \in net :
    /\ x.msg.type = "view-change" /\ x.msg.replica \in Correct => x.msg.checkpoints = Checkpoints
    /\ x.msg.type = "ack" => AckTrue(x.msg)

(* One view-change of a view and replica, one ack of a view, replica and    *)
(* view-changer.                                                            *)
LoggedOnce ==
  \A r \in Correct :
    /\ \A m, o \in viewChanges[r] : m.view = o.view /\ m.replica = o.replica => m = o
    /\ \A m \in viewChanges[r] : m.replica = r => view[r] # 0
    /\ IsFiniteSet(acks[r]) /\ \A a \in acks[r] : AckTrue(a)
    /\ \A a, b \in acks[r] :
         a.view = b.view /\ a.replica = b.replica /\ a.viewchanger = b.viewchanger => a = b
    /\ pendingVC[r] \in Seq(viewChanges[r])

ChangeInv ==
  /\ DOMAIN view = Correct /\ DOMAIN viewChanges = Correct
  /\ DOMAIN acks = Correct /\ DOMAIN pendingVC = Correct
  /\ SentTrue /\ LoggedOnce
  /\ ViewChangeUnheard /\ PendingBacked /\ AckedIsPending /\ NoNewView

(* What is pending was acked by more than two thirds and all that was so    *)
(* acked is pending, but a view change that a correct replica asks for is   *)
(* not heard and no new view ever begins.                                   *)
GoViewChangeStops ==
  ViewChangeUnheard /\ PendingBacked /\ AckedIsPending /\ NoNewView /\ ChangeInv
=============================================================================
