-------------------------------- MODULE PyPBFT --------------------------------
(***************************************************************************)
(* The asyncio PBFT node and client of PBFT/node.py and PBFT/client.py.    *)
(*                                                                         *)
(* A handler runs until it awaits, and others run meanwhile.  Most have    *)
(* nothing left to write after they have awaited a post and are one action *)
(* each.  Three go on, and what they leave undone is an element of net     *)
(* until they do: get_request awaits the body after it has looked whether  *)
(* it leads ("reading"), prepare a post for every slot of a message        *)
(* ("slots"), receive_sync one for every checkpoint it fills ("loop").     *)
(*                                                                         *)
(* _post drops a message at random, gives up after a timeout and goes to   *)
(* the nodes one by one: messages arrive in any order, at most once, or    *)
(* never.  A node that crashes is one that takes no further step.          *)
(***************************************************************************)
EXTENDS Integers, Sequences, FiniteSets

CONSTANTS
  N,          \* number of nodes, named 0 .. N-1
  Live,       \* bound: the nodes that run
  Lost,       \* bound: <<type, view, to>> of the messages that never arrive
  Interval,   \* checkpoint_interval
  Retry,      \* retry_times_before_view_change
  MaxSlot,    \* bound: slots 0 .. MaxSlot-1
  MaxView,    \* bound: views 0 .. MaxView
  MaxRequest, \* bound: _num_messages of the client
  MaxAttempt, \* bound: times the client sends, retries included
  MaxSync     \* bound: rounds of synchronize

VARIABLES
  followView,  \* _follow_view, which also gives _leader
  view,        \* _view, the view a leader proposes in
  isLeader,    \* _is_leader
  nextPropose, \* _next_propose_slot
  lastCommit,  \* _last_commit_slot
  status,      \* _status_by_slot
  ckpt,        \* next_slot and checkpoint of _ckpt
  ckptVotes,   \* _received_votes_by_ckpt
  vcVotes,     \* _view_change_votes_by_view_number
  syncs,       \* rounds of synchronize so far
  client,      \* the client's request, its attempts and the replies counted
  net          \* messages under way, and what handlers that await have left to do

nodeVars == <<followView, view, isLeader, nextPropose, lastCommit, status, ckpt,
              ckptVotes, vcVotes>>
vars == <<nodeVars, syncs, client, net>>

Node == 0 .. N - 1
Slot == 0 .. MaxSlot - 1
f    == (N - 1) \div 3

(* A request's time stamp is new at each attempt, and is part of what is    *)
(* hashed: an attempt stands for the proposal.                              *)
None == <<0, 0>>
NoOp == <<0, 1>>

(* Message from a node; view, slot and proposal where the type has them. *)
Msg(to, type, from, v, s, p) ==
  [to |-> to, type |-> type, from |-> from, view |-> v, slot |-> s, prop |-> p]
Posted(msgs) == {m \in msgs : m.to \in Live /\ <<m.type, m.view, m.to>> \notin Lost}
Post(type, from, v, s, p) == Posted({Msg(to, type, from, v, s, p) : to \in Node})
Left(m, type) == Msg(m.to, type, m.from, m.view, m.slot, m.prop)

-----------------------------------------------------------------------------
(* Status: the messages counted per view and proposal, and certificates. *)
NoStatus == [known |-> FALSE, prepares |-> {}, prepared |-> None, commits |-> {},
             committed |-> None, done |-> FALSE]

(* 2f+1 senders agree on view and proposal. *)
Majority(counted) ==
  \E c \in counted : Cardinality({d \in counted : d[1] = c[1] /\ d[2] = c[2]}) >= 2 * f + 1

Upperbound(k)     == k.next + 2 * Interval
_legal_slot(n, s) == s >= ckpt[n].next /\ s < Upperbound(ckpt[n])

Later(a, b) == IF a > b THEN a ELSE b

(* get_commit_decisions, from the checkpoint k up to slot l. *)
Decisions(st, k, l) == [i \in 1 .. Later(l + 1 - k.next, 0) |-> st[k.next + i - 1].committed]

(* A node's whole history: what _commit_action writes to the dump file. *)
Dump(n) == ckpt[n].log \o Decisions(status[n], ckpt[n], lastCommit[n])

(* The checkpoint vote for the decisions up to l. *)
Vote(n, st, k, l) == Post("ckpt_vote", n, 0, k.next + Interval, k.log \o Decisions(st, k, l))

FillsCheckpoint(l) == (l + 1) % Interval = 0

-----------------------------------------------------------------------------
NoCheckpoint == [next |-> 0, log |-> << >>]
IdleClient   == [req |-> 0, attempt |-> 0, failures |-> 0, dest |-> 0, replies |-> {}, ok |-> TRUE]

Init ==
  /\ followView = [n \in Node |-> 0]
  /\ view = [n \in Node |-> 0]
  /\ isLeader = [n \in Node |-> n = 0]
  /\ nextPropose = [n \in Node |-> 0]
  /\ lastCommit = [n \in Node |-> -1]
  /\ status = [n \in Node |-> [s \in Slot |-> NoStatus]]
  /\ ckpt = [n \in Node |-> NoCheckpoint]
  /\ ckptVotes = [n \in Node |-> << >>]
  /\ vcVotes = [n \in Node |-> [v \in 0 .. MaxView |-> [from |-> {}, certs |-> << >>]]]
  /\ syncs = 0
  /\ client = IdleClient
  /\ net = {}

-----------------------------------------------------------------------------
(* The client: request. *)
Request(c) == Posted({Msg(c.dest, "request", 0, 0, 0, <<c.req, c.attempt>>)})

NextRequest ==
  LET c == [req |-> client.req + 1, attempt |-> 1, failures |-> 0, dest |-> 0,
            replies |-> {}, ok |-> FALSE]
  IN  /\ client.ok /\ client.req < MaxRequest
      /\ client' = c
      /\ net' = net \cup Request(c)
      /\ UNCHANGED <<nodeVars, syncs>>

(* No success in time, or the post failed: a new time stamp, replies are    *)
(* counted anew, and every Retry failures the nodes are asked to change the *)
(* view and another node is addressed.                                      *)
Resend ==
  LET change == client.failures + 1 = Retry
      c == [client EXCEPT !.attempt = @ + 1, !.replies = {},
                          !.failures = IF change THEN 0 ELSE @ + 1,
                          !.dest = IF change THEN (@ + 1) % N ELSE @]
  IN  /\ ~client.ok /\ client.attempt < MaxAttempt
      /\ client' = c
      /\ net' = net \cup Request(c)
                    \cup (IF change THEN Post("view_change", 0, 0, 0, None) ELSE {})
      /\ UNCHANGED <<nodeVars, syncs>>

(* Mutant of Succeeds: one reply is enough. *)
SucceedsEarly(replies) == replies # {}

(* f+1 nodes replied in one view. *)
Succeeds(replies) ==
  \E c \in replies : Cardinality({d \in replies : d[1] = c[1] /\ d[2] = c[2]}) >= f + 1

(* A reply counts for the request it names; one whose time stamp is too old *)
(* is dropped, which here is a reply that never arrives.                    *)
get_reply(m) ==
  LET counted == client.replies \cup {<<m.view, m.prop, m.from>>}
  IN  /\ m.type = "reply" /\ m.prop[1] = client.req
      /\ client' = [client EXCEPT !.replies = counted, !.ok = @ \/ Succeeds(counted)]
      /\ net' = net \ {m}
      /\ UNCHANGED <<nodeVars, syncs>>

-----------------------------------------------------------------------------
(* A node that does not lead redirects to the leader of the view it         *)
(* follows, one that does awaits the rest of the request.                   *)
get_request(n, m) ==
  /\ m.type = "request" /\ m.to = n
  /\ net' = (net \ {m}) \cup
            (IF isLeader[n] THEN {Left(m, "reading")}
             ELSE Posted({[m EXCEPT !.to = followView[n] % N]} \ {m}))
  /\ UNCHANGED <<nodeVars, syncs, client>>

(* It may not lead any more by then. *)
preprepare(n, m) ==
  LET s == nextPropose[n]
  IN  /\ m.type = "reading" /\ m.to = n /\ s \in Slot
      /\ nextPropose' = [nextPropose EXCEPT ![n] = s + 1]
      /\ status' = [status EXCEPT ![n][s].known = TRUE]
      /\ net' = (net \ {m}) \cup Post("preprepare", n, view[n], s, m.prop)
      /\ UNCHANGED <<followView, view, isLeader, lastCommit, ckpt, ckptVotes, vcVotes, syncs, client>>

(* The early returns of the three phases. *)
Current(n, m) == m.view >= followView[n]

(* The slots that came with m: the view is compared before the first one. *)
Rest(m) ==
  {k \in net : /\ k.type = "more" /\ k.to = m.to /\ k.from = m.from
               /\ k.view = m.view /\ k.slot > m.slot}

prepare(n, m) ==
  LET reads == m.type = "slots" \/ Current(n, m)
      rest  == IF m.type = "preprepare" THEN Rest(m) ELSE {}
      left  == (net \ ({m} \cup rest)) \cup (IF reads THEN {Left(k, "slots") : k \in rest} ELSE {})
  IN  /\ m.type \in {"preprepare", "slots"} /\ m.to = n
      /\ IF reads /\ _legal_slot(n, m.slot)
         THEN /\ status' = [status EXCEPT ![n][m.slot].known = TRUE]
              /\ net' = left \cup Post("prepare", n, m.view, m.slot, m.prop)
         ELSE net' = left /\ UNCHANGED status
      /\ UNCHANGED <<followView, view, isLeader, nextPropose, lastCommit, ckpt, ckptVotes, vcVotes,
                     syncs, client>>

(* Once there is a prepare certificate every further prepare replaces it,   *)
(* and is answered with a commit of its own view and proposal.              *)
commit(n, m) ==
  LET old == status[n][m.slot]
      new == [old EXCEPT !.known = TRUE, !.prepares = @ \cup {<<m.view, m.prop, m.from>>}]
      got == old.prepared # None \/ Majority(new.prepares)
  IN  /\ m.type = "prepare" /\ m.to = n
      /\ IF Current(n, m) /\ _legal_slot(n, m.slot)
         THEN /\ status' = [status EXCEPT ![n][m.slot] =
                              IF got THEN [new EXCEPT !.prepared = m.prop] ELSE new]
              /\ net' = (net \ {m}) \cup
                        (IF got THEN Post("commit", n, m.view, m.slot, m.prop) ELSE {})
         ELSE net' = net \ {m} /\ UNCHANGED status
      /\ UNCHANGED <<followView, view, isLeader, nextPropose, lastCommit, ckpt, ckptVotes, vcVotes,
                     syncs, client>>

(* The commit certificate is set once; the slot is committed, and the       *)
(* client answered, only if no slot before it is open.                      *)
reply(n, m) ==
  LET old  == status[n][m.slot]
      new  == [old EXCEPT !.known = TRUE, !.commits = @ \cup {<<m.view, m.prop, m.from>>}]
      cert == old.committed = None /\ Majority(new.commits)
      goes == cert /\ lastCommit[n] = m.slot - 1 /\ ~old.done
      st   == [status[n] EXCEPT ![m.slot] =
                 IF cert THEN [new EXCEPT !.committed = m.prop, !.done = @ \/ goes] ELSE new]
  IN  /\ m.type = "commit" /\ m.to = n
      /\ IF Current(n, m) /\ _legal_slot(n, m.slot)
         THEN /\ status' = [status EXCEPT ![n] = st]
              /\ lastCommit' = [lastCommit EXCEPT ![n] = IF goes THEN m.slot ELSE @]
              /\ net' = (net \ {m}) \cup
                   (IF goes THEN Posted({Msg(n, "reply", n, m.view, m.slot, m.prop)}) ELSE {}) \cup
                   (IF goes /\ FillsCheckpoint(m.slot) THEN Vote(n, st, ckpt[n], m.slot) ELSE {})
         ELSE net' = net \ {m} /\ UNCHANGED <<status, lastCommit>>
      /\ UNCHANGED <<followView, view, isLeader, nextPropose, ckpt, ckptVotes, vcVotes, syncs, client>>

-----------------------------------------------------------------------------
(* CheckPoint.receive_vote: votes are counted per checkpoint, whose number  *)
(* is that of its first vote.  last_commit_slot is left behind.             *)
receive_ckpt_vote(n, m) ==
  LET old   == ckptVotes[n]
      entry == IF m.prop \in DOMAIN old THEN [old[m.prop] EXCEPT !.from = @ \cup {m.from}]
               ELSE [next |-> m.slot, from |-> {m.from}]
      goes  == entry.next > ckpt[n].next /\ Cardinality(entry.from) >= 2 * f + 1
  IN  /\ m.type = "ckpt_vote" /\ m.to = n
      /\ ckptVotes' = [ckptVotes EXCEPT ![n] =
           [log \in DOMAIN old \cup {m.prop} |-> IF log = m.prop THEN entry ELSE old[log]]]
      /\ ckpt' = [ckpt EXCEPT ![n] = IF goes THEN [next |-> entry.next, log |-> m.prop] ELSE @]
      /\ net' = net \ {m}
      /\ UNCHANGED <<followView, view, isLeader, nextPropose, lastCommit, status, vcVotes, syncs, client>>

(* One round of the synchronize loop: the checkpoint and the commit         *)
(* certificates above it.                                                   *)
synchronize(n) ==
  LET certs == {s \in Slot : _legal_slot(n, s) /\ status[n][s].committed # None}
  IN  /\ syncs < MaxSync /\ syncs' = syncs + 1
      /\ net' = net \cup Post("sync", n, 0, ckpt[n], [s \in certs |-> status[n][s].committed])
      /\ UNCHANGED <<nodeVars, client>>

(* Mutant of Advance: the slot after the last one is taken without looking. *)
AdvanceBlindly(st, l) == IF l + 1 \in DOMAIN st THEN l + 1 ELSE l

(* The while loop of receive_sync from slot l on: up to the first open slot *)
(* or the first that fills a checkpoint.                                    *)
Advance(st, l) ==
  CHOOSE k \in {l} \cup l + 1 .. MaxSlot - 1 :
    /\ \A s \in l + 1 .. k : st[s].committed # None
    /\ \A s \in l + 1 .. k - 1 : ~FillsCheckpoint(s)
    /\ \/ k > l /\ FillsCheckpoint(k)
       \/ k + 1 \in DOMAIN st => st[k + 1].committed = None

(* One stretch of it: where a checkpoint is filled, a vote is posted, and   *)
(* the loop goes on from whatever checkpoint and slot are the last by then. *)
Loop(n, m, k, st, l) ==
  LET l2 == Advance(st, l)
  IN  /\ lastCommit' = [lastCommit EXCEPT ![n] = l2]
      /\ net' = (net \ {m}) \cup
                (IF l2 > l /\ FillsCheckpoint(l2)
                 THEN Vote(n, st, k, l2) \cup {Msg(n, "loop", m.from, 0, 0, None)}
                 ELSE {})

Newer(k, other) == IF other.next > k.next THEN other ELSE k

receive_sync(n, m) ==
  LET k  == Newer(ckpt[n], m.slot)
      st == [s \in Slot |->
               IF s \in DOMAIN m.prop /\ s >= k.next /\ s < Upperbound(k) /\ status[n][s].committed = None
               THEN [status[n][s] EXCEPT !.known = TRUE, !.committed = m.prop[s]]
               ELSE status[n][s]]
  IN  /\ m.type = "sync" /\ m.to = n
      /\ ckpt' = [ckpt EXCEPT ![n] = k]
      /\ status' = [status EXCEPT ![n] = st]
      /\ Loop(n, m, k, st, Later(lastCommit[n], k.next - 1))
      /\ UNCHANGED <<followView, view, isLeader, nextPropose, ckptVotes, vcVotes, syncs, client>>

(* The post is done and the loop goes on. *)
receive_sync_resumes(n, m) ==
  /\ m.type = "loop" /\ m.to = n
  /\ Loop(n, m, ckpt[n], status[n], lastCommit[n])
  /\ UNCHANGED <<followView, view, isLeader, nextPropose, status, ckpt, ckptVotes, vcVotes, syncs, client>>

-----------------------------------------------------------------------------
(* Mutant of PreparedSlots: a vote without certificates. *)
NoSlots(n) == {}

(* get_prepare_certificates *)
PreparedSlots(n) == {s \in Slot : _legal_slot(n, s) /\ status[n][s].prepared # None}

(* set_view refuses a second change within VIEW_SET_INTERVAL; that is a     *)
(* request that never arrives.                                              *)
get_view_change_request(n, m) ==
  LET v == followView[n] + 1
  IN  /\ m.type = "view_change" /\ m.to = n /\ v <= MaxView
      /\ followView' = [followView EXCEPT ![n] = v]
      /\ isLeader' = [isLeader EXCEPT ![n] = FALSE]
      /\ net' = (net \ {m}) \cup
                Post("vc_vote", n, v, ckpt[n], [s \in PreparedSlots(n) |-> status[n][s].prepared])
      /\ UNCHANGED <<view, nextPropose, lastCommit, status, ckpt, ckptVotes, vcVotes, syncs, client>>

(* ViewChangeVotes.receive_vote: the certificate with the largest view is   *)
(* meant to be kept, but the view of a received certificate is always 0     *)
(* (set_view refuses on an object just made): the first one stays.          *)
FirstCert(old, new) ==
  [s \in DOMAIN old \cup DOMAIN new |-> IF s \in DOMAIN old THEN old[s] ELSE new[s]]

LastSlot(certs) == CHOOSE s \in DOMAIN certs \cup {-1} : \A u \in DOMAIN certs : u <= s

(* The votes of 2f+1 nodes for any view make the node lead the view it      *)
(* follows, if that is its turn.  A slot it never heard of raises KeyError: *)
(* it leads, and proposes nothing for the slots it took over.  They go out  *)
(* in one message: its first slot is what arrives, the others come along.   *)
receive_view_change_vote(n, m) ==
  LET k     == Newer(ckpt[n], m.slot)
      votes == [from  |-> vcVotes[n][m.view].from \cup {m.from},
                certs |-> FirstCert(vcVotes[n][m.view].certs, m.prop)]
      takes == Cardinality(votes.from) >= 2 * f + 1 /\ followView[n] % N = n /\ ~isLeader[n]
      last  == LastSlot(votes.certs)
      open  == {s \in k.next .. last :
                  s \in DOMAIN votes.certs => status[n][s].committed = None}
      fails == \E s \in k.next .. last : s \in DOMAIN votes.certs /\ ~status[n][s].known
      prop(s) == IF s \in DOMAIN votes.certs THEN votes.certs[s] ELSE NoOp
      type(s) == IF \E u \in open : u < s THEN "more" ELSE "preprepare"
  IN  /\ m.type = "vc_vote" /\ m.to = n
      /\ ckpt' = [ckpt EXCEPT ![n] = k]
      /\ lastCommit' = [lastCommit EXCEPT ![n] = Later(@, k.next - 1)]
      /\ vcVotes' = [vcVotes EXCEPT ![n][m.view] = votes]
      /\ isLeader' = [isLeader EXCEPT ![n] = @ \/ takes]
      /\ view' = [view EXCEPT ![n] = IF takes THEN followView[n] ELSE @]
      /\ nextPropose' = [nextPropose EXCEPT ![n] = IF takes THEN last + 1 ELSE @]
      /\ net' = (net \ {m}) \cup
                (IF takes /\ ~fails
                 THEN UNION {Post(type(s), n, followView[n], s, prop(s)) : s \in open}
                 ELSE {})
      /\ UNCHANGED <<followView, status, ckptVotes, syncs, client>>

Next ==
  \/ NextRequest
  \/ Resend
  \/ \E n \in Live : synchronize(n)
  \/ \E m \in net :
       \/ get_reply(m)
       \/ get_request(m.to, m)
       \/ preprepare(m.to, m)
       \/ prepare(m.to, m)
       \/ commit(m.to, m)
       \/ reply(m.to, m)
       \/ receive_ckpt_vote(m.to, m)
       \/ receive_sync(m.to, m)
       \/ receive_sync_resumes(m.to, m)
       \/ get_view_change_request(m.to, m)
       \/ receive_view_change_vote(m.to, m)

Spec == Init /\ [][Next]_vars

-----------------------------------------------------------------------------
(* Properties. *)

(* Two nodes never hold commit certificates of different proposals for a    *)
(* slot, whether they come from commit messages or from a synchronisation.  *)
Agreement ==
  \A n, o \in Live, s \in Slot :
    status[n][s].committed # None /\ status[o][s].committed # None
      => status[n][s].committed = status[o][s].committed

(* The leader of a later view proposes, for a slot above its checkpoint     *)
(* that some node has committed, nothing but the committed proposal.  Below *)
(* it does: next_propose_slot starts after the last certificate it got, and *)
(* from slot 0 where the voters' certificates all went into checkpoints.    *)
NewViewKeepsCommitted ==
  \A m \in {k \in net : k.type \in {"preprepare", "more", "slots"} /\ k.view > 0}, n \in Live :
    m.slot >= ckpt[m.from].next /\ status[n][m.slot].committed # None
      => m.prop = status[n][m.slot].committed

(* A node that leads a view after the first one counted votes of 2f+1 nodes *)
(* for that view (receive_view_change_vote: "Receive more than 2f + 1       *)
(* votes. If the node is the charged leader for current view").             *)
LedByVotes ==
  \A n \in Live :
    isLeader[n] /\ view[n] > 0 => Cardinality(vcVotes[n][view[n]].from) >= 2 * f + 1

(* No open slot lies between the checkpoint and last_commit_slot:           *)
(* get_commit_decisions reads the certificate of every one of them.         *)
NoBubbles ==
  \A n \in Live : \A s \in ckpt[n].next .. lastCommit[n] : status[n][s].committed # None

(* When the client goes on, f+1 nodes have its request in their history. *)
SuccessIsCommitted ==
  client.ok /\ client.req > 0 =>
    \E p \in {c[2] : c \in client.replies} :
      Cardinality({n \in Live : \E i \in 1 .. Len(Dump(n)) : Dump(n)[i] = p}) >= f + 1
=============================================================================
