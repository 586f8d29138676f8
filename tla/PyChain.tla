------------------------------- MODULE PyChain --------------------------------
(***************************************************************************)
(* The blockchain prototype in Python (22051152, blockchain.py): nodes     *)
(* that take transactions, mine, and replace their chain by a longer one   *)
(* of a neighbour.                                                         *)
(*                                                                         *)
(* Flask serves every request in a thread of its own and there is no lock: *)
(* every access to self.chain and self.current_transactions is a step of   *)
(* its own.  Both are lists that threads hold on to while the node goes on *)
(* to another list, so that a node's lists are numbered and the last one   *)
(* is the current one; a block holds the number of its transactions' list, *)
(* a copy of it that another node serves holds the transactions.  A hash   *)
(* tells apart what a block holds, a proof is found for a hash.            *)
(***************************************************************************)
EXTENDS Integers, FiniteSets, SequencesExt

CONSTANTS
  Node,    \* the nodes
  Posts,   \* bound: the transactions posted, each a pair <<node, name>>
  Mines,   \* bound: the requests to /mine, each a pair <<node, number>>
  Resolves \* bound: the requests to /nodes/resolve, each a pair <<node, number>>

NodesAssumption ==
  /\ \A t \in Posts : t[1] \in Node
  /\ \A r \in Resolves : r[1] \in Node
  /\ \A h \in Mines : h[1] \in Node /\ h[2] # 0

VARIABLES
  chains,    \* the lists that are or were self.chain
  lists,     \* the lists that are or were self.current_transactions
  nodes,     \* self.nodes
  mining,    \* the requests to /mine, and how far they are
  posting,   \* the requests to /transactions/new: the list each has read
  resolving, \* the requests to /nodes/resolve
  seen       \* history: <<node, what happened there>>

vars == <<chains, lists, nodes, mining, posting, resolving, seen>>

chain(n) == Last(chains[n])

Reward(n) == <<n, "reward">>

(* The transactions are those of list number list, or if that is 0 txs. *)
Block(timestamp, list, txs, proof, previous_hash) ==
  [timestamp |-> timestamp, list |-> list, txs |-> txs, proof |-> proof, previous_hash |-> previous_hash]

(* What is read in a block of n, or in a chain of its. *)
View(n, b) == IF b.list = 0 THEN b ELSE [b EXCEPT !.list = 0, !.txs = lists[n][b.list]]
Views(n, c) == [i \in DOMAIN c |-> View(n, c[i])]

(* The time tells blocks apart; but for its transactions a block is fixed. *)
hash(view) == <<view.timestamp, view.txs>>

Idle == [at |-> "none", last |-> << >>, proof |-> << >>, list |-> 0, previous_hash |-> << >>, to |-> 0]

(* Every node has a first block of its own. *)
Init ==
  /\ chains = [n \in Node |-> << <<Block(<<n, 0>>, 0, <<Reward(n)>>, << >>, << >>)>> >>]
  /\ lists = [n \in Node |-> << << >> >>]
  /\ nodes = [n \in Node |-> {}]
  /\ mining = [h \in Mines |-> Idle]
  /\ posting = [t \in Posts |-> 0]
  /\ resolving = [r \in Resolves |-> [at |-> "none"]]
  /\ seen = {}

Saw(n, what, happened) == seen' = IF happened THEN seen \cup {<<n, what>>} ELSE seen

-----------------------------------------------------------------------------
(* proof_of_work and valid_proof: the proof that belongs to a hash. *)
proof_of_work(last_hash) == last_hash
valid_proof(proof, last_hash) == proof = proof_of_work(last_hash)

valid_chain(c) ==
  \A i \in 2 .. Len(c) :
    /\ c[i].previous_hash = hash(c[i - 1])
    /\ valid_proof(c[i].proof, hash(c[i - 1]))

(* self.current_transactions.append: the list read before may be that of a  *)
(* block by now.                                                            *)
AppendTo(n, list, tx) ==
  /\ lists' = [lists EXCEPT ![n][list] = Append(@, tx)]
  /\ Saw(n, "late", \E i \in DOMAIN chain(n) : chain(n)[i].list = list)

(* /transactions/new, up to the list and from there on. *)
new_transaction(t) ==
  /\ posting[t] = 0
  /\ posting' = [posting EXCEPT ![t] = Len(lists[t[1]])]
  /\ UNCHANGED <<chains, lists, nodes, mining, resolving, seen>>

Posted == -1

new_transaction_append(t) ==
  /\ posting[t] > 0
  /\ AppendTo(t[1], posting[t], t)
  /\ posting' = [posting EXCEPT ![t] = Posted]
  /\ UNCHANGED <<chains, nodes, mining, resolving>>

-----------------------------------------------------------------------------
(* The thread of a request to /mine gets from one step to the next. *)
Goes(h, from, thread) == mining[h].at = from /\ mining' = [mining EXCEPT ![h] = thread]
Self(h) == mining[h]

(* mine: last_block ... *)
mine(h) ==
  /\ Goes(h, "none", [Self(h) EXCEPT !.at = "last", !.last = Last(chain(h[1]))])
  /\ UNCHANGED <<chains, lists, nodes, posting, resolving, seen>>

(* ... and the proof for what it holds by then. *)
mine_proof(h) ==
  /\ Goes(h, "last", [Self(h) EXCEPT !.at = "proof", !.proof = proof_of_work(hash(View(h[1], Self(h).last)))])
  /\ UNCHANGED <<chains, lists, nodes, posting, resolving, seen>>

(* The reward goes to the transactions of then ... *)
mine_reward(h) ==
  /\ Goes(h, "proof", [Self(h) EXCEPT !.at = "reward", !.list = Len(lists[h[1]])])
  /\ UNCHANGED <<chains, lists, nodes, posting, resolving, seen>>

mine_reward_append(h) ==
  /\ Goes(h, "reward", [Self(h) EXCEPT !.at = "paid"])
  /\ AppendTo(h[1], Self(h).list, Reward(h[1]))
  /\ UNCHANGED <<chains, nodes, posting, resolving>>

(* ... and last_block is hashed again. *)
mine_hash(h) ==
  /\ Goes(h, "paid", [Self(h) EXCEPT !.at = "hashed", !.previous_hash = hash(View(h[1], Self(h).last))])
  /\ UNCHANGED <<chains, lists, nodes, posting, resolving, seen>>

(* new_block: the block takes the current transactions, ... *)
new_block(h) ==
  /\ Goes(h, "hashed", [Self(h) EXCEPT !.at = "taken", !.list = Len(lists[h[1]])])
  /\ Saw(h[1], "crossed", \E g \in Mines : g[1] = h[1] /\ mining[g].at = "taken")
  /\ UNCHANGED <<chains, lists, nodes, posting, resolving>>

(* Mutant of Emptied: the transactions stay. *)
EmptiedNot(txs) == txs

Emptied(txs) == << >>

(* ... there are new ones, ... *)
new_block_empty(h) ==
  LET n == h[1]
  IN  /\ Goes(h, "taken", [Self(h) EXCEPT !.at = "emptied"])
      /\ lists' = [lists EXCEPT ![n] = Append(@, Emptied(Last(@)))]
      /\ UNCHANGED <<chains, nodes, posting, resolving, seen>>

(* ... and it goes to the end of the chain of then. *)
new_block_chain(h) ==
  /\ Goes(h, "emptied", [Self(h) EXCEPT !.at = "ready", !.to = Len(chains[h[1]])])
  /\ UNCHANGED <<chains, lists, nodes, posting, resolving, seen>>

new_block_append(h) ==
  LET n == h[1]
      t == Self(h)
  IN  /\ Goes(h, "ready", [Idle EXCEPT !.at = "done"])
      /\ chains' = [chains EXCEPT ![n][t.to] = Append(@, Block(h, t.list, << >>, t.proof, t.previous_hash))]
      /\ Saw(n, "stale", Last(chains[n][t.to]) # t.last)
      /\ UNCHANGED <<lists, nodes, posting, resolving>>

(* /nodes/register *)
register_node(n, m) ==
  /\ m # n /\ m \notin nodes[n]
  /\ nodes' = [nodes EXCEPT ![n] = @ \cup {m}]
  /\ UNCHANGED <<chains, lists, mining, posting, resolving, seen>>

-----------------------------------------------------------------------------
(* What was the chain of a node is not any more, or has grown. *)
Version(n) == <<Len(chains[n]), Len(chain(n))>>

Resolving(r, from, thread) ==
  /\ resolving[r].at = from /\ resolving' = [resolving EXCEPT ![r] = thread]
  /\ UNCHANGED <<lists, nodes, mining, posting>>

(* resolve_conflicts: max_length is the length of the chain now; since and  *)
(* fits only record what the answers are compared with.                     *)
resolve_conflicts(r) ==
  LET n == r[1]
  IN  /\ Resolving(r, "none", [at |-> "ask", among |-> nodes[n], left |-> nodes[n], from |-> n, list |-> 0,
                               max_length |-> Len(chain(n)), length |-> 0, new |-> << >>,
                               since |-> Version(n), fits |-> TRUE])
      /\ UNCHANGED <<chains, seen>>

(* full_chain of the next neighbour: its chain now ... *)
full_chain(r, m) ==
  LET w == resolving[r]
  IN  /\ w.at = "ask" /\ m \in w.left /\ nodes[r[1]] = w.among
      /\ Resolving(r, "ask", [w EXCEPT !.at = "asked", !.left = @ \ {m}, !.from = m, !.list = Len(chains[m])])
      /\ UNCHANGED <<chains, seen>>

(* ... and its length a moment later. *)
full_chain_length(r) ==
  /\ Resolving(r, "asked", [resolving[r] EXCEPT !.at = "answered", !.length = Len(chain(resolving[r].from))])
  /\ UNCHANGED <<chains, seen>>

(* Mutants of Better: a long chain need not be valid, a valid one not long. *)
BetterUnchecked(c, length, max_length) == length > max_length

BetterAnyLength(c, length, max_length) == valid_chain(c)

Better(c, length, max_length) == length > max_length /\ valid_chain(c)

(* The answer is the chain as it is when it is written out. *)
resolve_compares(r) ==
  LET w == resolving[r]
      c == Views(w.from, chains[w.from][w.list])
  IN  /\ Resolving(r, "answered",
           IF Better(c, w.length, w.max_length)
           THEN [w EXCEPT !.at = "ask", !.max_length = w.length, !.new = c,
                          !.fits = w.length <= Len(c)]
           ELSE [w EXCEPT !.at = "ask"])
      /\ UNCHANGED <<chains, seen>>

(* A neighbour that cannot be reached ends the request with an error, and   *)
(* so does a set that has grown while it is gone through.                   *)
resolve_fails(r) ==
  LET w == resolving[r]
  IN  /\ w.at \in {"ask", "asked", "answered"}
      /\ w.at = "ask" => nodes[r[1]] # w.among
      /\ Resolving(r, w.at, [at |-> "done"])
      /\ UNCHANGED <<chains, seen>>

(* All were asked. *)
resolved(r) ==
  LET n == r[1]
      w == resolving[r]
  IN  /\ w.at = "ask" /\ w.left = {} /\ nodes[n] = w.among
      /\ Resolving(r, "ask", [at |-> "done"])
      /\ chains' = IF w.new # << >> THEN [chains EXCEPT ![n] = Append(@, w.new)] ELSE chains
      /\ Saw(n, "adopted", w.new # << >>)

Next ==
  \/ \E t \in Posts : new_transaction(t) \/ new_transaction_append(t)
  \/ \E h \in Mines :
       \/ mine(h) \/ mine_proof(h) \/ mine_reward(h) \/ mine_reward_append(h) \/ mine_hash(h)
       \/ new_block(h) \/ new_block_empty(h) \/ new_block_chain(h) \/ new_block_append(h)
  \/ \E n, m \in Node : register_node(n, m)
  \/ \E r \in Resolves :
       \/ resolve_conflicts(r) \/ \E m \in Node : full_chain(r, m)
       \/ full_chain_length(r) \/ resolve_compares(r) \/ resolve_fails(r) \/ resolved(r)

Spec == Init /\ [][Next]_vars

-----------------------------------------------------------------------------
(* Properties.  None holds of a node as such: threads that overtake each    *)
(* other break every one of them.  They say which steps do, and that the    *)
(* others, in whatever order, do not.                                       *)

(* A node's own chain is valid unless a block was appended to another one   *)
(* than it was mined for, or a transaction to one already in the chain, at  *)
(* this node (mine, new_block, new_transaction).  What it took over from    *)
(* others counts for nothing: their late transactions do not get here.      *)
ValidUnlessStaleOrLate ==
  \A n \in Node : \/ valid_chain(Views(n, chain(n)))
                  \/ <<n, "stale">> \in seen \/ <<n, "late">> \in seen

(* resolve_conflicts: a chain is valid when it is taken over, and if it is  *)
(* shorter than the one it replaces, that one has changed since its length  *)
(* was taken, or the neighbour's was replaced before its length was.        *)
TakenOverIsBetter ==
  \A n \in Node : Len(chains'[n]) > Len(chains[n]) =>
    \E r \in Resolves :
      LET w == resolving[r]
      IN  /\ r[1] = n /\ w.at = "ask" /\ Last(chains'[n]) = w.new
          /\ valid_chain(w.new)
          /\ Len(w.new) > Len(chain(n)) \/ w.since # Version(n) \/ ~w.fits

(* In how many places node n has t: blocks of its chain, blocks that a      *)
(* thread is about to append, and the current transactions.                 *)
Holds(n, t) ==
  LET blocks  == {b \in DOMAIN chain(n) : Contains(View(n, chain(n)[b]).txs, t)}
      threads == {h \in Mines : /\ h[1] = n /\ mining[h].at \in {"emptied", "ready"}
                                /\ Contains(lists[n][mining[h].list], t)}
      waiting == {k \in {Len(lists[n])} : Contains(lists[n][k], t)}
  IN  Cardinality(blocks) + Cardinality(threads) + Cardinality(waiting)

(* A transaction is in one block of its node or waits for one.  It may be   *)
(* lost or in two where two threads were between the two halves of          *)
(* new_block, and lost where a chain was taken over.                        *)
PostedOnce ==
  \A t \in Posts : posting[t] = Posted =>
    \/ <<t[1], "crossed">> \in seen
    \/ Holds(t[1], t) = 1
    \/ Holds(t[1], t) = 0 /\ <<t[1], "adopted">> \in seen
=============================================================================
