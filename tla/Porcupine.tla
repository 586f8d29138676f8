------------------------------ MODULE Porcupine ------------------------------
(***************************************************************************)
(* The linearizability checker behind the key/value service's tests        *)
(* (src/porcupine/checker.go) with the key/value model (src/models/kv.go). *)
(* A history is partitioned by key; one goroutine per partition searches   *)
(* for a linearization, on a doubly linked list of calls and returns from  *)
(* which it lifts the operations it has linearized and to which it unlifts *)
(* them when it backtracks.  The main goroutine collects the results, and  *)
(* stops the others at the first failure or at the time-out.               *)
(***************************************************************************)
EXTENDS Integers, Sequences, FiniteSets

CONSTANTS
  Keys,      \* the keys, in the order of sort.Strings
  Histories  \* bound: the histories checked, sequences of operations
             \* [op, key, value, out, call, return] with distinct times

VARIABLES
  entries,    \* the entries of each partition, by time
  computeInfo, timeout, \* the arguments: verbose, a time-out greater than 0
  run,        \* checkSingle of each partition
  kill,       \* the flag all of them read
  count, ok, timedOut, \* of checkParallel: count is the set of results received
  at          \* "collecting" or "done"

vars == <<entries, computeInfo, timeout, run, kill, count, ok, timedOut, at>>

-----------------------------------------------------------------------------
(* The model *)

(* KvModel.Partition: the operations on each key that occurs. *)
Partition(history) ==
  SelectSeq([k \in DOMAIN Keys |-> SelectSeq(history, LAMBDA o : o.key = Keys[k])],
            LAMBDA sub : sub # << >>)

ModelInit == << >>

(* KvModel.Step; a value is the sequence of the strings appended. *)
Step(state, o) ==
  [ok    |-> o.op = "get" => o.out = state,
   state |-> CASE o.op = "get" -> state [] o.op = "put" -> o.value [] OTHER -> state \o o.value]

(* makeEntries: an operation's number is its place in the partition. *)
makeEntries(ops) ==
  LET all == {[kind |-> "call", id |-> i, time |-> ops[i].call, op |-> ops[i]] : i \in DOMAIN ops}
               \cup {[kind |-> "return", id |-> i, time |-> ops[i].return, op |-> ops[i]] : i \in DOMAIN ops}
  IN  [n \in 1 .. Cardinality(all) |-> CHOOSE e \in all : Cardinality({d \in all : d.time <= e.time}) = n]

-----------------------------------------------------------------------------
(* The list.  A node is its place in the entries; the head is 0. *)
Nil(es) == Len(es) + 1

makeLinkedEntries(es) ==
  [next |-> [n \in 0 .. Len(es) |-> n + 1], prev |-> [n \in 1 .. Len(es) |-> n - 1]]

match(es, n) == CHOOSE m \in DOMAIN es : es[m].kind = "return" /\ es[m].id = es[n].id

Unlink(es, l, n) ==
  [next |-> [l.next EXCEPT ![l.prev[n]] = l.next[n]],
   prev |-> IF l.next[n] = Nil(es) THEN l.prev ELSE [l.prev EXCEPT ![l.next[n]] = l.prev[n]]]

Relink(es, l, n) ==
  [next |-> [l.next EXCEPT ![l.prev[n]] = n],
   prev |-> IF l.next[n] = Nil(es) THEN l.prev ELSE [l.prev EXCEPT ![l.next[n]] = n]]

lift(es, l, n) == Unlink(es, Unlink(es, l, n), match(es, n))

(* Mutant of unlift: the return entry stays out. *)
unliftCall(es, l, n) == Relink(es, l, n)

unlift(es, l, n) == Relink(es, Relink(es, l, match(es, n)), n)

-----------------------------------------------------------------------------
(* checkSingle *)

(* Its local variables. *)
Started(es) ==
  [at |-> "running", entry |-> 1, list |-> makeLinkedEntries(es), linearized |-> {},
   cache |-> {}, calls |-> << >>, state |-> ModelInit,
   longest |-> [i \in {es[n].id : n \in DOMAIN es} |-> << >>]]

Init ==
  /\ \E h \in Histories :
       LET parts == Partition(h) IN entries = [p \in DOMAIN parts |-> makeEntries(parts[p])]
  /\ computeInfo \in BOOLEAN /\ timeout \in BOOLEAN
  /\ run = [p \in DOMAIN entries |-> Started(entries[p])]
  /\ kill = FALSE /\ count = {} /\ ok = TRUE /\ timedOut = FALSE /\ at = "collecting"

Ids(r) == [k \in DOMAIN r.calls |-> r.calls[k].id]

(* Mutant of cacheContains: the state is not compared. *)
cacheContainsSet(cache, linearized, state) == \E c \in cache : c[1] = linearized

cacheContains(cache, linearized, state) == <<linearized, state>> \in cache

(* A call entry: linearize it if the model allows and this has not been     *)
(* tried, else go on to the next entry.                                     *)
TryCall(es, r) ==
  LET e    == es[r.entry]
      next == Step(r.state, e.op)
      done == r.linearized \cup {e.id}
      list == lift(es, r.list, r.entry)
  IN  IF next.ok /\ ~cacheContains(r.cache, done, next.state)
      THEN [r EXCEPT !.cache = @ \cup {<<done, next.state>>},
                     !.calls = Append(@, [id |-> e.id, node |-> r.entry, state |-> r.state]),
                     !.state = next.state, !.linearized = done,
                     !.list = list, !.entry = list.next[0]]
      ELSE [r EXCEPT !.entry = r.list.next[@]]

(* Mutant of Longest: the first sequence with it. *)
LongestFirst(r) ==
  [i \in DOMAIN r.longest |-> IF i \in r.linearized /\ r.longest[i] = << >> THEN Ids(r) ELSE r.longest[i]]

(* For each operation linearized now, the longest sequence with it so far. *)
Longest(r) ==
  [i \in DOMAIN r.longest |->
     IF i \in r.linearized /\ Len(r.calls) > Len(r.longest[i]) THEN Ids(r) ELSE r.longest[i]]

(* A return entry: take the last operation back and go on after its call. *)
Backtrack(es, r) ==
  LET top  == r.calls[Len(r.calls)]
      list == unlift(es, r.list, top.node)
  IN  IF r.calls = << >> THEN [r EXCEPT !.at = "false"]
      ELSE [r EXCEPT !.longest = IF computeInfo THEN Longest(r) ELSE @,
                     !.state = top.state, !.linearized = @ \ {top.id},
                     !.calls = SubSeq(@, 1, Len(@) - 1),
                     !.list = list, !.entry = list.next[top.node]]

(* One turn of the loop. *)
checkSingle(p) ==
  LET r  == run[p]
      es == entries[p]
  IN  /\ r.at = "running"
      /\ run' = [run EXCEPT ![p] =
           IF r.list.next[0] = Nil(es)
           THEN [r EXCEPT !.at = "true", !.longest = [i \in DOMAIN @ |-> Ids(r)]]
           ELSE IF kill THEN [r EXCEPT !.at = "false"]
           ELSE IF es[r.entry].kind = "call" THEN TryCall(es, r) ELSE Backtrack(es, r)]
      /\ UNCHANGED <<entries, computeInfo, timeout, kill, count, ok, timedOut, at>>

-----------------------------------------------------------------------------
(* checkParallel *)

(* A result; the first failure ends the loop, unless the longest prefixes   *)
(* are wanted.                                                              *)
Collect(p) ==
  /\ at = "collecting" /\ p \notin count /\ run[p].at # "running"
  /\ count' = count \cup {p}
  /\ ok' = (ok /\ run[p].at = "true")
  /\ kill' = (~ok' /\ ~computeInfo)
  /\ at' = IF kill' \/ count' = DOMAIN entries THEN "draining" ELSE at
  /\ UNCHANGED <<entries, computeInfo, timeout, run, timedOut>>

TimeOut ==
  /\ at = "collecting" /\ timeout
  /\ timedOut' = TRUE /\ kill' = TRUE /\ at' = "draining"
  /\ UNCHANGED <<entries, computeInfo, timeout, run, count, ok>>

(* With computeInfo, the goroutines still running are waited for; what they *)
(* found does not count any more.                                           *)
Finish ==
  /\ at = "draining" /\ at' = "done"
  /\ computeInfo => \A p \in DOMAIN entries : run[p].at # "running"
  /\ UNCHANGED <<entries, computeInfo, timeout, run, kill, count, ok, timedOut>>

result == IF ~ok THEN "Illegal" ELSE IF timedOut THEN "Unknown" ELSE "Ok"

Next == (\E p \in DOMAIN entries : checkSingle(p) \/ Collect(p)) \/ TimeOut \/ Finish

Spec == Init /\ [][Next]_vars

-----------------------------------------------------------------------------
(* The reference: what a linearization is *)

(* The states the operations seq of a partition lead through. *)
States(es, seq) ==
  LET op(i) == (CHOOSE e \in {es[n] : n \in DOMAIN es} : e.id = i).op
      st[k \in 0 .. Len(seq)] == IF k = 0 THEN ModelInit ELSE Step(st[k - 1], op(seq[k])).state
  IN  [legal |-> \A k \in DOMAIN seq : Step(st[k - 1], op(seq[k])).ok]

(* What returned before operation i was called. *)
Before(es, i) ==
  {j \in {es[n].id : n \in DOMAIN es} :
     \E m, n \in DOMAIN es : m < n /\ es[m].kind = "return" /\ es[m].id = j
                                   /\ es[n].kind = "call" /\ es[n].id = i}

(* The legal sequences of operations in which each comes after all that     *)
(* returned before its call.                                                *)
Linearizations(es) ==
  LET n == Len(es) \div 2
  IN  {s \in UNION {[1 .. k -> 1 .. n] : k \in 0 .. n} :
         /\ \A j, k \in DOMAIN s : s[j] = s[k] => j = k
         /\ \A k \in DOMAIN s : Before(es, s[k]) \subseteq {s[j] : j \in 1 .. k - 1}
         /\ States(es, s).legal}

Linearizable(es) == \E s \in Linearizations(es) : 2 * Len(s) = Len(es)

-----------------------------------------------------------------------------
(* Properties *)

(* The answer is right, however the goroutines, the kill flag and the       *)
(* time-out are interleaved (checkParallel, checkSingle).                   *)
AnswerRight ==
  at = "done" =>
    /\ result = "Ok" => \A p \in DOMAIN entries : Linearizable(entries[p])
    /\ result = "Illegal" => \E p \in DOMAIN entries : ~Linearizable(entries[p])

(* What is reported for an operation is a longest linearizable prefix that  *)
(* includes it, unless the search was cut short (longest).                  *)
LongestRight ==
  at = "done" /\ computeInfo =>
    \A p \in DOMAIN entries : \A i \in DOMAIN run[p].longest :
      LET found == run[p].longest[i]
          with  == {s \in Linearizations(entries[p]) : \E k \in DOMAIN s : s[k] = i}
      IN  /\ found # << >> => found \in with
          /\ ~timedOut => \A s \in with : Len(s) <= Len(found)

(* The list holds exactly the calls and returns of the operations not       *)
(* linearized, in order and linked both ways, after any sequence of lift    *)
(* and unlift.                                                              *)
ListIsRest ==
  \A p \in DOMAIN entries :
    LET r    == run[p]
        rest == {n \in DOMAIN entries[p] : entries[p][n].id \notin r.linearized}
        all  == rest \cup {0, Nil(entries[p])}
    IN  \A n \in rest \cup {0} :
          LET after == CHOOSE m \in all : m > n /\ \A k \in all : k > n => m <= k
          IN  r.list.next[n] = after /\ (after # Nil(entries[p]) => r.list.prev[after] = n)
=============================================================================
