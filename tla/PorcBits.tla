------------------------------- MODULE PorcBits -------------------------------
(***************************************************************************)
(* The numbers under the linearizability checker: events are renumbered,   *)
(* the operations linearized are kept in a bitset (src/porcupine/bitset.go)*)
(* and the cache of checkSingle is a hash table over bitsets (checker.go). *)
(* Porcupine takes sets in their place.  A bitset is a slice, so that two  *)
(* variables may share it: memory holds the slices, a variable a reference.*)
(* Which operation is tried, and the model's state after it, is any.       *)
(***************************************************************************)
EXTENDS Integers, Sequences, FiniteSets, SequencesExt, Bitwise

CONSTANTS
  Word,       \* bits of a word, 64 in the code
  Histories,  \* bound: event histories, sequences of [kind, id]
  States,     \* bound: the model's states
  MaxTried    \* bound: entries of the cache

VARIABLES
  events,   \* the history given to checkEvents
  memory,   \* the slices; linearized is the first
  cache,    \* by hash, a sequence of cacheEntry: <<reference, state>>
  calls,    \* the numbers of the operations linearized, in order
  tried     \* history: the sets of operations and states put in the cache

vars == <<events, memory, cache, calls, tried>>

-----------------------------------------------------------------------------
(* renumber and convertEntries *)

(* Mutant of renumber: numbers are taken from the place, not counted. *)
renumberPlace(h) ==
  [i \in DOMAIN h |-> [h[i] EXCEPT !.id = CHOOSE n \in 0 .. Len(h) - 1 :
                         h[n + 1].id = h[i].id /\ \A k \in 1 .. n : h[k].id # h[i].id]]

(* The ids become 0, 1, ... in the order in which they occur first. *)
renumber(h) ==
  LET before(id) == {h[j].id : j \in {k \in DOMAIN h : \A l \in 1 .. k : h[l].id # id}}
  IN  [i \in DOMAIN h |-> [h[i] EXCEPT !.id = Cardinality(before(h[i].id))]]

(* An event's place becomes its time. *)
convertEntries(h) == [i \in DOMAIN h |-> [kind |-> h[i].kind, id |-> h[i].id, time |-> i - 1]]

entries == convertEntries(renumber(events))

-----------------------------------------------------------------------------
(* bitset.go: a bitset is a sequence of words, integers below 2^Word. *)
newBitset(bits) ==
  LET extra == IF bits % Word # 0 THEN 1 ELSE 0
  IN  [k \in 1 .. bits \div Word + extra |-> 0]

bitsetIndex(pos) == [major |-> pos \div Word, minor |-> pos % Word]

get(b, pos) ==
  LET i == bitsetIndex(pos) IN (b[i.major + 1] & (2 ^ i.minor)) # 0

popcnt(b) == Cardinality({<<k, m>> \in (DOMAIN b) \X (0 .. Word - 1) : (b[k] \div 2 ^ m) % 2 = 1})

hash(b) == FoldSeq(LAMBDA v, h : h ^^ v, popcnt(b), b)

equals(b, c) == Len(b) = Len(c) /\ \A k \in DOMAIN b : b[k] = c[k]

(* What is in memory mem after a write to the slice at ref. *)
set(mem, ref, pos) ==
  LET i == bitsetIndex(pos) IN [mem EXCEPT ![ref][i.major + 1] = @ | (2 ^ i.minor)]

(* Mutant of clear: the word is cleared. *)
clearWord(mem, ref, pos) == [mem EXCEPT ![ref][bitsetIndex(pos).major + 1] = 0]

clear(mem, ref, pos) ==
  LET i == bitsetIndex(pos)
  IN  [mem EXCEPT ![ref][i.major + 1] = @ - (@ & (2 ^ i.minor))]

(* Mutant of clone: the slice itself. *)
cloneShared(mem, ref) == [mem |-> mem, ref |-> ref]

clone(mem, ref) == [mem |-> Append(mem, mem[ref]), ref |-> Len(mem) + 1]

-----------------------------------------------------------------------------
(* checkSingle *)
linearized == 1

(* Mutant of cacheContains: who is in the bucket is not compared. *)
cacheContainsBucket(mem, b, state) ==
  hash(b) \in DOMAIN cache /\ \E k \in DOMAIN cache[hash(b)] : cache[hash(b)][k][2] = state

cacheContains(mem, b, state) ==
  /\ hash(b) \in DOMAIN cache
  /\ \E k \in DOMAIN cache[hash(b)] :
       LET elem == cache[hash(b)][k] IN equals(b, mem[elem[1]]) /\ elem[2] = state

(* cache[h] = append(cache[h], entry) *)
PutInto(h, entry) ==
  [x \in DOMAIN cache \cup {h} |->
     IF x # h THEN cache[x] ELSE IF h \in DOMAIN cache THEN Append(cache[h], entry) ELSE <<entry>>]

Init ==
  /\ events \in Histories
  /\ memory = << newBitset(Len(entries) \div 2) >>
  /\ cache = << >> /\ calls = << >> /\ tried = {}

(* An operation the model allows, after which it is in newState: linearized *)
(* if that is not in the cache.                                             *)
TryCall(id, newState) ==
  LET copy == clone(memory, linearized)
      mem  == set(copy.mem, copy.ref, id)
      b    == mem[copy.ref]
  IN  /\ id \notin {calls[k] : k \in DOMAIN calls}
      /\ ~cacheContains(mem, b, newState)
      /\ Cardinality(tried) < MaxTried
      /\ cache' = PutInto(hash(b), <<copy.ref, newState>>)
      /\ memory' = set(mem, linearized, id)
      /\ calls' = Append(calls, id)
      /\ tried' = tried \cup {<<{calls[k] : k \in DOMAIN calls} \cup {id}, newState>>}
      /\ UNCHANGED events

Backtrack ==
  /\ calls # << >>
  /\ memory' = clear(memory, linearized, calls[Len(calls)])
  /\ calls' = SubSeq(calls, 1, Len(calls) - 1)
  /\ UNCHANGED <<events, cache, tried>>

Operations == 0 .. Len(events) \div 2 - 1

Next == (\E id \in Operations, s \in States : TryCall(id, s)) \/ Backtrack

Spec == Init /\ [][Next]_vars

-----------------------------------------------------------------------------
(* Properties *)

(* The numbers of the entries are those of the bits there are, and a call   *)
(* and a return have the same number just when they had the same id: no     *)
(* entry indexes past the bitset, none shares another's bit (renumber).     *)
NumbersFit ==
  /\ \A i \in DOMAIN entries : entries[i].id \in Operations
  /\ \A i, j \in DOMAIN entries : entries[i].id = entries[j].id <=> events[i].id = events[j].id

(* The set of operations a bitset stands for. *)
Members(b) == {id \in Operations : get(b, id)}

(* The bitset of a set. *)
Bits(ids) == CHOOSE b \in [DOMAIN memory[linearized] -> 0 .. 2 ^ Word - 1] :
               Members(b) = ids /\ popcnt(b) = Cardinality(ids)

(* linearized is the set of the operations on the stack, after any sequence *)
(* of calls and backtracks, on both sides of a word's end (bitset.go).      *)
BitsAreStack == Members(memory[linearized]) = {calls[k] : k \in DOMAIN calls}

(* The cache answers for just the sets and states that were put there: what *)
(* has the same hash is told apart, and what was put there does not change  *)
(* when linearized does (cacheContains, clone).                             *)
CacheExact ==
  \A ids \in SUBSET Operations, s \in States : cacheContains(memory, Bits(ids), s) <=> <<ids, s>> \in tried
=============================================================================
