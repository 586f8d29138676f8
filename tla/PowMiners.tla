------------------------------ MODULE PowMiners -------------------------------
(***************************************************************************)
(* Proof of work in C (22051141, main.c): a parent and a child process mine, *)
(* each tells the other over a non-blocking socket of the block it found,   *)
(* and gives up its own search when it reads one.                           *)
(*                                                                         *)
(* The chain of a process holds pointers: to the blocks it found, and, for  *)
(* a block it read, to the one buffer of mine(), which the next block it    *)
(* reads overwrites.  A hash stands for the block hashed; base nonce and    *)
(* step make the blocks of the two processes differ.  A block is read from  *)
(* the socket whole: a read that returns a part of one is left out.         *)
(***************************************************************************)
EXTENDS Integers, SequencesExt

CONSTANTS
  Miner,   \* the two processes
  Length   \* the length at which a process stops, 10 in the code

MinersAssumption == \E p, q \in Miner : p # q /\ Miner = {p, q}

VARIABLES
  chain,    \* the list: blocks, and pointers to the buffer
  buffer,   \* buffer of mine()
  block,    \* the block a process searches a nonce for
  state,    \* "mining", "closed" after mine(), or "killed" by SIGPIPE
  socket,   \* what each process has not read yet
  appended, \* history: the blocks themselves in the order they were appended
  crossed   \* history: a process found a block with one on its way to it

vars == <<chain, buffer, block, state, socket, appended, crossed>>

Other(p) == CHOOSE q \in Miner : q # p

Genesis  == [by |-> "genesis", hashPrevBlock |-> << >>]
ToBuffer == [by |-> "buffer"]

(* What an entry of the list points to. *)
Pointed(entry, buf) == IF entry = ToBuffer THEN buf ELSE entry

(* Mutant of block_init: on top of the first of the list. *)
block_initFirst(p, list, buf) == [by |-> p, hashPrevBlock |-> Pointed(Head(list), buf)]

(* On top of the last of the list. *)
block_init(p, list, buf) == [by |-> p, hashPrevBlock |-> Pointed(Last(list), buf)]

Init ==
  /\ chain = [p \in Miner |-> <<Genesis>>]
  /\ buffer = [p \in Miner |-> Genesis]
  /\ block = [p \in Miner |-> block_init(p, <<Genesis>>, Genesis)]
  /\ state = [p \in Miner |-> "mining"]
  /\ socket = [p \in Miner |-> << >>]
  /\ appended = [p \in Miner |-> <<Genesis>>]
  /\ crossed = FALSE

-----------------------------------------------------------------------------
(* The end of the loop of mine: the list is extended, and the process       *)
(* closes its socket or starts on the next block.                           *)
Extended(p, entry, b, buf) ==
  LET list == Append(chain[p], entry)
  IN  /\ chain' = [chain EXCEPT ![p] = list]
      /\ appended' = [appended EXCEPT ![p] = Append(@, b)]
      /\ IF Len(list) < Length
         THEN block' = [block EXCEPT ![p] = block_init(p, list, buf)] /\ UNCHANGED state
         ELSE state' = [state EXCEPT ![p] = "closed"] /\ UNCHANGED block

(* A nonce is found.  The socket is only looked at between two nonces, so   *)
(* what arrived since is not noticed.  What is written to a process that    *)
(* has closed its end is lost.                                              *)
Found(p) ==
  /\ state[p] = "mining"
  /\ socket' = IF state[Other(p)] = "mining" THEN [socket EXCEPT ![Other(p)] = Append(@, block[p])] ELSE socket
  /\ crossed' = (crossed \/ socket[p] # << >>)
  /\ Extended(p, block[p], block[p], buffer[p])
  /\ UNCHANGED buffer

(* ... or kills the writer, once the other end has answered with a reset. *)
Killed(p) ==
  /\ state[p] = "mining" /\ state[Other(p)] # "mining"
  /\ state' = [state EXCEPT ![p] = "killed"]
  /\ UNCHANGED <<chain, buffer, block, socket, appended, crossed>>

(* Mutant of Taken: what is read overwrites the buffer, and nothing is      *)
(* appended.                                                                *)
TakenOnly(p, b) ==
  /\ block' = [block EXCEPT ![p] = block_init(p, chain[p], b)]
  /\ UNCHANGED <<chain, appended, state>>

Taken(p, b) == Extended(p, ToBuffer, b, b)

(* fail: a block is read into the buffer, the own search given up. *)
Fail(p) ==
  /\ state[p] = "mining" /\ socket[p] # << >>
  /\ buffer' = [buffer EXCEPT ![p] = Head(socket[p])]
  /\ socket' = [socket EXCEPT ![p] = Tail(@)]
  /\ Taken(p, Head(socket[p]))
  /\ UNCHANGED crossed

(* Both processes have ended. *)
Ended == (\A p \in Miner : state[p] # "mining") /\ UNCHANGED vars

Next == \/ \E p \in Miner : Found(p) \/ Killed(p) \/ Fail(p)
        \/ Ended

Spec == Init /\ [][Next]_vars

-----------------------------------------------------------------------------
(* Properties *)

Linked(s) == \A i \in 2 .. Len(s) : s[i].hashPrevBlock = s[i - 1]

(* As long as no two blocks have crossed on the way, both processes build   *)
(* one chain of linked blocks, of which one may have less, although all     *)
(* blocks a process read share one buffer (mine).                           *)
OneChainUnlessCrossed ==
  ~crossed => /\ \A p \in Miner : Linked(appended[p])
              /\ \A p \in Miner : IsPrefix(appended[p], appended[Other(p)])
                                  \/ IsPrefix(appended[Other(p)], appended[p])

(* Crossed or not, while both mine neither is ahead by more than what is on *)
(* its way: each found block takes one place in both lists (mine).          *)
NoneAhead ==
  (\A p \in Miner : state[p] = "mining") =>
    \A p, q \in Miner : Len(chain[p]) + Len(socket[p]) = Len(chain[q]) + Len(socket[q])
=============================================================================
