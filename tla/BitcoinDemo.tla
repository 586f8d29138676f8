----------------------------- MODULE BitcoinDemo -----------------------------
(***************************************************************************)
(* The Bitcoin demo in Java (22051216, bitcoindemo/): wallets that pay from *)
(* unspent outputs, a block that processes the transactions added to it,   *)
(* mining with an adjusted difficulty, and the validation of the chain.    *)
(* The demo pays to and fro, one payment a block; the model has any wallet  *)
(* pay any amount, any number of times a block, which the classes allow.    *)
(* One thread; what is open is which outputs a wallet's HashMap yields     *)
(* first, how many zeros a hash happens to begin with, and how long mining *)
(* takes.  A hash stands for what was hashed.                              *)
(***************************************************************************)
EXTENDS Integers, SequencesExt, FiniteSetsExt

CONSTANTS
  Wallets,    \* the wallets; they pay each other
  First,      \* the wallet the genesis transaction pays
  Genesis,    \* what it is paid
  Costs,      \* bound: the amounts of payments
  Times,      \* bound: how long mining a block may take
  targetTime, \* the mining time aimed at
  Window,     \* how many times the average is taken over
  MaxBlocks,  \* bound: blocks after the first
  MaxSequence \* bound: numbered transactions

VARIABLES
  UTXOs,     \* Main.UTXOs; an output's id is the hash of all its fields
  wallet,    \* Wallet.UTXOs of each wallet: the outputs it knows to be its own
  sequence,  \* Transaction.sequence
  block,     \* the block under construction, or NoBlock
  blockChain, difficulty, timeCost

vars == <<UTXOs, wallet, sequence, block, blockChain, difficulty, timeCost>>

Output(recipient, value, parent) == [recipient |-> recipient, value |-> value, parent |-> parent]
Value(outputs) == MapThenSumSet(LAMBDA u : u.value, outputs)

NoBlock == [at |-> "none"]

-----------------------------------------------------------------------------
(* MerkleTree: a level is hashed in pairs, an odd last one alone. *)
getNewTxList(txs) ==
  [i \in 1 .. (Len(txs) + 1) \div 2 |->
     IF 2 * i <= Len(txs) THEN <<"sha256", txs[2 * i - 1], txs[2 * i]>> ELSE <<"sha256", txs[2 * i - 1]>>]

buildTree(txs) ==
  LET level[n \in 0 .. Len(txs)] == IF n = 0 THEN txs ELSE
        IF Len(level[n - 1]) > 1 THEN getNewTxList(level[n - 1]) ELSE level[n - 1]
  IN  IF txs = << >> THEN << >> ELSE level[Len(txs)][1]

TxHashes(b) == [i \in DOMAIN b.transactions |-> b.transactions[i].txHash]

(* Block.calculateHash.  The number of the block stands for its time stamp. *)
(* The nonce is 0 in a new block and 1 for the one mining finds; zeros are  *)
(* those the hash begins with.                                              *)
calculateHash(b, zeros) ==
  [previousHash |-> b.previousHash, number |-> b.number, nonce |-> b.nonce, merkleRoot |-> b.merkleRoot,
   zeros |-> zeros]

(* The constructor hashes a block without transactions. *)
NewBlock(number, previousHash, zeros) ==
  LET b == [at |-> "open", number |-> number, previousHash |-> previousHash, nonce |-> 0,
            merkleRoot |-> << >>, transactions |-> << >>, hash |-> << >>]
  IN  [b EXCEPT !.hash = calculateHash(b, zeros)]

(* Mutant of mineBlock: the Merkle root is only taken after the block is    *)
(* mined.                                                                   *)
mineBlockUnrooted(b, target, zeros) ==
  IF b.hash.zeros >= target THEN [b EXCEPT !.merkleRoot = buildTree(TxHashes(b))]
  ELSE [b EXCEPT !.hash = calculateHash([b EXCEPT !.nonce = 1], zeros), !.nonce = 1,
                 !.merkleRoot = buildTree(TxHashes(b))]

(* mineBlock: a hash that meets the target from the start is kept. *)
mineBlock(b, target, zeros) ==
  LET rooted == [b EXCEPT !.merkleRoot = buildTree(TxHashes(b))]
  IN  IF b.hash.zeros >= target THEN rooted
      ELSE [rooted EXCEPT !.nonce = 1, !.hash = calculateHash([rooted EXCEPT !.nonce = 1], zeros)]

-----------------------------------------------------------------------------
(* genesis: its transaction is added without being processed, and its       *)
(* block mined at the first difficulty, which is 4.                         *)
GenesisHash   == [sender |-> "baseCoin", recipient |-> First, value |-> Genesis, sequence |-> 0] \* "0"
GenesisOutput == Output(First, Genesis, GenesisHash)

GenesisBlock ==
  LET b == [NewBlock(0, "0", 0) EXCEPT !.transactions =
              << [sender |-> "baseCoin", recipient |-> First, value |-> Genesis, txHash |-> GenesisHash,
                  inputs |-> {}, found |-> {}, outputs |-> <<GenesisOutput>>] >>]
  IN  mineBlock(b, 4, 4)

Init ==
  /\ UTXOs = {GenesisOutput}
  /\ wallet = [w \in Wallets |-> {}]
  /\ sequence = 0 /\ block = NoBlock
  /\ blockChain = <<GenesisBlock>>
  /\ difficulty = 4 /\ timeCost = << >>

-----------------------------------------------------------------------------
(* getBalance also takes the wallet's outputs over, and never drops one. *)
getBalance(w, known) == known \cup {u \in UTXOs : u.recipient = w}

(* The inputs sendFunds may choose: it goes through the known outputs in    *)
(* any order until they exceed the value, or there are no more.             *)
Inputs(known, value) ==
  {s \in SUBSET known :
     /\ s = {} \/ \E last \in s : Value(s \ {last}) <= value
     /\ s = known \/ Value(s) > value}

(* trans, first part: a new block. *)
StartBlock ==
  /\ block = NoBlock /\ Len(blockChain) <= MaxBlocks
  /\ \E zeros \in {0, difficulty} :
       block' = NewBlock(Len(blockChain), blockChain[Len(blockChain)].hash, zeros)
  /\ UNCHANGED <<UTXOs, wallet, sequence, blockChain, difficulty, timeCost>>

(* Mutant of Leftover: what is paid is not taken off. *)
LeftoverAll(found, value) == Value(found)

Leftover(found, value) == Value(found) - value

(* processTransaction: an input that is not in UTXOs any more counts for    *)
(* nothing.  Amounts are whole, the minimum of 0.1 is any but none.         *)
processTransaction(sender, recipient, value, inputs) ==
  LET found    == inputs \cap UTXOs
      numbered == Value(found) >= 1
      hash     == [sender |-> sender, recipient |-> recipient, value |-> value, sequence |-> sequence + 1]
      ok       == numbered /\ Value(found) - value >= 0
      outputs  == <<Output(recipient, value, hash), Output(sender, Leftover(found, value), hash)>>
  IN  /\ sequence' = IF numbered THEN sequence + 1 ELSE sequence
      /\ IF ok
         THEN /\ UTXOs' = (UTXOs \cup {outputs[1], outputs[2]}) \ found
              /\ block' = [block EXCEPT !.transactions =
                             Append(@, [sender |-> sender, recipient |-> recipient, value |-> value,
                                        inputs |-> inputs, txHash |-> hash, found |-> found,
                                        outputs |-> outputs])]
         ELSE UNCHANGED <<UTXOs, block>>

(* Mutant of Kept: the inputs of a payment stay in the wallet. *)
KeptAll(known, inputs) == known

(* What sendFunds leaves in the wallet. *)
Kept(known, inputs) == known \ inputs

(* sendFunds goes on when the balance is too small; the transaction is then *)
(* refused by addTransaction, and the wallet has forgotten its inputs until *)
(* the next getBalance.                                                     *)
sendFunds(pay, get, value) ==
  LET known == getBalance(pay, wallet[pay])
  IN  /\ block # NoBlock /\ sequence < MaxSequence
      /\ \E inputs \in Inputs(known, value) :
           /\ wallet' = [wallet EXCEPT ![pay] = Kept(known, inputs)]
           /\ processTransaction(pay, get, value, inputs)
      /\ UNCHANGED <<blockChain, difficulty, timeCost>>

-----------------------------------------------------------------------------
(* The times of the last blocks. *)
Recorded(time) == Append(IF Len(timeCost) = Window THEN Tail(timeCost) ELSE timeCost, time)

(* getDifficulty: the difficulty after the times costs; a mean of 0 makes   *)
(* the quotient infinite.                                                   *)
getDifficulty(costs) ==
  LET per == FoldSet(LAMBDA i, sum : costs[i] + sum, 0, DOMAIN costs) \div Window
      raw == IF per = 0 THEN 5 ELSE (targetTime * difficulty) \div per
  IN  IF Len(costs) < Window THEN difficulty
      ELSE IF raw >= 5 THEN 5 ELSE IF raw <= 3 THEN 3 ELSE raw

(* trans, last part: addBlock, the times, the balances of both wallets, and *)
(* the new difficulty.                                                      *)
addBlock(time) ==
  /\ block # NoBlock
  /\ blockChain' = Append(blockChain, mineBlock(block, difficulty, difficulty))
  /\ block' = NoBlock
  /\ timeCost' = Recorded(time)
  /\ difficulty' = getDifficulty(timeCost')
  /\ wallet' = [w \in Wallets |-> getBalance(w, wallet[w])]
  /\ UNCHANGED <<UTXOs, sequence>>

Next ==
  \/ StartBlock
  \/ \E pay, get \in Wallets, value \in Costs : pay # get /\ sendFunds(pay, get, value)
  \/ \E time \in Times : addBlock(time)

Spec == Init /\ [][Next]_vars

-----------------------------------------------------------------------------
(* isBlockChainValid *)

(* Whether the transactions of the blocks bs pass, and what they leave. *)
Replayed(bs) ==
  LET txs == FlattenSeq([i \in DOMAIN bs |-> bs[i].transactions])
      left[n \in 0 .. Len(txs)] ==
        IF n = 0 THEN [valid |-> TRUE, utxos |-> {GenesisOutput}]
        ELSE LET t == txs[n]
             IN  IF \/ ~left[n - 1].valid
                    \/ Value(t.found) # Value({t.outputs[1]}) + Value({t.outputs[2]})
                    \/ ~t.inputs \subseteq left[n - 1].utxos
                    \/ t.outputs[1].recipient # t.recipient \/ t.outputs[2].recipient # t.sender
                 THEN [left[n - 1] EXCEPT !.valid = FALSE]
                 ELSE [left[n - 1] EXCEPT !.utxos = (@ \ t.inputs) \cup {t.outputs[1], t.outputs[2]}]
  IN  left[Len(txs)]

(* The hash of block i, compared with the difficulty of now. *)
HashValid(i) ==
  /\ blockChain[i].hash = calculateHash(blockChain[i], blockChain[i].hash.zeros)
  /\ blockChain[i].previousHash = blockChain[i - 1].hash
  /\ blockChain[i].hash.zeros >= difficulty

isBlockChainValid ==
  /\ \A i \in 2 .. Len(blockChain) : HashValid(i)
  /\ Replayed(Tail(blockChain)).valid

-----------------------------------------------------------------------------
(* Properties *)

(* Main.UTXOs is what the transactions of the chain and of the open block   *)
(* leave unspent, and all of them keep the rules of isBlockChainValid: none *)
(* makes coins, or spends an output twice (processTransaction).             *)
ReplayGivesUTXOs ==
  Replayed(Tail(blockChain) \o (IF block = NoBlock THEN << >> ELSE <<block>>))
    = [valid |-> TRUE, utxos |-> UTXOs]

(* A wallet knows no output that was spent, so that it never pays with one  *)
(* again (getBalance, sendFunds).                                           *)
WalletsUpToDate == \A w \in Wallets : wallet[w] \subseteq {u \in UTXOs : u.recipient = w}

(* Each block names the hash of the one before it, and its own hash covers  *)
(* its Merkle root, unless it was lucky: created, before it had             *)
(* transactions, with a hash that met the target (trans, mineBlock).        *)
BlocksLinked ==
  \A i \in 2 .. Len(blockChain) :
    /\ blockChain[i].previousHash = blockChain[i - 1].hash
    /\ \/ blockChain[i].hash = calculateHash(blockChain[i], blockChain[i].hash.zeros)
       \/ blockChain[i].nonce = 0 /\ blockChain[i].transactions # << >>

(* The program's own validation accepts the chain after every block, except *)
(* when the difficulty is now higher than it was for some block, or a block *)
(* with a transaction was created with a hash that met the target, which    *)
(* mineBlock keeps although it does not cover the Merkle root.              *)
ValidUnlessRaisedOrLucky ==
  \/ isBlockChainValid
  \/ \E i \in 2 .. Len(blockChain) :
       \/ blockChain[i].hash.zeros < difficulty
       \/ blockChain[i].nonce = 0 /\ blockChain[i].transactions # << >>
=============================================================================
