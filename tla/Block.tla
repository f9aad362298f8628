-------------------------------- MODULE Block -------------------------------
(***************************************************************************)
(* internal/block: what a block is, how it hashes, and the Merkle root of  *)
(* its transactions.                                                       *)
(*                                                                         *)
(* SHA-256 is symbolic: the hash of a value is a tuple that contains the   *)
(* value, so two hashes are equal exactly when the hashed values are.  The *)
(* number of leading zero digits of a block hash, which nothing but a      *)
(* search can steer, is the constant operator LeadingZeros.                *)
(***************************************************************************)
EXTENDS Ledger

CONSTANTS
    LeadingZeros(_),    \* leading zero digits of a block hash
    GenesisTimestamp    \* block 0's hard-coded time, in seconds

Zeros == <<"zeros">>            \* sixty-four zero digits

GenesisPrevHash == Zeros
EmptyMerkleRoot == Zeros

TxHash(tx) == <<"tx", SigningBytes(tx), tx.sig>>

PairHash(left, right) == <<"pair", left, right>>

\* Mutant (an odd node is left out).
NextLevelEven(level) ==
    [i \in 1..(Len(level) \div 2) |-> PairHash(level[2 * i - 1], level[2 * i])]

(***************************************************************************)
(* One round of the Merkle reduction: hash neighbours together, an odd     *)
(* node out with itself.                                                   *)
(***************************************************************************)
NextLevel(level) ==
    [i \in 1..((Len(level) + 1) \div 2) |->
        PairHash(level[2 * i - 1],
                 level[IF 2 * i <= Len(level) THEN 2 * i ELSE 2 * i - 1])]

(***************************************************************************)
(* Rounds are repeated until one node is left; Len(txs) rounds are enough. *)
(***************************************************************************)
MerkleRoot(txs) ==
    LET level[r \in 0..Len(txs)] ==
            IF r = 0 THEN [i \in 1..Len(txs) |-> TxHash(txs[i])]
            ELSE IF Len(level[r - 1]) > 1 THEN NextLevel(level[r - 1])
                 ELSE level[r - 1]
    IN  IF txs = << >> THEN EmptyMerkleRoot ELSE level[Len(txs)][1]

\* Mutant (the timestamp is not hashed).
ComputeHashUntimed(b) ==
    <<"block", b.height, 0, b.prevHash, b.merkleRoot, b.difficulty, b.nonce>>

ComputeHash(b) ==
    <<"block", b.height, b.timestamp, b.prevHash, b.merkleRoot,
      b.difficulty, b.nonce>>

Unmined == <<"unmined">>        \* the empty Hash field of a new block

NewBlock(height, prevHash, txs, difficulty, timestamp) ==
    [height       |-> height,
     timestamp    |-> timestamp,
     transactions |-> txs,
     merkleRoot   |-> MerkleRoot(txs),
     prevHash     |-> prevHash,
     difficulty   |-> difficulty,
     nonce        |-> 0,
     hash         |-> Unmined]

(***************************************************************************)
(* The block with its two mined fields filled in.                          *)
(***************************************************************************)
Sealed(b, nonce) ==
    LET n == [b EXCEPT !.nonce = nonce]
    IN  [n EXCEPT !.hash = ComputeHash(n)]

Genesis == Sealed(NewBlock(0, GenesisPrevHash, << >>, 0, GenesisTimestamp), 0)

ASSUME BlockAssumption ==
    /\ GenesisTimestamp \in Nat
    /\ LeadingZeros(Genesis.hash) \in Nat

HasValidHash(b) == b.hash = ComputeHash(b)

HasValidMerkleRoot(b) == b.merkleRoot = MerkleRoot(b.transactions)

MeetsDifficulty(hash, difficulty) == LeadingZeros(hash) >= difficulty
=============================================================================
