-------------------------------- MODULE Audit -------------------------------
(***************************************************************************)
(* What internal/chain/validate.go says of a stored chain that was edited. *)
(* The chain file is meant to be opened and edited by hand for this        *)
(* experiment (store.go), and validate_test.go does it at every level of   *)
(* repair.  The chains edited here are all those that Chain builds.        *)
(***************************************************************************)
EXTENDS Chain

-----------------------------------------------------------------------------
(* Edits.                                                                  *)

(***************************************************************************)
(* The bodies that one edit makes of a body: an amount is changed, a       *)
(* transaction is taken out, moved to the end, or the last one repeated.   *)
(***************************************************************************)
Without(txs, k) == SubSeq(txs, 1, k - 1) \o SubSeq(txs, k + 1, Len(txs))

TailRepeated(txs) == Append(txs, txs[Len(txs)])

EditedBodies(txs) ==
    ( {[txs EXCEPT ![k].amount = @ + d] : k \in DOMAIN txs, d \in {-1, 1}}
      \union {Without(txs, k) : k \in DOMAIN txs}
      \union {Append(Without(txs, k), txs[k]) : k \in DOMAIN txs}
      \union (IF txs = << >> THEN {} ELSE {TailRepeated(txs)}) ) \ {txs}

(***************************************************************************)
(* How far the edit of a block is then repaired.                           *)
(***************************************************************************)
Edited(b, txs) == [b EXCEPT !.transactions = txs]
RootRepaired(b, txs) == [Edited(b, txs) EXCEPT !.merkleRoot = MerkleRoot(txs)]
Rehashed(b, txs, nonce) == Sealed(RootRepaired(b, txs), nonce)

(***************************************************************************)
(* Chains are edited when nothing is pending and nothing is being mined:   *)
(* every chain of blocks can be built without leaving anything behind.     *)
(***************************************************************************)
AtRest == pool = << >> /\ candidate = NoBlock

EditedAt(i, b) == [blocks EXCEPT ![i] = b]

(***************************************************************************)
(* Blocks whose header was edited, and whose hash was repaired or not.     *)
(***************************************************************************)
EditedHeaders(b) ==
    LET e == {[b EXCEPT !.height = @ + 1],
              [b EXCEPT !.timestamp = @ + 1],
              [b EXCEPT !.prevHash = Zeros],
              [b EXCEPT !.difficulty = 0]}
    IN  e \union {Sealed(x, n) : x \in e, n \in Nonces}

-----------------------------------------------------------------------------
(* Properties.                                                             *)

(***************************************************************************)
(* "Each rule closes the escape route opened by fixing the previous one"   *)
(* (validate.go): an edited body is reported as such; with its root        *)
(* repaired, the hash is; with that repaired too, the missing proof of     *)
(* work, or a transaction that cannot be paid, or else the link of the     *)
(* next block.  Only at the tip can nothing be left to report.             *)
(***************************************************************************)
At(i, check) == [at |-> i, check |-> check]

EditsAreReported ==
    AtRest /\ Valid(blocks) =>
        \A i \in 2..Len(blocks) : \A txs \in EditedBodies(blocks[i].transactions) :
            MerkleRoot(txs) # blocks[i].merkleRoot =>
                /\ Verdict(EditedAt(i, Edited(blocks[i], txs))) = At(i, "merkle")
                /\ Verdict(EditedAt(i, RootRepaired(blocks[i], txs))) = At(i, "hash")
                /\ \A n \in Nonces :
                      LET b == Rehashed(blocks[i], txs, n)
                      IN  Verdict(EditedAt(i, b)) =
                            IF ~MeetsDifficulty(b.hash, b.difficulty)
                            THEN At(i, "difficulty")
                            ELSE IF ~Fits(Replay(SubSeq(blocks, 1, i - 1)), txs)
                            THEN At(i, "ledger")
                            ELSE IF i < Len(blocks) THEN At(i + 1, "link")
                            ELSE At(0, "none")

(***************************************************************************)
(* "The root still summarises the transactions actually stored" (rule 5),  *)
(* with one exception: a body of more than one transaction, odd in number, *)
(* has the root of the same body with its last transaction repeated, as an *)
(* odd node is paired with itself.  Such an edit is left to the ledger.    *)
(* (Every block was the tip once.)  The bodies are those in which no two   *)
(* transactions are the same, which is what Timestamp is there for         *)
(* (transaction.go); where two are, the last of them can be taken out too. *)
(***************************************************************************)
AllDifferent(txs) == \A j, k \in DOMAIN txs : txs[j] = txs[k] => j = k

RootMissesOnlyARepeatedTail ==
    AtRest /\ Height > 0 /\ AllDifferent(Tip.transactions) =>
        LET txs == Tip.transactions
        IN  \A e \in EditedBodies(txs) :
               MerkleRoot(e) = MerkleRoot(txs) <=>
                    /\ e = TailRepeated(txs)
                    /\ Len(txs) > 1 /\ Len(txs) % 2 = 1

(***************************************************************************)
(* The hash of the tip commits to the history behind it: a chain that      *)
(* validates and ends in the same hash has the same blocks, up to the      *)
(* bodies that share a Merkle root.  ("The genesis block is byte-for-byte  *)
(* the canonical one" is the case of a chain of one.)                      *)
(***************************************************************************)
SameHeaders(a, b) ==
    /\ Len(a) = Len(b)
    /\ \A i \in 1..Len(a) : Edited(a[i], << >>) = Edited(b[i], << >>)

CommitsTo(a, b) ==
    Valid(a) /\ Valid(b) /\ a[Len(a)].hash = b[Len(b)].hash => SameHeaders(a, b)

TipHashCommits ==
    AtRest =>
        \A i \in 1..Len(blocks) :
            /\ \A b \in EditedHeaders(blocks[i]) :
                  CommitsTo(blocks, EditedAt(i, b))
            /\ \A txs \in EditedBodies(blocks[i].transactions) :
                  CommitsTo(blocks, EditedAt(i, Edited(blocks[i], txs)))
=============================================================================
