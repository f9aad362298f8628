----------------------------- MODULE Validation -----------------------------
(***************************************************************************)
(* internal/chain/validate.go: the rules a stored chain is checked against *)
(* and the balances that replaying it gives.  TLA+ sequences start at 1,   *)
(* so block number i of the code is blocks[i + 1] here.                    *)
(***************************************************************************)
EXTENDS Block

(***************************************************************************)
(* The balances after 0, 1, 2, ... blocks, as Load and Validate replay     *)
(* them, and after all of them.                                            *)
(***************************************************************************)
ReplaySteps(blocks) ==
    LET state[i \in 0..Len(blocks)] ==
            IF i = 0 THEN NewState
            ELSE ApplyAll(state[i - 1], blocks[i].transactions)
    IN  state

Replay(blocks) == ReplaySteps(blocks)[Len(blocks)]

GenesisOK(blocks) ==
    /\ blocks # << >>
    /\ blocks[1].hash = Genesis.hash
    /\ blocks[1].prevHash = GenesisPrevHash

(***************************************************************************)
(* What each rule says of block i.  Height, timestamp and link relate a    *)
(* block to its predecessor and are not asked of the first one.            *)
(***************************************************************************)
Rules(blocks, i) ==
    LET b    == blocks[i]
        prev == blocks[i - 1]
    IN  [height     |-> i > 1 => b.height = prev.height + 1,
         timestamp  |-> i > 1 => b.timestamp >= prev.timestamp,
         link       |-> i > 1 => b.prevHash = prev.hash,
         merkle     |-> HasValidMerkleRoot(b),
         hash       |-> HasValidHash(b),
         difficulty |-> MeetsDifficulty(b.hash, b.difficulty),
         ledger     |-> Fits(ReplaySteps(blocks)[i - 1], b.transactions)]

RuleOrder == <<"height", "timestamp", "link", "merkle", "hash",
               "difficulty", "ledger">>

(***************************************************************************)
(* Validate returns no error exactly when every rule holds of every block. *)
(***************************************************************************)
Valid(blocks) ==
    /\ GenesisOK(blocks)
    /\ \A i \in 1..Len(blocks) :
           LET r == Rules(blocks, i)
           IN  /\ r.height /\ r.timestamp /\ r.link
               /\ r.merkle /\ r.hash /\ r.difficulty /\ r.ledger

(***************************************************************************)
(* The block and the rule that a ValidationError names: the first failure  *)
(* in chain order, and within a block in rule order.                       *)
(***************************************************************************)
Least(S) == CHOOSE n \in S : \A m \in S : n <= m

FailedRules(blocks, i) ==
    LET r == Rules(blocks, i) IN {k \in 1..7 : ~r[RuleOrder[k]]}

\* Mutant (the last faulty block is named).
VerdictOnLast(blocks) ==
    LET faulty == {i \in 1..Len(blocks) : FailedRules(blocks, i) # {}}
        i      == CHOOSE n \in faulty : \A m \in faulty : n >= m
    IN  IF ~GenesisOK(blocks) THEN [at |-> 1, check |-> "genesis"]
        ELSE IF faulty = {} THEN [at |-> 0, check |-> "none"]
        ELSE [at |-> i, check |-> RuleOrder[Least(FailedRules(blocks, i))]]

Verdict(blocks) ==
    LET faulty == {i \in 1..Len(blocks) : FailedRules(blocks, i) # {}}
        first  == Least(faulty)
    IN  IF ~GenesisOK(blocks) THEN [at |-> 1, check |-> "genesis"]
        ELSE IF faulty = {} THEN [at |-> 0, check |-> "none"]
        ELSE [at |-> first,
              check |-> RuleOrder[Least(FailedRules(blocks, first))]]
=============================================================================
