-------------------------------- MODULE Chain -------------------------------
(***************************************************************************)
(* internal/chain/chain.go: one node's chain of blocks, the balances they  *)
(* imply and the queue of pending transactions, under a wall clock.        *)
(*                                                                         *)
(* Mine is two steps, because the proof of work between them takes time:   *)
(* MineBegin assembles the candidate block and reads the clock, MineEnd    *)
(* appends it once a nonce is found, MineAbort is an unsuccessful search.  *)
(* The callers (the HTTP server under its mutex, the single-threaded CLI)  *)
(* start no other operation on the chain while a search runs; the clock    *)
(* goes on.  An operation that the code refuses changes nothing and is not *)
(* an action.                                                              *)
(***************************************************************************)
EXTENDS Validation, FiniteSets

CONSTANTS
    Configs,           \* the settings a node may be started with
    Nonces,            \* the nonces a search may try
    TicksPerSecond,    \* the clock has a finer unit than a block's timestamp
    ClockStepsBack,    \* whether the wall clock may be set back (or be wrong)
    Amounts,           \* amounts asked for in requests
    MaxHeight,         \* bound: blocks mined
    MaxClock,          \* bound: clock readings
    NoBlock            \* no search is running

(***************************************************************************)
(* The settings a chain reads, as config.Validate leaves them: the block   *)
(* size counts the reward, and a reward of nothing is left out.            *)
(***************************************************************************)
Config == [Difficulty : Nat, MaxTxPerBlock : Nat \ {0},
           MiningReward : 0..MaxInt64, MinerAddress : Accounts]

ASSUME ChainAssumption ==
    /\ Configs \subseteq Config
    /\ Nonces \subseteq Nat
    /\ TicksPerSecond \in Nat \ {0}
    /\ ClockStepsBack \in BOOLEAN
    /\ Amounts \subseteq Int64
    /\ MaxHeight \in Nat
    /\ MaxClock \in Nat

VARIABLES
    blocks,      \* the chain, genesis first
    balances,    \* the state derived from it
    pool,        \* accepted transactions waiting for a block
    cfg,         \* the settings of the running process
    up,          \* whether there is one: a start may have been refused
    clock,       \* the wall clock
    candidate,   \* the block being mined, or NoBlock
    fromPool,    \* how many of the candidate's transactions came off the pool
    accepted,    \* history: every transaction accepted, in order
    rewards      \* history: how many rewards each block was given

chainVars == <<blocks, balances, pool>>
process == <<cfg, up>>
searchVars == <<candidate, fromPool>>
history == <<accepted, rewards>>
vars == <<chainVars, process, clock, searchVars, history>>

\* Mutant (the first block is taken for the last).
TipIsFirst == blocks[1]

Tip == blocks[Len(blocks)]
Height == Tip.height

Unix(t) == t \div TicksPerSecond

-----------------------------------------------------------------------------
(***************************************************************************)
(* New.  A trustworthy clock starts no earlier than the genesis block.     *)
(***************************************************************************)
Init ==
    /\ blocks = <<Genesis>>
    /\ balances = NewState
    /\ pool = << >>
    /\ cfg \in Configs
    /\ up = TRUE
    /\ clock \in 0..MaxClock
    /\ ~ClockStepsBack => Unix(clock) >= GenesisTimestamp
    /\ candidate = NoBlock
    /\ fromPool = 0
    /\ accepted = << >>
    /\ rewards = <<0>>

(***************************************************************************)
(* Bound: transactions are accepted only while a chain of MaxHeight blocks *)
(* has room for them, even at one to a block.                              *)
(***************************************************************************)
RoomToMine == Height + Len(pool) < MaxHeight

\* Mutant (Add applies to the confirmed balances, not to a copy).
AddWithoutClone(tx) ==
    /\ up
    /\ candidate = NoBlock
    /\ RoomToMine
    /\ CanAdd(pool, tx, balances)
    /\ balances' = Apply(balances, tx)
    /\ pool' = Append(pool, tx)
    /\ accepted' = Append(accepted, tx)
    /\ UNCHANGED <<blocks, process, clock, searchVars, rewards>>

(***************************************************************************)
(* Mempool.Add on behalf of AddTransaction and Faucet.                     *)
(***************************************************************************)
Add(tx) ==
    /\ up
    /\ candidate = NoBlock
    /\ RoomToMine
    /\ CanAdd(pool, tx, balances)
    /\ pool' = Append(pool, tx)
    /\ accepted' = Append(accepted, tx)
    /\ UNCHANGED <<blocks, balances, process, clock, searchVars, rewards>>

(***************************************************************************)
(* Callers sign a transfer with the sender's key just before adding it.    *)
(***************************************************************************)
AddTransaction(from, to, amount) ==
    Add(Sign(from, NewTransfer(from, to, amount, clock)))

Faucet(to, amount) == Add(NewCoinbase(to, amount, clock))

(***************************************************************************)
(* buildBody: the reward first, then the head of the queue.                *)
(***************************************************************************)
Reward == IF cfg.MiningReward > 0
          THEN <<NewCoinbase(cfg.MinerAddress, cfg.MiningReward, clock)>>
          ELSE << >>

\* Mutant (the slot of the reward is set aside twice).
QueuedBehindTwo == Peek(pool, cfg.MaxTxPerBlock - 2 * Len(Reward))

Queued == Peek(pool, cfg.MaxTxPerBlock - Len(Reward))

\* Mutant (the reward is counted as coming from the pool).
MineBeginCountsReward ==
    /\ up
    /\ candidate = NoBlock
    /\ Height < MaxHeight
    /\ Fits(balances, Reward \o Queued)
    /\ candidate' = NewBlock(Height + 1, Tip.hash, Reward \o Queued,
                             cfg.Difficulty, Unix(clock))
    /\ fromPool' = Len(Reward \o Queued)
    /\ UNCHANGED <<chainVars, process, clock, history>>

MineBegin ==
    /\ up
    /\ candidate = NoBlock
    /\ Height < MaxHeight
    /\ Fits(balances, Reward \o Queued)
    /\ candidate' = NewBlock(Height + 1, Tip.hash, Reward \o Queued,
                             cfg.Difficulty, Unix(clock))
    /\ fromPool' = Len(Queued)
    /\ UNCHANGED <<chainVars, process, clock, history>>

(***************************************************************************)
(* How many of a body's transactions are rewards: the settings stay while  *)
(* a search runs.                                                          *)
(***************************************************************************)
RewardSlots == IF cfg.MiningReward > 0 THEN 1 ELSE 0

(***************************************************************************)
(* The search succeeds: the block is applied, appended and its share of    *)
(* the pool dropped.                                                       *)
(***************************************************************************)
MineEnd ==
    /\ candidate # NoBlock
    /\ Fits(balances, candidate.transactions)
    /\ \E nonce \in Nonces :
          LET mined == Sealed(candidate, nonce)
          IN  /\ MeetsDifficulty(mined.hash, mined.difficulty)
              /\ blocks' = Append(blocks, mined)
    /\ balances' = ApplyAll(balances, candidate.transactions)
    /\ pool' = Remove(pool, fromPool)
    /\ candidate' = NoBlock
    /\ fromPool' = 0
    /\ rewards' = Append(rewards, RewardSlots)
    /\ UNCHANGED <<process, clock, accepted>>

(***************************************************************************)
(* The context was cancelled, or no nonce is good enough.                  *)
(***************************************************************************)
MineAbort ==
    /\ candidate # NoBlock
    /\ candidate' = NoBlock
    /\ fromPool' = 0
    /\ UNCHANGED <<chainVars, process, clock, history>>

(***************************************************************************)
(* The process ends and another one loads what it saved, perhaps under     *)
(* other settings: Load validates the blocks, replays them, and re-adds    *)
(* the pending transactions that still fit.                                *)
(***************************************************************************)
Reload ==
    /\ up
    /\ candidate = NoBlock
    /\ Valid(blocks)
    /\ balances' = Replay(blocks)
    /\ pool' = Readmit(pool, Replay(blocks))
    /\ cfg' \in Configs
    /\ UNCHANGED <<blocks, up, clock, searchVars, history>>

(***************************************************************************)
(* Load refuses a chain that does not validate, and no process comes up.   *)
(* What is left is the file: from here on blocks and pool are what it      *)
(* holds, and every later start reads the same and is refused alike.       *)
(***************************************************************************)
ReloadRefused ==
    /\ up
    /\ candidate = NoBlock
    /\ ~Valid(blocks)
    /\ up' = FALSE
    /\ UNCHANGED <<chainVars, cfg, clock, searchVars, history>>

(***************************************************************************)
(* Time passes; a clock that is not trusted may also be set back.          *)
(***************************************************************************)
Tick ==
    /\ clock < MaxClock
    /\ clock' = clock + 1
    /\ UNCHANGED <<chainVars, process, searchVars, history>>

StepBack ==
    /\ ClockStepsBack
    /\ clock' \in 0..(clock - 1)
    /\ UNCHANGED <<chainVars, process, searchVars, history>>

Next ==
    \/ \E from, to \in Accounts, amount \in Amounts :
          AddTransaction(from, to, amount)
    \/ \E to \in Accounts, amount \in Amounts : Faucet(to, amount)
    \/ MineBegin
    \/ MineEnd
    \/ MineAbort
    \/ Reload
    \/ ReloadRefused
    \/ Tick
    \/ StepBack

Spec == Init /\ [][Next]_vars

-----------------------------------------------------------------------------
(* Observations of the history, used to state properties.                  *)

(***************************************************************************)
(* All transactions of a list of blocks, after dropping the first k[i] of  *)
(* block i.                                                                *)
(***************************************************************************)
BodiesWithout(k, bs) ==
    LET upTo[i \in 0..Len(bs)] ==
            IF i = 0 THEN << >>
            ELSE LET txs == bs[i].transactions
                 IN  upTo[i - 1] \o SubSeq(txs, k[i] + 1, Len(txs))
    IN  upTo[Len(bs)]

Book    == BodiesWithout([i \in DOMAIN blocks |-> 0], blocks)
Settled == BodiesWithout(rewards, blocks)

(***************************************************************************)
(* The coins the coinbase transactions of a sequence create.               *)
(***************************************************************************)
Minted(txs) ==
    LET upTo[i \in 0..Len(txs)] ==
            IF i = 0 THEN 0
            ELSE upTo[i - 1] + (IF IsCoinbase(txs[i]) THEN txs[i].amount ELSE 0)
    IN  upTo[Len(txs)]

Members(s) == {s[i] : i \in DOMAIN s}

IsSequence(s) == s \in Seq(Members(s))

-----------------------------------------------------------------------------
(* Properties.                                                             *)

(***************************************************************************)
(* Type correctness: balances stay within 0..MaxInt64 (no account is ever  *)
(* overdrawn or wrapped), and the queue, the blocks and the candidate hold *)
(* well-typed transactions.  Code: the fields of the Go struct Chain.      *)
(***************************************************************************)
IsBody(txs) == txs \in Seq(Transaction)

IsHeader(b) == b.height \in Nat /\ b.timestamp \in Nat /\ b.difficulty \in Nat

TypeOK ==
    /\ IsSequence(blocks) /\ blocks # << >>
    /\ \A i \in 1..Len(blocks) :
          IsHeader(blocks[i]) /\ IsBody(blocks[i].transactions)
    /\ balances \in State
    /\ pool \in Seq(Transaction)
    /\ cfg \in Configs
    /\ up \in BOOLEAN
    /\ clock \in 0..MaxClock
    /\ candidate # NoBlock =>
          IsHeader(candidate) /\ IsBody(candidate.transactions)
    /\ fromPool \in Nat
    /\ accepted \in Seq(Transaction)
    /\ rewards \in Seq({0, 1}) /\ Len(rewards) = Len(blocks)

(***************************************************************************)
(* A chain that this code built passes its own validation, so the file it  *)
(* saves can be loaded again and no start is ever refused: chain_test.go   *)
(* asserts it of a mined chain, and Load refuses anything else.  It needs  *)
(* a clock that is trusted.                                                *)
(***************************************************************************)
ChainAlwaysValid == Valid(blocks) /\ up

(***************************************************************************)
(* "State is derived data": the balances kept in memory are the ones that  *)
(* replaying every block from genesis gives (state.go, chain.Load).        *)
(***************************************************************************)
BalancesAreReplay == balances = Replay(blocks)

(***************************************************************************)
(* Nothing accepted is lost, duplicated or reordered: the transactions     *)
(* settled by blocks, rewards apart, followed by the queue are exactly the *)
(* ones accepted, across Peek, Remove, aborted searches and reloads.       *)
(***************************************************************************)
AcceptedInOrder == accepted = Settled \o pool

(***************************************************************************)
(* The queue always fits the confirmed balances, so that it can be mined   *)
(* and Mempool.Add never reports "pending pool is stale".                  *)
(***************************************************************************)
PoolNeverStale == Fits(balances, pool)

(***************************************************************************)
(* The reported supply "must only ever grow by the coinbase amounts that   *)
(* were minted" (state.go, Supply).                                        *)
(***************************************************************************)
SupplyIsMinted == Supply(balances) = Minted(Book)

(***************************************************************************)
(* While a search runs the candidate stays the right next block: it still  *)
(* extends the tip, still applies (the second ApplyAll of Mine is marked   *)
(* unreachable on failure), and still carries the head of the queue.       *)
(***************************************************************************)
CandidateStaysGood ==
    candidate # NoBlock =>
        /\ candidate.prevHash = Tip.hash /\ candidate.height = Height + 1
        /\ Fits(balances, candidate.transactions)
        /\ SubSeq(candidate.transactions, RewardSlots + 1,
                  Len(candidate.transactions)) = Peek(pool, fromPool)

(***************************************************************************)
(* The inductive invariant from which the theorems of ChainProofs follow.  *)
(* Beside the properties themselves it says what ties a running search to  *)
(* the chain: the candidate is what block.New made, and, when the clock is *)
(* trusted, its timestamp lies between the tip's and the present.          *)
(***************************************************************************)
CandidateIsNew ==
    candidate # NoBlock =>
        candidate = NewBlock(candidate.height, candidate.prevHash,
                             candidate.transactions, candidate.difficulty,
                             candidate.timestamp)

ClockIsAhead ==
    ~ClockStepsBack =>
        /\ Tip.timestamp <= Unix(clock)
        /\ candidate # NoBlock =>
              /\ Tip.timestamp <= candidate.timestamp
              /\ candidate.timestamp <= Unix(clock)

ChainInv ==
    /\ TypeOK
    /\ BalancesAreReplay
    /\ CandidateStaysGood
    /\ CandidateIsNew
    /\ ClockIsAhead
    /\ ~ClockStepsBack => ChainAlwaysValid

(***************************************************************************)
(* A mined block takes at least one transaction off a queue that has any:  *)
(* mining makes progress whatever configuration config.Validate accepts.   *)
(***************************************************************************)
MiningDrainsPool ==
    [][blocks' # blocks /\ pool # << >> => Len(pool') < Len(pool)]_vars

(***************************************************************************)
(* Saving and loading gives back the same node: the same balances and the  *)
(* same queue, nothing being silently dropped by Load.                     *)
(***************************************************************************)
ReloadChangesNothing ==
    [][Reload => balances' = balances /\ pool' = pool]_vars

(***************************************************************************)
(* If mining is requested again and again and the search is not aborted    *)
(* every time, every accepted transaction is settled in a block, whatever  *)
(* the settings the node is restarted with.  The one exception is a node   *)
(* that does not come up again: a chain built under a clock that was set   *)
(* back is refused by Load, and its queue stays in the file.  Under a      *)
(* trusted clock ChainAlwaysValid rules the exception out.                 *)
(***************************************************************************)
Fairness == WF_vars(MineBegin) /\ SF_vars(MineEnd)

FairSpec == Spec /\ Fairness

EveryAcceptedIsSettled ==
    \A n \in 1..MaxHeight : (Len(accepted) >= n) ~> (Len(Settled) >= n \/ ~up)
=============================================================================
