----------------------------- MODULE ChainProofs ----------------------------
(***************************************************************************)
(* The invariants of module Chain, for every value of its constants.       *)
(* ChainInv is inductive: each action gets a lemma, and the theorems read  *)
(* the properties off it.  Then what module Audit says of edited chains.   *)
(***************************************************************************)
EXTENDS Audit, ReplayProofs

-----------------------------------------------------------------------------
(* Facts about the operators of the module.                                *)

LEMMA GenesisFacts ==
  /\ IsHeader(Genesis) /\ Genesis.transactions = << >>
  /\ Genesis.height = 0 /\ Genesis.timestamp = GenesisTimestamp
  /\ Genesis.prevHash = GenesisPrevHash
  /\ HasValidMerkleRoot(Genesis) /\ HasValidHash(Genesis)
  /\ MeetsDifficulty(Genesis.hash, Genesis.difficulty)
<1> DEFINE empty == NewBlock(0, GenesisPrevHash, << >>, 0, GenesisTimestamp)
<1>1. /\ Genesis = Sealed(empty, 0)
      /\ Sealed(empty, 0).hash = ComputeHash(Sealed(empty, 0))
      /\ Sealed(empty, 0) = [empty EXCEPT !.nonce = 0, !.hash = Sealed(empty, 0).hash]
  BY DEF Genesis, Sealed, NewBlock, ComputeHash
<1>2. /\ Genesis.transactions = << >> /\ Genesis.height = 0
      /\ Genesis.timestamp = GenesisTimestamp /\ Genesis.difficulty = 0
      /\ Genesis.prevHash = GenesisPrevHash
      /\ Genesis.merkleRoot = MerkleRoot(Genesis.transactions)
      /\ Genesis.hash = ComputeHash(Genesis)
  BY <1>1 DEF NewBlock
<1> QED
  BY <1>2, BlockAssumption
     DEF IsHeader, HasValidMerkleRoot, HasValidHash, MeetsDifficulty

(***************************************************************************)
(* Sealing a block from NewBlock changes its nonce and its hash only, and  *)
(* the result passes the checks that concern one block.                    *)
(***************************************************************************)
LEMMA SealedFacts ==
  ASSUME NEW h, NEW p, NEW txs, NEW d, NEW t, NEW nonce, NEW b, NEW c,
         c = NewBlock(h, p, txs, d, t),
         b = Sealed(c, nonce)
  PROVE  /\ b.height = h /\ b.prevHash = p /\ b.transactions = txs
         /\ b.difficulty = d /\ b.timestamp = t
         /\ HasValidMerkleRoot(b) /\ HasValidHash(b)
<1>1. /\ b.height = h /\ b.prevHash = p /\ b.transactions = txs
      /\ b.difficulty = d /\ b.timestamp = t /\ b.nonce = nonce
      /\ b.merkleRoot = MerkleRoot(txs)
  BY DEF Sealed, NewBlock
<1>2. b.hash = <<"block", h, t, p, MerkleRoot(txs), d, nonce>>
  BY DEF Sealed, NewBlock, ComputeHash
<1> QED
  BY <1>1, <1>2 DEF HasValidMerkleRoot, HasValidHash, ComputeHash

LEMMA UnixType ==
  ASSUME NEW t \in Nat
  PROVE  Unix(t) \in Nat
BY ChainAssumption DEF Unix

LEMMA UnixMonotonic ==
  ASSUME NEW t \in Nat, NEW u \in Nat, t <= u
  PROVE  Unix(t) <= Unix(u)
<1> DEFINE k == TicksPerSecond
           q == Unix(t)
           r == Unix(u)
<1>1. k \in Nat /\ k > 0 /\ q \in Nat /\ r \in Nat
  BY ChainAssumption, UnixType
<1>2. k * q <= t /\ u < k * (r + 1)
  BY <1>1, ChainAssumption DEF Unix
<1>3. k * q < k * (r + 1)
  <2>1. k * q \in Nat /\ k * (r + 1) \in Nat
    BY <1>1
  <2> HIDE DEF q, r, k
  <2> QED
    BY <1>2, <2>1
<1> HIDE DEF q, r, k
<1>4. q < r + 1
  <2>1. SUFFICES ASSUME q >= r + 1 PROVE k * q >= k * (r + 1)
    BY <1>1, <1>3
  <2> QED
    BY <1>1, <2>1
<1> QED
  BY <1>1, <1>4 DEF q, r

(***************************************************************************)
(* The transactions that requests and rewards are made of are well typed.  *)
(***************************************************************************)
LEMMA TransferType ==
  ASSUME NEW from \in Accounts, NEW to \in Accounts, NEW amount \in Amounts,
         NEW t \in Nat
  PROVE  Sign(from, NewTransfer(from, to, amount, t)) \in Transaction
<1> DEFINE owned == [NewTransfer(from, to, amount, t) EXCEPT !.from = from]
<1>1. /\ owned = [from |-> from, to |-> to, amount |-> amount,
                  timestamp |-> t, sig |-> NoSig]
      /\ amount \in Int64
  BY ChainAssumption DEF NewTransfer
<1>2. SigningBytes(owned) = <<from, to, amount, t>>
  BY <1>1 DEF SigningBytes
<1>3. [key |-> from, over |-> SigningBytes(owned)] \in Signature
  BY <1>1, <1>2 DEF Signature
<1>4. Sign(from, NewTransfer(from, to, amount, t)) =
         [from |-> from, to |-> to, amount |-> amount, timestamp |-> t,
          sig |-> [key |-> from, over |-> SigningBytes(owned)]]
  <2> DEFINE signed == [key |-> from, over |-> SigningBytes(owned)]
  <2>1. Sign(from, NewTransfer(from, to, amount, t)) = [owned EXCEPT !.sig = signed]
    BY DEF Sign
  <2> HIDE DEF signed
  <2>2. [owned EXCEPT !.sig = signed] =
           [from |-> from, to |-> to, amount |-> amount, timestamp |-> t,
            sig |-> signed]
    <3> HIDE DEF owned
    <3> QED
      BY <1>1
  <2> QED
    BY <2>1, <2>2 DEF signed
<1> QED
  BY <1>1, <1>3, <1>4 DEF Transaction

LEMMA CoinbaseType ==
  ASSUME NEW to \in Accounts, NEW amount \in Int64, NEW t \in Nat
  PROVE  NewCoinbase(to, amount, t) \in Transaction
BY DEF NewCoinbase, NewTransfer, Transaction

-----------------------------------------------------------------------------
(* Facts about the state.                                                  *)

LEMMA BlocksFacts ==
  ASSUME TypeOK
  PROVE  /\ blocks \in Seq(Members(blocks)) /\ Len(blocks) \in Nat \ {0}
         /\ \A b \in Members(blocks) :
               IsHeader(b) /\ b.transactions \in Seq(Transaction)
         /\ Tip \in Members(blocks) /\ Height \in Nat /\ Tip.timestamp \in Nat
<1>1. blocks \in Seq(Members(blocks)) /\ blocks # << >>
  BY DEF TypeOK, IsSequence
<1>2. Len(blocks) \in Nat \ {0} /\ DOMAIN blocks = 1..Len(blocks)
  BY <1>1
<1>3. \A i \in 1..Len(blocks) :
         IsHeader(blocks[i]) /\ blocks[i].transactions \in Seq(Transaction)
  BY DEF TypeOK, IsBody
<1>4. \A b \in Members(blocks) : \E i \in 1..Len(blocks) : b = blocks[i]
  BY <1>2 DEF Members
<1>5. Tip \in Members(blocks)
  BY <1>2 DEF Tip, Members
<1> QED
  BY <1>1, <1>2, <1>3, <1>4, <1>5 DEF Height, IsHeader

(***************************************************************************)
(* The settings in force are ones that config.Validate accepts.            *)
(***************************************************************************)
LEMMA CfgFacts ==
  ASSUME TypeOK
  PROVE  /\ cfg \in Configs
         /\ cfg.Difficulty \in Nat /\ cfg.MaxTxPerBlock \in Nat \ {0}
         /\ cfg.MiningReward \in 0..MaxInt64 /\ cfg.MinerAddress \in Accounts
         /\ RewardSlots \in {0, 1}
<1>1. cfg \in Configs /\ cfg \in Config
  BY ChainAssumption DEF TypeOK
<1> QED
  BY <1>1 DEF Config, RewardSlots

(***************************************************************************)
(* The body buildBody assembles: the reward, then the head of the queue.   *)
(***************************************************************************)
LEMMA BodyFacts ==
  ASSUME TypeOK
  PROVE  /\ Reward \in Seq(Transaction) /\ Len(Reward) = RewardSlots
         /\ Queued \in Seq(Transaction) /\ Len(Queued) \in 0..Len(pool)
         /\ Queued = Peek(pool, Len(Queued))
         /\ Reward \o Queued \in Seq(Transaction)
         /\ SubSeq(Reward \o Queued, RewardSlots + 1, Len(Reward \o Queued))
               = Queued
<1>1. pool \in Seq(Transaction) /\ Len(pool) \in Nat /\ clock \in Nat
  BY ChainAssumption DEF TypeOK
<1>2. Reward \in Seq(Transaction) /\ Len(Reward) = RewardSlots
      /\ RewardSlots \in {0, 1}
  <2>1. CASE cfg.MiningReward > 0
    <3>1. cfg.MiningReward \in Int64 /\ cfg.MinerAddress \in Accounts
      BY CfgFacts, LedgerAssumption DEF Int64
    <3>2. NewCoinbase(cfg.MinerAddress, cfg.MiningReward, clock) \in Transaction
      BY <1>1, <3>1, CoinbaseType
    <3> QED
      BY <2>1, <3>2 DEF Reward, RewardSlots
  <2>2. CASE ~(cfg.MiningReward > 0)
    BY <2>2 DEF Reward, RewardSlots
  <2> QED
    BY <2>1, <2>2
<1> DEFINE k == AtMost(cfg.MaxTxPerBlock - Len(Reward), Len(pool))
<1>3. k \in 0..Len(pool)
  BY <1>1, <1>2, CfgFacts DEF AtMost
<1>4. Queued = SubSeq(pool, 1, k)
  BY DEF Queued, Peek
<1> HIDE DEF k
<1>5. /\ Queued \in Seq(Transaction) /\ Len(Queued) = k
      /\ \A i \in 1..k : Queued[i] = pool[i]
  BY <1>1, <1>3, <1>4, SubSeqProperties
<1>6. Queued = Peek(pool, Len(Queued))
  BY <1>1, <1>3, <1>4, <1>5 DEF Peek, AtMost
<1> DEFINE body == Reward \o Queued
           tail == SubSeq(body, RewardSlots + 1, Len(body))
<1>7. /\ body \in Seq(Transaction) /\ Len(body) = RewardSlots + k
      /\ \A i \in 1..k : body[RewardSlots + i] = Queued[i]
  BY <1>2, <1>3, <1>5, ConcatProperties
<1> HIDE DEF body
<1>8. tail \in Seq(Transaction) /\ Len(tail) = k /\ \A i \in 1..k : tail[i] = Queued[i]
  <2>1. \A i \in (RewardSlots + 1)..Len(body) : body[i] \in Transaction
    BY <1>2, <1>3, <1>7
  <2>2. /\ tail \in Seq(Transaction)
        /\ Len(tail) = IF RewardSlots + 1 <= Len(body)
                       THEN Len(body) - (RewardSlots + 1) + 1 ELSE 0
        /\ \A i \in 1..(Len(body) - (RewardSlots + 1) + 1) :
              tail[i] = body[(RewardSlots + 1) + i - 1]
    BY <1>2, <1>3, <1>7, <2>1, SubSeqProperties
  <2>3. \A i \in 1..k : (RewardSlots + 1) + i - 1 = RewardSlots + i
    BY <1>2, <1>3
  <2> QED
    BY <1>2, <1>3, <1>7, <2>2, <2>3
<1>9. tail = Queued
  <2> HIDE DEF tail
  <2> QED
    BY <1>5, <1>8, SeqEqual
<1> QED
  BY <1>1, <1>2, <1>3, <1>5, <1>6, <1>7, <1>9 DEF body

-----------------------------------------------------------------------------
(* Every action preserves ChainInv.                                        *)

LEMMA InitInv ==
  ASSUME Init
  PROVE  ChainInv
<1>1. /\ blocks = <<Genesis>> /\ Len(blocks) = 1 /\ blocks[1] = Genesis
      /\ Tip = Genesis
  BY DEF Init, Tip
<1>2. Genesis.transactions \in Seq(Transaction)
  BY GenesisFacts
<1>3. TypeOK
  <2>1. IsSequence(blocks) /\ blocks # << >>
    BY <1>1 DEF IsSequence, Members
  <2>2. \A i \in 1..Len(blocks) :
           IsHeader(blocks[i]) /\ IsBody(blocks[i].transactions)
    <3>1. \A i \in 1..Len(blocks) : blocks[i] = Genesis
      BY <1>1
    <3> QED
      BY <3>1, <1>2, GenesisFacts DEF IsBody
  <2>3. /\ balances \in State /\ pool \in Seq(Transaction)
        /\ cfg \in Configs /\ up \in BOOLEAN /\ clock \in 0..MaxClock
        /\ candidate = NoBlock /\ fromPool \in Nat
        /\ accepted \in Seq(Transaction)
    BY NewStateType, EmptySeq DEF Init
  <2>4. rewards \in Seq({0, 1}) /\ Len(rewards) = Len(blocks)
    BY <1>1 DEF Init
  <2> QED
    BY <2>1, <2>2, <2>3, <2>4 DEF TypeOK
<1>4. /\ \A b \in {Genesis} : b.transactions \in Seq(Transaction)
      /\ <<Genesis>> \in Seq({Genesis}) /\ Len(<<Genesis>>) = 1
      /\ <<Genesis>>[1] = Genesis
  BY <1>2
<1>5. /\ ReplaySteps(<<Genesis>>)[0] = NewState
      /\ \A i \in 1..Len(<<Genesis>>) :
            ReplaySteps(<<Genesis>>)[i] =
               ApplyAll(ReplaySteps(<<Genesis>>)[i - 1], <<Genesis>>[i].transactions)
  <2> HIDE DEF Genesis
  <2> QED
    BY <1>4, ReplayDef
<1>6. ReplaySteps(blocks)[0] = NewState
      /\ Replay(blocks) = ApplyAll(NewState, << >>)
  BY <1>1, <1>4, <1>5, GenesisFacts DEF Replay
<1>7. ApplyAll(NewState, << >>) = NewState /\ Fits(NewState, << >>)
  <2>1. << >> \in Seq(Transaction) /\ Len(<< >>) = 0 /\ NewState \in RawState
    BY EmptySeq, NewStateType, StateIsRaw
  <2>2. Run(NewState, << >>)[0] = NewState
    BY <2>1, RunDef
  <2> QED
    BY <2>1, <2>2 DEF ApplyAll, Fits
<1>8. BalancesAreReplay
  BY <1>1, <1>6, <1>7 DEF Init, BalancesAreReplay
<1>9. Valid(blocks)
  <2>1. GenesisOK(blocks)
    BY <1>1, GenesisFacts DEF GenesisOK
  <2>2. Fits(ReplaySteps(blocks)[1 - 1], blocks[1].transactions)
    BY <1>1, <1>6, <1>7, GenesisFacts
  <2>3. LET r == Rules(blocks, 1)
        IN  /\ r.height /\ r.timestamp /\ r.link
            /\ r.merkle /\ r.hash /\ r.difficulty /\ r.ledger
    <3>1. /\ HasValidMerkleRoot(blocks[1]) /\ HasValidHash(blocks[1])
          /\ MeetsDifficulty(blocks[1].hash, blocks[1].difficulty)
      BY <1>1, GenesisFacts
    <3>2. ~(1 > 1)
      OBVIOUS
    <3> QED
      BY <2>2, <3>1, <3>2, Zenon DEF Rules
  <2> QED
    BY <1>1, <2>1, <2>3 DEF Valid
<1>10. ClockIsAhead
  BY <1>1, GenesisFacts DEF Init, ClockIsAhead
<1> QED
  BY <1>3, <1>8, <1>9, <1>10
     DEF Init, ChainInv, CandidateStaysGood, CandidateIsNew, ChainAlwaysValid

(***************************************************************************)
(* Accepting a transaction leaves the chain and the search alone.          *)
(***************************************************************************)
LEMMA AddInv ==
  ASSUME ChainInv, NEW tx \in Transaction, Add(tx)
  PROVE  ChainInv'
<1>1. /\ blocks' = blocks /\ balances' = balances /\ cfg' = cfg
      /\ clock' = clock /\ candidate' = candidate /\ fromPool' = fromPool
      /\ candidate = NoBlock /\ up' = up /\ rewards' = rewards
      /\ pool' = Append(pool, tx) /\ accepted' = Append(accepted, tx)
  BY DEF Add, searchVars, process
<1>2. Tip' = Tip
  BY <1>1 DEF Tip
<1>3. TypeOK'
  <2>1. pool' \in Seq(Transaction) /\ accepted' \in Seq(Transaction)
    BY <1>1, AppendProperties DEF ChainInv, TypeOK
  <2> QED
    BY <1>1, <2>1 DEF ChainInv, TypeOK, IsSequence, Members, IsHeader, IsBody
<1>4. BalancesAreReplay' /\ (~ClockStepsBack => ChainAlwaysValid')
  BY <1>1 DEF ChainInv, BalancesAreReplay, ChainAlwaysValid
<1>5. ClockIsAhead'
  BY <1>1, <1>2 DEF ChainInv, ClockIsAhead
<1> QED
  BY <1>1, <1>3, <1>4, <1>5 DEF ChainInv, CandidateStaysGood, CandidateIsNew

(***************************************************************************)
(* A candidate is put together from the tip, the queue and the clock.      *)
(***************************************************************************)
LEMMA MineBeginInv ==
  ASSUME ChainInv, MineBegin
  PROVE  ChainInv'
<1> DEFINE body == Reward \o Queued
           c == NewBlock(Height + 1, Tip.hash, body, cfg.Difficulty, Unix(clock))
<1>1. /\ blocks' = blocks /\ balances' = balances /\ pool' = pool
      /\ cfg' = cfg /\ clock' = clock /\ accepted' = accepted
      /\ up' = up /\ rewards' = rewards
      /\ candidate' = c /\ fromPool' = Len(Queued) /\ Fits(balances, body)
  BY DEF MineBegin, chainVars, process, history
<1>2. Tip' = Tip /\ Height' = Height /\ RewardSlots' = RewardSlots
  BY <1>1 DEF Tip, Height, RewardSlots
<1>3. /\ c.height = Height + 1 /\ c.prevHash = Tip.hash /\ c.transactions = body
      /\ c.difficulty = cfg.Difficulty /\ c.timestamp = Unix(clock)
  BY DEF NewBlock
<1>4. TypeOK /\ clock \in Nat /\ cfg.Difficulty \in Nat
  BY ChainAssumption, CfgFacts DEF ChainInv, TypeOK
<1>5. TypeOK'
  <2>1. IsHeader(c) /\ IsBody(c.transactions) /\ Len(Queued) \in Nat
    <3>1. /\ Height \in Nat /\ Unix(clock) \in Nat /\ Len(Queued) \in Nat
          /\ body \in Seq(Transaction)
      <4>1. Height \in Nat /\ Unix(clock) \in Nat
        BY <1>4, BlocksFacts, UnixType
      <4>2. Queued \in Seq(Transaction) /\ body \in Seq(Transaction)
        BY <1>4, BodyFacts
      <4>3. Len(Queued) \in Nat
        BY <4>2, LenProperties
      <4> QED
        BY <4>1, <4>2, <4>3
    <3> HIDE DEF c, body
    <3> QED
      BY <1>3, <1>4, <3>1 DEF IsHeader, IsBody
  <2> HIDE DEF c
  <2> QED
    BY <1>1, <1>4, <2>1 DEF TypeOK, IsSequence, Members, IsHeader, IsBody
<1>6. BalancesAreReplay' /\ (~ClockStepsBack => ChainAlwaysValid')
  BY <1>1 DEF ChainInv, BalancesAreReplay, ChainAlwaysValid
<1>7. CandidateStaysGood'
  <2>1. SubSeq(body, RewardSlots + 1, Len(body)) = Peek(pool, Len(Queued))
    BY <1>4, BodyFacts
  <2> HIDE DEF c, body
  <2> QED
    BY <1>1, <1>2, <1>3, <2>1 DEF CandidateStaysGood
<1>8. CandidateIsNew'
  <2>1. c = NewBlock(c.height, c.prevHash, c.transactions, c.difficulty, c.timestamp)
    BY <1>3
  <2> HIDE DEF c
  <2> QED
    BY <1>1, <2>1 DEF CandidateIsNew
<1>9. ClockIsAhead'
  <2>1. Unix(clock) \in Nat /\ Tip.timestamp \in Nat
    BY <1>4, UnixType, BlocksFacts
  <2>2. ~ClockStepsBack => Tip.timestamp <= Unix(clock)
    BY DEF ChainInv, ClockIsAhead
  <2> HIDE DEF c
  <2> QED
    BY <1>1, <1>2, <1>3, <2>1, <2>2 DEF ClockIsAhead
<1> QED
  BY <1>5, <1>6, <1>7, <1>8, <1>9 DEF ChainInv

(***************************************************************************)
(* The mined block extends the tip, and the balances follow it.            *)
(***************************************************************************)
LEMMA MineEndInv ==
  ASSUME ChainInv, MineEnd
  PROVE  ChainInv'
<1>1. PICK nonce \in Nonces :
         LET mined == Sealed(candidate, nonce)
         IN  /\ MeetsDifficulty(mined.hash, mined.difficulty)
             /\ blocks' = Append(blocks, mined)
  BY DEF MineEnd
<1> DEFINE b == Sealed(candidate, nonce)
<1>2. /\ blocks' = Append(blocks, b) /\ MeetsDifficulty(b.hash, b.difficulty)
      /\ balances' = ApplyAll(balances, candidate.transactions)
      /\ pool' = Remove(pool, fromPool) /\ candidate' = NoBlock /\ fromPool' = 0
      /\ cfg' = cfg /\ clock' = clock /\ accepted' = accepted
      /\ up' = up /\ rewards' = Append(rewards, RewardSlots)
      /\ candidate # NoBlock /\ Fits(balances, candidate.transactions)
  BY <1>1 DEF MineEnd, process
<1>3. /\ b.height = candidate.height /\ b.prevHash = candidate.prevHash
      /\ b.transactions = candidate.transactions
      /\ b.difficulty = candidate.difficulty
      /\ b.timestamp = candidate.timestamp
      /\ HasValidMerkleRoot(b) /\ HasValidHash(b)
  BY <1>2, SealedFacts DEF ChainInv, CandidateIsNew
<1> HIDE DEF b
<1>4. TypeOK /\ IsHeader(b) /\ b.transactions \in Seq(Transaction)
  BY <1>2, <1>3 DEF ChainInv, TypeOK, IsHeader, IsBody
<1> DEFINE B == Members(blocks) \union {b}
<1>5. /\ \A x \in B : IsHeader(x) /\ x.transactions \in Seq(Transaction)
      /\ blocks \in Seq(B) /\ b \in B
  <2>1. blocks \in Seq(Members(blocks)) /\ Members(blocks) \subseteq B
    BY <1>4, BlocksFacts
  <2>2. blocks \in Seq(B)
    <3> HIDE DEF B
    <3> QED
      BY <2>1, SeqMonotonic
  <2> QED
    BY <1>4, <2>2, BlocksFacts
<1> HIDE DEF B
<1>6. /\ blocks' \in Seq(B) /\ Len(blocks') = Len(blocks) + 1
      /\ blocks'[Len(blocks')] = b /\ blocks' # << >>
  BY <1>2, <1>5, AppendProperties
<1>7. TypeOK'
  <2>1. /\ DOMAIN blocks' = 1..Len(blocks')
        /\ \A i \in 1..Len(blocks') : blocks'[i] \in B
    BY <1>6
  <2>2. IsSequence(blocks)'
    <3>1. /\ Len(blocks') \in Nat /\ blocks' \in [1..Len(blocks') -> B]
      BY <1>6, LenProperties
    <3>2. blocks' \in [1..Len(blocks') -> Members(blocks')]
      BY <2>1, <3>1 DEF Members
    <3>3. blocks' \in Seq(Members(blocks'))
      BY <3>1, <3>2
    <3> QED
      BY <3>3 DEF IsSequence, Members
  <2>3. balances' \in State
    BY <1>2, <1>3, <1>4, ApplyAllSafe DEF TypeOK
  <2>4. pool' \in Seq(Transaction)
    <3>1. pool \in Seq(Transaction) /\ fromPool \in Nat /\ Len(pool) \in Nat
      BY <1>4 DEF TypeOK
    <3>2. AtMost(fromPool, Len(pool)) + 1 \in 1..(Len(pool) + 1)
      BY <3>1 DEF AtMost
    <3> QED
      BY <1>2, <3>1, <3>2, SubSeqProperties DEF Remove
  <2>5. \A i \in 1..Len(blocks') :
           IsHeader(blocks'[i]) /\ IsBody(blocks'[i].transactions)
    BY <1>5, <2>1 DEF IsBody
  <2>6. rewards' \in Seq({0, 1}) /\ Len(rewards') = Len(blocks')
    <3>1. rewards \in Seq({0, 1}) /\ Len(rewards) = Len(blocks) /\ RewardSlots \in {0, 1}
      BY <1>4, CfgFacts DEF TypeOK
    <3> QED
      BY <1>2, <1>6, <3>1, AppendProperties
  <2> QED
    BY <1>2, <1>4, <1>6, <2>2, <2>3, <2>4, <2>5, <2>6 DEF TypeOK, IsHeader, IsBody
<1>8. BalancesAreReplay'
  <2>1. Replay(Append(blocks, b)) = ApplyAll(Replay(blocks), b.transactions)
    BY <1>5, ReplayAppend
  <2> QED
    BY <1>2, <1>3, <2>1 DEF ChainInv, BalancesAreReplay
<1>9. ~ClockStepsBack => ChainAlwaysValid'
  <2> SUFFICES ASSUME ~ClockStepsBack PROVE Valid(blocks')
    BY <1>2 DEF ChainInv, ChainAlwaysValid
  <2>1. Valid(blocks) /\ Replay(blocks) = balances
    BY DEF ChainInv, ChainAlwaysValid, BalancesAreReplay
  <2>2. /\ b.prevHash = Tip.hash /\ b.height = Tip.height + 1
        /\ Fits(balances, b.transactions)
    BY <1>2, <1>3 DEF ChainInv, CandidateStaysGood, Height
  <2>3. b.timestamp >= Tip.timestamp
    <3>1. b.timestamp \in Nat /\ Tip.timestamp \in Nat
      BY <1>4, BlocksFacts DEF IsHeader
    <3> QED
      BY <1>2, <1>3, <3>1 DEF ChainInv, ClockIsAhead
  <2>4. Extends(blocks, b)
    BY <1>2, <1>3, <2>1, <2>2, <2>3 DEF Extends, Tip
  <2> QED
    BY <1>2, <1>5, <2>1, <2>4, ValidAppend
<1>10. ClockIsAhead'
  <2>1. Tip' = b
    BY <1>6 DEF Tip
  <2> QED
    BY <1>2, <1>3, <2>1 DEF ChainInv, ClockIsAhead
<1> QED
  BY <1>2, <1>7, <1>8, <1>9, <1>10 DEF ChainInv, CandidateStaysGood, CandidateIsNew

LEMMA MineAbortInv ==
  ASSUME ChainInv, MineAbort
  PROVE  ChainInv'
<1>1. /\ blocks' = blocks /\ balances' = balances /\ pool' = pool
      /\ cfg' = cfg /\ clock' = clock /\ accepted' = accepted
      /\ up' = up /\ rewards' = rewards
      /\ candidate' = NoBlock /\ fromPool' = 0
  BY DEF MineAbort, chainVars, process, history
<1>2. Tip' = Tip
  BY <1>1 DEF Tip
<1>3. TypeOK'
  BY <1>1 DEF ChainInv, TypeOK, IsSequence, Members, IsHeader, IsBody
<1> QED
  BY <1>1, <1>2, <1>3
     DEF ChainInv, BalancesAreReplay, ChainAlwaysValid, CandidateStaysGood,
         CandidateIsNew, ClockIsAhead

(***************************************************************************)
(* Loading replays the blocks, which gives the balances there already are. *)
(***************************************************************************)
LEMMA ReloadInv ==
  ASSUME ChainInv, Reload
  PROVE  ChainInv'
<1>1. /\ blocks' = blocks /\ balances' = Replay(blocks)
      /\ pool' = Readmit(pool, Replay(blocks)) /\ cfg' \in Configs
      /\ clock' = clock /\ accepted' = accepted /\ candidate = NoBlock
      /\ candidate' = NoBlock /\ fromPool' = fromPool
      /\ up' = up /\ rewards' = rewards
  BY DEF Reload, searchVars, history
<1>2. Tip' = Tip /\ balances' = balances
  BY <1>1 DEF Tip, ChainInv, BalancesAreReplay
<1>3. TypeOK'
  <2>1. pool' \in Seq(Transaction)
    BY <1>1, ReadmitType DEF ChainInv, TypeOK
  <2> QED
    BY <1>1, <1>2, <2>1
       DEF ChainInv, TypeOK, IsSequence, Members, IsHeader, IsBody
<1>4. BalancesAreReplay' /\ (~ClockStepsBack => ChainAlwaysValid')
  BY <1>1 DEF ChainInv, BalancesAreReplay, ChainAlwaysValid
<1>5. ClockIsAhead'
  BY <1>1, <1>2 DEF ChainInv, ClockIsAhead
<1> QED
  BY <1>1, <1>3, <1>4, <1>5 DEF ChainInv, CandidateStaysGood, CandidateIsNew

(***************************************************************************)
(* No start is refused where the clock is trusted; elsewhere the file is   *)
(* left as it is.                                                          *)
(***************************************************************************)
LEMMA ReloadRefusedInv ==
  ASSUME ChainInv, ReloadRefused
  PROVE  ChainInv'
<1>1. /\ blocks' = blocks /\ balances' = balances /\ pool' = pool
      /\ cfg' = cfg /\ clock' = clock /\ accepted' = accepted
      /\ up' = FALSE /\ rewards' = rewards
      /\ candidate' = NoBlock /\ fromPool' = fromPool /\ candidate = NoBlock
  BY DEF ReloadRefused, chainVars, searchVars, history
<1>2. ClockStepsBack
  BY ChainAssumption DEF ReloadRefused, ChainInv, ChainAlwaysValid
<1>3. TypeOK'
  BY <1>1 DEF ChainInv, TypeOK, IsSequence, Members, IsHeader, IsBody
<1> QED
  BY <1>1, <1>2, <1>3
     DEF ChainInv, BalancesAreReplay, CandidateStaysGood, CandidateIsNew,
         ClockIsAhead

(***************************************************************************)
(* Time passing, or a clock set back when it is not trusted.               *)
(***************************************************************************)
LEMMA ClockInv ==
  ASSUME ChainInv, Tick \/ StepBack
  PROVE  ChainInv'
<1>1. /\ blocks' = blocks /\ balances' = balances /\ pool' = pool
      /\ cfg' = cfg /\ accepted' = accepted /\ up' = up /\ rewards' = rewards
      /\ candidate' = candidate /\ fromPool' = fromPool
  BY DEF Tick, StepBack, chainVars, searchVars, process, history
<1>2. Tip' = Tip /\ Height' = Height /\ RewardSlots' = RewardSlots
  BY <1>1 DEF Tip, Height, RewardSlots
<1>3. clock \in Nat /\ clock' \in 0..MaxClock /\ (~ClockStepsBack => clock <= clock')
  BY ChainAssumption DEF ChainInv, TypeOK, Tick, StepBack
<1>4. TypeOK'
  BY <1>1, <1>3 DEF ChainInv, TypeOK, IsSequence, Members, IsHeader, IsBody
<1>5. /\ BalancesAreReplay' /\ (~ClockStepsBack => ChainAlwaysValid')
      /\ CandidateStaysGood' /\ CandidateIsNew'
  BY <1>1, <1>2
     DEF ChainInv, BalancesAreReplay, ChainAlwaysValid, CandidateStaysGood,
         CandidateIsNew
<1>6. ClockIsAhead'
  <2> SUFFICES ASSUME ~ClockStepsBack
               PROVE  /\ Tip.timestamp <= Unix(clock')
                      /\ candidate # NoBlock =>
                            /\ Tip.timestamp <= candidate.timestamp
                            /\ candidate.timestamp <= Unix(clock')
    BY <1>1, <1>2 DEF ClockIsAhead, Unix
  <2>1. /\ Unix(clock) \in Nat /\ Unix(clock') \in Nat
        /\ Unix(clock) <= Unix(clock') /\ Tip.timestamp \in Nat
        /\ candidate # NoBlock => candidate.timestamp \in Nat
    <3>1. clock' \in Nat
      BY <1>3
    <3> QED
      BY <1>3, <3>1, UnixType, UnixMonotonic, BlocksFacts
         DEF ChainInv, TypeOK, IsHeader
  <2> QED
    BY <2>1 DEF ChainInv, ClockIsAhead
<1> QED
  BY <1>4, <1>5, <1>6 DEF ChainInv

-----------------------------------------------------------------------------
(* The theorems.                                                           *)

(***************************************************************************)
(* ChainInv holds in every state of every behaviour.                       *)
(***************************************************************************)
THEOREM Invariance == Spec => []ChainInv
<1>1. Init => ChainInv
  BY InitInv
<1>2. ChainInv /\ [Next]_vars => ChainInv'
  <2> SUFFICES ASSUME ChainInv, [Next]_vars PROVE ChainInv'
    OBVIOUS
  <2>1. clock \in Nat
    BY ChainAssumption DEF ChainInv, TypeOK
  <2>2. ASSUME NEW from \in Accounts, NEW to \in Accounts, NEW amount \in Amounts,
               AddTransaction(from, to, amount)
        PROVE  ChainInv'
    BY <2>1, <2>2, TransferType, AddInv DEF AddTransaction
  <2>3. ASSUME NEW to \in Accounts, NEW amount \in Amounts, Faucet(to, amount)
        PROVE  ChainInv'
    <3>1. amount \in Int64
      BY ChainAssumption
    <3> QED
      BY <2>1, <2>3, <3>1, CoinbaseType, AddInv DEF Faucet
  <2>4. CASE MineBegin
    BY <2>4, MineBeginInv
  <2>5. CASE MineEnd
    BY <2>5, MineEndInv
  <2>6. CASE MineAbort
    BY <2>6, MineAbortInv
  <2>7. CASE Reload
    BY <2>7, ReloadInv
  <2>8. CASE Tick \/ StepBack
    BY <2>8, ClockInv
  <2>9. CASE UNCHANGED vars
    <3>1. /\ blocks' = blocks /\ balances' = balances /\ pool' = pool
          /\ cfg' = cfg /\ clock' = clock /\ candidate' = candidate
          /\ fromPool' = fromPool /\ accepted' = accepted
          /\ up' = up /\ rewards' = rewards
      BY <2>9 DEF vars, chainVars, searchVars, process, history
    <3> QED
      BY <3>1
         DEF ChainInv, TypeOK, IsSequence, Members, IsHeader, IsBody, Tip, Height,
             BalancesAreReplay, ChainAlwaysValid, CandidateStaysGood,
             CandidateIsNew, ClockIsAhead, RewardSlots
  <2>10. CASE ReloadRefused
    BY <2>10, ReloadRefusedInv
  <2> QED
    BY <2>2, <2>3, <2>4, <2>5, <2>6, <2>7, <2>8, <2>9, <2>10 DEF Next
<1> QED
  BY <1>1, <1>2, PTL DEF Spec

(***************************************************************************)
(* Type correctness, with no account ever overdrawn or wrapped around: the *)
(* guards of CanApply are enough, whatever is asked of the chain.          *)
(***************************************************************************)
THEOREM TypeCorrect == Spec => []TypeOK
<1>1. ChainInv => TypeOK
  BY DEF ChainInv
<1> QED
  BY <1>1, Invariance, PTL

(***************************************************************************)
(* The balances in memory are always the replay of the blocks.             *)
(***************************************************************************)
THEOREM BalancesCorrect == Spec => []BalancesAreReplay
<1>1. ChainInv => BalancesAreReplay
  BY DEF ChainInv
<1> QED
  BY <1>1, Invariance, PTL

(***************************************************************************)
(* A running search never goes stale: the second ApplyAll of Mine cannot   *)
(* fail, which the code marks as unreachable.                              *)
(***************************************************************************)
THEOREM CandidateCorrect == Spec => []CandidateStaysGood
<1>1. ChainInv => CandidateStaysGood
  BY DEF ChainInv
<1> QED
  BY <1>1, Invariance, PTL

(***************************************************************************)
(* Under a trusted clock every chain the node builds passes Validate, so   *)
(* what it saves it can load and no start is refused.                      *)
(***************************************************************************)
THEOREM ValidityCorrect ==
  ASSUME ~ClockStepsBack
  PROVE  Spec => []ChainAlwaysValid
<1>1. ChainInv => ChainAlwaysValid
  BY DEF ChainInv
<1> QED
  BY <1>1, Invariance, PTL

-----------------------------------------------------------------------------
(* What a valid chain's last hash commits to (module Audit), for chains of   *)
(* any length, with blocks that need not come from this program.             *)

(***************************************************************************)
(* What chain files can hold: blocks with the fields of block.Block.       *)
(***************************************************************************)
Fields(b) ==
    [height       |-> b.height,
     timestamp    |-> b.timestamp,
     transactions |-> b.transactions,
     merkleRoot   |-> b.merkleRoot,
     prevHash     |-> b.prevHash,
     difficulty   |-> b.difficulty,
     nonce        |-> b.nonce,
     hash         |-> b.hash]

IsBlock(b) == b = Fields(b) /\ b.height \in Nat

IsChain(s) == IsSequence(s) /\ \A i \in 1..Len(s) : IsBlock(s[i])

-----------------------------------------------------------------------------
(***************************************************************************)
(* Blocks with valid hashes and the same hash agree on the hashed fields.  *)
(***************************************************************************)
LEMMA HashDetermines ==
  ASSUME NEW x, NEW y, HasValidHash(x), HasValidHash(y), x.hash = y.hash
  PROVE  /\ x.height = y.height /\ x.timestamp = y.timestamp
         /\ x.prevHash = y.prevHash /\ x.merkleRoot = y.merkleRoot
         /\ x.difficulty = y.difficulty /\ x.nonce = y.nonce
<1>1. ComputeHash(x) = ComputeHash(y)
  BY DEF HasValidHash
<1> QED
  BY <1>1 DEF ComputeHash

(***************************************************************************)
(* What validation says of each block and of its predecessor.              *)
(***************************************************************************)
LEMMA ValidLinks ==
  ASSUME NEW s, Valid(s)
  PROVE  /\ s # << >> /\ s[1].hash = Genesis.hash
         /\ \A i \in 1..Len(s) : HasValidHash(s[i])
         /\ \A i \in 1..Len(s) : i > 1 => /\ s[i].height = s[i - 1].height + 1
                                          /\ s[i].prevHash = s[i - 1].hash
BY DEF Valid, GenesisOK, Rules

(***************************************************************************)
(* Block number i of a valid chain has height i.                           *)
(***************************************************************************)
LEMMA HeightIsPosition ==
  ASSUME NEW s, IsChain(s), Valid(s)
  PROVE  \A i \in 1..Len(s) : s[i].height = i - 1
<1> DEFINE n == Len(s)
           P == {j \in 0..(n - 1) : s[j + 1].height = j}
<1>1. n \in Nat /\ n > 0 /\ 1 \in 1..n /\ n - 1 \in Nat
  BY ValidLinks DEF IsChain, IsSequence
<1>2. HasValidHash(Genesis) /\ Genesis.height = 0
  BY DEF HasValidHash, Genesis, Sealed, NewBlock, ComputeHash
<1>3. 0 \in P
  <2>1. s[1].height = 0
    BY <1>1, <1>2, ValidLinks, HashDetermines
  <2> QED
    BY <1>1, <2>1
<1>4. ASSUME NEW j \in 1..(n - 1), j - 1 \in P PROVE j \in P
  <2>1. j + 1 \in 1..n /\ j + 1 > 1 /\ (j + 1) - 1 = j /\ (j - 1) + 1 = j
    BY <1>1
  <2>2. s[j + 1].height = s[j].height + 1
    BY <2>1, ValidLinks
  <2>3. s[j].height = j - 1
    BY <1>4, <2>1 DEF IsChain, IsBlock
  <2> QED
    BY <1>1, <2>2, <2>3
<1>5. \A j \in 0..(n - 1) : j \in P
  <2> HIDE DEF P
  <2> QED
    BY <1>1, <1>3, <1>4, UpTo
<1>6. ASSUME NEW i \in 1..n PROVE s[i].height = i - 1
  <2>1. i - 1 \in 0..(n - 1) /\ (i - 1) + 1 = i
    BY <1>1
  <2> QED
    BY <1>5, <2>1
<1> QED
  BY <1>6

(***************************************************************************)
(* From the tip down, valid chains with the same last hash have the same   *)
(* hashes.                                                                 *)
(***************************************************************************)
LEMMA SameHashes ==
  ASSUME NEW a, NEW b, IsChain(a), IsChain(b),
         Valid(a), Valid(b), a[Len(a)].hash = b[Len(b)].hash
  PROVE  Len(a) = Len(b) /\ \A i \in 1..Len(a) : a[i].hash = b[i].hash
<1> DEFINE n == Len(a)
           P == {j \in 0..(n - 1) : a[n - j].hash = b[n - j].hash}
<1>1. /\ n \in Nat /\ n > 0 /\ n - 1 \in Nat
      /\ Len(b) \in Nat /\ Len(b) > 0
  BY ValidLinks DEF IsChain, IsSequence
<1>2. Len(b) = n
  <2>1. a[n].height = n - 1 /\ b[Len(b)].height = Len(b) - 1
    BY <1>1, HeightIsPosition
  <2>2. a[n].height = b[Len(b)].height
    BY <1>1, ValidLinks, HashDetermines
  <2> QED
    BY <1>1, <2>1, <2>2
<1>3. 0 \in P
  BY <1>1, <1>2
<1>4. ASSUME NEW j \in 1..(n - 1), j - 1 \in P PROVE j \in P
  <2> DEFINE k == n - j
  <2>1. /\ k \in 1..n /\ k + 1 \in 1..n /\ k + 1 > 1 /\ (k + 1) - 1 = k
        /\ n - (j - 1) = k + 1
    BY <1>1
  <2>2. a[k + 1].hash = b[k + 1].hash
    BY <1>4, <2>1
  <2>3. a[k + 1].prevHash = b[k + 1].prevHash
    BY <1>2, <2>1, <2>2, ValidLinks, HashDetermines
  <2>4. a[k].hash = b[k].hash
    BY <1>2, <2>1, <2>3, ValidLinks
  <2> QED
    BY <1>1, <2>4
<1>5. \A j \in 0..(n - 1) : j \in P
  <2> HIDE DEF P
  <2> QED
    BY <1>1, <1>3, <1>4, UpTo
<1>6. ASSUME NEW i \in 1..n PROVE a[i].hash = b[i].hash
  <2>1. n - i \in 0..(n - 1) /\ n - (n - i) = i
    BY <1>1
  <2> QED
    BY <1>5, <2>1
<1> QED
  BY <1>2, <1>6

-----------------------------------------------------------------------------
(***************************************************************************)
(* The last hash of a valid chain commits to everything but the bodies:    *)
(* any valid chain with that hash is as long and has the same headers, and *)
(* in them the same Merkle roots.  Code: ComputeHash, and the genesis,     *)
(* height, link and hash rules of Validate.                                *)
(***************************************************************************)
THEOREM LastHashCommits ==
  ASSUME NEW a, NEW b, IsChain(a), IsChain(b)
  PROVE  CommitsTo(a, b)
<1> SUFFICES ASSUME Valid(a), Valid(b), a[Len(a)].hash = b[Len(b)].hash
             PROVE  SameHeaders(a, b)
  BY DEF CommitsTo
<1>1. Len(a) = Len(b) /\ \A i \in 1..Len(a) : a[i].hash = b[i].hash
  BY SameHashes
<1>2. ASSUME NEW i \in 1..Len(a)
      PROVE  Edited(a[i], << >>) = Edited(b[i], << >>)
  <2>1. a[i] = Fields(a[i]) /\ b[i] = Fields(b[i])
    BY <1>1 DEF IsChain, IsBlock
  <2>2. /\ a[i].height = b[i].height /\ a[i].timestamp = b[i].timestamp
        /\ a[i].prevHash = b[i].prevHash /\ a[i].merkleRoot = b[i].merkleRoot
        /\ a[i].difficulty = b[i].difficulty /\ a[i].nonce = b[i].nonce
        /\ a[i].hash = b[i].hash
    BY <1>1, ValidLinks, HashDetermines
  <2>3. /\ Edited(Fields(a[i]), << >>) = [Fields(a[i]) EXCEPT !.transactions = << >>]
        /\ Edited(Fields(b[i]), << >>) = [Fields(b[i]) EXCEPT !.transactions = << >>]
    BY DEF Edited
  <2> QED
    BY <2>1, <2>2, <2>3 DEF Fields
<1> QED
  BY <1>1, <1>2 DEF SameHeaders

-----------------------------------------------------------------------------
(* What Validate reports of an edited block (module Audit).                *)

LEMMA LeastIs ==
  ASSUME NEW S, NEW n \in S, S \subseteq Int, \A m \in S : n <= m
  PROVE  Least(S) = n
<1> DEFINE Is(x) == x \in S /\ \A m \in S : x <= m
           l == CHOOSE x \in S : \A m \in S : x <= m
<1>1. Is(n)
  OBVIOUS
<1>2. Is(l)
  BY <1>1
<1>3. Least(S) = l
  BY DEF Least
<1> HIDE DEF l
<1> QED
  BY <1>1, <1>2, <1>3

(***************************************************************************)
(* The rules by number.                                                    *)
(***************************************************************************)
LEMMA RuleNumbers ==
  ASSUME NEW s, NEW i
  PROVE  LET r == Rules(s, i)
             F == FailedRules(s, i)
         IN  /\ F \subseteq 1..7
             /\ 1 \in F <=> ~r.height
             /\ 2 \in F <=> ~r.timestamp
             /\ 3 \in F <=> ~r.link
             /\ 4 \in F <=> ~r.merkle
             /\ 5 \in F <=> ~r.hash
             /\ 6 \in F <=> ~r.difficulty
             /\ 7 \in F <=> ~r.ledger
<1> DEFINE r == Rules(s, i)
<1>1. FailedRules(s, i) = {k \in 1..7 : ~r[RuleOrder[k]]}
  BY DEF FailedRules
<1> HIDE DEF r
<1>2. /\ RuleOrder[1] = "height" /\ RuleOrder[2] = "timestamp"
      /\ RuleOrder[3] = "link" /\ RuleOrder[4] = "merkle"
      /\ RuleOrder[5] = "hash" /\ RuleOrder[6] = "difficulty"
      /\ RuleOrder[7] = "ledger"
  BY DEF RuleOrder
<1> QED
  BY <1>1, <1>2 DEF r

LEMMA NoneFails ==
  ASSUME NEW s, NEW i
  PROVE  LET r == Rules(s, i)
         IN  FailedRules(s, i) = {} <=>
                /\ r.height /\ r.timestamp /\ r.link
                /\ r.merkle /\ r.hash /\ r.difficulty /\ r.ledger
<1> DEFINE r == Rules(s, i)
           F == FailedRules(s, i)
<1>1. /\ F \subseteq 1..7
      /\ 1 \in F <=> ~r.height
      /\ 2 \in F <=> ~r.timestamp
      /\ 3 \in F <=> ~r.link
      /\ 4 \in F <=> ~r.merkle
      /\ 5 \in F <=> ~r.hash
      /\ 6 \in F <=> ~r.difficulty
      /\ 7 \in F <=> ~r.ledger
  BY RuleNumbers, Zenon
<1> HIDE DEF r, F
<1>2. F = {} <=> /\ r.height /\ r.timestamp /\ r.link
                 /\ r.merkle /\ r.hash /\ r.difficulty /\ r.ledger
  BY <1>1
<1> QED
  BY <1>2 DEF r, F

(***************************************************************************)
(* Every block before the i-th is right, and so is the i-th up to rule k.  *)
(***************************************************************************)
LEMMA VerdictNames ==
  ASSUME NEW s, GenesisOK(s), Len(s) \in Nat, NEW i \in 1..Len(s),
         \A j \in 1..(i - 1) : FailedRules(s, j) = {},
         NEW k \in FailedRules(s, i), \A m \in FailedRules(s, i) : k <= m
  PROVE  Verdict(s) = At(i, RuleOrder[k])
<1> DEFINE faulty == {j \in 1..Len(s) : FailedRules(s, j) # {}}
<1>1. i \in faulty /\ faulty \subseteq Int /\ \A j \in faulty : i <= j
  OBVIOUS
<1>2. Verdict(s) = [at |-> Least(faulty),
                    check |-> RuleOrder[Least(FailedRules(s, Least(faulty)))]]
  BY <1>1, Zenon DEF Verdict
<1> HIDE DEF faulty
<1>3. Least(faulty) = i
  BY <1>1, LeastIs
<1>4. Least(FailedRules(s, i)) = k
  <2>1. FailedRules(s, i) \subseteq Int
    BY DEF FailedRules
  <2> QED
    BY <2>1, LeastIs
<1> QED
  BY <1>2, <1>3, <1>4 DEF At

LEMMA VerdictNone ==
  ASSUME NEW s, GenesisOK(s), \A j \in 1..Len(s) : FailedRules(s, j) = {}
  PROVE  Verdict(s) = At(0, "none")
BY DEF Verdict, At

LEMMA ValidHasNoFailures ==
  ASSUME NEW s, Valid(s)
  PROVE  GenesisOK(s) /\ \A j \in 1..Len(s) : FailedRules(s, j) = {}
BY NoneFails DEF Valid

(***************************************************************************)
(* What a chain with another i-th block keeps: the blocks and the replay   *)
(* up to there.                                                            *)
(***************************************************************************)
LEMMA ReplayAgrees ==
  ASSUME NEW s, NEW t, BodiesHaveAmounts(s), BodiesHaveAmounts(t),
         NEW m \in Nat, m <= Len(s), m <= Len(t),
         \A j \in 1..m : t[j] = s[j]
  PROVE  \A j \in 0..m : ReplaySteps(t)[j] = ReplaySteps(s)[j]
<1> DEFINE P == {j \in 0..m : ReplaySteps(t)[j] = ReplaySteps(s)[j]}
<1>1. Len(s) \in Nat /\ Len(t) \in Nat
  BY DEF BodiesHaveAmounts
<1>2. 0 \in P
  BY ReplayRuns
<1>3. ASSUME NEW j \in 1..m, j - 1 \in P PROVE j \in P
  <2>1. j \in 1..Len(s) /\ j \in 1..Len(t) /\ t[j] = s[j]
    BY <1>1
  <2>2. ReplaySteps(s)[j] = ApplyAll(ReplaySteps(s)[j - 1], s[j].transactions)
    BY <2>1, ReplayRuns
  <2>3. ReplaySteps(t)[j] = ApplyAll(ReplaySteps(t)[j - 1], t[j].transactions)
    BY <2>1, ReplayRuns
  <2> QED
    BY <1>3, <2>1, <2>2, <2>3
<1>4. \A j \in 0..m : j \in P
  <2> HIDE DEF P
  <2> QED
    BY <1>2, <1>3, UpTo
<1> QED
  BY <1>4

LEMMA OthersKept ==
  ASSUME NEW s, IsChain(s), Valid(s), BodiesHaveAmounts(s),
         NEW i \in 2..Len(s), NEW b, HasAmounts(b.transactions)
  PROVE  LET t == [s EXCEPT ![i] = b]
         IN  /\ Len(t) = Len(s) /\ Len(s) \in Nat /\ t[i] = b
             /\ \A j \in 1..Len(s) : j # i => t[j] = s[j]
             /\ GenesisOK(t)
             /\ \A j \in 0..(i - 1) : ReplaySteps(t)[j] = ReplaySteps(s)[j]
             /\ \A j \in 1..(i - 1) : FailedRules(t, j) = {}
<1> DEFINE t == [s EXCEPT ![i] = b]
           n == Len(s)
<1>1. s \in Seq(Members(s)) /\ n \in Nat /\ DOMAIN s = 1..n /\ i \in 1..n
  BY DEF IsChain, IsSequence
<1>2. /\ t[i] = b /\ DOMAIN t = 1..n
      /\ \A j \in 1..n : j # i => t[j] = s[j]
  BY <1>1
<1>3. Len(t) = n
  <2>1. t \in Seq(Members(s) \union {b})
    <3>1. \A j \in 1..n : t[j] \in Members(s) \union {b}
      BY <1>1, <1>2 DEF Members
    <3>2. t = [j \in 1..n |-> t[j]]
      BY <1>2
    <3> HIDE DEF t, n
    <3>3. t \in [1..n -> Members(s) \union {b}]
      BY <3>1, <3>2
    <3> QED
      BY <1>1, <3>3
  <2> HIDE DEF t, n
  <2> QED
    BY <1>1, <1>2, <2>1, LenProperties
<1> HIDE DEF t
<1>4. GenesisOK(s) /\ \A j \in 1..n : FailedRules(s, j) = {}
  BY ValidHasNoFailures
<1>5. GenesisOK(t)
  <2>1. t[1] = s[1] /\ t # << >>
    BY <1>1, <1>2, <1>3
  <2> QED
    BY <1>4, <2>1 DEF GenesisOK
<1>6. BodiesHaveAmounts(t)
  BY <1>1, <1>2, <1>3 DEF BodiesHaveAmounts
<1>7. \A j \in 0..(i - 1) : ReplaySteps(t)[j] = ReplaySteps(s)[j]
  <2>1. i - 1 \in Nat /\ i - 1 <= n /\ \A j \in 1..(i - 1) : t[j] = s[j]
    BY <1>1, <1>2
  <2> QED
    BY <1>3, <1>6, <2>1, ReplayAgrees
<1>8. ASSUME NEW j \in 1..(i - 1) PROVE FailedRules(t, j) = {}
  <2>1. /\ t[j] = s[j] /\ j \in 1..n /\ (j > 1 => t[j - 1] = s[j - 1])
        /\ ReplaySteps(t)[j - 1] = ReplaySteps(s)[j - 1]
    BY <1>1, <1>2, <1>7
  <2>2. FailedRules(s, j) = {}
    BY <1>4, <2>1
  <2> QED
    BY <2>1, <2>2, NoneFails DEF Rules
<1> QED
  BY <1>1, <1>2, <1>3, <1>5, <1>7, <1>8 DEF t

(***************************************************************************)
(* What the repairs leave and what they change.                            *)
(***************************************************************************)
SameHeader(b, o) ==
    /\ b.height = o.height /\ b.timestamp = o.timestamp
    /\ b.prevHash = o.prevHash /\ b.difficulty = o.difficulty

LEMMA EditedFields ==
  ASSUME NEW o, IsBlock(o), NEW txs, NEW nonce
  PROVE  LET e == Edited(o, txs)
             r == RootRepaired(o, txs)
             h == Rehashed(o, txs, nonce)
         IN  /\ e.transactions = txs /\ SameHeader(e, o)
             /\ e.merkleRoot = o.merkleRoot
             /\ r.transactions = txs /\ SameHeader(r, o)
             /\ r.merkleRoot = MerkleRoot(txs) /\ r.hash = o.hash
             /\ h.transactions = txs /\ SameHeader(h, o)
             /\ h.merkleRoot = MerkleRoot(txs) /\ HasValidHash(h)
<1> DEFINE e == Edited(o, txs)
           r == RootRepaired(o, txs)
           h == Rehashed(o, txs, nonce)
           y == [r EXCEPT !.nonce = nonce]
           root == MerkleRoot(txs)
<1>1. e = Fields(e) /\ e.transactions = txs /\ SameHeader(e, o)
      /\ e.merkleRoot = o.merkleRoot /\ e.hash = o.hash
  BY DEF IsBlock, Fields, Edited, SameHeader
<1>2. r = [e EXCEPT !.merkleRoot = root] /\ h = Sealed(r, nonce)
  BY DEF RootRepaired, Rehashed
<1> HIDE DEF e, root
<1>3. r = Fields(r) /\ r.transactions = txs /\ SameHeader(r, o)
      /\ r.merkleRoot = root /\ r.hash = o.hash
  BY <1>1, <1>2 DEF Fields, SameHeader
<1>4. h = [y EXCEPT !.hash = ComputeHash(y)]
  BY <1>2 DEF Sealed
<1> HIDE DEF r, h
<1>5. y = Fields(y) /\ y.transactions = txs /\ SameHeader(y, o)
      /\ y.merkleRoot = root
  BY <1>3 DEF Fields, SameHeader
<1> HIDE DEF y
<1> DEFINE hash == ComputeHash(y)
<1>6. hash = ComputeHash(y)
  OBVIOUS
<1> HIDE DEF hash
<1>7. /\ h.transactions = txs /\ SameHeader(h, o) /\ h.merkleRoot = root
      /\ h.hash = hash /\ ComputeHash(h) = ComputeHash(y)
  BY <1>4, <1>5, <1>6 DEF Fields, SameHeader, ComputeHash
<1>8. HasValidHash(h)
  BY <1>6, <1>7 DEF HasValidHash
<1> QED
  BY <1>1, <1>3, <1>7, <1>8 DEF e, r, h, root

(***************************************************************************)
(* A block with the header of the one it replaces passes the first three   *)
(* rules; what comes next depends on the repair.                           *)
(***************************************************************************)
LEMMA PlacedBlock ==
  ASSUME NEW s, IsChain(s), Valid(s), BodiesHaveAmounts(s),
         NEW i \in 2..Len(s), NEW b, HasAmounts(b.transactions),
         SameHeader(b, s[i])
  PROVE  LET t == [s EXCEPT ![i] = b]
             F == FailedRules(t, i)
         IN  /\ F \subseteq 4..7
             /\ 4 \in F <=> b.merkleRoot # MerkleRoot(b.transactions)
             /\ 5 \in F <=> ~HasValidHash(b)
             /\ 6 \in F <=> ~MeetsDifficulty(b.hash, b.difficulty)
             /\ 7 \in F <=> ~Fits(ReplaySteps(s)[i - 1], b.transactions)
             /\ \A k \in F : (\A m \in F : k <= m) => Verdict(t) = At(i, RuleOrder[k])
<1> DEFINE t == [s EXCEPT ![i] = b]
           F == FailedRules(t, i)
           r == Rules(t, i)
<1>1. /\ Len(t) = Len(s) /\ Len(s) \in Nat /\ t[i] = b
      /\ \A j \in 1..Len(s) : j # i => t[j] = s[j]
      /\ GenesisOK(t)
      /\ \A j \in 0..(i - 1) : ReplaySteps(t)[j] = ReplaySteps(s)[j]
      /\ \A j \in 1..(i - 1) : FailedRules(t, j) = {}
  BY OthersKept, Zenon
<1> HIDE DEF t
<1>2. /\ i \in Nat /\ i > 1 /\ i \in 1..Len(s) /\ i - 1 \in 1..Len(s) /\ i - 1 # i
      /\ i - 1 \in 0..(i - 1) /\ i \in 1..Len(t)
  BY <1>1
<1>3. /\ t[i - 1] = s[i - 1] /\ ReplaySteps(t)[i - 1] = ReplaySteps(s)[i - 1]
  BY <1>1, <1>2
<1>4. r.height /\ r.timestamp /\ r.link
  <2>1. LET q == Rules(s, i) IN q.height /\ q.timestamp /\ q.link
    BY <1>2 DEF Valid
  <2> QED
    BY <1>1, <1>3, <2>1 DEF Rules, SameHeader
<1>5. /\ r.merkle = HasValidMerkleRoot(b) /\ r.hash = HasValidHash(b)
      /\ r.difficulty = MeetsDifficulty(b.hash, b.difficulty)
      /\ r.ledger = Fits(ReplaySteps(s)[i - 1], b.transactions)
  BY <1>1, <1>3 DEF Rules
<1>6. /\ F \subseteq 1..7
      /\ 1 \in F <=> ~r.height
      /\ 2 \in F <=> ~r.timestamp
      /\ 3 \in F <=> ~r.link
      /\ 4 \in F <=> ~r.merkle
      /\ 5 \in F <=> ~r.hash
      /\ 6 \in F <=> ~r.difficulty
      /\ 7 \in F <=> ~r.ledger
  BY RuleNumbers, Zenon
<1>7. \A k \in F : (\A m \in F : k <= m) => Verdict(t) = At(i, RuleOrder[k])
  BY <1>1, <1>2, VerdictNames
<1> HIDE DEF r, F
<1>8. F \subseteq 4..7
  BY <1>4, <1>6
<1> QED
  BY <1>5, <1>6, <1>7, <1>8 DEF HasValidMerkleRoot, t, F

(***************************************************************************)
(* With everything repaired that can be, the next block's link breaks: its *)
(* prevHash is the hash of the block that was there.                       *)
(***************************************************************************)
LEMMA NextLinkBreaks ==
  ASSUME NEW s, IsChain(s), Valid(s), BodiesHaveAmounts(s),
         NEW i \in 2..Len(s), NEW b, HasAmounts(b.transactions),
         SameHeader(b, s[i]), HasValidHash(b), b.merkleRoot # s[i].merkleRoot,
         FailedRules([s EXCEPT ![i] = b], i) = {}
  PROVE  Verdict([s EXCEPT ![i] = b]) =
            IF i < Len(s) THEN At(i + 1, "link") ELSE At(0, "none")
<1> DEFINE t == [s EXCEPT ![i] = b]
<1>1. /\ Len(t) = Len(s) /\ Len(s) \in Nat /\ t[i] = b
      /\ \A j \in 1..Len(s) : j # i => t[j] = s[j]
      /\ GenesisOK(t)
      /\ \A j \in 0..(i - 1) : ReplaySteps(t)[j] = ReplaySteps(s)[j]
      /\ \A j \in 1..(i - 1) : FailedRules(t, j) = {}
  BY OthersKept, Zenon
<1>2. FailedRules(t, i) = {}
  OBVIOUS
<1> HIDE DEF t
<1>3. \A j \in 1..i : FailedRules(t, j) = {}
  BY <1>1, <1>2
<1>4. CASE i < Len(s)
  <2> DEFINE next == i + 1
             F == FailedRules(t, next)
             r == Rules(t, next)
             q == Rules(s, next)
  <2>1. /\ next \in 1..Len(s) /\ next > 1 /\ next - 1 = i /\ next # i
        /\ i \in 1..Len(s)
    BY <1>1, <1>4
  <2>2. q.height /\ q.timestamp /\ q.link
    BY <2>1 DEF Valid
  <2>3. t[next] = s[next] /\ t[next - 1] = b
    BY <1>1, <2>1
  <2>4. b.hash # s[i].hash
    <3>1. HasValidHash(s[i])
      BY <2>1, ValidLinks
    <3> QED
      BY <3>1, HashDetermines
  <2>5. s[next].prevHash = s[i].hash
    BY <2>1, <2>2 DEF Rules
  <2>6. r.height /\ r.timestamp /\ ~r.link
    BY <2>1, <2>2, <2>3, <2>4, <2>5 DEF Rules, SameHeader
  <2>7. /\ F \subseteq 1..7
        /\ 1 \in F <=> ~r.height
        /\ 2 \in F <=> ~r.timestamp
        /\ 3 \in F <=> ~r.link
    BY RuleNumbers, Zenon
  <2> HIDE DEF r, F, q
  <2>8. 3 \in F /\ \A m \in F : 3 <= m
    BY <2>6, <2>7
  <2>9. \A j \in 1..(next - 1) : FailedRules(t, j) = {}
    BY <1>3, <2>1
  <2> HIDE DEF next
  <2>10. Verdict(t) = At(next, RuleOrder[3])
    BY <1>1, <2>1, <2>8, <2>9, VerdictNames DEF F
  <2>11. RuleOrder[3] = "link"
    BY DEF RuleOrder
  <2> QED
    BY <1>4, <2>10, <2>11 DEF t, next
<1>5. CASE ~(i < Len(s))
  <2>1. i = Len(t)
    BY <1>1, <1>5
  <2>2. Verdict(t) = At(0, "none")
    BY <1>1, <1>3, <2>1, VerdictNone
  <2> QED
    BY <1>5, <2>2 DEF t
<1> QED
  BY <1>4, <1>5

(***************************************************************************)
(* Each level of repair of a body with another root, in any valid chain.   *)
(***************************************************************************)
IsReported(s, i, txs) ==
    /\ Verdict([s EXCEPT ![i] = Edited(s[i], txs)]) = At(i, "merkle")
    /\ Verdict([s EXCEPT ![i] = RootRepaired(s[i], txs)]) = At(i, "hash")
    /\ \A n : LET b == Rehashed(s[i], txs, n)
              IN  Verdict([s EXCEPT ![i] = b]) =
                    IF ~MeetsDifficulty(b.hash, b.difficulty)
                    THEN At(i, "difficulty")
                    ELSE IF ~Fits(ReplaySteps(s)[i - 1], txs)
                    THEN At(i, "ledger")
                    ELSE IF i < Len(s) THEN At(i + 1, "link")
                    ELSE At(0, "none")

LEMMA EditReported ==
  ASSUME NEW s, IsChain(s), Valid(s), BodiesHaveAmounts(s),
         NEW i \in 2..Len(s), NEW txs, HasAmounts(txs),
         MerkleRoot(txs) # s[i].merkleRoot
  PROVE  IsReported(s, i, txs)
<1>1. IsBlock(s[i]) /\ HasValidHash(s[i])
  <2>1. i \in 1..Len(s)
    BY DEF IsChain, IsSequence
  <2> QED
    BY <2>1, ValidLinks DEF IsChain
<1>2. /\ RuleOrder[4] = "merkle" /\ RuleOrder[5] = "hash"
      /\ RuleOrder[6] = "difficulty" /\ RuleOrder[7] = "ledger"
  BY DEF RuleOrder
<1>3. Verdict([s EXCEPT ![i] = Edited(s[i], txs)]) = At(i, "merkle")
  <2> DEFINE b == Edited(s[i], txs)
             F == FailedRules([s EXCEPT ![i] = b], i)
  <2>1. b.transactions = txs /\ SameHeader(b, s[i]) /\ b.merkleRoot = s[i].merkleRoot
    BY <1>1, EditedFields, Zenon
  <2> HIDE DEF b
  <2>2. /\ F \subseteq 4..7
        /\ 4 \in F <=> b.merkleRoot # MerkleRoot(b.transactions)
        /\ \A k \in F : (\A m \in F : k <= m) =>
              Verdict([s EXCEPT ![i] = b]) = At(i, RuleOrder[k])
    BY <2>1, PlacedBlock, Zenon
  <2> HIDE DEF F
  <2>3. 4 \in F /\ \A m \in F : 4 <= m
    BY <2>1, <2>2
  <2> QED
    BY <1>2, <2>2, <2>3 DEF b
<1>4. Verdict([s EXCEPT ![i] = RootRepaired(s[i], txs)]) = At(i, "hash")
  <2> DEFINE b == RootRepaired(s[i], txs)
             F == FailedRules([s EXCEPT ![i] = b], i)
  <2>1. /\ b.transactions = txs /\ SameHeader(b, s[i])
        /\ b.merkleRoot = MerkleRoot(txs) /\ b.hash = s[i].hash
    BY <1>1, EditedFields, Zenon
  <2> HIDE DEF b
  <2>2. /\ F \subseteq 4..7
        /\ 4 \in F <=> b.merkleRoot # MerkleRoot(b.transactions)
        /\ 5 \in F <=> ~HasValidHash(b)
        /\ \A k \in F : (\A m \in F : k <= m) =>
              Verdict([s EXCEPT ![i] = b]) = At(i, RuleOrder[k])
    BY <2>1, PlacedBlock, Zenon
  <2>3. ~HasValidHash(b)
    BY <1>1, <2>1, HashDetermines
  <2> HIDE DEF F
  <2>4. 5 \in F /\ \A m \in F : 5 <= m
    BY <2>1, <2>2, <2>3
  <2> QED
    BY <1>2, <2>2, <2>4 DEF b
<1>5. ASSUME NEW n
      PROVE  LET b == Rehashed(s[i], txs, n)
             IN  Verdict([s EXCEPT ![i] = b]) =
                   IF ~MeetsDifficulty(b.hash, b.difficulty)
                   THEN At(i, "difficulty")
                   ELSE IF ~Fits(ReplaySteps(s)[i - 1], txs)
                   THEN At(i, "ledger")
                   ELSE IF i < Len(s) THEN At(i + 1, "link")
                   ELSE At(0, "none")
  <2> DEFINE b == Rehashed(s[i], txs, n)
             F == FailedRules([s EXCEPT ![i] = b], i)
  <2>1. /\ b.transactions = txs /\ SameHeader(b, s[i])
        /\ b.merkleRoot = MerkleRoot(txs) /\ HasValidHash(b)
    <3> HIDE DEF b
    <3>1. \A nonce : LET h == Rehashed(s[i], txs, nonce)
                     IN  /\ h.transactions = txs /\ SameHeader(h, s[i])
                         /\ h.merkleRoot = MerkleRoot(txs) /\ HasValidHash(h)
      BY <1>1, EditedFields
    <3> QED
      BY <3>1 DEF b
  <2> HIDE DEF b
  <2>2. /\ F \subseteq 4..7
        /\ 4 \in F <=> b.merkleRoot # MerkleRoot(b.transactions)
        /\ 5 \in F <=> ~HasValidHash(b)
        /\ 6 \in F <=> ~MeetsDifficulty(b.hash, b.difficulty)
        /\ 7 \in F <=> ~Fits(ReplaySteps(s)[i - 1], b.transactions)
        /\ \A k \in F : (\A m \in F : k <= m) =>
              Verdict([s EXCEPT ![i] = b]) = At(i, RuleOrder[k])
    BY <2>1, PlacedBlock, Zenon
  <2> HIDE DEF F
  <2>3. F \subseteq 6..7
    BY <2>1, <2>2
  <2>4. CASE ~MeetsDifficulty(b.hash, b.difficulty)
    <3>1. 6 \in F /\ \A m \in F : 6 <= m
      BY <2>2, <2>3, <2>4
    <3>2. Verdict([s EXCEPT ![i] = b]) = At(i, "difficulty")
      BY <1>2, <2>2, <3>1
    <3> QED
      BY <2>4, <3>2 DEF b
  <2>5. CASE /\ MeetsDifficulty(b.hash, b.difficulty)
             /\ ~Fits(ReplaySteps(s)[i - 1], txs)
    <3>1. 7 \in F /\ \A m \in F : 7 <= m
      BY <2>1, <2>2, <2>3, <2>5
    <3>2. Verdict([s EXCEPT ![i] = b]) = At(i, "ledger")
      BY <1>2, <2>2, <3>1
    <3> QED
      BY <2>5, <3>2 DEF b
  <2>6. CASE /\ MeetsDifficulty(b.hash, b.difficulty)
             /\ Fits(ReplaySteps(s)[i - 1], txs)
    <3>1. F = {}
      BY <2>1, <2>2, <2>3, <2>6
    <3>2. Verdict([s EXCEPT ![i] = b]) =
             IF i < Len(s) THEN At(i + 1, "link") ELSE At(0, "none")
      BY <2>1, <3>1, NextLinkBreaks DEF F
    <3> QED
      BY <2>6, <3>2 DEF b
  <2> QED
    BY <2>4, <2>5, <2>6
<1> QED
  BY <1>3, <1>4, <1>5, Zenon DEF IsReported

-----------------------------------------------------------------------------
(* The same of the chains that a node builds, and of edits to them.        *)

LEMMA BlockKept ==
  ASSUME NEW b, IsBlock(b)
  PROVE  /\ \A txs : IsBlock(Edited(b, txs))
         /\ \A n : IsBlock(Sealed(b, n))
         /\ \A x \in EditedHeaders(b) : IsBlock(x)
<1>1. ASSUME NEW x, IsBlock(x), NEW n PROVE IsBlock(Sealed(x, n))
  <2> DEFINE y == [x EXCEPT !.nonce = n]
  <2>1. IsBlock(y)
    BY <1>1 DEF IsBlock, Fields
  <2> HIDE DEF y
  <2>2. \A h : IsBlock([y EXCEPT !.hash = h])
    BY <2>1 DEF IsBlock, Fields
  <2>3. Sealed(x, n) = [y EXCEPT !.hash = ComputeHash(y)]
    BY DEF Sealed, y
  <2> QED
    BY <2>2, <2>3
<1>2. \A txs : IsBlock(Edited(b, txs))
  BY DEF IsBlock, Fields, Edited
<1>3. /\ IsBlock([b EXCEPT !.height = @ + 1])
      /\ IsBlock([b EXCEPT !.timestamp = @ + 1])
      /\ IsBlock([b EXCEPT !.prevHash = Zeros])
      /\ IsBlock([b EXCEPT !.difficulty = 0])
  BY DEF IsBlock, Fields
<1>4. \A x \in EditedHeaders(b) : IsBlock(x)
  BY <1>1, <1>3 DEF EditedHeaders
<1> QED
  BY <1>1, <1>2, <1>4

LEMMA EditedChain ==
  ASSUME NEW s, IsChain(s), NEW i \in 1..Len(s), NEW b, IsBlock(b)
  PROVE  IsChain([s EXCEPT ![i] = b])
<1> DEFINE t == [s EXCEPT ![i] = b]
<1>1. s \in Seq(Members(s)) /\ Len(s) \in Nat
  BY DEF IsChain, IsSequence
<1>2. t \in [1..Len(s) -> Members(t)] /\ DOMAIN t = 1..Len(s)
  <2>1. DOMAIN t = 1..Len(s)
    BY <1>1
  <2>2. \A j \in 1..Len(s) : t[j] \in Members(t)
    BY <2>1 DEF Members
  <2>3. t = [j \in 1..Len(s) |-> t[j]]
    BY <1>1
  <2> HIDE DEF t
  <2> QED
    BY <2>1, <2>2, <2>3
<1>3. t \in Seq(Members(t)) /\ Len(t) = Len(s)
  <2> HIDE DEF t
  <2> QED
    BY <1>1, <1>2
<1>4. \A j \in 1..Len(s) : IsBlock(t[j])
  BY <1>1 DEF IsChain
<1> QED
  BY <1>3, <1>4 DEF IsChain, IsSequence

LEMMA InitIsChain == Init => IsChain(blocks)
<1> SUFFICES ASSUME Init PROVE IsChain(blocks)
  OBVIOUS
<1>1. IsBlock(NewBlock(0, GenesisPrevHash, << >>, 0, GenesisTimestamp))
  BY DEF IsBlock, Fields, NewBlock
<1>2. IsBlock(Genesis)
  BY <1>1, BlockKept DEF Genesis
<1>3. IsSequence(blocks)
  BY InitInv DEF ChainInv, TypeOK
<1> QED
  BY <1>2, <1>3 DEF Init, IsChain

(***************************************************************************)
(* Only MineEnd adds a block, and the candidate is a new block.            *)
(***************************************************************************)
LEMMA StepKeepsChain ==
  ASSUME ChainInv, ChainInv', IsChain(blocks), [Next]_vars
  PROVE  IsChain(blocks)'
<1>1. CASE MineEnd
  <2>1. PICK nonce : blocks' = Append(blocks, Sealed(candidate, nonce))
    BY <1>1 DEF MineEnd
  <2>2. IsBlock(candidate)
    BY <1>1 DEF MineEnd, ChainInv, CandidateIsNew, TypeOK, IsHeader, IsBlock,
                Fields, NewBlock
  <2>3. IsBlock(Sealed(candidate, nonce))
    BY <2>2, BlockKept
  <2>4. blocks \in Seq(Members(blocks)) /\ Len(blocks) \in Nat
    BY DEF IsChain, IsSequence
  <2>5. \A i \in 1..Len(blocks') : IsBlock(blocks'[i])
    BY <2>1, <2>3, <2>4 DEF IsChain
  <2>6. IsSequence(blocks')
    BY DEF ChainInv, TypeOK, IsSequence, Members
  <2> QED
    BY <2>5, <2>6 DEF IsChain, IsSequence, Members
<1>2. CASE UNCHANGED blocks
  BY <1>2 DEF IsChain, IsSequence, Members
<1>3. ASSUME ~MineEnd PROVE UNCHANGED blocks
  BY <1>3 DEF Next, vars, chainVars, AddTransaction, Faucet, Add, MineBegin,
              MineAbort, Reload, ReloadRefused, Tick, StepBack
<1> QED
  BY <1>1, <1>2, <1>3

(***************************************************************************)
(* No edit of a chain that a node builds is another history with the same  *)
(* last hash: what it changes besides bodies with the same Merkle root is  *)
(* either reported by Validate or gives the chain another last hash.       *)
(***************************************************************************)
THEOREM EditsAreCommitted == Spec => []TipHashCommits
<1>1. Init => ChainInv /\ IsChain(blocks)
  BY InitInv, InitIsChain
<1>2. ChainInv /\ ChainInv' /\ IsChain(blocks) /\ [Next]_vars => IsChain(blocks)'
  BY StepKeepsChain
<1>3. IsChain(blocks) => TipHashCommits
  <2> SUFFICES ASSUME IsChain(blocks), NEW i \in 1..Len(blocks)
               PROVE  /\ \A b \in EditedHeaders(blocks[i]) :
                            CommitsTo(blocks, EditedAt(i, b))
                      /\ \A txs \in EditedBodies(blocks[i].transactions) :
                            CommitsTo(blocks, EditedAt(i, Edited(blocks[i], txs)))
    BY DEF TipHashCommits
  <2>1. IsBlock(blocks[i])
    BY DEF IsChain
  <2>2. ASSUME NEW b, IsBlock(b) PROVE CommitsTo(blocks, EditedAt(i, b))
    BY <2>2, EditedChain, LastHashCommits DEF EditedAt
  <2> QED
    BY <2>1, <2>2, BlockKept
<1> QED
  BY <1>1, <1>2, <1>3, Invariance, PTL DEF Spec

(***************************************************************************)
(* Edited bodies have amounts, though perhaps not int64 ones.              *)
(***************************************************************************)
LEMMA WithoutType ==
  ASSUME NEW txs \in Seq(Transaction), NEW k \in 1..Len(txs)
  PROVE  Without(txs, k) \in Seq(Transaction)
<1>1. Len(txs) \in Nat /\ \A i \in 1..Len(txs) : txs[i] \in Transaction
  OBVIOUS
<1>2. SubSeq(txs, 1, k - 1) \in Seq(Transaction)
  BY <1>1, SubSeqProperties
<1>3. SubSeq(txs, k + 1, Len(txs)) \in Seq(Transaction)
  BY <1>1, SubSeqProperties
<1> QED
  BY <1>2, <1>3, ConcatProperties DEF Without

(***************************************************************************)
(* The edits, one by one.                                                  *)
(***************************************************************************)
LEMMA EditKinds ==
  ASSUME NEW txs, NEW e \in EditedBodies(txs)
  PROVE  /\ e # txs
         /\ \/ \E k \in DOMAIN txs, d \in {-1, 1} : e = [txs EXCEPT ![k].amount = @ + d]
            \/ \E k \in DOMAIN txs : e = Without(txs, k)
            \/ \E k \in DOMAIN txs : e = Append(Without(txs, k), txs[k])
            \/ txs # << >> /\ e = TailRepeated(txs)
<1> DEFINE A == {[txs EXCEPT ![k].amount = @ + d] : k \in DOMAIN txs, d \in {-1, 1}}
           B == {Without(txs, k) : k \in DOMAIN txs}
           C == {Append(Without(txs, k), txs[k]) : k \in DOMAIN txs}
           D == IF txs = << >> THEN {} ELSE {TailRepeated(txs)}
<1>1. e # txs /\ (e \in A \/ e \in B \/ e \in C \/ e \in D)
  BY SMT DEF EditedBodies
<1>2. e \in A => \E k \in DOMAIN txs, d \in {-1, 1} : e = [txs EXCEPT ![k].amount = @ + d]
  BY SMT
<1>3. e \in B => \E k \in DOMAIN txs : e = Without(txs, k)
  BY SMT
<1>4. e \in C => \E k \in DOMAIN txs : e = Append(Without(txs, k), txs[k])
  BY SMT
<1>5. e \in D => txs # << >> /\ e = TailRepeated(txs)
  BY SMT
<1> HIDE DEF A, B, C, D
<1> QED
  BY <1>1, <1>2, <1>3, <1>4, <1>5

LEMMA EditedHaveAmounts ==
  ASSUME NEW txs \in Seq(Transaction), NEW e \in EditedBodies(txs)
  PROVE  HasAmounts(e)
<1>1. /\ Len(txs) \in Nat /\ DOMAIN txs = 1..Len(txs)
      /\ \A i \in 1..Len(txs) : txs[i] \in Transaction /\ txs[i].amount \in Int
  BY TransactionsHaveAmounts DEF HasAmounts
<1>2. CASE \E k \in DOMAIN txs, d \in {-1, 1} : e = [txs EXCEPT ![k].amount = @ + d]
  <2>1. PICK k \in 1..Len(txs), d \in {-1, 1} :
           e = [txs EXCEPT ![k] = [txs[k] EXCEPT !.amount = @ + d]]
    BY <1>1, <1>2
  <2> DEFINE tx == [txs[k] EXCEPT !.amount = @ + d]
  <2>2. tx.amount \in Int
    <3>1. txs[k] \in Transaction /\ txs[k].amount \in Int
      BY <1>1
    <3>2. tx.amount = txs[k].amount + d
      BY <3>1 DEF Transaction
    <3> HIDE DEF tx
    <3> QED
      BY <3>1, <3>2
  <2>3. e = [txs EXCEPT ![k] = tx]
    BY <2>1
  <2> HIDE DEF tx
  <2>4. Len(e) = Len(txs)
    BY <1>1, <2>3
  <2>5. \A i \in 1..Len(txs) : e[i].amount \in Int
    BY <1>1, <2>2, <2>3
  <2> QED
    BY <1>1, <2>4, <2>5 DEF HasAmounts
<1>3. CASE e \in Seq(Transaction)
  BY <1>3, TransactionsHaveAmounts
<1>4. ASSUME NEW k \in DOMAIN txs
      PROVE  /\ Without(txs, k) \in Seq(Transaction)
             /\ Append(Without(txs, k), txs[k]) \in Seq(Transaction)
  BY <1>1, WithoutType, AppendProperties
<1>5. txs # << >> => TailRepeated(txs) \in Seq(Transaction)
  <2>1. txs # << >> => Len(txs) \in 1..Len(txs)
    BY <1>1, EmptySeq
  <2> QED
    BY <1>1, <2>1, AppendProperties DEF TailRepeated
<1>6. /\ e # txs
      /\ \/ \E k \in DOMAIN txs, d \in {-1, 1} : e = [txs EXCEPT ![k].amount = @ + d]
         \/ \E k \in DOMAIN txs : e = Without(txs, k)
         \/ \E k \in DOMAIN txs : e = Append(Without(txs, k), txs[k])
         \/ txs # << >> /\ e = TailRepeated(txs)
  BY EditKinds
<1>7. CASE \/ \E k \in DOMAIN txs : e = Without(txs, k)
           \/ \E k \in DOMAIN txs : e = Append(Without(txs, k), txs[k])
           \/ txs # << >> /\ e = TailRepeated(txs)
  BY <1>3, <1>4, <1>5, <1>7, Zenon
<1> QED
  BY <1>2, <1>6, <1>7, Zenon

(***************************************************************************)
(* The balances before block i are the replay of the blocks before it.     *)
(***************************************************************************)
LEMMA ReplayOfPrefix ==
  ASSUME NEW s, IsSequence(s), BodiesHaveAmounts(s), NEW i \in 1..Len(s)
  PROVE  Replay(SubSeq(s, 1, i - 1)) = ReplaySteps(s)[i - 1]
<1> DEFINE p == SubSeq(s, 1, i - 1)
           m == i - 1
<1>1. s \in Seq(Members(s)) /\ Len(s) \in Nat /\ m \in Nat /\ m <= Len(s)
  BY DEF IsSequence
<1>2. Len(p) = m /\ \A j \in 1..m : p[j] = s[j]
  <2>1. \A j \in 1..m : s[j] \in Members(s)
    BY <1>1
  <2> QED
    BY <1>1, <2>1, SubSeqProperties
<1> HIDE DEF p, m
<1>3. BodiesHaveAmounts(p)
  BY <1>1, <1>2 DEF BodiesHaveAmounts
<1>4. ReplaySteps(p)[m] = ReplaySteps(s)[m]
  <2>1. m \in 0..m
    BY <1>1
  <2> QED
    BY <1>1, <1>2, <1>3, <2>1, ReplayAgrees
<1> QED
  BY <1>2, <1>4 DEF Replay, p, m

(***************************************************************************)
(* Validate names the block and the rule that an edit of a body broke, at  *)
(* every level of repair: of any chain that a node builds, and any list of *)
(* transactions in EditedBodies that has another Merkle root.              *)
(***************************************************************************)
THEOREM EditsAreFound == Spec => []EditsAreReported
<1>1. Init => ChainInv /\ IsChain(blocks)
  BY InitInv, InitIsChain
<1>2. ChainInv /\ ChainInv' /\ IsChain(blocks) /\ [Next]_vars => IsChain(blocks)'
  BY StepKeepsChain
<1>3. ChainInv /\ IsChain(blocks) => EditsAreReported
  <2> SUFFICES ASSUME ChainInv, IsChain(blocks), Valid(blocks),
                      NEW i \in 2..Len(blocks),
                      NEW txs \in EditedBodies(blocks[i].transactions),
                      MerkleRoot(txs) # blocks[i].merkleRoot
               PROVE
                /\ Verdict(EditedAt(i, Edited(blocks[i], txs))) = At(i, "merkle")
                /\ Verdict(EditedAt(i, RootRepaired(blocks[i], txs))) = At(i, "hash")
                /\ \A n \in Nonces :
                      LET b == Rehashed(blocks[i], txs, n)
                      IN  Verdict(EditedAt(i, b)) =
                            IF ~MeetsDifficulty(b.hash, b.difficulty)
                            THEN At(i, "difficulty")
                            ELSE IF ~Fits(Replay(SubSeq(blocks, 1, i - 1)), txs)
                            THEN At(i, "ledger")
                            ELSE IF i < Len(blocks) THEN At(i + 1, "link")
                            ELSE At(0, "none")
    BY Zenon DEF EditsAreReported
  <2>1. /\ IsSequence(blocks) /\ i \in 1..Len(blocks) /\ Len(blocks) \in Nat
        /\ \A j \in 1..Len(blocks) : blocks[j].transactions \in Seq(Transaction)
    BY DEF ChainInv, TypeOK, IsBody, IsSequence
  <2>2. BodiesHaveAmounts(blocks)
    BY <2>1, TransactionsHaveAmounts DEF BodiesHaveAmounts
  <2>3. HasAmounts(txs)
    BY <2>1, EditedHaveAmounts
  <2>4. Replay(SubSeq(blocks, 1, i - 1)) = ReplaySteps(blocks)[i - 1]
    BY <2>1, <2>2, ReplayOfPrefix
  <2>5. IsReported(blocks, i, txs)
    BY <2>2, <2>3, EditReported
  <2> QED
    BY <2>4, <2>5, Zenon DEF EditedAt, IsReported
<1> QED
  BY <1>1, <1>2, <1>3, Invariance, PTL DEF Spec

-----------------------------------------------------------------------------
(***************************************************************************)
(* What is left, and where, when a transaction is taken out.               *)
(***************************************************************************)
LEMMA WithoutFacts ==
  ASSUME NEW txs \in Seq(Transaction), NEW k \in 1..Len(txs)
  PROVE  /\ Len(Without(txs, k)) = Len(txs) - 1
         /\ \A j \in 1..(Len(txs) - 1) :
               Without(txs, k)[j] = txs[IF j < k THEN j ELSE j + 1]
<1> DEFINE n == Len(txs)
           p == SubSeq(txs, 1, k - 1)
           q == SubSeq(txs, k + 1, n)
<1>1. n \in Nat /\ \A i \in 1..n : txs[i] \in Transaction
  OBVIOUS
<1>2. /\ p \in Seq(Transaction) /\ Len(p) = k - 1
      /\ \A j \in 1..(k - 1) : p[j] = txs[j]
  BY <1>1, SubSeqProperties
<1>3. /\ q \in Seq(Transaction) /\ Len(q) = n - k
      /\ \A j \in 1..(n - k) : q[j] = txs[k + j]
  BY <1>1, SubSeqProperties
<1> HIDE DEF p, q
<1>4. Len(p \o q) = n - 1
  <2>1. Len(p \o q) = Len(p) + Len(q)
    BY <1>2, <1>3, ConcatProperties
  <2> QED
    BY <1>1, <1>2, <1>3, <2>1
<1>5. ASSUME NEW j \in 1..(n - 1)
      PROVE  (p \o q)[j] = txs[IF j < k THEN j ELSE j + 1]
  <2>1. (p \o q)[j] = IF j <= Len(p) THEN p[j] ELSE q[j - Len(p)]
    BY <1>1, <1>2, <1>3, <1>4, ConcatProperties
  <2>2. CASE j < k
    BY <1>1, <1>2, <2>1, <2>2
  <2>3. CASE ~(j < k)
    <3>1. j - (k - 1) \in 1..(n - k) /\ k + (j - (k - 1)) = j + 1 /\ ~(j <= k - 1)
      BY <1>1, <2>3
    <3> QED
      BY <1>2, <1>3, <2>1, <2>3, <3>1
  <2> QED
    BY <2>2, <2>3
<1> QED
  BY <1>4, <1>5 DEF Without, p, q

(***************************************************************************)
(* The edits that a Merkle root does not see: the odd tail repeated.       *)
(***************************************************************************)
LEMMA RootSeesEdits ==
  ASSUME NEW txs \in Seq(Transaction), AllDifferent(txs),
         NEW e \in EditedBodies(txs)
  PROVE  MerkleRoot(e) = MerkleRoot(txs) <=>
           /\ e = TailRepeated(txs)
           /\ Len(txs) > 1 /\ Len(txs) % 2 = 1
<1> DEFINE n == Len(txs)
           Odd == n > 1 /\ n % 2 = 1
<1>1. /\ n \in Nat /\ DOMAIN txs = 1..n
      /\ \A i \in 1..n : txs[i] \in Transaction
  OBVIOUS
<1>2. \A i, j \in 1..n : TxHash(txs[i]) = TxHash(txs[j]) => i = j
  BY <1>1, TxHashDetermines DEF AllDifferent
<1>3. n # 0
  <2>1. DOMAIN txs # {} \/ txs # << >>
    BY EditKinds
  <2> QED
    BY <1>1, <2>1, EmptySeq
<1>4. /\ TailRepeated(txs) \in Seq(Transaction)
      /\ Len(TailRepeated(txs)) = n + 1
      /\ TailRepeated(txs)[n + 1] = txs[n]
      /\ \A i \in 1..n : TailRepeated(txs)[i] = txs[i]
  <2>1. txs[n] \in Transaction
    BY <1>1, <1>3
  <2> QED
    BY <1>1, <2>1, AppendProperties DEF TailRepeated
<1>5. CASE \E k \in DOMAIN txs, d \in {-1, 1} : e = [txs EXCEPT ![k].amount = @ + d]
  <2>1. PICK k \in 1..n, d \in {-1, 1} :
           e = [txs EXCEPT ![k] = [txs[k] EXCEPT !.amount = @ + d]]
    BY <1>1, <1>5
  <2>2. Len(e) = n
    BY <1>1, <2>1
  <2>3. e[k].amount = txs[k].amount + d /\ txs[k].amount \in Int
    <3>1. txs[k] \in Transaction
      BY <1>1
    <3>2. txs[k].amount \in Int
      BY <3>1, LedgerAssumption DEF Transaction, Int64
    <3>3. e[k] = [txs[k] EXCEPT !.amount = @ + d]
      BY <1>1, <2>1
    <3> QED
      BY <3>1, <3>2, <3>3 DEF Transaction
  <2>4. TxHash(txs[k]) # TxHash(e[k])
    <3>1. e[k].amount # txs[k].amount
      BY <2>3
    <3> QED
      BY <3>1, TxHashDetermines
  <2>5. MerkleRoot(e) # MerkleRoot(txs)
    BY <1>1, <1>3, <2>2, <2>4, RootOrders
  <2> QED
    BY <1>1, <1>4, <2>2, <2>5
<1>6. CASE \E k \in DOMAIN txs : e = Without(txs, k)
  <2>1. PICK k \in 1..n : e = Without(txs, k)
    BY <1>1, <1>6
  <2>2. /\ Len(e) = n - 1
        /\ \A j \in 1..(n - 1) : e[j] = txs[IF j < k THEN j ELSE j + 1]
    BY <2>1, WithoutFacts
  <2>3. MerkleRoot(e) # MerkleRoot(txs)
    <3>1. CASE n = 1
      <4>1. e = << >>
        BY <2>1, <2>2, <3>1, WithoutType, EmptySeq
      <4> QED
        BY <1>1, <1>3, <4>1, RootOfSome
    <3>2. CASE n # 1
      <4> SUFFICES ASSUME MerkleRoot(txs) = MerkleRoot(e) PROVE FALSE
        OBVIOUS
      <4>1. Len(e) \in Nat \ {0} /\ n \in Nat \ {0}
        BY <1>1, <1>3, <2>2, <3>2
      <4>2. PICK j \in 1..(n - 1) : TxHash(txs[k]) = TxHash(e[j])
        <5>1. \E j \in 1..Len(e) : TxHash(txs[k]) = TxHash(e[j])
          BY <4>1, RootKeepsMembers
        <5> QED
          BY <2>2, <5>1
      <4> DEFINE i == IF j < k THEN j ELSE j + 1
      <4>3. i \in 1..n /\ i # k
        BY <1>1
      <4>4. e[j] = txs[i]
        BY <2>2
      <4> HIDE DEF i
      <4> QED
        BY <1>2, <4>2, <4>3, <4>4
    <3> QED
      BY <3>1, <3>2
  <2>4. e # TailRepeated(txs)
    BY <1>1, <1>4, <2>2
  <2> QED
    BY <2>3, <2>4
<1>7. CASE \E k \in DOMAIN txs : e = Append(Without(txs, k), txs[k])
  <2>1. PICK k \in 1..n : e = Append(Without(txs, k), txs[k])
    BY <1>1, <1>7
  <2>2. e \in Seq(Transaction) /\ Len(e) = n
    <3>1. Without(txs, k) \in Seq(Transaction) /\ Len(Without(txs, k)) = n - 1
      BY WithoutType, WithoutFacts
    <3>2. txs[k] \in Transaction
      BY <1>1
    <3>3. e \in Seq(Transaction) /\ Len(e) = Len(Without(txs, k)) + 1
      BY <2>1, <3>1, <3>2, AppendProperties
    <3> QED
      BY <1>1, <3>1, <3>3
  <2>3. MerkleRoot(e) # MerkleRoot(txs)
    <3> SUFFICES ASSUME MerkleRoot(txs) = MerkleRoot(e) PROVE FALSE
      OBVIOUS
    <3>1. \A i \in 1..n : TxHash(txs[i]) = TxHash(e[i])
      BY <1>1, <1>3, <2>2, RootOrders
    <3>2. \A i \in 1..n : e[i] \in Transaction
      BY <2>2
    <3>3. \A i \in 1..n : txs[i] = e[i]
      BY <1>1, <3>1, <3>2, TxHashDetermines
    <3>4. txs = e
      BY <1>1, <2>2, <3>3, SeqEqual
    <3> QED
      BY <3>4, EditKinds
  <2> QED
    BY <1>1, <1>4, <2>2, <2>3
<1>8. CASE e = TailRepeated(txs)
  <2>1. Odd => MerkleRoot(e) = MerkleRoot(txs)
    BY <1>1, <1>3, <1>4, <1>8, OddTailKeepsRoot
  <2>2. ~Odd => MerkleRoot(e) # MerkleRoot(txs)
    BY <1>1, <1>2, <1>3, <1>4, <1>8, OtherTailIsSeen
  <2> QED
    BY <1>8, <2>1, <2>2
<1>9. \/ \E k \in DOMAIN txs, d \in {-1, 1} : e = [txs EXCEPT ![k].amount = @ + d]
      \/ \E k \in DOMAIN txs : e = Without(txs, k)
      \/ \E k \in DOMAIN txs : e = Append(Without(txs, k), txs[k])
      \/ e = TailRepeated(txs)
  BY EditKinds, Zenon
<1> QED
  BY <1>5, <1>6, <1>7, <1>8, <1>9

(***************************************************************************)
(* The Merkle root of a block of any size tells every edit of its          *)
(* transactions from them but one, the last of an odd number repeated.     *)
(* Code: MerkleRoot, and rule 5 of Validate.                               *)
(***************************************************************************)
THEOREM RootsSummarise == Spec => []RootMissesOnlyARepeatedTail
<1>1. ChainInv => RootMissesOnlyARepeatedTail
  <2>1. ChainInv => Tip.transactions \in Seq(Transaction)
    BY BlocksFacts DEF ChainInv
  <2> QED
    BY <2>1, RootSeesEdits, Zenon DEF RootMissesOnlyARepeatedTail
<1> QED
  BY <1>1, Invariance, PTL
=============================================================================
