------------------------------- MODULE MCChain ------------------------------
(***************************************************************************)
(* Instances of Chain for TLC.                                             *)
(***************************************************************************)
EXTENDS ChainImplementsPayments, Audit

CONSTANTS alice, bob

Settings(difficulty, size, reward, miner) ==
    [Difficulty |-> difficulty, MaxTxPerBlock |-> size,
     MiningReward |-> reward, MinerAddress |-> miner]

(***************************************************************************)
(* Settings a node may be restarted with: another target, block size,      *)
(* reward and miner, down to blocks of one transaction without a reward.   *)
(***************************************************************************)
MCChanging == {Settings(1, 3, 3, alice), Settings(2, 1, 0, bob)}

(***************************************************************************)
(* Two rewards for two miners, with room for one queued transaction.       *)
(***************************************************************************)
MCTwoRewards == {Settings(1, 2, 3, alice), Settings(1, 2, 1, bob)}

MCFixed == {Settings(1, 2, 3, alice)}
MCBlockOfOne == {Settings(1, 1, 3, alice)}

(***************************************************************************)
(* The leading zeros of a hash are its nonce: TLC then finds nonces that   *)
(* are good enough and nonces that are not.                                *)
(***************************************************************************)
MCLeadingZeros(hash) == hash[7]
=============================================================================
