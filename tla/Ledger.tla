------------------------------- MODULE Ledger -------------------------------
(***************************************************************************)
(* The accounting rules of internal/ledger: what a transaction is, when it *)
(* may be applied to a set of balances, what applying it does, and the     *)
(* queue of pending transactions.  Everything here is a pure function of   *)
(* its arguments; module Chain owns the state.                             *)
(*                                                                         *)
(* Addresses are the members of Accounts: the syntactic rules of           *)
(* validAddress are abstracted to membership.  A signature records the key *)
(* that made it and the bytes it was made over, so it verifies exactly for *)
(* those bytes and that key (ed25519 is taken to be unforgeable).          *)
(***************************************************************************)
EXTENDS Integers, Sequences

CONSTANTS
    Accounts,   \* the well-formed addresses
    Coinbase,   \* the empty sender of a transaction that mints coins
    NoSig,      \* the absent PubKey/Signature pair
    MaxInt64    \* the largest value of Go's int64, shrunk for model checking

ASSUME LedgerAssumption ==
    /\ Coinbase \notin Accounts
    /\ MaxInt64 \in Nat \ {0}

Int64 == (-MaxInt64 - 1)..MaxInt64

(***************************************************************************)
(* Two's complement reduction of an integer to 64 (here: fewer) bits.      *)
(***************************************************************************)
Wrap64(n) == ((n + MaxInt64 + 1) % (2 * (MaxInt64 + 1))) - (MaxInt64 + 1)

-----------------------------------------------------------------------------
(* Transactions.                                                           *)

SigningBytes(tx) == <<tx.from, tx.to, tx.amount, tx.timestamp>>

Signature == [key : Accounts,
              over : (Accounts \union {Coinbase}) \X Accounts \X Int64 \X Nat]

Transaction == [from      : Accounts \union {Coinbase},
                to        : Accounts,
                amount    : Int64,
                timestamp : Nat,
                sig       : Signature \union {NoSig}]

NewTransfer(from, to, amount, timestamp) ==
    [from |-> from, to |-> to, amount |-> amount,
     timestamp |-> timestamp, sig |-> NoSig]

NewCoinbase(to, amount, timestamp) ==
    NewTransfer(Coinbase, to, amount, timestamp)

(***************************************************************************)
(* KeyPair.Sign: the key's own address becomes the sender.                 *)
(***************************************************************************)
Sign(key, tx) ==
    LET owned == [tx EXCEPT !.from = key]
    IN  [owned EXCEPT !.sig = [key |-> key, over |-> SigningBytes(owned)]]

IsCoinbase(tx) == tx.from = Coinbase

VerifySignature(tx) ==
    /\ tx.sig # NoSig
    /\ tx.sig.key = tx.from
    /\ tx.sig.over = SigningBytes(tx)

ValidTransaction(tx) ==
    /\ tx.amount > 0
    /\ tx.to \in Accounts
    /\ IF IsCoinbase(tx)
       THEN tx.sig = NoSig
       ELSE tx.from \in Accounts /\ tx.from # tx.to /\ VerifySignature(tx)

-----------------------------------------------------------------------------
(* Balances.  The Go map drops an account whose balance returns to zero    *)
(* and reads an absent one as zero: a total function.                      *)

State == [Accounts -> 0..MaxInt64]

NewState == [a \in Accounts |-> 0]

\* Mutant (the sender's funds are not checked).
CanApplyUnfunded(bal, tx) ==
    ValidTransaction(tx) /\ MaxInt64 - bal[tx.to] >= tx.amount

CanApply(bal, tx) ==
    /\ ValidTransaction(tx)
    /\ ~IsCoinbase(tx) => bal[tx.from] >= tx.amount
    /\ MaxInt64 - bal[tx.to] >= tx.amount

\* Mutant (the debit is forgotten).
ApplyCreditOnly(bal, tx) == [bal EXCEPT ![tx.to] = @ + tx.amount]

(***************************************************************************)
(* The effect of Apply on a transaction that CanApply accepts: debit the   *)
(* sender, which a coinbase does not have, and credit the recipient.       *)
(***************************************************************************)
Apply(bal, tx) ==
    [a \in Accounts |-> bal[a] - (IF a = tx.from THEN tx.amount ELSE 0)
                               + (IF a = tx.to   THEN tx.amount ELSE 0)]

(***************************************************************************)
(* The balances ApplyAll's copy goes through: after 0, 1, 2, ... of txs.   *)
(* Fits says no transaction fails on the way, and only then is the copy    *)
(* committed: ApplyAll is the committed result.                            *)
(***************************************************************************)
Run(bal, txs) ==
    LET after[i \in 0..Len(txs)] ==
            IF i = 0 THEN bal ELSE Apply(after[i - 1], txs[i])
    IN  after

Fits(bal, txs) == \A i \in 1..Len(txs) : CanApply(Run(bal, txs)[i - 1], txs[i])

ApplyAll(bal, txs) == Run(bal, txs)[Len(txs)]

(***************************************************************************)
(* The sum of the balances of a set of accounts, and Supply: the same sum  *)
(* over all of them in int64 arithmetic.                                   *)
(***************************************************************************)
Total(bal) ==
    LET sum[S \in SUBSET Accounts] ==
            IF S = {} THEN 0
            ELSE LET a == CHOOSE x \in S : TRUE IN bal[a] + sum[S \ {a}]
    IN  sum[Accounts]

Supply(bal) == Wrap64(Total(bal))

-----------------------------------------------------------------------------
(* The pending queue.                                                      *)

AtMost(n, m) == IF n < m THEN n ELSE m

\* Mutant (the pending queue is not taken into account).
CanAddToConfirmed(pool, tx, bal) == CanApply(bal, tx)

(***************************************************************************)
(* Mempool.Add accepts tx when the queue still fits the confirmed balances *)
(* and tx can be applied on top of both.                                   *)
(***************************************************************************)
CanAdd(pool, tx, bal) ==
    /\ Fits(bal, pool)
    /\ CanApply(ApplyAll(bal, pool), tx)

\* Mutant (the newest transactions are taken).
PeekNewest(pool, n) ==
    SubSeq(pool, Len(pool) - AtMost(n, Len(pool)) + 1, Len(pool))

Peek(pool, n) == SubSeq(pool, 1, AtMost(n, Len(pool)))

\* Mutant (one too few, one too many).
RemoveTooFew(pool, n) == IF n = 0 THEN pool ELSE SubSeq(pool, n, Len(pool))

RemoveTooMany(pool, n) == SubSeq(pool, AtMost(n, Len(pool)) + 2, Len(pool))

Remove(pool, n) == SubSeq(pool, AtMost(n, Len(pool)) + 1, Len(pool))

\* Mutant (each is checked as if it were alone in the queue).
ReadmitAlone(queue, bal) == SelectSeq(queue, LAMBDA tx : CanApply(bal, tx))

(***************************************************************************)
(* Adding the transactions of a queue one at a time to an empty pool,      *)
(* skipping the ones Add refuses, as chain.Load does with a saved pool.    *)
(***************************************************************************)
Readmit(queue, bal) ==
    LET kept[i \in 0..Len(queue)] ==
            IF i = 0 THEN << >>
            ELSE IF CanAdd(kept[i - 1], queue[i], bal)
                 THEN Append(kept[i - 1], queue[i])
                 ELSE kept[i - 1]
    IN  kept[Len(queue)]
=============================================================================
