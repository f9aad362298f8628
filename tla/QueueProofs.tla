----------------------------- MODULE QueueProofs ----------------------------
(***************************************************************************)
(* The pending queue of module Chain: it never goes stale, nothing in it   *)
(* is lost, repeated or reordered, and the chain implements Payments, for  *)
(* every value of the constants under which no balance can reach MaxInt64. *)
(***************************************************************************)
EXTENDS ChainProofs, ChainImplementsPayments

(***************************************************************************)
(* No amount exceeds Most and no block Size, under any settings, and all   *)
(* that the longest chain can pay to one account, rewards and the queue    *)
(* included, fits in int64.                                                *)
(***************************************************************************)
PerBlock(Most, Size) == Size * Most

CoinsFit(Most, Size) ==
    /\ Most \in Nat /\ Size \in Nat
    /\ \A amount \in Amounts : amount <= Most
    /\ \A c \in Configs : c.MiningReward <= Most /\ c.MaxTxPerBlock <= Size
    /\ MaxHeight * PerBlock(Most, Size) + MaxHeight * Most <= MaxInt64

UpToMost(txs, Most) == \A i \in 1..Len(txs) : txs[i].amount <= Most

-----------------------------------------------------------------------------
(* Transactions on balances that differ.                                   *)

LEMMA AmountType ==
  ASSUME NEW txs \in Seq(Transaction), NEW i \in 1..Len(txs)
  PROVE  /\ txs[i] \in Transaction /\ txs[i].amount \in Int
         /\ txs[i].to \in Accounts
<1>1. txs[i] \in Transaction
  OBVIOUS
<1> QED
  BY <1>1, LedgerAssumption DEF Transaction, Int64

Out(tx, a) == IF a = tx.from THEN tx.amount ELSE 0
In(tx, a)  == IF a = tx.to   THEN tx.amount ELSE 0

LEMMA ApplyAt ==
  ASSUME NEW bal, NEW tx, NEW a \in Accounts
  PROVE  Apply(bal, tx)[a] = bal[a] - Out(tx, a) + In(tx, a)
BY Zenon DEF Apply, Out, In

(***************************************************************************)
(* What transactions do to an account does not depend on what is in it.    *)
(***************************************************************************)
LEMMA RunShift ==
  ASSUME NEW lo \in RawState, NEW hi \in RawState, NEW txs \in Seq(Transaction)
  PROVE  \A i \in 0..Len(txs) : \A a \in Accounts :
            Run(hi, txs)[i][a] - Run(lo, txs)[i][a] = hi[a] - lo[a]
<1> DEFINE n == Len(txs)
           L == Run(lo, txs)
           H == Run(hi, txs)
           Good == {i \in 0..n : \A a \in Accounts : H[i][a] - L[i][a] = hi[a] - lo[a]}
<1>1. n \in Nat /\ \A i \in 1..n : txs[i] \in Transaction
  OBVIOUS
<1>2. /\ L \in [0..n -> RawState] /\ L[0] = lo
      /\ \A i \in 1..n : L[i] = Apply(L[i - 1], txs[i])
  BY RunDef
<1>3. /\ H \in [0..n -> RawState] /\ H[0] = hi
      /\ \A i \in 1..n : H[i] = Apply(H[i - 1], txs[i])
  BY RunDef
<1> HIDE DEF n, L, H
<1>4. 0 \in Good
  BY <1>1, <1>2, <1>3
<1>5. ASSUME NEW i \in 1..n, i - 1 \in Good PROVE i \in Good
  <2> SUFFICES ASSUME NEW a \in Accounts
               PROVE  H[i][a] - L[i][a] = hi[a] - lo[a]
    BY <1>1
  <2> DEFINE out == Out(txs[i], a)
             in  == In(txs[i], a)
  <2>1. i - 1 \in 0..n /\ L[i - 1] \in RawState /\ H[i - 1] \in RawState
    BY <1>1, <1>2, <1>3
  <2>2. out \in Int /\ in \in Int
    <3>1. txs[i].amount \in Int
      BY AmountType DEF n
    <3> QED
      BY <3>1 DEF Out, In
  <2>3. /\ L[i][a] = L[i - 1][a] - out + in
        /\ H[i][a] = H[i - 1][a] - out + in
    <3>1. L[i] = Apply(L[i - 1], txs[i]) /\ H[i] = Apply(H[i - 1], txs[i])
      BY <1>2, <1>3
    <3>2. \A bal : Apply(bal, txs[i])[a] = bal[a] - out + in
      BY ApplyAt, Zenon
    <3> QED
      BY <3>1, <3>2, Zenon
  <2>4. H[i - 1][a] - L[i - 1][a] = hi[a] - lo[a]
    BY <1>5
  <2>5. /\ L[i - 1][a] \in Int /\ H[i - 1][a] \in Int
        /\ lo[a] \in Int /\ hi[a] \in Int
    BY <2>1 DEF RawState
  <2> HIDE DEF out, in
  <2> QED
    BY <2>2, <2>3, <2>4, <2>5, SMTT(60)
<1>6. \A i \in 0..n : i \in Good
  <2> HIDE DEF Good
  <2> QED
    BY <1>1, <1>4, <1>5, UpTo
<1> QED
  BY <1>6 DEF n, L, H

(***************************************************************************)
(* A list of i transactions adds at most i times Most to an account.       *)
(***************************************************************************)
LEMMA RunBounded ==
  ASSUME NEW Most \in Nat, NEW bal \in State, NEW txs \in Seq(Transaction),
         Fits(bal, txs), UpToMost(txs, Most)
  PROVE  \A i \in 0..Len(txs) : \A a \in Accounts :
            Run(bal, txs)[i][a] <= bal[a] + i * Most
<1> DEFINE n == Len(txs)
           R == Run(bal, txs)
           Good == {i \in 0..n : \A a \in Accounts : R[i][a] <= bal[a] + i * Most}
<1>1. n \in Nat /\ \A i \in 1..n : txs[i] \in Transaction
  OBVIOUS
<1>2. R[0] = bal /\ \A i \in 1..n : R[i] = Apply(R[i - 1], txs[i])
  BY StateIsRaw, RunDef
<1>3. \A i \in 0..n : R[i] \in State
  BY RunSafe
<1>4. \A i \in 1..n : txs[i].amount > 0 /\ txs[i].amount <= Most
  BY DEF Fits, CanApply, ValidTransaction, UpToMost
<1>5. 0 \in Good
  BY <1>1, <1>2, LedgerAssumption DEF State
<1> HIDE DEF n, R
<1>6. ASSUME NEW i \in 1..n, i - 1 \in Good PROVE i \in Good
  <2> SUFFICES ASSUME NEW a \in Accounts PROVE R[i][a] <= bal[a] + i * Most
    BY <1>1
  <2> DEFINE out == Out(txs[i], a)
             in  == In(txs[i], a)
  <2>1. out \in Nat /\ in \in Nat /\ in <= Most
    <3>1. txs[i].amount \in Int
      BY AmountType DEF n
    <3> QED
      BY <1>4, <3>1 DEF Out, In
  <2>2. R[i][a] = R[i - 1][a] - out + in
    BY <1>2, ApplyAt
  <2>3. R[i - 1][a] <= bal[a] + (i - 1) * Most
    BY <1>6
  <2>4. R[i - 1][a] \in Int /\ bal[a] \in Int
    BY <1>1, <1>3, LedgerAssumption DEF State
  <2>5. (i - 1) * Most + Most = i * Most /\ (i - 1) * Most \in Int /\ i * Most \in Int
    BY <1>1
  <2> HIDE DEF out, in
  <2> QED
    BY <2>1, <2>2, <2>3, <2>4, <2>5
<1>7. \A i \in 0..n : i \in Good
  <2> HIDE DEF Good
  <2> QED
    BY <1>1, <1>5, <1>6, UpTo
<1> QED
  BY <1>7 DEF n, R

(***************************************************************************)
(* More coins do no harm: what fits some balances fits higher ones, as     *)
(* long as they stay away from the top of int64.                           *)
(***************************************************************************)
LEMMA FitsMore ==
  ASSUME NEW Most \in Nat, NEW lo \in State, NEW hi \in State,
         NEW txs \in Seq(Transaction), Fits(lo, txs), UpToMost(txs, Most),
         \A a \in Accounts : lo[a] <= hi[a] /\ hi[a] + Len(txs) * Most <= MaxInt64
  PROVE  Fits(hi, txs)
<1> SUFFICES ASSUME NEW i \in 1..Len(txs)
             PROVE  CanApply(Run(hi, txs)[i - 1], txs[i])
  BY DEF Fits
<1> DEFINE L == Run(lo, txs)[i - 1]
           H == Run(hi, txs)[i - 1]
           tx == txs[i]
<1>1. /\ i \in Nat /\ Len(txs) \in Nat /\ i - 1 \in 0..Len(txs)
      /\ tx.to \in Accounts /\ tx.amount \in Int /\ MaxInt64 \in Nat
  BY LedgerAssumption, AmountType
<1>2. CanApply(L, tx) /\ tx.amount <= Most
  BY DEF Fits, UpToMost
<1>3. \A a \in Accounts : /\ L[a] \in Int /\ H[a] \in Int
                          /\ lo[a] \in Int /\ hi[a] \in Int
  <2>1. lo \in RawState /\ hi \in RawState
    BY StateIsRaw
  <2>2. L \in RawState /\ H \in RawState
    BY <1>1, <2>1, RunDef
  <2> QED
    BY <2>1, <2>2 DEF RawState
<1>4. \A a \in Accounts : H[a] - L[a] = hi[a] - lo[a]
  <2>1. lo \in RawState /\ hi \in RawState
    BY StateIsRaw
  <2> QED
    BY <1>1, <2>1, RunShift
<1>5. \A a \in Accounts : L[a] <= lo[a] + (i - 1) * Most
  BY <1>1, RunBounded
<1> HIDE DEF L, H, tx
<1> DEFINE c == (i - 1) * Most
           d == Len(txs) * Most
<1>6. c \in Int /\ d \in Int /\ c + Most <= d
  <2>1. c + Most = i * Most /\ i <= Len(txs)
    BY <1>1
  <2> QED
    BY <1>1, <2>1
<1> HIDE DEF c, d
<1>7. \A a \in Accounts : H[a] <= hi[a] + c /\ H[a] >= L[a]
  <2> SUFFICES ASSUME NEW a \in Accounts
               PROVE  H[a] <= hi[a] + c /\ H[a] >= L[a]
    OBVIOUS
  <2>1. L[a] <= lo[a] + c
    BY <1>5 DEF c
  <2>2. /\ L[a] \in Int /\ H[a] \in Int /\ lo[a] \in Int /\ hi[a] \in Int
        /\ H[a] - L[a] = hi[a] - lo[a] /\ lo[a] <= hi[a]
    BY <1>3, <1>4
  <2> QED
    BY <1>6, <2>1, <2>2, SMTT(60)
<1>8. MaxInt64 - H[tx.to] >= tx.amount
  <2>1. /\ H[tx.to] <= hi[tx.to] + c /\ hi[tx.to] + d <= MaxInt64
        /\ H[tx.to] \in Int /\ hi[tx.to] \in Int
    BY <1>1, <1>3, <1>7 DEF d
  <2> QED
    BY <1>1, <1>2, <1>6, <2>1, SMTT(60)
<1>9. ~IsCoinbase(tx) => H[tx.from] >= tx.amount
  <2> SUFFICES ASSUME ~IsCoinbase(tx) PROVE H[tx.from] >= tx.amount
    OBVIOUS
  <2>1. tx.from \in Accounts /\ L[tx.from] >= tx.amount
    BY <1>2 DEF CanApply, ValidTransaction
  <2> QED
    BY <1>1, <1>3, <1>7, <2>1
<1>10. CanApply(H, tx)
  BY <1>2, <1>8, <1>9 DEF CanApply
<1> QED
  BY <1>10 DEF H, tx

-----------------------------------------------------------------------------
(* The queue.                                                              *)

LEMMA QueueSplit ==
  ASSUME NEW q \in Seq(Transaction), NEW k \in Nat
  PROVE  /\ Peek(q, k) \in Seq(Transaction) /\ Remove(q, k) \in Seq(Transaction)
         /\ q = Peek(q, k) \o Remove(q, k)
         /\ Len(q) = Len(Peek(q, k)) + Len(Remove(q, k))
         /\ Len(Peek(q, k)) = AtMost(k, Len(q))
<1> DEFINE n == Len(q)
           m == AtMost(k, n)
           p == SubSeq(q, 1, m)
           r == SubSeq(q, m + 1, n)
<1>1. n \in Nat /\ m \in 0..n /\ \A i \in 1..n : q[i] \in Transaction
  BY DEF AtMost
<1> HIDE DEF m
<1>2. p \in Seq(Transaction) /\ Len(p) = m /\ \A i \in 1..m : p[i] = q[i]
  BY <1>1, SubSeqProperties
<1>3. /\ r \in Seq(Transaction) /\ Len(r) = n - m
      /\ \A i \in 1..(n - m) : r[i] = q[m + i]
  <2>1. \A i \in (m + 1)..n : q[i] \in Transaction
    BY <1>1
  <2>2. /\ r \in Seq(Transaction)
        /\ Len(r) = IF m + 1 <= n THEN n - (m + 1) + 1 ELSE 0
        /\ \A i \in 1..(n - (m + 1) + 1) : r[i] = q[(m + 1) + i - 1]
    BY <1>1, <2>1, SubSeqProperties
  <2>3. \A i \in 1..(n - m) : (m + 1) + i - 1 = m + i
    BY <1>1
  <2> QED
    BY <1>1, <2>2, <2>3
<1> HIDE DEF p, r
<1>4. /\ p \o r \in Seq(Transaction) /\ Len(p \o r) = n
      /\ \A i \in 1..n : (p \o r)[i] = q[i]
  <2>1. /\ p \o r \in Seq(Transaction) /\ Len(p \o r) = m + (n - m)
        /\ \A i \in 1..n : (p \o r)[i] = IF i <= m THEN p[i] ELSE r[i - m]
    BY <1>1, <1>2, <1>3, ConcatProperties
  <2>2. ASSUME NEW i \in 1..n PROVE (p \o r)[i] = q[i]
    <3>1. CASE i <= m
      BY <1>1, <1>2, <2>1, <3>1
    <3>2. CASE ~(i <= m)
      <4>1. i - m \in 1..(n - m) /\ m + (i - m) = i
        BY <1>1, <3>2
      <4>2. r[i - m] = q[m + (i - m)]
        BY <1>3, <4>1
      <4> QED
        BY <2>1, <3>2, <4>1, <4>2
    <3> QED
      BY <3>1, <3>2
  <2> QED
    BY <1>1, <2>1, <2>2
<1>5. q = p \o r
  BY <1>4, SeqEqual
<1> QED
  <2>1. Peek(q, k) = p /\ Remove(q, k) = r /\ AtMost(k, n) = m
    BY DEF Peek, Remove, m, p, r
  <2> QED
    BY <1>1, <1>2, <1>3, <1>5, <2>1

LEMMA FitsAppend ==
  ASSUME NEW bal \in RawState, NEW q \in Seq(Transaction), NEW tx \in Transaction
  PROVE  Fits(bal, Append(q, tx)) <=>
            Fits(bal, q) /\ CanApply(ApplyAll(bal, q), tx)
<1> DEFINE end == ApplyAll(bal, q)
<1>1. <<tx>> \in Seq(Transaction) /\ Append(q, tx) = q \o <<tx>> /\ end \in RawState
  BY AppendIsConcat, ApplyAllType
<1>2. Fits(end, <<tx>>) <=> CanApply(end, tx)
  <2>1. Run(end, <<tx>>)[0] = end
    BY <1>1, RunDef
  <2>2. Len(<<tx>>) = 1 /\ <<tx>>[1] = tx
    OBVIOUS
  <2> HIDE DEF end
  <2> QED
    BY <2>1, <2>2 DEF Fits
<1> QED
  BY <1>1, <1>2, FitsConcat

(***************************************************************************)
(* A queue that fits is loaded as it was saved.                            *)
(***************************************************************************)
LEMMA ReadmitAll ==
  ASSUME NEW bal \in RawState, NEW q \in Seq(Transaction), Fits(bal, q)
  PROVE  Readmit(q, bal) = q
<1> DEFINE n == Len(q)
<1>1. PICK f : IsReadmit(f, q, bal) /\ Readmit(q, bal) = f[n]
  BY ReadmitDef
<1>2. /\ f[0] = << >> /\ \A i \in 1..n : f[i] = ReadmitStep(q, bal, f[i - 1], i)
      /\ n \in Nat /\ \A i \in 1..n : q[i] \in Transaction
  BY <1>1 DEF IsReadmit
<1> DEFINE Good == {i \in 0..n : f[i] = Peek(q, i)}
<1>3. 0 \in Good
  <2>1. Peek(q, 0) \in Seq(Transaction) /\ Len(Peek(q, 0)) = 0
    BY <1>2, QueueSplit DEF AtMost
  <2>2. Peek(q, 0) = << >>
    BY <2>1, EmptySeq
  <2> QED
    BY <1>2, <2>2
<1>4. ASSUME NEW i \in 1..n, i - 1 \in Good PROVE i \in Good
  <2> DEFINE kept == Peek(q, i - 1)
             next == Append(kept, q[i])
  <2>1. i \in Nat /\ i - 1 \in Nat /\ i - 1 < n
    BY <1>2
  <2>2. /\ kept \in Seq(Transaction) /\ Len(kept) = i - 1
        /\ \A j \in 1..(i - 1) : kept[j] = q[j]
    <3>1. kept = SubSeq(q, 1, i - 1) /\ 1 + i - 1 = i
      BY <1>2, <2>1 DEF Peek, AtMost
    <3>2. \A j \in 1..(i - 1) : q[j] \in Transaction
      BY <1>2, <2>1
    <3> HIDE DEF kept
    <3> QED
      BY <2>1, <3>1, <3>2, SubSeqProperties
  <2>3. /\ Peek(q, i) \in Seq(Transaction) /\ Len(Peek(q, i)) = i
        /\ \A j \in 1..i : Peek(q, i)[j] = q[j]
    <3>1. Peek(q, i) = SubSeq(q, 1, i)
      BY <1>2, <2>1 DEF Peek, AtMost
    <3> QED
      BY <1>2, <2>1, <3>1, SubSeqProperties
  <2> HIDE DEF kept
  <2>4. next = Peek(q, i)
    <3>1. /\ next \in Seq(Transaction) /\ Len(next) = i
          /\ \A j \in 1..i : next[j] = q[j]
      BY <1>2, <2>1, <2>2, AppendProperties
    <3> HIDE DEF next
    <3> QED
      BY <2>3, <3>1, SeqEqual
  <2>5. Fits(bal, next)
    <3>1. /\ Remove(q, i) \in Seq(Transaction) /\ next \in Seq(Transaction)
          /\ q = next \o Remove(q, i)
      BY <2>1, <2>3, <2>4, QueueSplit
    <3> HIDE DEF next
    <3> QED
      BY <3>1, FitsConcat
  <2>6. CanAdd(kept, q[i], bal)
    BY <1>2, <2>2, <2>5, FitsAppend DEF CanAdd
  <2>7. f[i] = next
    BY <1>2, <1>4, <2>6 DEF ReadmitStep, kept
  <2> QED
    BY <2>4, <2>7
<1>5. \A i \in 0..n : i \in Good
  <2> HIDE DEF Good, n
  <2> QED
    BY <1>2, <1>3, <1>4, UpTo
<1>6. Peek(q, n) = q
  <2>1. /\ Peek(q, n) \in Seq(Transaction) /\ Len(Peek(q, n)) = n
        /\ \A j \in 1..n : Peek(q, n)[j] = q[j]
    <3>1. Peek(q, n) = SubSeq(q, 1, n)
      BY <1>2 DEF Peek, AtMost
    <3> QED
      BY <1>2, <3>1, SubSeqProperties
  <2> QED
    BY <2>1, SeqEqual
<1> QED
  BY <1>1, <1>2, <1>5, <1>6

-----------------------------------------------------------------------------
(* The transactions of a list of blocks.                                   *)

Dropping(k, txs) == SubSeq(txs, k + 1, Len(txs))

HasBodies(bs) ==
    Len(bs) \in Nat /\ \A i \in 1..Len(bs) : bs[i].transactions \in Seq(Transaction)

LEMMA DroppingType ==
  ASSUME NEW k \in Nat, NEW txs \in Seq(Transaction)
  PROVE  Dropping(k, txs) \in Seq(Transaction)
<1>1. \A i \in (k + 1)..Len(txs) : txs[i] \in Transaction
  OBVIOUS
<1> QED
  BY <1>1, SubSeqProperties DEF Dropping

(***************************************************************************)
(* The recursion that BodiesWithout is defined by does define it.          *)
(***************************************************************************)
BodiesStep(k, bs, txs, i) == txs \o Dropping(k[i], bs[i].transactions)

AreDrops(k, bs) == \A i \in 1..Len(bs) : k[i] \in Nat

AreBlocks(S, bs, b) ==
    /\ bs \in Seq(S) /\ b \in S
    /\ \A x \in S : x.transactions \in Seq(Transaction)

IsConcat(t, r, s) == t = r \o s

DropsOneMore(m, k, bs, j) ==
    /\ AreDrops(k, bs) /\ \A i \in 1..Len(bs) : m[i] = k[i]
    /\ m[Len(bs) + 1] = j /\ j \in Nat

IsBodies(f, k, bs) ==
    /\ f \in [0..Len(bs) -> Seq(Transaction)]
    /\ f[0] = << >>
    /\ \A i \in 1..Len(bs) : f[i] = BodiesStep(k, bs, f[i - 1], i)

LEMMA BodiesDef ==
  ASSUME NEW k, NEW bs, HasBodies(bs), AreDrops(k, bs)
  PROVE  \E f : IsBodies(f, k, bs) /\ BodiesWithout(k, bs) = f[Len(bs)]
<1> DEFINE n == Len(bs)
           S == Seq(Transaction)
           step == [p \in S \X (1..n) |-> BodiesStep(k, bs, p[1], p[2])]
           Is(f) == f = [i \in 0..n |-> IF i = 0 THEN << >>
                                        ELSE BodiesStep(k, bs, f[i - 1], i)]
<1>1. /\ n \in Nat /\ << >> \in S
      /\ \A i \in 1..n : Dropping(k[i], bs[i].transactions) \in S
  BY DroppingType DEF HasBodies, AreDrops
<1>2. \A txs \in S, i \in 1..n : BodiesStep(k, bs, txs, i) \in S
  BY <1>1, ConcatProperties DEF BodiesStep
<1> HIDE DEF S
<1>3. step \in [S \X (1..n) -> S]
  BY <1>2
<1>4. PICK f : Iteration(f, n, S, << >>, step)
  <2> HIDE DEF step, n
  <2> QED
    BY <1>1, <1>3, Iterates
<1>5. /\ f \in [0..n -> S]
      /\ \A i \in 0..n : f[i] = IF i = 0 THEN << >> ELSE step[<<f[i - 1], i>>]
  <2> HIDE DEF step, n
  <2> QED
    BY <1>4 DEF Iteration
<1>6. ASSUME NEW i \in 0..n
      PROVE  f[i] = IF i = 0 THEN << >> ELSE BodiesStep(k, bs, f[i - 1], i)
  <2>1. CASE i = 0
    BY <1>5, <2>1
  <2>2. CASE i # 0
    <3>1. i \in 1..n /\ i - 1 \in 0..n
      BY <1>1, <2>2
    <3>2. <<f[i - 1], i>> \in S \X (1..n)
      BY <1>5, <3>1
    <3>3. step[<<f[i - 1], i>>] = BodiesStep(k, bs, f[i - 1], i)
      BY <3>2
    <3> QED
      BY <1>5, <2>2, <3>3
  <2> QED
    BY <2>1, <2>2
<1>7. Is(f)
  BY <1>5, <1>6
<1> DEFINE r == CHOOSE g : Is(g)
<1>8. BodiesWithout(k, bs) = r[n]
  BY Zenon DEF BodiesWithout, BodiesStep, Dropping
<1>9. Is(r)
  <2> HIDE DEF Is
  <2> QED
    BY <1>7
<1> HIDE DEF r
<1>10. r[0] = << >> /\ \A i \in 1..n : r[i] = BodiesStep(k, bs, r[i - 1], i)
  BY <1>1, <1>9
<1> DEFINE Good == {i \in 0..n : r[i] \in S}
<1>11. \A i \in 0..n : i \in Good
  <2>1. 0 \in Good
    BY <1>1, <1>10
  <2>2. \A i \in 1..n : i - 1 \in Good => i \in Good
    BY <1>1, <1>2, <1>10
  <2> HIDE DEF Good
  <2> QED
    BY <1>1, <2>1, <2>2, UpTo
<1>12. r = [i \in 0..n |-> r[i]]
  BY <1>9
<1>13. r \in [0..n -> S]
  BY <1>11, <1>12
<1> QED
  BY <1>8, <1>10, <1>13 DEF IsBodies, S

LEMMA BodiesType ==
  ASSUME NEW k, NEW bs, HasBodies(bs), AreDrops(k, bs)
  PROVE  BodiesWithout(k, bs) \in Seq(Transaction)
<1>1. PICK f : IsBodies(f, k, bs) /\ BodiesWithout(k, bs) = f[Len(bs)]
  BY BodiesDef
<1>2. Len(bs) \in 0..Len(bs)
  BY DEF HasBodies
<1> QED
  BY <1>1, <1>2 DEF IsBodies

(***************************************************************************)
(* One more block adds its own transactions at the end.                    *)
(***************************************************************************)
LEMMA BodiesAppend ==
  ASSUME NEW k, NEW m, NEW j, NEW S, NEW bs, NEW b,
         AreBlocks(S, bs, b), DropsOneMore(m, k, bs, j)
  PROVE  IsConcat(BodiesWithout(m, Append(bs, b)),
                  BodiesWithout(k, bs), Dropping(j, b.transactions))
<1> DEFINE n == Len(bs)
           long == Append(bs, b)
<1>1. /\ n \in Nat /\ Len(long) = n + 1 /\ long[n + 1] = b
      /\ \A i \in 1..n : long[i] = bs[i]
      /\ HasBodies(bs) /\ HasBodies(long)
      /\ AreDrops(k, bs) /\ AreDrops(m, long)
      /\ m[n + 1] = j /\ \A i \in 1..n : m[i] = k[i]
  BY AppendProperties DEF AreBlocks, HasBodies, AreDrops, DropsOneMore
<1>2. PICK f : IsBodies(f, k, bs) /\ BodiesWithout(k, bs) = f[n]
  BY <1>1, BodiesDef
<1>3. PICK g : IsBodies(g, m, long) /\ BodiesWithout(m, long) = g[Len(long)]
  BY <1>1, BodiesDef
<1>4. f[0] = << >> /\ \A i \in 1..n : f[i] = BodiesStep(k, bs, f[i - 1], i)
  BY <1>2 DEF IsBodies
<1>5. /\ g[0] = << >>
      /\ \A i \in 1..(n + 1) : g[i] = BodiesStep(m, long, g[i - 1], i)
  BY <1>1, <1>3 DEF IsBodies
<1> HIDE DEF n, long
<1> DEFINE Good == {i \in 0..n : g[i] = f[i]}
<1>6. 0 \in Good
  BY <1>1, <1>4, <1>5
<1>7. ASSUME NEW i \in 1..n, i - 1 \in Good PROVE i \in Good
  <2>1. i \in 1..(n + 1) /\ g[i - 1] = f[i - 1]
    BY <1>1, <1>7
  <2>2. BodiesStep(m, long, f[i - 1], i) = BodiesStep(k, bs, f[i - 1], i)
    BY <1>1 DEF BodiesStep
  <2> QED
    BY <1>1, <1>4, <1>5, <2>1, <2>2
<1>8. g[n] = f[n]
  <2> HIDE DEF Good
  <2>1. \A i \in 0..n : i \in Good
    BY <1>1, <1>6, <1>7, UpTo
  <2> QED
    BY <1>1, <2>1 DEF Good
<1>9. g[n + 1] = g[n] \o Dropping(j, b.transactions)
  <2>1. n + 1 \in 1..(n + 1) /\ (n + 1) - 1 = n
    BY <1>1
  <2>2. g[n + 1] = BodiesStep(m, long, g[n], n + 1)
    BY <1>5, <2>1
  <2> QED
    BY <1>1, <2>2 DEF BodiesStep
<1> QED
  BY <1>1, <1>2, <1>3, <1>8, <1>9 DEF n, long, IsConcat

-----------------------------------------------------------------------------
(* The invariant.                                                          *)

(***************************************************************************)
(* The book of all transactions in blocks pays, and gives the balances.    *)
(***************************************************************************)
BookPays == Fits(NewState, Book) /\ balances = ApplyAll(NewState, Book)

(***************************************************************************)
(* Balances are far enough from MaxInt64 for the queue and what is to come.*)
(***************************************************************************)
StaysModest(Most, Size) ==
    /\ Height <= MaxHeight /\ Len(pool) <= MaxHeight
    /\ UpToMost(pool, Most)
    /\ \A a \in Accounts : balances[a] <= Height * PerBlock(Most, Size)

(***************************************************************************)
(* The candidate's body is the reward and then the head of the queue.      *)
(***************************************************************************)
IsRewards(r) ==
    IF cfg.MiningReward > 0 THEN Len(r) = 1 /\ P!IsReward(r[1], cfg)
    ELSE r = << >>

CandidateIsBody ==
    candidate # NoBlock =>
        /\ candidate.height <= MaxHeight
        /\ Len(candidate.transactions) <= cfg.MaxTxPerBlock
        /\ \E r \in Seq(Transaction) :
              IsRewards(r) /\ candidate.transactions = r \o Peek(pool, fromPool)

QueueInv(Most, Size) ==
    /\ PoolNeverStale
    /\ AcceptedInOrder
    /\ BookPays
    /\ StaysModest(Most, Size)
    /\ CandidateIsBody

(***************************************************************************)
(* Book drops nothing, Settled the rewards.                                *)
(***************************************************************************)
LEMMA DropsFacts ==
  ASSUME TypeOK
  PROVE  /\ AreDrops([i \in DOMAIN blocks |-> 0], blocks)
         /\ AreDrops(rewards, blocks)
<1>1. Len(blocks) \in Nat /\ DOMAIN blocks = 1..Len(blocks)
  BY BlocksFacts
<1>2. rewards \in Seq({0, 1}) /\ Len(rewards) = Len(blocks)
  BY DEF TypeOK
<1>3. \A i \in 1..Len(blocks) : rewards[i] \in {0, 1}
  BY <1>1, <1>2
<1> QED
  BY <1>1, <1>3 DEF AreDrops

(***************************************************************************)
(* Facts about the state.                                                  *)
(***************************************************************************)
LEMMA StateFacts ==
  ASSUME ChainInv
  PROVE  /\ balances \in State /\ balances \in RawState
         /\ pool \in Seq(Transaction) /\ fromPool \in Nat /\ Height \in Nat
         /\ clock \in Nat /\ RewardSlots \in Nat
         /\ HasBodies(blocks)
         /\ Book \in Seq(Transaction) /\ Settled \in Seq(Transaction)
         /\ NewState \in RawState
<1>1. TypeOK /\ RewardSlots \in Nat
  BY DEF ChainInv, RewardSlots
<1>2. HasBodies(blocks)
  BY <1>1, BlocksFacts DEF TypeOK, IsBody, HasBodies
<1>3. Book \in Seq(Transaction) /\ Settled \in Seq(Transaction)
  BY <1>1, <1>2, BodiesType, DropsFacts DEF Book, Settled
<1>4. balances \in State /\ pool \in Seq(Transaction) /\ fromPool \in Nat
      /\ clock \in Nat
  BY <1>1, ChainAssumption DEF TypeOK
<1>5. Height \in Nat
  BY <1>1, BlocksFacts
<1> QED
  BY <1>1, <1>2, <1>3, <1>4, <1>5, StateIsRaw, NewStateType

LEMMA CoinsFacts ==
  ASSUME NEW Most, NEW Size, CoinsFit(Most, Size)
  PROVE  /\ Most \in Nat /\ PerBlock(Most, Size) \in Nat
         /\ Size \in Nat /\ MaxHeight \in Nat
         /\ MaxInt64 \in Nat
BY ChainAssumption, LedgerAssumption DEF CoinsFit, PerBlock

(***************************************************************************)
(* The settings in force keep to the bounds.                               *)
(***************************************************************************)
LEMMA SettingsFit ==
  ASSUME NEW Most, NEW Size, CoinsFit(Most, Size), ChainInv
  PROVE  /\ cfg.MiningReward <= Most /\ cfg.MaxTxPerBlock <= Size
         /\ cfg.MiningReward \in Nat /\ cfg.MaxTxPerBlock \in Nat \ {0}
BY CfgFacts, LedgerAssumption DEF ChainInv, CoinsFit

(***************************************************************************)
(* Nothing is in the book at first.                                        *)
(***************************************************************************)
LEMMA InitBooks ==
  ASSUME Init
  PROVE  Book = << >> /\ Settled = << >> /\ Height = 0
<1>1. /\ blocks = <<Genesis>> /\ Len(blocks) = 1 /\ blocks[1] = Genesis
      /\ Tip = Genesis /\ Height = 0 /\ Genesis.transactions = << >>
  BY GenesisFacts DEF Init, Tip, Height
<1>2. ASSUME NEW k, AreDrops(k, blocks) PROVE BodiesWithout(k, blocks) = << >>
  <2>1. HasBodies(blocks)
    <3>1. << >> \in Seq(Transaction) /\ \A i \in 1..1 : i = 1
      OBVIOUS
    <3>2. \A i \in 1..Len(blocks) : blocks[i].transactions = << >>
      BY <1>1, <3>1
    <3> QED
      BY <1>1, <3>1, <3>2 DEF HasBodies
  <2>2. PICK f : IsBodies(f, k, blocks) /\ BodiesWithout(k, blocks) = f[1]
    BY <1>1, <1>2, <2>1, BodiesDef
  <2>3. f[0] = << >> /\ f[1] = f[0] \o Dropping(k[1], << >>)
    <3>1. 1 \in 1..Len(blocks) /\ 1 - 1 = 0
      BY <1>1
    <3>2. f[0] = << >> /\ f[1] = BodiesStep(k, blocks, f[0], 1)
      BY <2>2, <3>1 DEF IsBodies
    <3> QED
      BY <1>1, <3>2 DEF BodiesStep
  <2>4. Dropping(k[1], << >>) = << >>
    <3>1. k[1] \in Nat
      BY <1>1, <1>2 DEF AreDrops
    <3> QED
      BY <3>1, SubSeqEmpty DEF Dropping
  <2> QED
    BY <2>2, <2>3, <2>4
<1> QED
  BY <1>1, <1>2, InitInv, DropsFacts DEF Book, Settled, ChainInv

LEMMA InitQueue ==
  ASSUME NEW Most, NEW Size, CoinsFit(Most, Size), Init
  PROVE  QueueInv(Most, Size)
<1>1. Book = << >> /\ Settled = << >> /\ Height = 0
  BY InitBooks
<1>2. /\ balances = NewState /\ pool = << >> /\ accepted = << >>
      /\ candidate = NoBlock
  BY DEF Init
<1>3. Fits(NewState, << >>) /\ ApplyAll(NewState, << >>) = NewState
  <2>1. << >> \in Seq(Transaction) /\ NewState \in RawState
    BY NewStateType, StateIsRaw
  <2>2. Run(NewState, << >>)[0] = NewState
    BY <2>1, RunDef
  <2> QED
    BY <2>2 DEF Fits, ApplyAll
<1>4. StaysModest(Most, Size)
  <2> DEFINE most == PerBlock(Most, Size)
             none == 0 * most
  <2>1. none = 0
    <3>1. most \in Nat
      BY CoinsFacts
    <3> HIDE DEF most
    <3> QED
      BY <3>1
  <2> HIDE DEF none
  <2>2. ASSUME NEW a \in Accounts PROVE balances[a] <= none
    <3>1. balances[a] = 0
      BY <1>2 DEF NewState
    <3> QED
      BY <2>1, <3>1
  <2>3. \A a \in Accounts : balances[a] <= Height * PerBlock(Most, Size)
    BY <1>1, <2>2 DEF none
  <2> QED
    BY <1>1, <1>2, <2>3, CoinsFacts DEF StaysModest, UpToMost
<1> QED
  BY <1>1, <1>2, <1>3, <1>4
     DEF QueueInv, PoolNeverStale, AcceptedInOrder, BookPays, CandidateIsBody

(***************************************************************************)
(* Add accepts what fits behind the queue.                                 *)
(***************************************************************************)
LEMMA AddQueue ==
  ASSUME NEW Most, NEW Size, CoinsFit(Most, Size), ChainInv, QueueInv(Most, Size),
         NEW tx \in Transaction, tx.amount <= Most, Add(tx)
  PROVE  QueueInv(Most, Size)'
<1>1. /\ candidate = NoBlock /\ candidate' = NoBlock /\ RoomToMine
      /\ CanAdd(pool, tx, balances)
      /\ pool' = Append(pool, tx) /\ accepted' = Append(accepted, tx)
      /\ blocks' = blocks /\ balances' = balances /\ rewards' = rewards
  BY DEF Add, searchVars
<1>2. Book' = Book /\ Settled' = Settled /\ Height' = Height
  BY <1>1 DEF Book, Settled, Height, Tip
<1>3. PoolNeverStale'
  BY <1>1, StateFacts, FitsAppend DEF CanAdd, PoolNeverStale
<1>4. AcceptedInOrder'
  <2>1. accepted = Settled \o pool
    BY DEF QueueInv, AcceptedInOrder
  <2>2. /\ Settled \o pool \in Seq(Transaction) /\ <<tx>> \in Seq(Transaction)
        /\ Append(Settled \o pool, tx) = (Settled \o pool) \o <<tx>>
        /\ Append(pool, tx) = pool \o <<tx>>
    BY StateFacts, ConcatProperties, AppendIsConcat
  <2>3. (Settled \o pool) \o <<tx>> = Settled \o (pool \o <<tx>>)
    <3>1. Settled \in Seq(Transaction) /\ pool \in Seq(Transaction)
      BY StateFacts
    <3> QED
      BY <2>2, <3>1, ConcatAssociative
  <2> QED
    BY <1>1, <1>2, <2>1, <2>2, <2>3 DEF AcceptedInOrder
<1>5. BookPays'
  BY <1>1, <1>2 DEF QueueInv, BookPays
<1>6. StaysModest(Most, Size)'
  <2>1. Len(pool') <= MaxHeight
    BY <1>1, StateFacts, AppendProperties, CoinsFacts DEF RoomToMine
  <2>2. UpToMost(pool', Most)
    BY <1>1, StateFacts, AppendProperties DEF QueueInv, StaysModest, UpToMost
  <2> QED
    BY <1>1, <1>2, <2>1, <2>2 DEF QueueInv, StaysModest
<1> QED
  BY <1>1, <1>3, <1>4, <1>5, <1>6 DEF QueueInv, CandidateIsBody

(***************************************************************************)
(* buildBody stays within the block size.                                  *)
(***************************************************************************)
LEMMA MineBeginQueue ==
  ASSUME NEW Most, NEW Size, CoinsFit(Most, Size), ChainInv, QueueInv(Most, Size), MineBegin
  PROVE  QueueInv(Most, Size)'
<1> DEFINE body == Reward \o Queued
<1>1. /\ candidate' = NewBlock(Height + 1, Tip.hash, body, cfg.Difficulty, Unix(clock))
      /\ fromPool' = Len(Queued) /\ Height < MaxHeight
      /\ blocks' = blocks /\ balances' = balances /\ pool' = pool
      /\ accepted' = accepted /\ rewards' = rewards /\ cfg' = cfg
  BY DEF MineBegin, chainVars, process, history
<1>2. Book' = Book /\ Settled' = Settled /\ Height' = Height
  BY <1>1 DEF Book, Settled, Height, Tip
<1>3. candidate'.height = Height + 1 /\ candidate'.transactions = body
  BY <1>1 DEF NewBlock
<1>4. /\ Reward \in Seq(Transaction) /\ Queued \in Seq(Transaction)
      /\ Len(Reward) = RewardSlots /\ Queued = Peek(pool, Len(Queued))
  BY BodyFacts DEF ChainInv
<1>5. Len(body) <= cfg.MaxTxPerBlock
  <2>1. RewardSlots \in {0, 1} /\ cfg.MaxTxPerBlock - RewardSlots \in Nat
    BY SettingsFit DEF RewardSlots
  <2>2. Len(Queued) = AtMost(cfg.MaxTxPerBlock - RewardSlots, Len(pool))
    BY <1>4, <2>1, StateFacts, QueueSplit DEF Queued
  <2>3. Len(Queued) <= cfg.MaxTxPerBlock - RewardSlots
    BY <2>1, <2>2, StateFacts DEF AtMost
  <2>4. Len(body) = Len(Reward) + Len(Queued) /\ Len(Queued) \in Nat
    <3> HIDE DEF body
    <3>1. Len(Queued) \in Nat
      BY <1>4, LenProperties
    <3>2. Len(Reward \o Queued) = Len(Reward) + Len(Queued)
      BY <1>4, ConcatProperties
    <3> QED
      BY <3>1, <3>2 DEF body
  <2> QED
    BY <1>4, <2>1, <2>3, <2>4, SettingsFit
<1>6. IsRewards(Reward)
  BY DEF IsRewards, Reward, P!IsReward, NewCoinbase, NewTransfer, P!IsCoinbase
<1>7. CandidateIsBody'
  <2>1. candidate'.height <= MaxHeight
    BY <1>1, <1>3, StateFacts, CoinsFacts
  <2>2. body = Reward \o Peek(pool', fromPool')
    BY <1>1, <1>4
  <2> QED
    BY <1>1, <1>3, <1>4, <1>5, <1>6, <2>1, <2>2 DEF CandidateIsBody, IsRewards
<1> QED
  BY <1>1, <1>2, <1>7
     DEF QueueInv, PoolNeverStale, AcceptedInOrder, BookPays, StaysModest

(***************************************************************************)
(* A reward takes nothing from anyone.                                     *)
(***************************************************************************)
LEMMA RewardAdds ==
  ASSUME NEW bal \in RawState, NEW r \in Seq(Transaction), IsRewards(r),
         cfg.MiningReward \in Nat
  PROVE  \A a \in Accounts : ApplyAll(bal, r)[a] >= bal[a]
<1> SUFFICES ASSUME NEW a \in Accounts PROVE ApplyAll(bal, r)[a] >= bal[a]
  OBVIOUS
<1>1. bal[a] \in Int
  BY DEF RawState
<1>2. CASE cfg.MiningReward > 0
  <2>1. Len(r) = 1 /\ r[1].from = Coinbase /\ r[1].amount = cfg.MiningReward
    BY <1>2 DEF IsRewards, P!IsReward, P!IsCoinbase
  <2>2. ApplyAll(bal, r) = Apply(bal, r[1])
    <3>1. 1 \in 1..Len(r) /\ 1 - 1 = 0
      BY <2>1
    <3> QED
      BY <2>1, <3>1, RunDef DEF ApplyAll
  <2>3. Out(r[1], a) = 0 /\ In(r[1], a) \in Nat
    BY <2>1, LedgerAssumption DEF Out, In
  <2> QED
    BY <1>1, <2>2, <2>3, ApplyAt
<1>3. CASE ~(cfg.MiningReward > 0)
  <2>1. Len(r) = 0
    BY <1>3 DEF IsRewards
  <2>2. ApplyAll(bal, r) = bal
    BY <2>1, RunDef DEF ApplyAll
  <2> QED
    BY <1>1, <2>2
<1> QED
  BY <1>2, <1>3

(***************************************************************************)
(* Mining a reward and the head of a queue leaves balances its rest fits.  *)
(***************************************************************************)
LEMMA RestStillFits ==
  ASSUME NEW Most \in Nat, NEW bal \in State, NEW r \in Seq(Transaction),
         NEW head \in Seq(Transaction), NEW rest \in Seq(Transaction),
         IsRewards(r), cfg.MiningReward \in Nat,
         Fits(bal, r \o head), Fits(bal, head \o rest),
         UpToMost(rest, Most),
         \A a \in Accounts :
            ApplyAll(bal, r \o head)[a] + Len(rest) * Most <= MaxInt64
  PROVE  Fits(ApplyAll(bal, r \o head), rest)
<1> DEFINE paid == ApplyAll(bal, r)
           lo == ApplyAll(bal, head)
           hi == ApplyAll(bal, r \o head)
<1>1. bal \in RawState /\ paid \in RawState /\ hi = ApplyAll(paid, head)
  BY StateIsRaw, ApplyAllType, ApplyAllConcat
<1>2. Fits(bal, head) /\ Fits(lo, rest)
  BY <1>1, FitsConcat
<1>3. lo \in State /\ hi \in State
  <2>1. r \o head \in Seq(Transaction)
    BY ConcatProperties
  <2> QED
    BY <1>2, <2>1, ApplyAllSafe
<1>4. ASSUME NEW a \in Accounts PROVE lo[a] <= hi[a]
  <2>1. Len(head) \in 0..Len(head)
    OBVIOUS
  <2>2. hi[a] - lo[a] = paid[a] - bal[a]
    <3>1. Run(paid, head)[Len(head)][a] - Run(bal, head)[Len(head)][a]
             = paid[a] - bal[a]
      <4> HIDE DEF paid
      <4> QED
        BY <1>1, <2>1, RunShift
    <3>2. hi = Run(paid, head)[Len(head)] /\ lo = Run(bal, head)[Len(head)]
      <4> HIDE DEF paid
      <4> QED
        BY <1>1 DEF ApplyAll
    <3> HIDE DEF paid, hi, lo
    <3> QED
      BY <3>1, <3>2
  <2>3. paid[a] >= bal[a]
    BY <1>1, RewardAdds
  <2>4. lo[a] \in Int /\ hi[a] \in Int
    <3> HIDE DEF lo, hi
    <3> QED
      BY <1>3, LedgerAssumption DEF State
  <2>5. paid[a] \in Int /\ bal[a] \in Int
    <3> HIDE DEF paid
    <3> QED
      BY <1>1 DEF RawState
  <2> HIDE DEF lo, hi, paid
  <2> QED
    BY <2>2, <2>3, <2>4, <2>5
<1> HIDE DEF lo
<1>5. \A a \in Accounts : hi[a] + Len(rest) * Most <= MaxInt64
  OBVIOUS
<1> HIDE DEF hi
<1>6. Fits(hi, rest)
  BY <1>2, <1>3, <1>4, <1>5, FitsMore
<1> QED
  BY <1>6 DEF hi

(***************************************************************************)
(* A block appended adds its body to the book, and its payments to what is *)
(* settled.                                                                *)
(***************************************************************************)
LEMMA MineEndBooks ==
  ASSUME ChainInv, MineEnd
  PROVE  /\ Book' = Book \o candidate.transactions
         /\ Settled' = Settled \o Peek(pool, fromPool)
         /\ Height' = candidate.height
<1>1. PICK nonce \in Nonces : blocks' = Append(blocks, Sealed(candidate, nonce))
  BY DEF MineEnd
<1> DEFINE b == Sealed(candidate, nonce)
           B == Members(blocks) \union {b}
           body == candidate.transactions
<1>2. blocks' = Append(blocks, b) /\ candidate # NoBlock
  BY <1>1 DEF MineEnd
<1>3. b.transactions = body /\ b.height = candidate.height
  BY <1>2, SealedFacts DEF ChainInv, CandidateIsNew
<1> HIDE DEF b
<1>4. TypeOK /\ body \in Seq(Transaction)
  BY <1>2 DEF ChainInv, TypeOK, IsBody
<1>5. /\ \A x \in B : x.transactions \in Seq(Transaction)
      /\ blocks \in Seq(B) /\ b \in B
  <2>1. blocks \in Seq(Members(blocks)) /\ Members(blocks) \subseteq B
    BY <1>4, BlocksFacts
  <2>2. blocks \in Seq(B)
    <3> HIDE DEF B
    <3> QED
      BY <2>1, SeqMonotonic
  <2> QED
    BY <1>3, <1>4, <2>2, BlocksFacts
<1> HIDE DEF B
<1>6. /\ Len(blocks) \in Nat /\ Len(Append(blocks, b)) = Len(blocks) + 1
      /\ DOMAIN Append(blocks, b) = 1..(Len(blocks) + 1)
      /\ DOMAIN blocks = 1..Len(blocks)
  BY <1>5, AppendProperties
<1>7. Dropping(0, body) = body
  <2>1. /\ Len(body) \in Nat /\ 0 + 1 = 1
        /\ \A i \in 1..Len(body) : body[i] \in Transaction
    BY <1>4
  <2>2. /\ SubSeq(body, 1, Len(body)) \in Seq(Transaction)
        /\ Len(SubSeq(body, 1, Len(body))) = Len(body)
        /\ \A i \in 1..Len(body) : SubSeq(body, 1, Len(body))[i] = body[i]
    BY <1>4, <2>1, SubSeqProperties
  <2>3. SubSeq(body, 1, Len(body)) = body
    <3> HIDE DEF body
    <3> QED
      BY <1>4, <2>2, SeqEqual
  <2> QED
    BY <2>1, <2>3 DEF Dropping
<1>8. Dropping(RewardSlots, body) = Peek(pool, fromPool)
  BY <1>2 DEF ChainInv, CandidateStaysGood, Dropping
<1>9. AreBlocks(B, blocks, b)
  BY <1>5 DEF AreBlocks
<1>10. Book' = Book \o body
  <2> DEFINE k == [i \in DOMAIN blocks |-> 0]
             m == [i \in DOMAIN Append(blocks, b) |-> 0]
  <2>1. DropsOneMore(m, k, blocks, 0)
    BY <1>4, <1>6, DropsFacts DEF DropsOneMore
  <2> HIDE DEF k, m
  <2>2. IsConcat(BodiesWithout(m, Append(blocks, b)),
                 BodiesWithout(k, blocks), Dropping(0, b.transactions))
    BY <1>9, <2>1, BodiesAppend, Zenon
  <2> QED
    BY <1>2, <1>3, <1>7, <2>2, Zenon DEF Book, k, m, IsConcat
<1>11. Settled' = Settled \o Peek(pool, fromPool)
  <2>1. /\ rewards \in Seq({0, 1}) /\ Len(rewards) = Len(blocks)
        /\ RewardSlots \in {0, 1} /\ AreDrops(rewards, blocks)
    BY <1>4, CfgFacts, DropsFacts DEF TypeOK
  <2> DEFINE m == Append(rewards, RewardSlots)
  <2>2. rewards' = m
    BY DEF MineEnd
  <2>3. DropsOneMore(m, rewards, blocks, RewardSlots)
    BY <2>1, AppendProperties DEF DropsOneMore
  <2> HIDE DEF m
  <2>4. IsConcat(BodiesWithout(m, Append(blocks, b)), BodiesWithout(rewards, blocks),
                 Dropping(RewardSlots, b.transactions))
    BY <1>9, <2>3, BodiesAppend, Zenon
  <2> QED
    BY <1>2, <1>3, <1>8, <2>2, <2>4, Zenon DEF Settled, IsConcat
<1>12. Height' = candidate.height
  <2>1. Len(blocks') = Len(blocks) + 1 /\ blocks'[Len(blocks) + 1] = b
    BY <1>2, <1>5, AppendProperties
  <2> QED
    BY <1>3, <2>1 DEF Height, Tip
<1> QED
  BY <1>10, <1>11, <1>12

(***************************************************************************)
(* Neither the reward nor a queued transaction exceeds Most.               *)
(***************************************************************************)
LEMMA BodyUpToMost ==
  ASSUME NEW Most, NEW Size, CoinsFit(Most, Size), ChainInv, QueueInv(Most, Size), candidate # NoBlock
  PROVE  UpToMost(candidate.transactions, Most)
<1> DEFINE body == candidate.transactions
<1>1. PICK r \in Seq(Transaction) :
         IsRewards(r) /\ body = r \o Peek(pool, fromPool)
  BY DEF QueueInv, CandidateIsBody
<1> DEFINE head == Peek(pool, fromPool)
<1>2. /\ head \in Seq(Transaction) /\ Len(head) <= Len(pool)
      /\ \A i \in 1..Len(head) : head[i] = pool[i]
  <2>1. pool \in Seq(Transaction) /\ fromPool \in Nat /\ Len(pool) \in Nat
    BY StateFacts
  <2>2. AtMost(fromPool, Len(pool)) \in 0..Len(pool)
    BY <2>1 DEF AtMost
  <2> QED
    BY <2>1, <2>2, SubSeqProperties DEF Peek
<1>3. UpToMost(head, Most)
  <2> HIDE DEF head
  <2>1. Len(pool) \in Nat /\ Len(head) \in Nat
    BY <1>2, StateFacts, LenProperties
  <2> QED
    BY <1>2, <2>1 DEF QueueInv, StaysModest, UpToMost
<1>4. UpToMost(r, Most)
  <2>1. cfg.MiningReward > 0 => Len(r) = 1 /\ r[1].amount = cfg.MiningReward
    BY <1>1 DEF IsRewards, P!IsReward
  <2>2. ~(cfg.MiningReward > 0) => Len(r) = 0
    BY <1>1 DEF IsRewards
  <2>3. cfg.MiningReward <= Most
    BY SettingsFit
  <2> QED
    BY <2>1, <2>2, <2>3 DEF UpToMost
<1> HIDE DEF head
<1>5. UpToMost(r \o head, Most)
  <2> SUFFICES ASSUME NEW i \in 1..Len(r \o head)
               PROVE  (r \o head)[i].amount <= Most
    BY DEF UpToMost
  <2>1. /\ Len(r) \in Nat /\ Len(head) \in Nat
        /\ Len(r \o head) = Len(r) + Len(head)
        /\ (r \o head)[i] = IF i <= Len(r) THEN r[i] ELSE head[i - Len(r)]
    BY <1>2, ConcatProperties, LenProperties
  <2>2. CASE i <= Len(r)
    BY <1>4, <2>1, <2>2 DEF UpToMost
  <2>3. CASE ~(i <= Len(r))
    <3>1. i - Len(r) \in 1..Len(head)
      BY <2>1, <2>3
    <3> QED
      BY <1>3, <2>1, <2>3, <3>1 DEF UpToMost
  <2> QED
    BY <2>2, <2>3
<1> QED
  BY <1>1, <1>5 DEF head

(***************************************************************************)
(* With one more block no balance exceeds what that many blocks can pay,   *)
(* and what is left in the queue cannot take it past MaxInt64.             *)
(***************************************************************************)
LEMMA MinedIsModest ==
  ASSUME NEW Most, NEW Size, CoinsFit(Most, Size), ChainInv, QueueInv(Most, Size), candidate # NoBlock,
         NEW left \in 0..Len(pool), NEW a \in Accounts
  PROVE  LET after == ApplyAll(balances, candidate.transactions)[a]
         IN  /\ after <= candidate.height * PerBlock(Most, Size)
             /\ after + left * Most <= MaxInt64
<1> DEFINE body == candidate.transactions
           most == PerBlock(Most, Size)
           after == ApplyAll(balances, body)[a]
           n == Len(body)
           h == Height
           top == candidate.height
<1>1. /\ body \in Seq(Transaction) /\ Fits(balances, body) /\ balances \in State
      /\ top = h + 1 /\ top <= MaxHeight /\ n <= Size /\ n \in Nat
      /\ h \in Nat /\ balances[a] <= h * most
      /\ left \in Nat /\ left <= MaxHeight
  <2>1. body \in Seq(Transaction) /\ Fits(balances, body) /\ top = h + 1
    BY DEF ChainInv, TypeOK, IsBody, CandidateStaysGood
  <2>2. top <= MaxHeight /\ n <= cfg.MaxTxPerBlock
    BY DEF QueueInv, CandidateIsBody
  <2>5. /\ cfg.MaxTxPerBlock <= Size /\ cfg.MaxTxPerBlock \in Nat
        /\ Size \in Nat /\ n \in Nat
    BY <2>1, SettingsFit, CoinsFacts, LenProperties
  <2>3. balances[a] <= h * most /\ Len(pool) <= MaxHeight
    BY DEF QueueInv, StaysModest
  <2>4. balances \in State /\ h \in Nat /\ Len(pool) \in Nat /\ MaxHeight \in Nat
    BY StateFacts, CoinsFacts
  <2> HIDE DEF body, most, n, h, top
  <2> QED
    BY <2>1, <2>2, <2>3, <2>4, <2>5
<1>2. /\ Most \in Nat /\ most \in Nat /\ Size \in Nat
      /\ MaxHeight \in Nat /\ MaxInt64 \in Nat
      /\ MaxHeight * most + MaxHeight * Most <= MaxInt64
      /\ most = Size * Most
  BY CoinsFacts DEF CoinsFit, PerBlock
<1>3. UpToMost(body, Most)
  BY BodyUpToMost
<1>4. after \in Int /\ balances[a] \in Int /\ after <= balances[a] + n * Most
  <2>1. n \in Nat /\ n \in 0..n
    BY <1>1, LenProperties
  <2>2. ApplyAll(balances, body) \in State
    BY <1>1, ApplyAllSafe
  <2>3. Run(balances, body)[n][a] <= balances[a] + n * Most
    BY <1>1, <1>2, <1>3, <2>1, RunBounded
  <2>4. after = Run(balances, body)[n][a]
    BY DEF ApplyAll
  <2>5. after \in Int /\ balances[a] \in Int
    <3> HIDE DEF body
    <3> QED
      BY <1>1, <2>2, LedgerAssumption DEF State
  <2> HIDE DEF after, n, body
  <2> QED
    BY <2>3, <2>4, <2>5
<1>5. n \in Nat
  BY <1>1, LenProperties
<1> HIDE DEF after, n, body, most, h, top
<1>6. n * Most <= most /\ n * Most \in Nat
  BY <1>1, <1>2, <1>5
<1>7. h * most + most = top * most /\ h * most \in Nat
  BY <1>1, <1>2
<1>8. top * most <= MaxHeight * most /\ top * most \in Nat /\ MaxHeight * most \in Nat
  BY <1>1, <1>2
<1>9. left * Most <= MaxHeight * Most /\ left * Most \in Nat /\ MaxHeight * Most \in Nat
  BY <1>1, <1>2
<1>10. after <= top * most
  BY <1>1, <1>2, <1>4, <1>6, <1>7
<1>11. after + left * Most <= MaxInt64
  BY <1>2, <1>4, <1>8, <1>9, <1>10
<1> QED
  BY <1>10, <1>11 DEF after, body, most, top

(***************************************************************************)
(* A mined block takes its share off the queue and pays it.                *)
(***************************************************************************)
LEMMA MineEndQueue ==
  ASSUME NEW Most, NEW Size, CoinsFit(Most, Size), ChainInv, QueueInv(Most, Size), MineEnd
  PROVE  QueueInv(Most, Size)'
<1> DEFINE head == Peek(pool, fromPool)
           rest == Remove(pool, fromPool)
           body == candidate.transactions
<1>1. /\ candidate # NoBlock /\ Fits(balances, body)
      /\ balances' = ApplyAll(balances, body) /\ pool' = rest
      /\ candidate' = NoBlock /\ accepted' = accepted
  BY DEF MineEnd
<1>2. /\ Book' = Book \o body /\ Settled' = Settled \o head
      /\ Height' = candidate.height
  BY MineEndBooks
<1>3. PICK r \in Seq(Transaction) : IsRewards(r) /\ body = r \o head
  BY <1>1 DEF QueueInv, CandidateIsBody
<1>4. /\ pool \in Seq(Transaction) /\ fromPool \in Nat /\ balances \in State
      /\ balances \in RawState /\ body \in Seq(Transaction)
  BY <1>1, StateFacts DEF ChainInv, TypeOK, IsBody
<1>5. /\ head \in Seq(Transaction) /\ rest \in Seq(Transaction)
      /\ pool = head \o rest /\ Len(pool) = Len(head) + Len(rest)
  BY <1>4, QueueSplit
<1>6. Len(rest) \in 0..Len(pool) /\ Len(pool) \in Nat /\ Len(head) \in Nat
  <2>1. Len(rest) \in Nat /\ Len(head) \in Nat
    BY <1>5, LenProperties
  <2> HIDE DEF rest, head
  <2> QED
    BY <1>5, <2>1
<1>7. ASSUME NEW a \in Accounts
      PROVE  /\ ApplyAll(balances, body)[a] <= candidate.height * PerBlock(Most, Size)
             /\ ApplyAll(balances, body)[a] + Len(rest) * Most <= MaxInt64
  BY <1>1, <1>6, MinedIsModest
<1>8. UpToMost(rest, Most)
  <2> HIDE DEF head, rest
  <2>1. ASSUME NEW i \in 1..Len(rest) PROVE rest[i].amount <= Most
    <3>1. /\ Len(head) + i \in 1..Len(pool)
          /\ (head \o rest)[Len(head) + i] = rest[i]
      <4>1. Len(head) + i \in 1..(Len(head) + Len(rest))
        BY <1>6
      <4>2. ~(Len(head) + i <= Len(head)) /\ Len(head) + i - Len(head) = i
        BY <1>6
      <4> QED
        BY <1>5, <4>1, <4>2, ConcatProperties
    <3> QED
      BY <1>5, <3>1 DEF QueueInv, StaysModest, UpToMost
  <2> QED
    BY <2>1 DEF UpToMost
<1>9. PoolNeverStale'
  <2>1. Fits(balances, r \o head) /\ Fits(balances, head \o rest)
    BY <1>1, <1>3, <1>5 DEF QueueInv, PoolNeverStale
  <2>2. \A a \in Accounts :
           ApplyAll(balances, r \o head)[a] + Len(rest) * Most <= MaxInt64
    BY <1>3, <1>7
  <2>3. Fits(ApplyAll(balances, r \o head), rest)
    <3> HIDE DEF head, rest, body
    <3> QED
      BY <1>3, <1>4, <1>5, <1>8, <2>1, <2>2, CoinsFacts, SettingsFit, RestStillFits
  <2> QED
    BY <1>1, <1>3, <2>3 DEF PoolNeverStale
<1>10. AcceptedInOrder'
  <2>1. accepted = Settled \o (head \o rest)
    BY <1>5 DEF QueueInv, AcceptedInOrder
  <2>2. (Settled \o head) \o rest = Settled \o (head \o rest)
    <3>1. Settled \in Seq(Transaction)
      BY StateFacts
    <3>2. head \in Seq(Transaction) /\ rest \in Seq(Transaction)
      BY <1>5
    <3> HIDE DEF head, rest
    <3> QED
      BY <3>1, <3>2, ConcatAssociative
  <2> QED
    BY <1>1, <1>2, <2>1, <2>2 DEF AcceptedInOrder
<1>11. BookPays'
  <2>1. Fits(NewState, Book) /\ balances = ApplyAll(NewState, Book)
    BY DEF QueueInv, BookPays
  <2>2. Fits(NewState, Book \o body)
    BY <1>1, <1>4, <2>1, StateFacts, FitsConcat
  <2>3. ApplyAll(NewState, Book \o body) = ApplyAll(balances, body)
    BY <1>4, <2>1, StateFacts, ApplyAllConcat
  <2> QED
    BY <1>1, <1>2, <2>2, <2>3 DEF BookPays
<1>12. StaysModest(Most, Size)'
  <2>1. candidate.height <= MaxHeight /\ Len(pool) <= MaxHeight
    BY <1>1 DEF QueueInv, CandidateIsBody, StaysModest
  <2>2. Len(rest) <= MaxHeight
    <3> HIDE DEF rest
    <3> QED
      BY <1>6, <2>1, CoinsFacts
  <2>3. \A a \in Accounts : balances'[a] <= Height' * PerBlock(Most, Size)
    BY <1>1, <1>2, <1>7
  <2> QED
    BY <1>1, <1>2, <1>8, <2>1, <2>2, <2>3 DEF StaysModest
<1> QED
  BY <1>1, <1>9, <1>10, <1>11, <1>12 DEF QueueInv, CandidateIsBody

(***************************************************************************)
(* The other actions leave the queue and the chain as they are; loading    *)
(* does because a queue that fits is readmitted as a whole.                *)
(***************************************************************************)
LEMMA ReloadSame ==
  ASSUME ChainInv, PoolNeverStale, Reload
  PROVE  blocks' = blocks /\ balances' = balances /\ pool' = pool
<1>1. /\ blocks' = blocks /\ balances' = Replay(blocks)
      /\ pool' = Readmit(pool, Replay(blocks))
  BY DEF Reload
<1>2. Replay(blocks) = balances
  BY DEF ChainInv, BalancesAreReplay
<1> QED
  BY <1>1, <1>2, StateFacts, ReadmitAll DEF PoolNeverStale

LEMMA SameQueue ==
  ASSUME NEW Most, NEW Size, QueueInv(Most, Size),
         blocks' = blocks, balances' = balances, pool' = pool,
         accepted' = accepted, rewards' = rewards,
         \/ candidate' = NoBlock
         \/ candidate' = candidate /\ fromPool' = fromPool /\ cfg' = cfg
  PROVE  QueueInv(Most, Size)'
<1>1. Book' = Book /\ Settled' = Settled /\ Height' = Height
  BY DEF Book, Settled, Height, Tip
<1>2. CandidateIsBody'
  BY DEF QueueInv, CandidateIsBody, IsRewards
<1> QED
  BY <1>1, <1>2
     DEF QueueInv, PoolNeverStale, AcceptedInOrder, BookPays, StaysModest

LEMMA NextQueue ==
  ASSUME NEW Most, NEW Size, CoinsFit(Most, Size), ChainInv, QueueInv(Most, Size), [Next]_vars
  PROVE  QueueInv(Most, Size)'
<1>1. clock \in Nat /\ \A amount \in Amounts : amount <= Most
  BY StateFacts DEF CoinsFit
<1>2. ASSUME NEW from \in Accounts, NEW to \in Accounts, NEW amount \in Amounts,
             AddTransaction(from, to, amount)
      PROVE  QueueInv(Most, Size)'
  <2> DEFINE tx == Sign(from, NewTransfer(from, to, amount, clock))
  <2>1. tx \in Transaction
    BY <1>1, TransferType
  <2>2. tx.amount = amount
    BY DEF Sign, NewTransfer
  <2>3. Add(tx)
    BY <1>2 DEF AddTransaction
  <2> HIDE DEF tx
  <2> QED
    BY <1>1, <2>1, <2>2, <2>3, AddQueue
<1>3. ASSUME NEW to \in Accounts, NEW amount \in Amounts, Faucet(to, amount)
      PROVE  QueueInv(Most, Size)'
  <2> DEFINE tx == NewCoinbase(to, amount, clock)
  <2>1. tx \in Transaction
    <3>1. amount \in Int64
      BY ChainAssumption
    <3> QED
      BY <1>1, <3>1, CoinbaseType
  <2>2. tx.amount = amount
    BY DEF NewCoinbase, NewTransfer
  <2>3. Add(tx)
    BY <1>3 DEF Faucet
  <2> HIDE DEF tx
  <2> QED
    BY <1>1, <2>1, <2>2, <2>3, AddQueue
<1>4. CASE MineBegin
  BY <1>4, MineBeginQueue
<1>5. CASE MineEnd
  BY <1>5, MineEndQueue
<1>6. CASE MineAbort
  <2>1. /\ blocks' = blocks /\ balances' = balances /\ pool' = pool
        /\ accepted' = accepted /\ rewards' = rewards /\ candidate' = NoBlock
    BY <1>6 DEF MineAbort, chainVars, history
  <2> QED
    BY <2>1, SameQueue
<1>7. CASE Reload
  <2>1. accepted' = accepted /\ rewards' = rewards /\ candidate' = NoBlock
    BY <1>7 DEF Reload, searchVars, history
  <2>2. blocks' = blocks /\ balances' = balances /\ pool' = pool
    BY <1>7, ReloadSame DEF QueueInv
  <2> QED
    BY <2>1, <2>2, SameQueue
<1>8. CASE ReloadRefused \/ Tick \/ StepBack \/ UNCHANGED vars
  <2>1. /\ blocks' = blocks /\ balances' = balances /\ pool' = pool
        /\ accepted' = accepted /\ candidate' = candidate /\ fromPool' = fromPool
        /\ rewards' = rewards /\ cfg' = cfg
    BY <1>8
       DEF ReloadRefused, Tick, StepBack, vars, chainVars, searchVars, process,
           history
  <2> QED
    BY <2>1, SameQueue
<1> QED
  BY <1>2, <1>3, <1>4, <1>5, <1>6, <1>7, <1>8 DEF Next

-----------------------------------------------------------------------------
(* The supply.                                                             *)

(***************************************************************************)
(* The recursion that Minted is defined by does define it.                 *)
(***************************************************************************)
Coins(tx) == IF IsCoinbase(tx) THEN tx.amount ELSE 0

IsMinted(f, txs) ==
    /\ f \in [0..Len(txs) -> Int]
    /\ f[0] = 0
    /\ \A i \in 1..Len(txs) : f[i] = f[i - 1] + Coins(txs[i])

LEMMA MintedDef ==
  ASSUME NEW txs \in Seq(Transaction)
  PROVE  \E f : IsMinted(f, txs) /\ Minted(txs) = f[Len(txs)]
<1> DEFINE n == Len(txs)
           step == [p \in Int \X (1..n) |-> p[1] + Coins(txs[p[2]])]
           Is(f) == f = [i \in 0..n |-> IF i = 0 THEN 0
                                        ELSE f[i - 1] + Coins(txs[i])]
           r == CHOOSE g : Is(g)
<1>1. n \in Nat /\ \A i \in 1..n : Coins(txs[i]) \in Int
  BY AmountType DEF Coins
<1>2. step \in [Int \X (1..n) -> Int]
  BY <1>1
<1>3. PICK f : Iteration(f, n, Int, 0, step)
  <2> DEFINE S == Int
  <2>1. 0 \in S /\ n \in Nat /\ step \in [S \X (1..n) -> S]
    BY <1>1, <1>2
  <2> HIDE DEF step, n, S
  <2>2. \E f : Iteration(f, n, S, 0, step)
    BY <2>1, Iterates
  <2> QED
    BY <2>2 DEF S
<1>4. ASSUME NEW i \in 1..n PROVE step[<<f[i - 1], i>>] = f[i - 1] + Coins(txs[i])
  <2>1. f \in [0..n -> Int] /\ i - 1 \in 0..n
    BY <1>1, <1>3 DEF Iteration
  <2>2. <<f[i - 1], i>> \in Int \X (1..n)
    BY <2>1
  <2> HIDE DEF n
  <2> QED
    BY <2>2
<1>5. Is(f)
  BY <1>1, <1>3, <1>4 DEF Iteration
<1>6. Minted(txs) = r[n]
  BY Zenon DEF Minted, Coins
<1>7. Is(r)
  <2> HIDE DEF Is
  <2> QED
    BY <1>5
<1> HIDE DEF r
<1>8. r[0] = 0 /\ \A i \in 1..n : r[i] = r[i - 1] + Coins(txs[i])
  BY <1>1, <1>7
<1> DEFINE Good == {i \in 0..n : r[i] \in Int}
<1>9. \A i \in 0..n : i \in Good
  <2>1. 0 \in Good
    BY <1>1, <1>8
  <2>2. \A i \in 1..n : i - 1 \in Good => i \in Good
    BY <1>1, <1>8
  <2> HIDE DEF Good
  <2> QED
    BY <1>1, <2>1, <2>2, UpTo
<1>10. r = [i \in 0..n |-> r[i]]
  BY <1>7
<1> QED
  BY <1>6, <1>8, <1>9, <1>10 DEF IsMinted

(***************************************************************************)
(* Transactions add to the sum of the balances what they mint.             *)
(***************************************************************************)
LEMMA TotalMinted ==
  ASSUME IsFiniteSet(Accounts), NEW bal \in RawState, NEW txs \in Seq(Transaction)
  PROVE  /\ Total(bal) \in Int /\ Minted(txs) \in Int
         /\ Total(ApplyAll(bal, txs)) = Total(bal) + Minted(txs)
<1> DEFINE n == Len(txs)
           R == Run(bal, txs)
<1>1. n \in Nat /\ \A i \in 1..n : txs[i] \in Transaction /\ txs[i].amount \in Int
  BY AmountType
<1>2. /\ R \in [0..n -> RawState] /\ R[0] = bal
      /\ \A i \in 1..n : R[i] = Apply(R[i - 1], txs[i])
  BY RunDef
<1>3. PICK f : IsMinted(f, txs) /\ Minted(txs) = f[n]
  BY MintedDef
<1>4. /\ f \in [0..n -> Int] /\ f[0] = 0
      /\ \A i \in 1..n : f[i] = f[i - 1] + Coins(txs[i])
  BY <1>3 DEF IsMinted
<1>5. \A b \in RawState : Total(b) \in Int
  <2> SUFFICES ASSUME NEW b \in RawState PROVE Total(b) \in Int
    OBVIOUS
  <2>1. PICK g : IsSum(g, b) /\ Total(b) = g[Accounts]
    BY TotalDef
  <2> QED
    BY <2>1 DEF IsSum
<1>6. ApplyAll(bal, txs) = R[n]
  BY DEF ApplyAll
<1> HIDE DEF n, R
<1> DEFINE Good == {i \in 0..n : Total(R[i]) = Total(bal) + f[i]}
<1>7. 0 \in Good
  BY <1>1, <1>2, <1>4, <1>5
<1>8. ASSUME NEW i \in 1..n, i - 1 \in Good PROVE i \in Good
  <2>1. i - 1 \in 0..n /\ R[i - 1] \in RawState
    BY <1>1, <1>2
  <2>2. Total(R[i]) = Total(R[i - 1]) + Coins(txs[i])
    BY <1>1, <1>2, <2>1, TotalApply DEF Coins
  <2>3. Total(R[i - 1]) = Total(bal) + f[i - 1] /\ f[i] = f[i - 1] + Coins(txs[i])
    BY <1>4, <1>8
  <2>4. Total(bal) \in Int /\ f[i - 1] \in Int /\ Coins(txs[i]) \in Int
    BY <1>1, <1>4, <1>5, <2>1 DEF Coins
  <2> QED
    BY <1>1, <2>2, <2>3, <2>4
<1>9. \A i \in 0..n : i \in Good
  <2> HIDE DEF Good
  <2> QED
    BY <1>1, <1>7, <1>8, UpTo
<1> QED
  BY <1>1, <1>3, <1>4, <1>5, <1>6, <1>9

(***************************************************************************)
(* A list of i transactions mints at most i times Most.                    *)
(***************************************************************************)
LEMMA MintedBounded ==
  ASSUME NEW Most \in Nat, NEW bal, NEW txs \in Seq(Transaction),
         Fits(bal, txs), UpToMost(txs, Most)
  PROVE  Minted(txs) \in 0..(Len(txs) * Most)
<1> DEFINE n == Len(txs)
<1>1. /\ n \in Nat
      /\ \A i \in 1..n : Coins(txs[i]) \in 0..Most
  <2>1. \A i \in 1..n : txs[i].amount > 0 /\ txs[i].amount <= Most
    BY DEF Fits, CanApply, ValidTransaction, UpToMost
  <2> QED
    BY <2>1, AmountType DEF Coins
<1>2. PICK f : IsMinted(f, txs) /\ Minted(txs) = f[n]
  BY MintedDef
<1>3. /\ f \in [0..n -> Int] /\ f[0] = 0
      /\ \A i \in 1..n : f[i] = f[i - 1] + Coins(txs[i])
  BY <1>2 DEF IsMinted
<1> HIDE DEF n
<1> DEFINE Good == {i \in 0..n : f[i] \in 0..(i * Most)}
<1>4. 0 \in Good
  BY <1>1, <1>3
<1>5. ASSUME NEW i \in 1..n, i - 1 \in Good PROVE i \in Good
  <2>1. f[i - 1] \in 0..((i - 1) * Most) /\ Coins(txs[i]) \in 0..Most
    BY <1>1, <1>5
  <2>2. (i - 1) * Most + Most = i * Most /\ (i - 1) * Most \in Int /\ i * Most \in Int
    BY <1>1
  <2>3. f[i] = f[i - 1] + Coins(txs[i])
    BY <1>3
  <2> QED
    BY <1>1, <2>1, <2>2, <2>3
<1>6. \A i \in 0..n : i \in Good
  <2> HIDE DEF Good
  <2> QED
    BY <1>1, <1>4, <1>5, UpTo
<1> QED
  BY <1>1, <1>2, <1>6 DEF n

(***************************************************************************)
(* All coins together, which the blocks so far can mint.                   *)
(***************************************************************************)
SupplyInv(Most, Size) == Total(balances) \in 0..(Height * PerBlock(Most, Size))

LEMMA InitSupply ==
  ASSUME NEW Most, NEW Size, CoinsFit(Most, Size), IsFiniteSet(Accounts), Init
  PROVE  SupplyInv(Most, Size)
<1> DEFINE most == PerBlock(Most, Size)
<1>1. Height = 0 /\ most \in Nat
  BY InitBooks, CoinsFacts
<1>2. Total(balances) = 0
  BY TotalNew DEF Init
<1> HIDE DEF most
<1>3. 0 * most = 0
  BY <1>1
<1>4. Total(balances) \in 0..(Height * most)
  BY <1>1, <1>2, <1>3
<1> QED
  BY <1>4 DEF SupplyInv, most

LEMMA MineEndSupply ==
  ASSUME NEW Most, NEW Size, CoinsFit(Most, Size), IsFiniteSet(Accounts),
         ChainInv, QueueInv(Most, Size), SupplyInv(Most, Size), MineEnd
  PROVE  SupplyInv(Most, Size)'
<1> DEFINE body == candidate.transactions
           most == PerBlock(Most, Size)
           n == Len(body)
           h == Height
           before == Total(balances)
           new == Minted(body)
<1>1. /\ candidate # NoBlock /\ Fits(balances, body)
      /\ balances' = ApplyAll(balances, body)
  BY DEF MineEnd
<1>2. Height' = h + 1
  <2>1. candidate.height = h + 1
    BY <1>1 DEF ChainInv, CandidateStaysGood
  <2> QED
    BY <2>1, MineEndBooks
<1>3. body \in Seq(Transaction) /\ n \in Nat /\ n <= Size
  <2>1. body \in Seq(Transaction) /\ n <= cfg.MaxTxPerBlock
    BY <1>1 DEF ChainInv, TypeOK, IsBody, QueueInv, CandidateIsBody
  <2>2. /\ cfg.MaxTxPerBlock <= Size /\ cfg.MaxTxPerBlock \in Nat
        /\ Size \in Nat /\ n \in Nat
    BY <2>1, SettingsFit, CoinsFacts, LenProperties
  <2> HIDE DEF n
  <2> QED
    BY <2>1, <2>2
<1>4. Total(balances') = before + new
  BY <1>1, <1>3, StateFacts, TotalMinted
<1>5. new \in 0..(n * Most)
  BY <1>1, <1>3, CoinsFacts, BodyUpToMost, MintedBounded
<1>6. before \in 0..(h * most) /\ h \in Nat
  BY StateFacts DEF SupplyInv
<1>7. most = Size * Most /\ most \in Nat /\ Most \in Nat /\ Size \in Nat
  BY CoinsFacts DEF PerBlock
<1> HIDE DEF body, most, n, h, before, new
<1>8. n * Most <= most /\ n * Most \in Nat
  BY <1>3, <1>7
<1>9. h * most + most = (h + 1) * most /\ h * most \in Nat /\ (h + 1) * most \in Nat
  BY <1>6, <1>7
<1>10. Total(balances') \in 0..((h + 1) * most)
  BY <1>4, <1>5, <1>6, <1>7, <1>8, <1>9
<1> QED
  BY <1>2, <1>10 DEF SupplyInv, most

LEMMA NextSupply ==
  ASSUME NEW Most, NEW Size, CoinsFit(Most, Size), IsFiniteSet(Accounts),
         ChainInv, QueueInv(Most, Size), SupplyInv(Most, Size), [Next]_vars
  PROVE  SupplyInv(Most, Size)'
<1>1. CASE MineEnd
  BY <1>1, MineEndSupply
<1>2. CASE Reload
  BY <1>2, ReloadSame DEF QueueInv, SupplyInv, Height, Tip
<1>3. CASE ~MineEnd /\ ~Reload
  <2>1. blocks' = blocks /\ balances' = balances
    BY <1>3 DEF Next, AddTransaction, Faucet, Add, MineBegin, MineAbort,
                ReloadRefused, Tick, StepBack, vars, chainVars
  <2> QED
    BY <2>1 DEF SupplyInv, Height, Tip
<1> QED
  BY <1>1, <1>2, <1>3

(***************************************************************************)
(* Two's complement is the identity up to MaxInt64.                        *)
(***************************************************************************)
LEMMA NoWrap ==
  ASSUME NEW n \in 0..MaxInt64
  PROVE  Wrap64(n) = n
<1> DEFINE d == 2 * (MaxInt64 + 1)
           x == n + MaxInt64 + 1
<1>1. d \in Nat \ {0} /\ x \in 0..(d - 1)
  BY LedgerAssumption
<1>2. x - (MaxInt64 + 1) = n
  BY LedgerAssumption
<1>3. Wrap64(n) = (x % d) - (MaxInt64 + 1)
  BY DEF Wrap64
<1> HIDE DEF d, x
<1>4. x % d = x
  BY <1>1
<1> QED
  BY <1>2, <1>3, <1>4

-----------------------------------------------------------------------------
(* The theorems.                                                           *)

(***************************************************************************)
(* QueueInv holds in every state of every behaviour.                       *)
(***************************************************************************)
THEOREM QueueInvariance ==
  ASSUME NEW Most, NEW Size, CoinsFit(Most, Size)
  PROVE  Spec => []QueueInv(Most, Size)
<1>1. Init => QueueInv(Most, Size)
  BY InitQueue
<1>2. QueueInv(Most, Size) /\ ChainInv /\ [Next]_vars => QueueInv(Most, Size)'
  BY NextQueue
<1> QED
  BY <1>1, <1>2, Invariance, PTL DEF Spec

(***************************************************************************)
(* The queue always fits the confirmed balances: Mempool.Add never finds   *)
(* its pool stale, whatever was mined in between.                          *)
(***************************************************************************)
THEOREM NeverStale ==
  ASSUME NEW Most, NEW Size, CoinsFit(Most, Size)
  PROVE  Spec => []PoolNeverStale
<1>1. QueueInv(Most, Size) => PoolNeverStale
  BY DEF QueueInv
<1> QED
  BY <1>1, QueueInvariance, PTL

(***************************************************************************)
(* What was accepted is settled or queued, once and in order, across Peek, *)
(* Remove, aborted searches and Load.                                      *)
(***************************************************************************)
THEOREM AcceptedCorrect ==
  ASSUME NEW Most, NEW Size, CoinsFit(Most, Size)
  PROVE  Spec => []AcceptedInOrder
<1>1. QueueInv(Most, Size) => AcceptedInOrder
  BY DEF QueueInv
<1> QED
  BY <1>1, QueueInvariance, PTL

(***************************************************************************)
(* Load gives back the balances and the whole queue that were saved.       *)
(***************************************************************************)
THEOREM ReloadCorrect ==
  ASSUME NEW Most, NEW Size, CoinsFit(Most, Size)
  PROVE  Spec => ReloadChangesNothing
<1>1. ChainInv /\ QueueInv(Most, Size) /\ [Next]_vars =>
         [Reload => balances' = balances /\ pool' = pool]_vars
  BY ReloadSame DEF QueueInv
<1> QED
  BY <1>1, Invariance, QueueInvariance, PTL DEF Spec, ReloadChangesNothing

(***************************************************************************)
(* The supply is what the coinbase transactions in the blocks minted: no   *)
(* payment, block or restart creates or loses a coin, and the sum in       *)
(* Supply does not wrap.                                                   *)
(***************************************************************************)
THEOREM SupplyCorrect ==
  ASSUME NEW Most, NEW Size, CoinsFit(Most, Size), IsFiniteSet(Accounts)
  PROVE  Spec => []SupplyIsMinted
<1>1. Init => SupplyInv(Most, Size)
  BY InitSupply
<1>2. SupplyInv(Most, Size) /\ QueueInv(Most, Size) /\ ChainInv /\ [Next]_vars => SupplyInv(Most, Size)'
  BY NextSupply
<1>3. SupplyInv(Most, Size) /\ QueueInv(Most, Size) /\ ChainInv => SupplyIsMinted
  <2> SUFFICES ASSUME SupplyInv(Most, Size), QueueInv(Most, Size), ChainInv
               PROVE  SupplyIsMinted
    OBVIOUS
  <2>1. Total(balances) = Minted(Book)
    <3>1. balances = ApplyAll(NewState, Book)
      BY DEF QueueInv, BookPays
    <3>2. /\ Total(ApplyAll(NewState, Book)) = Total(NewState) + Minted(Book)
          /\ Minted(Book) \in Int
      BY StateFacts, TotalMinted
    <3> QED
      BY <3>1, <3>2, TotalNew
  <2>2. Total(balances) \in 0..MaxInt64
    <3> DEFINE most == PerBlock(Most, Size)
               h == Height
    <3>1. Total(balances) \in 0..(h * most)
      BY DEF SupplyInv
    <3>2. h \in Nat /\ h <= MaxHeight
      BY StateFacts DEF QueueInv, StaysModest
    <3>3. MaxHeight * most + MaxHeight * Most <= MaxInt64
      BY DEF CoinsFit
    <3>4. most \in Nat /\ Most \in Nat /\ MaxHeight \in Nat /\ MaxInt64 \in Nat
      BY CoinsFacts
    <3> HIDE DEF most, h
    <3>5. h * most <= MaxHeight * most /\ h * most \in Nat
      BY <3>2, <3>4
    <3>6. MaxHeight * Most \in Nat /\ MaxHeight * most \in Nat
      BY <3>4
    <3> QED
      BY <3>1, <3>3, <3>4, <3>5, <3>6
  <2>3. Supply(balances) = Total(balances)
    BY <2>2, NoWrap DEF Supply
  <2> QED
    BY <2>1, <2>3 DEF SupplyIsMinted
<1> QED
  BY <1>1, <1>2, <1>3, Invariance, QueueInvariance, PTL DEF Spec

(***************************************************************************)
(* A search that takes nothing off the queue was begun on an empty one.    *)
(***************************************************************************)
TakesFromPool == candidate # NoBlock /\ pool # << >> => fromPool > 0

HasRoom ==
    \A c \in Configs :
        c.MaxTxPerBlock > IF c.MiningReward > 0 THEN 1 ELSE 0

LEMMA NextTakes ==
  ASSUME HasRoom, ChainInv, TakesFromPool, [Next]_vars
  PROVE  TakesFromPool'
<1>1. CASE MineBegin
  <2>1. pool' = pool /\ fromPool' = Len(Queued)
    BY <1>1 DEF MineBegin, chainVars
  <2>2. Len(Reward) = RewardSlots
    BY BodyFacts DEF ChainInv
  <2>3. RewardSlots \in Nat /\ cfg.MaxTxPerBlock - RewardSlots \in Nat \ {0}
    BY CfgFacts DEF ChainInv, RewardSlots, HasRoom
  <2>4. Len(Queued) = AtMost(cfg.MaxTxPerBlock - RewardSlots, Len(pool))
    BY <2>2, <2>3, StateFacts, QueueSplit DEF Queued
  <2>5. pool # << >> => Len(pool) \in Nat \ {0}
    BY StateFacts, EmptySeq
  <2>6. pool # << >> => Len(Queued) > 0
    BY <2>3, <2>4, <2>5 DEF AtMost
  <2> QED
    BY <2>1, <2>6 DEF TakesFromPool
<1>2. CASE MineEnd \/ MineAbort
  BY <1>2 DEF MineEnd, MineAbort, TakesFromPool
<1>3. CASE Reload
  BY <1>3 DEF Reload, searchVars, TakesFromPool
<1>4. ASSUME NEW tx, Add(tx) PROVE TakesFromPool'
  BY <1>4 DEF Add, searchVars, TakesFromPool
<1>5. CASE ReloadRefused \/ Tick \/ StepBack \/ UNCHANGED vars
  BY <1>5 DEF ReloadRefused, Tick, StepBack, vars, chainVars, searchVars, TakesFromPool
<1> QED
  BY <1>1, <1>2, <1>3, <1>4, <1>5 DEF Next, AddTransaction, Faucet

(***************************************************************************)
(* Mining makes progress on a queue that has anything, as long as a block  *)
(* has room for a transaction beside the reward under all settings: what   *)
(* config.Validate does not ask for.                                       *)
(***************************************************************************)
THEOREM MiningProgresses ==
  ASSUME HasRoom
  PROVE  Spec => MiningDrainsPool
<1>1. Init => TakesFromPool
  BY DEF Init, TakesFromPool
<1>2. TakesFromPool /\ ChainInv /\ [Next]_vars => TakesFromPool'
  BY NextTakes
<1>3. TakesFromPool /\ ChainInv /\ [Next]_vars =>
         [blocks' # blocks /\ pool # << >> => Len(pool') < Len(pool)]_vars
  <2> SUFFICES ASSUME TakesFromPool, ChainInv, [Next]_vars,
                      blocks' # blocks, pool # << >>
               PROVE  Len(pool') < Len(pool)
    OBVIOUS
  <2>1. MineEnd
    BY DEF Next, AddTransaction, Faucet, Add, MineBegin, MineAbort, Reload,
           ReloadRefused, Tick, StepBack, vars, chainVars
  <2>2. pool' = Remove(pool, fromPool) /\ fromPool > 0
    BY <2>1 DEF MineEnd, TakesFromPool
  <2>3. pool \in Seq(Transaction) /\ fromPool \in Nat /\ Len(pool) \in Nat \ {0}
    BY StateFacts, EmptySeq
  <2>4. /\ Len(pool) = Len(Peek(pool, fromPool)) + Len(Remove(pool, fromPool))
        /\ Len(Peek(pool, fromPool)) = AtMost(fromPool, Len(pool))
        /\ Remove(pool, fromPool) \in Seq(Transaction)
    BY <2>3, QueueSplit
  <2>5. Len(Remove(pool, fromPool)) \in Nat
    BY <2>4, LenProperties
  <2> QED
    BY <2>2, <2>3, <2>4, <2>5 DEF AtMost
<1> QED
  BY <1>1, <1>2, <1>3, Invariance, PTL DEF Spec, MiningDrainsPool

-----------------------------------------------------------------------------
(* The refinement.                                                         *)

(***************************************************************************)
(* Payments goes by the same accounting rules.                             *)
(***************************************************************************)
LEMMA SameRules ==
  /\ P!NewState = NewState
  /\ \A bal, txs : P!Fits(bal, txs) <=> Fits(bal, txs)
  /\ \A tx : P!IsCoinbase(tx) <=> IsCoinbase(tx)
BY Zenon
   DEF P!NewState, NewState, P!Fits, Fits, P!Run, Run, P!Apply, Apply,
       P!CanApply, CanApply, P!ValidTransaction, ValidTransaction,
       P!VerifySignature, VerifySignature, P!SigningBytes, SigningBytes,
       P!IsCoinbase, IsCoinbase

(***************************************************************************)
(* A book that pays, and a queue that fits behind it, can be paid together.*)
(***************************************************************************)
LEMMA BookAndQueueFit ==
  ASSUME NEW book \in Seq(Transaction), NEW queue \in Seq(Transaction),
         Fits(NewState, book), Fits(ApplyAll(NewState, book), queue)
  PROVE  P!Fits(P!NewState, book \o queue)
<1>1. Fits(NewState, book \o queue)
  BY NewStateType, StateIsRaw, FitsConcat
<1> QED
  BY <1>1, SameRules

(***************************************************************************)
(* Accepting a transaction is Payments' Accept.                            *)
(***************************************************************************)
LEMMA AddAccepts ==
  ASSUME ChainInv, BookPays, PoolNeverStale', NEW tx \in Transaction, Add(tx)
  PROVE  P!Accept
<1>1. pool' = Append(pool, tx) /\ blocks' = blocks /\ balances' = balances
  BY DEF Add
<1>2. pool \in Seq(Transaction) /\ Len(pool) \in Nat
  BY StateFacts
<1>3. /\ Len(pool') = Len(pool) + 1 /\ pool'[Len(pool) + 1] = tx
      /\ pool' \in Seq(Transaction) /\ pool' # << >>
  BY <1>1, <1>2, AppendProperties
<1>4. Book' = Book
  BY <1>1 DEF Book
<1>5. P!Last(pool') = tx
  BY <1>3 DEF P!Last
<1>6. P!Fits(P!NewState, Book \o pool')
  <2>1. Fits(NewState, Book) /\ Fits(ApplyAll(NewState, Book), pool')
    BY <1>1 DEF BookPays, PoolNeverStale
  <2> QED
    BY <1>3, <2>1, StateFacts, BookAndQueueFit
<1> QED
  BY <1>1, <1>3, <1>4, <1>5, <1>6 DEF P!Accept

(***************************************************************************)
(* What was appended to a sequence is what follows it.                     *)
(***************************************************************************)
LEMMA Appended ==
  ASSUME NEW S, NEW s \in Seq(S), NEW t \in Seq(S)
  PROVE  SubSeq(s \o t, Len(s) + 1, Len(s \o t)) = t
<1> DEFINE st == s \o t
           m == Len(s)
           n == Len(t)
           end == SubSeq(st, m + 1, Len(st))
<1>1. /\ m \in Nat /\ n \in Nat /\ st \in Seq(S) /\ Len(st) = m + n
      /\ \A i \in 1..(m + n) : st[i] = IF i <= m THEN s[i] ELSE t[i - m]
  BY ConcatProperties, LenProperties
<1>2. \A i \in (m + 1)..Len(st) : st[i] \in S
  <2> HIDE DEF st, m
  <2> QED
    BY <1>1
<1> HIDE DEF st, m, n
<1>3. /\ end \in Seq(S)
      /\ Len(end) = IF m + 1 <= Len(st) THEN Len(st) - (m + 1) + 1 ELSE 0
      /\ \A i \in 1..(Len(st) - (m + 1) + 1) : end[i] = st[(m + 1) + i - 1]
  BY <1>1, <1>2, SubSeqProperties
<1> HIDE DEF end
<1>4. Len(end) = n
  BY <1>1, <1>3
<1>5. ASSUME NEW i \in 1..n PROVE end[i] = t[i]
  <2>1. (m + 1) + i - 1 \in 1..(m + n) /\ ~((m + 1) + i - 1 <= m)
        /\ (m + 1) + i - 1 - m = i /\ i \in 1..(Len(st) - (m + 1) + 1)
    BY <1>1
  <2> QED
    BY <1>1, <1>3, <2>1
<1>6. end = t
  BY <1>3, <1>4, <1>5, SeqEqual DEF n
<1> QED
  BY <1>6 DEF end, st, m

(***************************************************************************)
(* Appending a block is Payments' Settle.                                  *)
(***************************************************************************)
LEMMA MineEndSettles ==
  ASSUME ChainInv, CandidateIsBody, BookPays, PoolNeverStale', MineEnd
  PROVE  P!Settle
<1> DEFINE head == Peek(pool, fromPool)
           rest == Remove(pool, fromPool)
           body == candidate.transactions
           k == AtMost(fromPool, Len(pool))
<1>1. /\ candidate # NoBlock /\ Fits(balances, body)
      /\ balances' = ApplyAll(balances, body) /\ pool' = rest
  BY DEF MineEnd
<1>2. Book' = Book \o body
  BY MineEndBooks
<1>3. PICK r \in Seq(Transaction) : IsRewards(r) /\ body = r \o head
  BY <1>1 DEF CandidateIsBody
<1>4. /\ pool \in Seq(Transaction) /\ Len(pool) \in Nat /\ fromPool \in Nat
      /\ Book \in Seq(Transaction) /\ body \in Seq(Transaction)
      /\ NewState \in RawState
  BY <1>1, StateFacts DEF ChainInv, TypeOK, IsBody
<1>5. head \in Seq(Transaction) /\ rest \in Seq(Transaction)
  BY <1>4, QueueSplit
<1>6. k \in 0..Len(pool) /\ head = SubSeq(pool, 1, k)
      /\ rest = SubSeq(pool, k + 1, Len(pool))
  BY <1>4 DEF AtMost, Peek, Remove
<1>7. Book' = Book \o SubSeq(Book', Len(Book) + 1, Len(Book'))
      /\ SubSeq(Book', Len(Book) + 1, Len(Book')) = body
  <2>1. SubSeq(Book \o body, Len(Book) + 1, Len(Book \o body)) = body
    <3> HIDE DEF body
    <3> QED
      BY <1>4, Appended
  <2> QED
    BY <1>2, <2>1
<1>8. IF cfg.MiningReward > 0
      THEN body # << >> /\ P!IsReward(body[1], cfg) /\ Tail(body) = head
      ELSE body = head
  <2>1. CASE cfg.MiningReward > 0
    <3>1. Len(r) = 1 /\ P!IsReward(r[1], cfg)
      BY <1>3, <2>1 DEF IsRewards
    <3>2. /\ Len(body) = 1 + Len(head) /\ Len(head) \in Nat
          /\ body[1] = r[1]
      <4> HIDE DEF head
      <4>1. head \in Seq(Transaction) /\ Len(head) \in Nat
        BY <1>5, LenProperties
      <4>2. Len(r \o head) = Len(r) + Len(head)
            /\ \A i \in 1..(Len(r) + Len(head)) : (r \o head)[i] =
                  IF i <= Len(r) THEN r[i] ELSE head[i - Len(r)]
        BY <4>1, ConcatProperties
      <4>3. 1 \in 1..(Len(r) + Len(head)) /\ 1 <= Len(r)
        BY <3>1, <4>1
      <4>4. (r \o head)[1] = r[1]
        BY <4>2, <4>3
      <4> QED
        BY <1>3, <3>1, <4>1, <4>2, <4>4
    <3>3. Tail(body) = head
      <4>1. Tail(body) = SubSeq(body, 2, Len(body))
        <5> HIDE DEF body
        <5> QED
          BY <1>4, <3>2
      <4>2. SubSeq(r \o head, Len(r) + 1, Len(r \o head)) = head
        <5> HIDE DEF head
        <5> QED
          BY <1>3, <1>5, Appended
      <4> QED
        BY <1>3, <3>1, <4>1, <4>2
    <3> QED
      BY <2>1, <3>1, <3>2, <3>3
  <2>2. CASE ~(cfg.MiningReward > 0)
    <3>1. r = << >>
      BY <1>3, <2>2 DEF IsRewards
    <3>2. << >> \o head = head
      <4> HIDE DEF head
      <4> QED
        BY <1>5, ConcatEmptySeq
    <3> QED
      BY <1>3, <2>2, <3>1, <3>2
  <2> QED
    BY <2>1, <2>2
<1>9. P!Fits(P!NewState, Book' \o pool')
  <2>1. Fits(NewState, Book) /\ balances = ApplyAll(NewState, Book)
    BY DEF BookPays
  <2>2. Fits(NewState, Book') /\ ApplyAll(NewState, Book') = balances'
    BY <1>1, <1>2, <1>4, <2>1, FitsConcat, ApplyAllConcat
  <2>3. Book' \in Seq(Transaction)
    BY <1>2, <1>4, ConcatProperties
  <2> QED
    BY <1>1, <1>5, <2>2, <2>3, BookAndQueueFit DEF PoolNeverStale
<1>10. pool' = SubSeq(pool, k + 1, Len(pool))
  BY <1>1, <1>6
<1>11. cfg \in Configs
  BY CfgFacts DEF ChainInv
<1> HIDE DEF head, rest, body, k
<1> QED
  BY <1>6, <1>7, <1>8, <1>9, <1>10, <1>11 DEF P!Settle

(***************************************************************************)
(* The chain implements Payments: blocks, cached balances, aborted         *)
(* searches and reloads are invisible in the book and the queue.           *)
(***************************************************************************)
THEOREM PaymentsImplemented ==
  ASSUME NEW Most, NEW Size, CoinsFit(Most, Size)
  PROVE  Spec => ImplementsPayments
<1>1. Init => P!PInit
  BY InitBooks DEF Init, P!PInit
<1>2. ChainInv /\ QueueInv(Most, Size) /\ QueueInv(Most, Size)' /\ [Next]_vars =>
         [P!PNext]_<<Book, pool>>
  <2> SUFFICES ASSUME ChainInv, QueueInv(Most, Size), QueueInv(Most, Size)', [Next]_vars
               PROVE  [P!PNext]_<<Book, pool>>
    OBVIOUS
  <2>1. BookPays /\ CandidateIsBody /\ PoolNeverStale /\ PoolNeverStale'
    BY DEF QueueInv
  <2>2. clock \in Nat
    BY StateFacts
  <2>3. ASSUME NEW from \in Accounts, NEW to \in Accounts, NEW amount \in Amounts,
               AddTransaction(from, to, amount)
        PROVE  P!Accept
    BY <2>1, <2>2, <2>3, TransferType, AddAccepts DEF AddTransaction
  <2>4. ASSUME NEW to \in Accounts, NEW amount \in Amounts, Faucet(to, amount)
        PROVE  P!Accept
    <3>1. amount \in Int64
      BY ChainAssumption
    <3> QED
      BY <2>1, <2>2, <2>4, <3>1, CoinbaseType, AddAccepts DEF Faucet
  <2>5. CASE MineEnd
    BY <2>1, <2>5, MineEndSettles DEF P!PNext
  <2>6. CASE \/ MineBegin \/ MineAbort \/ Reload \/ ReloadRefused
             \/ Tick \/ StepBack \/ UNCHANGED vars
    <3>1. blocks' = blocks /\ pool' = pool
      BY <2>1, <2>6, ReloadSame
         DEF MineBegin, MineAbort, ReloadRefused, Tick, StepBack, vars, chainVars
    <3> QED
      BY <3>1 DEF Book
  <2> QED
    BY <2>3, <2>4, <2>5, <2>6 DEF Next, P!PNext
<1> QED
  BY <1>1, <1>2, Invariance, QueueInvariance, PTL
     DEF Spec, ImplementsPayments, P!PSpec
=============================================================================
