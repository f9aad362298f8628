---------------------------- MODULE ReplayProofs ----------------------------
(***************************************************************************)
(* Lemmas about the accounting rules of module Ledger, about replaying and *)
(* validating a chain of blocks with them, and about the Merkle trees of   *)
(* module Block.                                                           *)
(***************************************************************************)
EXTENDS Validation, Induction, SequenceTheorems

-----------------------------------------------------------------------------
(* Transactions.                                                           *)

(***************************************************************************)
(* Balances before the range check: what Apply works on.                   *)
(***************************************************************************)
RawState == [Accounts -> Int]

LEMMA StateIsRaw == State \subseteq RawState
BY DEF State, RawState

LEMMA NewStateType == NewState \in State
BY LedgerAssumption DEF NewState, State

(***************************************************************************)
(* Lists of what need not be transactions, but has amounts: an edited      *)
(* amount may be out of range.                                             *)
(***************************************************************************)
HasAmounts(txs) ==
    Len(txs) \in Nat /\ \A i \in 1..Len(txs) : txs[i].amount \in Int

LEMMA TransactionsHaveAmounts ==
  ASSUME NEW txs \in Seq(Transaction)
  PROVE  HasAmounts(txs)
<1>1. Len(txs) \in Nat /\ \A i \in 1..Len(txs) : txs[i] \in Transaction
  OBVIOUS
<1> QED
  BY <1>1, LedgerAssumption DEF HasAmounts, Transaction, Int64

LEMMA ApplyAmount ==
  ASSUME NEW bal \in RawState, NEW tx, tx.amount \in Int
  PROVE  Apply(bal, tx) \in RawState
BY DEF RawState, Apply

LEMMA ApplyType ==
  ASSUME NEW bal \in RawState, NEW tx \in Transaction
  PROVE  Apply(bal, tx) \in RawState
BY DEF RawState, Apply, Transaction, Int64

(***************************************************************************)
(* The recursion that Run is defined by does define it.                    *)
(***************************************************************************)
LEMMA RunSteps ==
  ASSUME NEW bal \in RawState, NEW txs, HasAmounts(txs)
  PROVE  /\ Run(bal, txs) \in [0..Len(txs) -> RawState]
         /\ Run(bal, txs)[0] = bal
         /\ \A i \in 1..Len(txs) :
               Run(bal, txs)[i] = Apply(Run(bal, txs)[i - 1], txs[i])
<1> DEFINE n == Len(txs)
           step == [p \in RawState \X (1..n) |-> Apply(p[1], txs[p[2]])]
           Is(f) == f = [i \in 0..n |->
                           IF i = 0 THEN bal ELSE Apply(f[i - 1], txs[i])]
<1>1. n \in Nat /\ \A i \in 1..n : txs[i].amount \in Int
  BY DEF HasAmounts
<1>2. step \in [RawState \X (1..n) -> RawState]
  BY <1>1, ApplyAmount
<1>3. PICK f : Iteration(f, n, RawState, bal, step)
  <2>1. n \in Nat
    BY <1>1
  <2> HIDE DEF step, n
  <2> QED
    BY <2>1, <1>2, Iterates
<1>4. ASSUME NEW i \in 1..n
      PROVE  step[<<f[i - 1], i>>] = Apply(f[i - 1], txs[i])
  <2>1. <<f[i - 1], i>> \in RawState \X (1..n)
    BY <1>1, <1>3 DEF Iteration
  <2> QED
    BY <2>1
<1>5. Is(f)
  <2>1. /\ f \in [0..n -> RawState]
        /\ \A i \in 0..n : f[i] = IF i = 0 THEN bal ELSE step[<<f[i - 1], i>>]
    <3> HIDE DEF step, n
    <3> QED
      BY <1>3 DEF Iteration
  <2>2. \A i \in 0..n : i = 0 \/ i \in 1..n
    BY <1>1
  <2> HIDE DEF step, n
  <2> QED
    BY <1>4, <2>1, <2>2
<1>6. Run(bal, txs) = CHOOSE g : Is(g)
  BY DEF Run
<1>7. Is(Run(bal, txs))
  <2> HIDE DEF Is
  <2> QED
    BY <1>5, <1>6
<1> DEFINE r == Run(bal, txs)
<1>8. DOMAIN r = 0..n /\ r[0] = bal /\ \A i \in 1..n : r[i] = Apply(r[i - 1], txs[i])
  <2> HIDE DEF r
  <2>1. r = [i \in 0..n |-> IF i = 0 THEN bal ELSE Apply(r[i - 1], txs[i])]
    BY <1>7 DEF r
  <2> QED
    BY <1>1, <2>1
<1> DEFINE Typed == {i \in 0..n : r[i] \in RawState}
<1>9. \A i \in 0..n : i \in Typed
  <2> HIDE DEF r
  <2>1. 0 \in Typed
    BY <1>1, <1>8
  <2>2. \A i \in 1..n : i - 1 \in Typed => i \in Typed
    BY <1>1, <1>8, ApplyAmount
  <2> HIDE DEF Typed
  <2> QED
    BY <1>1, <2>1, <2>2, UpTo
<1> HIDE DEF r
<1>10. r = [i \in 0..n |-> r[i]]
  BY <1>7 DEF r
<1>11. r \in [0..n -> RawState]
  BY <1>9, <1>10
<1> QED
  BY <1>8, <1>11 DEF r

LEMMA RunDef ==
  ASSUME NEW bal \in RawState, NEW txs \in Seq(Transaction)
  PROVE  /\ Run(bal, txs) \in [0..Len(txs) -> RawState]
         /\ Run(bal, txs)[0] = bal
         /\ \A i \in 1..Len(txs) :
               Run(bal, txs)[i] = Apply(Run(bal, txs)[i - 1], txs[i])
BY TransactionsHaveAmounts, RunSteps

LEMMA ApplyAllAmounts ==
  ASSUME NEW bal \in RawState, NEW txs, HasAmounts(txs)
  PROVE  ApplyAll(bal, txs) \in RawState
BY RunSteps DEF ApplyAll, HasAmounts

LEMMA ApplyAllType ==
  ASSUME NEW bal \in RawState, NEW txs \in Seq(Transaction)
  PROVE  ApplyAll(bal, txs) \in RawState
BY RunDef DEF ApplyAll

(***************************************************************************)
(* CanApply is exactly what keeps balances within 0..MaxInt64: the debit   *)
(* is covered and the credit does not wrap.                                *)
(***************************************************************************)
LEMMA ApplySafe ==
  ASSUME NEW bal \in State, NEW tx \in Transaction, CanApply(bal, tx)
  PROVE  Apply(bal, tx) \in State
<1> SUFFICES ASSUME NEW a \in Accounts
             PROVE  Apply(bal, tx)[a] \in 0..MaxInt64
  BY DEF State, Apply
<1>1. /\ Apply(bal, tx)[a] = bal[a] - (IF a = tx.from THEN tx.amount ELSE 0)
                                  + (IF a = tx.to THEN tx.amount ELSE 0)
      /\ bal[a] \in 0..MaxInt64 /\ MaxInt64 \in Nat
      /\ tx.amount \in Int /\ tx.amount > 0
  BY LedgerAssumption DEF Apply, State, CanApply, ValidTransaction, Transaction, Int64
<1>2. a = tx.from => bal[a] >= tx.amount
  BY LedgerAssumption DEF CanApply, IsCoinbase
<1>3. a = tx.to => MaxInt64 - bal[a] >= tx.amount
  BY DEF CanApply
<1> QED
  BY <1>1, <1>2, <1>3

(***************************************************************************)
(* A list of transactions that fits is safe after every prefix.            *)
(***************************************************************************)
LEMMA RunSafe ==
  ASSUME NEW bal \in State, NEW txs \in Seq(Transaction), Fits(bal, txs)
  PROVE  \A i \in 0..Len(txs) : Run(bal, txs)[i] \in State
<1> DEFINE n == Len(txs)
           P == {i \in 0..n : Run(bal, txs)[i] \in State}
<1>1. n \in Nat /\ \A i \in 1..n : txs[i] \in Transaction
  OBVIOUS
<1>2. /\ Run(bal, txs)[0] = bal
      /\ \A i \in 1..n : Run(bal, txs)[i] = Apply(Run(bal, txs)[i - 1], txs[i])
  BY StateIsRaw, RunDef
<1>3. 0 \in P
  BY <1>1, <1>2
<1>4. ASSUME NEW i \in 1..n, i - 1 \in P PROVE i \in P
  <2>1. CanApply(Run(bal, txs)[i - 1], txs[i])
    BY DEF Fits
  <2> QED
    BY <1>1, <1>2, <1>4, <2>1, ApplySafe
<1>5. \A i \in 0..n : i \in P
  <2> HIDE DEF P, n
  <2> QED
    BY <1>1, <1>3, <1>4, UpTo
<1> QED
  BY <1>5

LEMMA ApplyAllSafe ==
  ASSUME NEW bal \in State, NEW txs \in Seq(Transaction), Fits(bal, txs)
  PROVE  ApplyAll(bal, txs) \in State
BY RunSafe DEF ApplyAll

(***************************************************************************)
(* Running two lists end to end is running the first and then, from where  *)
(* it ends, the second: why a queue checked as a whole can be mined in     *)
(* pieces.                                                                 *)
(***************************************************************************)
LEMMA RunConcat ==
  ASSUME NEW bal \in RawState,
         NEW s \in Seq(Transaction), NEW t \in Seq(Transaction)
  PROVE  /\ \A i \in 0..Len(s) : Run(bal, s \o t)[i] = Run(bal, s)[i]
         /\ \A i \in 0..Len(t) :
               Run(bal, s \o t)[Len(s) + i] = Run(ApplyAll(bal, s), t)[i]
<1> DEFINE m == Len(s)
           n == Len(t)
           st == s \o t
<1>1. /\ m \in Nat /\ n \in Nat /\ st \in Seq(Transaction) /\ Len(st) = m + n
      /\ \A i \in 1..m : st[i] = s[i]
      /\ \A i \in 1..n : st[m + i] = t[i]
  OBVIOUS
<1> HIDE DEF st
<1> DEFINE whole == Run(bal, st)
           first == Run(bal, s)
           rest  == Run(ApplyAll(bal, s), t)
<1>2. whole[0] = bal /\ \A i \in 1..(m + n) : whole[i] = Apply(whole[i - 1], st[i])
  <2>1. /\ whole[0] = bal
        /\ \A i \in 1..Len(st) : whole[i] = Apply(whole[i - 1], st[i])
    BY <1>1, RunDef
  <2>2. Len(st) = m + n
    BY <1>1
  <2> HIDE DEF whole, m, n
  <2> QED
    BY <2>1, <2>2
<1>3. first[0] = bal /\ \A i \in 1..m : first[i] = Apply(first[i - 1], s[i])
  BY RunDef
<1>4. /\ rest[0] = ApplyAll(bal, s)
      /\ \A i \in 1..n : rest[i] = Apply(rest[i - 1], t[i])
  BY ApplyAllType, RunDef
<1>5. ApplyAll(bal, s) = first[m]
  BY DEF ApplyAll
<1> HIDE DEF whole, first, rest, m, n
<1> DEFINE P == {i \in 0..m : whole[i] = first[i]}
           Q == {i \in 0..n : whole[m + i] = rest[i]}
<1>6. \A i \in 0..m : i \in P
  <2>1. 0 \in P
    BY <1>1, <1>2, <1>3
  <2>2. ASSUME NEW i \in 1..m, i - 1 \in P PROVE i \in P
    <3>1. i \in 1..(m + n) /\ st[i] = s[i] /\ whole[i - 1] = first[i - 1]
      BY <1>1, <2>2
    <3> QED
      BY <1>1, <1>2, <1>3, <3>1
  <2> HIDE DEF P
  <2> QED
    BY <1>1, <2>1, <2>2, UpTo
<1>7. \A i \in 0..n : i \in Q
  <2>1. 0 \in Q
    BY <1>1, <1>4, <1>5, <1>6
  <2>2. ASSUME NEW i \in 1..n, i - 1 \in Q PROVE i \in Q
    <3>1. /\ m + i \in 1..(m + n) /\ st[m + i] = t[i]
          /\ (m + i) - 1 = m + (i - 1) /\ whole[m + (i - 1)] = rest[i - 1]
      BY <1>1, <2>2
    <3> QED
      BY <1>1, <1>2, <1>4, <3>1
  <2> HIDE DEF Q
  <2> QED
    BY <1>1, <2>1, <2>2, UpTo
<1> QED
  BY <1>6, <1>7 DEF whole, first, rest, m, n, st

(***************************************************************************)
(* ApplyAll and its success, over two lists end to end.                    *)
(***************************************************************************)
LEMMA ApplyAllConcat ==
  ASSUME NEW bal \in RawState,
         NEW s \in Seq(Transaction), NEW t \in Seq(Transaction)
  PROVE  ApplyAll(bal, s \o t) = ApplyAll(ApplyAll(bal, s), t)
<1>1. Len(t) \in 0..Len(t) /\ Len(s \o t) = Len(s) + Len(t)
  OBVIOUS
<1> QED
  BY <1>1, RunConcat DEF ApplyAll

LEMMA FitsConcat ==
  ASSUME NEW bal \in RawState,
         NEW s \in Seq(Transaction), NEW t \in Seq(Transaction)
  PROVE  Fits(bal, s \o t) <=> Fits(bal, s) /\ Fits(ApplyAll(bal, s), t)
<1> DEFINE m == Len(s)
           n == Len(t)
           Step(i) == CanApply(Run(bal, s \o t)[i - 1], (s \o t)[i])
<1>1. m \in Nat /\ n \in Nat /\ Len(s \o t) = m + n
  OBVIOUS
<1>2. ASSUME NEW i \in 1..m
      PROVE  Step(i) <=> CanApply(Run(bal, s)[i - 1], s[i])
  <2>1. i - 1 \in 0..m /\ (s \o t)[i] = s[i]
    BY <1>1
  <2> QED
    BY <2>1, RunConcat
<1>3. ASSUME NEW i \in 1..n
      PROVE  Step(m + i) <=> CanApply(Run(ApplyAll(bal, s), t)[i - 1], t[i])
  <2>1. i - 1 \in 0..n /\ (m + i) - 1 = m + (i - 1) /\ (s \o t)[m + i] = t[i]
    BY <1>1
  <2>2. Run(bal, s \o t)[(m + i) - 1] = Run(ApplyAll(bal, s), t)[i - 1]
    BY <2>1, RunConcat
  <2> QED
    BY <2>1, <2>2
<1>4. Fits(bal, s \o t) <=> \A i \in 1..(m + n) : Step(i)
  BY <1>1 DEF Fits
<1> HIDE DEF Step, m, n
<1>5. (\A i \in 1..(m + n) : Step(i))
         <=> (\A i \in 1..m : Step(i)) /\ (\A i \in 1..n : Step(m + i))
  <2>1. ASSUME NEW i \in 1..(m + n), i \notin 1..m
        PROVE  i - m \in 1..n /\ m + (i - m) = i
    BY <1>1, <2>1
  <2>2. \A i \in 1..m : i \in 1..(m + n)
    BY <1>1
  <2>3. \A i \in 1..n : m + i \in 1..(m + n)
    BY <1>1
  <2> QED
    BY <2>1, <2>2, <2>3
<1> QED
  BY <1>2, <1>3, <1>4, <1>5 DEF Fits, m, n

(***************************************************************************)
(* The recursion that Readmit is defined by: Load's loop over the saved    *)
(* pool keeps a list of transactions at every step.                        *)
(***************************************************************************)
ReadmitStep(queue, bal, kept, i) ==
    IF CanAdd(kept, queue[i], bal) THEN Append(kept, queue[i]) ELSE kept

IsReadmit(f, queue, bal) ==
    /\ f \in [0..Len(queue) -> Seq(Transaction)]
    /\ f[0] = << >>
    /\ \A i \in 1..Len(queue) : f[i] = ReadmitStep(queue, bal, f[i - 1], i)

LEMMA ReadmitDef ==
  ASSUME NEW bal, NEW queue \in Seq(Transaction)
  PROVE  \E f : /\ IsReadmit(f, queue, bal)
               /\ Readmit(queue, bal) = f[Len(queue)]
<1> DEFINE n == Len(queue)
           S == Seq(Transaction)
           step == [p \in S \X (1..n) |-> ReadmitStep(queue, bal, p[1], p[2])]
           Is(f) == f = [i \in 0..n |->
                           IF i = 0 THEN << >>
                           ELSE ReadmitStep(queue, bal, f[i - 1], i)]
<1>1. n \in Nat /\ << >> \in S /\ \A i \in 1..n : queue[i] \in Transaction
  OBVIOUS
<1>2. \A kept \in S, i \in 1..n : ReadmitStep(queue, bal, kept, i) \in S
  BY <1>1, AppendProperties DEF ReadmitStep
<1>3. step \in [S \X (1..n) -> S]
  <2> HIDE DEF S, n
  <2> QED
    BY <1>2
<1>4. PICK f : Iteration(f, n, S, << >>, step)
  <2>1. n \in Nat /\ << >> \in S
    BY <1>1
  <2> HIDE DEF step, n, S
  <2> QED
    BY <2>1, <1>3, Iterates
<1>5. /\ f \in [0..n -> S]
      /\ \A i \in 0..n : f[i] = IF i = 0 THEN << >> ELSE step[<<f[i - 1], i>>]
  <2> HIDE DEF step, n, S, Is
  <2> QED
    BY <1>4 DEF Iteration
<1> HIDE DEF S
<1>6. \A i \in 1..n : f[i] = ReadmitStep(queue, bal, f[i - 1], i)
  <2> TAKE i \in 1..n
  <2>1. i \in 0..n /\ i # 0 /\ i - 1 \in 0..n
    BY <1>1
  <2>2. <<f[i - 1], i>> \in S \X (1..n)
    BY <1>5, <2>1
  <2>3. step[<<f[i - 1], i>>] = ReadmitStep(queue, bal, f[i - 1], i)
    BY <2>2
  <2> QED
    BY <1>5, <2>1, <2>3
<1>7. f[0] = << >>
  BY <1>1, <1>5
<1>8. Is(f)
  <2> SUFFICES ASSUME NEW i \in 0..n
               PROVE  f[i] = IF i = 0 THEN << >>
                             ELSE ReadmitStep(queue, bal, f[i - 1], i)
    BY <1>5
  <2>1. i # 0 => i \in 1..n
    BY <1>1
  <2> QED
    BY <1>6, <1>7, <2>1
<1> DEFINE r == CHOOSE g : Is(g)
<1>9. Readmit(queue, bal) = r[n]
  BY Zenon DEF Readmit, ReadmitStep
<1>10. Is(r)
  <2> HIDE DEF Is
  <2> QED
    BY <1>8
<1> HIDE DEF r
<1>11. r[0] = << >> /\ \A i \in 1..n : r[i] = ReadmitStep(queue, bal, r[i - 1], i)
  BY <1>1, <1>10
<1> DEFINE Typed == {i \in 0..n : r[i] \in S}
<1>12. \A i \in 0..n : i \in Typed
  <2>1. 0 \in Typed
    BY <1>1, <1>11
  <2>2. \A i \in 1..n : i - 1 \in Typed => i \in Typed
    BY <1>1, <1>2, <1>11
  <2> HIDE DEF Typed
  <2> QED
    BY <1>1, <2>1, <2>2, UpTo
<1>13. r = [i \in 0..n |-> r[i]]
  BY <1>10
<1>14. IsReadmit(r, queue, bal)
  BY <1>11, <1>12, <1>13 DEF IsReadmit, S
<1> QED
  BY <1>9, <1>14

LEMMA ReadmitType ==
  ASSUME NEW bal, NEW queue \in Seq(Transaction)
  PROVE  Readmit(queue, bal) \in Seq(Transaction)
<1>1. PICK f : /\ IsReadmit(f, queue, bal)
               /\ Readmit(queue, bal) = f[Len(queue)]
  BY ReadmitDef
<1>2. Len(queue) \in 0..Len(queue)
  OBVIOUS
<1> QED
  BY <1>1, <1>2 DEF IsReadmit

-----------------------------------------------------------------------------
(* Blocks.  B is any set of blocks whose bodies are lists of transactions. *)

(***************************************************************************)
(* The recursion that ReplaySteps is defined by does define it.            *)
(***************************************************************************)
BodiesHaveAmounts(bs) ==
    Len(bs) \in Nat /\ \A i \in 1..Len(bs) : HasAmounts(bs[i].transactions)

LEMMA ReplayRuns ==
  ASSUME NEW bs, BodiesHaveAmounts(bs)
  PROVE  /\ ReplaySteps(bs) \in [0..Len(bs) -> RawState]
         /\ ReplaySteps(bs)[0] = NewState
         /\ \A i \in 1..Len(bs) :
               ReplaySteps(bs)[i] =
                  ApplyAll(ReplaySteps(bs)[i - 1], bs[i].transactions)
<1> DEFINE n == Len(bs)
           step == [p \in RawState \X (1..n) |->
                       ApplyAll(p[1], bs[p[2]].transactions)]
           Is(f) == f = [i \in 0..n |->
                           IF i = 0 THEN NewState
                           ELSE ApplyAll(f[i - 1], bs[i].transactions)]
<1>1. n \in Nat /\ \A i \in 1..n : HasAmounts(bs[i].transactions)
  BY DEF BodiesHaveAmounts
<1>2. step \in [RawState \X (1..n) -> RawState]
  BY <1>1, ApplyAllAmounts
<1>3. NewState \in RawState
  BY NewStateType, StateIsRaw
<1>4. PICK f : Iteration(f, n, RawState, NewState, step)
  <2>1. n \in Nat
    BY <1>1
  <2> HIDE DEF step, n
  <2> QED
    BY <2>1, <1>2, <1>3, Iterates
<1>5. /\ f \in [0..n -> RawState]
      /\ \A i \in 0..n : f[i] = IF i = 0 THEN NewState ELSE step[<<f[i - 1], i>>]
  <2> HIDE DEF step, n, Is
  <2> QED
    BY <1>4 DEF Iteration
<1>6. Is(f)
  <2> SUFFICES ASSUME NEW i \in 0..n
               PROVE  f[i] = IF i = 0 THEN NewState
                             ELSE ApplyAll(f[i - 1], bs[i].transactions)
    BY <1>5
  <2>1. CASE i = 0
    BY <1>5, <2>1
  <2>2. CASE i # 0
    <3>1. i \in 1..n /\ i - 1 \in 0..n
      BY <1>1, <2>2
    <3>2. <<f[i - 1], i>> \in RawState \X (1..n)
      BY <1>5, <3>1
    <3>3. step[<<f[i - 1], i>>] = ApplyAll(f[i - 1], bs[i].transactions)
      BY <3>2
    <3> QED
      BY <1>5, <2>2, <3>3
  <2> QED
    BY <2>1, <2>2
<1>7. ReplaySteps(bs) = CHOOSE g : Is(g)
  BY DEF ReplaySteps
<1> DEFINE r == ReplaySteps(bs)
<1>8. Is(r)
  <2> HIDE DEF Is
  <2> QED
    BY <1>6, <1>7
<1> HIDE DEF r
<1>9. r = [i \in 0..n |-> r[i]]
  BY <1>8
<1>10. /\ r[0] = NewState
       /\ \A i \in 1..n : r[i] = ApplyAll(r[i - 1], bs[i].transactions)
  BY <1>1, <1>8
<1> DEFINE Typed == {i \in 0..n : r[i] \in RawState}
<1>11. \A i \in 0..n : i \in Typed
  <2>1. 0 \in Typed
    BY <1>1, <1>3, <1>10
  <2>2. \A i \in 1..n : i - 1 \in Typed => i \in Typed
    BY <1>1, <1>10, ApplyAllAmounts
  <2> HIDE DEF Typed
  <2> QED
    BY <1>1, <2>1, <2>2, UpTo
<1> QED
  BY <1>9, <1>10, <1>11 DEF r

LEMMA ReplayDef ==
  ASSUME NEW B, \A b \in B : b.transactions \in Seq(Transaction),
         NEW bs \in Seq(B)
  PROVE  /\ ReplaySteps(bs) \in [0..Len(bs) -> RawState]
         /\ ReplaySteps(bs)[0] = NewState
         /\ \A i \in 1..Len(bs) :
               ReplaySteps(bs)[i] =
                  ApplyAll(ReplaySteps(bs)[i - 1], bs[i].transactions)
<1>1. Len(bs) \in Nat /\ \A i \in 1..Len(bs) : bs[i].transactions \in Seq(Transaction)
  OBVIOUS
<1> QED
  BY <1>1, TransactionsHaveAmounts, ReplayRuns DEF BodiesHaveAmounts

(***************************************************************************)
(* Appending a block leaves the earlier replay alone and applies the       *)
(* block's body to its end: a cached balance updated block by block is the *)
(* replayed one.                                                           *)
(***************************************************************************)
LEMMA ReplayAppend ==
  ASSUME NEW B, \A b \in B : b.transactions \in Seq(Transaction),
         NEW bs \in Seq(B), NEW b \in B
  PROVE  /\ \A i \in 0..Len(bs) :
               ReplaySteps(Append(bs, b))[i] = ReplaySteps(bs)[i]
         /\ Replay(Append(bs, b)) = ApplyAll(Replay(bs), b.transactions)
<1> DEFINE n == Len(bs)
           long == Append(bs, b)
           after == ReplaySteps(long)
           before == ReplaySteps(bs)
           P == {i \in 0..n : after[i] = before[i]}
<1>1. /\ n \in Nat /\ long \in Seq(B) /\ Len(long) = n + 1
      /\ long[n + 1] = b /\ \A i \in 1..n : long[i] = bs[i]
  OBVIOUS
<1>2. /\ after[0] = NewState
      /\ \A i \in 1..(n + 1) :
            after[i] = ApplyAll(after[i - 1], long[i].transactions)
  <2>1. long \in Seq(B) /\ Len(long) = n + 1
    BY <1>1
  <2> HIDE DEF long, n
  <2> QED
    BY <2>1, ReplayDef
<1>3. /\ before[0] = NewState
      /\ \A i \in 1..n :
            before[i] = ApplyAll(before[i - 1], bs[i].transactions)
  BY ReplayDef
<1>4. Replay(long) = after[n + 1] /\ Replay(bs) = before[n]
  BY <1>1 DEF Replay
<1> HIDE DEF long, after, before, n
<1>5. \A i \in 0..n : i \in P
  <2>1. 0 \in P
    BY <1>1, <1>2, <1>3
  <2>2. ASSUME NEW i \in 1..n, i - 1 \in P PROVE i \in P
    <3>1. i \in 1..(n + 1) /\ long[i] = bs[i] /\ after[i - 1] = before[i - 1]
      BY <1>1, <2>2
    <3> QED
      BY <1>1, <1>2, <1>3, <3>1
  <2> HIDE DEF P
  <2> QED
    BY <1>1, <2>1, <2>2, UpTo
<1>6. after[n + 1] = ApplyAll(before[n], b.transactions)
  <2>1. n + 1 \in 1..(n + 1) /\ (n + 1) - 1 = n /\ after[n] = before[n]
    BY <1>1, <1>5
  <2> QED
    BY <1>1, <1>2, <2>1
<1> QED
  BY <1>4, <1>5, <1>6 DEF long, after, before, n

(***************************************************************************)
(* A valid chain stays valid when a block is appended that is valid on its *)
(* own, follows the tip and can be paid from the balances at the tip.      *)
(***************************************************************************)
Extends(bs, b) ==
    LET tip == bs[Len(bs)]
    IN  /\ b.height = tip.height + 1
        /\ b.timestamp >= tip.timestamp
        /\ b.prevHash = tip.hash
        /\ HasValidMerkleRoot(b)
        /\ HasValidHash(b)
        /\ MeetsDifficulty(b.hash, b.difficulty)
        /\ Fits(Replay(bs), b.transactions)

LEMMA ValidAppend ==
  ASSUME NEW B, \A b \in B : b.transactions \in Seq(Transaction),
         NEW bs \in Seq(B), NEW b \in B,
         Valid(bs), Extends(bs, b)
  PROVE  Valid(Append(bs, b))
<1> DEFINE n == Len(bs)
           long == Append(bs, b)
<1>1. /\ n \in Nat /\ n > 0 /\ long # << >> /\ Len(long) = n + 1
      /\ long[n + 1] = b /\ \A i \in 1..n : long[i] = bs[i]
  BY DEF Valid, GenesisOK
<1>2. \A i \in 0..n : ReplaySteps(long)[i] = ReplaySteps(bs)[i]
  BY ReplayAppend
<1>3. GenesisOK(long)
  BY <1>1 DEF Valid, GenesisOK
<1> DEFINE AllHold(c, i) ==
              LET r == Rules(c, i)
              IN  /\ r.height /\ r.timestamp /\ r.link
                  /\ r.merkle /\ r.hash /\ r.difficulty /\ r.ledger
<1> HIDE DEF long
<1>4. ASSUME NEW i \in 1..n PROVE AllHold(long, i)
  <2>1. AllHold(bs, i)
    BY DEF Valid
  <2>2. /\ long[i] = bs[i]
        /\ i > 1 => long[i - 1] = bs[i - 1]
        /\ ReplaySteps(long)[i - 1] = ReplaySteps(bs)[i - 1]
    BY <1>1, <1>2
  <2> QED
    BY <2>1, <2>2 DEF Rules
<1>5. AllHold(long, n + 1)
  <2>1. /\ long[n + 1] = b /\ long[(n + 1) - 1] = bs[n]
        /\ ReplaySteps(long)[(n + 1) - 1] = Replay(bs)
    BY <1>1, <1>2 DEF Replay
  <2> QED
    BY <2>1 DEF Rules, Extends
<1>6. \A i \in 1..(n + 1) : AllHold(long, i)
  <2> HIDE DEF AllHold
  <2> QED
    BY <1>1, <1>4, <1>5
<1>7. Len(long) = n + 1
  BY <1>1
<1> QED
  BY <1>3, <1>6, <1>7 DEF Valid, long

-----------------------------------------------------------------------------
(* The sum of the balances.                                                *)

(***************************************************************************)
(* The recursion that Total is defined by does define a sum.               *)
(***************************************************************************)
SumStep(bal, f, S) == IF S = {} THEN 0 ELSE bal[OneOf(S)] + f[S \ {OneOf(S)}]

IsSum(f, bal) ==
    /\ f \in [SUBSET Accounts -> Int]
    /\ \A S \in SUBSET Accounts : f[S] = SumStep(bal, f, S)

LEMMA SumExists ==
  ASSUME IsFiniteSet(Accounts), NEW bal \in RawState
  PROVE  \E f : IsSum(f, bal)
<1> DEFINE n == Cardinality(Accounts)
           Small(i) == {S \in SUBSET Accounts : Cardinality(S) <= i}
           Sums(f, i) == /\ f \in [Small(i) -> Int]
                         /\ \A S \in Small(i) : f[S] = SumStep(bal, f, S)
           Good == {i \in 0..n : \E f : Sums(f, i)}
<1>1. /\ n \in Nat
      /\ \A S \in SUBSET Accounts : Cardinality(S) \in 0..n
  <2>1. n \in Nat
    BY FS_CardinalityType
  <2>2. ASSUME NEW S \in SUBSET Accounts PROVE Cardinality(S) \in 0..n
    <3>1. Cardinality(S) \in Nat /\ Cardinality(S) <= n
      BY TakeOneAway
    <3> HIDE DEF n
    <3> QED
      BY <2>1, <3>1
  <2> QED
    BY <2>1, <2>2
<1> HIDE DEF n
<1>2. 0 \in Good
  <2>1. \A S \in Small(0) : S = {}
    <3>1. \A S \in SUBSET Accounts : Cardinality(S) = 0 => S = {}
      BY TakeOneAway
    <3> QED
      BY <1>1, <3>1
  <2> DEFINE f == [S \in Small(0) |-> 0]
  <2>2. f \in [Small(0) -> Int]
    OBVIOUS
  <2>3. \A S \in Small(0) : f[S] = SumStep(bal, f, S)
    <3> HIDE DEF Small
    <3> QED
      BY <2>1 DEF SumStep
  <2>4. Sums(f, 0)
    BY <2>2, <2>3
  <2> HIDE DEF Sums
  <2> QED
    BY <1>1, <2>4
<1>3. ASSUME NEW i \in 1..n, i - 1 \in Good PROVE i \in Good
  <2>1. PICK f : Sums(f, i - 1)
    BY <1>3
  <2> DEFINE g == [S \in Small(i) |-> SumStep(bal, f, S)]
  <2>2. ASSUME NEW S \in Small(i), S # {}
        PROVE  /\ OneOf(S) \in Accounts
               /\ S \ {OneOf(S)} \in Small(i - 1) /\ S \ {OneOf(S)} \in Small(i)
    <3>1. OneOf(S) \in S /\ Cardinality(S \ {OneOf(S)}) = Cardinality(S) - 1
      BY <2>2, TakeOneAway
    <3> QED
      BY <1>1, <3>1
  <2>3. \A S \in Small(i) : SumStep(bal, f, S) \in Int
    BY <2>1, <2>2 DEF SumStep, RawState
  <2>4. ASSUME NEW S \in Small(i) PROVE g[S] = SumStep(bal, g, S)
    <3>1. CASE S = {}
      BY <3>1 DEF SumStep
    <3>2. CASE S # {}
      <4> DEFINE T == S \ {OneOf(S)}
      <4>1. f[T] = SumStep(bal, f, T) /\ g[T] = SumStep(bal, f, T)
        BY <2>1, <2>2, <3>2
      <4>2. g[S] = bal[OneOf(S)] + f[T]
        BY <3>2 DEF SumStep
      <4> QED
        BY <3>2, <4>1, <4>2 DEF SumStep
    <3> QED
      BY <3>1, <3>2
  <2>5. Sums(g, i)
    BY <2>3, <2>4
  <2> HIDE DEF Sums, g
  <2> QED
    BY <1>1, <2>5
<1>4. \A i \in 0..n : i \in Good
  <2> HIDE DEF Good
  <2> QED
    BY <1>1, <1>2, <1>3, UpTo
<1>5. PICK f : Sums(f, n)
  <2> HIDE DEF Sums
  <2> QED
    BY <1>1, <1>4
<1>6. Small(n) = SUBSET Accounts
  BY <1>1
<1> QED
  BY <1>5, <1>6 DEF IsSum

LEMMA TotalDef ==
  ASSUME IsFiniteSet(Accounts), NEW bal \in RawState
  PROVE  \E f : IsSum(f, bal) /\ Total(bal) = f[Accounts]
<1> DEFINE Is(f) == f = [S \in SUBSET Accounts |-> SumStep(bal, f, S)]
           r == CHOOSE f : Is(f)
<1>1. PICK f : IsSum(f, bal)
  BY SumExists
<1>2. Is(f)
  BY <1>1 DEF IsSum
<1>3. Total(bal) = r[Accounts]
  BY Zenon DEF Total, SumStep, OneOf
<1>4. Is(r)
  <2> HIDE DEF Is
  <2> QED
    BY <1>2
<1> HIDE DEF r
<1>5. \A S \in SUBSET Accounts : r[S] = SumStep(bal, r, S)
  BY <1>4
<1> DEFINE Whole == {S \in SUBSET Accounts : r[S] \in Int}
<1>6. \A S \in SUBSET Accounts : S \in Whole
  <2>1. {} \in Whole
    BY <1>5 DEF SumStep
  <2>2. ASSUME NEW S \in SUBSET Accounts, S # {}, S \ {OneOf(S)} \in Whole
        PROVE  S \in Whole
    <3>1. OneOf(S) \in Accounts
      BY <2>2, TakeOneAway
    <3>2. bal[OneOf(S)] \in Int /\ r[S \ {OneOf(S)}] \in Int
      BY <2>2, <3>1 DEF RawState
    <3>3. r[S] = bal[OneOf(S)] + r[S \ {OneOf(S)}]
      BY <1>5, <2>2 DEF SumStep
    <3> QED
      BY <3>2, <3>3
  <2> HIDE DEF Whole
  <2> QED
    BY <2>1, <2>2, SubsetInduction
<1>7. r = [S \in SUBSET Accounts |-> r[S]]
  BY <1>4
<1>8. IsSum(r, bal)
  BY <1>5, <1>6, <1>7 DEF IsSum
<1> QED
  BY <1>3, <1>8

(***************************************************************************)
(* A payment moves coins, a coinbase transaction makes them.               *)
(***************************************************************************)
LEMMA TotalApply ==
  ASSUME IsFiniteSet(Accounts), NEW bal \in RawState, NEW tx \in Transaction
  PROVE  Total(Apply(bal, tx)) =
            Total(bal) + (IF IsCoinbase(tx) THEN tx.amount ELSE 0)
<1> DEFINE after == Apply(bal, tx)
           out(S) == IF tx.from \in S THEN tx.amount ELSE 0
           in(S)  == IF tx.to \in S THEN tx.amount ELSE 0
<1>1. tx.amount \in Int /\ tx.to \in Accounts /\ after \in RawState
  BY ApplyType, LedgerAssumption DEF Transaction, Int64
<1>2. PICK f : IsSum(f, bal) /\ Total(bal) = f[Accounts]
  BY TotalDef
<1>3. PICK g : IsSum(g, after) /\ Total(after) = g[Accounts]
  BY <1>1, TotalDef
<1> DEFINE Good == {S \in SUBSET Accounts : g[S] = f[S] - out(S) + in(S)}
<1>4. {} \in Good
  <2>1. f[{}] = 0 /\ g[{}] = 0
    <3> HIDE DEF after
    <3> QED
      BY <1>2, <1>3 DEF IsSum, SumStep
  <2> QED
    BY <2>1
<1>5. ASSUME NEW S \in SUBSET Accounts, S # {}, S \ {OneOf(S)} \in Good
      PROVE  S \in Good
  <2> DEFINE a == OneOf(S)
             T == S \ {a}
             outA == IF a = tx.from THEN tx.amount ELSE 0
             inA  == IF a = tx.to THEN tx.amount ELSE 0
  <2>1. a \in S
    BY <1>5, TakeOneAway
  <2>2. f[S] = bal[a] + f[T] /\ g[S] = after[a] + g[T]
    BY <1>2, <1>3, <1>5 DEF IsSum, SumStep
  <2>3. after[a] = bal[a] - outA + inA
    BY <2>1 DEF Apply
  <2>4. g[T] = f[T] - out(T) + in(T)
    BY <1>5
  <2>5. /\ out(S) = outA + out(T) /\ in(S) = inA + in(T)
        /\ outA \in Int /\ inA \in Int /\ out(T) \in Int /\ in(T) \in Int
    <3> HIDE DEF a
    <3> QED
      BY <1>1, <2>1
  <2>6. f[T] \in Int /\ bal[a] \in Int /\ g[T] \in Int
    BY <1>2, <1>3, <2>1 DEF IsSum, RawState
  <2> HIDE DEF a, T, outA, inA, out, in, after
  <2>7. g[S] = f[S] - out(S) + in(S)
    BY <2>2, <2>3, <2>4, <2>5, <2>6, SMTT(60)
  <2> QED
    BY <2>7
<1>6. Accounts \in Good
  <2> HIDE DEF Good
  <2>1. \A S \in SUBSET Accounts : S \in Good
    BY <1>4, <1>5, SubsetInduction
  <2> QED
    BY <2>1
<1>7. f[Accounts] \in Int
  BY <1>2 DEF IsSum
<1>8. tx.from \in Accounts <=> ~IsCoinbase(tx)
  BY LedgerAssumption DEF Transaction, IsCoinbase
<1>9. g[Accounts] = f[Accounts] - out(Accounts) + in(Accounts)
  BY <1>6
<1> HIDE DEF after
<1>10. Total(after) = Total(bal) + (IF IsCoinbase(tx) THEN tx.amount ELSE 0)
  BY <1>1, <1>2, <1>3, <1>7, <1>8, <1>9
<1> QED
  BY <1>10 DEF after

(***************************************************************************)
(* There are no coins at first.                                            *)
(***************************************************************************)
LEMMA TotalNew ==
  ASSUME IsFiniteSet(Accounts)
  PROVE  Total(NewState) = 0
<1>1. NewState \in RawState
  BY NewStateType, StateIsRaw
<1>2. PICK f : IsSum(f, NewState) /\ Total(NewState) = f[Accounts]
  BY <1>1, TotalDef
<1> DEFINE Good == {S \in SUBSET Accounts : f[S] = 0}
<1>3. {} \in Good
  BY <1>2 DEF IsSum, SumStep
<1>4. ASSUME NEW S \in SUBSET Accounts, S # {}, S \ {OneOf(S)} \in Good
      PROVE  S \in Good
  <2>1. OneOf(S) \in Accounts
    BY <1>4, TakeOneAway
  <2>2. NewState[OneOf(S)] = 0
    BY <2>1 DEF NewState
  <2> QED
    BY <1>2, <1>4, <2>2 DEF IsSum, SumStep
<1>5. \A S \in SUBSET Accounts : S \in Good
  <2> HIDE DEF Good
  <2> QED
    BY <1>3, <1>4, SubsetInduction
<1> QED
  BY <1>2, <1>5
-----------------------------------------------------------------------------
(* What a Merkle root says of the transactions (module Block), for bodies of *)
(* any length.                                                               *)

(***************************************************************************)
(* A level of a Merkle tree is a sequence with at least one node.  Half of *)
(* them, rounded up, are above it.                                         *)
(***************************************************************************)
IsLevel(l) == Len(l) \in Nat \ {0} /\ l = [i \in 1..Len(l) |-> l[i]]

Nodes(l) == {l[i] : i \in 1..Len(l)}

HalfUp(n) == (n + 1) \div 2

Leaves(txs) == [i \in 1..Len(txs) |-> TxHash(txs[i])]

(***************************************************************************)
(* f[0], ..., f[d] are the levels of the tree over txs, up to its root.    *)
(***************************************************************************)
IsTree(f, d, txs) ==
    /\ d \in Nat
    /\ f[0] = Leaves(txs)
    /\ \A r \in 1..d : Len(f[r - 1]) > 1 /\ f[r] = NextLevel(f[r - 1])
    /\ Len(f[d]) = 1

LEMMA LengthOfSequence ==
  ASSUME NEW k \in Nat, NEW h, h = [i \in 1..k |-> h[i]]
  PROVE  Len(h) = k
<1> DEFINE S == {h[i] : i \in 1..k}
<1>1. h \in [1..k -> S]
  OBVIOUS
<1>2. h \in Seq(S) /\ DOMAIN h = 1..k
  BY <1>1, SeqDef
<1> HIDE DEF S
<1> QED
  BY <1>2

LEMMA HalfUpFacts ==
  ASSUME NEW n \in Nat \ {0}
  PROVE  /\ HalfUp(n) \in Nat \ {0}
         /\ n > 1 => HalfUp(n) < n
         /\ \A i \in 1..HalfUp(n) :
               2 * i - 1 \in 1..n /\ (2 * i <= n => 2 * i \in 1..n)
         /\ \A i \in 1..n : HalfUp(i) \in 1..HalfUp(n)
                            /\ (2 * HalfUp(i) - 1 = i \/ 2 * HalfUp(i) = i)
BY SMT DEF HalfUp

LEMMA OddHalves ==
  ASSUME NEW n \in Nat \ {0}, n % 2 = 1
  PROVE  /\ HalfUp(n + 1) = HalfUp(n) /\ HalfUp(n) \in Nat \ {0}
         /\ \A i \in 1..HalfUp(n) :
               /\ 2 * i - 1 \in 1..n /\ 2 * i \in 1..(n + 1)
               /\ 2 * i <= n \/ (2 * i - 1 = n /\ 2 * i = n + 1)
BY SMT DEF HalfUp

LEMMA EvenHalves ==
  ASSUME NEW n \in Nat \ {0}, n % 2 # 1
  PROVE  /\ HalfUp(n + 1) = HalfUp(n) + 1 /\ 2 * HalfUp(n) = n
         /\ HalfUp(n) \in Nat /\ HalfUp(n) + 1 \in 1..(HalfUp(n) + 1)
         /\ 2 * (HalfUp(n) + 1) - 1 = n + 1
BY SMT DEF HalfUp

LEMMA NextLevelFacts ==
  ASSUME NEW l, IsLevel(l)
  PROVE  /\ IsLevel(NextLevel(l))
         /\ Len(NextLevel(l)) = HalfUp(Len(l))
         /\ \A i \in 1..HalfUp(Len(l)) :
               NextLevel(l)[i] =
                 PairHash(l[2 * i - 1],
                          l[IF 2 * i <= Len(l) THEN 2 * i ELSE 2 * i - 1])
<1> DEFINE n == Len(l)
           h == NextLevel(l)
           node(i) == PairHash(l[2 * i - 1],
                               l[IF 2 * i <= n THEN 2 * i ELSE 2 * i - 1])
<1>1. n \in Nat \ {0} /\ HalfUp(n) \in Nat \ {0}
  BY HalfUpFacts DEF IsLevel
<1>2. h = [i \in 1..HalfUp(n) |-> node(i)]
  BY DEF NextLevel, HalfUp
<1> HIDE DEF n, h, node
<1>3. \A i \in 1..HalfUp(n) : h[i] = node(i)
  BY <1>2
<1>4. h = [i \in 1..HalfUp(n) |-> h[i]]
  BY <1>2
<1>5. Len(h) = HalfUp(n)
  BY <1>1, <1>4, LengthOfSequence
<1> QED
  BY <1>1, <1>3, <1>4, <1>5 DEF IsLevel, n, h, node

LEMMA LeavesFacts ==
  ASSUME NEW txs, Len(txs) \in Nat \ {0}
  PROVE  /\ IsLevel(Leaves(txs)) /\ Len(Leaves(txs)) = Len(txs)
         /\ \A i \in 1..Len(txs) : Leaves(txs)[i] = TxHash(txs[i])
<1> DEFINE h == Leaves(txs)
           n == Len(txs)
<1>1. h = [i \in 1..n |-> h[i]] /\ \A i \in 1..n : h[i] = TxHash(txs[i])
  BY DEF Leaves
<1> HIDE DEF h
<1>2. Len(h) = n
  BY <1>1, LengthOfSequence
<1> QED
  BY <1>1, <1>2 DEF IsLevel, h

(***************************************************************************)
(* Hashes of pairs, of transactions and of nothing are never the same.     *)
(***************************************************************************)
LEMMA PairHashFacts ==
  ASSUME NEW a, NEW b, NEW c, NEW d, NEW tx
  PROVE  /\ PairHash(a, b) = PairHash(c, d) => a = c /\ b = d
         /\ PairHash(a, b) # TxHash(tx)
         /\ PairHash(a, b) # EmptyMerkleRoot /\ TxHash(tx) # EmptyMerkleRoot
BY DEF PairHash, TxHash, EmptyMerkleRoot, Zeros

LEMMA TxHashDetermines ==
  ASSUME NEW x, NEW y, TxHash(x) = TxHash(y)
  PROVE  /\ x.amount = y.amount
         /\ x \in Transaction /\ y \in Transaction => x = y
<1>1. SigningBytes(x) = SigningBytes(y) /\ x.sig = y.sig
  BY DEF TxHash
<1>2. x.from = y.from /\ x.to = y.to /\ x.amount = y.amount /\ x.timestamp = y.timestamp
  BY <1>1 DEF SigningBytes
<1> QED
  BY <1>1, <1>2 DEF Transaction

-----------------------------------------------------------------------------
(***************************************************************************)
(* The recursion in MerkleRoot defines a function.                         *)
(***************************************************************************)
Above(l) == IF Len(l) > 1 THEN NextLevel(l) ELSE l

Rounds(f, h, m) == f = [r \in 0..m |-> IF r = 0 THEN h ELSE Above(f[r - 1])]

LEMMA LevelsExist ==
  ASSUME NEW n \in Nat, NEW h
  PROVE  \E f : Rounds(f, h, n)
<1> DEFINE P == {m \in 0..n : \E f : Rounds(f, h, m)}
<1>1. 0 \in P
  <2> DEFINE f == [r \in 0..0 |-> h]
  <2>1. f = [r \in 0..0 |-> f[r]] /\ f[0] = h /\ \A r \in 0..0 : r = 0
    OBVIOUS
  <2> HIDE DEF f
  <2>2. \A r \in 0..0 : f[r] = IF r = 0 THEN h ELSE Above(f[r - 1])
    BY <2>1
  <2>3. Rounds(f, h, 0)
    BY <2>1, <2>2 DEF Rounds
  <2> QED
    BY <2>3
<1>2. ASSUME NEW m \in 1..n, m - 1 \in P PROVE m \in P
  <2>0. PICK f : Rounds(f, h, m - 1)
    BY <1>2
  <2>1. f = [r \in 0..(m - 1) |-> IF r = 0 THEN h ELSE Above(f[r - 1])]
    BY <2>0 DEF Rounds
  <2> DEFINE g == [r \in 0..m |-> IF r = m THEN Above(f[m - 1]) ELSE f[r]]
  <2>2. ASSUME NEW r \in 0..m
        PROVE  g[r] = IF r = 0 THEN h ELSE Above(g[r - 1])
    <3>1. CASE r = m
      <4>1. m - 1 \in 0..m /\ m - 1 # m /\ m # 0
        OBVIOUS
      <4>2. g[m - 1] = f[m - 1] /\ g[m] = Above(f[m - 1])
        BY <4>1
      <4> QED
        BY <3>1, <4>1, <4>2
    <3>2. CASE r # m
      <4>1. r \in 0..(m - 1) /\ (r # 0 => r - 1 \in 0..(m - 1) /\ r - 1 # m)
        BY <3>2
      <4>2. g[r] = f[r] /\ (r # 0 => g[r - 1] = f[r - 1])
        BY <3>2, <4>1
      <4> QED
        BY <2>1, <4>1, <4>2
    <3> QED
      BY <3>1, <3>2
  <2>3. g = [r \in 0..m |-> g[r]]
    OBVIOUS
  <2> HIDE DEF g
  <2>4. Rounds(g, h, m)
    BY <2>2, <2>3 DEF Rounds
  <2> QED
    BY <2>4
<1>3. \A m \in 0..n : m \in P
  <2> HIDE DEF P
  <2> QED
    BY <1>1, <1>2, UpTo
<1> QED
  BY <1>3

(***************************************************************************)
(* Every body has a tree, and its root is the Merkle root: Len(txs) rounds *)
(* are enough, as each takes a node away until one is left.                *)
(***************************************************************************)
LEMMA TreeExists ==
  ASSUME NEW txs, Len(txs) \in Nat \ {0}
  PROVE  \E f, d : IsTree(f, d, txs) /\ MerkleRoot(txs) = f[d][1]
<1> DEFINE n == Len(txs)
           h == Leaves(txs)
           level == CHOOSE f : Rounds(f, h, n)
<1>1. MerkleRoot(txs) = level[n][1]
  <2>1. txs # << >>
    BY EmptySeq
  <2>2. MerkleRoot(txs) = IF txs = << >> THEN EmptyMerkleRoot ELSE level[n][1]
    BY ZenonT(60) DEF MerkleRoot, Leaves, Above, Rounds
  <2> HIDE DEF level
  <2> QED
    BY <2>1, <2>2
<1>2. Rounds(level, h, n)
  <2>1. n \in Nat
    OBVIOUS
  <2> HIDE DEF n, h
  <2> QED
    BY <2>1, LevelsExist
<1>3. IsLevel(h) /\ Len(h) = n
  BY LeavesFacts
<1> HIDE DEF level, h
<1>4. level[0] = h /\ \A r \in 1..n : level[r] = Above(level[r - 1])
  BY <1>2 DEF Rounds
<1> DEFINE P == {r \in 0..n : /\ IsLevel(level[r])
                              /\ Len(level[r]) = 1 \/ Len(level[r]) <= n - r}
<1>5. 0 \in P
  BY <1>3, <1>4
<1>6. ASSUME NEW r \in 1..n, r - 1 \in P PROVE r \in P
  <2> DEFINE l == level[r - 1]
             k == Len(l)
  <2>1. IsLevel(l) /\ (k = 1 \/ k <= n - (r - 1)) /\ level[r] = Above(l)
    BY <1>4, <1>6
  <2>2. k \in Nat \ {0}
    BY <2>1 DEF IsLevel
  <2>3. k > 1 => /\ IsLevel(NextLevel(l)) /\ Len(NextLevel(l)) = HalfUp(k)
                 /\ HalfUp(k) \in Nat /\ HalfUp(k) < k
    BY <2>1, <2>2, NextLevelFacts, HalfUpFacts
  <2> HIDE DEF l, k
  <2>4. IsLevel(level[r]) /\ (Len(level[r]) = 1 \/ Len(level[r]) <= n - r)
    <3>1. CASE k > 1
      <4>1. level[r] = NextLevel(l)
        BY <2>1, <3>1 DEF Above, k
      <4> QED
        BY <2>1, <2>2, <2>3, <3>1, <4>1
    <3>2. CASE ~(k > 1)
      <4>1. k = 1
        BY <2>2, <3>2
      <4>2. level[r] = l
        BY <2>1, <3>2 DEF Above, k
      <4> QED
        BY <2>1, <4>1, <4>2 DEF k
    <3> QED
      BY <3>1, <3>2
  <2> QED
    BY <2>4
<1>7. \A r \in 0..n : r \in P
  <2> HIDE DEF P
  <2> QED
    BY <1>5, <1>6, UpTo
<1>8. \A r \in 0..n : IsLevel(level[r])
  BY <1>7
<1>9. Len(level[n]) = 1
  <2>1. n \in 0..n
    OBVIOUS
  <2>2. /\ Len(level[n]) \in Nat \ {0}
        /\ Len(level[n]) = 1 \/ Len(level[n]) <= n - n
    BY <1>7, <2>1 DEF IsLevel
  <2> QED
    BY <2>2
<1> HIDE DEF P
<1> DEFINE T == {r \in 0..n : Len(level[r]) = 1}
<1>10. PICK d \in T : \A r \in T : d <= r
  <2>1. T \subseteq Nat /\ T # {}
    BY <1>9
  <2> HIDE DEF T
  <2> QED
    BY <2>1, LeastNat
<1>11. d \in 0..n /\ Len(level[d]) = 1 /\ \A r \in 1..d : r - 1 \notin T
  BY <1>10
<1>12. \A r \in 1..d : Len(level[r - 1]) > 1 /\ level[r] = NextLevel(level[r - 1])
  <2> SUFFICES ASSUME NEW r \in 1..d
               PROVE  Len(level[r - 1]) > 1 /\ level[r] = NextLevel(level[r - 1])
    OBVIOUS
  <2>1. r \in 1..n /\ r - 1 \in 0..n
    BY <1>11
  <2>2. Len(level[r - 1]) # 1
    BY <1>11, <2>1
  <2>3. Len(level[r - 1]) \in Nat \ {0}
    BY <1>8, <2>1 DEF IsLevel
  <2> QED
    <3> DEFINE k == Len(level[r - 1])
    <3>1. k # 1 /\ k \in Nat \ {0}
      BY <2>2, <2>3
    <3> HIDE DEF k
    <3>2. k > 1
      BY <3>1
    <3>3. Len(level[r - 1]) > 1
      BY <3>2 DEF k
    <3> QED
      BY <1>4, <2>1, <3>3 DEF Above
<1>13. IsTree(level, d, txs)
  BY <1>4, <1>11, <1>12 DEF IsTree, h
<1>14. level[n] = level[d]
  <2> DEFINE Q == {r \in 0..n : r >= d => level[r] = level[d]}
  <2>1. 0 \in Q
    BY <1>11
  <2>2. ASSUME NEW r \in 1..n, r - 1 \in Q PROVE r \in Q
    <3>1. CASE r <= d
      BY <1>11, <3>1
    <3>2. CASE r > d
      <4>1. level[r - 1] = level[d]
        BY <1>11, <2>2, <3>2
      <4>2. level[r] = Above(level[d]) /\ ~(Len(level[d]) > 1)
        BY <1>4, <1>11, <4>1
      <4> QED
        BY <4>2 DEF Above
    <3> QED
      BY <1>11, <3>1, <3>2
  <2>3. \A r \in 0..n : r \in Q
    <3> HIDE DEF Q
    <3> QED
      BY <2>1, <2>2, UpTo
  <2> QED
    BY <1>11, <2>3
<1> QED
  BY <1>1, <1>13, <1>14

-----------------------------------------------------------------------------
(***************************************************************************)
(* Every level of a tree is one, and half as long as the one below.        *)
(***************************************************************************)
LEMMA TreeLevels ==
  ASSUME NEW txs, Len(txs) \in Nat \ {0}, NEW f, NEW d, IsTree(f, d, txs)
  PROVE  /\ \A r \in 0..d : IsLevel(f[r])
         /\ \A r \in 1..d : Len(f[r]) = HalfUp(Len(f[r - 1]))
<1> DEFINE P == {r \in 0..d : IsLevel(f[r])}
<1>1. d \in Nat /\ 0 \in P
  BY LeavesFacts DEF IsTree
<1>2. ASSUME NEW r \in 1..d, r - 1 \in P PROVE r \in P
  <2>1. IsLevel(f[r - 1]) /\ f[r] = NextLevel(f[r - 1])
    BY <1>2 DEF IsTree
  <2>2. IsLevel(f[r])
    BY <2>1, NextLevelFacts
  <2> QED
    BY <2>2
<1>3. \A r \in 0..d : IsLevel(f[r])
  <2>1. \A r \in 0..d : r \in P
    <3> HIDE DEF P
    <3> QED
      BY <1>1, <1>2, UpTo
  <2> QED
    BY <2>1
<1>4. ASSUME NEW r \in 1..d PROVE Len(f[r]) = HalfUp(Len(f[r - 1]))
  <2>1. r - 1 \in 0..d /\ f[r] = NextLevel(f[r - 1])
    BY <1>1 DEF IsTree
  <2> QED
    BY <1>3, <2>1, NextLevelFacts
<1> QED
  BY <1>3, <1>4

(***************************************************************************)
(* Trees over as many transactions have the same shape.                    *)
(***************************************************************************)
LEMMA SameShape ==
  ASSUME NEW a, Len(a) \in Nat \ {0}, NEW f, NEW c, IsTree(f, c, a),
         NEW b, Len(b) = Len(a), NEW g, NEW d, IsTree(g, d, b)
  PROVE  c = d /\ \A r \in 0..d : Len(f[r]) = Len(g[r])
<1> DEFINE m == IF c <= d THEN c ELSE d
           P == {r \in 0..m : Len(f[r]) = Len(g[r])}
<1>1. c \in Nat /\ d \in Nat
  BY DEF IsTree
<1>2. m \in Nat /\ m <= c /\ m <= d /\ (m = c \/ m = d)
  BY <1>1
<1> HIDE DEF m
<1>3. 0 \in P
  <2>1. f[0] = Leaves(a) /\ g[0] = Leaves(b)
    BY DEF IsTree
  <2>2. Len(f[0]) = Len(a) /\ Len(g[0]) = Len(b)
    BY <2>1, LeavesFacts
  <2>3. 0 \in 0..m /\ Len(f[0]) = Len(g[0])
    BY <1>2, <2>2
  <2> QED
    BY <2>3
<1>4. ASSUME NEW r \in 1..m, r - 1 \in P PROVE r \in P
  <2>1. r \in 1..c /\ r \in 1..d
    BY <1>1, <1>2
  <2>2. Len(f[r]) = HalfUp(Len(f[r - 1])) /\ Len(g[r]) = HalfUp(Len(g[r - 1]))
    BY <2>1, TreeLevels
  <2> QED
    BY <1>4, <2>2
<1>5. \A r \in 0..m : Len(f[r]) = Len(g[r])
  <2>1. \A r \in 0..m : r \in P
    <3> HIDE DEF P
    <3> QED
      BY <1>2, <1>3, <1>4, UpTo
  <2> QED
    BY <2>1
<1>6. Len(f[m]) = Len(g[m])
  BY <1>2, <1>5
<1>7. m = c /\ m = d
  <2>1. ASSUME m < c PROVE FALSE
    <3>1. m + 1 \in 1..c /\ (m + 1) - 1 = m /\ m = d
      BY <1>1, <1>2, <2>1
    <3>2. Len(f[m]) > 1 /\ Len(g[m]) = 1
      BY <3>1 DEF IsTree
    <3> QED
      BY <1>6, <3>2
  <2>2. ASSUME m < d PROVE FALSE
    <3>1. m + 1 \in 1..d /\ (m + 1) - 1 = m /\ m = c
      BY <1>1, <1>2, <2>2
    <3>2. Len(g[m]) > 1 /\ Len(f[m]) = 1
      BY <3>1 DEF IsTree
    <3> QED
      BY <1>6, <3>2
  <2> QED
    BY <1>1, <1>2, <2>1, <2>2
<1> QED
  BY <1>5, <1>7

(***************************************************************************)
(* A body has one Merkle root, whichever way its tree was found.           *)
(***************************************************************************)
LEMMA TreeGivesRoot ==
  ASSUME NEW txs, Len(txs) \in Nat \ {0}, NEW f, NEW c, IsTree(f, c, txs)
  PROVE  MerkleRoot(txs) = f[c][1]
<1>1. PICK g, d : IsTree(g, d, txs) /\ MerkleRoot(txs) = g[d][1]
  BY TreeExists
<1>2. c = d
  BY <1>1, SameShape
<1> DEFINE P == {r \in 0..d : f[r] = g[r]}
<1>3. d \in Nat /\ 0 \in P
  BY <1>1 DEF IsTree
<1>4. ASSUME NEW r \in 1..d, r - 1 \in P PROVE r \in P
  <2>1. f[r] = NextLevel(f[r - 1]) /\ g[r] = NextLevel(g[r - 1])
    BY <1>1, <1>2 DEF IsTree
  <2> QED
    BY <1>4, <2>1
<1>5. \A r \in 0..d : r \in P
  <2> HIDE DEF P
  <2> QED
    BY <1>3, <1>4, UpTo
<1> QED
  BY <1>1, <1>2, <1>3, <1>5

-----------------------------------------------------------------------------
(***************************************************************************)
(* A level tells which nodes are below it and, if their number is known,   *)
(* in which order.                                                         *)
(***************************************************************************)
LEMMA NodesBelow ==
  ASSUME NEW l, IsLevel(l), NEW x
  PROVE  x \in Nodes(l) <=>
           \E y : \/ PairHash(x, y) \in Nodes(NextLevel(l))
                 \/ PairHash(y, x) \in Nodes(NextLevel(l))
<1> DEFINE n == Len(l)
           h == NextLevel(l)
           right(i) == IF 2 * i <= n THEN 2 * i ELSE 2 * i - 1
<1>1. n \in Nat \ {0} /\ Len(h) = HalfUp(n)
  BY NextLevelFacts DEF IsLevel
<1>2. \A i \in 1..HalfUp(n) : h[i] = PairHash(l[2 * i - 1], l[right(i)])
  BY NextLevelFacts
<1>3. \A i \in 1..HalfUp(n) : 2 * i - 1 \in 1..n /\ right(i) \in 1..n
  BY <1>1, HalfUpFacts
<1>4. ASSUME x \in Nodes(l)
      PROVE  \E y : PairHash(x, y) \in Nodes(h) \/ PairHash(y, x) \in Nodes(h)
  <2>1. PICK k \in 1..n : x = l[k]
    BY <1>4 DEF Nodes
  <2> DEFINE i == HalfUp(k)
  <2>2. i \in 1..HalfUp(n) /\ i \in Nat /\ (2 * i - 1 = k \/ 2 * i = k)
    BY <1>1, HalfUpFacts
  <2> HIDE DEF i
  <2>3. h[i] = PairHash(l[2 * i - 1], l[right(i)]) /\ h[i] \in Nodes(h)
    BY <1>1, <1>2, <2>2 DEF Nodes
  <2>4. 2 * i - 1 = k \/ right(i) = k
    BY <1>1, <2>2
  <2> HIDE DEF right
  <2> QED
    BY <2>1, <2>3, <2>4
<1>5. ASSUME NEW y, PairHash(x, y) \in Nodes(h) \/ PairHash(y, x) \in Nodes(h)
      PROVE  x \in Nodes(l)
  <2>1. PICK i \in 1..HalfUp(n) : PairHash(x, y) = h[i] \/ PairHash(y, x) = h[i]
    BY <1>1, <1>5 DEF Nodes
  <2> HIDE DEF right, h
  <2>2. x = l[2 * i - 1] \/ x = l[right(i)]
    <3>1. h[i] = PairHash(l[2 * i - 1], l[right(i)])
      BY <1>2
    <3> QED
      BY <2>1, <3>1, PairHashFacts
  <2> QED
    BY <1>3, <2>2 DEF Nodes, right
<1> QED
  BY <1>4, <1>5

LEMMA LevelBelow ==
  ASSUME NEW k, IsLevel(k), NEW l, IsLevel(l), Len(k) = Len(l),
         NextLevel(k) = NextLevel(l)
  PROVE  k = l
<1> DEFINE n == Len(l)
           right(i) == IF 2 * i <= n THEN 2 * i ELSE 2 * i - 1
<1>1. n \in Nat \ {0}
  BY DEF IsLevel
<1>2. ASSUME NEW j \in 1..n PROVE k[j] = l[j]
  <2> DEFINE i == HalfUp(j)
  <2>1. i \in 1..HalfUp(n) /\ i \in Nat /\ (2 * i - 1 = j \/ 2 * i = j)
    BY <1>1, HalfUpFacts
  <2> HIDE DEF i
  <2>2. /\ NextLevel(k)[i] = PairHash(k[2 * i - 1], k[right(i)])
        /\ NextLevel(l)[i] = PairHash(l[2 * i - 1], l[right(i)])
    BY <2>1, NextLevelFacts
  <2>3. k[2 * i - 1] = l[2 * i - 1] /\ k[right(i)] = l[right(i)]
    BY <2>2, PairHashFacts
  <2>4. 2 * i - 1 = j \/ right(i) = j
    BY <1>1, <2>1
  <2> QED
    BY <2>3, <2>4
<1> QED
  BY <1>2 DEF IsLevel

(***************************************************************************)
(* Bodies of one length with the same root have the same hashes in the     *)
(* same places.                                                            *)
(***************************************************************************)
LEMMA RootOrders ==
  ASSUME NEW a, Len(a) \in Nat \ {0}, NEW b, Len(b) = Len(a),
         MerkleRoot(a) = MerkleRoot(b)
  PROVE  \A i \in 1..Len(a) : TxHash(a[i]) = TxHash(b[i])
<1>1. PICK f, c : IsTree(f, c, a) /\ MerkleRoot(a) = f[c][1]
  BY TreeExists
<1>2. PICK g, d : IsTree(g, d, b) /\ MerkleRoot(b) = g[d][1]
  BY TreeExists
<1>3. c = d /\ \A r \in 0..d : Len(f[r]) = Len(g[r])
  BY <1>1, <1>2, SameShape
<1>4. \A r \in 0..d : IsLevel(f[r]) /\ IsLevel(g[r])
  BY <1>1, <1>2, <1>3, TreeLevels
<1>5. d \in Nat
  BY <1>2 DEF IsTree
<1> DEFINE P == {j \in 0..d : f[d - j] = g[d - j]}
<1>6. 0 \in P
  <2>1. Len(f[d]) = 1 /\ Len(g[d]) = 1 /\ f[d][1] = g[d][1]
    BY <1>1, <1>2, <1>3 DEF IsTree
  <2>2. IsLevel(f[d]) /\ IsLevel(g[d])
    BY <1>4, <1>5
  <2>3. f[d] = g[d]
    <3>1. f[d] = [i \in 1..1 |-> f[d][i]] /\ g[d] = [i \in 1..1 |-> g[d][i]]
      BY <2>1, <2>2 DEF IsLevel
    <3>2. \A i \in 1..1 : f[d][i] = g[d][i]
      BY <2>1
    <3> QED
      BY <3>1, <3>2
  <2> QED
    BY <1>5, <2>3
<1>7. ASSUME NEW j \in 1..d, j - 1 \in P PROVE j \in P
  <2> DEFINE r == d - (j - 1)
  <2>1. r \in 1..d /\ r - 1 \in 0..d /\ r - 1 = d - j
    BY <1>5
  <2>2. f[r] = g[r]
    BY <1>7
  <2> HIDE DEF r
  <2>3. f[r] = NextLevel(f[r - 1]) /\ g[r] = NextLevel(g[r - 1])
    BY <1>1, <1>2, <1>3, <2>1 DEF IsTree
  <2>4. f[r - 1] = g[r - 1]
    BY <1>3, <1>4, <2>1, <2>2, <2>3, LevelBelow
  <2> QED
    BY <2>1, <2>4
<1>8. f[0] = g[0]
  <2>1. \A j \in 0..d : j \in P
    <3> HIDE DEF P
    <3> QED
      BY <1>5, <1>6, <1>7, UpTo
  <2>2. d \in 0..d /\ d - d = 0
    BY <1>5
  <2> QED
    BY <2>1, <2>2
<1>9. Leaves(a) = Leaves(b)
  BY <1>1, <1>2, <1>8 DEF IsTree
<1> QED
  BY <1>9, LeavesFacts

(***************************************************************************)
(* No level of pairs has the nodes of a level of transactions.             *)
(***************************************************************************)
LEMMA LeafOrNot ==
  ASSUME NEW a, Len(a) \in Nat \ {0},
         NEW b, Len(b) \in Nat \ {0}, NEW g, NEW d, IsTree(g, d, b),
         NEW r \in 1..d
  PROVE  Nodes(Leaves(a)) # Nodes(g[r])
<1>1. d \in Nat /\ r - 1 \in 0..d /\ g[r] = NextLevel(g[r - 1])
  BY DEF IsTree
<1>2. IsLevel(g[r - 1]) /\ IsLevel(g[r])
  BY <1>1, TreeLevels
<1>3. 1 \in 1..Len(g[r]) /\ 1 \in 1..HalfUp(Len(g[r - 1]))
  BY <1>1, <1>2, NextLevelFacts DEF IsLevel
<1>4. PICK x, y : g[r][1] = PairHash(x, y)
  <2> DEFINE l == g[r - 1]
             k == IF 2 * 1 <= Len(l) THEN 2 * 1 ELSE 2 * 1 - 1
  <2>1. NextLevel(l)[1] = PairHash(l[2 * 1 - 1], l[k])
    BY <1>2, <1>3, NextLevelFacts
  <2> QED
    BY <1>1, <2>1
<1>5. PairHash(x, y) \in Nodes(g[r])
  BY <1>3, <1>4 DEF Nodes
<1>6. ASSUME NEW h \in Nodes(Leaves(a)) PROVE h # PairHash(x, y)
  <2>1. PICK i \in 1..Len(a) : h = TxHash(a[i])
    BY <1>6, LeavesFacts DEF Nodes
  <2> QED
    BY <2>1, PairHashFacts
<1> QED
  BY <1>5, <1>6

(***************************************************************************)
(* Bodies of any lengths with the same root have the same hashes, and the  *)
(* same pairs of neighbours.                                               *)
(***************************************************************************)
LEMMA RootShowsNodes ==
  ASSUME NEW a, Len(a) \in Nat \ {0}, NEW f, NEW c, IsTree(f, c, a),
         NEW b, Len(b) \in Nat \ {0}, NEW g, NEW d, IsTree(g, d, b),
         f[c][1] = g[d][1]
  PROVE  c = d /\ \A r \in 0..d : Nodes(f[r]) = Nodes(g[r])
<1> DEFINE m == IF c <= d THEN c ELSE d
<1>1. c \in Nat /\ d \in Nat
  BY DEF IsTree
<1>2. m \in Nat /\ m <= c /\ m <= d /\ (m = c \/ m = d)
  BY <1>1
<1> HIDE DEF m
<1>3. (\A r \in 0..c : IsLevel(f[r])) /\ (\A r \in 0..d : IsLevel(g[r]))
  BY TreeLevels
<1> DEFINE P == {j \in 0..m : Nodes(f[c - j]) = Nodes(g[d - j])}
<1>4. 0 \in P
  <2>1. Len(f[c]) = 1 /\ Len(g[d]) = 1
    BY DEF IsTree
  <2>2. Nodes(f[c]) = {f[c][1]} /\ Nodes(g[d]) = {g[d][1]}
    BY <2>1 DEF Nodes
  <2>3. 0 \in 0..m /\ c - 0 = c /\ d - 0 = d /\ Nodes(f[c]) = Nodes(g[d])
    BY <1>1, <1>2, <2>2
  <2> QED
    BY <2>3
<1>5. ASSUME NEW j \in 1..m, j - 1 \in P PROVE j \in P
  <2> DEFINE r == c - (j - 1)
             s == d - (j - 1)
  <2>1. /\ r \in 1..c /\ r - 1 \in 0..c /\ r - 1 = c - j
        /\ s \in 1..d /\ s - 1 \in 0..d /\ s - 1 = d - j
    BY <1>1, <1>2
  <2>2. Nodes(f[r]) = Nodes(g[s])
    BY <1>5
  <2> HIDE DEF r, s
  <2>3. f[r] = NextLevel(f[r - 1]) /\ g[s] = NextLevel(g[s - 1])
    BY <2>1 DEF IsTree
  <2>4. IsLevel(f[r - 1]) /\ IsLevel(g[s - 1])
    BY <1>3, <2>1
  <2>5. \A x : x \in Nodes(f[r - 1]) <=> x \in Nodes(g[s - 1])
    BY <2>2, <2>3, <2>4, NodesBelow
  <2>6. Nodes(f[r - 1]) = Nodes(g[s - 1])
    BY <2>5 DEF Nodes
  <2> QED
    BY <2>1, <2>6
<1>6. \A j \in 0..m : Nodes(f[c - j]) = Nodes(g[d - j])
  <2>1. \A j \in 0..m : j \in P
    <3> HIDE DEF P
    <3> QED
      BY <1>2, <1>4, <1>5, UpTo
  <2> QED
    BY <2>1
<1>7. c = d
  <2>1. ASSUME c < d PROVE FALSE
    <3>1. m = c /\ c \in 0..m /\ c - c = 0 /\ d - c \in 1..d
      BY <1>1, <1>2, <2>1
    <3>2. Nodes(Leaves(a)) = Nodes(g[d - c])
      BY <1>6, <3>1 DEF IsTree
    <3> QED
      BY <3>1, <3>2, LeafOrNot
  <2>2. ASSUME d < c PROVE FALSE
    <3>1. m = d /\ d \in 0..m /\ d - d = 0 /\ c - d \in 1..c
      BY <1>1, <1>2, <2>2
    <3>2. Nodes(f[c - d]) = Nodes(Leaves(b))
      BY <1>6, <3>1 DEF IsTree
    <3> QED
      BY <3>1, <3>2, LeafOrNot
  <2> QED
    BY <1>1, <2>1, <2>2
<1>8. ASSUME NEW r \in 0..d PROVE Nodes(f[r]) = Nodes(g[r])
  <2>1. d - r \in 0..m /\ c - (d - r) = r /\ d - (d - r) = r
    BY <1>1, <1>2, <1>7
  <2> QED
    BY <1>6, <2>1
<1> QED
  BY <1>7, <1>8

-----------------------------------------------------------------------------
(***************************************************************************)
(* Bodies with the same root and no pairs of their own among the nodes.    *)
(***************************************************************************)
LEMMA RootKeepsMembers ==
  ASSUME NEW a, Len(a) \in Nat \ {0}, NEW b, Len(b) \in Nat \ {0},
         MerkleRoot(a) = MerkleRoot(b), NEW i \in 1..Len(a)
  PROVE  \E j \in 1..Len(b) : TxHash(a[i]) = TxHash(b[j])
<1>1. PICK f, c : IsTree(f, c, a) /\ MerkleRoot(a) = f[c][1]
  BY TreeExists
<1>2. PICK g, d : IsTree(g, d, b) /\ MerkleRoot(b) = g[d][1]
  BY TreeExists
<1>3. Nodes(f[0]) = Nodes(g[0])
  <2>1. d \in Nat
    BY <1>2 DEF IsTree
  <2>2. 0 \in 0..d
    BY <2>1
  <2> QED
    <3>1. f[c][1] = g[d][1]
      BY <1>1, <1>2
    <3>2. \A r \in 0..d : Nodes(f[r]) = Nodes(g[r])
      BY <1>1, <1>2, <3>1, RootShowsNodes
    <3> QED
      BY <2>2, <3>2
<1>4. f[0] = Leaves(a) /\ g[0] = Leaves(b)
  BY <1>1, <1>2 DEF IsTree
<1>5. TxHash(a[i]) \in Nodes(Leaves(b))
  <2>1. Len(Leaves(a)) = Len(a) /\ Leaves(a)[i] = TxHash(a[i])
    BY LeavesFacts
  <2>2. TxHash(a[i]) \in Nodes(Leaves(a))
    BY <2>1 DEF Nodes
  <2> QED
    BY <1>3, <1>4, <2>2
<1> QED
  BY <1>5, LeavesFacts DEF Nodes

(***************************************************************************)
(* The root of no transactions is the root of nothing else.                *)
(***************************************************************************)
LEMMA RootOfSome ==
  ASSUME NEW txs, Len(txs) \in Nat \ {0}
  PROVE  MerkleRoot(txs) # MerkleRoot(<< >>)
<1>1. PICK f, d : IsTree(f, d, txs) /\ MerkleRoot(txs) = f[d][1]
  BY TreeExists
<1>2. MerkleRoot(<< >>) = EmptyMerkleRoot
  BY DEF MerkleRoot
<1>3. Nodes(f[d]) = {f[d][1]} /\ d \in Nat
  BY <1>1 DEF IsTree, Nodes
<1>4. CASE d = 0
  <2>1. f[d] = Leaves(txs) /\ 1 \in 1..Len(txs)
    BY <1>1, <1>4 DEF IsTree
  <2>2. f[d][1] = TxHash(txs[1])
    BY <2>1, LeavesFacts
  <2> QED
    BY <1>1, <1>2, <2>2, PairHashFacts
<1>5. CASE d # 0
  <2>1. d \in 1..d /\ d - 1 \in 0..d
    BY <1>3, <1>5
  <2> DEFINE l == f[d - 1]
             k == IF 2 * 1 <= Len(l) THEN 2 * 1 ELSE 2 * 1 - 1
  <2>2. IsLevel(l) /\ f[d] = NextLevel(l) /\ Len(f[d]) = 1
    BY <1>1, <2>1, TreeLevels DEF IsTree
  <2>3. 1 \in 1..HalfUp(Len(l))
    BY <2>2, NextLevelFacts
  <2>4. f[d][1] = PairHash(l[2 * 1 - 1], l[k])
    BY <2>2, <2>3, NextLevelFacts
  <2> QED
    BY <1>1, <1>2, <2>4, PairHashFacts
<1> QED
  BY <1>4, <1>5

(***************************************************************************)
(* The one ambiguity: the last of an odd number is paired with itself.     *)
(***************************************************************************)
LEMMA OddTailKeepsRoot ==
  ASSUME NEW a, Len(a) \in Nat \ {0}, Len(a) > 1, Len(a) % 2 = 1,
         NEW b, Len(b) = Len(a) + 1, b[Len(b)] = a[Len(a)],
         \A i \in 1..Len(a) : b[i] = a[i]
  PROVE  MerkleRoot(b) = MerkleRoot(a)
<1> DEFINE n == Len(a)
<1>1. PICK f, d : IsTree(f, d, a) /\ MerkleRoot(a) = f[d][1]
  BY TreeExists
<1>2. d \in Nat /\ d # 0
  <2>1. Len(f[0]) = n /\ Len(f[d]) = 1 /\ d \in Nat
    BY <1>1, LeavesFacts DEF IsTree
  <2>2. n # 1
    OBVIOUS
  <2> HIDE DEF n
  <2> QED
    BY <2>1, <2>2
<1>3. Len(b) \in Nat \ {0}
  OBVIOUS
<1>4. NextLevel(Leaves(b)) = NextLevel(Leaves(a))
  <2> DEFINE k == Leaves(a)
             l == Leaves(b)
             h == HalfUp(n)
  <2>1. /\ IsLevel(k) /\ Len(k) = n /\ \A i \in 1..n : k[i] = TxHash(a[i])
        /\ IsLevel(l) /\ Len(l) = n + 1
        /\ \A i \in 1..(n + 1) : l[i] = TxHash(b[i])
    BY <1>3, LeavesFacts
  <2>2. /\ HalfUp(n + 1) = h /\ h \in Nat \ {0}
        /\ \A i \in 1..h :
              /\ 2 * i - 1 \in 1..n /\ 2 * i \in 1..(n + 1)
              /\ 2 * i <= n \/ (2 * i - 1 = n /\ 2 * i = n + 1)
    BY OddHalves
  <2> HIDE DEF k, l, h
  <2>3. \A i \in 1..h :
           /\ NextLevel(k)[i] = PairHash(k[2 * i - 1], k[IF 2 * i <= n THEN 2 * i ELSE 2 * i - 1])
           /\ NextLevel(l)[i] = PairHash(l[2 * i - 1], l[IF 2 * i <= n + 1 THEN 2 * i ELSE 2 * i - 1])
    <3>1. \A i \in 1..h :
             NextLevel(k)[i] = PairHash(k[2 * i - 1], k[IF 2 * i <= n THEN 2 * i ELSE 2 * i - 1])
      BY <2>1, NextLevelFacts DEF h
    <3>2. HalfUp(Len(l)) = h /\ Len(l) = n + 1 /\ Len(l) \in Nat \ {0}
      BY <2>1, <2>2
    <3> HIDE DEF n
    <3>3. \A i \in 1..h :
             NextLevel(l)[i] = PairHash(l[2 * i - 1], l[IF 2 * i <= Len(l) THEN 2 * i ELSE 2 * i - 1])
      BY <2>1, <3>2, NextLevelFacts
    <3> QED
      BY <3>1, <3>2, <3>3
  <2>4. \A i \in 1..h : NextLevel(l)[i] = NextLevel(k)[i]
    <3> SUFFICES ASSUME NEW i \in 1..h PROVE NextLevel(l)[i] = NextLevel(k)[i]
      OBVIOUS
    <3>1. /\ 2 * i - 1 \in 1..n /\ 2 * i \in 1..(n + 1) /\ 2 * i <= n + 1
          /\ 2 * i <= n \/ (2 * i - 1 = n /\ 2 * i = n + 1)
      BY <2>2
    <3>2. l[2 * i - 1] = k[2 * i - 1]
      BY <2>1, <3>1
    <3>3. l[2 * i] = k[IF 2 * i <= n THEN 2 * i ELSE 2 * i - 1]
      <4>1. CASE 2 * i <= n
        <5>1. 2 * i \in 1..n
          BY <3>1, <4>1
        <5> QED
          BY <2>1, <3>1, <4>1, <5>1
      <4>2. CASE 2 * i - 1 = n /\ 2 * i = n + 1
        <5>1. l[n + 1] = k[n] /\ ~(2 * i <= n)
          BY <2>1, <3>1, <4>2
        <5> QED
          BY <4>2, <5>1
      <4> QED
        BY <3>1, <4>1, <4>2
    <3> QED
      BY <2>3, <3>1, <3>2, <3>3
  <2>5. /\ IsLevel(NextLevel(k)) /\ Len(NextLevel(k)) = h
        /\ IsLevel(NextLevel(l)) /\ Len(NextLevel(l)) = h
    BY <2>1, <2>2, NextLevelFacts DEF h
  <2> QED
    BY <2>4, <2>5 DEF IsLevel, k, l
<1> DEFINE g == [r \in 0..d |-> IF r = 0 THEN Leaves(b) ELSE f[r]]
<1>5. IsTree(g, d, b) /\ g[d] = f[d]
  <2>1. g[0] = Leaves(b) /\ \A r \in 1..d : g[r] = f[r]
    BY <1>2
  <2> HIDE DEF g
  <2>2. ASSUME NEW r \in 1..d
        PROVE  Len(g[r - 1]) > 1 /\ g[r] = NextLevel(g[r - 1])
    <3>1. Len(f[r - 1]) > 1 /\ f[r] = NextLevel(f[r - 1]) /\ f[0] = Leaves(a)
      BY <1>1 DEF IsTree
    <3>2. CASE r = 1
      <4>1. Len(Leaves(b)) > 1
        BY <1>3, LeavesFacts
      <4> QED
        BY <1>4, <2>1, <3>1, <3>2, <4>1
    <3>3. CASE r # 1
      <4>1. r - 1 \in 1..d
        BY <1>2, <3>3
      <4> QED
        BY <2>1, <3>1, <4>1
    <3> QED
      BY <3>2, <3>3
  <2>3. g[d] = f[d] /\ Len(f[d]) = 1
    BY <1>1, <1>2, <2>1 DEF IsTree
  <2> QED
    BY <1>2, <2>1, <2>2, <2>3 DEF IsTree
<1> HIDE DEF g
<1> QED
  BY <1>1, <1>3, <1>5, TreeGivesRoot

(***************************************************************************)
(* Where the number is even, or one, the repeated tail is seen.            *)
(***************************************************************************)
LEMMA OtherTailIsSeen ==
  ASSUME NEW a, Len(a) \in Nat \ {0}, ~(Len(a) > 1 /\ Len(a) % 2 = 1),
         \A i, j \in 1..Len(a) : TxHash(a[i]) = TxHash(a[j]) => i = j,
         NEW b, Len(b) = Len(a) + 1, b[Len(b)] = a[Len(a)],
         \A i \in 1..Len(a) : b[i] = a[i]
  PROVE  MerkleRoot(b) # MerkleRoot(a)
<1> SUFFICES ASSUME MerkleRoot(b) = MerkleRoot(a) PROVE FALSE
  OBVIOUS
<1> DEFINE n == Len(a)
<1>1. PICK f, c : IsTree(f, c, a) /\ MerkleRoot(a) = f[c][1]
  BY TreeExists
<1>2. Len(b) \in Nat \ {0}
  OBVIOUS
<1>3. PICK g, d : IsTree(g, d, b) /\ MerkleRoot(b) = g[d][1]
  BY <1>2, TreeExists
<1>4. c = d /\ d \in Nat /\ \A r \in 0..d : Nodes(f[r]) = Nodes(g[r])
  <2>1. c = d /\ \A r \in 0..d : Nodes(f[r]) = Nodes(g[r])
    BY <1>1, <1>2, <1>3, RootShowsNodes
  <2> QED
    BY <1>3, <2>1 DEF IsTree
<1>5. f[0] = Leaves(a) /\ Len(f[0]) = n /\ g[0] = Leaves(b) /\ Len(g[0]) = n + 1
  BY <1>1, <1>2, <1>3, LeavesFacts DEF IsTree
<1>6. d \in 1..d /\ 1 \in 1..d /\ n > 1
  <2>1. Len(g[d]) = 1 /\ Len(f[d]) = 1
    BY <1>1, <1>3, <1>4 DEF IsTree
  <2>2. d # 0
    BY <1>5, <2>1
  <2>3. 1 \in 1..d
    BY <1>4, <2>2
  <2>4. Len(f[1 - 1]) > 1
    BY <1>1, <1>4, <2>3 DEF IsTree
  <2> QED
    BY <1>4, <1>5, <2>3, <2>4
<1>7. Nodes(NextLevel(Leaves(a))) = Nodes(NextLevel(Leaves(b)))
  <2>1. f[1] = NextLevel(f[1 - 1]) /\ g[1] = NextLevel(g[1 - 1])
    BY <1>1, <1>3, <1>4, <1>6 DEF IsTree
  <2>2. Nodes(f[1]) = Nodes(g[1])
    BY <1>4, <1>6
  <2> QED
    BY <1>5, <2>1, <2>2
<1> DEFINE h == HalfUp(n)
           x == TxHash(a[n])
<1>8. /\ HalfUp(n + 1) = h + 1 /\ 2 * h = n /\ h \in Nat /\ h + 1 \in 1..(h + 1)
      /\ 2 * (h + 1) - 1 = n + 1
  <2>1. n % 2 # 1
    BY <1>6
  <2> QED
    BY <2>1, EvenHalves
<1> HIDE DEF h
<1>9. PairHash(x, x) \in Nodes(NextLevel(Leaves(b)))
  <2> DEFINE l == Leaves(b)
             i == h + 1
  <2>1. IsLevel(l) /\ Len(l) = n + 1 /\ l[n + 1] = TxHash(b[n + 1])
    BY <1>2, LeavesFacts
  <2>2. i \in 1..HalfUp(n + 1) /\ 2 * i - 1 = n + 1 /\ ~(2 * i <= n + 1)
    BY <1>8
  <2> HIDE DEF l, i
  <2>3. NextLevel(l)[i] = PairHash(l[2 * i - 1],
                                   l[IF 2 * i <= Len(l) THEN 2 * i ELSE 2 * i - 1])
        /\ Len(NextLevel(l)) = HalfUp(n + 1)
    BY <2>1, <2>2, NextLevelFacts
  <2>4. NextLevel(l)[i] = PairHash(l[n + 1], l[n + 1])
    BY <2>1, <2>2, <2>3
  <2> QED
    BY <2>1, <2>2, <2>3, <2>4 DEF Nodes, l
<1>10. PICK i \in 1..h : PairHash(x, x) = NextLevel(Leaves(a))[i]
  <2>1. IsLevel(Leaves(a)) /\ Len(Leaves(a)) = n
    BY LeavesFacts
  <2>2. Len(NextLevel(Leaves(a))) = h
    BY <2>1, NextLevelFacts DEF h
  <2> QED
    BY <1>7, <1>9, <2>2 DEF Nodes
<1>11. x = TxHash(a[2 * i - 1]) /\ x = TxHash(a[2 * i])
  <2> DEFINE l == Leaves(a)
  <2>1. /\ IsLevel(l) /\ Len(l) = n /\ \A j \in 1..n : l[j] = TxHash(a[j])
    BY LeavesFacts
  <2>2. 2 * i - 1 \in 1..n /\ 2 * i \in 1..n /\ 2 * i <= n
    BY <1>8
  <2> HIDE DEF l
  <2>3. NextLevel(l)[i] = PairHash(l[2 * i - 1],
                                   l[IF 2 * i <= Len(l) THEN 2 * i ELSE 2 * i - 1])
    BY <2>1, NextLevelFacts DEF h
  <2>4. PairHash(x, x) = PairHash(l[2 * i - 1], l[2 * i])
    BY <1>10, <2>1, <2>2, <2>3 DEF l
  <2> QED
    BY <2>1, <2>2, <2>4, PairHashFacts
<1>12. 2 * i - 1 \in 1..n /\ 2 * i \in 1..n /\ 2 * i - 1 # 2 * i
  BY <1>8
<1> QED
  BY <1>11, <1>12
=============================================================================
