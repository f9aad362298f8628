----------------------------- MODULE MinerProofs ----------------------------
(***************************************************************************)
(* Proofs about Miner, for any number of workers, any nonce space, any set *)
(* of good nonces and any moment of cancellation: which block MineWith     *)
(* returns, which error, how many hashes it reports, and that no worker    *)
(* waits for the channel.                                                  *)
(***************************************************************************)
EXTENDS Miner, FiniteSetTheorems, FunctionTheorems, SequenceTheorems, TLAPS

(***************************************************************************)
(* A worker whose block is in the channel.                                 *)
(***************************************************************************)
Sent(w) ==
    /\ pc[w] \in {"stop", "leave", "done"}
    /\ nonce[w] \in good

(***************************************************************************)
(* Where a worker is: among the nonces of its own remainder, none of which *)
(* it has passed over, having tried one for every stride.                  *)
(***************************************************************************)
Place(w) ==
    /\ nonce[w] % stride = w
    /\ \A m \in good : m % stride = w => nonce[w] <= m
    /\ tried[w] * stride =
         nonce[w] - w + (IF pc[w] = "try" THEN 0 ELSE stride)

(***************************************************************************)
(* Why a worker left the loop: with a block, at the end of its nonces, or  *)
(* because of the context.                                                 *)
(***************************************************************************)
Reason(w) ==
    /\ pc[w] \in {"send", "stop"} => nonce[w] \in good
    /\ pc[w] \in {"leave", "done"} /\ nonce[w] \notin good =>
          nonce[w] + stride > MaxNonce \/ ctxErr

Loop ==
    \A w \in Workers : Place(w) /\ Reason(w) /\ (Sent(w) => found # << >>)

(***************************************************************************)
(* The channel holds at most one block of each worker, the one it stopped  *)
(* at; the derived context is only stopped once there is one.              *)
(***************************************************************************)
FoundBy(i) ==
    /\ found[i] \in good
    /\ Sent(found[i] % stride)
    /\ found[i] = nonce[found[i] % stride]

Channel ==
    /\ \A i \in 1..Len(found) : FoundBy(i)
    /\ \A i, j \in 1..Len(found) : i # j => found[i] # found[j]
    /\ stopped => found # << >>

(***************************************************************************)
(* The nonces tried by the workers that have added theirs to the counter.  *)
(***************************************************************************)
Hashed == {n \in Nonces : pc[n % stride] = "done" /\ n <= nonce[n % stride]}

Counter ==
    /\ IsFiniteSet(Hashed)
    /\ hashes = Cardinality(Hashed)
    /\ outcome # Running => \A w \in Workers : pc[w] = "done"

MinerInv ==
    /\ TypeOK
    /\ Loop
    /\ Channel
    /\ Counter
    /\ WinnerIsSmallest
    /\ NoNonceIsTrue
    /\ CtxErrIsCallers

-----------------------------------------------------------------------------
(***************************************************************************)
(* Remainders: a number is its quotient times the divisor and the rest.    *)
(***************************************************************************)
LEMMA Quotient ==
    ASSUME NEW s \in Nat \ {0}, NEW n \in Nat
    PROVE  /\ n % s \in 0..(s - 1)
           /\ \E q \in Nat : n = (s * q) + (n % s)
<1>1. n = (s * (n \div s)) + (n % s) /\ n \div s \in Nat
    OBVIOUS
<1>2. n % s \in 0..(s - 1)
    OBVIOUS
<1> QED BY <1>1, <1>2

(***************************************************************************)
(* Every nonce belongs to a worker.                                        *)
(***************************************************************************)
LEMMA ShareOut ==
    ASSUME NEW s \in Nat \ {0}
    PROVE  \A n \in Nonces : n % s \in 0..(s - 1)
BY MinerAssumption, Quotient DEF Nonces

(***************************************************************************)
(* The converse: the remainder is the only one there is.                   *)
(***************************************************************************)
LEMMA Remainder ==
    ASSUME NEW s \in Nat \ {0}, NEW q \in Nat, NEW r \in 0..(s - 1),
           NEW n \in Nat, n = (s * q) + r
    PROVE  n % s = r
OBVIOUS

(***************************************************************************)
(* A step of one stride keeps the remainder ...                            *)
(***************************************************************************)
LEMMA SameRemainder ==
    ASSUME NEW s \in Nat \ {0}, NEW n \in Nat
    PROVE  (n + s) % s = n % s
<1>1. PICK q \in Nat : n = (s * q) + (n % s)
    BY Quotient
<1>2. n % s \in 0..(s - 1)
    BY Quotient
<1> DEFINE r == n % s
<1> HIDE DEF r
<1>3. n + s = (s * (q + 1)) + r /\ r \in 0..(s - 1)
    BY <1>1, <1>2 DEF r
<1>4. (n + s) % s = r
    <2> DEFINE m == n + s
               k == q + 1
    <2>1. m = (s * k) + r /\ m \in Nat /\ k \in Nat
        BY <1>3
    <2> HIDE DEF m, k
    <2>2. m % s = r
        BY <1>3, <2>1, Remainder
    <2> QED BY <2>2 DEF m
<1> QED BY <1>4 DEF r

(***************************************************************************)
(* ... and no smaller step does.                                           *)
(***************************************************************************)
LEMMA NextOfRemainder ==
    ASSUME NEW s \in Nat \ {0}, NEW n \in Nat, NEW m \in Nat,
           m % s = n % s, n < m
    PROVE  n + s <= m
<1>1. PICK q \in Nat : n = (s * q) + (n % s)
    BY Quotient
<1>2. PICK k \in Nat : m = (s * k) + (m % s)
    BY Quotient
<1> DEFINE r == n % s
<1>3. r \in 0..(s - 1)
    BY Quotient
<1> HIDE DEF r
<1>4. n = (s * q) + r /\ m = (s * k) + r
    BY <1>1, <1>2 DEF r
<1>5. s * q \in Nat /\ s * k \in Nat /\ s * q < s * k
    BY <1>3, <1>4
<1>6. ~ (k <= q)
    BY <1>5
<1>7. s * k >= s * (q + 1)
    BY <1>6
<1> QED BY <1>3, <1>4, <1>7

(***************************************************************************)
(* uint64 addition wraps around exactly when the sum is past the end, and  *)
(* is then the smaller for it: what the test "next < nonce" relies on.     *)
(***************************************************************************)
LEMMA PlusWraps ==
    ASSUME NEW n \in Nonces, NEW s \in 1..MaxNonce
    PROVE  /\ Plus(n, s) \in Nonces
           /\ n + s <= MaxNonce => Plus(n, s) = n + s
           /\ Plus(n, s) < n <=> n + s > MaxNonce
<1> DEFINE M == MaxNonce + 1
<1>1. M \in Nat \ {0} /\ n \in 0..(M - 1) /\ s \in 1..(M - 1) /\ n + s \in Nat
    BY MinerAssumption DEF Nonces
<1>2. CASE n + s <= MaxNonce
    <2>1. n + s = (M * 0) + (n + s) /\ n + s \in 0..(M - 1)
        BY <1>1, <1>2, MinerAssumption
    <2>2. (n + s) % M = n + s
        BY <1>1, <2>1, Remainder
    <2>3. Plus(n, s) = n + s
        BY <2>2 DEF Plus
    <2> QED BY <1>1, <1>2, <2>3, MinerAssumption DEF Nonces
<1>3. CASE n + s > MaxNonce
    <2>1. n + s = (M * 1) + (n + s - M) /\ n + s - M \in 0..(M - 1)
        BY <1>1, <1>3, MinerAssumption
    <2>2. (n + s) % M = n + s - M
        BY <1>1, <2>1, Remainder
    <2>3. Plus(n, s) = n + s - M
        BY <2>2 DEF Plus
    <2> QED BY <1>1, <1>3, <2>3, MinerAssumption DEF Nonces
<1> QED BY <1>1, <1>2, <1>3, MinerAssumption

(***************************************************************************)
(* A worker that has come to n has tried t nonces, one for every stride.   *)
(***************************************************************************)
LEMMA CountedSize ==
    ASSUME NEW s \in 1..MaxNonce, NEW w \in 0..(s - 1), NEW n \in Nonces,
           NEW t \in Nat, t * s = (n - w) + s
    PROVE  LET C == {m \in Nonces : m % s = w /\ m <= n}
           IN  IsFiniteSet(C) /\ Cardinality(C) = t
<1> DEFINE C == {m \in Nonces : m % s = w /\ m <= n}
           f == [i \in 1..t |-> (s * (i - 1)) + w]
<1>1. s \in Nat \ {0} /\ w \in Nat /\ n \in Nat /\ (s * (t - 1)) + w = n
    BY MinerAssumption DEF Nonces
<1>2. ASSUME NEW i \in 1..t PROVE f[i] \in C
    <2> DEFINE m == (s * (i - 1)) + w
               k == i - 1
    <2>1. k \in Nat /\ m \in Nat /\ m = (s * k) + w
        BY <1>1
    <2>2. m <= n
        <3>1. s * (i - 1) <= s * (t - 1)
            BY <1>1
        <3> QED BY <1>1, <3>1
    <2>3. f[i] = m
        OBVIOUS
    <2> HIDE DEF m, k, f
    <2>4. m % s = w
        BY <1>1, <2>1, Remainder
    <2>5. m \in Nonces
        BY <1>1, <2>1, <2>2, MinerAssumption DEF Nonces
    <2> QED BY <2>2, <2>3, <2>4, <2>5
<1>3. ASSUME NEW i \in 1..t, NEW j \in 1..t, i < j PROVE f[i] < f[j]
    <2>1. s * (i - 1) < s * (j - 1)
        <3> DEFINE a == i - 1
                   b == j - 1
        <3>1. a \in Nat /\ b \in Nat /\ a < b
            BY <1>3
        <3> HIDE DEF a, b
        <3>2. s * b = (s * a) + (s * (b - a)) /\ s * (b - a) > 0
            BY <1>1, <3>1
        <3>3. s * a < s * b
            BY <1>1, <3>1, <3>2
        <3> QED BY <3>3 DEF a, b
    <2>2. s * (i - 1) \in Nat /\ s * (j - 1) \in Nat
        BY <1>1
    <2> QED BY <1>1, <2>1, <2>2
<1>4. ASSUME NEW m \in C PROVE \E i \in 1..t : f[i] = m
    <2>1. m \in Nat /\ m % s = w /\ m <= n
        BY MinerAssumption DEF Nonces
    <2>2. PICK q \in Nat : m = (s * q) + w
        BY <1>1, <2>1, Quotient
    <2>3. q < t
        <3>1. SUFFICES ASSUME t <= q PROVE FALSE
            OBVIOUS
        <3>2. s * (t - 1) < s * q
            BY <1>1, <3>1
        <3> QED BY <1>1, <2>1, <2>2, <3>2
    <2>4. q + 1 \in 1..t /\ f[q + 1] = (s * q) + w
        BY <2>3
    <2> QED BY <2>2, <2>4
<1>5. f \in Bijection(1..t, C)
    <2>1. f \in [1..t -> C]
        BY <1>2
    <2>2. \A i, j \in 1..t : f[i] = f[j] => i = j
        <3> SUFFICES ASSUME NEW i \in 1..t, NEW j \in 1..t, f[i] = f[j] PROVE i = j
            OBVIOUS
        <3>1. f[i] \in Nat /\ f[j] \in Nat
            BY <1>2, MinerAssumption DEF Nonces
        <3> HIDE DEF f
        <3> QED BY <1>3, <3>1
    <2> HIDE DEF f, C
    <2> QED BY <1>4, <2>1, <2>2 DEF Bijection, Injection, Surjection, IsInjective
<1> HIDE DEF f, C
<1>6. ExistsBijection(1..t, C)
    BY <1>5 DEF ExistsBijection
<1>7. IsFiniteSet(C) /\ Cardinality(C) = t
    BY <1>6, FS_NatBijection, FS_CountingElements
<1> QED BY <1>7 DEF C

(***************************************************************************)
(* The sizes of the intervals that occur here.                             *)
(***************************************************************************)
LEMMA IntervalSizes ==
    ASSUME NEW n \in Nat
    PROVE  /\ Cardinality(1..n) = n
           /\ IsFiniteSet(0..(n - 1)) /\ Cardinality(0..(n - 1)) = n
<1>1. Cardinality(1..n) = IF 1 > n THEN 0 ELSE n - 1 + 1
    BY FS_Interval
<1>2. n - 1 \in Int
    OBVIOUS
<1>3. /\ IsFiniteSet(0..(n - 1))
      /\ Cardinality(0..(n - 1)) = IF 0 > n - 1 THEN 0 ELSE n - 1 - 0 + 1
    BY <1>2, FS_Interval
<1> QED BY <1>1, <1>3

-----------------------------------------------------------------------------
(***************************************************************************)
(* MineWith starts its workers at the first nonces of their remainders.    *)
(***************************************************************************)
LEMMA InitMiner == Init => MinerInv
<1> SUFFICES ASSUME Init PROVE MinerInv
    OBVIOUS
<1>1. stride \in 1..MaxNonce /\ good \subseteq Nonces
    BY MinerAssumption DEF Init
<1>2. TypeOK
    <2>1. /\ nonce \in [Workers -> Nonces] /\ tried \in [Workers -> Nat]
          /\ pc \in [Workers -> {"try", "send", "stop", "leave", "done"}]
        BY <1>1, MinerAssumption DEF Init, Workers, Nonces, FirstNonce
    <2>2. found \in Seq(Nonces)
        BY DEF Init
    <2>3. cancelled \in BOOLEAN
        BY MinerAssumption DEF Init
    <2> QED BY <1>1, <2>1, <2>2, <2>3 DEF Init, TypeOK
<1>3. \A w \in Workers :
          /\ nonce[w] = w /\ tried[w] = 0 /\ pc[w] = "try"
          /\ w % stride = w
    BY <1>1 DEF Init, Workers, FirstNonce
<1>4. ASSUME NEW m \in Nonces PROVE m % stride <= m
    <2>1. m \in Nat /\ stride \in Nat \ {0}
        BY <1>1, MinerAssumption DEF Nonces
    <2>2. PICK q \in Nat : m = (stride * q) + (m % stride)
        BY <2>1, Quotient
    <2>3. m % stride \in Nat /\ stride * q \in Nat
        BY <2>1, Quotient
    <2> QED BY <2>1, <2>2, <2>3
<1>5. Loop
    <2> SUFFICES ASSUME NEW w \in Workers
                 PROVE  Place(w) /\ Reason(w) /\ ~Sent(w)
        BY DEF Loop
    <2>1. tried[w] * stride = 0 /\ nonce[w] - w = 0
        BY <1>1, <1>3 DEF Workers
    <2>2. \A m \in good : m % stride = w => nonce[w] <= m
        BY <1>1, <1>3, <1>4
    <2> QED BY <1>3, <2>1, <2>2 DEF Place, Reason, Sent
<1>6. Channel
    BY DEF Init, Channel
<1>7. Hashed = {}
    <2>1. \A m \in Nonces : m % stride \in Workers
        BY <1>1, ShareOut DEF Workers
    <2> QED BY <1>3, <2>1 DEF Hashed
<1>8. Counter
    BY <1>7, FS_EmptySet DEF Init, Counter
<1>9. outcome # CtxErr /\ outcome # NoNonce /\ \A n \in Nonces : outcome # Mined(n)
    BY DEF Init, Running, CtxErr, NoNonce, Mined
<1> QED
    BY <1>2, <1>5, <1>6, <1>8, <1>9
       DEF MinerInv, WinnerIsSmallest, NoNonceIsTrue, CtxErrIsCallers

(***************************************************************************)
(* Every step keeps the types: the nonce stays a uint64 and the winner is  *)
(* a block from the channel.                                               *)
(***************************************************************************)
LEMMA TypeStep == TypeOK /\ [Next]_vars => TypeOK'
<1> SUFFICES ASSUME TypeOK, [Next]_vars PROVE TypeOK'
    OBVIOUS
<1> USE DEF TypeOK, Workers, callVars, loopVars, GoTo
<1>1. ASSUME NEW w \in Workers, Try(w) PROVE TypeOK'
    <2>1. Plus(nonce[w], stride) \in Nonces
        BY PlusWraps
    <2> QED BY <1>1, <2>1, SMTT(30) DEF Try
<1>2. ASSUME NEW w \in Workers, Send(w) PROVE TypeOK'
    BY <1>2, AppendProperties DEF Send
<1>3. ASSUME NEW w \in Workers, Stop(w) PROVE TypeOK'
    BY <1>3 DEF Stop
<1>4. ASSUME NEW w \in Workers, Leave(w) PROVE TypeOK'
    BY <1>4 DEF Leave
<1>5. CASE Cancel
    BY <1>5 DEF Cancel
<1>6. CASE Return
    <2>1. found # << >> => Head(found) \in Nonces
        BY HeadTailProperties
    <2> QED BY <1>6, <2>1 DEF Return, Result
<1>7. CASE UNCHANGED vars
    BY <1>7 DEF vars
<1> QED BY <1>1, <1>2, <1>3, <1>4, <1>5, <1>6, <1>7 DEF Next

(***************************************************************************)
(* One turn of the loop.  A worker that moves on has passed over a nonce   *)
(* that is not good, and the next one of its remainder is a stride away.   *)
(***************************************************************************)
LEMMA TryMiner ==
    ASSUME MinerInv, NEW w \in Workers, Try(w), TypeOK'
    PROVE  MinerInv'
<1> USE DEF MinerInv, callVars, loopVars, GoTo
<1>1. /\ pc[w] = "try" /\ nonce[w] \in Nonces /\ stride \in 1..MaxNonce
      /\ stride \in Nat \ {0} /\ w \in Nat /\ nonce[w] \in Nat /\ tried[w] \in Nat
    BY MinerAssumption DEF Try, TypeOK, Workers, Nonces
<1>2. UNCHANGED <<good, stride, found, cancelled, stopped, hashes, outcome>>
    BY DEF Try
<1>3. tried'[w] = tried[w] + 1
    BY DEF Try, TypeOK
<1>4. \A v \in Workers \ {w} :
          nonce'[v] = nonce[v] /\ tried'[v] = tried[v] /\ pc'[v] = pc[v]
    BY DEF Try, TypeOK
<1>5. Workers' = Workers /\ ctxErr' = ctxErr /\ Nonces' = Nonces
    BY <1>2 DEF Workers, ctxErr, Nonces
<1>6. Place(w) /\ ~Sent(w)
    BY <1>1 DEF Loop, Sent
<1>7. tried'[w] * stride = (nonce[w] - w) + stride
    BY <1>1, <1>3, <1>6 DEF Place
<1>8. Place(w)' /\ Reason(w)' /\ ~Sent(w)'
    <2>1. CASE nonce[w] \in good
        <3>1. nonce'[w] = nonce[w] /\ pc'[w] = "send"
            BY <2>1, <1>1 DEF Try, TypeOK
        <3> QED
            BY <2>1, <3>1, <1>1, <1>2, <1>6, <1>7 DEF Place, Reason, Sent
    <2>2. CASE /\ nonce[w] \notin good
               /\ nonce' = nonce /\ pc' = [pc EXCEPT ![w] = "leave"]
               /\ ctxErr \/ Wraps(w)
        <3>1. nonce'[w] = nonce[w] /\ pc'[w] = "leave"
            BY <2>2, <1>1 DEF TypeOK
        <3>2. nonce[w] + stride > MaxNonce \/ ctxErr
            BY <2>2, <1>1, PlusWraps DEF Wraps
        <3> QED
            BY <2>2, <3>1, <3>2, <1>1, <1>2, <1>5, <1>6, <1>7
               DEF Place, Reason, Sent
    <2>3. CASE /\ nonce[w] \notin good /\ ~Wraps(w)
               /\ nonce' = [nonce EXCEPT ![w] = Plus(@, stride)] /\ pc' = pc
        <3>1. nonce'[w] = nonce[w] + stride /\ pc'[w] = "try"
            BY <2>3, <1>1, PlusWraps, MinerAssumption DEF TypeOK, Wraps
        <3>2. nonce'[w] % stride = w
            BY <3>1, <1>1, <1>6, SameRemainder DEF Place
        <3>3. ASSUME NEW m \in good, m % stride = w PROVE nonce'[w] <= m
            <4>1. m \in Nat /\ nonce[w] <= m /\ m # nonce[w]
                BY <2>3, <3>3, <1>6, MinerAssumption DEF Place, TypeOK, Nonces
            <4>2. m % stride = nonce[w] % stride
                BY <3>3, <1>6 DEF Place
            <4> QED BY <3>1, <4>1, <4>2, <1>1, NextOfRemainder
        <3> QED
            BY <3>1, <3>2, <3>3, <1>1, <1>2, <1>7 DEF Place, Reason, Sent
    <2> QED BY <2>1, <2>2, <2>3, <1>2 DEF Try
<1>9. \A v \in Workers \ {w} :
          (Place(v)' <=> Place(v)) /\ (Reason(v)' <=> Reason(v)) /\ (Sent(v)' <=> Sent(v))
    BY <1>2, <1>4, <1>5 DEF Place, Reason, Sent
<1>10. Loop'
    BY <1>2, <1>5, <1>8, <1>9 DEF Loop
<1>11. \A n \in Nonces : n % stride \in Workers
    BY <1>1, ShareOut DEF Workers
<1>12. Channel'
    <2>1. ASSUME NEW i \in 1..Len(found) PROVE FoundBy(i)'
        <3>1. FoundBy(i) /\ found[i] % stride \in Workers \ {w}
            BY <1>6, <1>11 DEF Channel, FoundBy, TypeOK
        <3> QED BY <3>1, <1>2, <1>4, <1>9 DEF FoundBy
    <2> QED BY <2>1, <1>2 DEF Channel
<1>13. Hashed' = Hashed
    <2>1. pc[w] # "done" /\ pc'[w] # "done"
        BY <1>1 DEF Try, TypeOK
    <2> QED BY <2>1, <1>2, <1>4, <1>5, <1>11 DEF Hashed
<1>14. Counter'
    BY <1>1, <1>2, <1>13 DEF Counter
<1>15. WinnerIsSmallest' /\ NoNonceIsTrue' /\ CtxErrIsCallers'
    BY <1>2, <1>5 DEF WinnerIsSmallest, NoNonceIsTrue, CtxErrIsCallers
<1> QED BY <1>10, <1>12, <1>14, <1>15

(***************************************************************************)
(* A worker puts its block behind those of the others, which have other    *)
(* remainders.                                                             *)
(***************************************************************************)
LEMMA SendMiner ==
    ASSUME MinerInv, NEW w \in Workers, Send(w), TypeOK'
    PROVE  MinerInv'
<1> USE DEF MinerInv, callVars, loopVars, GoTo
<1>1. /\ pc[w] = "send" /\ nonce[w] \in good /\ nonce[w] % stride = w
      /\ stride \in Nat \ {0}
    BY MinerAssumption DEF Send, TypeOK, Loop, Reason, Place
<1>2. UNCHANGED <<good, stride, nonce, tried, cancelled, stopped, hashes, outcome>>
    BY DEF Send
<1>3. \A v \in Workers : pc'[v] = IF v = w THEN "stop" ELSE pc[v]
    BY DEF Send, TypeOK
<1>4. Workers' = Workers /\ ctxErr' = ctxErr /\ Nonces' = Nonces
    BY <1>2 DEF Workers, ctxErr, Nonces
<1>5. /\ Len(found') = Len(found) + 1 /\ Len(found) \in Nat
      /\ \A i \in 1..Len(found) : found'[i] = found[i]
      /\ found'[Len(found) + 1] = nonce[w]
    BY AppendProperties DEF Send, TypeOK
<1>6. found' # << >>
    BY <1>5
<1>7. /\ Sent(w)' /\ ~Sent(w)
      /\ \A v \in Workers : Sent(v) => Sent(v)'
    BY <1>1, <1>2, <1>3, <1>4 DEF Sent
<1>8. Loop'
    BY <1>1, <1>2, <1>3, <1>4, <1>6 DEF Loop, Place, Reason
<1>9. \A n \in Nonces : n % stride \in Workers
    BY <1>1, ShareOut DEF Workers
<1>10. ASSUME NEW i \in 1..Len(found)
       PROVE  FoundBy(i)' /\ found[i] # nonce[w]
    <2>1. FoundBy(i) /\ found[i] % stride \in Workers
        BY <1>9 DEF Channel, FoundBy, TypeOK
    <2>2. found[i] # nonce[w]
        BY <2>1, <1>1, <1>7 DEF FoundBy
    <2> QED BY <2>1, <2>2, <1>2, <1>5, <1>7 DEF FoundBy
<1>11. ASSUME NEW i \in Nat, i = Len(found) + 1 PROVE FoundBy(i)'
    BY <1>1, <1>2, <1>5, <1>7, <1>11 DEF FoundBy
<1>12. Channel'
    <2>1. \A i \in 1..Len(found') :
              i \in Nat /\ (i \in 1..Len(found) \/ i = Len(found) + 1)
        BY <1>5
    <2>2. \A i \in 1..Len(found') : FoundBy(i)'
        BY <2>1, <1>10, <1>11
    <2>3. \A i, j \in 1..Len(found') : i # j => found'[i] # found'[j]
        BY <2>1, <1>5, <1>10 DEF Channel
    <2> QED BY <2>2, <2>3, <1>6 DEF Channel
<1>13. Hashed' = Hashed
    BY <1>1, <1>2, <1>3, <1>4, <1>9 DEF Hashed
<1>14. Counter'
    BY <1>1, <1>2, <1>13 DEF Counter
<1>15. WinnerIsSmallest' /\ NoNonceIsTrue' /\ CtxErrIsCallers'
    BY <1>2, <1>4 DEF WinnerIsSmallest, NoNonceIsTrue, CtxErrIsCallers
<1> QED BY <1>8, <1>12, <1>14, <1>15

(***************************************************************************)
(* stop() is only called with a block in the channel.                      *)
(***************************************************************************)
LEMMA StopMiner ==
    ASSUME MinerInv, NEW w \in Workers, Stop(w), TypeOK'
    PROVE  MinerInv'
<1> USE DEF MinerInv, callVars, loopVars, GoTo
<1>1. /\ pc[w] = "stop" /\ nonce[w] \in good /\ found # << >>
      /\ stride \in Nat \ {0}
    BY MinerAssumption DEF Stop, TypeOK, Loop, Reason, Sent
<1>2. UNCHANGED <<good, stride, nonce, tried, found, cancelled, hashes, outcome>>
    BY DEF Stop
<1>3. \A v \in Workers : pc'[v] = IF v = w THEN "leave" ELSE pc[v]
    BY DEF Stop, TypeOK
<1>4. Workers' = Workers /\ (ctxErr => ctxErr') /\ Nonces' = Nonces
    BY <1>2 DEF Workers, ctxErr, Nonces, Stop
<1>5. \A v \in Workers : Sent(v)' <=> Sent(v)
    BY <1>1, <1>2, <1>3 DEF Sent
<1>6. Loop'
    BY <1>1, <1>2, <1>3, <1>4, <1>5 DEF Loop, Place, Reason
<1>7. \A n \in Nonces : n % stride \in Workers
    BY <1>1, ShareOut DEF Workers
<1>8. Channel'
    <2>1. ASSUME NEW i \in 1..Len(found) PROVE FoundBy(i)'
        <3>1. FoundBy(i) /\ found[i] % stride \in Workers
            BY <1>7 DEF Channel, FoundBy, TypeOK
        <3> QED BY <3>1, <1>2, <1>5 DEF FoundBy
    <2> QED BY <2>1, <1>1, <1>2 DEF Channel
<1>9. Hashed' = Hashed
    BY <1>1, <1>2, <1>3, <1>4, <1>7 DEF Hashed
<1>10. Counter'
    BY <1>1, <1>2, <1>9 DEF Counter
<1>11. WinnerIsSmallest' /\ NoNonceIsTrue' /\ CtxErrIsCallers'
    BY <1>2, <1>4 DEF WinnerIsSmallest, NoNonceIsTrue, CtxErrIsCallers
<1> QED BY <1>6, <1>8, <1>10, <1>11

(***************************************************************************)
(* A worker that leaves adds as many hashes as it has tried nonces, none   *)
(* of which another worker has counted.                                    *)
(***************************************************************************)
LEMMA LeaveMiner ==
    ASSUME MinerInv, NEW w \in Workers, Leave(w), TypeOK'
    PROVE  MinerInv'
<1> USE DEF MinerInv, callVars, loopVars, GoTo
<1>1. pc[w] = "leave" /\ stride \in 1..MaxNonce /\ stride \in Nat \ {0}
    BY MinerAssumption DEF Leave, TypeOK
<1>2. UNCHANGED <<good, stride, nonce, tried, found, cancelled, stopped, outcome>>
    BY DEF Leave
<1>3. \A v \in Workers : pc'[v] = IF v = w THEN "done" ELSE pc[v]
    BY DEF Leave, TypeOK
<1>4. Workers' = Workers /\ ctxErr' = ctxErr /\ Nonces' = Nonces
    BY <1>2 DEF Workers, ctxErr, Nonces
<1>5. \A v \in Workers : Sent(v)' <=> Sent(v)
    BY <1>1, <1>2, <1>3 DEF Sent
<1>6. Loop'
    BY <1>1, <1>2, <1>3, <1>4, <1>5 DEF Loop, Place, Reason
<1>7. \A n \in Nonces : n % stride \in Workers
    BY <1>1, ShareOut DEF Workers
<1>8. Channel'
    <2>1. ASSUME NEW i \in 1..Len(found) PROVE FoundBy(i)'
        <3>1. FoundBy(i) /\ found[i] % stride \in Workers
            BY <1>7 DEF Channel, FoundBy, TypeOK
        <3> QED BY <3>1, <1>2, <1>5 DEF FoundBy
    <2> QED BY <2>1, <1>2 DEF Channel
<1> DEFINE C == {n \in Nonces : n % stride = w /\ n <= nonce[w]}
<1>9. IsFiniteSet(C) /\ Cardinality(C) = tried[w]
    <2>1. /\ w \in 0..(stride - 1) /\ nonce[w] \in Nonces /\ tried[w] \in Nat
          /\ tried[w] * stride = (nonce[w] - w) + stride
        BY <1>1 DEF TypeOK, Workers, Loop, Place
    <2> QED BY <1>1, <2>1, CountedSize
<1>10. Hashed' = Hashed \cup C /\ Hashed \cap C = {}
    BY <1>1, <1>2, <1>3, <1>4, <1>7 DEF Hashed
<1>11. Counter'
    <2> HIDE DEF C
    <2>1. /\ IsFiniteSet(Hashed \cup C)
          /\ Cardinality(Hashed \cup C) =
               Cardinality(Hashed) + Cardinality(C) - Cardinality(Hashed \cap C)
        BY <1>9, FS_Union DEF Counter
    <2>2. Cardinality(Hashed \cap C) = 0
        BY <1>10, FS_EmptySet
    <2>3. hashes' = hashes + tried[w] /\ hashes \in Nat /\ tried[w] \in Nat
        BY DEF Leave, TypeOK
    <2>4. outcome' = Running
        BY <1>1, <1>2 DEF Counter
    <2> QED BY <1>9, <1>10, <2>1, <2>2, <2>3, <2>4 DEF Counter
<1>12. WinnerIsSmallest' /\ NoNonceIsTrue' /\ CtxErrIsCallers'
    BY <1>2, <1>4 DEF WinnerIsSmallest, NoNonceIsTrue, CtxErrIsCallers
<1> QED BY <1>6, <1>8, <1>11, <1>12

(***************************************************************************)
(* A step in which the workers do not move keeps what is known of them.    *)
(***************************************************************************)
LEMMA StillMiner ==
    ASSUME MinerInv,
           UNCHANGED <<good, stride, nonce, tried, pc, found, stopped, hashes>>,
           cancelled => cancelled',
           outcome' # Running => \A w \in Workers : pc[w] = "done"
    PROVE  Loop' /\ Channel' /\ Counter'
<1> USE DEF MinerInv
<1>1. Workers' = Workers /\ (ctxErr => ctxErr') /\ Nonces' = Nonces
    BY DEF Workers, ctxErr, Nonces
<1>2. \A v \in Workers :
          (Place(v) => Place(v)') /\ (Reason(v) => Reason(v)') /\ (Sent(v)' <=> Sent(v))
    BY <1>1 DEF Place, Reason, Sent
<1>3. Loop'
    BY <1>1, <1>2 DEF Loop
<1>4. Channel'
    BY DEF Channel, FoundBy, Sent
<1>5. Hashed' = Hashed
    BY <1>1 DEF Hashed
<1> QED BY <1>1, <1>3, <1>4, <1>5 DEF Counter

LEMMA CancelMiner == MinerInv /\ Cancel /\ TypeOK' => MinerInv'
<1> SUFFICES ASSUME MinerInv, Cancel, TypeOK' PROVE MinerInv'
    OBVIOUS
<1>1. Loop' /\ Channel' /\ Counter'
    <2>1. outcome' = Running
        BY DEF Cancel
    <2> QED BY <2>1, StillMiner DEF Cancel, callVars, loopVars
<1>2. WinnerIsSmallest' /\ NoNonceIsTrue' /\ CtxErrIsCallers'
    BY DEF MinerInv, Cancel, callVars, WinnerIsSmallest, NoNonceIsTrue,
           CtxErrIsCallers, Nonces
<1> QED BY <1>1, <1>2 DEF MinerInv

(***************************************************************************)
(* MineWith returns: with the first block of the channel, the smallest of  *)
(* its worker; without one, with the caller's cancellation, or because the *)
(* workers between them have tried every nonce.                            *)
(***************************************************************************)
LEMMA ReturnMiner == MinerInv /\ Return /\ TypeOK' => MinerInv'
<1> SUFFICES ASSUME MinerInv, Return, TypeOK' PROVE MinerInv'
    OBVIOUS
<1> USE DEF MinerInv
<1>1. /\ \A w \in Workers : pc[w] = "done"
      /\ outcome' = Result
      /\ UNCHANGED <<good, stride, nonce, tried, pc, found, cancelled, stopped, hashes>>
      /\ stride \in 1..MaxNonce /\ stride \in Nat \ {0}
    BY MinerAssumption DEF Return, TypeOK, callVars, loopVars
<1>2. Loop' /\ Channel' /\ Counter'
    BY <1>1, StillMiner
<1>3. \A n \in Nonces : n \in Nat /\ n % stride \in Workers
    BY <1>1, ShareOut, MinerAssumption DEF Workers, Nonces
<1>4. CASE found # << >>
    <2>1. outcome' = Mined(Head(found)) /\ Head(found) = found[1] /\ 1 \in 1..Len(found)
        BY <1>1, <1>4, HeadTailProperties DEF Result, TypeOK
    <2>2. FoundBy(1) /\ found[1] \in Nonces
        BY <2>1 DEF Channel, FoundBy, TypeOK
    <2>3. \A m \in good : m % stride = found[1] % stride => found[1] <= m
        BY <2>2, <1>3 DEF FoundBy, Loop, Place
    <2>4. \A n \in Nonces : Mined(n) = outcome' => n = found[1]
        BY <2>1 DEF Mined
    <2>5. WinnerIsSmallest'
        BY <1>1, <2>2, <2>3, <2>4 DEF WinnerIsSmallest, FoundBy, Nonces
    <2>6. outcome' # NoNonce /\ outcome' # CtxErr
        BY <2>1 DEF Mined, NoNonce, CtxErr
    <2> QED BY <1>2, <2>5, <2>6 DEF NoNonceIsTrue, CtxErrIsCallers
<1>5. CASE found = << >> /\ ctxErr
    <2>1. outcome' = CtxErr /\ cancelled'
        BY <1>1, <1>5 DEF Result, ctxErr, Channel
    <2>2. outcome' # NoNonce /\ \A n : outcome' # Mined(n)
        BY <2>1 DEF Mined, NoNonce, CtxErr
    <2> QED BY <1>2, <2>1, <2>2 DEF NoNonceIsTrue, CtxErrIsCallers, WinnerIsSmallest
<1>6. CASE found = << >> /\ ~ctxErr
    <2>1. outcome' = NoNonce
        BY <1>1, <1>6 DEF Result
    <2>2. outcome' # CtxErr /\ \A n : outcome' # Mined(n)
        BY <2>1 DEF Mined, NoNonce, CtxErr
    <2>3. good = {}
        <3> SUFFICES ASSUME NEW m \in good PROVE FALSE
            OBVIOUS
        <3> DEFINE w == m % stride
        <3>1. m \in Nonces /\ m \in Nat /\ w \in Workers
            BY <1>3 DEF TypeOK
        <3> HIDE DEF w
        <3>2. nonce[w] \notin good /\ nonce[w] + stride > MaxNonce
            BY <3>1, <1>1, <1>6 DEF Loop, Reason, Sent
        <3>3. /\ nonce[w] \in Nat /\ nonce[w] <= m /\ nonce[w] # m
              /\ m % stride = nonce[w] % stride
            BY <3>1, <3>2, <1>3 DEF Loop, Place, TypeOK, w
        <3>4. nonce[w] + stride <= m
            BY <3>1, <3>3, <1>1, NextOfRemainder
        <3> QED BY <3>1, <3>2, <3>3, <3>4, <1>1, MinerAssumption DEF Nonces
    <2> QED BY <1>1, <1>2, <2>2, <2>3 DEF NoNonceIsTrue, CtxErrIsCallers, WinnerIsSmallest
<1> QED BY <1>4, <1>5, <1>6

(***************************************************************************)
(* The inductive step, action by action.                                   *)
(***************************************************************************)
LEMMA MinerStep == MinerInv /\ [Next]_vars => MinerInv'
<1> SUFFICES ASSUME MinerInv, [Next]_vars PROVE MinerInv'
    OBVIOUS
<1>1. TypeOK'
    BY TypeStep DEF MinerInv
<1>2. CASE UNCHANGED vars
    <2>1. Loop' /\ Channel' /\ Counter'
        BY <1>2, StillMiner DEF vars, callVars, loopVars, MinerInv, Counter
    <2> QED
        BY <1>1, <1>2, <2>1
           DEF vars, callVars, MinerInv, WinnerIsSmallest, NoNonceIsTrue,
               CtxErrIsCallers, Nonces
<1> QED
    BY <1>1, <1>2, TryMiner, SendMiner, StopMiner, LeaveMiner, CancelMiner,
       ReturnMiner DEF Next

-----------------------------------------------------------------------------
(***************************************************************************)
(* The nonces stay uint64 numbers, whatever the stride, and MineWith       *)
(* returns nothing but a block from the channel or one of its two errors.  *)
(***************************************************************************)
THEOREM MinerTypes == Spec => []TypeOK
<1>1. Init => TypeOK
    BY InitMiner DEF MinerInv
<1> QED BY <1>1, TypeStep, PTL DEF Spec

(***************************************************************************)
(* The inductive invariant: what each worker has passed over and why it    *)
(* left, what the channel holds, what the counter counts.                  *)
(***************************************************************************)
THEOREM MinerInvariant == Spec => []MinerInv
BY InitMiner, MinerStep, PTL DEF Spec

(***************************************************************************)
(* The block MineWith returns meets the difficulty and is the smallest of  *)
(* its worker: with one worker the smallest nonce there is, for any order  *)
(* of the goroutines.                                                      *)
(***************************************************************************)
THEOREM WinnersAreSmallest == Spec => []WinnerIsSmallest
<1>1. MinerInv => WinnerIsSmallest
    BY DEF MinerInv
<1> QED BY <1>1, MinerInvariant, PTL

(***************************************************************************)
(* MineWith never gives up a candidate that could be mined: the workers    *)
(* between them try every uint64, and the test for the wrap-around stops   *)
(* none of them early.                                                     *)
(***************************************************************************)
THEOREM GivingUpIsRight == Spec => []NoNonceIsTrue
<1>1. MinerInv => NoNonceIsTrue
    BY DEF MinerInv
<1> QED BY <1>1, MinerInvariant, PTL

(***************************************************************************)
(* A worker's stop() is never mistaken for the caller's cancellation.      *)
(***************************************************************************)
THEOREM ErrorsAreCallers == Spec => []CtxErrIsCallers
<1>1. MinerInv => CtxErrIsCallers
    BY DEF MinerInv
<1> QED BY <1>1, MinerInvariant, PTL

(***************************************************************************)
(* The hash count is exact: the counter's atomic additions are the sizes   *)
(* of disjoint sets of nonces.                                             *)
(***************************************************************************)
THEOREM HashesAreNonces == Spec => []HashesCountNonces
<1>1. MinerInv => HashesCountNonces
    <2> SUFFICES ASSUME MinerInv, outcome # Running
                 PROVE  hashes = Cardinality({n \in Nonces : n <= nonce[n % stride]})
        BY DEF HashesCountNonces
    <2>1. stride \in Nat \ {0} /\ \A w \in Workers : pc[w] = "done"
        BY MinerAssumption DEF MinerInv, TypeOK, Counter
    <2>2. \A n \in Nonces : pc[n % stride] = "done"
        BY <2>1, ShareOut DEF Workers
    <2>3. Hashed = {n \in Nonces : n <= nonce[n % stride]}
        BY <2>2 DEF Hashed
    <2> QED BY <2>3 DEF MinerInv, Counter
<1> QED BY <1>1, MinerInvariant, PTL

(***************************************************************************)
(* The channel's capacity is enough: a worker with a block to send finds   *)
(* at most one of each of the others in it.                                *)
(***************************************************************************)
THEOREM SendsNeverBlock == Spec => []SendNeverBlocks
<1>1. ASSUME MinerInv, NEW w \in Workers, pc[w] = "send"
      PROVE  Len(found) < stride
    <2> USE <1>1 DEF MinerInv
    <2>1. stride \in 1..MaxNonce /\ stride \in Nat \ {0} /\ Len(found) \in Nat
        BY MinerAssumption DEF TypeOK
    <2> DEFINE f == [i \in 1..Len(found) |-> found[i] % stride]
               Others == Workers \ {w}
    <2>2. ASSUME NEW i \in 1..Len(found)
          PROVE  found[i] % stride \in Others /\ found[i] = nonce[found[i] % stride]
        <3>1. FoundBy(i) /\ found[i] \in Nonces
            BY DEF Channel, TypeOK
        <3>2. found[i] % stride \in Workers
            BY <2>1, <3>1, ShareOut DEF Workers
        <3> QED BY <3>1, <3>2, <1>1 DEF FoundBy, Sent
    <2>3. f \in Injection(1..Len(found), Others)
        <3>1. f \in [1..Len(found) -> Others]
            BY <2>2
        <3>2. \A i, j \in 1..Len(found) : f[i] = f[j] => i = j
            BY <2>2 DEF Channel
        <3> HIDE DEF f, Others
        <3> QED BY <3>1, <3>2 DEF Injection, IsInjective
    <2>4. IsFiniteSet(Workers) /\ Cardinality(Workers) = stride
        BY <2>1, IntervalSizes DEF Workers
    <2>5. IsFiniteSet(Others) /\ Cardinality(Others) = stride - 1
        BY <2>4, FS_RemoveElement
    <2>6. Cardinality(1..Len(found)) = Len(found)
        BY <2>1, IntervalSizes
    <2>7. Cardinality(1..Len(found)) <= Cardinality(Others)
        <3> HIDE DEF f, Others
        <3> QED BY <2>3, <2>5, FS_Injection
    <2> QED BY <2>1, <2>5, <2>6, <2>7
<1>2. MinerInv => SendNeverBlocks
    BY <1>1 DEF SendNeverBlocks, Capacity
<1> QED BY <1>2, MinerInvariant, PTL
=============================================================================
