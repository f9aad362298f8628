----------------------------- MODULE NodeProofs -----------------------------
(***************************************************************************)
(* Proofs about Node, for any number of clients, any requests, any room in *)
(* a block, any number of failed saves, deaths and restarts: what the      *)
(* mutex, the order "change, save, answer" and the atomic save are for.    *)
(***************************************************************************)
EXTENDS Node, Induction, SequenceTheorems, FiniteSetTheorems

(***************************************************************************)
(* A request is only where a handler of its kind can be, and only while a  *)
(* process runs.                                                           *)
(***************************************************************************)
Handled ==
    /\ server = "down" =>
          chain = Fresh /\ \A c \in Clients : at[c] \notin InFlight
    /\ \A c \in Clients :
          /\ at[c] = "queueing" => asks[c] = "payment"
          /\ at[c] = "mining" => asks[c] = "block"
          /\ at[c] = "reading" => asks[c] = "read"
          /\ at[c] = "saving" => asks[c] # "read"

(***************************************************************************)
(* The block being mined is made of the head of the pool.                  *)
(***************************************************************************)
Candidate ==
    \A c \in Clients :
        at[c] = "mining" =>
            \E k \in 0..Len(chain.pending) : body = SubSeq(chain.pending, 1, k)

(***************************************************************************)
(* A history has only payments that were taken, each of them once.         *)
(***************************************************************************)
NotTaken == {"unmade", "waiting", "refused", "queueing"}

Holds(h, c) == \E i \in DOMAIN h : h[i] = c

Distinct(h) == \A i, j \in DOMAIN h : h[i] = h[j] => i = j

Genuine(h, kinds, places) ==
    /\ Distinct(h)
    /\ \A i \in DOMAIN h :
          kinds[h[i]] = "payment" /\ places[h[i]] \notin NotTaken

(***************************************************************************)
(* A payment is in memory before it is saved and in the file before it is  *)
(* answered; only a load may have dropped it since.                        *)
(***************************************************************************)
Kept ==
    \A c \in Clients :
        asks[c] = "payment" =>
            /\ at[c] = "saving" => Holds(History(chain), c)
            /\ at[c] = "accepted" => Holds(History(file), c) \/ c \in dropped

(***************************************************************************)
(* What a load dropped had been taken; it is gone from memory, and it is   *)
(* in no block.                                                            *)
(***************************************************************************)
Gone ==
    \A c \in dropped :
        /\ asks[c] = "payment" /\ at[c] \notin NotTaken
        /\ ~Holds(History(chain), c)
        /\ ~Holds(Flat(file.mined), c)

(***************************************************************************)
(* Without a failed save the memory is what a load of the file would make  *)
(* of it whenever no handler is between its change and its save, and so is *)
(* what a read is shown.                                                   *)
(***************************************************************************)
Shown ==
    (\A c \in Clients : at[c] # "not saved") =>
        /\ \A c \in Clients : Continues(file, seen[c], dropped)
        /\ server # "down" /\ (\A c \in Clients : at[c] # "saving") =>
              Continues(file, chain, dropped)

Books ==
    /\ Genuine(History(chain), asks, at)
    /\ Genuine(History(file), asks, at)
    /\ Kept
    /\ Gone
    /\ MemoryContinuesFile
    /\ Shown

NodeInv == TypeOK /\ Handled /\ Candidate /\ Books

-----------------------------------------------------------------------------
(***************************************************************************)
(* The recursion over the blocks that Flat is defined by does define it.   *)
(***************************************************************************)
FlatStep(bs, s, i) == s \o bs[i]

IsFlat(f, S, bs) ==
    /\ f \in [0..Len(bs) -> Seq(S)]
    /\ f[0] = << >>
    /\ \A i \in 1..Len(bs) : f[i] = FlatStep(bs, f[i - 1], i)

LEMMA FlatDef ==
    ASSUME NEW S, NEW bs \in Seq(Seq(S))
    PROVE  \E f : IsFlat(f, S, bs) /\ Flat(bs) = f[Len(bs)]
<1> DEFINE n == Len(bs)
           T == Seq(S)
           step == [p \in T \X (1..n) |-> FlatStep(bs, p[1], p[2])]
           Is(f) == f = [i \in 0..n |-> IF i = 0 THEN << >> ELSE FlatStep(bs, f[i - 1], i)]
<1>1. n \in Nat /\ << >> \in T /\ \A i \in 1..n : bs[i] \in T
    OBVIOUS
<1>2. \A s \in T, i \in 1..n : FlatStep(bs, s, i) \in T
    BY <1>1, ConcatProperties DEF FlatStep
<1> HIDE DEF T
<1>3. step \in [T \X (1..n) -> T]
    BY <1>2
<1>4. PICK f : Iteration(f, n, T, << >>, step)
    <2> HIDE DEF step, n
    <2> QED BY <1>1, <1>3, Iterates
<1>5. /\ f \in [0..n -> T]
      /\ \A i \in 0..n : f[i] = IF i = 0 THEN << >> ELSE step[<<f[i - 1], i>>]
    <2> HIDE DEF step, n
    <2> QED BY <1>4 DEF Iteration
<1>6. ASSUME NEW i \in 0..n
      PROVE  f[i] = IF i = 0 THEN << >> ELSE FlatStep(bs, f[i - 1], i)
    <2>1. CASE i = 0
        BY <1>5, <2>1
    <2>2. CASE i # 0
        <3>1. i \in 1..n /\ i - 1 \in 0..n
            BY <1>1, <2>2
        <3>2. <<f[i - 1], i>> \in T \X (1..n)
            BY <1>5, <3>1
        <3>3. step[<<f[i - 1], i>>] = FlatStep(bs, f[i - 1], i)
            BY <3>2
        <3> QED BY <1>5, <2>2, <3>3
    <2> QED BY <2>1, <2>2
<1>7. Is(f)
    BY <1>5, <1>6
<1> DEFINE r == CHOOSE g : Is(g)
<1>8. Flat(bs) = r[n]
    BY Zenon DEF Flat, FlatStep
<1>9. Is(r)
    <2> HIDE DEF Is
    <2> QED BY <1>7
<1> HIDE DEF r
<1>10. r[0] = << >> /\ \A i \in 1..n : r[i] = FlatStep(bs, r[i - 1], i)
    <2> HIDE DEF n, step
    <2> QED BY <1>1, <1>9
<1> DEFINE Good == {i \in 0..n : r[i] \in T}
<1>11. \A i \in 0..n : i \in Good
    <2>1. 0 \in Good
        BY <1>1, <1>10
    <2>2. \A i \in 1..n : i - 1 \in Good => i \in Good
        BY <1>1, <1>2, <1>10
    <2> HIDE DEF Good
    <2> QED BY <1>1, <2>1, <2>2, UpTo
<1>12. r = [i \in 0..n |-> r[i]]
    BY <1>9
<1>13. r \in [0..n -> T]
    BY <1>11, <1>12
<1> QED BY <1>8, <1>10, <1>13 DEF IsFlat, T

(***************************************************************************)
(* One more block adds its own requests at the end.                        *)
(***************************************************************************)
LEMMA FlatAppend ==
    ASSUME NEW S, NEW bs \in Seq(Seq(S)), NEW b \in Seq(S)
    PROVE  /\ Flat(bs) \in Seq(S)
           /\ Flat(Append(bs, b)) = Flat(bs) \o b
<1> DEFINE n == Len(bs)
           long == Append(bs, b)
<1>1. /\ n \in Nat /\ long \in Seq(Seq(S)) /\ Len(long) = n + 1
      /\ long[n + 1] = b /\ \A i \in 1..n : long[i] = bs[i]
    BY AppendProperties
<1>2. PICK f : IsFlat(f, S, bs) /\ Flat(bs) = f[n]
    BY FlatDef
<1>3. PICK g : IsFlat(g, S, long) /\ Flat(long) = g[Len(long)]
    <2> HIDE DEF long
    <2> QED BY <1>1, FlatDef
<1>4. f[n] \in Seq(S) /\ f[0] = << >> /\ \A i \in 1..n : f[i] = FlatStep(bs, f[i - 1], i)
    <2>1. n \in 0..n
        BY <1>1
    <2> QED BY <1>2, <2>1 DEF IsFlat
<1>5. g[0] = << >> /\ \A i \in 1..(n + 1) : g[i] = FlatStep(long, g[i - 1], i)
    BY <1>1, <1>3 DEF IsFlat
<1> HIDE DEF n, long
<1> DEFINE Good == {i \in 0..n : g[i] = f[i]}
<1>6. 0 \in Good
    BY <1>1, <1>4, <1>5
<1>7. ASSUME NEW i \in 1..n, i - 1 \in Good PROVE i \in Good
    <2>1. i \in 1..(n + 1) /\ g[i - 1] = f[i - 1]
        BY <1>1, <1>7
    <2>2. FlatStep(long, f[i - 1], i) = FlatStep(bs, f[i - 1], i)
        BY <1>1 DEF FlatStep
    <2> QED BY <1>1, <1>4, <1>5, <2>1, <2>2
<1>8. g[n] = f[n]
    <2> HIDE DEF Good
    <2>1. \A i \in 0..n : i \in Good
        BY <1>1, <1>6, <1>7, UpTo
    <2> QED BY <1>1, <2>1 DEF Good
<1>9. g[n + 1] = g[n] \o b
    <2>1. n + 1 \in 1..(n + 1) /\ (n + 1) - 1 = n
        BY <1>1
    <2>2. g[n + 1] = FlatStep(long, g[n], n + 1)
        BY <1>5, <2>1
    <2> QED BY <1>1, <2>2 DEF FlatStep
<1> QED BY <1>1, <1>2, <1>3, <1>4, <1>8, <1>9 DEF n, long

-----------------------------------------------------------------------------
(***************************************************************************)
(* What it is to extend a sequence.                                        *)
(***************************************************************************)
LEMMA ExtendsDef ==
    ASSUME NEW S, NEW l \in Seq(S), NEW s \in Seq(S)
    PROVE  Extends(l, s) <=>
             Len(s) <= Len(l) /\ \A i \in 1..Len(s) : l[i] = s[i]
<1> DEFINE p == SubSeq(l, 1, Len(s))
<1>1. Len(l) \in Nat /\ Len(s) \in Nat
    OBVIOUS
<1>2. CASE Len(s) <= Len(l)
    <2>1. \A i \in 1..Len(s) : l[i] \in S
        BY <1>1, <1>2
    <2>2. /\ p \in Seq(S)
          /\ Len(p) = IF 1 <= Len(s) THEN Len(s) - 1 + 1 ELSE 0
          /\ \A i \in 1..(Len(s) - 1 + 1) : p[i] = l[1 + i - 1]
        BY <1>1, <2>1, SubSeqProperties
    <2>3. Len(p) = Len(s) /\ \A i \in 1..Len(s) : p[i] = l[i]
        BY <1>1, <2>2
    <2> HIDE DEF p
    <2>4. (\A i \in 1..Len(s) : p[i] = s[i]) => p = s
        BY <2>2, <2>3, SeqEqual
    <2>5. p = s <=> \A i \in 1..Len(s) : l[i] = s[i]
        BY <2>3, <2>4
    <2> QED BY <1>1, <1>2, <2>5 DEF Extends, p
<1>3. CASE ~ (Len(s) <= Len(l))
    BY <1>1, <1>3 DEF Extends
<1> QED BY <1>2, <1>3

LEMMA ExtendsFacts ==
    ASSUME NEW S, NEW l \in Seq(S), NEW s \in Seq(S)
    PROVE  /\ Extends(l, l)
           /\ Extends(l, << >>)
           /\ \A t \in Seq(S) : Extends(l, s) /\ Extends(s, t) => Extends(l, t)
<1>1. Extends(l, l)
    BY ExtendsDef
<1>2. Extends(l, << >>)
    <2> DEFINE z == << >>
    <2>1. z \in Seq(S) /\ Len(z) = 0 /\ Len(l) \in Nat
        BY EmptySeq
    <2> HIDE DEF z
    <2>2. Len(z) <= Len(l) /\ \A i \in 1..Len(z) : l[i] = z[i]
        BY <2>1
    <2>3. Extends(l, z)
        BY <2>1, <2>2, ExtendsDef
    <2> QED BY <2>3 DEF z
<1>3. ASSUME NEW t \in Seq(S), Extends(l, s), Extends(s, t) PROVE Extends(l, t)
    <2>1. /\ Len(s) <= Len(l) /\ \A i \in 1..Len(s) : l[i] = s[i]
          /\ Len(t) <= Len(s) /\ \A i \in 1..Len(t) : s[i] = t[i]
        BY <1>3, ExtendsDef
    <2>2. Len(l) \in Nat /\ Len(s) \in Nat /\ Len(t) \in Nat
        OBVIOUS
    <2>3. Len(t) <= Len(l) /\ \A i \in 1..Len(t) : l[i] = t[i]
        BY <2>1, <2>2
    <2> QED BY <2>3, ExtendsDef
<1> QED BY <1>1, <1>2, <1>3

LEMMA ExtendsAppend ==
    ASSUME NEW S, NEW s \in Seq(S), NEW e \in S
    PROVE  Extends(Append(s, e), s)
<1> DEFINE l == Append(s, e)
<1>1. /\ l \in Seq(S) /\ Len(l) = Len(s) + 1 /\ Len(s) \in Nat
      /\ \A i \in 1..Len(s) : l[i] = s[i]
    BY AppendProperties
<1> HIDE DEF l
<1>2. Extends(l, s)
    BY <1>1, ExtendsDef
<1> QED BY <1>2 DEF l

LEMMA SubSeqType ==
    ASSUME NEW S, NEW s \in Seq(S), NEW m \in Nat \ {0}, NEW n \in Int, n <= Len(s)
    PROVE  SubSeq(s, m, n) \in Seq(S)
<1>1. \A i \in m..n : s[i] \in S
    OBVIOUS
<1> QED BY <1>1, SubSeqProperties

-----------------------------------------------------------------------------
(***************************************************************************)
(* What a load leaves of a sequence of requests.  What is true of the      *)
(* empty sequence and stays true as an element is appended is true of all. *)
(***************************************************************************)
LEMMA Appended ==
    ASSUME NEW S, NEW P,
           << >> \in P,
           \A s \in Seq(S), e \in S : s \in P => Append(s, e) \in P
    PROVE  \A s \in Seq(S) : s \in P
<1> SUFFICES ASSUME NEW s \in Seq(S) PROVE s \in P
    OBVIOUS
<1> DEFINE n == Len(s)
           Good == {k \in 0..n : SubSeq(s, 1, k) \in P}
<1>1. n \in Nat /\ \A i \in 1..n : s[i] \in S
    OBVIOUS
<1>2. 0 \in Good
    <2>1. SubSeq(s, 1, 0) = << >>
        BY SubSeqEmpty
    <2>2. SubSeq(s, 1, 0) \in P
        BY <2>1, Zenon
    <2> QED BY <1>1, <2>2
<1>3. ASSUME NEW k \in 1..n, k - 1 \in Good PROVE k \in Good
    <2> DEFINE p == SubSeq(s, 1, k - 1)
    <2>1. k - 1 \in Int /\ k - 1 <= Len(s) /\ 1 \in Nat \ {0}
        BY <1>1
    <2>2. p \in Seq(S) /\ p \in P /\ s[k] \in S
        BY <1>1, <1>3, <2>1, SubSeqType
    <2>3. SubSeq(s, 1, k) = Append(p, s[k])
        BY <1>1, SubSeqRecursiveSecond
    <2> HIDE DEF p
    <2>4. SubSeq(s, 1, k) \in P
        BY <2>2, <2>3
    <2> QED BY <2>4
<1>4. \A k \in 0..n : k \in Good
    <2> HIDE DEF Good, n
    <2> QED BY <1>1, <1>2, <1>3, UpTo
<1>5. n \in 0..n /\ SubSeq(s, 1, n) = s
    BY <1>1, SubSeqFull
<1> QED BY <1>4, <1>5

\* What is left of one request.
Piece(e, gone) == IF e \in gone THEN << >> ELSE <<e>>

LEMMA PieceType ==
    ASSUME NEW S, NEW e \in S, NEW gone
    PROVE  Piece(e, gone) \in Seq(S)
BY EmptySeq DEF Piece

LEMMA WithoutAppend ==
    ASSUME NEW S, NEW s \in Seq(S), NEW e \in S, NEW gone
    PROVE  /\ Without(s, gone) \in Seq(S)
           /\ Without(Append(s, e), gone) = Without(s, gone) \o Piece(e, gone)
<1> DEFINE pieces(t) == [i \in DOMAIN t |-> Piece(t[i], gone)]
           l == Append(s, e)
<1>1. /\ Len(s) \in Nat /\ l \in Seq(S) /\ Len(l) = Len(s) + 1
      /\ l[Len(s) + 1] = e /\ \A i \in 1..Len(s) : l[i] = s[i]
    BY AppendProperties
<1>2. ASSUME NEW t \in Seq(S)
      PROVE  /\ pieces(t) \in Seq(Seq(S)) /\ Len(pieces(t)) = Len(t)
             /\ \A i \in 1..Len(t) : pieces(t)[i] = Piece(t[i], gone)
    <2>1. DOMAIN t = 1..Len(t) /\ Len(t) \in Nat /\ \A i \in 1..Len(t) : t[i] \in S
        BY LenProperties
    <2>2. \A i \in 1..Len(t) : Piece(t[i], gone) \in Seq(S)
        BY <2>1, PieceType
    <2>3. pieces(t) \in [1..Len(t) -> Seq(S)]
        BY <2>1, <2>2
    <2> QED BY <2>1, <2>3, IsASeq, LenProperties
<1>3. \A t : Without(t, gone) = Flat(pieces(t))
    BY DEF Without, Piece
<1> HIDE DEF l, pieces
<1>4. pieces(l) = Append(pieces(s), Piece(e, gone))
    <2> DEFINE ps == pieces(s)
               qs == Append(ps, Piece(e, gone))
    <2>1. ps \in Seq(Seq(S)) /\ Piece(e, gone) \in Seq(S) /\ Len(ps) = Len(s)
        BY <1>2, PieceType
    <2> HIDE DEF ps
    <2>2. /\ qs \in Seq(Seq(S)) /\ Len(qs) = Len(s) + 1
          /\ qs[Len(s) + 1] = Piece(e, gone)
          /\ \A i \in 1..Len(s) : qs[i] = ps[i]
        BY <2>1, AppendProperties
    <2> HIDE DEF qs
    <2>3. pieces(l) \in Seq(Seq(S)) /\ Len(pieces(l)) = Len(s) + 1
        BY <1>1, <1>2
    <2>4. \A i \in 1..(Len(s) + 1) : pieces(l)[i] = Piece(l[i], gone)
        BY <1>1, <1>2
    <2>5. \A i \in 1..Len(s) : ps[i] = Piece(s[i], gone)
        BY <1>2 DEF ps
    <2>6. \A i \in 1..(Len(s) + 1) : i \in 1..Len(s) \/ i = Len(s) + 1
        BY <1>1
    <2>7. \A i \in 1..(Len(s) + 1) : pieces(l)[i] = qs[i]
        BY <1>1, <2>2, <2>4, <2>5, <2>6
    <2>8. pieces(l) = qs
        BY <2>2, <2>3, <2>7, SeqEqual
    <2> QED BY <2>8 DEF qs, ps
<1>5. pieces(s) \in Seq(Seq(S)) /\ Piece(e, gone) \in Seq(S)
    BY <1>2, PieceType
<1>6. /\ Flat(pieces(s)) \in Seq(S)
      /\ Flat(Append(pieces(s), Piece(e, gone))) = Flat(pieces(s)) \o Piece(e, gone)
    BY <1>5, FlatAppend
<1> QED BY <1>3, <1>4, <1>6 DEF l

LEMMA WithoutEmpty == \A gone : Without(<< >>, gone) = << >>
<1>1. << >> \in Seq(Seq({}))
    BY EmptySeq
<1>2. Flat(<< >>) = << >>
    <2>1. PICK f : IsFlat(f, {}, << >>) /\ Flat(<< >>) = f[Len(<< >>)]
        BY <1>1, FlatDef
    <2> QED BY <2>1 DEF IsFlat
<1>3. ASSUME NEW gone PROVE Without(<< >>, gone) = << >>
    <2>1. [i \in DOMAIN << >> |-> IF << >>[i] \in gone THEN << >> ELSE << << >>[i]>>] = << >>
        OBVIOUS
    <2> QED BY <1>2, <2>1 DEF Without
<1> QED BY <1>3

LEMMA WithoutPiece ==
    ASSUME NEW S, NEW e \in S, NEW some, NEW more
    PROVE  Without(Piece(e, some), more) = Piece(e, some \union more)
<1>1. << >> \in Seq(S)
    BY EmptySeq
<1>2. Append(<< >>, e) = <<e>>
    OBVIOUS
<1>3. Without(Append(<< >>, e), more) = << >> \o Piece(e, more)
    <2>1. \A t \in Seq(S) :
              Without(Append(t, e), more) = Without(t, more) \o Piece(e, more)
        BY WithoutAppend
    <2> QED BY <1>1, <2>1, WithoutEmpty, Zenon
<1>4. << >> \o Piece(e, more) = Piece(e, more)
    BY PieceType, ConcatEmptySeq
<1>5. Without(<<e>>, more) = Piece(e, more)
    BY <1>2, <1>3, <1>4
<1> QED BY <1>5, WithoutEmpty DEF Piece

(***************************************************************************)
(* Leaving some out of a whole is leaving them out of its parts.           *)
(***************************************************************************)
LEMMA AppendConcat ==
    ASSUME NEW S, NEW s \in Seq(S), NEW t \in Seq(S), NEW e \in S
    PROVE  s \o Append(t, e) = Append(s \o t, e)
<1>1. s \o t \in Seq(S) /\ <<e>> \in Seq(S)
    BY ConcatProperties
<1>2. Append(t, e) = t \o <<e>> /\ Append(s \o t, e) = (s \o t) \o <<e>>
    BY <1>1, AppendIsConcat
<1>3. (s \o t) \o <<e>> = s \o (t \o <<e>>)
    BY <1>1, ConcatAssociative
<1> QED BY <1>2, <1>3

LEMMA WithoutConcat ==
    ASSUME NEW S, NEW s \in Seq(S), NEW t \in Seq(S), NEW gone
    PROVE  Without(s \o t, gone) = Without(s, gone) \o Without(t, gone)
<1> DEFINE W(x) == Without(x, gone)
           Splits(x) == W(s \o x) = W(s) \o W(x)
           P == {x \in Seq(S) : Splits(x)}
<1>1. \A x \in Seq(S) : W(x) \in Seq(S)
    <2>1. CASE S = {}
        <3>1. \A x \in Seq(S) : x = << >>
            BY <2>1
        <3> QED BY <3>1, WithoutEmpty, EmptySeq
    <2>2. CASE S # {}
        <3>1. PICK e : e \in S
            BY <2>2
        <3> QED BY <3>1, WithoutAppend
    <2> QED BY <2>1, <2>2
<1>2. << >> \in P
    <2>1. W(<< >>) = << >>
        BY WithoutEmpty
    <2>2. s \o << >> = s /\ W(s) \o << >> = W(s)
        BY <1>1, ConcatEmptySeq
    <2> QED BY <2>1, <2>2, EmptySeq
<1>3. ASSUME NEW x \in Seq(S), NEW e \in S, x \in P PROVE Append(x, e) \in P
    <2> DEFINE y == Append(x, e)
               q == Piece(e, gone)
    <2>1. s \o x \in Seq(S) /\ q \in Seq(S) /\ y \in Seq(S)
        BY ConcatProperties, PieceType, AppendProperties
    <2>2. s \o y = Append(s \o x, e)
        BY AppendConcat
    <2>3. W(Append(s \o x, e)) = W(s \o x) \o q
        BY <2>1, WithoutAppend
    <2>4. W(y) = W(x) \o q
        BY WithoutAppend
    <2>5. W(s \o x) = W(s) \o W(x)
        BY <1>3
    <2>6. (W(s) \o W(x)) \o q = W(s) \o (W(x) \o q)
        <3> DEFINE a == W(s)
                   b == W(x)
        <3>1. a \in Seq(S) /\ b \in Seq(S)
            BY <1>1
        <3> HIDE DEF a, b, q
        <3>2. (a \o b) \o q = a \o (b \o q)
            BY <2>1, <3>1, ConcatAssociative, SMTT(30)
        <3> QED BY <3>2 DEF a, b
    <2> HIDE DEF W, q
    <2>7. Splits(y)
        BY <2>2, <2>3, <2>4, <2>5, <2>6
    <2> HIDE DEF y, Splits
    <2>8. y \in P
        BY <2>1, <2>7
    <2> QED BY <2>8 DEF y
<1> HIDE DEF P
<1>4. t \in P
    BY <1>2, <1>3, Appended
<1> QED BY <1>4 DEF P

LEMMA WithoutType ==
    ASSUME NEW S, NEW s \in Seq(S), NEW gone
    PROVE  Without(s, gone) \in Seq(S)
<1>1. CASE S = {}
    <2>1. s = << >>
        BY <1>1
    <2> QED BY <2>1, WithoutEmpty, EmptySeq
<1>2. CASE S # {}
    BY <1>2, WithoutAppend
<1> QED BY <1>1, <1>2

LEMMA WithoutTwice ==
    ASSUME NEW S, NEW s \in Seq(S), NEW some, NEW more
    PROVE  Without(Without(s, some), more) = Without(s, some \union more)
<1> DEFINE W(x) == Without(x, some)
           V(x) == Without(x, more)
           U(x) == Without(x, some \union more)
           Agree(x) == V(W(x)) = U(x)
           P == {x \in Seq(S) : Agree(x)}
<1>1. << >> \in P
    BY WithoutEmpty, EmptySeq
<1>2. ASSUME NEW x \in Seq(S), NEW e \in S, x \in P PROVE Append(x, e) \in P
    <2> DEFINE y == Append(x, e)
               q == Piece(e, some)
               r == Piece(e, some \union more)
    <2>1. y \in Seq(S) /\ q \in Seq(S) /\ W(x) \in Seq(S)
        <3>1. W(x) \in Seq(S)
            BY WithoutType
        <3>2. q \in Seq(S)
            BY PieceType
        <3> QED BY <3>1, <3>2, AppendProperties
    <2>2. W(y) = W(x) \o q /\ U(y) = U(x) \o r
        <3>1. ASSUME NEW gone
              PROVE  Without(y, gone) = Without(x, gone) \o Piece(e, gone)
            BY WithoutAppend
        <3> QED BY <3>1, Zenon
    <2>3. V(W(x) \o q) = V(W(x)) \o V(q)
        <3> HIDE DEF W, q
        <3> QED BY <2>1, WithoutConcat
    <2>4. V(q) = r
        BY WithoutPiece
    <2>5. V(W(x)) = U(x)
        BY <1>2
    <2> HIDE DEF W, V, U, q, r
    <2>6. Agree(y)
        BY <2>2, <2>3, <2>4, <2>5
    <2> HIDE DEF y, Agree
    <2>7. y \in P
        BY <2>1, <2>6
    <2> QED BY <2>7 DEF y
<1> HIDE DEF P
<1>3. s \in P
    BY <1>1, <1>2, Appended
<1> QED BY <1>3 DEF P

(***************************************************************************)
(* What is left: the same elements but those, each as often as before.     *)
(***************************************************************************)
LEMMA AppendHolds ==
    ASSUME NEW S, NEW s \in Seq(S), NEW e \in S
    PROVE  /\ \A c : Holds(Append(s, e), c) <=> Holds(s, c) \/ c = e
           /\ Distinct(Append(s, e)) <=> Distinct(s) /\ ~Holds(s, e)
<1> DEFINE n == Len(s)
           l == Append(s, e)
<1>1. /\ n \in Nat /\ DOMAIN s = 1..n /\ l \in Seq(S) /\ Len(l) = n + 1
      /\ \A i \in 1..n : l[i] = s[i]
      /\ l[n + 1] = e
    BY AppendProperties, LenProperties
<1>2. DOMAIN l = 1..(n + 1)
    <2> HIDE DEF l
    <2> QED BY <1>1, LenProperties
<1> HIDE DEF l, n
<1>3. /\ \A i \in 1..(n + 1) : i \in 1..n \/ i = n + 1
      /\ \A i \in 1..n : i \in 1..(n + 1)
      /\ n + 1 \in 1..(n + 1) /\ n + 1 \notin 1..n
    BY <1>1
<1>4. \A c : Holds(l, c) <=> Holds(s, c) \/ c = e
    BY <1>1, <1>2, <1>3 DEF Holds
<1>5. Distinct(l) => Distinct(s) /\ ~Holds(s, e)
    BY <1>1, <1>2, <1>3 DEF Holds, Distinct
<1>6. Distinct(s) /\ ~Holds(s, e) => Distinct(l)
    BY <1>1, <1>2, <1>3 DEF Holds, Distinct
<1> QED BY <1>4, <1>5, <1>6 DEF l

LEMMA WithoutKeeps ==
    ASSUME NEW S, NEW s \in Seq(S), NEW gone
    PROVE  /\ \A c : Holds(Without(s, gone), c) <=> Holds(s, c) /\ c \notin gone
           /\ Distinct(s) => Distinct(Without(s, gone))
           /\ (\A c \in gone : ~Holds(s, c)) => Without(s, gone) = s
<1> DEFINE W(x) == Without(x, gone)
           Same(x) == \A c : Holds(W(x), c) <=> Holds(x, c) /\ c \notin gone
           Once(x) == Distinct(x) => Distinct(W(x))
           All(x) == (\A c \in gone : ~Holds(x, c)) => W(x) = x
           P == {x \in Seq(S) : Same(x) /\ Once(x) /\ All(x)}
<1>1. << >> \in P
    BY WithoutEmpty, EmptySeq DEF Holds
<1>2. ASSUME NEW x \in Seq(S), NEW e \in S, x \in P PROVE Append(x, e) \in P
    <2> DEFINE y == Append(x, e)
    <2>1. y \in Seq(S) /\ W(x) \in Seq(S)
        BY AppendProperties, WithoutType
    <2>2. W(y) = W(x) \o Piece(e, gone)
        BY WithoutAppend
    <2>3. W(y) = IF e \in gone THEN W(x) ELSE Append(W(x), e)
        <3>1. W(x) \o << >> = W(x) /\ Append(W(x), e) = W(x) \o <<e>>
            BY <2>1, ConcatEmptySeq, AppendIsConcat
        <3> QED BY <2>2, <3>1 DEF Piece
    <2>4. /\ \A c : Holds(y, c) <=> Holds(x, c) \/ c = e
          /\ Distinct(y) <=> Distinct(x) /\ ~Holds(x, e)
        BY AppendHolds
    <2>5. /\ \A c : Holds(Append(W(x), e), c) <=> Holds(W(x), c) \/ c = e
          /\ Distinct(Append(W(x), e)) <=> Distinct(W(x)) /\ ~Holds(W(x), e)
        BY <2>1, AppendHolds
    <2>6. Same(x) /\ Once(x) /\ All(x)
        BY <1>2
    <2> HIDE DEF W
    <2>7. Same(y)
        BY <2>3, <2>4, <2>5, <2>6
    <2>8. Once(y)
        BY <2>3, <2>4, <2>5, <2>6
    <2>9. All(y)
        BY <2>3, <2>4, <2>6
    <2> HIDE DEF y, Same, Once, All
    <2>10. y \in P
        BY <2>1, <2>7, <2>8, <2>9
    <2> QED BY <2>10 DEF y
<1> HIDE DEF P
<1>3. s \in P
    BY <1>1, <1>2, Appended
<1> QED BY <1>3 DEF P

LEMMA ConcatHolds ==
    ASSUME NEW S, NEW s \in Seq(S), NEW t \in Seq(S)
    PROVE  /\ \A c : Holds(s \o t, c) <=> Holds(s, c) \/ Holds(t, c)
           /\ Distinct(s \o t) => \A c : ~(Holds(s, c) /\ Holds(t, c))
<1> DEFINE m == Len(s)
           n == Len(t)
           l == s \o t
<1>1. /\ m \in Nat /\ n \in Nat /\ DOMAIN s = 1..m /\ DOMAIN t = 1..n
      /\ l \in Seq(S) /\ Len(l) = m + n
      /\ \A i \in 1..(m + n) : l[i] = IF i <= m THEN s[i] ELSE t[i - m]
    BY ConcatProperties, LenProperties
<1>2. DOMAIN l = 1..(m + n)
    <2> HIDE DEF l
    <2> QED BY <1>1, LenProperties
<1> HIDE DEF l, m, n
<1>3. /\ \A i \in 1..m : i \in DOMAIN l /\ l[i] = s[i]
      /\ \A i \in 1..n : m + i \in DOMAIN l /\ l[m + i] = t[i] /\ m + i \notin 1..m
      /\ \A i \in DOMAIN l : i \in 1..m \/ i - m \in 1..n
      /\ \A i \in DOMAIN l : i - m \in 1..n => l[i] = t[i - m]
    BY <1>1, <1>2
<1>4. \A c : Holds(s, c) \/ Holds(t, c) => Holds(l, c)
    BY <1>1, <1>3 DEF Holds
<1>5. \A c : Holds(l, c) => Holds(s, c) \/ Holds(t, c)
    BY <1>1, <1>3 DEF Holds
<1>6. ASSUME Distinct(l), NEW c, Holds(s, c), Holds(t, c) PROVE FALSE
    <2>1. PICK i \in 1..m : s[i] = c
        BY <1>1, <1>6 DEF Holds
    <2>2. PICK j \in 1..n : t[j] = c
        BY <1>1, <1>6 DEF Holds
    <2>3. i = m + j
        BY <1>3, <1>6, <2>1, <2>2 DEF Distinct
    <2> QED BY <1>3, <2>1, <2>2, <2>3
<1> QED BY <1>4, <1>5, <1>6 DEF l

(***************************************************************************)
(* What extends a sequence is it and more, so what is left of the longer   *)
(* one extends what is left of the shorter one.                            *)
(***************************************************************************)
LEMMA WithoutExtends ==
    ASSUME NEW S, NEW l \in Seq(S), NEW s \in Seq(S), NEW gone, Extends(l, s)
    PROVE  Extends(Without(l, gone), Without(s, gone))
<1> DEFINE W(x) == Without(x, gone)
           m == Len(s)
           n == Len(l)
           r == SubSeq(l, m + 1, n)
<1>1. m \in Nat /\ n \in Nat /\ m <= n /\ SubSeq(l, 1, m) = s
    BY DEF Extends
<1>2. r \in Seq(S)
    <2>1. m + 1 \in Nat \ {0} /\ n \in Int /\ n <= Len(l)
        BY <1>1
    <2> QED BY <2>1, SubSeqType
<1>3. s \o r = l
    <2>1. 1 \in 1..(n + 1) /\ m \in 1 - 1..n /\ n \in m..n
        BY <1>1
    <2>2. SubSeq(l, 1, m) \o r = SubSeq(l, 1, n)
        BY <2>1, ConcatAdjacentSubSeq
    <2> QED BY <1>1, <2>2, SubSeqFull
<1>4. W(l) = W(s) \o W(r) /\ W(s) \in Seq(S) /\ W(r) \in Seq(S)
    <2> HIDE DEF r
    <2>1. W(s \o r) = W(s) \o W(r)
        BY <1>2, WithoutConcat
    <2>2. W(s) \in Seq(S) /\ W(r) \in Seq(S)
        BY <1>2, WithoutType
    <2> QED BY <1>3, <2>1, <2>2
<1> HIDE DEF W, r
<1>5. W(l) \in Seq(S) /\ Len(W(l)) = Len(W(s)) + Len(W(r))
    BY <1>4, ConcatProperties
<1>6. \A i \in 1..Len(W(s)) : W(l)[i] = W(s)[i]
    <2>1. Len(W(s)) \in Nat /\ Len(W(r)) \in Nat
        BY <1>4
    <2>2. \A i \in 1..(Len(W(s)) + Len(W(r))) :
              (W(s) \o W(r))[i] = IF i <= Len(W(s)) THEN W(s)[i]
                                  ELSE W(r)[i - Len(W(s))]
        BY <1>4, ConcatProperties
    <2> QED BY <1>4, <2>1, <2>2
<1>7. Len(W(s)) <= Len(W(l))
    BY <1>4, <1>5
<1>8. Extends(W(l), W(s))
    BY <1>4, <1>5, <1>6, <1>7, ExtendsDef
<1> QED BY <1>8 DEF W

-----------------------------------------------------------------------------
(***************************************************************************)
(* Histories.  Queueing adds a request at the end; mining moves the head   *)
(* of the pool into a block and leaves the history as it is.               *)
(***************************************************************************)
LEMMA HistoryType ==
    ASSUME NEW ch \in Chains
    PROVE  /\ ch.mined \in Seq(Seq(Clients)) /\ ch.pending \in Seq(Clients)
           /\ History(ch) \in Seq(Clients)
<1>1. ch.mined \in Seq(Seq(Clients)) /\ ch.pending \in Seq(Clients)
    BY DEF Chains
<1>2. Flat(ch.mined) \in Seq(Clients)
    BY <1>1, FlatAppend, EmptySeq
<1>3. Flat(ch.mined) \o ch.pending \in Seq(Clients)
    BY <1>1, <1>2, ConcatProperties
<1> QED BY <1>1, <1>3 DEF History

LEMMA FreshHistory == Fresh \in Chains /\ History(Fresh) = << >>
<1>1. << >> \in Seq(Seq(Clients)) /\ << >> \in Seq(Clients)
    BY EmptySeq
<1>2. Flat(<< >>) = << >>
    <2>1. PICK f : IsFlat(f, Clients, << >>) /\ Flat(<< >>) = f[Len(<< >>)]
        BY <1>1, FlatDef
    <2> QED BY <2>1 DEF IsFlat
<1>3. << >> \o << >> = << >>
    OBVIOUS
<1>4. Fresh.mined = << >> /\ Fresh.pending = << >> /\ Fresh \in Chains
    BY <1>1 DEF Fresh, Chains
<1> QED BY <1>2, <1>3, <1>4 DEF History

LEMMA HistoryQueued ==
    ASSUME NEW ch \in Chains, NEW c \in Clients
    PROVE  LET next == [ch EXCEPT !.pending = Append(@, c)]
           IN  /\ next \in Chains
               /\ next.mined = ch.mined
               /\ History(next) = Append(History(ch), c)
<1> DEFINE next == [ch EXCEPT !.pending = Append(@, c)]
           F == Flat(ch.mined)
           p == ch.pending
<1>1. /\ ch.mined \in Seq(Seq(Clients)) /\ p \in Seq(Clients)
      /\ F \o p \in Seq(Clients)
    BY HistoryType DEF History
<1>2. F \in Seq(Clients)
    BY <1>1, FlatAppend, EmptySeq
<1>3. Append(p, c) \in Seq(Clients) /\ <<c>> \in Seq(Clients)
    BY <1>1, AppendProperties
<1>4. next \in Chains /\ next.mined = ch.mined /\ next.pending = Append(p, c)
    BY <1>1, <1>3 DEF Chains
<1>5. F \o Append(p, c) = Append(F \o p, c)
    <2> HIDE DEF F, p
    <2>1. Append(p, c) = p \o <<c>> /\ Append(F \o p, c) = (F \o p) \o <<c>>
        BY <1>1, AppendIsConcat
    <2> QED BY <2>1, <1>1, <1>2, <1>3, ConcatAssociative
<1> HIDE DEF next
<1>6. History(next) = Append(History(ch), c)
    BY <1>4, <1>5 DEF History
<1> QED BY <1>4, <1>6 DEF next

LEMMA HistoryMined ==
    ASSUME NEW ch \in Chains, NEW k \in 0..Len(ch.pending)
    PROVE  LET p == ch.pending
               next == [mined   |-> Append(ch.mined, SubSeq(p, 1, k)),
                        pending |-> SubSeq(p, k + 1, Len(p))]
           IN  /\ next \in Chains
               /\ Len(SubSeq(p, 1, k)) = k
               /\ History(next) = History(ch)
<1> DEFINE p == ch.pending
           b == SubSeq(p, 1, k)
           rest == SubSeq(p, k + 1, Len(p))
           F == Flat(ch.mined)
           next == [mined |-> Append(ch.mined, b), pending |-> rest]
<1>1. ch.mined \in Seq(Seq(Clients)) /\ p \in Seq(Clients)
    BY HistoryType
<1>2. Len(p) \in Nat /\ k \in 0..Len(p) /\ \A i \in 1..Len(p) : p[i] \in Clients
    BY <1>1
<1> HIDE DEF p
<1>3. b \in Seq(Clients) /\ Len(b) = k
    <2>1. \A i \in 1..k : p[i] \in Clients
        BY <1>2
    <2>2. Len(b) = IF 1 <= k THEN k - 1 + 1 ELSE 0
        BY <1>2, <2>1, SubSeqProperties
    <2>3. b \in Seq(Clients)
        BY <1>2, <2>1, SubSeqProperties
    <2> QED BY <1>2, <2>2, <2>3
<1>4. rest \in Seq(Clients)
    <2>1. \A i \in (k + 1)..Len(p) : p[i] \in Clients
        BY <1>2
    <2> QED BY <1>2, <2>1, SubSeqProperties
<1>5. b \o rest = p
    <2>1. 1 \in 1..(Len(p) + 1) /\ k \in 1 - 1..Len(p) /\ Len(p) \in k..Len(p)
        BY <1>2
    <2>2. b \o rest = SubSeq(p, 1, Len(p))
        BY <1>1, <2>1, ConcatAdjacentSubSeq
    <2> QED BY <1>1, <2>2, SubSeqFull
<1>6. F \in Seq(Clients) /\ Flat(Append(ch.mined, b)) = F \o b
    <2> HIDE DEF b
    <2> QED BY <1>1, <1>3, FlatAppend
<1>7. next \in Chains
    <2>1. Append(ch.mined, b) \in Seq(Seq(Clients))
        <3> HIDE DEF b
        <3> QED BY <1>1, <1>3, AppendProperties
    <2> QED BY <2>1, <1>4 DEF Chains
<1> HIDE DEF b, rest, F
<1>8. (F \o b) \o rest = F \o p
    <2>1. F \in Seq(Clients)
        BY <1>6
    <2>2. b \in Seq(Clients)
        BY <1>3
    <2>3. (F \o b) \o rest = F \o (b \o rest)
        BY <1>4, <2>1, <2>2, ConcatAssociative, SMTT(30)
    <2> QED BY <1>5, <2>3
<1>9. History(next) = (F \o b) \o rest
    BY <1>6 DEF History
<1>10. History(ch) = F \o p
    BY DEF History, F, p
<1> QED BY <1>3, <1>7, <1>8, <1>9, <1>10 DEF b, rest, p

-----------------------------------------------------------------------------
(***************************************************************************)
(* What it is to continue a chain, whatever loads have dropped.            *)
(***************************************************************************)
LEMMA ContinuesFacts ==
    ASSUME NEW ch \in Chains, NEW gone
    PROVE  /\ Continues(ch, ch, gone)
           /\ Continues(ch, Fresh, gone)
           /\ \A a, b \in Chains :
                 Continues(ch, a, gone) /\ Continues(a, b, gone) =>
                     Continues(ch, b, gone)
<1> DEFINE R(x) == Without(History(x), gone)
<1>1. \A x \in Chains : x.mined \in Seq(Seq(Clients)) /\ R(x) \in Seq(Clients)
    BY HistoryType, WithoutType
<1>2. /\ Fresh \in Chains /\ R(Fresh) = << >> /\ Fresh.mined = << >>
    BY FreshHistory, WithoutEmpty DEF Fresh
<1>3. ASSUME NEW S, NEW l \in Seq(S), NEW x \in Seq(S), NEW y \in Seq(S)
      PROVE  /\ Extends(l, l) /\ Extends(l, << >>)
             /\ Extends(l, x) /\ Extends(x, y) => Extends(l, y)
    BY ExtendsFacts
<1>4. \A l, x, y \in Seq(Seq(Clients)) :
          /\ Extends(l, l) /\ Extends(l, << >>)
          /\ Extends(l, x) /\ Extends(x, y) => Extends(l, y)
    BY <1>3
<1>5. \A l, x, y \in Seq(Clients) :
          /\ Extends(l, l) /\ Extends(l, << >>)
          /\ Extends(l, x) /\ Extends(x, y) => Extends(l, y)
    BY <1>3
<1>6. \A a, b : Continues(a, b, gone) <=> Extends(a.mined, b.mined) /\ Extends(R(a), R(b))
    BY DEF Continues
<1> HIDE DEF R
<1>7. Continues(ch, ch, gone) /\ Continues(ch, Fresh, gone)
    <2>1. Extends(ch.mined, ch.mined) /\ Extends(ch.mined, << >>)
        BY <1>1, <1>4
    <2>2. Extends(R(ch), R(ch)) /\ Extends(R(ch), << >>)
        BY <1>1, <1>5
    <2> QED BY <1>2, <1>6, <2>1, <2>2, Zenon
<1>8. ASSUME NEW a \in Chains, NEW b \in Chains,
             Continues(ch, a, gone), Continues(a, b, gone)
      PROVE  Continues(ch, b, gone)
    <2>1. Extends(ch.mined, a.mined) /\ Extends(a.mined, b.mined)
        BY <1>6, <1>8, Zenon
    <2>2. Extends(R(ch), R(a)) /\ Extends(R(a), R(b))
        BY <1>6, <1>8, Zenon
    <2>3. Extends(ch.mined, b.mined)
        BY <1>1, <1>4, <2>1, Zenon
    <2>4. Extends(R(ch), R(b))
        BY <1>1, <1>5, <2>2, Zenon
    <2> QED BY <1>6, <2>3, <2>4, Zenon
<1> QED BY <1>7, <1>8

(***************************************************************************)
(* It holds up when more is dropped, and it follows from having the same   *)
(* blocks and more and the same history and more.                          *)
(***************************************************************************)
LEMMA ContinuesStill ==
    ASSUME NEW a \in Chains, NEW b \in Chains, NEW some, NEW more,
           Continues(a, b, some)
    PROVE  Continues(a, b, some \union more)
<1> DEFINE h == History(a)
           g == History(b)
<1>1. h \in Seq(Clients) /\ g \in Seq(Clients)
    BY HistoryType
<1>2. Without(h, some) \in Seq(Clients) /\ Without(g, some) \in Seq(Clients)
    BY <1>1, WithoutType
<1>3. Extends(Without(h, some), Without(g, some)) /\ Extends(a.mined, b.mined)
    BY DEF Continues
<1> HIDE DEF h, g
<1>4. Extends(Without(Without(h, some), more), Without(Without(g, some), more))
    BY <1>2, <1>3, WithoutExtends
<1>5. /\ Without(Without(h, some), more) = Without(h, some \union more)
      /\ Without(Without(g, some), more) = Without(g, some \union more)
    BY <1>1, WithoutTwice
<1> QED BY <1>3, <1>4, <1>5 DEF Continues, h, g

LEMMA ContinuesIf ==
    ASSUME NEW a \in Chains, NEW b \in Chains, NEW gone,
           Extends(a.mined, b.mined), Extends(History(a), History(b))
    PROVE  Continues(a, b, gone)
<1>1. History(a) \in Seq(Clients) /\ History(b) \in Seq(Clients)
    BY HistoryType
<1> QED BY <1>1, WithoutExtends DEF Continues

(***************************************************************************)
(* What a load makes of a file: its blocks, and of its pending payments    *)
(* those that are not dropped.                                             *)
(***************************************************************************)
LEMMA LoadFacts ==
    ASSUME NEW ch \in Chains, NEW gone,
           \A c \in gone : ~Holds(Flat(ch.mined), c)
    PROVE  LET next == [ch EXCEPT !.pending = Without(@, gone)]
           IN  /\ next \in Chains
               /\ next.mined = ch.mined
               /\ History(next) = Without(History(ch), gone)
               /\ Continues(next, ch, gone) /\ Continues(ch, next, gone)
<1> DEFINE F == Flat(ch.mined)
           p == ch.pending
           next == [ch EXCEPT !.pending = Without(@, gone)]
<1>1. ch.mined \in Seq(Seq(Clients)) /\ p \in Seq(Clients) /\ F \in Seq(Clients)
    BY HistoryType, FlatAppend, EmptySeq
<1>2. Without(p, gone) \in Seq(Clients)
    BY <1>1, WithoutType
<1>3. next \in Chains /\ next.mined = ch.mined /\ next.pending = Without(p, gone)
    BY <1>1, <1>2 DEF Chains
<1>4. Without(F, gone) = F
    BY <1>1, WithoutKeeps
<1> HIDE DEF next, F, p
<1>5. Without(F \o p, gone) = Without(F, gone) \o Without(p, gone)
    BY <1>1, WithoutConcat
<1>6. History(ch) = F \o p /\ History(next) = F \o Without(p, gone)
    BY <1>3 DEF History, F, p
<1>7. History(next) = Without(History(ch), gone)
    BY <1>4, <1>5, <1>6
<1>8. Without(History(next), gone) = Without(History(ch), gone)
    <2>1. History(ch) \in Seq(Clients)
        BY HistoryType
    <2>2. Without(Without(History(ch), gone), gone) = Without(History(ch), gone \union gone)
        BY <2>1, WithoutTwice
    <2> QED BY <1>7, <2>2
<1>9. Continues(next, ch, gone) /\ Continues(ch, next, gone)
    <2>1. Continues(ch, ch, gone)
        BY ContinuesFacts
    <2> QED BY <1>3, <1>8, <2>1 DEF Continues
<1> QED BY <1>3, <1>7, <1>9 DEF next

(***************************************************************************)
(* A history stays genuine while no request in it goes back to where it    *)
(* had not been taken; taking one more that was not makes a genuine one.   *)
(***************************************************************************)
LEMMA StillGenuine ==
    ASSUME NEW h \in Seq(Clients), NEW kinds, NEW before, NEW after,
           Genuine(h, kinds, before),
           \A c \in Clients :
               kinds[c] = "payment" /\ after[c] \in NotTaken => before[c] \in NotTaken
    PROVE  Genuine(h, kinds, after)
<1>1. \A i \in DOMAIN h : h[i] \in Clients
    BY LenProperties
<1> QED BY <1>1 DEF Genuine

LEMMA OneMoreGenuine ==
    ASSUME NEW h \in Seq(Clients), NEW kinds, NEW before, NEW after, NEW c \in Clients,
           Genuine(h, kinds, before),
           kinds[c] = "payment",
           before[c] \in NotTaken, after[c] \notin NotTaken,
           \A d \in Clients \ {c} : after[d] = before[d]
    PROVE  /\ Genuine(Append(h, c), kinds, after)
           /\ Holds(Append(h, c), c)
           /\ \A d : Holds(h, d) => Holds(Append(h, c), d)
<1> DEFINE n == Len(h)
           g == Append(h, c)
<1>1. /\ n \in Nat /\ DOMAIN h = 1..n /\ \A i \in 1..n : h[i] \in Clients
      /\ Len(g) = n + 1 /\ g \in Seq(Clients)
      /\ \A i \in 1..n : g[i] = h[i]
      /\ g[n + 1] = c
    BY AppendProperties, LenProperties
<1>2. DOMAIN g = 1..(n + 1)
    <2> HIDE DEF g
    <2> QED BY <1>1, LenProperties
<1>3. \A i \in 1..n : h[i] # c /\ kinds[h[i]] = "payment" /\ after[h[i]] \notin NotTaken
    BY <1>1 DEF Genuine
<1> HIDE DEF g, n
<1>4. \A i \in 1..(n + 1) : i \in 1..n \/ i = n + 1
    BY <1>1
<1>5. \A i, j \in DOMAIN g : g[i] = g[j] => i = j
    BY <1>1, <1>2, <1>3, <1>4 DEF Genuine, Distinct
<1>6. \A i \in DOMAIN g : kinds[g[i]] = "payment" /\ after[g[i]] \notin NotTaken
    BY <1>1, <1>2, <1>3, <1>4
<1>7. Holds(g, c)
    BY <1>1, <1>2 DEF Holds
<1>8. \A d : Holds(h, d) => Holds(g, d)
    <2>1. 1..n \subseteq 1..(n + 1)
        BY <1>1
    <2> QED BY <1>1, <1>2, <2>1 DEF Holds
<1> QED BY <1>5, <1>6, <1>7, <1>8 DEF Genuine, Distinct, g

(***************************************************************************)
(* In a genuine history a request occurs once or not at all.               *)
(***************************************************************************)
LEMMA GenuineTimes ==
    ASSUME NEW ch \in Chains, NEW kinds, NEW places, NEW c,
           Genuine(History(ch), kinds, places)
    PROVE  Times(c, ch) = IF Holds(History(ch), c) THEN 1 ELSE 0
<1> DEFINE h == History(ch)
           T == {i \in DOMAIN h : h[i] = c}
<1>1. Times(c, ch) = Cardinality(T)
    BY DEF Times
<1>2. CASE Holds(h, c)
    <2>1. PICK i \in DOMAIN h : h[i] = c
        BY <1>2 DEF Holds
    <2>2. T = {i}
        BY <2>1 DEF Genuine, Distinct
    <2> QED BY <1>1, <1>2, <2>2, FS_Singleton
<1>3. CASE ~Holds(h, c)
    <2>1. T = {}
        BY <1>3 DEF Holds
    <2> QED BY <1>1, <1>3, <2>1, FS_EmptySet
<1> QED BY <1>2, <1>3

-----------------------------------------------------------------------------
(***************************************************************************)
(* Every step keeps the types, and with them the mutex: whoever is inside  *)
(* a handler holds it.                                                     *)
(***************************************************************************)
Places == {"unmade", "cut off"} \union InFlight \union Answers

Mutex == \A c \in Clients : at[c] \in InHandler <=> holder = c

LEMMA MutexStep ==
    ASSUME at \in [Clients -> Places], Mutex,
           NEW c \in Clients, NEW place \in Places, GoTo(c, place),
           \/ holder' = holder /\ (place \in InHandler <=> at[c] \in InHandler)
           \/ holder' = Nobody /\ place \notin InHandler /\ at[c] \in InHandler
           \/ holder' = c /\ place \in InHandler /\ holder = Nobody
    PROVE  at' \in [Clients -> Places] /\ Mutex'
<1>1. at' \in [Clients -> Places] /\ \A d \in Clients : at'[d] = IF d = c THEN place ELSE at[d]
    BY DEF GoTo
<1>2. Mutex'
    <2> HIDE DEF InHandler, Places
    <2> QED BY <1>1, NodeAssumption DEF Mutex
<1> QED BY <1>1, <1>2

LEMMA PlacesAre ==
    /\ "waiting" \in Places \ InHandler /\ "unmade" \notin InHandler
    /\ \A p \in InHandler : p \in Places
    /\ \A p \in Answers : p \in Places \ InHandler
    /\ \A r \in Requests : Begins[r] \in {"queueing", "mining", "reading"}
    /\ "queueing" \in InHandler /\ "mining" \in InHandler
    /\ "reading" \in InHandler /\ "saving" \in InHandler
    /\ "refused" \in Answers /\ "accepted" \in Answers /\ "not saved" \in Answers
BY DEF Places, InHandler, InFlight, Answers, Requests, Begins

DataOK ==
    /\ server \in {"down", "up", "closing"}
    /\ chain \in Chains /\ file \in Chains /\ seen \in [Clients -> Chains]
    /\ body \in Seq(Clients)
    /\ dropped \subseteq Clients
    /\ asks \in [Clients -> Requests]

LEMMA TypeParts == TypeOK <=> DataOK /\ at \in [Clients -> Places] /\ Mutex
BY DEF TypeOK, DataOK, Places, Mutex

LEMMA ControlStep ==
    ASSUME at \in [Clients -> Places], asks \in [Clients -> Requests], Mutex, [Next]_vars
    PROVE  at' \in [Clients -> Places] /\ Mutex'
<1>1. ASSUME NEW c \in Clients, Arrive(c) \/ RefuseAtOnce(c)
      PROVE  at' \in [Clients -> Places] /\ Mutex'
    BY <1>1, MutexStep, PlacesAre DEF Arrive, RefuseAtOnce
<1>2. ASSUME NEW c \in Clients, Lock(c) PROVE at' \in [Clients -> Places] /\ Mutex'
    <2>1. Begins[asks[c]] \in Places /\ Begins[asks[c]] \in InHandler
        BY PlacesAre
    <2> QED BY <1>2, <2>1, MutexStep DEF Lock
<1>3. ASSUME NEW c \in Clients, Queue(c) \/ Mine(c)
      PROVE  at' \in [Clients -> Places] /\ Mutex'
    BY <1>3, MutexStep, PlacesAre DEF Queue, Mine
<1>4. ASSUME NEW c \in Clients,
             RefuseToQueue(c) \/ RefuseToRead(c) \/ MineFails(c) \/ Read(c)
      PROVE  at' \in [Clients -> Places] /\ Mutex'
    BY <1>4, MutexStep, PlacesAre
       DEF RefuseToQueue, RefuseToRead, MineFails, Read, Answer
<1>5. ASSUME NEW c \in Clients, Persist(c) \/ PersistFails(c)
      PROVE  at' \in [Clients -> Places] /\ Mutex'
    BY <1>5, MutexStep, PlacesAre DEF Persist, PersistFails, Answer
<1>6. ASSUME ProcessEnds PROVE at' \in [Clients -> Places] /\ Mutex'
    <2>1. \A c \in Clients : at'[c] = IF at[c] \in InFlight THEN "cut off" ELSE at[c]
        BY <1>6 DEF ProcessEnds
    <2>2. at' \in [Clients -> Places]
        BY <1>6 DEF ProcessEnds, Places
    <2>3. \A c \in Clients : at'[c] \notin InHandler
        BY <2>1 DEF InHandler, InFlight
    <2> QED BY <1>6, <2>2, <2>3, NodeAssumption DEF ProcessEnds, Mutex
<1>7. CASE Interrupt \/ Start
    BY <1>7 DEF Interrupt, Start, Mutex
<1>8. CASE UNCHANGED vars
    BY <1>8 DEF vars, Mutex
<1> QED
    BY <1>1, <1>2, <1>3, <1>4, <1>5, <1>6, <1>7, <1>8
       DEF Next, Handler, ShutdownDone, ShutdownTimesOut, Die

LEMMA DataStep == DataOK /\ [Next]_vars => DataOK'
<1> SUFFICES ASSUME DataOK, [Next]_vars PROVE DataOK'
    OBVIOUS
<1> USE DEF DataOK
<1>1. /\ chain.mined \in Seq(Seq(Clients)) /\ chain.pending \in Seq(Clients)
      /\ Len(chain.pending) \in Nat /\ Len(body) \in Nat
    BY DEF Chains
<1>2. << >> \in Seq(Clients)
    BY EmptySeq
<1>3. ASSUME NEW c \in Clients, Lock(c) PROVE DataOK'
    <2> DEFINE p == chain.pending
               k == IF BlockRoom < Len(p) THEN BlockRoom ELSE Len(p)
    <2>1. k \in Int /\ k <= Len(p)
        BY <1>1, NodeAssumption
    <2> HIDE DEF k
    <2>2. SubSeq(p, 1, k) \in Seq(Clients)
        BY <1>1, <2>1, SubSeqType
    <2> QED BY <1>3, <2>2 DEF Lock, k
<1>4. ASSUME NEW c \in Clients, Queue(c) PROVE DataOK'
    <2>1. chain' \in Chains
        BY <1>4, HistoryQueued DEF Queue
    <2> QED BY <1>4, <2>1 DEF Queue
<1>5. ASSUME NEW c \in Clients, Mine(c) PROVE DataOK'
    <2> DEFINE p == chain.pending
               k == Len(body) + 1
    <2>1. k \in Nat \ {0} /\ Len(p) \in Int /\ Len(p) <= Len(p)
        BY <1>1
    <2> HIDE DEF k
    <2>2. SubSeq(p, k, Len(p)) \in Seq(Clients)
        BY <1>1, <2>1, SubSeqType
    <2>3. Append(chain.mined, body) \in Seq(Seq(Clients))
        BY <1>1, AppendProperties
    <2>4. chain' = [mined |-> Append(chain.mined, body),
                    pending |-> SubSeq(p, k, Len(p))]
        BY <1>5 DEF Mine, k
    <2>5. chain' \in Chains
        BY <2>2, <2>3, <2>4 DEF Chains
    <2> QED BY <1>2, <1>5, <2>5 DEF Mine
<1>6. ASSUME NEW c \in Clients,
             \/ Arrive(c) \/ RefuseAtOnce(c) \/ RefuseToQueue(c) \/ MineFails(c)
             \/ Read(c) \/ RefuseToRead(c) \/ Persist(c) \/ PersistFails(c)
      PROVE  DataOK'
    BY <1>2, <1>6
       DEF Arrive, RefuseAtOnce, RefuseToQueue, MineFails, Read, RefuseToRead,
           Persist, PersistFails
<1>7. ASSUME ProcessEnds PROVE DataOK'
    BY <1>2, <1>7, FreshHistory DEF ProcessEnds
<1>8. CASE Interrupt
    BY <1>8 DEF Interrupt
<1>9. CASE UNCHANGED vars
    BY <1>9 DEF vars
<1>10. CASE Start
    <2>1. file \in Chains /\ file.pending \in Seq(Clients)
        BY HistoryType
    <2>2. dropped' \subseteq Clients
        <3>1. \A i \in DOMAIN file.pending : file.pending[i] \in Clients
            BY <2>1, LenProperties
        <3> QED BY <1>10, <3>1 DEF Start
    <2>3. Without(file.pending, dropped') \in Seq(Clients)
        BY <2>1, WithoutType
    <2>4. chain' \in Chains
        BY <1>10, <2>1, <2>3 DEF Start, Chains
    <2> QED BY <1>10, <2>2, <2>4 DEF Start
<1> QED
    BY <1>3, <1>4, <1>5, <1>6, <1>7, <1>8, <1>9, <1>10
       DEF Next, Handler, ShutdownDone, ShutdownTimesOut, Die

LEMMA TypeStep == TypeOK /\ [Next]_vars => TypeOK'
<1> SUFFICES ASSUME TypeOK, [Next]_vars PROVE TypeOK'
    OBVIOUS
<1>1. DataOK /\ at \in [Clients -> Places] /\ Mutex
    BY TypeParts
<1>2. DataOK' /\ at' \in [Clients -> Places] /\ Mutex'
    BY <1>1, DataStep, ControlStep DEF DataOK
<1> QED BY <1>2 DEF TypeOK, DataOK, Places, Mutex

-----------------------------------------------------------------------------
(***************************************************************************)
(* A step of one client moves it and nobody else.                          *)
(***************************************************************************)
LEMMA OneMoves ==
    ASSUME TypeOK, NEW c \in Clients, NEW place, GoTo(c, place)
    PROVE  \A d \in Clients : at'[d] = IF d = c THEN place ELSE at[d]
BY DEF TypeOK, GoTo

(***************************************************************************)
(* Requests get into the handler of their kind and out of it again; at the *)
(* end of the process there are none.                                      *)
(***************************************************************************)
LEMMA HandledStep == TypeOK /\ Handled /\ [Next]_vars => Handled'
<1> SUFFICES ASSUME TypeOK, Handled, [Next]_vars PROVE Handled'
    OBVIOUS
<1>1. ASSUME NEW c \in Clients, NEW place, GoTo(c, place),
             UNCHANGED <<server, asks>>, server # "down",
             place = "queueing" => asks[c] = "payment",
             place = "mining" => asks[c] = "block",
             place = "reading" => asks[c] = "read",
             place = "saving" => asks[c] # "read"
      PROVE  Handled'
    BY <1>1, OneMoves DEF Handled
<1>2. ASSUME NEW c \in Clients, at[c] \in InFlight PROVE server # "down"
    BY <1>2 DEF Handled
<1>3. ASSUME NEW c \in Clients, Arrive(c) \/ RefuseAtOnce(c) PROVE Handled'
    BY <1>1, <1>2, <1>3 DEF Arrive, RefuseAtOnce, InFlight
<1>4. ASSUME NEW c \in Clients, Lock(c) PROVE Handled'
    <2>1. GoTo(c, Begins[asks[c]]) /\ UNCHANGED <<server, asks>> /\ server # "down"
        BY <1>2, <1>4 DEF Lock, InFlight
    <2>2. asks[c] \in {"payment", "block", "read"}
        BY DEF TypeOK, Requests
    <2>3. /\ Begins[asks[c]] = "queueing" => asks[c] = "payment"
          /\ Begins[asks[c]] = "mining" => asks[c] = "block"
          /\ Begins[asks[c]] = "reading" => asks[c] = "read"
          /\ Begins[asks[c]] # "saving"
        BY <2>2 DEF Begins
    <2> QED BY <1>1, <2>1, <2>3
<1>5. ASSUME NEW c \in Clients, Queue(c) \/ Mine(c) PROVE Handled'
    <2>1. GoTo(c, "saving") /\ UNCHANGED <<server, asks>> /\ server # "down"
        BY <1>2, <1>5 DEF Queue, Mine, InFlight, InHandler
    <2>2. asks[c] # "read"
        BY <1>5 DEF Queue, Mine, Handled
    <2> QED BY <1>1, <2>1, <2>2
<1>6. ASSUME NEW c \in Clients,
             \/ RefuseToQueue(c) \/ MineFails(c) \/ Read(c) \/ RefuseToRead(c)
             \/ Persist(c) \/ PersistFails(c)
      PROVE  Handled'
    <2>1. UNCHANGED <<server, asks>> /\ server # "down"
        BY <1>2, <1>6
           DEF RefuseToQueue, MineFails, Read, RefuseToRead, Persist, PersistFails,
               InFlight, InHandler
    <2>2. GoTo(c, "refused") \/ GoTo(c, "accepted") \/ GoTo(c, "not saved")
        BY <1>6
           DEF RefuseToQueue, MineFails, Read, RefuseToRead, Persist, PersistFails,
               Answer
    <2> QED BY <1>1, <2>1, <2>2
<1>7. ASSUME ProcessEnds PROVE Handled'
    <2>1. \A c \in Clients :
              at'[c] = (IF at[c] \in InFlight THEN "cut off" ELSE at[c])
        BY <1>7 DEF ProcessEnds
    <2>2. \A c \in Clients : at'[c] \notin InFlight
        BY <2>1 DEF InFlight, InHandler
    <2> QED BY <1>7, <2>2 DEF ProcessEnds, Handled, InFlight, InHandler
<1>8. CASE Interrupt \/ Start
    BY <1>8 DEF Interrupt, Start, Handled, InFlight, InHandler
<1>9. CASE UNCHANGED vars
    BY <1>9 DEF vars, Handled
<1> QED
    BY <1>3, <1>4, <1>5, <1>6, <1>7, <1>8, <1>9
       DEF Next, Handler, ShutdownDone, ShutdownTimesOut, Die

(***************************************************************************)
(* Between picking the transactions of its block and mining it POST /mine  *)
(* holds the mutex, so the pool still begins with them.                    *)
(***************************************************************************)
LEMMA CandidateStep ==
    TypeOK /\ Handled /\ Candidate /\ [Next]_vars /\ TypeOK' => Candidate'
<1> SUFFICES ASSUME TypeOK, Handled, Candidate, [Next]_vars, TypeOK' PROVE Candidate'
    OBVIOUS
<1>1. ASSUME UNCHANGED <<chain, body>>,
             \A c \in Clients : at'[c] = "mining" => at[c] = "mining"
      PROVE  Candidate'
    BY <1>1 DEF Candidate
<1>2. ASSUME \A c \in Clients : at'[c] # "mining" PROVE Candidate'
    BY <1>2 DEF Candidate
<1>3. \A c, d \in Clients : at'[c] = "mining" /\ at'[d] \in InHandler => c = d
    BY DEF TypeOK, InHandler
<1>4. ASSUME NEW c \in Clients, Arrive(c) \/ RefuseAtOnce(c) PROVE Candidate'
    BY <1>1, <1>4, OneMoves DEF Arrive, RefuseAtOnce
<1>5. ASSUME NEW c \in Clients, Lock(c) PROVE Candidate'
    <2>1. at'[c] = Begins[asks[c]] /\ asks[c] \in Requests
        BY <1>5, OneMoves DEF Lock, TypeOK
    <2>2. \A d \in Clients : at'[d] = "mining" => d = c
        <3>1. at'[c] \in InHandler
            BY <2>1, PlacesAre
        <3> QED BY <1>3, <3>1
    <2>3. CASE asks[c] # "block"
        <3>1. at'[c] # "mining"
            BY <2>1, <2>3 DEF Begins, Requests
        <3> QED BY <1>2, <2>2, <3>1
    <2>4. CASE asks[c] = "block"
        <3> DEFINE p == chain.pending
                   k == IF BlockRoom < Len(p) THEN BlockRoom ELSE Len(p)
        <3>1. k \in 0..Len(p)
            <4>1. p \in Seq(Clients)
                BY HistoryType DEF TypeOK
            <4>2. Len(p) \in Nat
                BY <4>1
            <4> HIDE DEF p
            <4> QED BY <4>2, NodeAssumption
        <3>2. body' = SubSeq(p, 1, k) /\ chain' = chain
            BY <1>5, <2>4 DEF Lock
        <3> QED BY <2>2, <3>1, <3>2 DEF Candidate
    <2> QED BY <2>3, <2>4
<1>6. ASSUME NEW c \in Clients, Queue(c) \/ Mine(c) PROVE Candidate'
    <2>1. at'[c] = "saving"
        BY <1>6, OneMoves DEF Queue, Mine
    <2> QED BY <1>2, <1>3, <2>1 DEF InHandler
<1>7. ASSUME NEW c \in Clients, MineFails(c) PROVE Candidate'
    <2>1. holder' = Nobody
        BY <1>7 DEF MineFails, Answer
    <2> QED BY <1>2, <2>1, NodeAssumption DEF TypeOK, InHandler
<1>8. ASSUME NEW c \in Clients,
             \/ RefuseToQueue(c) \/ Read(c) \/ RefuseToRead(c)
             \/ Persist(c) \/ PersistFails(c)
      PROVE  Candidate'
    <2>1. UNCHANGED <<chain, body>>
        BY <1>8 DEF RefuseToQueue, Read, RefuseToRead, Persist, PersistFails
    <2>2. GoTo(c, "refused") \/ GoTo(c, "accepted") \/ GoTo(c, "not saved")
        BY <1>8
           DEF RefuseToQueue, Read, RefuseToRead, Persist, PersistFails, Answer
    <2> QED BY <1>1, <2>1, <2>2, OneMoves
<1>9. ASSUME ProcessEnds PROVE Candidate'
    <2>1. holder' = Nobody
        BY <1>9 DEF ProcessEnds
    <2> QED BY <1>2, <2>1, NodeAssumption DEF TypeOK, InHandler
<1>10. CASE Interrupt
    BY <1>1, <1>10 DEF Interrupt
<1>11. CASE Start
    BY <1>2, <1>11 DEF Start, Handled, InFlight, InHandler
<1>12. CASE UNCHANGED vars
    BY <1>1, <1>12 DEF vars
<1> QED
    BY <1>4, <1>5, <1>6, <1>7, <1>8, <1>9, <1>10, <1>11, <1>12
       DEF Next, Handler, ShutdownDone, ShutdownTimesOut, Die

-----------------------------------------------------------------------------
(***************************************************************************)
(* A request that moves without touching memory or file: it is not taken   *)
(* back, not accepted, and if it was to be saved then that failed.         *)
(***************************************************************************)
LEMMA HistoriesType ==
    TypeOK => History(chain) \in Seq(Clients) /\ History(file) \in Seq(Clients)
BY HistoryType DEF TypeOK

LEMMA MovingBooks ==
    ASSUME TypeOK, Books, NEW c \in Clients, NEW place, GoTo(c, place),
           UNCHANGED <<server, chain, file, asks, seen, dropped>>,
           asks[c] = "payment" /\ place \in NotTaken => at[c] \in NotTaken,
           at[c] = "saving" => place = "not saved",
           at[c] # "not saved",
           place \notin {"saving", "accepted"}
    PROVE  Books'
<1>1. \A d \in Clients : at'[d] = IF d = c THEN place ELSE at[d]
    BY OneMoves
<1>2. \A d \in Clients :
          asks[d] = "payment" /\ at'[d] \in NotTaken => at[d] \in NotTaken
    BY <1>1
<1>3. /\ Genuine(History(chain), asks, at')
      /\ Genuine(History(file), asks, at')
    BY <1>2, HistoriesType, StillGenuine DEF Books
<1>4. Genuine(History(chain), asks, at)' /\ Genuine(History(file), asks, at)'
    BY <1>3
<1>5. Kept' /\ Gone' /\ MemoryContinuesFile'
    BY <1>1, <1>2 DEF Books, Kept, Gone, MemoryContinuesFile, TypeOK
<1>6. Shown'
    BY <1>1 DEF Books, Shown
<1> QED BY <1>4, <1>5, <1>6 DEF Books

LEMMA QueueBooks ==
    ASSUME NodeInv, NEW c \in Clients, Queue(c)
    PROVE  Books'
<1> USE DEF NodeInv
<1>1. /\ at[c] = "queueing" /\ asks[c] = "payment"
      /\ chain' = [chain EXCEPT !.pending = Append(@, c)]
      /\ UNCHANGED <<server, file, asks, seen, dropped>>
      /\ \A d \in Clients : at'[d] = IF d = c THEN "saving" ELSE at[d]
    BY OneMoves DEF Queue, Handled
<1>2. /\ chain \in Chains /\ chain' \in Chains /\ file \in Chains
      /\ chain'.mined = chain.mined
      /\ History(chain') = Append(History(chain), c)
    BY <1>1, HistoryQueued DEF TypeOK
<1>3. History(chain) \in Seq(Clients) /\ History(file) \in Seq(Clients)
    BY HistoriesType
<1>4. at[c] \in NotTaken /\ at'[c] \notin NotTaken
    BY <1>1 DEF NotTaken
<1>5. \A d \in Clients \ {c} : at'[d] = at[d]
    BY <1>1
<1>6. /\ Genuine(Append(History(chain), c), asks, at')
      /\ Holds(Append(History(chain), c), c)
      /\ \A d : Holds(History(chain), d) => Holds(Append(History(chain), c), d)
    BY <1>1, <1>3, <1>4, <1>5, OneMoreGenuine DEF Books
<1>7. Genuine(History(file), asks, at')
    BY <1>1, <1>3, <1>4, StillGenuine DEF Books
<1>8. Genuine(History(chain), asks, at)' /\ Genuine(History(file), asks, at)'
    BY <1>1, <1>2, <1>6, <1>7
<1>9. Kept'
    BY <1>1, <1>2, <1>6 DEF Books, Kept
<1>10. Gone'
    <2>1. \A e : Holds(Append(History(chain), c), e) => Holds(History(chain), e) \/ e = c
        BY <1>3, AppendHolds
    <2>2. c \notin dropped
        BY <1>4 DEF Books, Gone
    <2>3. \A e \in dropped : e \in Clients \ {c}
        BY <2>2 DEF TypeOK
    <2> QED BY <1>1, <1>2, <1>5, <2>1, <2>3 DEF Books, Gone
<1>11. MemoryContinuesFile'
    <2>1. Extends(chain'.mined, chain.mined)
        BY <1>2, HistoryType, ExtendsFacts
    <2>2. Extends(History(chain'), History(chain))
        BY <1>2, <1>3, ExtendsAppend
    <2>3. Continues(chain', chain, dropped)
        BY <1>2, <2>1, <2>2, ContinuesIf
    <2>4. server # "down" => Continues(chain, file, dropped)
        BY DEF Books, MemoryContinuesFile
    <2>5. server # "down" => Continues(chain', file, dropped)
        BY <1>2, <2>3, <2>4, ContinuesFacts
    <2> QED BY <1>1, <2>5 DEF MemoryContinuesFile
<1>12. Shown'
    BY <1>1 DEF Books, Shown
<1> QED BY <1>8, <1>9, <1>10, <1>11, <1>12 DEF Books

LEMMA MineBooks ==
    ASSUME NodeInv, NEW c \in Clients, Mine(c)
    PROVE  Books'
<1> USE DEF NodeInv
<1>1. /\ at[c] = "mining" /\ asks[c] = "block"
      /\ chain' = [mined   |-> Append(chain.mined, body),
                   pending |-> SubSeq(chain.pending, Len(body) + 1,
                                      Len(chain.pending))]
      /\ UNCHANGED <<server, file, asks, seen, dropped>>
      /\ \A d \in Clients : at'[d] = IF d = c THEN "saving" ELSE at[d]
    BY OneMoves DEF Mine, Handled
<1>2. PICK k \in 0..Len(chain.pending) : body = SubSeq(chain.pending, 1, k)
    BY <1>1 DEF Candidate
<1>3. /\ chain \in Chains /\ file \in Chains /\ body \in Seq(Clients)
      /\ chain.mined \in Seq(Seq(Clients))
    BY HistoryType DEF TypeOK
<1>4. Len(body) = k
    BY <1>2, <1>3, HistoryMined
<1>5. chain' \in Chains /\ History(chain') = History(chain)
    <2> DEFINE p == chain.pending
               next == [mined   |-> Append(chain.mined, SubSeq(p, 1, k)),
                        pending |-> SubSeq(p, k + 1, Len(p))]
    <2>1. next \in Chains /\ History(next) = History(chain)
        BY <1>3, HistoryMined
    <2>2. chain' = next
        BY <1>1, <1>2, <1>4
    <2> QED BY <2>1, <2>2
<1>6. History(chain) \in Seq(Clients) /\ History(file) \in Seq(Clients)
    BY HistoriesType
<1>7. \A d \in Clients :
          asks[d] = "payment" /\ at'[d] \in NotTaken => at[d] \in NotTaken
    BY <1>1
<1>8. /\ Genuine(History(chain), asks, at')
      /\ Genuine(History(file), asks, at')
    BY <1>6, <1>7, StillGenuine DEF Books
<1>9. Genuine(History(chain), asks, at)' /\ Genuine(History(file), asks, at)'
    BY <1>1, <1>5, <1>8
<1>10. Kept' /\ Gone'
    BY <1>1, <1>5, <1>7 DEF Books, Kept, Gone, TypeOK
<1>11. MemoryContinuesFile'
    <2>1. Extends(chain'.mined, chain.mined)
        <3>1. chain'.mined = Append(chain.mined, body)
            BY <1>1
        <3> QED BY <1>3, <3>1, ExtendsAppend
    <2>2. Extends(History(chain'), History(chain))
        BY <1>5, <1>6, ExtendsFacts
    <2>3. Continues(chain', chain, dropped)
        BY <1>3, <1>5, <2>1, <2>2, ContinuesIf
    <2>4. server # "down" => Continues(chain, file, dropped)
        BY DEF Books, MemoryContinuesFile
    <2>5. server # "down" => Continues(chain', file, dropped)
        BY <1>3, <1>5, <2>3, <2>4, ContinuesFacts
    <2> QED BY <1>1, <2>5 DEF MemoryContinuesFile
<1>12. Shown'
    BY <1>1 DEF Books, Shown
<1> QED BY <1>9, <1>10, <1>11, <1>12 DEF Books

(***************************************************************************)
(* A read is shown the memory, which the file has: whoever was changing it *)
(* has saved it, or has answered that it did not.                          *)
(***************************************************************************)
LEMMA ReadBooks ==
    ASSUME NodeInv, NEW c \in Clients, Read(c)
    PROVE  Books'
<1> USE DEF NodeInv
<1>1. /\ at[c] = "reading" /\ asks[c] = "read"
      /\ seen' = [seen EXCEPT ![c] = chain]
      /\ UNCHANGED <<server, chain, file, asks, dropped>>
      /\ \A d \in Clients : at'[d] = IF d = c THEN "accepted" ELSE at[d]
    BY OneMoves DEF Read, Answer, Handled
<1>2. \A d \in Clients :
          asks[d] = "payment" /\ at'[d] \in NotTaken => at[d] \in NotTaken
    BY <1>1
<1>3. /\ Genuine(History(chain), asks, at')
      /\ Genuine(History(file), asks, at')
    BY <1>2, HistoriesType, StillGenuine DEF Books
<1>4. Genuine(History(chain), asks, at)' /\ Genuine(History(file), asks, at)'
    BY <1>1, <1>3
<1>5. Kept' /\ Gone' /\ MemoryContinuesFile'
    BY <1>1, <1>2 DEF Books, Kept, Gone, MemoryContinuesFile, TypeOK
<1>6. Shown'
    <2> SUFFICES ASSUME \A d \in Clients : at'[d] # "not saved"
                 PROVE  /\ \A d \in Clients : Continues(file', seen'[d], dropped')
                        /\ server' # "down" => Continues(file', chain', dropped')
        BY DEF Shown
    <2>1. \A d \in Clients : at[d] # "not saved" /\ at[d] # "saving"
        BY <1>1 DEF TypeOK, InHandler
    <2>2. server # "down"
        BY <1>1 DEF Handled, InFlight, InHandler
    <2>3. /\ Continues(file, chain, dropped)
          /\ \A d \in Clients : Continues(file, seen[d], dropped)
        BY <2>1, <2>2 DEF Books, Shown
    <2>4. \A d \in Clients : seen'[d] = IF d = c THEN chain ELSE seen[d]
        BY <1>1 DEF TypeOK
    <2> QED BY <1>1, <2>3, <2>4
<1> QED BY <1>4, <1>5, <1>6 DEF Books

(***************************************************************************)
(* A save replaces the file by the memory, which continues it.             *)
(***************************************************************************)
LEMMA HoldsMore ==
    ASSUME NEW S, NEW l \in Seq(S), NEW s \in Seq(S), Extends(l, s), NEW c, Holds(s, c)
    PROVE  Holds(l, c)
<1>1. /\ Len(s) <= Len(l) /\ \A i \in 1..Len(s) : l[i] = s[i]
      /\ DOMAIN s = 1..Len(s) /\ DOMAIN l = 1..Len(l)
      /\ Len(s) \in Nat /\ Len(l) \in Nat
    BY ExtendsDef, LenProperties
<1>2. PICK i \in 1..Len(s) : s[i] = c
    BY <1>1 DEF Holds
<1>3. i \in 1..Len(l) /\ l[i] = c
    BY <1>1, <1>2
<1> QED BY <1>1, <1>3 DEF Holds

LEMMA PersistBooks ==
    ASSUME NodeInv, NEW c \in Clients, Persist(c)
    PROVE  Books' /\ dropped' = dropped /\ Continues(file', file, dropped)
<1> USE DEF NodeInv
<1>1. /\ at[c] = "saving"
      /\ file' = chain
      /\ UNCHANGED <<server, chain, asks, seen, dropped>>
      /\ \A d \in Clients : at'[d] = IF d = c THEN "accepted" ELSE at[d]
    BY OneMoves DEF Persist, Answer
<1>2. chain \in Chains /\ file \in Chains /\ \A d \in Clients : seen[d] \in Chains
    BY DEF TypeOK
<1>3. History(chain) \in Seq(Clients) /\ History(file) \in Seq(Clients)
    BY HistoriesType
<1>4. \A d \in Clients :
          asks[d] = "payment" /\ at'[d] \in NotTaken => at[d] \in NotTaken
    BY <1>1 DEF NotTaken
<1>5. Genuine(History(chain), asks, at')
    BY <1>3, <1>4, StillGenuine DEF Books
<1>6. Genuine(History(chain), asks, at)' /\ Genuine(History(file), asks, at)'
    BY <1>1, <1>5
<1>7. server # "down"
    BY <1>1 DEF Handled, InFlight, InHandler
<1>8. Continues(chain, file, dropped)
    BY <1>7 DEF Books, MemoryContinuesFile
<1>9. Kept'
    <2> DEFINE W(h) == Without(h, dropped)
    <2>1. W(History(chain)) \in Seq(Clients) /\ W(History(file)) \in Seq(Clients)
        BY <1>3, WithoutType
    <2>2. \A d : Holds(W(History(file)), d) => Holds(W(History(chain)), d)
        <3>1. Extends(W(History(chain)), W(History(file)))
            BY <1>8 DEF Continues
        <3> HIDE DEF W
        <3> QED BY <2>1, <3>1, HoldsMore
    <2>3. \A d : /\ Holds(W(History(file)), d) <=> Holds(History(file), d) /\ d \notin dropped
                 /\ Holds(W(History(chain)), d) <=> Holds(History(chain), d) /\ d \notin dropped
        BY <1>3, WithoutKeeps
    <2>4. \A d : Holds(History(file), d) => Holds(History(chain), d) \/ d \in dropped
        BY <2>2, <2>3
    <2> QED BY <1>1, <2>4 DEF Books, Kept
<1>10. Gone'
    <2>1. \A d : Holds(Flat(chain.mined), d) => Holds(History(chain), d)
        <3>1. chain.mined \in Seq(Seq(Clients)) /\ chain.pending \in Seq(Clients)
            BY <1>2, HistoryType
        <3>2. Flat(chain.mined) \in Seq(Clients)
            BY <3>1, FlatAppend, EmptySeq
        <3> QED BY <3>1, <3>2, ConcatHolds DEF History
    <2> QED BY <1>1, <1>4, <2>1 DEF Books, Gone, TypeOK
<1>11. Continues(chain, chain, dropped)
    BY <1>2, ContinuesFacts
<1>12. MemoryContinuesFile'
    BY <1>1, <1>11 DEF MemoryContinuesFile
<1>13. Shown'
    <2> SUFFICES ASSUME \A d \in Clients : at'[d] # "not saved"
                 PROVE  /\ \A d \in Clients : Continues(file', seen'[d], dropped')
                        /\ Continues(file', chain', dropped')
        BY DEF Shown
    <2>1. \A d \in Clients : at[d] # "not saved"
        BY <1>1
    <2>2. \A d \in Clients : Continues(file, seen[d], dropped)
        BY <2>1 DEF Books, Shown
    <2>3. \A d \in Clients : Continues(chain, seen[d], dropped)
        BY <1>2, <1>8, <2>2, ContinuesFacts
    <2> QED BY <1>1, <1>11, <2>3
<1> QED BY <1>1, <1>6, <1>8, <1>9, <1>10, <1>12, <1>13 DEF Books

(***************************************************************************)
(* The end of a process.                                                   *)
(***************************************************************************)
LEMMA EndsBooks ==
    ASSUME NodeInv, ProcessEnds
    PROVE  Books'
<1> USE DEF NodeInv
<1>1. /\ server' = "down" /\ chain' = Fresh
      /\ UNCHANGED <<file, asks, seen, dropped>>
      /\ \A d \in Clients :
            at'[d] = IF at[d] \in InFlight THEN "cut off" ELSE at[d]
    BY DEF ProcessEnds
<1>2. \A d \in Clients : at'[d] \in NotTaken => at[d] \in NotTaken
    BY <1>1 DEF NotTaken
<1>3. Genuine(History(file), asks, at')
    BY <1>2, HistoriesType, StillGenuine DEF Books
<1>4. Genuine(<< >>, asks, at')
    BY DEF Genuine, Distinct
<1>5. Genuine(History(chain), asks, at)' /\ Genuine(History(file), asks, at)'
    BY <1>1, <1>3, <1>4, FreshHistory
<1>6. \A d \in Clients :
          /\ at'[d] # "saving"
          /\ at'[d] = "accepted" => at[d] = "accepted"
          /\ at'[d] # "not saved" => at[d] # "not saved"
    BY <1>1 DEF InFlight, InHandler
<1>7. Kept' /\ MemoryContinuesFile' /\ Shown'
    BY <1>1, <1>6 DEF Books, Kept, MemoryContinuesFile, Shown
<1>8. Gone'
    <2>1. \A c : ~Holds(<< >>, c)
        BY DEF Holds
    <2> QED BY <1>1, <1>2, <2>1, FreshHistory DEF Books, Gone, TypeOK
<1> QED BY <1>5, <1>7, <1>8 DEF Books

(***************************************************************************)
(* The next process starts from the file, without the pending payments     *)
(* that its load drops.  They are pending, so they are in no block.        *)
(***************************************************************************)
LEMMA StartBooks ==
    ASSUME NodeInv, Start
    PROVE  Books'
<1> USE DEF NodeInv
<1>1. server = "down" /\ UNCHANGED <<file, asks, at, seen>>
    BY DEF Start
<1>2. PICK gone \in SUBSET {file.pending[i] : i \in DOMAIN file.pending} :
          dropped' = dropped \union gone
    BY DEF Start
<1>3. /\ file \in Chains /\ History(file) \in Seq(Clients)
      /\ \A d \in Clients : seen[d] \in Chains
    BY HistoriesType DEF TypeOK
<1>4. \A c \in gone : Holds(History(file), c) /\ ~Holds(Flat(file.mined), c)
    <2>1. file.mined \in Seq(Seq(Clients)) /\ file.pending \in Seq(Clients)
        BY <1>3, HistoryType
    <2>2. Flat(file.mined) \in Seq(Clients)
        BY <2>1, FlatAppend, EmptySeq
    <2>3. \A c \in gone : Holds(file.pending, c)
        BY <1>2 DEF Holds
    <2>4. Distinct(Flat(file.mined) \o file.pending)
        BY DEF Books, Genuine, History
    <2> QED BY <2>1, <2>2, <2>3, <2>4, ConcatHolds DEF History
<1>5. \A c \in dropped' : ~Holds(Flat(file.mined), c)
    BY <1>2, <1>4 DEF Books, Gone
<1>6. /\ chain' = [file EXCEPT !.pending = Without(@, dropped')]
      /\ History(chain') = Without(History(file), dropped')
      /\ Continues(chain', file, dropped') /\ Continues(file, chain', dropped')
    <2> DEFINE next == [file EXCEPT !.pending = Without(@, dropped')]
    <2>1. chain' = next
        BY DEF Start
    <2>2. /\ History(next) = Without(History(file), dropped')
          /\ Continues(next, file, dropped') /\ Continues(file, next, dropped')
        BY <1>3, <1>5, LoadFacts
    <2> HIDE DEF next
    <2>3. /\ History(chain') = Without(History(file), dropped')
          /\ Continues(chain', file, dropped') /\ Continues(file, chain', dropped')
        BY <2>1, <2>2
    <2> QED BY <2>1, <2>3 DEF next
<1>7. \A c : Holds(History(chain'), c) <=> Holds(History(file), c) /\ c \notin dropped'
    BY <1>3, <1>6, WithoutKeeps
<1>8. Genuine(History(chain'), asks, at)
    <2>1. Distinct(History(chain'))
        BY <1>3, <1>6, WithoutKeeps DEF Books, Genuine
    <2>2. \A c : Holds(History(file), c) => asks[c] = "payment" /\ at[c] \notin NotTaken
        BY DEF Books, Genuine, Holds
    <2>3. \A i \in DOMAIN History(chain') : Holds(History(chain'), History(chain')[i])
        BY DEF Holds
    <2> QED BY <1>7, <2>1, <2>2, <2>3 DEF Genuine
<1>9. Genuine(History(chain), asks, at)' /\ Genuine(History(file), asks, at)'
    BY <1>1, <1>8 DEF Books
<1>10. Kept'
    BY <1>1, <1>2 DEF Books, Kept, Handled, InFlight, InHandler
<1>11. Gone'
    <2>1. \A c \in gone : asks[c] = "payment" /\ at[c] \notin NotTaken
        BY <1>4 DEF Books, Genuine, Holds
    <2> QED BY <1>1, <1>2, <1>5, <1>7, <2>1 DEF Books, Gone
<1>12. MemoryContinuesFile'
    BY <1>1, <1>6 DEF MemoryContinuesFile
<1>13. Shown'
    <2> SUFFICES ASSUME \A d \in Clients : at'[d] # "not saved"
                 PROVE  /\ \A d \in Clients : Continues(file', seen'[d], dropped')
                        /\ Continues(file', chain', dropped')
        BY DEF Shown
    <2>1. \A d \in Clients : Continues(file, seen[d], dropped)
        BY <1>1 DEF Books, Shown
    <2>2. \A d \in Clients : Continues(file, seen[d], dropped')
        BY <1>2, <1>3, <2>1, ContinuesStill
    <2> QED BY <1>1, <1>6, <2>2
<1> QED BY <1>9, <1>10, <1>11, <1>12, <1>13 DEF Books

(***************************************************************************)
(* A first process has nothing in memory, nothing in the file and no       *)
(* request.                                                                *)
(***************************************************************************)
LEMMA InitNode == Init => NodeInv
<1> SUFFICES ASSUME Init PROVE NodeInv
    OBVIOUS
<1>1. /\ server = "up" /\ chain = Fresh /\ file = Fresh /\ holder = Nobody
      /\ asks \in [Clients -> Requests] /\ body = << >>
      /\ at = [c \in Clients |-> "unmade"] /\ seen = [c \in Clients |-> Fresh]
      /\ dropped = {}
    BY DEF Init
<1>2. TypeOK
    <2>1. body \in Seq(Clients)
        BY <1>1, EmptySeq
    <2> QED BY <1>1, <2>1, FreshHistory, NodeAssumption DEF TypeOK, InHandler
<1>3. Handled /\ Candidate /\ Kept /\ Gone
    BY <1>1 DEF Handled, Candidate, Kept, Gone
<1>4. Genuine(<< >>, asks, at)
    BY DEF Genuine, Distinct
<1>5. Continues(Fresh, Fresh, dropped)
    BY FreshHistory, ContinuesFacts
<1>6. MemoryContinuesFile /\ Shown
    BY <1>1, <1>5 DEF MemoryContinuesFile, Shown
<1> QED BY <1>1, <1>2, <1>3, <1>4, <1>6, FreshHistory DEF NodeInv, Books

(***************************************************************************)
(* The inductive step, action by action.                                   *)
(***************************************************************************)
LEMMA NodeStep ==
    NodeInv /\ [Next]_vars => NodeInv' /\ (file' = file \/ Continues(file', file, dropped'))
<1> SUFFICES ASSUME NodeInv, [Next]_vars
             PROVE  NodeInv' /\ (file' = file \/ Continues(file', file, dropped'))
    OBVIOUS
<1>1. TypeOK' /\ Handled' /\ Candidate'
    BY TypeStep, HandledStep, CandidateStep DEF NodeInv
<1>2. ASSUME NEW c \in Clients, Arrive(c) \/ RefuseAtOnce(c)
      PROVE  Books' /\ file' = file
    BY <1>2, MovingBooks DEF Arrive, RefuseAtOnce, NotTaken, NodeInv
<1>3. ASSUME NEW c \in Clients, Lock(c) PROVE Books' /\ file' = file
    <2>1. Begins[asks[c]] \in {"queueing", "mining", "reading"}
        BY PlacesAre DEF NodeInv, TypeOK
    <2> QED BY <1>3, <2>1, MovingBooks DEF Lock, NotTaken, NodeInv
<1>4. ASSUME NEW c \in Clients, RefuseToQueue(c) PROVE Books' /\ file' = file
    BY <1>4, MovingBooks DEF RefuseToQueue, Answer, NotTaken, NodeInv
<1>5. ASSUME NEW c \in Clients, MineFails(c) \/ RefuseToRead(c)
      PROVE  Books' /\ file' = file
    <2>1. asks[c] # "payment"
        BY <1>5 DEF MineFails, RefuseToRead, NodeInv, Handled
    <2> QED BY <1>5, <2>1, MovingBooks DEF MineFails, RefuseToRead, Answer, NodeInv
<1>6. ASSUME NEW c \in Clients, PersistFails(c) PROVE Books' /\ file' = file
    BY <1>6, MovingBooks DEF PersistFails, Answer, NotTaken, NodeInv
<1>7. ASSUME NEW c \in Clients, Queue(c) \/ Mine(c) \/ Read(c)
      PROVE  Books' /\ file' = file
    BY <1>7, QueueBooks, MineBooks, ReadBooks DEF Queue, Mine, Read
<1>8. ASSUME NEW c \in Clients, Persist(c)
      PROVE  Books' /\ Continues(file', file, dropped')
    BY <1>8, PersistBooks
<1>9. ASSUME ProcessEnds PROVE Books' /\ file' = file
    BY <1>9, EndsBooks DEF ProcessEnds
<1>10. CASE Start
    BY <1>1, <1>10, StartBooks DEF Start, NodeInv
<1>11. CASE Interrupt \/ UNCHANGED vars
    <2>1. UNCHANGED <<chain, file, asks, at, seen, dropped>> /\ (server' # "down" => server # "down")
        BY <1>11 DEF Interrupt, vars
    <2> QED
        BY <1>1, <2>1 DEF NodeInv, Books, Kept, Gone, MemoryContinuesFile, Shown
<1> QED
    BY <1>1, <1>2, <1>3, <1>4, <1>5, <1>6, <1>7, <1>8, <1>9, <1>10, <1>11
       DEF Next, Handler, ShutdownDone, ShutdownTimesOut, Die, NodeInv

-----------------------------------------------------------------------------
(***************************************************************************)
(* Type correctness and mutual exclusion: the handlers' one mutex lets     *)
(* nobody but its holder be between its lock and its answer.               *)
(***************************************************************************)
THEOREM NodeTypes == Spec => []TypeOK
<1>1. Init => TypeOK
    BY InitNode DEF NodeInv
<1> QED BY <1>1, TypeStep, PTL DEF Spec

(***************************************************************************)
(* The inductive invariant: memory and file hold taken payments only, each *)
(* once; the memory continues the file and, unless a save failed, is ahead *)
(* of it only while the mutex is held; only pending payments are dropped,  *)
(* and what was dropped stays out of memory and out of the blocks.         *)
(***************************************************************************)
THEOREM NodeInvariant == Spec => []NodeInv
<1>1. NodeInv /\ [Next]_vars => NodeInv'
    BY NodeStep
<1> QED BY InitNode, <1>1, PTL DEF Spec

(***************************************************************************)
(* A payment that was answered 202 stays in the file, once, through every  *)
(* later save, failed save, death and restart, unless a load found it to   *)
(* be no longer payable and dropped it.                                    *)
(***************************************************************************)
THEOREM AcceptedStays == Spec => []AcceptedIsKept
<1>1. NodeInv => AcceptedIsKept
    <2> SUFFICES ASSUME NodeInv, NEW c \in Clients, at[c] = "accepted",
                        asks[c] = "payment", c \notin dropped
                 PROVE  Times(c, file) = 1
        BY DEF AcceptedIsKept
    <2>1. /\ file \in Chains /\ Genuine(History(file), asks, at)
          /\ Holds(History(file), c)
        BY DEF NodeInv, TypeOK, Books, Kept
    <2> QED BY <2>1, GenuineTimes
<1> QED BY <1>1, NodeInvariant, PTL

(***************************************************************************)
(* No payment is on a chain that its client did not make or was refused,   *)
(* and none is there twice: mining moves it out of the pool as it moves it *)
(* into the block, and a restart does not queue it again.  One that a load *)
(* dropped is neither in memory nor in a block from then on.               *)
(***************************************************************************)
THEOREM NothingIsInvented == Spec => []NothingInvented
<1>1. NodeInv => NothingInvented
    <2> SUFFICES ASSUME NodeInv PROVE NothingInvented
        OBVIOUS
    <2>1. ASSUME NEW c \in Clients, NEW ch \in {chain, file}
          PROVE  /\ Times(c, ch) <= 1
                 /\ Times(c, ch) = 1 =>
                       /\ asks[c] = "payment"
                       /\ at[c] \notin {"unmade", "waiting", "refused"}
        <3>1. ch \in Chains /\ Genuine(History(ch), asks, at)
            BY DEF NodeInv, TypeOK, Books
        <3>2. Times(c, ch) = IF Holds(History(ch), c) THEN 1 ELSE 0
            BY <3>1, GenuineTimes
        <3>3. Holds(History(ch), c) => asks[c] = "payment" /\ at[c] \notin NotTaken
            BY <3>1 DEF Genuine, Holds
        <3> QED BY <3>2, <3>3 DEF NotTaken
    <2>2. ASSUME NEW c \in dropped
          PROVE  /\ Times(c, chain) = 0
                 /\ Times(c, [file EXCEPT !.pending = << >>]) = 0
        <3> DEFINE blocks == [file EXCEPT !.pending = << >>]
        <3>1. ~Holds(History(chain), c) /\ ~Holds(Flat(file.mined), c)
            BY DEF NodeInv, Books, Gone
        <3>2. History(blocks) = Flat(file.mined)
            <4>1. file.mined \in Seq(Seq(Clients)) /\ file \in Chains
                BY HistoryType DEF NodeInv, TypeOK
            <4>2. Flat(file.mined) \in Seq(Clients)
                BY <4>1, FlatAppend, EmptySeq
            <4>3. Flat(file.mined) \o << >> = Flat(file.mined)
                BY <4>2, ConcatEmptySeq
            <4>4. blocks.mined = file.mined /\ blocks.pending = << >>
                BY <4>1 DEF Chains
            <4> HIDE DEF blocks
            <4> QED BY <4>3, <4>4 DEF History
        <3> HIDE DEF blocks
        <3>3. \A ch : ~Holds(History(ch), c) => Times(c, ch) = 0
            BY FS_EmptySet DEF Times, Holds
        <3>4. Times(c, chain) = 0 /\ Times(c, blocks) = 0
            BY <3>1, <3>2, <3>3
        <3> QED BY <3>4 DEF blocks
    <2> QED BY <2>1, <2>2 DEF NothingInvented
<1> QED BY <1>1, NodeInvariant, PTL

(***************************************************************************)
(* A save never undoes what an earlier one wrote: what a running process   *)
(* has in memory continues the file, but for payments dropped at a load.   *)
(***************************************************************************)
THEOREM MemoryContinues == Spec => []MemoryContinuesFile
<1>1. NodeInv => MemoryContinuesFile
    BY DEF NodeInv, Books
<1> QED BY <1>1, NodeInvariant, PTL

(***************************************************************************)
(* What a GET was answered is in the file from then on, as long as no      *)
(* request was told that its change is not saved, and but for pending      *)
(* payments dropped at a load: a block that was shown is there for good.   *)
(***************************************************************************)
THEOREM ReadsStay == Spec => []ReadsAreKept
<1>1. NodeInv => ReadsAreKept
    BY DEF NodeInv, Books, Shown, ReadsAreKept
<1> QED BY <1>1, NodeInvariant, PTL

(***************************************************************************)
(* Across processes, interrupted or killed, the data file is append-only:  *)
(* every step leaves its blocks, and its order of payments but for those   *)
(* dropped at a load, or adds to them.                                     *)
(***************************************************************************)
THEOREM FileOnlyGrows == Spec => FileIsAppendOnly
<1>1. NodeInv /\ [Next]_vars => [Continues(file', file, dropped')]_vars
    <2> SUFFICES ASSUME NodeInv, [Next]_vars
                 PROVE  Continues(file', file, dropped')
        OBVIOUS
    <2>1. Continues(file, file, dropped')
        BY ContinuesFacts DEF NodeInv, TypeOK
    <2>2. file' = file \/ Continues(file', file, dropped')
        BY NodeStep
    <2> QED BY <2>1, <2>2
<1> QED BY <1>1, NodeInvariant, PTL DEF Spec, FileIsAppendOnly
=============================================================================
