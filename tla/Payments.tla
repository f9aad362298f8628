------------------------------ MODULE Payments ------------------------------
(***************************************************************************)
(* What a node promises its users, with no blocks, hashes or cached        *)
(* balances: a book of settled transactions that only grows, and a queue   *)
(* of accepted ones that are settled in the order they were accepted.  At  *)
(* every moment the book followed by the queue can be paid, transaction by *)
(* transaction, starting from nothing.                                     *)
(***************************************************************************)
EXTENDS Ledger

CONSTANT Configs    \* the settings rewards are paid under, which may change

VARIABLES book, queue

Last(s) == s[Len(s)]

IsReward(tx, c) ==
    IsCoinbase(tx) /\ tx.to = c.MinerAddress /\ tx.amount = c.MiningReward

PInit == book = << >> /\ queue = << >>

(***************************************************************************)
(* One more transaction is accepted, covered by all that come before it.   *)
(***************************************************************************)
Accept ==
    /\ queue' # << >>
    /\ queue' = Append(queue, Last(queue'))
    /\ Fits(NewState, book \o queue')
    /\ book' = book

(***************************************************************************)
(* The first k of the queue are settled, behind a reward if the settings   *)
(* of the day give one.                                                    *)
(***************************************************************************)
Settle ==
    \E k \in 0..Len(queue), c \in Configs :
        LET added == SubSeq(book', Len(book) + 1, Len(book'))
            taken == SubSeq(queue, 1, k)
        IN  /\ book' = book \o added
            /\ IF c.MiningReward > 0
               THEN added # << >> /\ IsReward(added[1], c) /\ Tail(added) = taken
               ELSE added = taken
            /\ queue' = SubSeq(queue, k + 1, Len(queue))
            /\ Fits(NewState, book' \o queue')

PNext == Accept \/ Settle

PSpec == PInit /\ [][PNext]_<<book, queue>>
=============================================================================
