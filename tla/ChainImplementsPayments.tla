----------------------- MODULE ChainImplementsPayments ----------------------
(***************************************************************************)
(* The refinement mapping from a chain of blocks to the book of payments:  *)
(* the book is the blocks' transactions end to end, the queue is the pool. *)
(***************************************************************************)
EXTENDS Chain

P == INSTANCE Payments WITH book <- Book, queue <- pool

(***************************************************************************)
(* The chain implements Payments: cached balances, block boundaries,       *)
(* aborted searches and reloads never accept, settle, lose or reorder a    *)
(* payment that the abstract book would not.  Code: Chain as a whole.      *)
(***************************************************************************)
ImplementsPayments == P!PSpec
=============================================================================
