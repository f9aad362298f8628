-------------------------------- MODULE Miner -------------------------------
(***************************************************************************)
(* internal/miner: the parallel search for a nonce.  MineWith starts one   *)
(* goroutine per worker, waits for all of them, and returns the first      *)
(* block that reached the channel "found".  What is interleaved is what    *)
(* the goroutines share: the channel, the context, the hash counter.       *)
(*                                                                         *)
(* A block is abstracted to its nonce: "good" is the set of nonces whose   *)
(* hash meets the candidate's difficulty, any set at all.                  *)
(***************************************************************************)
EXTENDS Integers, Sequences, FiniteSets

CONSTANTS
    WorkerCounts,      \* numbers of workers MineWith may be asked for
    MaxNonce,          \* the largest uint64, shrunk
    CheckInterval,     \* cancelCheckInterval, shrunk
    CancelledBefore    \* whether the caller's context may arrive cancelled

ASSUME MinerAssumption ==
    /\ MaxNonce \in Nat
    /\ WorkerCounts \subseteq Int
    /\ \A n \in WorkerCounts : n <= MaxNonce
    /\ MaxNonce >= 1
    /\ CheckInterval \in Nat \ {0}
    /\ CancelledBefore \subseteq BOOLEAN

VARIABLES
    good,       \* the nonces that meet the difficulty
    stride,     \* how many workers there are
    nonce,      \* per worker: the nonce it is at
    tried,      \* per worker: how many it has hashed
    pc,         \* per worker: "try", "send", "stop", "leave" or "done"
    found,      \* the channel
    cancelled,  \* the caller's context is cancelled
    stopped,    \* stop() was called on the derived context
    hashes,     \* the shared atomic counter
    outcome     \* what MineWith returned

callVars == <<good, stride>>
loopVars == <<nonce, tried>>
vars == <<callVars, loopVars, pc, found, cancelled, stopped, hashes, outcome>>

Nonces == 0..MaxNonce
Workers == 0..(stride - 1)

Running == [kind |-> "running"]
Mined(n) == [kind |-> "mined", nonce |-> n]
CtxErr == [kind |-> "context error"]
NoNonce == [kind |-> "no nonce"]

\* Mutant (no wrap-around).
PlusUnbounded(a, b) == a + b

(***************************************************************************)
(* uint64 addition.                                                        *)
(***************************************************************************)
Plus(a, b) == (a + b) % (MaxNonce + 1)

(***************************************************************************)
(* The derived context is cancelled by stop() or through its parent.       *)
(***************************************************************************)
ctxErr == cancelled \/ stopped

\* Mutants (no worker starts at nonce 0; all of them do).
FirstNonceFromOne(w) == w + 1

FirstNonceZero(w) == 0

(***************************************************************************)
(* The nonces are shared out by their remainder modulo the stride.         *)
(***************************************************************************)
FirstNonce(w) == w

Init ==
    /\ good \in SUBSET Nonces
    /\ \E n \in WorkerCounts : stride = IF n < 1 THEN 1 ELSE n
    /\ nonce = [w \in Workers |-> FirstNonce(w)]
    /\ tried = [w \in Workers |-> 0]
    /\ pc = [w \in Workers |-> "try"]
    /\ found = << >>
    /\ cancelled \in CancelledBefore
    /\ stopped = FALSE
    /\ hashes = 0
    /\ outcome = Running

GoTo(w, label) == pc' = [pc EXCEPT ![w] = label]

\* Mutant (the last nonce of all is taken for past the end).
WrapsInclusive(w) == nonce[w] + stride >= MaxNonce

(***************************************************************************)
(* Stepping once more would wrap around: this worker's nonces are used up. *)
(***************************************************************************)
Wraps(w) == Plus(nonce[w], stride) < nonce[w]

(***************************************************************************)
(* One turn of the loop: hash, compare, now and then look at the context,  *)
(* and move on unless the nonce space is used up.                          *)
(***************************************************************************)
Try(w) ==
    /\ pc[w] = "try"
    /\ tried' = [tried EXCEPT ![w] = @ + 1]
    /\ IF nonce[w] \in good
       THEN GoTo(w, "send") /\ nonce' = nonce
       ELSE IF \/ tried'[w] % CheckInterval = 0 /\ ctxErr
               \/ Wraps(w)
            THEN GoTo(w, "leave") /\ nonce' = nonce
            ELSE /\ nonce' = [nonce EXCEPT ![w] = Plus(@, stride)]
                 /\ pc' = pc
    /\ UNCHANGED <<callVars, found, cancelled, stopped, hashes, outcome>>

\* Mutant (room for the winner only).
CapacityOne == 1

Capacity == stride

(***************************************************************************)
(* The channel holds as many blocks as there are workers; a full one would *)
(* block the sender.                                                       *)
(***************************************************************************)
Send(w) ==
    /\ pc[w] = "send"
    /\ Len(found) < Capacity
    /\ found' = Append(found, nonce[w])
    /\ GoTo(w, "stop")
    /\ UNCHANGED <<callVars, loopVars, cancelled, stopped, hashes, outcome>>

\* Mutant (the search goes on after a find).
StopAndGoOn(w) ==
    /\ pc[w] = "stop"
    /\ stopped' = TRUE
    /\ GoTo(w, "try")
    /\ UNCHANGED <<callVars, loopVars, found, cancelled, hashes, outcome>>

Stop(w) ==
    /\ pc[w] = "stop"
    /\ stopped' = TRUE
    /\ GoTo(w, "leave")
    /\ UNCHANGED <<callVars, loopVars, found, cancelled, hashes, outcome>>

(***************************************************************************)
(* After the loop: one atomic addition, then wg.Done.                      *)
(***************************************************************************)
Leave(w) ==
    /\ pc[w] = "leave"
    /\ hashes' = hashes + tried[w]
    /\ GoTo(w, "done")
    /\ UNCHANGED <<callVars, loopVars, found, cancelled, stopped, outcome>>

(***************************************************************************)
(* The caller's context is cancelled while MineWith runs.                  *)
(***************************************************************************)
Cancel ==
    /\ outcome = Running
    /\ ~cancelled
    /\ cancelled' = TRUE
    /\ UNCHANGED <<callVars, loopVars, pc, found, stopped, hashes, outcome>>

\* Mutant (the context is looked at before the channel).
ResultCtxFirst ==
    IF ctxErr THEN CtxErr
    ELSE IF found # << >> THEN Mined(Head(found)) ELSE NoNonce

(***************************************************************************)
(* The winner is the first block in the channel; without one the context   *)
(* decides the error.                                                      *)
(***************************************************************************)
Result ==
    IF found # << >> THEN Mined(Head(found))
    ELSE IF ctxErr THEN CtxErr ELSE NoNonce

(***************************************************************************)
(* wg.Wait returns once every worker is done.                              *)
(***************************************************************************)
Return ==
    /\ outcome = Running
    /\ \A w \in Workers : pc[w] = "done"
    /\ outcome' = Result
    /\ UNCHANGED <<callVars, loopVars, pc, found, cancelled, stopped, hashes>>

Worker(w) == Try(w) \/ Send(w) \/ Stop(w) \/ Leave(w)

Next ==
    \/ \E w \in Workers : Try(w)
    \/ \E w \in Workers : Send(w)
    \/ \E w \in Workers : Stop(w)
    \/ \E w \in Workers : Leave(w)
    \/ Cancel
    \/ Return

Spec == Init /\ [][Next]_vars

(***************************************************************************)
(* The Go scheduler runs every goroutine that can run.                     *)
(***************************************************************************)
Fairness ==
    /\ \A w \in 0..MaxNonce : WF_vars(w \in Workers /\ Worker(w))
    /\ WF_vars(Return)

FairSpec == Spec /\ Fairness

-----------------------------------------------------------------------------
(***************************************************************************)
(* Type correctness.                                                       *)
(***************************************************************************)
TypeOK ==
    /\ good \subseteq Nonces
    /\ stride \in 1..MaxNonce
    /\ nonce \in [Workers -> Nonces]
    /\ tried \in [Workers -> Nat]
    /\ pc \in [Workers -> {"try", "send", "stop", "leave", "done"}]
    /\ found \in Seq(Nonces)
    /\ cancelled \in BOOLEAN /\ stopped \in BOOLEAN
    /\ hashes \in Nat
    /\ outcome \in {Running, CtxErr, NoNonce} \union {Mined(n) : n \in Nonces}

(***************************************************************************)
(* The winner meets the difficulty and is the smallest such nonce of its   *)
(* worker; with one worker it is the smallest of all, as the comment on    *)
(* MineWith says.                                                          *)
(***************************************************************************)
WinnerIsSmallest ==
    \A n \in Nonces :
        outcome = Mined(n) =>
            n \in good /\ \A m \in good : m % stride = n % stride => n <= m

(***************************************************************************)
(* "no nonce satisfies difficulty" is only ever said when none does: the   *)
(* workers between them leave no nonce out, whatever the wrap-around.      *)
(***************************************************************************)
NoNonceIsTrue == outcome = NoNonce => good = {}

(***************************************************************************)
(* The context error is only returned for the caller's own cancellation,   *)
(* although a successful worker cancels the same context.                  *)
(***************************************************************************)
CtxErrIsCallers == outcome = CtxErr => cancelled

(***************************************************************************)
(* The reported number of hashes is the number of different nonces tried:  *)
(* no worker repeats another's work and no worker's count is lost.         *)
(***************************************************************************)
HashesCountNonces ==
    outcome # Running =>
        hashes = Cardinality({n \in Nonces : n <= nonce[n % stride]})

(***************************************************************************)
(* A worker with a block to send never waits: it would, with a channel of  *)
(* smaller capacity, wait for ever, and wg.Wait with it.                   *)
(***************************************************************************)
SendNeverBlocks ==
    \A w \in Workers : pc[w] = "send" => Len(found) < Capacity

(***************************************************************************)
(* MineWith returns.                                                       *)
(***************************************************************************)
Returns == <>(outcome # Running)

(***************************************************************************)
(* "Cancelling ctx stops the search promptly and returns ctx.Err()": what  *)
(* the comment on Mine and the tests of chain expect of a context that is  *)
(* cancelled from the start.                                               *)
(***************************************************************************)
CancelledMineFails == outcome # Running => outcome = CtxErr
=============================================================================
