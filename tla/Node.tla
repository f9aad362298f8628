-------------------------------- MODULE Node --------------------------------
(***************************************************************************)
(* internal/api: the HTTP server's requests.  Every handler takes one      *)
(* mutex, and reads the chain in memory or changes it and saves it to the  *)
(* file, and answers; requests queue for the mutex, saves fail, the        *)
(* process is interrupted or dies, and the next one starts from the file.  *)
(*                                                                         *)
(* The money is abstracted away (module Chain): a chain is the requests it *)
(* contains, those in blocks and those still pending, and the ledger's     *)
(* verdict on a request may be either.  A save is atomic (module Store).   *)
(* POST /keys, which leaves the chain alone, is Cli's Keygen.              *)
(***************************************************************************)
EXTENDS Naturals, Sequences, FiniteSets

CONSTANTS
    Clients,       \* each makes one request
    Nobody,        \* who holds a free mutex
    BlockRoom,     \* how many pending requests fit a block
    MayDie         \* whether the process may die or a save fail

ASSUME NodeAssumption ==
    /\ Nobody \notin Clients
    /\ BlockRoom \in Nat \ {0}
    /\ MayDie \in BOOLEAN

VARIABLES
    server,      \* "down", "up" or, once interrupted, "closing"
    chain,       \* what the process has in memory
    file,        \* what is in the data file
    holder,      \* who holds the mutex
    asks,        \* per client: what it asks for
    at,          \* per client: how far its request is
    body,        \* the transactions of the block being mined
    seen,        \* history, per client: the chain that a read was shown
    dropped      \* history: the pending payments that a load dropped

vars == <<server, chain, file, holder, asks, at, body, seen, dropped>>

Fresh == [mined |-> << >>, pending |-> << >>]

(***************************************************************************)
(* A request is at rest before it is made and after it was answered, or    *)
(* cut off by the end of the process.                                      *)
(***************************************************************************)
Requests == {"payment", "block", "read"}
Answers == {"accepted", "refused", "not saved"}
InHandler == {"queueing", "mining", "reading", "saving"}
InFlight == {"waiting"} \union InHandler

Init ==
    /\ server = "up"
    /\ chain = Fresh
    /\ file = Fresh
    /\ holder = Nobody
    /\ asks \in [Clients -> Requests]
    /\ at = [c \in Clients |-> "unmade"]
    /\ body = << >>
    /\ seen = [c \in Clients |-> Fresh]
    /\ dropped = {}

GoTo(c, place) == at' = [at EXCEPT ![c] = place]

(***************************************************************************)
(* A handler starts and waits for the mutex.  Once the server is closing   *)
(* its listener is shut.                                                   *)
(***************************************************************************)
Arrive(c) ==
    /\ server = "up"
    /\ at[c] = "unmade"
    /\ GoTo(c, "waiting")
    /\ UNCHANGED <<server, chain, file, holder, asks, body, seen, dropped>>

(***************************************************************************)
(* A body that is not JSON, or a height that is not a number, is refused   *)
(* before the handler locks anything.  POST /mine has neither.             *)
(***************************************************************************)
RefuseAtOnce(c) ==
    /\ at[c] = "waiting"
    /\ asks[c] # "block"
    /\ GoTo(c, "refused")
    /\ UNCHANGED <<server, chain, file, holder, asks, body, seen, dropped>>

\* What a handler does first under the mutex.
Begins == [payment |-> "queueing", block |-> "mining", read |-> "reading"]

\* Mutant (nobody looks whether the mutex is free).
LockAnyway(c) ==
    /\ at[c] = "waiting"
    /\ holder' = c
    /\ body' = body
    /\ GoTo(c, Begins[asks[c]])
    /\ UNCHANGED <<server, chain, file, asks, seen, dropped>>

(***************************************************************************)
(* s.mu.Lock().  POST /mine then picks the transactions of its block.      *)
(***************************************************************************)
Lock(c) ==
    /\ at[c] = "waiting"
    /\ holder = Nobody
    /\ holder' = c
    /\ GoTo(c, Begins[asks[c]])
    /\ body' = IF asks[c] = "block"
               THEN SubSeq(chain.pending, 1,
                           IF BlockRoom < Len(chain.pending)
                           THEN BlockRoom ELSE Len(chain.pending))
               ELSE body
    /\ UNCHANGED <<server, chain, file, asks, seen, dropped>>

\* Mutant (the mutex is not unlocked).
AnswerLocked(c, answer) == GoTo(c, answer) /\ holder' = holder

(***************************************************************************)
(* The deferred s.mu.Unlock(), after the response is written.              *)
(***************************************************************************)
Answer(c, answer) ==
    /\ GoTo(c, answer)
    /\ holder' = Nobody

(***************************************************************************)
(* POST /faucet and POST /transactions: the pool takes it or not.          *)
(***************************************************************************)
Queue(c) ==
    /\ at[c] = "queueing"
    /\ chain' = [chain EXCEPT !.pending = Append(@, c)]
    /\ GoTo(c, "saving")
    /\ UNCHANGED <<server, file, holder, asks, body, seen, dropped>>

RefuseToQueue(c) ==
    /\ at[c] = "queueing"
    /\ Answer(c, "refused")
    /\ UNCHANGED <<server, chain, file, asks, body, seen, dropped>>

\* Mutants (the pool is not drained; it is drained at the wrong end).
MineDrainsNothing(c) ==
    /\ at[c] = "mining"
    /\ chain' = [chain EXCEPT !.mined = Append(@, body)]
    /\ body' = << >>
    /\ GoTo(c, "saving")
    /\ UNCHANGED <<server, file, holder, asks, seen, dropped>>

MineDrainsNewest(c) ==
    /\ at[c] = "mining"
    /\ chain' = [mined   |-> Append(chain.mined, body),
                 pending |-> SubSeq(chain.pending, 1,
                                    Len(chain.pending) - Len(body))]
    /\ body' = << >>
    /\ GoTo(c, "saving")
    /\ UNCHANGED <<server, file, holder, asks, seen, dropped>>

(***************************************************************************)
(* POST /mine: chain.Mine appends the block and drops its transactions     *)
(* from the pool.  It fails when the block does not fit the balances, or   *)
(* when its context, the request's, is cancelled: the client hung up.      *)
(***************************************************************************)
Mine(c) ==
    /\ at[c] = "mining"
    /\ chain' = [mined   |-> Append(chain.mined, body),
                 pending |-> SubSeq(chain.pending, Len(body) + 1,
                                    Len(chain.pending))]
    /\ body' = << >>
    /\ GoTo(c, "saving")
    /\ UNCHANGED <<server, file, holder, asks, seen, dropped>>

MineFails(c) ==
    /\ at[c] = "mining"
    /\ body' = << >>
    /\ Answer(c, "refused")
    /\ UNCHANGED <<server, chain, file, asks, seen, dropped>>

\* Mutant (a read does not wait for the mutex).
ReadUnlocked(c) ==
    /\ at[c] = "waiting" /\ asks[c] = "read"
    /\ seen' = [seen EXCEPT ![c] = chain]
    /\ GoTo(c, "accepted")
    /\ UNCHANGED <<server, chain, file, holder, asks, body, dropped>>

(***************************************************************************)
(* The GET requests: the answer is made of the chain as it is in memory.   *)
(***************************************************************************)
Read(c) ==
    /\ at[c] = "reading"
    /\ seen' = [seen EXCEPT ![c] = chain]
    /\ Answer(c, "accepted")
    /\ UNCHANGED <<server, chain, file, asks, body, dropped>>

\* GET /blocks of a height that is not there.
RefuseToRead(c) ==
    /\ at[c] = "reading"
    /\ Answer(c, "refused")
    /\ UNCHANGED <<server, chain, file, asks, body, seen, dropped>>

(***************************************************************************)
(* persist, and the answer.  A failed save is reported and the change      *)
(* stays in memory.                                                        *)
(***************************************************************************)
Persist(c) ==
    /\ at[c] = "saving"
    /\ file' = chain
    /\ Answer(c, "accepted")
    /\ UNCHANGED <<server, chain, asks, body, seen, dropped>>

\* Mutant (the error of the save is swallowed).
PersistFailsSilently(c) ==
    /\ MayDie
    /\ at[c] = "saving"
    /\ Answer(c, "accepted")
    /\ UNCHANGED <<server, chain, file, asks, body, seen, dropped>>

PersistFails(c) ==
    /\ MayDie
    /\ at[c] = "saving"
    /\ Answer(c, "not saved")
    /\ UNCHANGED <<server, chain, file, asks, body, seen, dropped>>

(***************************************************************************)
(* Ctrl-C: Shutdown closes the listener, waits for the handlers, and after *)
(* ten seconds stops waiting.  Either way the process ends.                *)
(***************************************************************************)
Interrupt ==
    /\ server = "up"
    /\ server' = "closing"
    /\ UNCHANGED <<chain, file, holder, asks, at, body, seen, dropped>>

ProcessEnds ==
    /\ server' = "down"
    /\ chain' = Fresh
    /\ holder' = Nobody
    /\ at' = [c \in Clients |-> IF at[c] \in InFlight THEN "cut off" ELSE at[c]]
    /\ body' = << >>
    /\ UNCHANGED <<file, asks, seen, dropped>>

ShutdownDone ==
    /\ server = "closing"
    /\ \A c \in Clients : at[c] \notin InFlight
    /\ ProcessEnds

ShutdownTimesOut ==
    /\ server = "closing"
    /\ \E c \in Clients : at[c] \in InFlight
    /\ ProcessEnds

Die ==
    /\ MayDie
    /\ server # "down"
    /\ ProcessEnds

\* Mutant (the file is not loaded).
StartFresh ==
    /\ server = "down"
    /\ server' = "up"
    /\ UNCHANGED <<chain, file, holder, asks, at, body, seen, dropped>>

Flat(blocks) ==
    LET upTo[i \in 0..Len(blocks)] ==
            IF i = 0 THEN << >> ELSE upTo[i - 1] \o blocks[i]
    IN  upTo[Len(blocks)]

\* A sequence of requests without some of them.
Without(s, gone) ==
    Flat([i \in DOMAIN s |-> IF s[i] \in gone THEN << >> ELSE <<s[i]>>])

(***************************************************************************)
(* open: the next process loads the file, and drops any pending payments   *)
(* that no longer fit the balances.  Which do not fit is the file's alone  *)
(* to say, so what one load dropped, the next load of that file drops too. *)
(* A file whose blocks do not validate leaves the server down.             *)
(* (A payment was only queued because it fit, and still does unless a      *)
(* reward came in between that leaves its receiver no room for it: module  *)
(* Chain, ReloadChangesNothing and PoolNeverStale.)                        *)
(***************************************************************************)
Start ==
    /\ server = "down"
    /\ server' = "up"
    /\ \E gone \in SUBSET {file.pending[i] : i \in DOMAIN file.pending} :
          dropped' = dropped \union gone
    /\ chain' = [file EXCEPT !.pending = Without(@, dropped')]
    /\ UNCHANGED <<file, holder, asks, at, body, seen>>

Handler(c) ==
    \/ Queue(c) \/ RefuseToQueue(c)
    \/ Mine(c) \/ MineFails(c)
    \/ Read(c) \/ RefuseToRead(c)
    \/ Persist(c) \/ PersistFails(c)

Next ==
    \/ \E c \in Clients : Arrive(c) \/ RefuseAtOnce(c) \/ Lock(c) \/ Handler(c)
    \/ Interrupt \/ ShutdownDone \/ ShutdownTimesOut \/ Die \/ Start

Spec == Init /\ [][Next]_vars

(***************************************************************************)
(* A handler that holds the mutex runs on (a search that is not cancelled  *)
(* ends, module Miner), and Go's mutex starves nobody.                     *)
(***************************************************************************)
Fairness == \A c \in Clients : WF_vars(Handler(c)) /\ SF_vars(Lock(c))

FairSpec == Spec /\ Fairness

-----------------------------------------------------------------------------
(***************************************************************************)
(* A chain as one sequence of requests, and how often one is in it.        *)
(***************************************************************************)
History(ch) == Flat(ch.mined) \o ch.pending

Times(c, ch) == Cardinality({i \in DOMAIN History(ch) : History(ch)[i] = c})

Extends(longer, shorter) ==
    /\ Len(longer) >= Len(shorter)
    /\ SubSeq(longer, 1, Len(shorter)) = shorter

(***************************************************************************)
(* A chain continues an older one when it has its blocks and more, and its *)
(* payments in their order and more, apart from those a load dropped.      *)
(***************************************************************************)
Continues(ch, older, gone) ==
    /\ Extends(ch.mined, older.mined)
    /\ Extends(Without(History(ch), gone), Without(History(older), gone))

Chains == [mined : Seq(Seq(Clients)), pending : Seq(Clients)]

(***************************************************************************)
(* Type correctness, and what the mutex is for: at most its holder is      *)
(* inside a handler.                                                       *)
(***************************************************************************)
TypeOK ==
    /\ server \in {"down", "up", "closing"}
    /\ chain \in Chains /\ file \in Chains /\ seen \in [Clients -> Chains]
    /\ body \in Seq(Clients)
    /\ dropped \subseteq Clients
    /\ asks \in [Clients -> Requests]
    /\ at \in [Clients -> {"unmade", "cut off"} \union InFlight \union Answers]
    /\ \A c \in Clients : at[c] \in InHandler <=> holder = c

(***************************************************************************)
(* A payment that was answered 202 is in the file, once, through failed    *)
(* saves, deaths and restarts, unless a restart found that it no longer    *)
(* fits the balances and dropped it.                                       *)
(***************************************************************************)
AcceptedIsKept ==
    \A c \in Clients :
        at[c] = "accepted" /\ asks[c] = "payment" /\ c \notin dropped =>
            Times(c, file) = 1

(***************************************************************************)
(* Neither a refused payment nor one of a client that made none is ever on *)
(* the chain, nothing is on it twice, and a payment that a load dropped is *)
(* not in memory again, nor does it get into a block.                      *)
(***************************************************************************)
NothingInvented ==
    /\ \A c \in Clients, ch \in {chain, file} :
          /\ Times(c, ch) <= 1
          /\ Times(c, ch) = 1 =>
                asks[c] = "payment" /\ at[c] \notin {"unmade", "waiting", "refused"}
    /\ \A c \in dropped :
          /\ Times(c, chain) = 0
          /\ Times(c, [file EXCEPT !.pending = << >>]) = 0

(***************************************************************************)
(* While a process runs its memory continues the file: same blocks and     *)
(* more, same order of payments and more, so a save never undoes one.      *)
(***************************************************************************)
MemoryContinuesFile ==
    server # "down" => Continues(chain, file, dropped)

(***************************************************************************)
(* What a client was shown is not taken back: a read that is answered      *)
(* shows blocks and pending payments that are in the file from then on, as *)
(* the mutex keeps it from seeing a change before it is saved.  There are  *)
(* two exceptions: the change of a request that was answered "not saved",  *)
(* which stays in memory and is lost if the process ends first, and the    *)
(* pending payments that a load dropped.                                   *)
(***************************************************************************)
ReadsAreKept ==
    (\A c \in Clients : at[c] # "not saved") =>
        \A c \in Clients : Continues(file, seen[c], dropped)

(***************************************************************************)
(* The file's blocks are only ever added to, across processes, and its     *)
(* payments too but for those that a load dropped.                         *)
(***************************************************************************)
FileIsAppendOnly == [][Continues(file', file, dropped')]_vars

(***************************************************************************)
(* Every request is answered unless the process ends.                      *)
(***************************************************************************)
EveryRequestEnds ==
    \A c \in Clients :
        at[c] = "waiting" ~> at[c] \in Answers \union {"cut off"}

(***************************************************************************)
(* "Shuts down gracefully so an in-flight mine is not cut off mid-block"   *)
(* (ListenAndServe), for a process that does not die.                      *)
(***************************************************************************)
ShutdownCutsNoMine ==
    [][\A c \in Clients : at[c] = "mining" => at'[c] # "cut off"]_vars
=============================================================================
