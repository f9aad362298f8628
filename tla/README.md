# A TLA+ model of the toy blockchain

`src/` is a single-node blockchain in Go: a ledger of signed transfers, blocks
linked by hash and mined by proof of work, a chain that owns both, a JSON file
it is saved to, a CLI and an HTTP server in front of it, and a local keystore.
This directory holds its specification: modules translated from that code, TLC
runs that check them on small instances, and proofs that hold for every instance.

Commands, from this directory:

    tlc -workers 2 -config ChainTrustedClock.cfg MCChain.tla
    tlc -workers 2 -config CliCommands.cfg MCCli.tla
    tlapm ChainProofs.tla

## 1. The system

| Component (`src/internal/...`) | State | Operations | Talks to | What makes it correct |
|---|---|---|---|---|
| `ledger/state.go` | balance of every account | `CanApply`, `Apply`, `ApplyAll`, `Supply` | called by pool and chain | never negative, never wraps; all of a block or nothing; supply = coins minted |
| `ledger/transaction.go`, `signature.go` | none | `NewTransfer`, `NewCoinbase`, `Sign`, `Validate`, `VerifySignature`, `ID` | ledger state, Merkle root | a transfer is made by the owner of its sender |
| `ledger/mempool.go` | queue of accepted transactions | `Add`, `Peek`, `Remove` | ledger state | everything queued can be paid, in order; nothing lost or repeated |
| `block/` | none | `New`, `ComputeHash`, `MerkleRoot`, `Genesis`, `MeetsDifficulty` | transactions | a hash commits to every field and transaction |
| `chain/chain.go` | blocks, balances, pool, configuration, clock | `New`, `Load`, `AddTransaction`, `Faucet`, `Mine` | all of the above, miner | balances = replay of the blocks; built chains validate; a failed mine changes nothing |
| `chain/validate.go` | none | `Validate` | block, ledger | accepts what the chain builds, names the first broken rule otherwise |
| `miner/miner.go` | goroutines, channel, two contexts, counter | `Mine`, `MineWith` | block | exhaustive, terminates, reports the right outcome and count |
| `store/store.go` | `chain.json`, `chain.json.tmp` | `Load`, `Save` | file system | the file always loads; what was reported saved stays |
| `api/` | one mutex, the chain, the file | POST `/faucet`, `/transactions`, `/mine`, `/keys`; reads; shutdown | chain, store, wallet | requests are serialised; accepted means saved; what a read showed stays; every request ends |
| `cli/` | the configuration and what it names, until the command ends | configure, open, one operation, save | config, chain, store, wallet | the files and the recipients are the ones that were meant; coins paid to a key can be spent later |
| `wallet/wallet.go` | label -> private key, in memory and in `keys.json` | `Open`, `Create`, `KeyPair`, `Resolve` | file system | with one process at a time, no reported key is lost or replaced |
| `config/` | none | `Load`, `loadDotEnv`, `Validate`, and the CLI's flags | environment, `.env` | order of precedence; rejects nonsensical values |
| `bench/` | none | `Run` | miner | not modelled: statistics printed as a table |

The behaviours that are hard to test:

* a proof of work takes time, during which the clock moves, other requests wait,
  the client may leave and the process may be stopped;
* the miner's goroutines race each other, the caller's cancellation and the end
  of the nonce space;
* a save is several system calls, each of which may fail or be the last one the
  process makes; after a failed one memory and file differ;
* the chain is rebuilt from the file at every start, by another path (`Load`)
  than the one that built it (`Mine`, `Add`), which may refuse the blocks, or drop
  pending transactions, without a word;
* the wall clock, on which block timestamps depend, may step back;
* the keystore is rewritten in place, after memory was changed, and a process
  keeps the copy it read when it started;
* a configuration has four sources, merged by code in another order than that of
  their precedence;
* the chain file is meant to be edited by hand, and validation to say where;
* balances are `int64`, and configuration has extreme but accepted values.

`PROJECT.json` lists these at their lines under `hazards`, with the properties
that would catch them going wrong.

## 2. Modules

    Ledger <- Block <- Validation <- Chain <-+- ChainImplementsPayments <-+-
MCChain        ^                                     |        |
|        +------------ Payments <--------------|--------+ (INSTANCE)        |
+- Audit <-------------------+     Wallet <-+- Cli <- MCCli     Config <-+
Miner        Store        Node

    Induction <-+- ReplayProofs <- ChainProofs <- QueueProofs
                +- NodeProofs
                +- CliProofs
    StoreProofs  MinerProofs

**Ledger** — the rules of `internal/ledger` as operators. Balances are a total
function (an absent map entry reads as zero). `Run(bal, txs)` is the sequence of
balances `ApplyAll`'s copy goes through, `Fits` says no transaction fails on the
way, `ApplyAll` is the committed result. `CanAdd`, `Peek` and `Remove` are the
pool's methods; `Readmit` is the loop at the end of `chain.Load`. A signature
records the key that made it and what it was made over, so it verifies for that
key and those bytes only; the public key that the code signs along with the rest
is the `key` field. Addresses are members of a set: the syntax check of
`validAddress` is membership. `MaxInt64` is a constant and stands for 2^63 - 1.

**Block** — construction, hashing, the Merkle reduction (rounds over neighbours,
odd node with itself), genesis. A hash is a tuple that contains what was hashed,
so equal hashes mean equal contents; how many leading zeros it has is the
constant operator `LeadingZeros`, about which nothing is assumed but that it is
a number for the genesis block.

**Validation** — the seven rules and the replay of `chain.Validate`. `Valid` is
"no error"; `Verdict` is the block and the rule that the returned
`ValidationError` names. TLA+ sequences start at 1: block i of the code is
`blocks[i + 1]`.

**Audit** — what those rules make of a chain whose file was edited: every chain
that Chain builds, with one block's body or header changed and then, as
`validate_test.go` does, its Merkle root, its hash and its proof of work repaired
one after the other.

**Chain** — `chain.go` as a state machine. `blocks`, `balances`, `pool` are the
fields of the Go struct, `cfg` the settings of the running process (target, block
size, reward, miner), `up` whether one runs, `clock` the wall clock in units of
which `TicksPerSecond` make a second (transactions are stamped in nanoseconds,
blocks in seconds). `Mine` is two steps: `MineBegin` is
everything up to the call of the miner, and the miner finishes with `MineEnd`
(success, any nonce that is good) or `MineAbort` (cancelled, nothing found);
`candidate` and `fromPool` are Mine's local variables. The code reads the clock
twice in a row, for the reward and for the block; the model reads it once. No
operation on the chain runs during a search, since the server holds its mutex
and the CLI has one thread, but the clock does. `Reload` is the process ending
and the next one running `chain.Load` on what was saved, under any of the
`Configs`. `ReloadRefused` is Load's error for a chain that does not validate: no
process comes up, then or later, since the file stays as it is. Any other
operation that the code refuses changes nothing and is not an action. `accepted`
and `rewards`, how many rewards each block was given, are history variables.

**Payments** is what a node promises, without blocks, hashes or cached balances:
a book that only grows, a queue settled first come first served, the book
followed by the queue payable at every moment starting from nothing.
**ChainImplementsPayments** maps a chain to it: the book is the blocks'
transactions end to end, the queue is the pool.

**Miner** — `MineWith`. One program counter per goroutine (`try`, `send`,
`stop`, `leave`, `done`); shared are the channel, the two contexts (`cancelled`
by the caller, `stopped` by a successful worker) and the hash counter. A block
is its nonce; `good` is any set of nonces that meet the difficulty. uint64
arithmetic wraps at `MaxNonce`, the context is looked at every `CheckInterval`
nonces.

**Store** — `Store.Save` and `Store.Load` one system call at a time over a file
system of names, inodes and open files (external). A saved chain is the set of
updates it contains; a file may also be empty or torn. Processes load, change
and save; they fail or crash at any step. `Exclusive` says whether at most one
runs at a time, as the comment on `serve` asks for.

**Node** — the server. A request waits for the mutex, reads the chain in memory,
or changes it and saves it, answers and unlocks; a body or a parameter that does
not parse is refused before the mutex; Ctrl-C closes the listener and waits for
the handlers at most ten seconds; the process may die anywhere and the next
loads the file. A chain is the requests it contains, and the ledger's verdict on
a request, on a block, or on what is pending when the file is loaded, may be
either: money is Chain's subject. So `Start` drops any of the file's pending
payments (`Load` drops those that no longer fit, which after finding 3 there may
be), and the same again if the same file is loaded again; `dropped` remembers
them. A save is one
step, which Store justifies. `Lock` is mapped to `mine` and stands for the same
line of each handler; `Queue` and `RefuseToQueue` stand for `faucet` and
`createTransaction` alike, and `Read` for the GET handlers, of which `seen`
remembers what they showed.

**Wallet** — the keystore. `keys` is the map a process has in memory and
`keyfile` what is on disk: absent, empty, torn, or a whole map. `Create` changes
the map and begins a save of two system calls, `SaveOpens` (truncate) and
`SaveWrites`, either of which may fail (`SaveFails`) or be the last (`End`). A
key stands for its private half, its public half and its address. `made`, `told`
and `refused` are histories: the keys that were generated, and those of which
`Create` reported success or an error.

**Config** — functions: what the `.env` file, the environment and the flags,
each a source that says a number, a text, nothing or a typo of some settings,
come to (`Configuration`), in the order of the statements of the code, and the
same from the order the package comment gives (`LastOneWins`).

**Cli** — the composition: a process computes its configuration, opens the chain
file and the key file it names, and then runs commands, whose operations on the
keystore are Wallet's. Of the chain it keeps who received coins (`payees`,
`chainfile`). A command is a process that runs one operation, `serve` one that
runs many, so that processes here run any number. `cmd/`, which calls
`config.Load` and `cli.Run`, is not in the repository; `Configuration` and
`Configure` are what `cli.Run` expects of it.

Operators whose comment begins with "Mutant" are plausible wrong versions of the
definition that follows them. No specification uses them: each is there to be
put in place of its original, upon which the run named in `PROJECT.json` must
find the property it names violated.

## 3. Runs

| Configuration | Instance | What it shows |
|---|---|---|
| `ChainTrustedClock` | 2 accounts, amount 2, 2 settings to start with (3 transactions per block, reward 3, difficulty 1; 1 per block, no reward, difficulty 2, the other miner), 3 blocks, clock 0..3 with 2 ticks a second; 81,724 states | all safety properties of Chain, that it implements Payments, and which edits of a body keep its Merkle root |
| `ChainAnyClock` | as above with blocks of 2, rewards 3 and 1 for different miners, a clock that steps back, so that starts are refused; 83,180 states | `BalancesAreReplay`; `EveryAcceptedIsSettled` under fairness, unless a start is refused; edits of a body that change its Merkle root are reported where and as they should be (`EditsAreReported`), and the last hash commits to the history, headers and bodies edited (`TipHashCommits`) |
| `ChainClockStepsBack` | 2 blocks | **violation** of `ChainAlwaysValid` |
| `ChainBlockOfOne` | blocks of 1, a reward | **violation** of `MiningDrainsPool` |
| `ChainOverflow` | `MaxInt64` = 7 | **violation** of `PoolNeverStale` |
| `MinerSearch` | 7 nonces, any good set, 0 to 3 workers, interval 2; 81,842 states | `MineWith` is exhaustive, counts right, returns |
| `MinerCancelledBefore` | 2 workers, 5 nonces | **violation** of `CancelledMineFails` |
| `StoreOneWriter` | 2 processes one at a time, 4 updates; 63,715 states | `FileAlwaysLoads`, `ReportedIsSaved`, `FileOnlyGrows` |
| `StoreTwoWriters` | 2 processes at once | **violation** of `FileAlwaysLoads` |
| `NodeRequests` | 3 clients, blocks of 1 payment, loads that drop any pending payments; 41,319 states | durability, what a read showed is kept, append-only file, each up to what a load dropped; every request ends |
| `NodeShutdown` | 2 clients, no deaths | **violation** of `ShutdownCutsNoMine` |
| `CliCommands` | processes one after the other, 2 labels, 2 keys, 2 key files, 6 environments, 5 `.env` files, 6 sets of flags; 671,148 states | the configuration is the one documented; reported keys are kept, and coins paid to them spendable, through failures, crashes and restarts |

The properties, in the modules, are commented with the code they are about.

*Bounds.* `MaxHeight` bounds blocks mined, and `RoomToMine` keeps the queue
small enough to be mined within it, so that the liveness property is not
defeated by the bound; `MaxClock` bounds the clock. Three blocks of three slots
with two accounts are enough for a transfer that spends an unconfirmed faucet, a
queue longer than a block, two blocks in the same second, and a reload in each
of these states; `MaxInt64` = 63 is out of reach there, so that the instance
meets the assumption of QueueProofs (`Most` = 3, `Size` = 3, 36 <= 63). The
miner's seven nonces with a stride of up to three give every worker several
nonces, a ragged last round, a wrap-around, and a context check in the middle.
Three clients on the server let one save fail, a second repair it and a third
wait. Three are also enough for a payment, the block that takes it and a read
between any two steps of these. `MaxUpdates` = 4 gives both processes of Store a
failed save, a left-over temporary file and a later success.

Audit edits chains only when nothing is queued or being mined (`AtRest`): every
chain of blocks is reached in such a state, and edits of one chain would
otherwise be tried once per queue. That an odd body repeats its last transaction
unnoticed takes a body of three, hence a property of `ChainTrustedClock`. It is
stated of bodies in which no two transactions are the same. Where two are, which
two requests in the same nanosecond can bring about, more is missed: the body
`r, a, b, b` has the root of `r, a, b`.

In `CliCommands` one process identity is enough, as processes run one after the
other and an identity that has ended starts again with nothing. Two keys let a
key whose save failed be followed by another one's successful save, on the same
file or on the other one. The environments, files and flags vary a text setting,
the key file, on which the keystore properties depend, and a number: good, out
of range, empty or not a number, mentioned twice, commented out or malformed.
The other settings take the same path through the code.

*Fairness.* `Chain!Fairness`: mining is asked for again and again (weak fairness
of `MineBegin`) and not every search is aborted (strong fairness of `MineEnd`,
which `MineAbort` disables): an assumption about the operator of the node, as
mining happens on request. No fairness brings a node back that `Load` refused:
`EveryAcceptedIsSettled` makes that exception (`~up`), which `ChainAlwaysValid`
and `ValidityCorrect` rule out for a trusted clock. `Miner!Fairness`: the Go
scheduler runs a goroutine that can run. `Node!Fairness`: a handler inside the
mutex runs on, a cancelled or successful search being Miner's `Returns`, and
Go's mutex, which hands over to a waiter starved for a millisecond, locks for
each waiter eventually (strong fairness of `Lock`).

*Deadlock* is checked in Store, Node and Cli. Chain stops when its bounds are
reached and Miner when `MineWith` has returned, so their configurations switch
it off.

### What the violations say

Each is a finding in `PROJECT.json`, with the line of the source it contradicts.

1. `Mine` stamps a block with the wall clock without looking at the tip. After
   the clock steps back it appends a block older than its predecessor, saves it,
   and the file no longer loads: the node is down and its queue is stuck in the
   file.
2. A block size of 1 with a reward is accepted by `config.Validate`, and leaves
   no room for anything but the reward: the queue is never mined.
3. `Mempool.Add` does not count rewards still to be minted. Near the top of
   int64 one of them makes an accepted queue impossible to apply, for good; a
   restart then drops the payments that do not fit, though they were answered 202.
4. A cancelled search may still succeed: contexts are looked at every 4096
   nonces, and the channel before the context.
5. Two processes share one temporary file, so a race can leave `chain.json`
   empty, which is worse than the lost block the README warns of.
6. Shutdown waits ten seconds for a search and then cuts it off.

## 4. Proofs

`tlapm` checks the modules below; nothing is assumed but the `ASSUME`s on the
constants in Ledger, Block, Chain, Miner, Store, Node, Wallet, Config and Cli,
and what a theorem's own statement assumes. Every invariant and every action
property that a passing run checks is a theorem for all values of the constants.

| Module | Theorems | Assuming |
|---|---|---|
| ChainProofs | `TypeCorrect`, `BalancesCorrect`, `CandidateCorrect`, `LastHashCommits`, `EditsAreCommitted`, `EditsAreFound`, `RootsSummarise` | - |
| | `ValidityCorrect` | `~ClockStepsBack` (finding 1) |
| QueueProofs | `NeverStale`, `AcceptedCorrect`, `ReloadCorrect`, `PaymentsImplemented` | `CoinsFit(Most, Size)` (finding 3) |
| | `SupplyCorrect` | `CoinsFit(Most, Size)`, finitely many accounts |
| | `MiningProgresses` | `HasRoom`: every setting has a block size above its reward's slot (finding 2) |
| MinerProofs | `MinerTypes`, `WinnersAreSmallest`, `GivingUpIsRight`, `ErrorsAreCallers`, `HashesAreNonces`, `SendsNeverBlock` | - |
| StoreProofs | `StoreTypes` | - |
| | `SaveIsAtomic`, `SaveIsDurable`, `SaveOnlyAdds` | `Exclusive` (finding 5) |
| NodeProofs | `NodeTypes`, `NothingIsInvented` | - (money and the atomic save as Node abstracts them) |
| | `AcceptedStays`, `MemoryContinues`, `FileOnlyGrows` | nothing more; each excepts the pending payments that a load dropped |
| | `ReadsStay` | the same exception, and no request was answered "not saved" |
| CliProofs | `KeysAreKept`, `CliUsesWallet`, `CliTypeCorrect`, `ReportedKeysStay`, `CoinsAreSpendable` | `Exclusive`, which nothing in the code enforces for the key file; `CliAssumption`: chain and key files differ, labels and the configured miner are no keys |
| | `LastSourceWins` | - |

**ChainProofs.** `Invariance`: `Spec => []ChainInv`, for every set of accounts,
bound and clock, and every set of settings that the node may be restarted with.
`ChainInv` is the type invariant, `BalancesAreReplay` and `CandidateStaysGood`
with what makes them inductive: the candidate is what `block.New` makes (so that
its Merkle root and, once sealed, its hash are right), and, when the clock is
trusted, tip, candidate and clock are in order (so that the timestamp rule holds
of the next block). The step of the argument that needs work is `MineEnd`:
appending a block to a chain appends one step to the replay (`ReplayAppend`) and
leaves the verdict on earlier blocks alone (`ValidAppend`).

The second half is about edited chains. `LastHashCommits`: any two chains that
validate and end in the same hash have the same headers. Heights count positions
(from the genesis hash and the height rule), so the chains are equally long; from
the tip down, equal hashes have equal predecessors. `EditsAreCommitted` applies it
to the chains a node builds and the edits of them, for which `IsChain` (every
block is a record with the fields of `block.Block`) is added to `ChainInv`.
`EditsAreFound`: the blocks before an edited one are as they were, so none of
their rules fails and their replay gives the same balances (`ReplayAgrees`); at
the edited block the rules before the first that the repair has not reached hold
as they did (`OthersKept`, `PlacedBlock`); and if the repair reached them all, its
hash is another one, which the next block does not link to (`NextLinkBreaks`).
`RootsSummarise` rests on three facts about Merkle trees of any size
(ReplayProofs): bodies of one length with the same root have the same transaction
hashes in the same places (`RootOrders`); bodies of any lengths with the same root
have trees of one height and, level by level, the same nodes (`RootShowsNodes`),
because a pair is never a transaction; and an odd level and the same level with
its last node repeated have the same level above (`OddTailKeepsRoot`).

**QueueProofs.** With some amount `Most` that no request and no reward exceeds,
some `Size` that no block size exceeds, and

    MaxHeight * Size * Most + MaxHeight * Most <= MaxInt64

(`CoinsFit`: all that the longest chain can pay to one account fits in int64),
the queue never goes stale (`NeverStale`), nothing accepted is lost, repeated or
reordered (`AcceptedCorrect`), Load changes nothing (`ReloadCorrect`), and the
chain implements Payments (`PaymentsImplemented`: adding is Accept, finding a
block is Settle, all else is invisible). Some such assumption is needed: finding 3
is what happens otherwise. `QueueInv` adds to the two invariants that the book of
all blocks pays and gives the balances, how high a balance can be after that many
blocks, and that the candidate is a reward followed by the head of the queue. The
step that needs the assumption is `MineEnd`. The queue was checked against
balances without the reward, and what is left of it must now apply on top of
higher ones: transactions change balances by the same whatever these are
(`RunShift`), so debits stay covered, and credits stay below MaxInt64 by the bound
(`FitsMore`).

`SupplyCorrect` is about the sum of all balances, which `Supply` computes with
wrap-around. Without it, a transfer changes the sum by nothing and a coinbase by
its amount (`TotalApply`, by induction over the subsets of the accounts), so the
balances that replay the book add up to what it minted (`TotalMinted`); a block
mints at most `Size * Most`, hence the sum stays within int64 and
wrapping leaves it alone (`NoWrap`). `MiningProgresses` needs of the invariant
only that a block being mined took something from a queue that had anything
(`TakesFromPool`).

**MinerProofs.** `MinerInv` says of each worker that it is at a nonce of its own
remainder, has passed over no good one, and has counted one hash per stride
(`Place`), and why it left its loop (`Reason`: a block, the end of the space, or
the context); of the channel, that it holds the nonces at which workers stopped,
each once (`Channel`); of the counter, that it is the size of the set of nonces
tried by the workers that are done (`Counter`). A nonce belongs to the one worker
with its remainder, so those sets are disjoint, the channel never holds more than
one block of each of the others when a worker sends, and if all workers ran out of
nonces there was no good one.

**StoreProofs.** The types hold for any number of processes at once. Provided one
process runs at a time (`Exclusive`), the file always loads (`SaveIsAtomic`),
keeps what was reported saved (`SaveIsDurable`) and only grows (`SaveOnlyAdds`),
for any number of inodes, saves, failures and crashes. The invariant adds what a
running process relies on: it is alone, its memory has all the file has, the
temporary file it writes to is empty until it has written, and then whole.
`StoreTwoWriters` shows the assumption is needed.

**NodeProofs.** `NodeInv` is mutual exclusion and types; where a request can be
(`Handled`); that the block being mined is made of the head of the pool
(`Candidate`); and, of the histories in memory and in the file, that they hold
taken payments only, each once (`Genuine`), that a payment is in memory before
it is saved and in the file before it is answered, unless a load dropped it
(`Kept`), that a dropped one is in no block and not in memory (`Gone`), that
memory continues the file, and that without a failed save it is the file
whenever no handler is between its change and its save (`Shown`), which is why a
read shows nothing that can be taken back but by a load that drops it. One
history continues another when, both without the dropped payments (`Without`),
the one extends the other; that stays so as more are dropped (`ContinuesStill`),
and a load makes it so (`LoadFacts`, `StartBooks`). Histories are concatenations
over blocks, and the lemmas that carry the proof say what a new block and a new
pending payment make of them. The invariant does not say when a load drops
something: that no accepted payment is ever dropped as long as balances stay
below MaxInt64 is `ReloadCorrect`.

**CliProofs.** First the keystore, module Wallet: with one process at a time, a
key whose creation was reported stays in its file whenever that can be opened
(`KeysAreKept`). A key that stays there and is in the memory of the process that
uses the file is `Safe`, and no step ends that (`SafeStays`). Safety of reported
keys is not inductive by itself: a key becomes safe when a save completes, which
is a save of all of the map, so the invariant also says of every key in memory
that it is safe, being saved or was refused (`MemoryIsSafe`), that every key in
a map or a file was made for that label and file (`AllMade`), and no key twice
(`MadeOnce`). `CliUsesWallet`: whatever is configured and asked for, Cli
implements Wallet, so that holds for the commands. `CoinsAreSpendable` adds what
the chain relies on: a key that has coins is safe or was refused (`Fine`), since
a name is resolved in a map whose keys are, or is an address that keygen has
shown. The order in which a key is saved before it is shown or used is what the
proof rests on. These assume `Exclusive`, an assumption about how the program is
used: two processes that share a key file overwrite each other's keys, and the
comment on `serve` warns of a second writer of the data file only (section 5).
`CliAssumption` asks that a chain and a keystore are not the same file, that no
label has the form of an address, and that the configured miner is not a key of
the keystore, so that rewards are no coins of its keys.

`LastSourceWins` needs neither. It rests on `ConfigurationOrder`, about
functions: after i lines of `.env` the environment is what it was, on top of the
first of those lines for each setting (`ExportAdds`, `DotEnvLoaded`), whence
`Load` comes to the order of the sources, and `parseFlags` to that with the
flags on top. `SourcesAssumption` says that what a source holds for a number is
a number, empty or a typo.

**ReplayProofs** holds the lemmas about the recursive functions: what `Run`
computes, that applying transactions that fit keeps balances within 0..MaxInt64,
that running a concatenation is running its parts, what validation and replay
make of one more block, what balances add up to, and the trees that `MerkleRoot`
computes.
**Induction** gives what they rest on. Library theorems that take an operator
cannot be instantiated, so induction is stated with sets (`UpTo`: a set that
contains 0 and is closed under successor up to n contains 0..n, from the
well-foundedness of < on Nat; `SubsetInduction`, over the subsets of a finite set)
and recursion with functions (`Iterates`).

Only model-checked is liveness, which needs fairness and ENABLED, out of the
prover's reach: `EveryAcceptedIsSettled`, `Returns` and `EveryRequestEnds`. What
the first of these needs of safety is proved (`MiningProgresses`: each block
mined shortens a queue that is not empty), and so is what the second needs
(`SendsNeverBlock`).

## 5. Not modelled

* Formatting, JSON syntax, hex, the trimming and quoting of `.env` lines, routing,
  usage texts and logging; the commands that only print (`keys`, `print`,
  `validate`, `balance`, `pending`).
* The strength of SHA-256 and ed25519, both symbolic; the syntax of addresses.
* `bench`: it measures the mining of throw-away blocks and prints statistics.
* Power failures, which lose writes the operating system has not made (`Save`
  does not sync), and the time a response takes to be written, which happens
  inside the mutex.
* A negative difficulty in an edited file, which makes `strings.Repeat` panic
  instead of failing validation: difficulties are naturals here.
* Two processes on one key file. Nothing stops `keygen` beside a server, and each
  rewrites the whole file from its own copy: the later save drops the key that the
  other reported, and the server resolves the other's labels through a copy that
  does not have them. Wallet describes this (`Exclusive` = FALSE), but none of its
  properties holds there and no promise is made for the key file, so no run asks
  for it. Both cases are `hazards` that no property covers.
* Several nodes, which the code does not have.

## 6. Plan

1. That Node's one-step save and Cli's files are what Store implements: a
   refinement mapping from Store to the file of Node, with its failures.
2. What still holds of Store, and of Wallet, with several processes at once.
3. A page cache under Store, for power failures.
