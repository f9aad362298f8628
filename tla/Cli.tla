---------------------------------- MODULE Cli -------------------------------
(***************************************************************************)
(* internal/cli: a process resolves its configuration (Config), opens the  *)
(* chain file and the key file that it names, and runs a command on them;  *)
(* or, if the command is serve, one request after the other.  Both are     *)
(* processes here that run operations until they end.  The keystore is     *)
(* that of Wallet, and every operation on it is one of Wallet's.           *)
(*                                                                         *)
(* Of the chain only the names that received coins are kept: Chain has the *)
(* money and the blocks.  Saving the chain is atomic (Store), and may      *)
(* fail.  Commands that only read change nothing and are not actions.      *)
(***************************************************************************)
EXTENDS Wallet, Config

CONSTANTS
    DataFiles,      \* the paths of chain files
    Names,          \* what users type for a recipient, addresses apart
    Environments,   \* the environments processes are started in
    DotEnvs,        \* the .env files they find
    FlagSets,       \* the flags they are given
    NoConfig        \* not configured yet

(***************************************************************************)
(* A chain and a keystore kept in the same file would overwrite each other *)
(* (Config.Validate does not compare the two).  DataFiles and KeyFiles are *)
(* the paths that a configuration may come to, and its miner is no key of  *)
(* these keystores.                                                        *)
(***************************************************************************)
ASSUME CliAssumption ==
    /\ DataFiles \intersect KeyFiles = {}
    /\ Names \intersect Keys = {}
    /\ Refused # NoConfig
    /\ \A env \in Environments, lines \in DotEnvs, flags \in FlagSets :
          LET c == Configuration(env, lines, flags)
          IN  c # Refused => /\ c # NoConfig /\ DOMAIN c = Settings
                             /\ c.DataFile \in DataFiles /\ c.KeyFile \in KeyFiles
                             /\ c.MinerAddress \in Names

(***************************************************************************)
(* What a source says of a number is a number, nothing or a typo.  The     *)
(* flags are those of newFlagSet, and an error is no configuration.        *)
(***************************************************************************)
SaidOfNumber == Int \union {Typo, EmptyText}

IsSource(f) ==
    /\ f = [s \in DOMAIN f |-> f[s]]
    /\ \A s \in DOMAIN f \intersect Numbers : f[s] \in SaidOfNumber

IsDotEnv(lines) ==
    /\ Len(lines) \in Nat /\ DOMAIN lines = 1..Len(lines)
    /\ \A i \in DOMAIN lines :
          \/ lines[i] \in {Comment, Malformed}
          \/ lines[i].key \in Numbers => lines[i].value \in SaidOfNumber

NoFlags == [s \in {} |-> s]

ASSUME SourcesAssumption ==
    /\ Typo \notin Int /\ EmptyText \notin Int
    /\ \A env \in Environments : IsSource(env)
    /\ \A lines \in DotEnvs : IsDotEnv(lines)
    /\ \A flags \in FlagSets : IsSource(flags) /\ DOMAIN flags \subseteq Settings
    /\ \A env \in Environments, lines \in DotEnvs :
          (\A i \in DOMAIN lines : lines[i] # Malformed) =>
              LastOneWins(env, lines, NoFlags) # Refused

VARIABLES
    given,      \* per process: the sources of its configuration, until it opens
    config,     \* per process: app.cfg
    payees,     \* per process: who received coins on its chain
    chainfile   \* who did so on the chain in each chain file

vars == <<walletVars, given, config, payees, chainfile>>

Init ==
    /\ WalletInit
    /\ given = [p \in Procs |-> NoConfig]
    /\ config = [p \in Procs |-> NoConfig]
    /\ payees = [p \in Procs |-> {}]
    /\ chainfile = [f \in DataFiles |-> {}]

(***************************************************************************)
(* main and Run, up to open.                                               *)
(***************************************************************************)
Configure(p, env, lines, flags) ==
    /\ at[p] = "down"
    /\ config[p] = NoConfig
    /\ Exclusive => \A q \in Procs : config[q] = NoConfig
    /\ given' = [given EXCEPT ![p] =
                    [env |-> env, lines |-> lines, flags |-> flags]]
    /\ config' = [config EXCEPT ![p] = Configuration(env, lines, flags)]
    /\ UNCHANGED <<walletVars, payees, chainfile>>

\* Mutant (the keystore is opened where it is by default).
StartByDefault(p) ==
    /\ config[p] \notin {NoConfig, Refused}
    /\ Open(p, Default.KeyFile)
    /\ payees' = [payees EXCEPT ![p] = chainfile[config[p].DataFile]]
    /\ given' = [given EXCEPT ![p] = NoConfig]
    /\ UNCHANGED <<config, chainfile>>

(***************************************************************************)
(* open: the chain, which Store and Chain see to loads, and the keystore,  *)
(* which may not, whatever the command was going to be.                    *)
(***************************************************************************)
Start(p) ==
    /\ config[p] \notin {NoConfig, Refused}
    /\ Open(p, config[p].KeyFile)
    /\ payees' = [payees EXCEPT ![p] = chainfile[config[p].DataFile]]
    /\ given' = [given EXCEPT ![p] = NoConfig]
    /\ UNCHANGED <<config, chainfile>>

(***************************************************************************)
(* keygen and POST /keys.                                                  *)
(***************************************************************************)
Keygen(p, label) ==
    /\ Create(p, label)
    /\ UNCHANGED <<given, config, payees, chainfile>>

Save(p) ==
    /\ SaveOpens(p) \/ SaveWrites(p) \/ SaveFails(p)
    /\ UNCHANGED <<given, config, payees, chainfile>>

(***************************************************************************)
(* A recipient is a name, or an address that keygen or keys has shown.     *)
(***************************************************************************)
Typed == Names \union {m.key : m \in told \union refused}

(***************************************************************************)
(* Coins for a name are accepted, and the chain is saved, or not.          *)
(***************************************************************************)
Pay(p, to) ==
    /\ payees' = [payees EXCEPT ![p] = @ \union {to}]
    /\ chainfile' \in {chainfile,
                       [chainfile EXCEPT ![config[p].DataFile] = payees'[p]]}
    /\ UNCHANGED <<walletVars, given, config>>

(***************************************************************************)
(* faucet: to a label or an address.                                       *)
(***************************************************************************)
Faucet(p, name) ==
    /\ at[p] = "ready"
    /\ Pay(p, Resolve(keys[p], name))

(***************************************************************************)
(* send: from a label that has a key, and coins, to another account.       *)
(***************************************************************************)
Send(p, label, name) ==
    /\ at[p] = "ready"
    /\ label \in DOMAIN keys[p]
    /\ keys[p][label] \in payees[p]
    /\ Resolve(keys[p], name) # keys[p][label]
    /\ Pay(p, Resolve(keys[p], name))

(***************************************************************************)
(* mine: the reward goes to the configured miner as it is written there, a *)
(* label or not; Pay is Chain's Mine, and its save.                        *)
(***************************************************************************)
Mine(p) ==
    /\ at[p] = "ready"
    /\ config[p].MiningReward > 0
    /\ Pay(p, config[p].MinerAddress)

(***************************************************************************)
(* The command is done or has failed, the server was stopped, the process  *)
(* crashed, or its configuration or its keystore was refused.              *)
(***************************************************************************)
Exit(p) ==
    /\ config[p] # NoConfig
    /\ IF at[p] = "down" THEN UNCHANGED walletVars ELSE End(p)
    /\ given' = [given EXCEPT ![p] = NoConfig]
    /\ config' = [config EXCEPT ![p] = NoConfig]
    /\ payees' = [payees EXCEPT ![p] = {}]
    /\ UNCHANGED chainfile

Next ==
    \E p \in Procs :
        \/ \E env \in Environments, lines \in DotEnvs, flags \in FlagSets :
              Configure(p, env, lines, flags)
        \/ Start(p)
        \/ \E label \in Labels : Keygen(p, label)
        \/ Save(p)
        \/ \E name \in Typed : Faucet(p, name)
        \/ \E label \in Labels, name \in Typed : Send(p, label, name)
        \/ Mine(p)
        \/ Exit(p)

Spec == Init /\ [][Next]_vars

-----------------------------------------------------------------------------
(***************************************************************************)
(* Type correctness of what this module adds to Wallet, and the order in   *)
(* which a process comes by its configuration and its files.               *)
(***************************************************************************)
TypeOK ==
    /\ WalletTypeOK
    /\ \A p \in Procs :
          /\ config[p] \notin {NoConfig, Refused} => DOMAIN config[p] = Settings
          /\ given[p] # NoConfig => at[p] = "down" /\ config[p] # NoConfig
          /\ at[p] # "down" => path[p] = config[p].KeyFile
    /\ chainfile \in [DataFiles -> SUBSET (Names \union Keys)]

(***************************************************************************)
(* Coins that were sent to a key of this keystore can be spent after any   *)
(* restart: whenever the key file can be opened the key is in it, unless   *)
(* keygen had reported a failure (the key then is in use until the process *)
(* ends, and may or may not be saved by a later keygen).                   *)
(***************************************************************************)
PaidIsSpendable ==
    \A m \in made, f \in DataFiles :
        m.key \in chainfile[f] /\ m \notin refused /\ Opens(keyfile[m.file]) =>
            Includes(keyfile[m.file].keys, m.label, m.key)

(***************************************************************************)
(* "Resolution order, last one wins: built-in defaults, .env file, process *)
(* environment, CLI flags" (config.go): the order of the sources, not that *)
(* of the statements that merge them, decides every setting; a typo that   *)
(* is in force, or a value out of range, is refused, also if a flag would  *)
(* have overridden it.                                                     *)
(***************************************************************************)
ResolutionOrder ==
    \A p \in Procs :
        given[p] # NoConfig =>
            LET g == given[p]
                plain == LastOneWins(g.env, g.lines, NoFlags)
                whole == LastOneWins(g.env, g.lines, g.flags)
                sound == /\ \A i \in DOMAIN g.lines : g.lines[i] # Malformed
                         /\ \A c \in {plain, whole} :
                               /\ \A s \in Numbers : c[s] \in Int
                               /\ Validate(c)
            IN  config[p] = IF sound THEN whole ELSE Refused
=============================================================================
