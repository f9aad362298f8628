-------------------------------- MODULE Wallet ------------------------------
(***************************************************************************)
(* internal/wallet: the keystore, a map from labels to private keys that a *)
(* process reads when it starts, extends in memory and rewrites in place,  *)
(* one system call at a time.  Processes fail to write, and crash.         *)
(*                                                                         *)
(* A key stands for its private half, its public half and its address,     *)
(* each of which determines the others here (the hash that makes an        *)
(* address out of a key is taken to be injective).  Names are what a user  *)
(* types: labels, addresses, or anything else.                             *)
(***************************************************************************)
EXTENDS FiniteSets

CONSTANTS
    Procs,       \* processes that use key files
    Exclusive,   \* whether one runs only when no other does
    KeyFiles,    \* the paths of key files
    Labels,      \* labels asked for, none of them empty
    Keys,        \* keys that key generation may come up with
    NoFile,      \* the path of a process that has no keystore open
    NoLabel      \* no key is being created

ASSUME WalletAssumption ==
    /\ Exclusive \in BOOLEAN
    /\ NoFile \notin KeyFiles
    /\ NoLabel \notin Labels

VARIABLES
    keyfile,   \* what is in each key file
    at,        \* per process: where it is
    path,      \* per process: Keystore.path
    keys,      \* per process: Keystore.keys
    making,    \* per process: the label whose key it is creating
    made,      \* history: every key made, with its label and file
    told,      \* history: those whose creation was reported
    refused    \* history: those whose creation was reported as failed

walletVars == <<keyfile, at, path, keys, making, made, told, refused>>

(***************************************************************************)
(* A map holds at most one key per label.                                  *)
(***************************************************************************)
KeyMaps == UNION {[L -> Keys] : L \in SUBSET Labels}
NoKeys == [l \in {} |-> l]

With(map, l, k) ==
    [m \in DOMAIN map \union {l} |-> IF m = l THEN k ELSE map[m]]

Includes(map, l, k) == l \in DOMAIN map /\ map[l] = k

(***************************************************************************)
(* A key file is absent, empty, cut short (or a mixture), or a keystore.   *)
(* Neither nothing nor a part of the JSON object unmarshals.               *)
(***************************************************************************)
Missing   == [is |-> "missing",  keys |-> NoKeys]
Empty     == [is |-> "empty",    keys |-> NoKeys]
Torn      == [is |-> "torn",     keys |-> NoKeys]
Stored(m) == [is |-> "keystore", keys |-> m]

Opens(content) == content.is \in {"missing", "keystore"}

Contents == {Missing, Empty, Torn} \union {Stored(m) : m \in KeyMaps}

Making(p) == [file |-> path[p], label |-> making[p], key |-> keys[p][making[p]]]

-----------------------------------------------------------------------------
WalletInit ==
    /\ keyfile = [f \in KeyFiles |-> Missing]
    /\ at = [p \in Procs |-> "down"]
    /\ path = [p \in Procs |-> NoFile]
    /\ keys = [p \in Procs |-> NoKeys]
    /\ making = [p \in Procs |-> NoLabel]
    /\ made = {} /\ told = {} /\ refused = {}

GoTo(p, place) == at' = [at EXCEPT ![p] = place]

(***************************************************************************)
(* Open: no file is an empty keystore, a file that does not unmarshal is   *)
(* an error, upon which the process ends, which is not an action.          *)
(***************************************************************************)
Open(p, f) ==
    /\ at[p] = "down"
    /\ Exclusive => \A q \in Procs : at[q] = "down"
    /\ Opens(keyfile[f])
    /\ path' = [path EXCEPT ![p] = f]
    /\ keys' = [keys EXCEPT ![p] = keyfile[f].keys]
    /\ GoTo(p, "ready")
    /\ UNCHANGED <<keyfile, making, made, told, refused>>

\* Mutant (the new key is not saved).
CreateInMemory(p, l) ==
    /\ at[p] = "ready"
    /\ l \notin DOMAIN keys[p]
    /\ \E k \in Keys \ {m.key : m \in made} :
          /\ keys' = [keys EXCEPT ![p] = With(@, l, k)]
          /\ made' = made \union {[file |-> path[p], label |-> l, key |-> k]}
    /\ UNCHANGED <<keyfile, at, path, making, told, refused>>

(***************************************************************************)
(* Create, up to its save: a label that exists is refused; the new key, of *)
(* which there never was one like it, is in the map before it is saved.    *)
(***************************************************************************)
Create(p, l) ==
    /\ at[p] = "ready"
    /\ l \notin DOMAIN keys[p]
    /\ \E k \in Keys \ {m.key : m \in made} :
          /\ keys' = [keys EXCEPT ![p] = With(@, l, k)]
          /\ made' = made \union {[file |-> path[p], label |-> l, key |-> k]}
    /\ making' = [making EXCEPT ![p] = l]
    /\ GoTo(p, "opening")
    /\ UNCHANGED <<keyfile, path, told, refused>>

(***************************************************************************)
(* save, os.WriteFile, first half: the file is created or truncated.       *)
(***************************************************************************)
SaveOpens(p) ==
    /\ at[p] = "opening"
    /\ keyfile' = [keyfile EXCEPT ![path[p]] = Empty]
    /\ GoTo(p, "writing")
    /\ UNCHANGED <<path, keys, making, made, told, refused>>

\* Mutant (the new key alone is written).
SaveWritesNewest(p) ==
    /\ at[p] = "writing"
    /\ keyfile' = [keyfile EXCEPT ![path[p]] =
                       Stored([l \in {making[p]} |-> keys[p][l]])]
    /\ told' = told \union {Making(p)}
    /\ making' = [making EXCEPT ![p] = NoLabel]
    /\ GoTo(p, "ready")
    /\ UNCHANGED <<path, keys, made, refused>>

(***************************************************************************)
(* Second half: all of the map is written, from offset 0, and Create       *)
(* returns no error.  Where another process has written since the file was *)
(* truncated, the tail of what it wrote may stay.                          *)
(***************************************************************************)
SaveWrites(p) ==
    /\ at[p] = "writing"
    /\ \E content \in {Stored(keys[p])} \union
                      (IF keyfile[path[p]] = Empty THEN {} ELSE {Torn}) :
          keyfile' = [keyfile EXCEPT ![path[p]] = content]
    /\ told' = told \union {Making(p)}
    /\ making' = [making EXCEPT ![p] = NoLabel]
    /\ GoTo(p, "ready")
    /\ UNCHANGED <<path, keys, made, refused>>

(***************************************************************************)
(* Create returns an error: the file could not be opened, or part of the   *)
(* map was written.  The new key stays in memory.                          *)
(***************************************************************************)
SaveFails(p) ==
    /\ \/ at[p] = "opening" /\ UNCHANGED keyfile
       \/ /\ at[p] = "writing"
          /\ keyfile' = [keyfile EXCEPT ![path[p]] = Torn]
    /\ refused' = refused \union {Making(p)}
    /\ making' = [making EXCEPT ![p] = NoLabel]
    /\ GoTo(p, "ready")
    /\ UNCHANGED <<path, keys, made, told>>

(***************************************************************************)
(* The process ends, wherever it is.  A write it was in may be done, half  *)
(* done, or not begun.                                                     *)
(***************************************************************************)
End(p) ==
    /\ at[p] # "down"
    /\ IF at[p] = "writing"
       THEN \E content \in {keyfile[path[p]], Torn, Stored(keys[p])} :
               keyfile' = [keyfile EXCEPT ![path[p]] = content]
       ELSE UNCHANGED keyfile
    /\ path' = [path EXCEPT ![p] = NoFile]
    /\ keys' = [keys EXCEPT ![p] = NoKeys]
    /\ making' = [making EXCEPT ![p] = NoLabel]
    /\ GoTo(p, "down")
    /\ UNCHANGED <<made, told, refused>>

WalletNext ==
    \E p \in Procs :
        \/ \E f \in KeyFiles : Open(p, f)
        \/ \E l \in Labels : Create(p, l)
        \/ SaveOpens(p) \/ SaveWrites(p) \/ SaveFails(p)
        \/ End(p)

WalletSpec == WalletInit /\ [][WalletNext]_walletVars

-----------------------------------------------------------------------------
(* Looking names up: pure functions of a keystore.                         *)

(***************************************************************************)
(* Resolve: a label gives the address of its key, and anything that is not *)
(* a label is taken for an address.                                        *)
(***************************************************************************)
Resolve(map, name) == IF name \in DOMAIN map THEN map[name] ELSE name

-----------------------------------------------------------------------------
(***************************************************************************)
(* Type correctness.                                                       *)
(***************************************************************************)
WalletTypeOK ==
    /\ keyfile \in [KeyFiles -> Contents]
    /\ at \in [Procs -> {"down", "ready", "opening", "writing"}]
    /\ path \in [Procs -> KeyFiles \union {NoFile}]
    /\ keys \in [Procs -> KeyMaps]
    /\ making \in [Procs -> Labels \union {NoLabel}]
    /\ \A p \in Procs : at[p] = "down" <=> path[p] = NoFile
    /\ \A p \in Procs : at[p] \in {"opening", "writing"} =>
                            making[p] \in DOMAIN keys[p]
    /\ made \subseteq [file : KeyFiles, label : Labels, key : Keys]
    /\ told \subseteq made /\ refused \subseteq made

(***************************************************************************)
(* No key whose creation was reported is ever lost or replaced: whenever   *)
(* its file can be opened it is there, under its label (Create refuses a   *)
(* label in use, since "it would silently orphan the first key"), and a    *)
(* file that a crash left damaged is "reported, not silently emptied"      *)
(* (wallet_test.go).  That is so while one process at a time uses a file,   *)
(* which the code does not see to.                                         *)
(***************************************************************************)
ReportedIsKept ==
    \A m \in told :
        keyfile[m.file].is # "missing"
        /\ (Opens(keyfile[m.file]) =>
                Includes(keyfile[m.file].keys, m.label, m.key))
=============================================================================
