------------------------------ MODULE CliProofs -----------------------------
(***************************************************************************)
(* Proofs about Cli, for any configurations, names, files and keys: what   *)
(* its keystore promises as long as one process at a time runs, that coins *)
(* sent to its keys can be spent, and where configurations come from.      *)
(***************************************************************************)
EXTENDS Cli, Induction

-----------------------------------------------------------------------------
(* The keystore: module Wallet.                                            *)

(***************************************************************************)
(* A key is safe when its file was written, has it whenever it can be      *)
(* opened, and so has every process that uses the file.                    *)
(***************************************************************************)
Kept(m) ==
    /\ keyfile[m.file].is # "missing"
    /\ Opens(keyfile[m.file]) => Includes(keyfile[m.file].keys, m.label, m.key)

InMemory(m) ==
    \A p \in Procs :
        at[p] # "down" /\ path[p] = m.file => Includes(keys[p], m.label, m.key)

Safe(m) == Kept(m) /\ InMemory(m)

(***************************************************************************)
(* What holds besides: one process runs; every key in a file or in memory  *)
(* was made for that file and that label, and only once; and every key a   *)
(* process has in memory is safe, is being saved, or was refused.          *)
(***************************************************************************)
Alone == \A p, q \in Procs : at[p] # "down" /\ at[q] # "down" => p = q

Made(f, map) ==
    \A l \in DOMAIN map : [file |-> f, label |-> l, key |-> map[l]] \in made

AllMade ==
    /\ \A f \in KeyFiles : Made(f, keyfile[f].keys)
    /\ \A p \in Procs : at[p] # "down" => Made(path[p], keys[p])

MadeOnce == \A m, n \in made : m.key = n.key => m = n

MakingIsBrief ==
    \A p \in Procs : at[p] \in {"down", "ready"} => making[p] = NoLabel

MemoryIsSafe ==
    \A p \in Procs, m \in made :
        /\ at[p] # "down" /\ path[p] = m.file
        /\ Includes(keys[p], m.label, m.key)
        => m.label = making[p] \/ m \in refused \/ Safe(m)

ToldIsSafe == \A m \in told : Safe(m)

WalletInv ==
    /\ WalletTypeOK
    /\ Alone
    /\ AllMade
    /\ MadeOnce
    /\ MakingIsBrief
    /\ MemoryIsSafe
    /\ ToldIsSafe

(***************************************************************************)
(* What a step does to keys that are safe.                                 *)
(***************************************************************************)
SafeStays == \A m \in made : Safe(m) => Safe(m)'

-----------------------------------------------------------------------------
(***************************************************************************)
(* Maps from labels to keys.                                               *)
(***************************************************************************)
LEMMA KeyMapFacts ==
    /\ NoKeys \in KeyMaps /\ DOMAIN NoKeys = {}
    /\ \A map \in KeyMaps :
          /\ DOMAIN map \subseteq Labels
          /\ \A l \in DOMAIN map : map[l] \in Keys
<1>1. NoKeys \in [{} -> Keys] /\ DOMAIN NoKeys = {}
    BY DEF NoKeys
<1>2. NoKeys \in KeyMaps
    BY <1>1 DEF KeyMaps
<1>3. ASSUME NEW map \in KeyMaps
      PROVE  /\ DOMAIN map \subseteq Labels
             /\ \A l \in DOMAIN map : map[l] \in Keys
    BY DEF KeyMaps
<1> QED BY <1>1, <1>2, <1>3

LEMMA WithFacts ==
    ASSUME NEW map \in KeyMaps, NEW l \in Labels, NEW k \in Keys
    PROVE  /\ With(map, l, k) \in KeyMaps
           /\ DOMAIN With(map, l, k) = DOMAIN map \union {l}
           /\ With(map, l, k)[l] = k
           /\ \A m \in DOMAIN map : m # l => With(map, l, k)[m] = map[m]
<1> DEFINE L == DOMAIN map \union {l}
<1>1. L \in SUBSET Labels
    BY KeyMapFacts
<1>2. \A m \in L : (IF m = l THEN k ELSE map[m]) \in Keys
    BY KeyMapFacts
<1>3. With(map, l, k) \in [L -> Keys]
    BY <1>2 DEF With
<1>4. With(map, l, k) \in KeyMaps
    BY <1>1, <1>3 DEF KeyMaps
<1> QED BY <1>4 DEF With

(***************************************************************************)
(* What key files can hold.                                                *)
(***************************************************************************)
LEMMA ContentsFacts ==
    /\ Missing \in Contents /\ Empty \in Contents /\ Torn \in Contents
    /\ \A map \in KeyMaps : Stored(map) \in Contents
    /\ \A c \in Contents : c.keys \in KeyMaps
    /\ \A c \in Contents : c.is = "missing" => c.keys = NoKeys
    /\ Missing.keys = NoKeys /\ Empty.keys = NoKeys /\ Torn.keys = NoKeys
    /\ Opens(Missing) /\ ~Opens(Empty) /\ ~Opens(Torn)
    /\ Empty.is # "missing" /\ Torn.is # "missing"
    /\ \A map \in KeyMaps : Stored(map).keys = map /\ Stored(map).is = "keystore"
<1>1. Missing \in Contents /\ Empty \in Contents /\ Torn \in Contents
    BY DEF Contents
<1>2. \A map \in KeyMaps : Stored(map) \in Contents
    BY DEF Contents
<1>3. /\ Missing.keys = NoKeys /\ Empty.keys = NoKeys /\ Torn.keys = NoKeys
      /\ Missing.is = "missing" /\ Empty.is = "empty" /\ Torn.is = "torn"
    BY DEF Missing, Empty, Torn
<1>4. \A map \in KeyMaps : Stored(map).keys = map /\ Stored(map).is = "keystore"
    BY DEF Stored
<1>5. Opens(Missing) /\ ~Opens(Empty) /\ ~Opens(Torn)
    BY <1>3 DEF Opens
<1>6. ASSUME NEW c \in Contents
      PROVE  c.keys \in KeyMaps /\ (c.is = "missing" => c.keys = NoKeys)
  <2>1. CASE c \in {Missing, Empty, Torn}
      BY <2>1, <1>3, KeyMapFacts
  <2>2. CASE \E map \in KeyMaps : c = Stored(map)
      BY <2>2, <1>4
  <2> QED BY <2>1, <2>2 DEF Contents
<1> QED BY <1>1, <1>2, <1>3, <1>4, <1>5, <1>6

(***************************************************************************)
(* Nothing is there to be lost at first.                                   *)
(***************************************************************************)
LEMMA InitWallet == WalletInit => WalletInv
<1> SUFFICES ASSUME WalletInit PROVE WalletInv
    OBVIOUS
<1> USE DEF WalletInit
<1>1. WalletTypeOK
    BY WalletAssumption, KeyMapFacts, ContentsFacts DEF WalletTypeOK
<1>2. AllMade
    BY KeyMapFacts, ContentsFacts DEF AllMade, Made
<1>3. Alone /\ MadeOnce /\ MakingIsBrief /\ MemoryIsSafe /\ ToldIsSafe
    BY DEF Alone, MadeOnce, MakingIsBrief, MemoryIsSafe, ToldIsSafe
<1> QED BY <1>1, <1>2, <1>3 DEF WalletInv

-----------------------------------------------------------------------------
(***************************************************************************)
(* Open starts a process whose memory is the file.                         *)
(***************************************************************************)
LEMMA OpenWallet ==
    ASSUME Exclusive, WalletInv, NEW p \in Procs, NEW f \in KeyFiles, Open(p, f)
    PROVE  WalletInv' /\ SafeStays
<1> USE DEF Open, GoTo, WalletInv
<1>1. \A q \in Procs :
          /\ at'[q] = IF q = p THEN "ready" ELSE "down"
          /\ path'[q] = IF q = p THEN f ELSE path[q]
          /\ keys'[q] = IF q = p THEN keyfile[f].keys ELSE keys[q]
    BY DEF WalletTypeOK
<1>2. keyfile[f] \in Contents /\ keyfile[f].keys \in KeyMaps
    BY ContentsFacts DEF WalletTypeOK
<1>3. WalletTypeOK'
    BY <1>1, <1>2, WalletAssumption DEF WalletTypeOK, MakingIsBrief
<1>4. Alone' /\ AllMade' /\ MadeOnce' /\ MakingIsBrief'
    BY <1>1 DEF Alone, AllMade, Made, MadeOnce, MakingIsBrief
<1>5. \A m : Kept(m)' <=> Kept(m)
    BY DEF Kept
<1>6. \A m : m.file = f /\ Kept(m) => Includes(keyfile[f].keys, m.label, m.key)
    BY DEF Kept
<1>7. \A m : Kept(m) => Safe(m)'
    BY <1>1, <1>5, <1>6 DEF Safe, InMemory
<1>8. ASSUME NEW m \in made, m.file = f, Includes(keyfile[f].keys, m.label, m.key)
      PROVE  Safe(m)'
  <2>1. keyfile[f].is # "missing"
      BY <1>2, <1>8, KeyMapFacts, ContentsFacts DEF Includes
  <2> QED BY <1>7, <1>8, <2>1 DEF Kept
<1>9. MemoryIsSafe'
    BY <1>1, <1>8 DEF MemoryIsSafe
<1>10. ToldIsSafe' /\ SafeStays
    BY <1>7 DEF ToldIsSafe, SafeStays, Safe
<1> QED BY <1>3, <1>4, <1>9, <1>10

(***************************************************************************)
(* Create puts a key that never was under a label that was not in use.     *)
(***************************************************************************)
LEMMA CreateWallet ==
    ASSUME WalletInv, NEW p \in Procs, NEW l \in Labels, Create(p, l)
    PROVE  WalletInv' /\ SafeStays
<1> USE DEF Create, GoTo, WalletInv
<1>1. PICK k \in Keys \ {m.key : m \in made} :
          /\ keys' = [keys EXCEPT ![p] = With(@, l, k)]
          /\ made' = made \union {[file |-> path[p], label |-> l, key |-> k]}
    OBVIOUS
<1> DEFINE new == [file |-> path[p], label |-> l, key |-> k]
<1>2. /\ keys[p] \in KeyMaps /\ path[p] \in KeyFiles
      /\ l \in Labels /\ l # NoLabel /\ k \in Keys
    BY WalletAssumption DEF WalletTypeOK
<1>3. \A q \in Procs :
          /\ at'[q] = IF q = p THEN "opening" ELSE at[q]
          /\ making'[q] = IF q = p THEN l ELSE making[q]
          /\ keys'[q] = IF q = p THEN With(keys[p], l, k) ELSE keys[q]
    BY <1>1 DEF WalletTypeOK
<1> DEFINE map == With(keys[p], l, k)
<1>4. /\ map \in KeyMaps
      /\ DOMAIN map = DOMAIN keys[p] \union {l}
      /\ map[l] = k /\ \A m \in DOMAIN keys[p] : m # l => map[m] = keys[p][m]
  <2>1. map \in KeyMaps
      BY <1>2, WithFacts
  <2>2. DOMAIN map = DOMAIN keys[p] \union {l}
      BY <1>2, WithFacts
  <2>3. map[l] = k /\ \A m \in DOMAIN keys[p] : m # l => map[m] = keys[p][m]
      BY ONLY <1>2, WithFacts, ZenonT(60)
  <2> QED BY <2>1, <2>2, <2>3
<1>5. new \in [file : KeyFiles, label : Labels, key : Keys]
    BY <1>2
<1>6. made' = made \union {new} /\ \A m \in made : m.key # k
    BY <1>1
<1>7. WalletTypeOK'
  <2>1. keys' \in [Procs -> KeyMaps]
      BY <1>1, <1>4 DEF WalletTypeOK
  <2>2. /\ at' \in [Procs -> {"down", "ready", "opening", "writing"}]
        /\ making' \in [Procs -> Labels \union {NoLabel}]
      BY DEF WalletTypeOK
  <2>3. \A q \in Procs : at'[q] = "down" <=> path'[q] = NoFile
      BY <1>3 DEF WalletTypeOK
  <2>4. \A q \in Procs : at'[q] \in {"opening", "writing"} =>
                             making'[q] \in DOMAIN keys'[q]
      BY <1>3, <1>4 DEF WalletTypeOK
  <2>5. /\ made' \subseteq [file : KeyFiles, label : Labels, key : Keys]
        /\ told' \subseteq made' /\ refused' \subseteq made'
      BY <1>5, <1>6 DEF WalletTypeOK
  <2>6. keyfile' \in [KeyFiles -> Contents] /\ path' \in [Procs -> KeyFiles \union {NoFile}]
      BY DEF WalletTypeOK
  <2> QED BY <2>1, <2>2, <2>3, <2>4, <2>5, <2>6 DEF WalletTypeOK
<1>8. Alone' /\ MakingIsBrief' /\ MadeOnce'
    BY <1>3, <1>6 DEF Alone, MakingIsBrief, MadeOnce
<1>9. AllMade'
    BY <1>3, <1>4, <1>6 DEF AllMade, Made
<1>10. \A m : Kept(m)' <=> Kept(m)
    BY DEF Kept
<1>11. \A m : InMemory(m) => InMemory(m)'
    BY <1>3, <1>4 DEF InMemory, Includes
<1>12. \A m : Safe(m) => Safe(m)'
    BY <1>10, <1>11 DEF Safe
<1>13. ASSUME NEW q \in Procs, NEW m \in made', at'[q] # "down",
              path'[q] = m.file, Includes(keys'[q], m.label, m.key),
              m.label # making'[q]
       PROVE  m \in refused' \/ Safe(m)'
  <2>1. at[q] # "down" /\ Includes(keys[q], m.label, m.key)
      BY <1>3, <1>4, <1>13 DEF Includes
  <2>2. m \in made
    <3>1. CASE m = new
        BY <1>3, <1>6, <1>13, <2>1, <3>1 DEF AllMade, Made, Includes
    <3> QED BY <1>6, <3>1
  <2>3. m.label # making[q]
    <3>1. CASE q = p
        BY <2>2, <3>1, WalletAssumption DEF MakingIsBrief, WalletTypeOK
    <3>2. CASE q # p
        BY <1>3, <1>13, <3>2
    <3> QED BY <3>1, <3>2
  <2> QED BY <1>12, <1>13, <2>1, <2>2, <2>3 DEF MemoryIsSafe
<1>14. ToldIsSafe' /\ SafeStays
    BY <1>12 DEF ToldIsSafe, SafeStays
<1> QED BY <1>7, <1>8, <1>9, <1>13, <1>14 DEF MemoryIsSafe

(***************************************************************************)
(* Writing to the file of the one process that runs: what is written is    *)
(* nothing that opens, or all that the process has in memory.              *)
(***************************************************************************)
LEMMA WritingIsSafe ==
    ASSUME WalletInv, NEW p \in Procs, at[p] # "down",
           NEW c \in {keyfile[path[p]], Empty, Torn, Stored(keys[p])},
           keyfile' = [keyfile EXCEPT ![path[p]] = c]
    PROVE  /\ keyfile' \in [KeyFiles -> Contents]
           /\ \A f \in KeyFiles : Made(f, keyfile'[f].keys)
           /\ \A m \in made : Safe(m) => Kept(m)'
           /\ \A m : /\ m.file = path[p] /\ Includes(keys[p], m.label, m.key)
                     /\ c \in {Torn, Stored(keys[p])}
                     => Kept(m)'
<1> USE DEF WalletInv
<1>1. keys[p] \in KeyMaps /\ path[p] \in KeyFiles
    BY DEF WalletTypeOK
<1>2. c \in Contents
    BY <1>1, ContentsFacts DEF WalletTypeOK
<1>3. keyfile' \in [KeyFiles -> Contents]
    BY <1>2 DEF WalletTypeOK
<1>4. \A f \in KeyFiles : keyfile'[f] = IF f = path[p] THEN c ELSE keyfile[f]
    BY DEF WalletTypeOK
<1>5. ASSUME NEW f \in KeyFiles PROVE Made(f, keyfile'[f].keys)
  <2>1. CASE f = path[p] /\ c = Stored(keys[p])
      BY <1>1, <1>4, <2>1, ContentsFacts DEF AllMade
  <2>2. CASE f = path[p] /\ c \in {Empty, Torn}
      BY <1>4, <2>2, ContentsFacts, KeyMapFacts DEF Made
  <2>3. CASE keyfile'[f] = keyfile[f]
      BY <2>3 DEF AllMade
  <2> QED BY <1>4, <2>1, <2>2, <2>3
<1>6. ASSUME NEW m \in made, Safe(m) PROVE Kept(m)'
  <2>1. m.file \in KeyFiles
      BY DEF WalletTypeOK
  <2>2. CASE m.file = path[p] /\ c = Stored(keys[p])
    <3>1. Includes(keys[p], m.label, m.key)
        BY <1>6, <2>2 DEF Safe, InMemory
    <3> QED BY <1>1, <1>4, <2>2, <3>1, ContentsFacts DEF Kept
  <2>3. CASE m.file = path[p] /\ c \in {Empty, Torn}
      BY <1>1, <1>4, <2>3, ContentsFacts DEF Kept
  <2>4. CASE keyfile'[m.file] = keyfile[m.file]
      BY <1>6, <2>4 DEF Safe, Kept
  <2> QED BY <1>4, <2>1, <2>2, <2>3, <2>4
<1>7. ASSUME NEW m, m.file = path[p], Includes(keys[p], m.label, m.key),
             c \in {Torn, Stored(keys[p])}
      PROVE  Kept(m)'
  <2>1. keyfile'[m.file] = c
      BY <1>1, <1>4, <1>7
  <2>2. c.is # "missing" /\ (Opens(c) => c.keys = keys[p])
      BY <1>1, <1>7, ContentsFacts
  <2> QED BY <1>7, <2>1, <2>2 DEF Kept
<1> QED BY <1>3, <1>5, <1>6, <1>7

(***************************************************************************)
(* The file is truncated: it no longer opens.                              *)
(***************************************************************************)
LEMMA SaveOpensWallet ==
    ASSUME WalletInv, NEW p \in Procs, SaveOpens(p)
    PROVE  WalletInv' /\ SafeStays
<1> USE DEF SaveOpens, GoTo, WalletInv
<1>1. \A q \in Procs : at'[q] = IF q = p THEN "writing" ELSE at[q]
    BY DEF WalletTypeOK
<1>2. /\ keyfile' \in [KeyFiles -> Contents]
      /\ \A f \in KeyFiles : Made(f, keyfile'[f].keys)
      /\ \A m \in made : Safe(m) => Kept(m)'
    BY WritingIsSafe
<1>3. \A m : InMemory(m) => InMemory(m)'
    BY <1>1 DEF InMemory
<1>4. SafeStays
    BY <1>2, <1>3 DEF SafeStays, Safe
<1>5. WalletTypeOK'
    BY <1>1, <1>2 DEF WalletTypeOK
<1>6. Alone' /\ MadeOnce' /\ MakingIsBrief' /\ AllMade'
    BY <1>1, <1>2 DEF Alone, MadeOnce, MakingIsBrief, AllMade, Made
<1>7. MemoryIsSafe'
    BY <1>1, <1>4 DEF MemoryIsSafe, SafeStays
<1>8. ToldIsSafe'
    BY <1>4 DEF ToldIsSafe, SafeStays, WalletTypeOK
<1> QED BY <1>4, <1>5, <1>6, <1>7, <1>8

(***************************************************************************)
(* The key being made, and that nothing but its process runs.              *)
(***************************************************************************)
LEMMA MakingFacts ==
    ASSUME WalletInv, NEW p \in Procs, at[p] \in {"opening", "writing"}
    PROVE  /\ Making(p) \in made
           /\ Making(p).file = path[p] /\ Making(p).label = making[p]
           /\ Includes(keys[p], Making(p).label, Making(p).key)
           /\ \A m \in made : /\ m.file = path[p] /\ m.label = making[p]
                               /\ Includes(keys[p], m.label, m.key)
                               => m = Making(p)
           /\ \A q \in Procs : q # p => at[q] = "down"
<1> USE DEF WalletInv
<1>1. making[p] \in DOMAIN keys[p]
    BY DEF WalletTypeOK
<1>2. Making(p) \in made
    BY <1>1 DEF Making, AllMade, Made
<1>3. /\ Making(p).file = path[p] /\ Making(p).label = making[p]
      /\ Making(p).key = keys[p][making[p]]
    BY DEF Making
<1>4. \A m \in made : /\ m.file = path[p] /\ m.label = making[p]
                      /\ Includes(keys[p], m.label, m.key)
                      => m = Making(p)
    BY <1>2, <1>3 DEF Includes, MadeOnce
<1> QED BY <1>1, <1>2, <1>3, <1>4 DEF Includes, Alone

(***************************************************************************)
(* All of the map is written, or a mixture that does not open.             *)
(***************************************************************************)
LEMMA SaveWritesWallet ==
    ASSUME WalletInv, NEW p \in Procs, SaveWrites(p)
    PROVE  WalletInv' /\ SafeStays
<1> USE DEF SaveWrites, GoTo, WalletInv
<1>1. \A q \in Procs : /\ at'[q] = IF q = p THEN "ready" ELSE at[q]
                       /\ making'[q] = IF q = p THEN NoLabel ELSE making[q]
    BY DEF WalletTypeOK
<1>2. PICK c \in {Torn, Stored(keys[p])} : keyfile' = [keyfile EXCEPT ![path[p]] = c]
    OBVIOUS
<1>3. /\ keyfile' \in [KeyFiles -> Contents]
      /\ \A f \in KeyFiles : Made(f, keyfile'[f].keys)
      /\ \A m \in made : Safe(m) => Kept(m)'
      /\ \A m : m.file = path[p] /\ Includes(keys[p], m.label, m.key) => Kept(m)'
    BY <1>2, WritingIsSafe
<1>4. \A m : InMemory(m) => InMemory(m)'
    BY <1>1 DEF InMemory
<1>5. SafeStays
    BY <1>3, <1>4 DEF SafeStays, Safe
<1>6. \A m : m.file = path[p] /\ Includes(keys[p], m.label, m.key) => Safe(m)'
    BY <1>1, <1>3, MakingFacts DEF Safe, InMemory
<1>7. PICK n \in made : Safe(n)' /\ told' = told \union {n}
    BY <1>6, MakingFacts
<1>8. WalletTypeOK'
    BY <1>1, <1>3, <1>7 DEF WalletTypeOK
<1>9. Alone' /\ MadeOnce' /\ MakingIsBrief' /\ AllMade'
    BY <1>1, <1>3 DEF Alone, MadeOnce, MakingIsBrief, AllMade, Made
<1>10. MemoryIsSafe'
    BY <1>1, <1>5, <1>6, MakingFacts DEF MemoryIsSafe, SafeStays
<1>11. ToldIsSafe'
    BY <1>5, <1>7 DEF ToldIsSafe, SafeStays, WalletTypeOK
<1> QED BY <1>5, <1>8, <1>9, <1>10, <1>11

(***************************************************************************)
(* A save that fails leaves the file as it was, or torn.                   *)
(***************************************************************************)
LEMMA SaveFailsWallet ==
    ASSUME WalletInv, NEW p \in Procs, SaveFails(p)
    PROVE  WalletInv' /\ SafeStays
<1> USE DEF SaveFails, GoTo, WalletInv
<1>1. \A q \in Procs : /\ at'[q] = IF q = p THEN "ready" ELSE at[q]
                       /\ making'[q] = IF q = p THEN NoLabel ELSE making[q]
    BY DEF WalletTypeOK
<1>2. PICK c \in {keyfile[path[p]], Torn} : keyfile' = [keyfile EXCEPT ![path[p]] = c]
    BY DEF WalletTypeOK
<1>3. /\ keyfile' \in [KeyFiles -> Contents]
      /\ \A f \in KeyFiles : Made(f, keyfile'[f].keys)
      /\ \A m \in made : Safe(m) => Kept(m)'
    BY <1>2, WritingIsSafe
<1>4. \A m : InMemory(m) => InMemory(m)'
    BY <1>1 DEF InMemory
<1>5. SafeStays
    BY <1>3, <1>4 DEF SafeStays, Safe
<1>6. PICK n \in made : n = Making(p) /\ refused' = refused \union {n}
    BY MakingFacts
<1>7. WalletTypeOK'
    BY <1>1, <1>3, <1>6 DEF WalletTypeOK
<1>8. Alone' /\ MadeOnce' /\ MakingIsBrief' /\ AllMade'
    BY <1>1, <1>3 DEF Alone, MadeOnce, MakingIsBrief, AllMade, Made
<1>9. MemoryIsSafe'
    BY <1>1, <1>5, <1>6, MakingFacts DEF MemoryIsSafe, SafeStays
<1>10. ToldIsSafe'
    BY <1>5 DEF ToldIsSafe, SafeStays, WalletTypeOK
<1> QED BY <1>5, <1>7, <1>8, <1>9, <1>10

(***************************************************************************)
(* A process that ends while it writes leaves the file empty, torn, or     *)
(* with all it had in memory.                                              *)
(***************************************************************************)
LEMMA EndWallet ==
    ASSUME WalletInv, NEW p \in Procs, End(p)
    PROVE  WalletInv' /\ SafeStays
<1> USE DEF End, GoTo, WalletInv
<1>1. \A q \in Procs :
          at'[q] = "down" /\ path'[q] = NoFile /\ making'[q] = NoLabel
    BY DEF WalletTypeOK, Alone, MakingIsBrief
<1>2. PICK c \in {keyfile[path[p]], Torn, Stored(keys[p])} :
          keyfile' = [keyfile EXCEPT ![path[p]] = c]
    BY DEF WalletTypeOK
<1>3. /\ keyfile' \in [KeyFiles -> Contents]
      /\ \A f \in KeyFiles : Made(f, keyfile'[f].keys)
      /\ \A m \in made : Safe(m) => Kept(m)'
    BY <1>2, WritingIsSafe
<1>4. SafeStays
    BY <1>1, <1>3 DEF SafeStays, Safe, InMemory
<1>5. WalletTypeOK'
    BY <1>1, <1>3, KeyMapFacts DEF WalletTypeOK
<1>6. Alone' /\ MadeOnce' /\ MakingIsBrief' /\ AllMade' /\ MemoryIsSafe'
    BY <1>1, <1>3 DEF Alone, MadeOnce, MakingIsBrief, AllMade, Made, MemoryIsSafe
<1>7. ToldIsSafe'
    BY <1>4 DEF ToldIsSafe, SafeStays, WalletTypeOK
<1> QED BY <1>4, <1>5, <1>6, <1>7

-----------------------------------------------------------------------------
(***************************************************************************)
(* Every step preserves the invariant, and what is safe stays safe.        *)
(***************************************************************************)
LEMMA WalletStep ==
    ASSUME Exclusive, WalletInv, [WalletNext]_walletVars
    PROVE  WalletInv' /\ SafeStays /\ made \subseteq made' /\ refused \subseteq refused'
<1> DEFINE Goal == /\ WalletInv' /\ SafeStays
                   /\ made \subseteq made' /\ refused \subseteq refused'
<1>1. CASE UNCHANGED walletVars
    BY <1>1 DEF walletVars, WalletInv, WalletTypeOK, Alone, AllMade, Made,
                MadeOnce, MakingIsBrief, MemoryIsSafe, ToldIsSafe, SafeStays,
                Safe, Kept, InMemory
<1>2. ASSUME NEW p \in Procs, NEW f \in KeyFiles, Open(p, f) PROVE Goal
    BY <1>2, OpenWallet DEF Open
<1>3. ASSUME NEW p \in Procs, NEW l \in Labels, Create(p, l) PROVE Goal
    BY <1>3, CreateWallet DEF Create
<1>4. ASSUME NEW p \in Procs, SaveOpens(p) PROVE Goal
    BY <1>4, SaveOpensWallet DEF SaveOpens
<1>5. ASSUME NEW p \in Procs, SaveWrites(p) PROVE Goal
    BY <1>5, SaveWritesWallet DEF SaveWrites
<1>6. ASSUME NEW p \in Procs, SaveFails(p) PROVE Goal
    BY <1>6, SaveFailsWallet DEF SaveFails
<1>7. ASSUME NEW p \in Procs, End(p) PROVE Goal
    BY <1>7, EndWallet DEF End
<1> QED BY <1>1, <1>2, <1>3, <1>4, <1>5, <1>6, <1>7 DEF WalletNext

(***************************************************************************)
(* The invariant holds of every state of a keystore with one user at a     *)
(* time.                                                                   *)
(***************************************************************************)
THEOREM WalletInvariance == ASSUME Exclusive PROVE WalletSpec => []WalletInv
<1>1. WalletInit => WalletInv
    BY InitWallet
<1>2. WalletInv /\ [WalletNext]_walletVars => WalletInv'
    BY WalletStep
<1> QED BY <1>1, <1>2, PTL DEF WalletSpec

(***************************************************************************)
(* Keys that were reported are kept.  Code: Keystore.Create returning no   *)
(* error, and every Open, Create and save after it.                        *)
(* Exclusive is assumed, not enforced: a keygen beside a server, each with *)
(* a copy of the keystore, may drop the other's key.                       *)
(***************************************************************************)
THEOREM KeysAreKept == ASSUME Exclusive PROVE WalletSpec => []ReportedIsKept
<1>1. WalletInv => ReportedIsKept
    BY DEF WalletInv, ToldIsSafe, Safe, Kept, ReportedIsKept
<1> QED BY <1>1, WalletInvariance, PTL

-----------------------------------------------------------------------------
(* The commands: module Cli.                                               *)

(***************************************************************************)
(* Configurations name files and a miner, and a process that runs has one. *)
(***************************************************************************)
Sound(c) ==
    /\ c # NoConfig /\ DOMAIN c = Settings
    /\ c.DataFile \in DataFiles /\ c.KeyFile \in KeyFiles /\ c.MinerAddress \in Names

ConfigOK ==
    /\ DOMAIN config = Procs /\ DOMAIN given = Procs
    /\ \A p \in Procs :
          /\ config[p] \notin {NoConfig, Refused} => Sound(config[p])
          /\ given[p] # NoConfig => at[p] = "down" /\ config[p] # NoConfig
          /\ at[p] # "down" => /\ config[p] \notin {NoConfig, Refused}
                               /\ path[p] = config[p].KeyFile

(***************************************************************************)
(* Who received coins, in a file or in memory: names, and keys that were   *)
(* made and are safe, unless their creation was refused.                   *)
(***************************************************************************)
ChainOK ==
    /\ chainfile \in [DataFiles -> SUBSET (Names \union Keys)]
    /\ payees \in [Procs -> SUBSET (Names \union Keys)]

Fine(k) == \E m \in made : m.key = k /\ (m \in refused \/ Safe(m))

PaidIsFine ==
    /\ \A f \in DataFiles : \A k \in chainfile[f] \intersect Keys : Fine(k)
    /\ \A p \in Procs : \A k \in payees[p] \intersect Keys : Fine(k)

CliInv == WalletInv /\ ConfigOK /\ ChainOK /\ PaidIsFine

-----------------------------------------------------------------------------
(***************************************************************************)
(* Nobody has a configuration or coins at first.                           *)
(***************************************************************************)
LEMMA InitCli == Init => CliInv
<1> SUFFICES ASSUME Init PROVE CliInv
    OBVIOUS
<1> USE DEF Init
<1>1. WalletInv
    BY InitWallet
<1>2. ConfigOK /\ ChainOK /\ PaidIsFine
    BY DEF WalletInit, ConfigOK, ChainOK, PaidIsFine
<1> QED BY <1>1, <1>2 DEF CliInv

(***************************************************************************)
(* What a process resolves a recipient to, if it is a key, is fine.        *)
(***************************************************************************)
LEMMA ResolvedIsFine ==
    ASSUME CliInv, NEW p \in Procs, at[p] = "ready", NEW name \in Typed
    PROVE  /\ Resolve(keys[p], name) \in Names \union Keys
           /\ Resolve(keys[p], name) \in Keys => Fine(Resolve(keys[p], name))
<1> USE DEF CliInv, WalletInv
<1>1. CASE name \in DOMAIN keys[p]
  <2>1. PICK m \in made : m.file = path[p] /\ m.label = name /\ m.key = keys[p][name]
      BY <1>1 DEF AllMade, Made
  <2>2. m.label # making[p] /\ m.key \in Keys
      BY WalletAssumption DEF MakingIsBrief, WalletTypeOK
  <2>3. m \in refused \/ Safe(m)
      BY <1>1, <2>1, <2>2 DEF MemoryIsSafe, Includes
  <2> QED BY <1>1, <2>1, <2>2, <2>3 DEF Resolve, Fine
<1>2. CASE name \notin DOMAIN keys[p] /\ name \in Names
    BY <1>2, CliAssumption DEF Resolve
<1>3. CASE name \notin DOMAIN keys[p] /\ name \notin Names
  <2>1. PICK m \in told \union refused : m.key = name
      BY <1>3 DEF Typed
  <2>2. m \in made /\ m.key \in Keys /\ (m \in refused \/ Safe(m))
      BY DEF WalletTypeOK, ToldIsSafe
  <2> QED BY <1>3, <2>1, <2>2 DEF Resolve, Fine
<1> QED BY <1>1, <1>2, <1>3

(***************************************************************************)
(* Keys that are fine stay so in every step of the keystore.               *)
(***************************************************************************)
LEMMA FineStays ==
    ASSUME Exclusive, CliInv, [WalletNext]_walletVars
    PROVE  WalletInv' /\ \A k : Fine(k) => Fine(k)'
<1>1. WalletInv' /\ SafeStays /\ made \subseteq made' /\ refused \subseteq refused'
    BY WalletStep DEF CliInv
<1> QED BY <1>1 DEF Fine, SafeStays

(***************************************************************************)
(* A payment adds one payee.                                               *)
(***************************************************************************)
LEMMA PayCli ==
    ASSUME CliInv, NEW p \in Procs, at[p] = "ready", NEW to \in Names \union Keys,
           to \in Keys => Fine(to), Pay(p, to)
    PROVE  CliInv' /\ UNCHANGED walletVars
<1> USE DEF Pay, CliInv
<1>1. WalletInv' /\ ConfigOK' /\ \A k : Fine(k)' <=> Fine(k)
    BY DEF walletVars, WalletInv, WalletTypeOK, Alone, AllMade, Made,
           MadeOnce, MakingIsBrief, MemoryIsSafe, ToldIsSafe, Safe, Kept,
           InMemory, ConfigOK, Fine
<1>2. \A q \in Procs : payees'[q] = IF q = p THEN payees[p] \union {to} ELSE payees[q]
    BY DEF ChainOK
<1>3. config[p].DataFile \in DataFiles
    BY DEF ConfigOK, Sound
<1>4. \A f \in DataFiles : chainfile'[f] = chainfile[f] \/ chainfile'[f] = payees'[p]
    BY DEF ChainOK
<1>5. ChainOK'
  <2>1. payees' \in [Procs -> SUBSET (Names \union Keys)]
      BY DEF ChainOK
  <2> QED BY <1>2, <1>3, <2>1 DEF ChainOK
<1>6. PaidIsFine'
    BY <1>1, <1>2, <1>4 DEF PaidIsFine
<1> QED BY <1>1, <1>5, <1>6

-----------------------------------------------------------------------------
(***************************************************************************)
(* Every step of Cli is one of Wallet or leaves the keystore alone, and    *)
(* preserves the invariant.                                                *)
(***************************************************************************)
LEMMA ConfigureCli ==
    ASSUME CliInv, NEW p \in Procs, NEW env \in Environments,
           NEW lines \in DotEnvs, NEW flags \in FlagSets,
           Configure(p, env, lines, flags)
    PROVE  CliInv' /\ UNCHANGED walletVars
<1> USE DEF Configure, CliInv
<1> DEFINE c == Configuration(env, lines, flags)
<1>1. c # NoConfig /\ (c # Refused => Sound(c))
    BY CliAssumption DEF Sound
<1> HIDE DEF c
<1>2. WalletInv' /\ \A k : Fine(k)' <=> Fine(k)
    BY DEF walletVars, WalletInv, WalletTypeOK, Alone, AllMade, Made,
           MadeOnce, MakingIsBrief, MemoryIsSafe, ToldIsSafe, Safe, Kept,
           InMemory, Fine
<1>3. \A q \in Procs : /\ config'[q] = IF q = p THEN c ELSE config[q]
                       /\ q # p => given'[q] = given[q]
    BY DEF ConfigOK, c
<1>4. DOMAIN config' = Procs /\ DOMAIN given' = Procs
    BY DEF ConfigOK
<1>5. at' = at /\ path' = path
    BY DEF walletVars
<1>6. ConfigOK'
    BY <1>1, <1>3, <1>4, <1>5 DEF ConfigOK
<1>7. ChainOK' /\ PaidIsFine'
    BY <1>2 DEF ChainOK, PaidIsFine
<1> QED BY <1>2, <1>6, <1>7

LEMMA StartCli ==
    ASSUME Exclusive, CliInv, NEW p \in Procs, Start(p)
    PROVE  CliInv' /\ [WalletNext]_walletVars
<1> USE DEF Start, CliInv
<1>1. Sound(config[p])
    BY DEF ConfigOK
<1>2. [WalletNext]_walletVars
    BY <1>1 DEF WalletNext, Sound
<1>3. WalletInv' /\ \A k : Fine(k) => Fine(k)'
    BY <1>2, FineStays
<1>4. ConfigOK'
    BY DEF ConfigOK, Open, GoTo, WalletInv, WalletTypeOK
<1>5. \A q \in Procs : payees'[q] = IF q = p THEN chainfile[config[p].DataFile]
                                    ELSE payees[q]
    BY DEF ChainOK
<1>6. ChainOK'
    BY <1>1 DEF ChainOK, Sound
<1>7. PaidIsFine'
    BY <1>1, <1>3, <1>5 DEF PaidIsFine, Sound
<1> QED BY <1>2, <1>3, <1>4, <1>6, <1>7

LEMMA KeystoreCli ==
    ASSUME Exclusive, CliInv, NEW p \in Procs,
           Save(p) \/ \E label \in Labels : Keygen(p, label)
    PROVE  CliInv' /\ [WalletNext]_walletVars
<1> USE DEF Save, Keygen, CliInv
<1>1. [WalletNext]_walletVars
    BY DEF WalletNext
<1>2. WalletInv' /\ \A k : Fine(k) => Fine(k)'
    BY <1>1, FineStays
<1>3. \A q \in Procs : path'[q] = path[q] /\ (at'[q] = "down" <=> at[q] = "down")
    BY DEF SaveOpens, SaveWrites, SaveFails, Create, GoTo, WalletInv, WalletTypeOK
<1>4. UNCHANGED <<given, config, payees, chainfile>>
    OBVIOUS
<1>5. ConfigOK'
    BY <1>3, <1>4 DEF ConfigOK
<1>6. ChainOK' /\ PaidIsFine'
    BY <1>2, <1>4 DEF ChainOK, PaidIsFine
<1> QED BY <1>1, <1>2, <1>5, <1>6

LEMMA ExitCli ==
    ASSUME Exclusive, CliInv, NEW p \in Procs, Exit(p)
    PROVE  CliInv' /\ [WalletNext]_walletVars
<1> USE DEF Exit, CliInv
<1>1. [WalletNext]_walletVars
    BY DEF WalletNext
<1>2. WalletInv' /\ \A k : Fine(k) => Fine(k)'
    BY <1>1, FineStays
<1>3. \A q \in Procs : /\ at'[q] = IF q = p THEN "down" ELSE at[q]
                       /\ q # p => path'[q] = path[q]
    BY DEF End, GoTo, WalletInv, WalletTypeOK, walletVars
<1>4. ConfigOK'
    BY <1>3 DEF ConfigOK
<1>5. \A q \in Procs : payees'[q] = IF q = p THEN {} ELSE payees[q]
    BY DEF ChainOK
<1>6. ChainOK'
    BY DEF ChainOK
<1>7. PaidIsFine'
    BY <1>2, <1>5 DEF PaidIsFine
<1> QED BY <1>1, <1>2, <1>4, <1>6, <1>7

LEMMA CliStep ==
    ASSUME Exclusive, CliInv, [Next]_vars
    PROVE  CliInv' /\ [WalletNext]_walletVars
<1> DEFINE Goal == CliInv' /\ [WalletNext]_walletVars
<1>1. CASE UNCHANGED vars
    BY <1>1 DEF vars, walletVars, CliInv, WalletInv, WalletTypeOK, Alone,
                AllMade, Made, MadeOnce, MakingIsBrief, MemoryIsSafe,
                ToldIsSafe, Safe, Kept, InMemory, ConfigOK, ChainOK,
                PaidIsFine, Fine
<1>2. ASSUME NEW p \in Procs, NEW env \in Environments, NEW lines \in DotEnvs,
             NEW flags \in FlagSets, Configure(p, env, lines, flags)
      PROVE  Goal
    BY <1>2, ConfigureCli
<1>3. ASSUME NEW p \in Procs, Start(p) PROVE Goal
    BY <1>3, StartCli
<1>4. ASSUME NEW p \in Procs, NEW label \in Labels, Keygen(p, label) PROVE Goal
    BY <1>4, KeystoreCli
<1>5. ASSUME NEW p \in Procs, Save(p) PROVE Goal
    BY <1>5, KeystoreCli
<1>6. ASSUME NEW p \in Procs, NEW name \in Typed, Faucet(p, name) PROVE Goal
    BY <1>6, ResolvedIsFine, PayCli DEF Faucet
<1>7. ASSUME NEW p \in Procs, NEW label \in Labels, NEW name \in Typed,
             Send(p, label, name)
      PROVE  Goal
    BY <1>7, ResolvedIsFine, PayCli DEF Send
<1>8. ASSUME NEW p \in Procs, Mine(p) PROVE Goal
  <2>1. config[p].MinerAddress \in Names /\ config[p].MinerAddress \notin Keys
      BY <1>8, CliAssumption DEF Mine, CliInv, ConfigOK, Sound
  <2> QED BY <1>8, <2>1, PayCli DEF Mine
<1>9. ASSUME NEW p \in Procs, Exit(p) PROVE Goal
    BY <1>9, ExitCli
<1> QED BY <1>1, <1>2, <1>3, <1>4, <1>5, <1>6, <1>7, <1>8, <1>9 DEF Next

-----------------------------------------------------------------------------
(***************************************************************************)
(* The invariant holds of every state of the commands, one at a time.      *)
(***************************************************************************)
THEOREM CliInvariance == ASSUME Exclusive PROVE Spec => []CliInv
<1>1. Init => CliInv
    BY InitCli
<1>2. CliInv /\ [Next]_vars => CliInv'
    BY CliStep
<1> QED BY <1>1, <1>2, PTL DEF Spec

(***************************************************************************)
(* The commands use the keystore as Wallet describes it, so that all that  *)
(* is proved of Wallet holds of them.  Code: open, keygen and createKey    *)
(* are the only callers of wallet.Open and Keystore.Create.                *)
(***************************************************************************)
THEOREM CliUsesWallet == ASSUME Exclusive PROVE Spec => WalletSpec
<1>1. Init => WalletInit
    BY DEF Init
<1>2. CliInv /\ [Next]_vars => [WalletNext]_walletVars
    BY CliStep
<1> QED BY <1>1, <1>2, CliInvariance, PTL DEF Spec, WalletSpec

(***************************************************************************)
(* Type correctness.                                                       *)
(***************************************************************************)
THEOREM CliTypeCorrect == ASSUME Exclusive PROVE Spec => []TypeOK
<1>1. CliInv => TypeOK
    BY DEF CliInv, WalletInv, ConfigOK, Sound, ChainOK, TypeOK
<1> QED BY <1>1, CliInvariance, PTL

(***************************************************************************)
(* No key whose creation keygen reported is ever lost or replaced.  Code:  *)
(* Keystore.Create and save, between any number of commands and crashes.   *)
(***************************************************************************)
THEOREM ReportedKeysStay == ASSUME Exclusive PROVE Spec => []ReportedIsKept
<1> QED BY CliUsesWallet, KeysAreKept, PTL

(***************************************************************************)
(* Coins sent to keys of the keystore can be spent after any restart.      *)
(* Code: faucet and send, Resolve, and the order of Create, save and the   *)
(* commands that follow.                                                   *)
(***************************************************************************)
THEOREM CoinsAreSpendable == ASSUME Exclusive PROVE Spec => []PaidIsSpendable
<1>1. CliInv => PaidIsSpendable
  <2> SUFFICES ASSUME CliInv, NEW m \in made, NEW f \in DataFiles,
                      m.key \in chainfile[f], m \notin refused,
                      Opens(keyfile[m.file])
               PROVE  Includes(keyfile[m.file].keys, m.label, m.key)
      BY DEF PaidIsSpendable
  <2> USE DEF CliInv, WalletInv
  <2>1. m.key \in Keys
      BY DEF WalletTypeOK
  <2>2. Fine(m.key)
      BY <2>1 DEF PaidIsFine
  <2>3. Safe(m)
      BY <2>2 DEF Fine, MadeOnce
  <2> QED BY <2>3 DEF Safe, Kept
<1> QED BY <1>1, CliInvariance, PTL

-----------------------------------------------------------------------------
(* Where a configuration comes from: module Config.                        *)

(***************************************************************************)
(* The settings in the first i lines of .env, and the line that counts.    *)
(***************************************************************************)
KeysUpTo(lines, i) ==
    {lines[j].key : j \in {k \in 1..i : lines[k] # Comment}}

IsFirst(lines, i, s) ==
    /\ lines[i] # Comment /\ lines[i].key = s
    /\ \A j \in 1..(i - 1) : lines[j] # Comment => lines[j].key # s

First(lines, s) == CHOOSE i \in DOMAIN lines : IsFirst(lines, i, s)

(***************************************************************************)
(* The environment after the first i lines.                                *)
(***************************************************************************)
EnvAfter(env, lines, i) ==
    [s \in DOMAIN env \union KeysUpTo(lines, i) |->
        IF s \in DOMAIN env THEN env[s] ELSE lines[First(lines, s)].value]

LEMMA OneFirst ==
    ASSUME NEW lines, Len(lines) \in Nat, DOMAIN lines = 1..Len(lines),
           NEW s, NEW i \in 1..Len(lines), IsFirst(lines, i, s)
    PROVE  First(lines, s) = i
<1>1. First(lines, s) \in DOMAIN lines /\ IsFirst(lines, First(lines, s), s)
    BY DEF First
<1> DEFINE k == First(lines, s)
<1> HIDE DEF k
<1>2. k \in 1..Len(lines) /\ IsFirst(lines, k, s)
    BY <1>1 DEF k
<1>3. ~(k < i) /\ ~(i < k)
    BY <1>2 DEF IsFirst
<1> QED BY <1>2, <1>3 DEF k

(***************************************************************************)
(* One line adds its setting, if nothing had it before.                    *)
(***************************************************************************)
LEMMA ExportAdds ==
    ASSUME NEW env, NEW lines, Len(lines) \in Nat, DOMAIN lines = 1..Len(lines),
           NEW i \in 1..Len(lines)
    PROVE  Export(EnvAfter(env, lines, i - 1), lines[i]) = EnvAfter(env, lines, i)
<1> DEFINE before == KeysUpTo(lines, i - 1)
           key == lines[i].key
<1>1. CASE lines[i] = Comment
  <2>1. {k \in 1..i : lines[k] # Comment} = {k \in 1..(i - 1) : lines[k] # Comment}
      BY <1>1
  <2>2. KeysUpTo(lines, i) = before
      BY <2>1 DEF KeysUpTo
  <2> QED BY <1>1, <2>2 DEF Export, EnvAfter
<1>2. CASE lines[i] # Comment
  <2> DEFINE e == EnvAfter(env, lines, i - 1)
             line == [s \in {key} |-> lines[i].value]
             value(s) == IF s \in DOMAIN env THEN env[s]
                         ELSE lines[First(lines, s)].value
  <2>1. KeysUpTo(lines, i) = before \union {key}
    <3>1. {k \in 1..i : lines[k] # Comment} =
             {k \in 1..(i - 1) : lines[k] # Comment} \union {i}
        BY <1>2
    <3> QED BY <3>1 DEF KeysUpTo
  <2>2. key \notin before => First(lines, key) = i
    <3>1. key \notin before => IsFirst(lines, i, key)
        BY <1>2 DEF KeysUpTo, IsFirst
    <3> QED BY <3>1, OneFirst
  <2>3. DOMAIN e = DOMAIN env \union before /\ \A s \in DOMAIN e : e[s] = value(s)
      BY DEF EnvAfter
  <2>4. DOMAIN line = {key} /\ line[key] = lines[i].value
      OBVIOUS
  <2>5. Export(e, lines[i]) = Over(e, line)
      BY <1>2 DEF Export
  <2> HIDE DEF e, line, before
  <2>6. Over(e, line) = [s \in DOMAIN env \union (before \union {key}) |-> value(s)]
    <3>1. DOMAIN e \union DOMAIN line = DOMAIN env \union (before \union {key})
        BY <2>3, <2>4
    <3>2. ASSUME NEW s \in DOMAIN e \union DOMAIN line
          PROVE  (IF s \in DOMAIN e THEN e[s] ELSE line[s]) = value(s)
      <4>1. CASE s \in DOMAIN e
          BY <2>3, <4>1
      <4>2. CASE s \notin DOMAIN e
        <5>1. s = key /\ s \notin before /\ s \notin DOMAIN env
            BY <2>3, <2>4, <4>2
        <5> QED BY <2>2, <2>4, <4>2, <5>1
      <4> QED BY <4>1, <4>2
    <3> HIDE DEF value
    <3> QED BY <3>1, <3>2 DEF Over
  <2> QED BY <2>1, <2>5, <2>6 DEF e, EnvAfter
<1> QED BY <1>1, <1>2

(***************************************************************************)
(* loadDotEnv: the environment on top of the first lines of each setting.  *)
(***************************************************************************)
LEMMA DotEnvLoaded ==
    ASSUME NEW env, env = [s \in DOMAIN env |-> env[s]],
           NEW lines, Len(lines) \in Nat, DOMAIN lines = 1..Len(lines)
    PROVE  LoadDotEnv(env, lines) = EnvAfter(env, lines, Len(lines))
<1> DEFINE n == Len(lines)
           Is(f) == f = [i \in 0..n |->
                            IF i = 0 THEN env ELSE Export(f[i - 1], lines[i])]
           g == [i \in 0..n |-> EnvAfter(env, lines, i)]
           after == CHOOSE f : Is(f)
<1>1. LoadDotEnv(env, lines) = after[n]
    BY DEF LoadDotEnv
<1>2. EnvAfter(env, lines, 0) = env
  <2>1. KeysUpTo(lines, 0) = {}
      BY DEF KeysUpTo
  <2> QED BY <2>1 DEF EnvAfter
<1>3. \A i \in 0..n : g[i] = IF i = 0 THEN env ELSE Export(g[i - 1], lines[i])
  <2> SUFFICES ASSUME NEW i \in 0..n
               PROVE  g[i] = IF i = 0 THEN env ELSE Export(g[i - 1], lines[i])
      OBVIOUS
  <2>1. CASE i = 0
      BY <1>2, <2>1
  <2>2. CASE i # 0
    <3>1. i \in 1..n /\ i - 1 \in 0..n
        BY <2>2
    <3>2. g[i] = EnvAfter(env, lines, i) /\ g[i - 1] = EnvAfter(env, lines, i - 1)
        BY <3>1
    <3> QED BY <2>2, <3>1, <3>2, ExportAdds
  <2> QED BY <2>1, <2>2
<1>4. g = [i \in 0..n |-> g[i]]
    OBVIOUS
<1>5. Is(after)
  <2> HIDE DEF g
  <2>1. Is(g)
      BY <1>3, <1>4
  <2> HIDE DEF Is
  <2> QED BY <2>1
<1> HIDE DEF after
<1> DEFINE P == {i \in 0..n : after[i] = EnvAfter(env, lines, i)}
<1>6. 0 \in P
    BY <1>2, <1>5
<1>7. ASSUME NEW i \in 1..n, i - 1 \in P PROVE i \in P
  <2>1. after[i] = Export(after[i - 1], lines[i])
      BY <1>5
  <2>2. after[i] = EnvAfter(env, lines, i)
      BY <1>7, <2>1, ExportAdds
  <2> QED BY <2>2
<1>8. \A i \in 0..n : i \in P
  <2> HIDE DEF P
  <2> QED BY <1>6, <1>7, UpTo
<1> QED BY <1>1, <1>8

(***************************************************************************)
(* What Said makes of the lines.                                           *)
(***************************************************************************)
LEMMA SaidFirst ==
    ASSUME NEW lines, Len(lines) \in Nat, DOMAIN lines = 1..Len(lines)
    PROVE  /\ DOMAIN Said(lines) = KeysUpTo(lines, Len(lines))
           /\ \A s \in DOMAIN Said(lines) :
                 Said(lines)[s] = lines[First(lines, s)].value
<1>1. Said(lines) = [s \in KeysUpTo(lines, Len(lines)) |-> lines[First(lines, s)].value]
    BY DEF Said, KeysUpTo, First, IsFirst
<1> QED BY <1>1

(***************************************************************************)
(* Load before the validation.                                             *)
(***************************************************************************)
LEMMA LoadedValues ==
    ASSUME NEW env, IsSource(env), NEW lines, IsDotEnv(lines)
    PROVE  [s \in Settings |-> Value(LoadDotEnv(env, lines), s)] =
             LastOneWins(env, lines, NoFlags)
<1> DEFINE n == Len(lines)
           all == LoadDotEnv(env, lines)
<1>1. all = EnvAfter(env, lines, n) /\ n \in Nat /\ DOMAIN lines = 1..n
    BY DotEnvLoaded DEF IsSource, IsDotEnv
<1>2. /\ DOMAIN all = DOMAIN env \union DOMAIN Said(lines)
      /\ \A s \in DOMAIN all :
            all[s] = IF s \in DOMAIN env THEN env[s] ELSE Said(lines)[s]
  <2>1. /\ DOMAIN Said(lines) = KeysUpTo(lines, n)
        /\ \A s \in DOMAIN Said(lines) : Said(lines)[s] = lines[First(lines, s)].value
      BY <1>1, SaidFirst
  <2> QED BY <1>1, <2>1 DEF EnvAfter
<1> HIDE DEF all
<1>3. ASSUME NEW s \in Settings
      PROVE  Value(all, s) =
               IF s \in DOMAIN env
               THEN IF env[s] = EmptyText THEN Default[s] ELSE env[s]
               ELSE IF s \in DOMAIN Said(lines) /\ Said(lines)[s] # EmptyText
                    THEN Said(lines)[s] ELSE Default[s]
    BY <1>2 DEF Value
<1>4. LastOneWins(env, lines, NoFlags) =
         [s \in Settings |->
            IF s \in DOMAIN env
            THEN IF env[s] = EmptyText THEN Default[s] ELSE env[s]
            ELSE IF s \in DOMAIN Said(lines) /\ Said(lines)[s] # EmptyText
                 THEN Said(lines)[s] ELSE Default[s]]
  <2>1. \A s : s \notin DOMAIN NoFlags
      BY DEF NoFlags
  <2> QED BY <2>1 DEF LastOneWins
<1> QED BY <1>3, <1>4 DEF all

(***************************************************************************)
(* Every setting in .env has a first line, so what is said of a number is  *)
(* a number or a typo once the empty values are taken out.                 *)
(***************************************************************************)
LEMMA FirstExists ==
    ASSUME NEW lines, IsDotEnv(lines), NEW s \in KeysUpTo(lines, Len(lines))
    PROVE  First(lines, s) \in DOMAIN lines /\ IsFirst(lines, First(lines, s), s)
<1> DEFINE n == Len(lines)
           T == {i \in 1..n : lines[i] # Comment /\ lines[i].key = s}
<1>1. n \in Nat /\ DOMAIN lines = 1..n
    BY DEF IsDotEnv
<1>2. T \subseteq Nat /\ T # {}
    BY DEF KeysUpTo
<1>3. PICK i \in T : \A j \in T : i <= j
  <2> HIDE DEF T
  <2> QED BY <1>2, LeastNat
<1>4. i \in DOMAIN lines /\ IsFirst(lines, i, s)
    BY <1>1, <1>3 DEF IsFirst
<1> QED BY <1>4 DEF First

LEMMA NumbersOrTypos ==
    ASSUME NEW env, IsSource(env), NEW lines, IsDotEnv(lines),
           \A i \in DOMAIN lines : lines[i] # Malformed,
           NEW s \in Numbers
    PROVE  LastOneWins(env, lines, NoFlags)[s] \in Int \union {Typo}
<1> DEFINE plain == LastOneWins(env, lines, NoFlags)
<1>1. plain[s] = IF s \in DOMAIN env
                 THEN IF env[s] = EmptyText THEN Default[s] ELSE env[s]
                 ELSE IF s \in DOMAIN Said(lines) /\ Said(lines)[s] # EmptyText
                      THEN Said(lines)[s] ELSE Default[s]
  <2>1. s \in Settings /\ s \notin DOMAIN NoFlags
      BY DEF Settings, NoFlags
  <2> QED BY <2>1 DEF LastOneWins
<1>2. s \in DOMAIN env => env[s] \in SaidOfNumber
    BY DEF IsSource
<1>3. s \in DOMAIN Said(lines) => Said(lines)[s] \in SaidOfNumber
  <2> SUFFICES ASSUME s \in DOMAIN Said(lines)
               PROVE  Said(lines)[s] \in SaidOfNumber
      OBVIOUS
  <2>1. s \in KeysUpTo(lines, Len(lines)) /\ Said(lines)[s] = lines[First(lines, s)].value
      BY SaidFirst DEF IsDotEnv
  <2>2. First(lines, s) \in DOMAIN lines /\ IsFirst(lines, First(lines, s), s)
      BY <2>1, FirstExists
  <2> QED BY <2>1, <2>2 DEF IsFirst, IsDotEnv
<1>4. Default[s] \in Int
    BY ConfigAssumption
<1> HIDE DEF plain
<1>5. plain[s] \in Int \union {Typo}
    BY <1>1, <1>2, <1>3, <1>4 DEF SaidOfNumber
<1> QED BY <1>5 DEF plain

(***************************************************************************)
(* A configuration is the order of its sources, or refused.                *)
(***************************************************************************)
IsGood(c) == (\A s \in Numbers : c[s] \in Int) /\ Validate(c)

LEMMA ConfigurationOrder ==
    ASSUME NEW env \in Environments, NEW lines \in DotEnvs, NEW flags \in FlagSets
    PROVE  Configuration(env, lines, flags) =
             IF /\ \A i \in DOMAIN lines : lines[i] # Malformed
                /\ IsGood(LastOneWins(env, lines, NoFlags))
                /\ IsGood(LastOneWins(env, lines, flags))
             THEN LastOneWins(env, lines, flags) ELSE Refused
<1> DEFINE plain == LastOneWins(env, lines, NoFlags)
           whole == LastOneWins(env, lines, flags)
           c == Load(env, lines)
<1>1. /\ IsSource(env) /\ IsDotEnv(lines) /\ IsSource(flags)
      /\ DOMAIN flags \subseteq Settings /\ Typo \notin Int /\ EmptyText \notin Int
    BY SourcesAssumption
<1>2. DOMAIN lines = 1..Len(lines)
    BY <1>1 DEF IsDotEnv
<1>3. CASE \E i \in DOMAIN lines : lines[i] = Malformed
    BY <1>2, <1>3 DEF Configuration, Load
<1>4. CASE \A i \in DOMAIN lines : lines[i] # Malformed
  <2>1. [s \in Settings |-> Value(LoadDotEnv(env, lines), s)] = plain
      BY <1>1, LoadedValues
  <2>2. c = IF (\E s \in Numbers : plain[s] = Typo) \/ ~Validate(plain)
            THEN Refused ELSE plain
      BY <1>2, <1>4, <2>1, Zenon DEF Load
  <2>3. \A s \in Numbers : plain[s] \in Int \union {Typo}
      BY <1>1, <1>4, NumbersOrTypos
  <2>4. plain # Refused
      BY <1>4, SourcesAssumption
  <2>5. whole = Over(flags, plain)
    <3>1. plain = [s \in Settings |-> plain[s]]
        BY DEF LastOneWins
    <3>2. \A s : s \notin DOMAIN NoFlags
        BY DEF NoFlags
    <3>3. \A s \in Settings :
             whole[s] = IF s \in DOMAIN flags THEN flags[s] ELSE plain[s]
        BY <3>2 DEF LastOneWins
    <3>4. whole = [s \in Settings |-> whole[s]]
        BY DEF LastOneWins
    <3> HIDE DEF plain, whole
    <3>5. DOMAIN flags \union DOMAIN plain = Settings
        BY <1>1, <3>1
    <3>6. Over(flags, plain) =
             [s \in Settings |-> IF s \in DOMAIN flags THEN flags[s] ELSE plain[s]]
        BY <3>5, Zenon DEF Over
    <3>7. whole = [s \in Settings |-> IF s \in DOMAIN flags THEN flags[s] ELSE plain[s]]
        BY <3>3, <3>4
    <3> QED BY <3>6, <3>7
  <2>6. \A s \in Numbers : s \in Settings
      BY DEF Settings
  <2>7. \A s \in Numbers :
           whole[s] = IF s \in DOMAIN flags THEN flags[s] ELSE plain[s]
    <3>1. \A s : s \notin DOMAIN NoFlags
        BY DEF NoFlags
    <3> QED BY <2>6, <3>1 DEF LastOneWins
  <2>8. \A s \in DOMAIN flags \intersect Numbers :
           flags[s] \in Int \/ flags[s] \in {Typo, EmptyText}
      BY <1>1 DEF IsSource, SaidOfNumber
  <2> HIDE DEF plain, whole, c
  <2>9. ParseFlags(plain, flags) =
           IF \/ \E s \in DOMAIN flags \intersect Numbers :
                    flags[s] \in {Typo, EmptyText}
              \/ ~Validate(whole)
           THEN Refused ELSE whole
      BY <2>5 DEF ParseFlags
  <2>10. Configuration(env, lines, flags) =
            IF c = Refused THEN Refused ELSE ParseFlags(c, flags)
      BY DEF Configuration, c
  <2>11. CASE ~IsGood(plain)
    <3>1. (\E s \in Numbers : plain[s] = Typo) \/ ~Validate(plain)
        BY <2>3, <2>11 DEF IsGood
    <3>2. c = Refused
        BY <2>2, <3>1
    <3> QED BY <2>10, <2>11, <3>2 DEF plain
  <2>12. CASE IsGood(plain)
    <3>1. ~((\E s \in Numbers : plain[s] = Typo) \/ ~Validate(plain))
        BY <1>1, <2>12 DEF IsGood
    <3>2. c = plain /\ c # Refused
        BY <2>2, <2>4, <3>1
    <3>3. Configuration(env, lines, flags) =
             IF \/ \E s \in DOMAIN flags \intersect Numbers :
                      flags[s] \in {Typo, EmptyText}
                \/ ~Validate(whole)
             THEN Refused ELSE whole
        BY <2>9, <2>10, <3>2
    <3>4. IsGood(whole) <=>
             ~(\/ \E s \in DOMAIN flags \intersect Numbers :
                      flags[s] \in {Typo, EmptyText}
               \/ ~Validate(whole))
      <4>1. \A s \in Numbers : plain[s] \in Int
          BY <2>12 DEF IsGood
      <4>2. (\A s \in Numbers : whole[s] \in Int) <=>
               ~\E s \in DOMAIN flags \intersect Numbers :
                    flags[s] \in {Typo, EmptyText}
          BY <1>1, <2>7, <2>8, <4>1
      <4> QED BY <4>2 DEF IsGood
    <3> QED BY <1>4, <2>12, <3>3, <3>4 DEF plain, whole
  <2> QED BY <2>11, <2>12
<1> QED BY <1>3, <1>4

(***************************************************************************)
(* The same, said as in ResolutionOrder.                                   *)
(***************************************************************************)
Resolved(env, lines, flags, result) ==
    LET plain == LastOneWins(env, lines, NoFlags)
        whole == LastOneWins(env, lines, flags)
        sound == /\ \A i \in DOMAIN lines : lines[i] # Malformed
                 /\ \A c \in {plain, whole} :
                       /\ \A s \in Numbers : c[s] \in Int
                       /\ Validate(c)
    IN  result = IF sound THEN whole ELSE Refused

LEMMA ConfigurationResolved ==
    ASSUME NEW env \in Environments, NEW lines \in DotEnvs, NEW flags \in FlagSets
    PROVE  Resolved(env, lines, flags, Configuration(env, lines, flags))
<1> DEFINE plain == LastOneWins(env, lines, NoFlags)
           whole == LastOneWins(env, lines, flags)
           result == Configuration(env, lines, flags)
           wellFormed == \A i \in DOMAIN lines : lines[i] # Malformed
<1>1. CASE wellFormed /\ IsGood(plain) /\ IsGood(whole)
  <2>1. result = whole
      BY <1>1, ConfigurationOrder
  <2> QED BY <1>1, <2>1, Zenon DEF Resolved, IsGood
<1>2. CASE ~(wellFormed /\ IsGood(plain) /\ IsGood(whole))
  <2>1. result = Refused
      BY <1>2, ConfigurationOrder
  <2> QED BY <1>2, <2>1, Zenon DEF Resolved, IsGood
<1> QED BY <1>1, <1>2

(***************************************************************************)
(* Until it opens its files, a process has the configuration of its        *)
(* sources.                                                                *)
(***************************************************************************)
FromSources ==
    /\ DOMAIN given = Procs /\ DOMAIN config = Procs
    /\ \A p \in Procs :
          given[p] # NoConfig =>
              \E env \in Environments, lines \in DotEnvs, flags \in FlagSets :
                  /\ given[p] = [env |-> env, lines |-> lines, flags |-> flags]
                  /\ config[p] = Configuration(env, lines, flags)

LEMMA SourcesStep == ASSUME FromSources, [Next]_vars PROVE FromSources'
<1>1. CASE UNCHANGED vars
    BY <1>1 DEF vars, FromSources
<1>2. ASSUME NEW p \in Procs, NEW env \in Environments, NEW lines \in DotEnvs,
             NEW flags \in FlagSets, Configure(p, env, lines, flags)
      PROVE  FromSources'
  <2> DEFINE g == [env |-> env, lines |-> lines, flags |-> flags]
             c == Configuration(env, lines, flags)
  <2>1. given' = [given EXCEPT ![p] = g] /\ config' = [config EXCEPT ![p] = c]
      BY <1>2 DEF Configure
  <2>2. \E e \in Environments, l \in DotEnvs, f \in FlagSets :
            g = [env |-> e, lines |-> l, flags |-> f] /\ c = Configuration(e, l, f)
      OBVIOUS
  <2> HIDE DEF g, c
  <2> QED BY <2>1, <2>2 DEF FromSources
<1>3. ASSUME NEW p \in Procs, Start(p) PROVE FromSources'
    BY <1>3 DEF Start, FromSources
<1>4. ASSUME NEW p \in Procs, Exit(p) PROVE FromSources'
    BY <1>4 DEF Exit, FromSources
<1>5. CASE UNCHANGED <<given, config>>
    BY <1>5 DEF FromSources
<1> QED BY <1>1, <1>2, <1>3, <1>4, <1>5
        DEF Next, Keygen, Save, Faucet, Send, Mine, Pay

(***************************************************************************)
(* "Resolution order, last one wins", for any defaults, environment, .env  *)
(* file and flags: the statements of loadDotEnv, Load and parseFlags give  *)
(* what the order of the sources says, or an error where the configuration *)
(* before or after the flags is not a valid one.                           *)
(***************************************************************************)
THEOREM LastSourceWins == Spec => []ResolutionOrder
<1>1. Init => FromSources
    BY DEF Init, FromSources
<1>2. FromSources /\ [Next]_vars => FromSources'
    BY SourcesStep
<1>3. FromSources => ResolutionOrder
  <2>1. FromSources =>
           \A p \in Procs :
              given[p] # NoConfig =>
                  Resolved(given[p].env, given[p].lines, given[p].flags, config[p])
    <3> SUFFICES ASSUME FromSources, NEW p \in Procs, given[p] # NoConfig
                 PROVE  Resolved(given[p].env, given[p].lines, given[p].flags, config[p])
        OBVIOUS
    <3>1. PICK env \in Environments, lines \in DotEnvs, flags \in FlagSets :
              /\ given[p] = [env |-> env, lines |-> lines, flags |-> flags]
              /\ config[p] = Configuration(env, lines, flags)
        BY DEF FromSources
    <3>2. given[p].env = env /\ given[p].lines = lines /\ given[p].flags = flags
        BY <3>1
    <3> QED BY <3>1, <3>2, ConfigurationResolved
  <2> QED BY <2>1, Zenon DEF ResolutionOrder, Resolved
<1> QED BY <1>1, <1>2, <1>3, PTL DEF Spec
=============================================================================
