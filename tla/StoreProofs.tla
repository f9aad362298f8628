----------------------------- MODULE StoreProofs ----------------------------
(***************************************************************************)
(* Proofs about Store, for any number of processes, saves, failures and    *)
(* crashes: what Save promises as long as one process at a time uses the   *)
(* file, and the types, however many do.                                   *)
(***************************************************************************)
EXTENDS Store, TLAPS

(***************************************************************************)
(* What a process that is running knows: nobody else is, its memory has    *)
(* all the file has, the file it writes to is the temporary one, and once  *)
(* written that one is a whole chain.                                      *)
(***************************************************************************)
Alone == \A p, q \in Procs : pc[p] # "down" /\ pc[q] # "down" => p = q

MemoryHasFile == \A p \in Procs : pc[p] # "down" => Content.has \subseteq mem[p]

WritesTmp ==
    \A p \in Procs : pc[p] = "write" => fd[p] = tmp /\ data[tmp] = Empty

TmpIsWritten ==
    \A p \in Procs :
        pc[p] = "rename" => tmp # NoInode /\ data[tmp] = Whole(mem[p])

StoreInv ==
    /\ TypeOK
    /\ FileAlwaysLoads
    /\ ReportedIsSaved
    /\ Alone
    /\ MemoryHasFile
    /\ WritesTmp
    /\ TmpIsWritten

-----------------------------------------------------------------------------
(***************************************************************************)
(* What files can hold.                                                    *)
(***************************************************************************)
LEMMA ContentsFacts ==
    /\ Empty \in Contents /\ Torn \in Contents
    /\ \A s \in SUBSET Updates :
          Whole(s) \in Contents /\ Whole(s).whole /\ Whole(s).has = s
    /\ \A d \in Contents : d.has \in SUBSET Updates
<1>1. Empty \in Contents /\ Torn \in Contents
    BY DEF Contents
<1>2. \A s \in SUBSET Updates :
          Whole(s) \in Contents /\ Whole(s).whole /\ Whole(s).has = s
    BY DEF Contents, Whole
<1>3. \A d \in Contents : d.has \in SUBSET Updates
    BY DEF Contents, Whole, Empty, Torn
<1> QED BY <1>1, <1>2, <1>3

(***************************************************************************)
(* The file has contents, whole or not.                                    *)
(***************************************************************************)
LEMMA ContentType == TypeOK => Content \in Contents
<1> SUFFICES ASSUME TypeOK PROVE Content \in Contents
    OBVIOUS
<1>1. CASE chainJson = NoInode
    BY <1>1, ContentsFacts DEF Content
<1>2. CASE chainJson # NoInode
    BY <1>2 DEF Content, TypeOK
<1> QED BY <1>1, <1>2

(***************************************************************************)
(* A first run has no file and nothing to lose.                            *)
(***************************************************************************)
LEMMA InitStore == Init => StoreInv
<1> SUFFICES ASSUME Init PROVE StoreInv
    OBVIOUS
<1> USE DEF Init
<1>1. TypeOK
    BY StoreAssumption, ContentsFacts DEF TypeOK, Updates
<1>2. Content = Whole({})
    BY DEF Content
<1> QED BY <1>1, <1>2, ContentsFacts
        DEF StoreInv, FileAlwaysLoads, ReportedIsSaved, Alone, MemoryHasFile,
            WritesTmp, TmpIsWritten

(***************************************************************************)
(* Load starts a process whose memory is the file.                         *)
(***************************************************************************)
LEMMA LoadStore ==
    ASSUME Exclusive, StoreInv, NEW p \in Procs, Load(p)
    PROVE  StoreInv' /\ Content' = Content
<1> USE DEF Load, GoTo, names, StoreInv
<1>1. Content' = Content
    BY DEF Content
<1>2. mem'[p] = Content.has /\ mem' = [mem EXCEPT ![p] = Content.has]
    BY ContentsFacts DEF Content, TypeOK
<1>3. TypeOK'
    BY <1>2, ContentType, ContentsFacts DEF TypeOK
<1>4. \A q \in Procs : pc'[q] = IF q = p THEN "ready" ELSE "down"
    BY DEF TypeOK
<1>5. Alone' /\ WritesTmp' /\ TmpIsWritten'
    BY <1>4 DEF Alone, WritesTmp, TmpIsWritten
<1>6. MemoryHasFile'
    BY <1>1, <1>2, <1>4 DEF MemoryHasFile
<1>7. FileAlwaysLoads' /\ ReportedIsSaved'
    BY <1>1 DEF FileAlwaysLoads, ReportedIsSaved
<1> QED BY <1>1, <1>3, <1>5, <1>6, <1>7

(***************************************************************************)
(* Update adds to the memory of a process that is not yet saving.          *)
(***************************************************************************)
LEMMA UpdateStore ==
    ASSUME StoreInv, NEW p \in Procs, Update(p)
    PROVE  StoreInv' /\ Content' = Content
<1> USE DEF Update, GoTo, names, StoreInv
<1>1. Content' = Content
    BY DEF Content
<1>2. updates' \in Updates /\ updates' \in 0..MaxUpdates
    BY StoreAssumption DEF TypeOK, Updates
<1>3. TypeOK'
    BY <1>2 DEF TypeOK
<1>4. \A q \in Procs : pc'[q] = IF q = p THEN "open" ELSE pc[q]
    BY DEF TypeOK
<1>5. \A q \in Procs : mem'[q] = IF q = p THEN mem[p] \union {updates'} ELSE mem[q]
    BY DEF TypeOK
<1>6. Alone' /\ WritesTmp' /\ TmpIsWritten'
    BY <1>4, <1>5 DEF Alone, WritesTmp, TmpIsWritten
<1>7. MemoryHasFile'
    BY <1>1, <1>4, <1>5 DEF MemoryHasFile
<1>8. FileAlwaysLoads' /\ ReportedIsSaved'
    BY <1>1 DEF FileAlwaysLoads, ReportedIsSaved
<1> QED BY <1>1, <1>3, <1>6, <1>7, <1>8

(***************************************************************************)
(* Open truncates the temporary file, which is not the file.               *)
(***************************************************************************)
LEMMA OpenStore ==
    ASSUME StoreInv, NEW p \in Procs, Open(p)
    PROVE  StoreInv' /\ Content' = Content
<1> USE DEF Open, GoTo, StoreInv
<1>1. PICK i \in IF tmp = NoInode THEN Free ELSE {tmp} :
            /\ tmp' = i
            /\ fd' = [fd EXCEPT ![p] = i]
            /\ data' = [data EXCEPT ![i] = Empty]
    OBVIOUS
<1>2. i \in Inodes /\ i # chainJson /\ i # NoInode
    BY StoreAssumption DEF Free, TypeOK
<1>3. Content' = Content
    BY <1>1, <1>2 DEF Content, TypeOK
<1>4. \A q \in Procs : pc'[q] = IF q = p THEN "write" ELSE pc[q]
    BY DEF TypeOK
<1>5. \A q \in Procs : fd'[q] = IF q = p THEN i ELSE fd[q]
    BY <1>1 DEF TypeOK
<1>6. TypeOK'
  <2>1. data' \in [Inodes -> Contents]
      BY <1>1, ContentsFacts DEF TypeOK
  <2> QED BY <1>1, <1>2, <1>4, <1>5, <2>1 DEF TypeOK
<1>7. \A q \in Procs : q # p => pc'[q] = "down"
    BY <1>4 DEF Alone
<1>8. Alone' /\ WritesTmp' /\ TmpIsWritten'
    BY <1>1, <1>2, <1>4, <1>5, <1>7 DEF Alone, WritesTmp, TmpIsWritten, TypeOK
<1>9. MemoryHasFile' /\ FileAlwaysLoads' /\ ReportedIsSaved'
    BY <1>3, <1>4 DEF MemoryHasFile, FileAlwaysLoads, ReportedIsSaved
<1> QED BY <1>3, <1>6, <1>8, <1>9

(***************************************************************************)
(* Write fills the temporary file, which is not the file.                  *)
(***************************************************************************)
LEMMA WriteStore ==
    ASSUME StoreInv, NEW p \in Procs, Write(p)
    PROVE  StoreInv' /\ Content' = Content
<1> USE DEF Write, GoTo, names, StoreInv
<1>1. fd[p] = tmp /\ tmp \in Inodes /\ tmp # NoInode /\ tmp # chainJson
    BY StoreAssumption DEF WritesTmp, TypeOK
<1>2. \A q \in Procs : q # p => pc[q] = "down"
    BY DEF Alone
<1>3. data' = [data EXCEPT ![tmp] = Whole(mem[p])]
    BY <1>1 DEF WritesTmp
<1>4. Whole(mem[p]) \in Contents
    BY ContentsFacts DEF TypeOK
<1>5. Content' = Content
    BY <1>1, <1>3 DEF Content, TypeOK
<1>6. \A q \in Procs : /\ pc'[q] = IF q = p THEN "rename" ELSE pc[q]
                       /\ fd'[q] = IF q = p THEN NoInode ELSE fd[q]
    BY DEF TypeOK
<1>7. TypeOK'
  <2>1. data' \in [Inodes -> Contents]
      BY <1>3, <1>4 DEF TypeOK
  <2> QED BY <1>6, <2>1 DEF TypeOK
<1>8. Alone' /\ WritesTmp'
    BY <1>2, <1>6 DEF Alone, WritesTmp
<1>9. TmpIsWritten'
    BY <1>1, <1>2, <1>3, <1>6 DEF TmpIsWritten, TypeOK
<1>10. MemoryHasFile' /\ FileAlwaysLoads' /\ ReportedIsSaved'
    BY <1>5, <1>6 DEF MemoryHasFile, FileAlwaysLoads, ReportedIsSaved
<1> QED BY <1>5, <1>7, <1>8, <1>9, <1>10

(***************************************************************************)
(* Rename makes the written temporary file the file: a whole chain that    *)
(* has all that the old one had.                                           *)
(***************************************************************************)
LEMMA RenameStore ==
    ASSUME StoreInv, NEW p \in Procs, Rename(p)
    PROVE  StoreInv' /\ Content.has \subseteq Content'.has
<1> USE DEF Rename, GoTo, StoreInv
<1>1. data[tmp] = Whole(mem[p])
    BY DEF TmpIsWritten
<1>2. Content' = Whole(mem[p])
    BY <1>1 DEF Content
<1>3. mem[p] \in SUBSET Updates
    BY DEF TypeOK
<1>4. Content'.whole /\ Content'.has = mem[p]
    BY <1>2, <1>3, ContentsFacts
<1>5. Content.has \subseteq mem[p]
    BY DEF MemoryHasFile
<1>6. \A q \in Procs : q # p => pc[q] = "down"
    BY DEF Alone
<1>7. \A q \in Procs : pc'[q] = IF q = p THEN "ready" ELSE pc[q]
    BY DEF TypeOK
<1>8. TypeOK'
    BY <1>3, <1>7 DEF TypeOK
<1>9. Alone' /\ WritesTmp' /\ TmpIsWritten' /\ MemoryHasFile'
    BY <1>4, <1>6, <1>7 DEF Alone, WritesTmp, TmpIsWritten, MemoryHasFile
<1>10. FileAlwaysLoads' /\ ReportedIsSaved'
    BY <1>4, <1>5 DEF FileAlwaysLoads, ReportedIsSaved
<1> QED BY <1>4, <1>5, <1>8, <1>9, <1>10

(***************************************************************************)
(* A save that fails, and a crash, touch nothing but the temporary file.   *)
(***************************************************************************)
LEMMA TornTmp ==
    ASSUME StoreInv, NEW p \in Procs, pc[p] = "write",
           NEW d \in Contents, data' = [data EXCEPT ![fd[p]] = d],
           chainJson' = chainJson
    PROVE  data' \in [Inodes -> Contents] /\ Content' = Content
<1>1. fd[p] = tmp /\ tmp \in Inodes /\ tmp # chainJson
    BY StoreAssumption DEF StoreInv, WritesTmp, TypeOK
<1> QED BY <1>1 DEF StoreInv, TypeOK, Content

LEMMA SaveFailsStore ==
    ASSUME StoreInv, NEW p \in Procs, SaveFails(p)
    PROVE  StoreInv' /\ Content' = Content
<1> USE DEF SaveFails, GoTo, StoreInv
<1>1. data' \in [Inodes -> Contents] /\ Content' = Content
  <2>1. CASE pc[p] = "write"
      BY <2>1, TornTmp, ContentsFacts
  <2>2. CASE pc[p] # "write"
      BY <2>2 DEF TypeOK, Content
  <2> QED BY <2>1, <2>2
<1>2. tmp' \in {tmp, NoInode}
    OBVIOUS
<1>3. \A q \in Procs : q # p => pc[q] = "down"
    BY DEF Alone
<1>4. \A q \in Procs : /\ pc'[q] = IF q = p THEN "ready" ELSE pc[q]
                       /\ fd'[q] = IF q = p THEN NoInode ELSE fd[q]
    BY DEF TypeOK
<1>5. TypeOK'
    BY <1>1, <1>2, <1>4 DEF TypeOK
<1>6. Alone' /\ WritesTmp' /\ TmpIsWritten'
    BY <1>3, <1>4 DEF Alone, WritesTmp, TmpIsWritten
<1>7. MemoryHasFile' /\ FileAlwaysLoads' /\ ReportedIsSaved'
    BY <1>1, <1>4 DEF MemoryHasFile, FileAlwaysLoads, ReportedIsSaved
<1> QED BY <1>1, <1>5, <1>6, <1>7

LEMMA CrashStore ==
    ASSUME StoreInv, NEW p \in Procs, Crash(p)
    PROVE  StoreInv' /\ Content' = Content
<1> USE DEF Crash, GoTo, names, StoreInv
<1>1. data' \in [Inodes -> Contents] /\ Content' = Content
  <2>1. CASE pc[p] = "write"
    <3>1. PICK d \in {data[fd[p]], Torn} : data' = [data EXCEPT ![fd[p]] = d]
        BY <2>1
    <3>2. d \in Contents
        BY <2>1, ContentsFacts DEF TypeOK
    <3> QED BY <2>1, <3>1, <3>2, TornTmp
  <2>2. CASE pc[p] # "write"
      BY <2>2 DEF TypeOK, Content
  <2> QED BY <2>1, <2>2
<1>2. \A q \in Procs : pc'[q] = "down"
    BY DEF Alone, TypeOK
<1>3. \A q \in Procs : fd'[q] = NoInode
    BY DEF Alone, TypeOK
<1>4. TypeOK'
    BY <1>1, <1>2, <1>3 DEF TypeOK
<1>5. Alone' /\ WritesTmp' /\ TmpIsWritten' /\ MemoryHasFile'
    BY <1>2 DEF Alone, WritesTmp, TmpIsWritten, MemoryHasFile
<1>6. FileAlwaysLoads' /\ ReportedIsSaved'
    BY <1>1 DEF FileAlwaysLoads, ReportedIsSaved
<1> QED BY <1>1, <1>4, <1>5, <1>6

-----------------------------------------------------------------------------
(***************************************************************************)
(* The invariant is preserved by every step, and no step takes anything    *)
(* out of the file.                                                        *)
(***************************************************************************)
LEMMA StoreStep ==
    ASSUME Exclusive, StoreInv, [Next]_vars
    PROVE  StoreInv' /\ Content.has \subseteq Content'.has
<1> DEFINE Goal == StoreInv' /\ Content.has \subseteq Content'.has
<1>1. CASE UNCHANGED vars
    BY <1>1 DEF vars, names, StoreInv, TypeOK, FileAlwaysLoads, Content,
                ReportedIsSaved, Alone, MemoryHasFile, WritesTmp, TmpIsWritten
<1>2. ASSUME NEW p \in Procs, Load(p) PROVE Goal
    BY <1>2, LoadStore
<1>3. ASSUME NEW p \in Procs, Update(p) PROVE Goal
    BY <1>3, UpdateStore
<1>4. ASSUME NEW p \in Procs, Open(p) PROVE Goal
    BY <1>4, OpenStore
<1>5. ASSUME NEW p \in Procs, Write(p) PROVE Goal
    BY <1>5, WriteStore
<1>6. ASSUME NEW p \in Procs, Rename(p) PROVE Goal
    BY <1>6, RenameStore
<1>7. ASSUME NEW p \in Procs, SaveFails(p) PROVE Goal
    BY <1>7, SaveFailsStore
<1>8. ASSUME NEW p \in Procs, Crash(p) PROVE Goal
    BY <1>8, CrashStore
<1> QED BY <1>1, <1>2, <1>3, <1>4, <1>5, <1>6, <1>7, <1>8 DEF Next

(***************************************************************************)
(* The invariant holds of every state of a store with one user at a time.  *)
(***************************************************************************)
THEOREM StoreInvariance == ASSUME Exclusive PROVE Spec => []StoreInv
<1>1. Init => StoreInv
    BY InitStore
<1>2. StoreInv /\ [Next]_vars => StoreInv'
    BY StoreStep
<1> QED BY <1>1, <1>2, PTL DEF Spec

(***************************************************************************)
(* Save is atomic: wherever a process dies or fails, the next one can load *)
(* the file.  Code: Store.Save, "a crash mid-write leaves the previous     *)
(* chain intact".                                                          *)
(***************************************************************************)
THEOREM SaveIsAtomic == ASSUME Exclusive PROVE Spec => []FileAlwaysLoads
<1>1. StoreInv => FileAlwaysLoads
    BY DEF StoreInv
<1> QED BY <1>1, StoreInvariance, PTL

(***************************************************************************)
(* Save is durable: what it reported saved stays in the file.  Code:       *)
(* Store.Save returning nil, and every Save and Load after it.             *)
(***************************************************************************)
THEOREM SaveIsDurable == ASSUME Exclusive PROVE Spec => []ReportedIsSaved
<1>1. StoreInv => ReportedIsSaved
    BY DEF StoreInv
<1> QED BY <1>1, StoreInvariance, PTL

(***************************************************************************)
(* Histories only grow.  Code: Load before every change, Save after it.    *)
(***************************************************************************)
THEOREM SaveOnlyAdds == ASSUME Exclusive PROVE Spec => FileOnlyGrows
<1>1. StoreInv /\ [Next]_vars => [Content.has \subseteq Content'.has]_vars
    BY StoreStep
<1> QED BY <1>1, StoreInvariance, PTL DEF Spec, FileOnlyGrows
-----------------------------------------------------------------------------
(***************************************************************************)
(* Types are kept whoever else uses the file.                              *)
(***************************************************************************)
LEMMA TypesStep == ASSUME TypeOK, [Next]_vars PROVE TypeOK'
<1>1. CASE UNCHANGED vars
    BY <1>1 DEF vars, names, TypeOK
<1>2. ASSUME NEW p \in Procs, Load(p) PROVE TypeOK'
  <2>1. mem' \in [Procs -> SUBSET Updates]
      BY <1>2, ContentsFacts DEF Load, TypeOK
  <2> QED BY <1>2, <2>1 DEF Load, GoTo, names, TypeOK
<1>3. ASSUME NEW p \in Procs, Update(p) PROVE TypeOK'
  <2>1. updates' \in Updates /\ updates' \in 0..MaxUpdates
      BY <1>3, StoreAssumption DEF Update, TypeOK, Updates
  <2> QED BY <1>3, <2>1 DEF Update, GoTo, names, TypeOK
<1>4. ASSUME NEW p \in Procs, Open(p) PROVE TypeOK'
  <2>1. PICK i \in IF tmp = NoInode THEN Free ELSE {tmp} :
              /\ tmp' = i
              /\ fd' = [fd EXCEPT ![p] = i]
              /\ data' = [data EXCEPT ![i] = Empty]
      BY <1>4 DEF Open
  <2>2. i \in Inodes /\ i # chainJson /\ i # NoInode
      BY StoreAssumption DEF Free, TypeOK
  <2>3. data' \in [Inodes -> Contents]
      BY <2>1, ContentsFacts DEF TypeOK
  <2> QED BY <1>4, <2>1, <2>2, <2>3 DEF Open, GoTo, TypeOK
<1>5. ASSUME NEW p \in Procs, Write(p) PROVE TypeOK'
  <2>1. data' \in [Inodes -> Contents]
      BY <1>5, ContentsFacts DEF Write, TypeOK
  <2> QED BY <1>5, <2>1 DEF Write, GoTo, names, TypeOK
<1>6. ASSUME NEW p \in Procs, Rename(p) PROVE TypeOK'
    BY <1>6 DEF Rename, GoTo, TypeOK
<1>7. ASSUME NEW p \in Procs, SaveFails(p) PROVE TypeOK'
  <2>1. data' \in [Inodes -> Contents]
      BY <1>7, ContentsFacts DEF SaveFails, TypeOK
  <2>2. tmp' \in {tmp, NoInode}
      BY <1>7 DEF SaveFails
  <2> QED BY <1>7, <2>1, <2>2 DEF SaveFails, GoTo, TypeOK
<1>8. ASSUME NEW p \in Procs, Crash(p) PROVE TypeOK'
  <2>1. data' \in [Inodes -> Contents]
      BY <1>8, ContentsFacts DEF Crash, TypeOK
  <2> QED BY <1>8, <2>1 DEF Crash, GoTo, names, TypeOK
<1> QED BY <1>1, <1>2, <1>3, <1>4, <1>5, <1>6, <1>7, <1>8 DEF Next

(***************************************************************************)
(* Types hold for any number of processes at once, those that collide in   *)
(* the temporary file included: its name never becomes that of the chain   *)
(* file, and a file is open only where one is being written.  Code:        *)
(* Store.Load, Store.Save.                                                 *)
(***************************************************************************)
THEOREM StoreTypes == Spec => []TypeOK
<1>1. Init => TypeOK
    BY InitStore DEF StoreInv
<1>2. TypeOK /\ [Next]_vars => TypeOK'
    BY TypesStep
<1> QED BY <1>1, <1>2, PTL DEF Spec
=============================================================================
