-------------------------------- MODULE Store -------------------------------
(***************************************************************************)
(* internal/store: Save and Load of the chain file, one system call at a   *)
(* time, by processes that may crash between any two of them.  A process   *)
(* here is a tbc command (or server): it loads the file, changes what it   *)
(* has in memory, and saves it.                                            *)
(*                                                                         *)
(* The file system is the part of it that Save relies on (external): a     *)
(* name stands for an inode, opening a file that exists truncates that     *)
(* inode, a rename moves a name and leaves open files where they are.      *)
(*                                                                         *)
(* What is stored is abstracted to the set of updates it contains: a saved *)
(* chain is a history, and an update is a block or a pending transaction.  *)
(***************************************************************************)
EXTENDS Naturals, FiniteSets

CONSTANTS
    Procs,         \* processes that use the data file
    Exclusive,     \* whether one runs only when no other does
    Inodes,        \* inode numbers
    NoInode,       \* a name that stands for no file
    MaxUpdates     \* bound: updates made

ASSUME StoreAssumption ==
    /\ Exclusive \in BOOLEAN
    /\ NoInode \notin Inodes
    /\ IsFiniteSet(Inodes) /\ IsFiniteSet(Procs)
    /\ Cardinality(Inodes) >= Cardinality(Procs) + 2
    /\ MaxUpdates \in Nat

VARIABLES
    chainJson,   \* the inode of chain.json
    tmp,         \* the inode of chain.json.tmp
    data,        \* what is in each inode
    pc,          \* per process: where it is
    mem,         \* per process: the updates its chain contains
    fd,          \* per process: the inode it has open for writing
    updates,     \* how many updates were made
    reported     \* the updates that a Save without an error reported saved

names == <<chainJson, tmp>>
vars == <<names, data, pc, mem, fd, updates, reported>>

Updates == 1..MaxUpdates

(***************************************************************************)
(* A file holds nothing, garbage (part of a chain, or parts of two), or a  *)
(* chain.  Only the last unmarshals.                                       *)
(***************************************************************************)
Empty == [whole |-> FALSE, has |-> {}]
Torn == [whole |-> FALSE, has |-> Updates]
Whole(s) == [whole |-> TRUE, has |-> s]

Contents == {Empty, Torn} \union {Whole(s) : s \in SUBSET Updates}

-----------------------------------------------------------------------------
Init ==
    /\ chainJson = NoInode
    /\ tmp = NoInode
    /\ data = [i \in Inodes |-> Empty]
    /\ pc = [p \in Procs |-> "down"]
    /\ mem = [p \in Procs |-> {}]
    /\ fd = [p \in Procs |-> NoInode]
    /\ updates = 0
    /\ reported = {}

GoTo(p, label) == pc' = [pc EXCEPT ![p] = label]

\* Mutant (the file is taken for missing).
LoadNothing(p) ==
    /\ pc[p] = "down"
    /\ Exclusive => \A q \in Procs : pc[q] = "down"
    /\ mem' = [mem EXCEPT ![p] = {}]
    /\ GoTo(p, "ready")
    /\ UNCHANGED <<names, data, fd, updates, reported>>

(***************************************************************************)
(* Load: no file means a first run; a file that does not unmarshal is an   *)
(* error, and the process ends there, which is not an action.              *)
(***************************************************************************)
Load(p) ==
    /\ pc[p] = "down"
    /\ Exclusive => \A q \in Procs : pc[q] = "down"
    /\ IF chainJson = NoInode
       THEN mem' = [mem EXCEPT ![p] = {}]
       ELSE /\ data[chainJson].whole
            /\ mem' = [mem EXCEPT ![p] = data[chainJson].has]
    /\ GoTo(p, "ready")
    /\ UNCHANGED <<names, data, fd, updates, reported>>

(***************************************************************************)
(* The caller changes the chain and calls Save.                            *)
(***************************************************************************)
Update(p) ==
    /\ pc[p] = "ready"
    /\ updates < MaxUpdates
    /\ updates' = updates + 1
    /\ mem' = [mem EXCEPT ![p] = @ \union {updates'}]
    /\ GoTo(p, "open")
    /\ UNCHANGED <<names, data, fd, reported>>

(***************************************************************************)
(* The inodes that no name and no open file refers to.                     *)
(***************************************************************************)
Free == Inodes \ ({chainJson, tmp} \union {fd[p] : p \in Procs})

\* Mutant (the target itself is opened).
OpenTarget(p) ==
    /\ pc[p] = "open"
    /\ \E i \in IF chainJson = NoInode THEN Free ELSE {chainJson} :
          /\ chainJson' = i
          /\ fd' = [fd EXCEPT ![p] = i]
          /\ data' = [data EXCEPT ![i] = Empty]
    /\ GoTo(p, "write")
    /\ UNCHANGED <<tmp, mem, updates, reported>>

(***************************************************************************)
(* os.WriteFile, first half: open the temporary file, creating or          *)
(* truncating it.                                                          *)
(***************************************************************************)
Open(p) ==
    /\ pc[p] = "open"
    /\ \E i \in IF tmp = NoInode THEN Free ELSE {tmp} :
          /\ tmp' = i
          /\ fd' = [fd EXCEPT ![p] = i]
          /\ data' = [data EXCEPT ![i] = Empty]
    /\ GoTo(p, "write")
    /\ UNCHANGED <<chainJson, mem, updates, reported>>

(***************************************************************************)
(* Second half: write the chain from offset 0.  Where somebody else has    *)
(* written since the file was truncated, the tail of theirs may stay.      *)
(***************************************************************************)
Write(p) ==
    /\ pc[p] = "write"
    /\ \E d \in {Whole(mem[p])} \union
                (IF data[fd[p]] = Empty THEN {} ELSE {Torn}) :
          data' = [data EXCEPT ![fd[p]] = d]
    /\ fd' = [fd EXCEPT ![p] = NoInode]
    /\ GoTo(p, "rename")
    /\ UNCHANGED <<names, mem, updates, reported>>

\* Mutants (the temporary name stays; a failed rename is not noticed).
RenameLinks(p) ==
    /\ pc[p] = "rename"
    /\ tmp # NoInode
    /\ chainJson' = tmp
    /\ reported' = reported \union mem[p]
    /\ GoTo(p, "ready")
    /\ UNCHANGED <<tmp, data, mem, fd, updates>>

RenameUnchecked(p) ==
    /\ pc[p] = "rename"
    /\ tmp # NoInode
    /\ chainJson' \in {chainJson, tmp}
    /\ tmp' = NoInode
    /\ reported' = reported \union mem[p]
    /\ GoTo(p, "ready")
    /\ UNCHANGED <<data, mem, fd, updates>>

(***************************************************************************)
(* os.Rename moves the temporary name over the target, and Save returns    *)
(* nil; with no temporary file it fails like any other system call.        *)
(***************************************************************************)
Rename(p) ==
    /\ pc[p] = "rename"
    /\ tmp # NoInode
    /\ chainJson' = tmp
    /\ tmp' = NoInode
    /\ reported' = reported \union mem[p]
    /\ GoTo(p, "ready")
    /\ UNCHANGED <<data, mem, fd, updates>>

(***************************************************************************)
(* Save returns an error: nothing was opened, part of the chain was        *)
(* written, or the rename failed and the temporary file is removed if that *)
(* is possible.  The server goes on with what it has in memory, a command  *)
(* ends (Crash).                                                           *)
(***************************************************************************)
SaveFails(p) ==
    /\ \/ pc[p] = "open" /\ UNCHANGED <<tmp, data>>
       \/ /\ pc[p] = "write"
          /\ data' = [data EXCEPT ![fd[p]] = Torn]
          /\ UNCHANGED tmp
       \/ /\ pc[p] = "rename"
          /\ tmp' \in {tmp, NoInode}
          /\ UNCHANGED data
    /\ fd' = [fd EXCEPT ![p] = NoInode]
    /\ GoTo(p, "ready")
    /\ UNCHANGED <<chainJson, mem, updates, reported>>

(***************************************************************************)
(* The process ends, wherever it is.  A write it was in may be half done.  *)
(***************************************************************************)
Crash(p) ==
    /\ pc[p] # "down"
    /\ IF pc[p] = "write"
       THEN \E d \in {data[fd[p]], Torn} : data' = [data EXCEPT ![fd[p]] = d]
       ELSE UNCHANGED data
    /\ fd' = [fd EXCEPT ![p] = NoInode]
    /\ mem' = [mem EXCEPT ![p] = {}]
    /\ GoTo(p, "down")
    /\ UNCHANGED <<names, updates, reported>>

Next ==
    \E p \in Procs :
        \/ Load(p) \/ Update(p)
        \/ Open(p) \/ Write(p) \/ Rename(p) \/ SaveFails(p)
        \/ Crash(p)

Spec == Init /\ [][Next]_vars

-----------------------------------------------------------------------------
Content == IF chainJson = NoInode THEN Whole({}) ELSE data[chainJson]

(***************************************************************************)
(* Type correctness.  No two names share an inode.                         *)
(***************************************************************************)
TypeOK ==
    /\ chainJson \in Inodes \union {NoInode}
    /\ tmp \in Inodes \union {NoInode}
    /\ chainJson = tmp => chainJson = NoInode
    /\ data \in [Inodes -> Contents]
    /\ pc \in [Procs -> {"down", "ready", "open", "write", "rename"}]
    /\ mem \in [Procs -> SUBSET Updates]
    /\ fd \in [Procs -> Inodes \union {NoInode}]
    /\ \A p \in Procs : fd[p] # NoInode <=> pc[p] = "write"
    /\ updates \in 0..MaxUpdates
    /\ reported \in SUBSET Updates

(***************************************************************************)
(* "A crash mid-write leaves the previous chain intact rather than a       *)
(* half-written file that would fail to load" (Save): at no moment would a *)
(* process that starts be refused the file.                                *)
(***************************************************************************)
FileAlwaysLoads == Content.whole

(***************************************************************************)
(* What a Save without an error reported saved is in the file, now and     *)
(* after any crash, failed save or left-over temporary file.               *)
(***************************************************************************)
ReportedIsSaved == reported \subseteq Content.has

(***************************************************************************)
(* No step takes anything out of the file: histories only grow.            *)
(***************************************************************************)
FileOnlyGrows == [][Content.has \subseteq Content'.has]_vars
=============================================================================
