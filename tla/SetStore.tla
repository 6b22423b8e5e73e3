------------------------------- MODULE SetStore -------------------------------
(***************************************************************************)
(* The immutable half of a session directory: write_set and write_round of *)
(* crates/mosura-api/src/session/mod.rs over write_set_dir of              *)
(* session/store.rs, run by processes that share the directory.  A name is *)
(* a set's key or a round's name.  A set's content is a function of its    *)
(* key; a round's content is its writer's, so a directory remembers who    *)
(* wrote it.  Processes die at any step, and the machine may lose power:   *)
(* what was not synced may then be lost.  That goes for the entries of the *)
(* session directory too: rounds/ and the directories of the sets are      *)
(* synced themselves, and their own entries only when some file is         *)
(* written into the session directory.                                     *)
(***************************************************************************)
EXTENDS Naturals, FiniteSets

CONSTANTS
    Proc,
    SetNames,       \* keys of program and function sets
    RoundNames,     \* names of rounds
    Tables,         \* the tables and blobs of every set
    Manifest,       \* manifest.tbl
    NoDir,
    NoProc,
    MaxFaults       \* bound: crashes, power losses and I/O errors together

Names == SetNames \cup RoundNames
Files == Tables \cup {Manifest}

(* Entries of the session directory: program/ and functions/, which are made *)
(* together, rounds/, and the session's own manifest.tbl.                    *)
Entries == {"sets", "rounds", "manifest"}

Parent(n) == IF n \in SetNames THEN "sets" ELSE "rounds"

(* A directory: the files in it, those fsynced, whether the directory       *)
(* itself was fsynced, its writer, and whether the rename that published it *)
(* has reached the disk (sync_dir of the parent).                           *)
Dir == [files : SUBSET Files, synced : SUBSET Files, dirSynced : BOOLEAN,
        by : Proc, linked : BOOLEAN]

ASSUME StoreAssumption ==
    /\ Names # {}
    /\ SetNames \cap RoundNames = {}
    /\ Manifest \notin Tables
    /\ NoDir \notin Dir
    /\ NoProc \notin Proc
    /\ MaxFaults \in Nat

VARIABLES
    final,          \* final[n]: the directory <parent>/n, or NoDir
    tmp,            \* tmp[p]: the directory n.tmp-<pid>-<seq> p is filling
    orphans,        \* temp directories left behind, with the name they were for
    lock,           \* the session lock (SessionLock), here an ideal one
    pc, job,        \* where each process is, and the name it is storing
    result,         \* what the last call of each process returned
    up,             \* the processes that run
    faults,
    acked,          \* history: names there whose publisher returned Ok
    session,        \* the entries of the session directory
    anchored        \* those that have reached the disk

layout == <<session, anchored>>

vars == <<final, tmp, orphans, lock, pc, job, result, up, faults, acked, layout>>

(* Outside a session, inside open, and inside a call. *)
Opening == {"closed", "manifest", "newmanifest", "syncsession"}

Points == Opening \cup
          {"idle", "lock", "check", "write", "sync", "syncdir", "rename", "syncparent"}

TypeOK ==
    /\ final \in [Names -> Dir \cup {NoDir}]
    /\ tmp \in [Proc -> Dir \cup {NoDir}]
    /\ orphans \subseteq [name : Names, files : SUBSET Files]
    /\ lock \in Proc \cup {NoProc}
    /\ pc \in [Proc -> Points]
    /\ job \in [Proc -> Names]
    /\ result \in [Proc -> {"none", "ok", "exists", "error"}]
    /\ up \subseteq Proc
    /\ faults \in 0..MaxFaults
    /\ acked \subseteq Names
    /\ session \subseteq Entries
    /\ anchored \subseteq session
    /\ \A p \in up : tmp[p] # NoDir <=> pc[p] \in {"write", "sync", "syncdir", "rename"}

Init ==
    /\ final = [n \in Names |-> NoDir]
    /\ tmp = [p \in Proc |-> NoDir]
    /\ orphans = {}
    /\ lock = NoProc
    /\ pc = [p \in Proc |-> "closed"]
    /\ job \in [Proc -> {CHOOSE n \in Names : TRUE}]
    /\ result = [p \in Proc |-> "none"]
    /\ up = Proc
    /\ faults = 0
    /\ acked = {}
    /\ session = {}
    /\ anchored = {}

At(p, l) == p \in up /\ pc[p] = l

Goto(p, l) == pc' = [pc EXCEPT ![p] = l]

(* A call returns: the lock guard, if it was taken, is dropped. *)
Finish(p, res) ==
    /\ Goto(p, "idle")
    /\ result' = [result EXCEPT ![p] = res]
    /\ lock' = IF lock = p THEN NoProc ELSE lock

Orphan(p) == [name |-> job[p], files |-> tmp[p].files]

(* remove_dir_all on the temp directory; its own failure is ignored. *)
DiscardTmp(p) ==
    /\ tmp' = [tmp EXCEPT ![p] = NoDir]
    /\ orphans' \in {orphans, orphans \cup {Orphan(p)}}

-----------------------------------------------------------------------------
(* Session::open *)

store == <<final, tmp, orphans, lock, job, result, up, acked>>

OpenDirs(p) ==
    /\ At(p, "closed")
    /\ session' = session \cup {"sets"}
    /\ Goto(p, "manifest")
    /\ UNCHANGED <<store, faults, anchored>>

(* An existing session is opened without a sync. *)
LookForManifest(p) ==
    /\ At(p, "manifest")
    /\ Goto(p, IF "manifest" \in session THEN "idle" ELSE "newmanifest")
    /\ UNCHANGED <<store, faults, layout>>

(* write_file_atomic of manifest.tbl, up to its rename. *)
WriteManifest(p) ==
    /\ At(p, "newmanifest")
    /\ session' = session \cup {"manifest"}
    /\ Goto(p, "syncsession")
    /\ UNCHANGED <<store, faults, anchored>>

SyncSession(p) ==
    /\ At(p, "syncsession")
    /\ anchored' = session
    /\ Goto(p, "idle")
    /\ UNCHANGED <<store, faults, session>>

OpenFails(p) ==
    /\ p \in up /\ pc[p] \in Opening
    /\ faults < MaxFaults
    /\ faults' = faults + 1
    /\ Goto(p, "closed")
    /\ UNCHANGED <<store, layout>>

(* add_input and config_set end with write_file_atomic in the session       *)
(* directory (SessionPointers), which syncs all its entries.                *)
SavePointers(p) ==
    /\ At(p, "idle")
    /\ anchored' = session
    /\ UNCHANGED <<store, pc, faults, session>>

-----------------------------------------------------------------------------
(* write_set and write_round *)

Start(p, n, l) ==
    /\ At(p, "idle")
    /\ job' = [job EXCEPT ![p] = n]
    /\ result' = [result EXCEPT ![p] = "none"]
    /\ Goto(p, l)
    /\ UNCHANGED <<final, tmp, orphans, lock, up, faults, acked, anchored>>

WriteSet(p, n) == n \in SetNames /\ Start(p, n, "check") /\ UNCHANGED session

(* create_dir_all of rounds/, which nobody syncs; the existence check       *)
(* precedes the lock.                                                       *)
WriteRound(p, n) ==
    /\ n \in RoundNames
    /\ session' = session \cup {"rounds"}
    /\ final[n] = NoDir
    /\ Start(p, n, "lock")

(* A call that ends before it takes the lock. *)
Refuse(p, n, res) ==
    /\ n \in RoundNames
    /\ At(p, "idle")
    /\ job' = [job EXCEPT ![p] = n]
    /\ result' = [result EXCEPT ![p] = res]
    /\ UNCHANGED <<final, tmp, orphans, lock, pc, up, acked, anchored>>

RefuseRound(p, n) ==
    /\ session' = session \cup {"rounds"}
    /\ final[n] # NoDir
    /\ Refuse(p, n, "exists")
    /\ UNCHANGED faults

RoundsDirFails(p, n) ==
    /\ faults < MaxFaults
    /\ faults' = faults + 1
    /\ Refuse(p, n, "error")
    /\ UNCHANGED session

Acquire(p) ==
    /\ At(p, "lock")
    /\ lock \notin up
    /\ lock' = p
    /\ Goto(p, "check")
    /\ UNCHANGED <<final, tmp, orphans, job, result, up, faults, acked, layout>>

LockTimeout(p) ==
    /\ At(p, "lock")
    /\ lock \in up
    /\ Finish(p, "error")
    /\ UNCHANGED <<final, tmp, orphans, job, up, faults, acked, layout>>

-----------------------------------------------------------------------------
(* write_set_dir *)

AlreadyThere(p) ==
    /\ At(p, "check")
    /\ final[job[p]] # NoDir
    /\ Finish(p, "ok")
    /\ UNCHANGED <<final, tmp, orphans, job, up, faults, acked, layout>>

CreateTmp(p) ==
    /\ At(p, "check")
    /\ final[job[p]] = NoDir
    /\ tmp' = [tmp EXCEPT ![p] = [files |-> {}, synced |-> {}, dirSynced |-> FALSE,
                                  by |-> p, linked |-> FALSE]]
    /\ Goto(p, "write")
    /\ UNCHANGED <<final, orphans, lock, job, result, up, faults, acked, layout>>

(* write_synced: create and write, then fsync; the manifest comes last. *)
WriteFile(p, f) ==
    /\ At(p, "write")
    /\ f \notin tmp[p].files
    /\ f = Manifest => Tables \subseteq tmp[p].files
    /\ tmp' = [tmp EXCEPT ![p].files = @ \cup {f}]
    /\ Goto(p, "sync")
    /\ UNCHANGED <<final, orphans, lock, job, result, up, faults, acked, layout>>

(* Mutation: File::create and write_all without sync_all. *)
NoSyncFile(p) ==
    /\ At(p, "sync")
    /\ Goto(p, IF tmp[p].files = Files THEN "syncdir" ELSE "write")
    /\ UNCHANGED <<final, tmp, orphans, lock, job, result, up, faults, acked, layout>>

SyncFile(p) ==
    /\ At(p, "sync")
    /\ tmp' = [tmp EXCEPT ![p].synced = tmp[p].files]
    /\ Goto(p, IF tmp[p].files = Files THEN "syncdir" ELSE "write")
    /\ UNCHANGED <<final, orphans, lock, job, result, up, faults, acked, layout>>

SyncTmpDir(p) ==
    /\ At(p, "syncdir")
    /\ tmp' = [tmp EXCEPT ![p].dirSynced = TRUE]
    /\ Goto(p, "rename")
    /\ UNCHANGED <<final, orphans, lock, job, result, up, faults, acked, layout>>

(* create_dir_all fails: nothing to remove. *)
CreateTmpFails(p) ==
    /\ At(p, "check")
    /\ final[job[p]] = NoDir
    /\ faults < MaxFaults
    /\ faults' = faults + 1
    /\ Finish(p, "error")
    /\ UNCHANGED <<final, tmp, orphans, job, up, acked, layout>>

(* Where write_set_dir may fail with a temp directory in place.  A rename   *)
(* that fails while the final directory is there is no error (RenameLost).  *)
MayFail(p) ==
    /\ p \in up
    /\ \/ pc[p] \in {"write", "sync", "syncdir"}
       \/ pc[p] = "rename" /\ final[job[p]] = NoDir

(* Mutation: the error is returned with `?`, the temp directory stays. *)
WriteFailsKeepsTmp(p) ==
    /\ MayFail(p)
    /\ faults < MaxFaults
    /\ faults' = faults + 1
    /\ Finish(p, "error")
    /\ UNCHANGED <<final, tmp, orphans, job, up, acked, layout>>

(* One of these calls fails; the temp directory is removed. *)
WriteFails(p) ==
    /\ MayFail(p)
    /\ faults < MaxFaults
    /\ faults' = faults + 1
    /\ DiscardTmp(p)
    /\ Finish(p, "error")
    /\ UNCHANGED <<final, job, up, acked, layout>>

(* Mutation: an existing directory is replaced. *)
RenameOver(p) ==
    /\ At(p, "rename")
    /\ final' = [final EXCEPT ![job[p]] = tmp[p]]
    /\ tmp' = [tmp EXCEPT ![p] = NoDir]
    /\ Goto(p, "syncparent")
    /\ UNCHANGED <<orphans, lock, job, result, up, faults, acked, layout>>

Rename(p) ==
    /\ At(p, "rename")
    /\ final[job[p]] = NoDir
    /\ final' = [final EXCEPT ![job[p]] = tmp[p]]
    /\ tmp' = [tmp EXCEPT ![p] = NoDir]
    /\ Goto(p, "syncparent")
    /\ UNCHANGED <<orphans, lock, job, result, up, faults, acked, layout>>

(* rename fails on an existing directory, which is success. *)
RenameLost(p) ==
    /\ At(p, "rename")
    /\ final[job[p]] # NoDir
    /\ DiscardTmp(p)
    /\ Finish(p, "ok")
    /\ UNCHANGED <<final, job, up, faults, acked, layout>>

(* Mutation: Ok without sync_dir(parent). *)
NoSyncParent(p) ==
    /\ At(p, "syncparent")
    /\ acked' = acked \cup {job[p]}
    /\ Finish(p, "ok")
    /\ UNCHANGED <<final, tmp, orphans, job, up, faults, layout>>

SyncParent(p) ==
    /\ At(p, "syncparent")
    /\ final' = [final EXCEPT ![job[p]].linked = TRUE]
    /\ acked' = acked \cup {job[p]}
    /\ Finish(p, "ok")
    /\ UNCHANGED <<tmp, orphans, job, up, faults, layout>>

(* The set is published, and the caller is told it failed. *)
SyncParentFails(p) ==
    /\ At(p, "syncparent")
    /\ faults < MaxFaults
    /\ faults' = faults + 1
    /\ Finish(p, "error")
    /\ UNCHANGED <<final, tmp, orphans, job, up, acked, layout>>

-----------------------------------------------------------------------------
(* Faults *)

(* A dead process leaves its temp directory; the lock is taken over. *)
Crash(p) ==
    /\ p \in up
    /\ faults < MaxFaults
    /\ faults' = faults + 1
    /\ up' = up \ {p}
    /\ orphans' = orphans \cup IF tmp[p] = NoDir THEN {} ELSE {Orphan(p)}
    /\ tmp' = [tmp EXCEPT ![p] = NoDir]
    /\ UNCHANGED <<final, lock, pc, job, result, acked, layout>>

(* The new process has a new pid: a lock the old one left is stale. *)
Restart(p) ==
    /\ p \notin up
    /\ up' = up \cup {p}
    /\ Goto(p, "closed")
    /\ result' = [result EXCEPT ![p] = "none"]
    /\ lock' = IF lock = p THEN NoProc ELSE lock
    /\ UNCHANGED <<final, tmp, orphans, job, faults, acked, layout>>

(* What may remain of a directory's files when the power fails. *)
Survivors(d) == {s \in SUBSET d.files : d.dirSynced => d.synced \subseteq s}

(* The temp directories after a power loss: those the processes were        *)
(* filling, and those whose rename is undone.                               *)
Leftovers(undone) ==
    orphans \cup {[name |-> n, files |-> final[n].files] : n \in undone}
            \cup {Orphan(p) : p \in {q \in Proc : tmp[q] # NoDir}}

(* Every process dies; a directory whose rename did not reach the disk may  *)
(* be back under its temp name; an entry of the session directory that did  *)
(* not reach the disk may be gone with all that is in it.                   *)
PowerLoss ==
    /\ faults < MaxFaults
    /\ faults' = faults + 1
    /\ up' = {}
    /\ tmp' = [p \in Proc |-> NoDir]
    /\ \E gone \in SUBSET (session \ anchored),
          undone \in SUBSET {n \in Names : final[n] # NoDir /\ ~final[n].linked} :
          /\ \E keep \in [Names -> SUBSET Files] :
                /\ \A n \in Names : final[n] # NoDir => keep[n] \in Survivors(final[n])
                /\ \A n \in Names : final[n] = NoDir => keep[n] = {}
                /\ final' = [n \in Names |->
                               IF final[n] = NoDir \/ n \in undone \/ Parent(n) \in gone THEN NoDir
                               ELSE [final[n] EXCEPT !.files = keep[n], !.linked = TRUE]]
          /\ orphans' = {o \in Leftovers(undone) : Parent(o.name) \notin gone}
          /\ session' = session \ gone
    /\ anchored' = session'
    /\ acked' = {n \in acked : final'[n] # NoDir}
    /\ UNCHANGED <<lock, pc, job, result>>

Open(p) ==
    \/ OpenDirs(p) \/ LookForManifest(p) \/ WriteManifest(p) \/ SyncSession(p)
    \/ OpenFails(p) \/ SavePointers(p)

Work(p) ==
    \/ \E n \in Names : WriteSet(p, n) \/ WriteRound(p, n) \/ RefuseRound(p, n) \/ RoundsDirFails(p, n)
    \/ Acquire(p) \/ LockTimeout(p)
    \/ AlreadyThere(p) \/ CreateTmp(p) \/ CreateTmpFails(p) \/ \E f \in Files : WriteFile(p, f)
    \/ SyncFile(p) \/ SyncTmpDir(p) \/ WriteFails(p)
    \/ Rename(p) \/ RenameLost(p) \/ SyncParent(p) \/ SyncParentFails(p)

Next == (\E p \in Proc : Open(p) \/ Work(p) \/ Crash(p) \/ Restart(p)) \/ PowerLoss

Spec == Init /\ [][Next]_vars

-----------------------------------------------------------------------------
(* Properties. *)

(* Readers never see a partial set: a directory under its final name holds  *)
(* every table and the manifest, also after a power loss.                   *)
PublishedComplete ==
    \A n \in Names : final[n] # NoDir => final[n].files = Files

(* Once the process that published a set or a round was told Ok, nothing    *)
(* takes it away, except a power loss that takes its parent directory,      *)
(* whose own entry in the session directory had not reached the disk.       *)
AckedDurable ==
    [][\A n \in acked : final'[n] = NoDir => Parent(n) \notin anchored /\ Parent(n) \notin session']_vars

S == INSTANCE ImmutableStore
     WITH Contents <- [by : Proc, files : {Files}],
          stored <- [n \in Names |-> IF final[n] = NoDir THEN {}
                                      ELSE {[by |-> final[n].by, files |-> final[n].files]}],
          safe <- {n \in Names : final[n] # NoDir /\ final[n].linked /\ Parent(n) \in anchored}

(* Seen through its final names the store is one of immutable contents: a   *)
(* name gets a complete directory at once, nobody replaces or changes it,   *)
(* and only a rename, or a parent directory, that had not reached the disk  *)
(* can be undone.                                                           *)
ImplementsStore == S!SSpec

(* An acknowledged name stays without any proviso.  Does not hold: rounds/  *)
(* is created by the first write_round and its entry is not synced.         *)
AckedKept == [][\A n \in acked : final'[n] # NoDir]_vars

(* write_round: an Ok means the caller's round is the one stored. *)
OkRoundIsMine ==
    [][\A p \in Proc :
          result[p] # "ok" /\ result'[p] = "ok" /\ job[p] \in RoundNames =>
              final'[job[p]].by = p]_vars
===============================================================================
