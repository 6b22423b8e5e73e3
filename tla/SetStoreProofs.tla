---------------------------- MODULE SetStoreProofs ----------------------------
(***************************************************************************)
(* Proofs about SetStore, for any number of processes, sets, rounds,       *)
(* tables, crashes, power losses and I/O errors.  What makes a published   *)
(* directory complete after a power loss is the order of write_set_dir:    *)
(* every file is synced, then the directory, then comes the rename.  So a  *)
(* directory that is about to be renamed, and every one under a final      *)
(* name, has all its files on the disk.                                    *)
(***************************************************************************)
EXTENDS SetStore, TLAPS

(* A dead process has no temp directory of its own any more. *)
DeadHaveNone == \A p \in Proc \ up : tmp[p] = NoDir

TInv == TypeOK /\ DeadHaveNone

(* What the temp directory of a live process holds at each point. *)
TmpOnDisk ==
    \A p \in up :
        /\ pc[p] \in {"syncdir", "rename"} => tmp[p].files = Files /\ tmp[p].synced = Files
        /\ pc[p] = "rename" => tmp[p].dirSynced
        /\ tmp[p] # NoDir => ~tmp[p].linked

(* A published directory is complete, and all of it is on the disk. *)
PublishedOnDisk ==
    \A n \in Names : final[n] # NoDir =>
        final[n].files = Files /\ final[n].synced = Files /\ final[n].dirSynced

(* Between the rename and sync_dir of the parent the directory is there:    *)
(* only a power loss takes it away, and its writer with it.                 *)
PublishedAtSync == \A p \in up : pc[p] = "syncparent" => final[job[p]] # NoDir

(* What was acknowledged is under its final name, on the disk as far as the *)
(* parent directory is.                                                     *)
AckedLinked == \A n \in acked : final[n] # NoDir /\ final[n].linked

(* Nothing is published, or about to be, in a directory that is not there. *)
Housed ==
    /\ \A n \in Names : final[n] # NoDir => Parent(n) \in session
    /\ \A p \in up :
          /\ pc[p] # "closed" => "sets" \in session
          /\ pc[p] \notin Opening \cup {"idle"} => Parent(job[p]) \in session

IInv == TInv /\ TmpOnDisk /\ PublishedOnDisk /\ PublishedAtSync /\ AckedLinked /\ Housed

-----------------------------------------------------------------------------
(* NoDir is not a directory. *)
LEMMA NoDirIsNone == NoDir \notin Dir
BY StoreAssumption

(* open, and a write of the session's tables, leave the store alone. *)
LEMMA OpenFrame ==
    ASSUME NEW p \in Proc, Open(p)
    PROVE  /\ UNCHANGED store
           /\ p \in up /\ pc[p] \in Opening \cup {"idle"}
           /\ \E l \in Opening \cup {"idle"} : pc' = [pc EXCEPT ![p] = l]
                                           \/ pc' = pc
           /\ faults' = faults \/ (faults < MaxFaults /\ faults' = faults + 1)
BY DEF Open, OpenDirs, LookForManifest, WriteManifest, SyncSession, OpenFails, SavePointers,
       At, Goto, Opening

(* They add entries to the session directory, and put entries on the disk. *)
LEMMA OpenLayout ==
    ASSUME TypeOK, NEW p \in Proc, Open(p)
    PROVE  /\ session \subseteq session' /\ session' \subseteq Entries
           /\ anchored \subseteq anchored' /\ anchored' \subseteq session'
           /\ pc[p] = "closed" /\ pc'[p] # "closed" => "sets" \in session'
BY DEF Open, OpenDirs, LookForManifest, WriteManifest, SyncSession, OpenFails, SavePointers,
       At, Goto, Opening, layout, TypeOK, Entries, Points

(* The same files, at the same stage, by the same writer. *)
Same(d, e) == d.files = e.files /\ d.synced = e.synced /\ d.dirSynced = e.dirSynced /\ d.by = e.by

(* The rename reaching the disk changes nothing in the directory. *)
LEMMA Link ==
    ASSUME NEW d \in Dir
    PROVE  LET e == [d EXCEPT !.linked = TRUE] IN e \in Dir /\ Same(d, e) /\ e.linked
BY DEF Dir, Same

(* sync_dir on the temp directory. *)
LEMMA DirSync ==
    ASSUME NEW d \in Dir
    PROVE  LET e == [d EXCEPT !.dirSynced = TRUE]
           IN  /\ e \in Dir /\ e.dirSynced /\ e.files = d.files /\ e.synced = d.synced
               /\ e.linked = d.linked
BY DEF Dir

(* A power loss changes which files are left in a directory. *)
LEMMA Survive ==
    ASSUME NEW d \in Dir, NEW k \in SUBSET Files
    PROVE  LET e == [d EXCEPT !.files = k, !.linked = TRUE]
           IN  /\ e \in Dir /\ e.linked /\ e.files = k
               /\ e.synced = d.synced /\ e.dirSynced = d.dirSynced /\ e.by = d.by
BY DEF Dir

(* The empty temp directory is one. *)
LEMMA Fresh ==
    ASSUME NEW p \in Proc
    PROVE  [files |-> {}, synced |-> {}, dirSynced |-> FALSE, by |-> p, linked |-> FALSE] \in Dir
BY DEF Dir

(* sync_dir of the parent touches the directory just published and no other. *)
LEMMA SyncParentEffect ==
    ASSUME TInv, PublishedAtSync, NEW p \in Proc, SyncParent(p)
    PROVE  /\ final' \in [Names -> Dir \cup {NoDir}]
           /\ job[p] \in Names
           /\ final'[job[p]] # NoDir /\ final[job[p]] # NoDir
           /\ Same(final[job[p]], final'[job[p]]) /\ final'[job[p]].linked
           /\ \A n \in Names \ {job[p]} : final'[n] = final[n]
<1> DEFINE n == job[p]
           e == [final[n] EXCEPT !.linked = TRUE]
<1>1. n \in Names /\ final[n] \in Dir
  BY DEF TInv, TypeOK, PublishedAtSync, SyncParent, At
<1>2. e \in Dir /\ Same(final[n], e) /\ e.linked
  BY <1>1, Link, Zenon
<1>3. final' = [final EXCEPT ![n] = e]
  BY DEF SyncParent
<1>4. final \in [Names -> Dir \cup {NoDir}]
  BY DEF TInv, TypeOK
<1> HIDE DEF n, e
<1>5. final' \in [Names -> Dir \cup {NoDir}] /\ final'[n] = e /\ \A m \in Names \ {n} : final'[m] = final[m]
  BY <1>1, <1>2, <1>3, <1>4
<1>6. final'[n] # NoDir /\ final[n] # NoDir
  BY <1>1, <1>2, <1>5, NoDirIsNone
<1>7. Same(final[n], final'[n]) /\ final'[n].linked
  BY <1>2, <1>5, Zenon
<1> QED
  BY <1>1, <1>5, <1>6, <1>7, Zenon DEF n

(* What a power loss chooses. *)
LEMMA PowerLossParts ==
    ASSUME PowerLoss
    PROVE  \E gone \in SUBSET (session \ anchored),
             undone \in SUBSET {m \in Names : final[m] # NoDir /\ ~final[m].linked},
             keep \in [Names -> SUBSET Files] :
          /\ \A m \in Names : final[m] # NoDir => keep[m] \in Survivors(final[m])
          /\ final' = [m \in Names |->
                         IF final[m] = NoDir \/ m \in undone \/ Parent(m) \in gone THEN NoDir
                         ELSE [final[m] EXCEPT !.files = keep[m], !.linked = TRUE]]
          /\ session' = session \ gone
          /\ orphans' = {o \in Leftovers(undone) : Parent(o.name) \notin gone}
<1>1. PICK gone \in SUBSET (session \ anchored),
           undone \in SUBSET {m \in Names : final[m] # NoDir /\ ~final[m].linked} :
          /\ \E keep \in [Names -> SUBSET Files] :
                /\ \A m \in Names : final[m] # NoDir => keep[m] \in Survivors(final[m])
                /\ final' = [m \in Names |->
                               IF final[m] = NoDir \/ m \in undone \/ Parent(m) \in gone THEN NoDir
                               ELSE [final[m] EXCEPT !.files = keep[m], !.linked = TRUE]]
          /\ orphans' = {o \in Leftovers(undone) : Parent(o.name) \notin gone}
          /\ session' = session \ gone
  BY Zenon DEF PowerLoss
<1> QED
  BY <1>1, Zenon

(* To a published directory a power loss does nothing, or undoes a rename that *)
(* had not reached the disk, or takes the parent directory away, when that had *)
(* not: all its files were synced before the rename.                           *)
LEMMA PowerLossEffect ==
    ASSUME TInv, PublishedOnDisk, PowerLoss, NEW n \in Names
    PROVE  /\ final'[n] \in Dir \cup {NoDir}
           /\ final[n] = NoDir => final'[n] = NoDir
           /\ final[n] # NoDir /\ final'[n] = NoDir =>
                 ~final[n].linked \/ (Parent(n) \notin anchored /\ Parent(n) \notin session')
           /\ final'[n] # NoDir => Same(final[n], final'[n]) /\ final'[n].linked
           /\ final'[n] # NoDir /\ Parent(n) \in session => Parent(n) \in session'
<1>1. final[n] \in Dir \cup {NoDir}
  BY DEF TInv, TypeOK
<1>2. CASE final[n] = NoDir
  <2>1. final'[n] = NoDir
    BY <1>2 DEF PowerLoss
  <2> QED
    BY <1>2, <2>1
<1>3. CASE final[n] # NoDir
  <2>1. PICK gone \in SUBSET (session \ anchored),
             undone \in SUBSET {m \in Names : final[m] # NoDir /\ ~final[m].linked},
             keep \in [Names -> SUBSET Files] :
          /\ \A m \in Names : final[m] # NoDir => keep[m] \in Survivors(final[m])
          /\ final' = [m \in Names |->
                         IF final[m] = NoDir \/ m \in undone \/ Parent(m) \in gone THEN NoDir
                         ELSE [final[m] EXCEPT !.files = keep[m], !.linked = TRUE]]
          /\ session' = session \ gone
    BY PowerLossParts, Zenon
  <2>2. CASE n \in undone \/ Parent(n) \in gone
    <3>1. final'[n] = NoDir
      BY <2>1, <2>2
    <3>2. ~final[n].linked \/ (Parent(n) \notin anchored /\ Parent(n) \notin session')
      BY <2>1, <2>2
    <3> QED
      BY <1>3, <3>1, <3>2
  <2>3. CASE n \notin undone /\ Parent(n) \notin gone
    <3> DEFINE d == final[n]
               e == [d EXCEPT !.files = keep[n], !.linked = TRUE]
    <3>1. final'[n] = e
      BY <1>3, <2>1, <2>3
    <3>2. d \in Dir /\ keep[n] \in SUBSET Files
      BY <1>1, <1>3
    <3>3. /\ e \in Dir /\ e.linked /\ e.files = keep[n]
          /\ e.synced = d.synced /\ e.dirSynced = d.dirSynced /\ e.by = d.by
      BY <3>2, Survive, Zenon
    <3>4. d.files = Files /\ d.synced = Files /\ d.dirSynced
      BY <1>3 DEF PublishedOnDisk
    <3>5. keep[n] \in Survivors(d)
      BY <1>3, <2>1
    <3>6. keep[n] = d.files
      BY <3>4, <3>5 DEF Survivors
    <3> HIDE DEF d, e
    <3>7. Same(d, e) /\ e # NoDir
      BY <3>3, <3>6, NoDirIsNone DEF Same
    <3>8. Same(final[n], final'[n]) /\ final'[n].linked /\ final'[n] # NoDir /\ final'[n] \in Dir
      BY <3>1, <3>3, <3>7, Zenon DEF d
    <3>9. Parent(n) \in session => Parent(n) \in session'
      BY <2>1, <2>3
    <3> QED
      BY <1>3, <3>8, <3>9
  <2> QED
    BY <2>2, <2>3
<1> QED
  BY <1>2, <1>3

(* The types hold before the first call. *)
LEMMA TypeInit == Init => TInv
<1> DEFINE first == CHOOSE n \in Names : TRUE
<1>1. first \in Names
  BY StoreAssumption
<1> HIDE DEF first
<1> SUFFICES ASSUME Init PROVE TInv
  OBVIOUS
<1>2. job \in [Proc -> {first}]
  BY DEF Init, first
<1>3. job \in [Proc -> Names]
  BY <1>1, <1>2
<1>4. /\ final = [n \in Names |-> NoDir] /\ tmp = [p \in Proc |-> NoDir]
      /\ pc = [p \in Proc |-> "closed"] /\ result = [p \in Proc |-> "none"]
      /\ orphans = {} /\ acked = {} /\ lock = NoProc /\ up = Proc /\ faults = 0
      /\ session = {} /\ anchored = {}
  BY DEF Init
<1>5. final \in [Names -> Dir \cup {NoDir}] /\ tmp \in [Proc -> Dir \cup {NoDir}]
  BY <1>4
<1>6. pc \in [Proc -> Points] /\ result \in [Proc -> {"none", "ok", "exists", "error"}]
  BY <1>4 DEF Points, Opening
<1>7. faults \in 0..MaxFaults
  BY <1>4, StoreAssumption
<1> QED
  BY <1>3, <1>4, <1>5, <1>6, <1>7 DEF TInv, TypeOK, DeadHaveNone

(* Every step of write_set, write_round and write_set_dir, and every fault, *)
(* keeps the types: a live process has a temp directory exactly between its *)
(* creation and the rename.                                                 *)
LEMMA TypeStep == TInv /\ PublishedAtSync /\ PublishedOnDisk /\ [Next]_vars => TInv'
<1> SUFFICES ASSUME TInv, PublishedAtSync, PublishedOnDisk, [Next]_vars PROVE TInv'
  OBVIOUS
<1> USE NoDirIsNone, StoreAssumption DEF TInv, TypeOK, DeadHaveNone, Points, Opening, Dir, Entries, layout
<1>1. ASSUME NEW p \in Proc, NEW n \in Names, WriteSet(p, n) PROVE TInv'
  BY <1>1 DEF WriteSet, Start, At, Goto
<1>2. ASSUME NEW p \in Proc, NEW n \in Names, WriteRound(p, n) PROVE TInv'
  BY <1>2 DEF WriteRound, Start, At, Goto
<1>3. ASSUME NEW p \in Proc, NEW n \in Names, RefuseRound(p, n) PROVE TInv'
  BY <1>3 DEF RefuseRound, Refuse, At, Goto
<1>4. ASSUME NEW p \in Proc, Acquire(p) PROVE TInv'
  BY <1>4 DEF Acquire, At, Goto
<1>5. ASSUME NEW p \in Proc, LockTimeout(p) PROVE TInv'
  BY <1>5 DEF LockTimeout, Finish, At, Goto
<1>6. ASSUME NEW p \in Proc, AlreadyThere(p) PROVE TInv'
  BY <1>6 DEF AlreadyThere, Finish, At, Goto
<1>7. ASSUME NEW p \in Proc, CreateTmp(p) PROVE TInv'
  <2>1. \E d \in Dir : tmp' = [tmp EXCEPT ![p] = d]
    BY <1>7, Fresh DEF CreateTmp
  <2>2. /\ p \in up /\ pc[p] = "check" /\ pc' = [pc EXCEPT ![p] = "write"]
        /\ UNCHANGED <<final, orphans, lock, job, result, up, faults, acked, session, anchored>>
    BY <1>7 DEF CreateTmp, At, Goto
  <2> QED
    BY <2>1, <2>2
<1>8. ASSUME NEW p \in Proc, CreateTmpFails(p) PROVE TInv'
  BY <1>8 DEF CreateTmpFails, Finish, At, Goto
<1>9. ASSUME NEW p \in Proc, NEW f \in Files, WriteFile(p, f) PROVE TInv'
  BY <1>9 DEF WriteFile, At, Goto
<1>10. ASSUME NEW p \in Proc, SyncFile(p) PROVE TInv'
  BY <1>10 DEF SyncFile, At, Goto
<1>11. ASSUME NEW p \in Proc, SyncTmpDir(p) PROVE TInv'
  <2>1. tmp[p] \in Dir
    BY <1>11 DEF SyncTmpDir, At
  <2>2. [tmp[p] EXCEPT !.dirSynced = TRUE] \in Dir
    BY <2>1, DirSync, Zenon
  <2>3. /\ p \in up /\ pc[p] = "syncdir" /\ pc' = [pc EXCEPT ![p] = "rename"]
        /\ UNCHANGED <<final, orphans, lock, job, result, up, faults, acked, session, anchored>>
    BY <1>11 DEF SyncTmpDir, At, Goto
  <2>4. \E d \in Dir : tmp' = [tmp EXCEPT ![p] = d]
    BY <1>11, <2>2 DEF SyncTmpDir
  <2> QED
    BY <2>3, <2>4
<1>12. ASSUME NEW p \in Proc, WriteFails(p) PROVE TInv'
  BY <1>12 DEF WriteFails, MayFail, Finish, DiscardTmp, Orphan, At, Goto
<1>13. ASSUME NEW p \in Proc, Rename(p) PROVE TInv'
  BY <1>13 DEF Rename, At, Goto
<1>14. ASSUME NEW p \in Proc, RenameLost(p) PROVE TInv'
  BY <1>14 DEF RenameLost, Finish, DiscardTmp, Orphan, At, Goto
<1>15. ASSUME NEW p \in Proc, SyncParent(p) PROVE TInv'
  <2>1. final' \in [Names -> Dir \cup {NoDir}]
    BY <1>15, SyncParentEffect DEF TInv
  <2>2. /\ p \in up /\ pc[p] = "syncparent" /\ pc' = [pc EXCEPT ![p] = "idle"]
        /\ result' = [result EXCEPT ![p] = "ok"] /\ lock' \in {NoProc, lock}
        /\ acked' = acked \cup {job[p]}
        /\ UNCHANGED <<tmp, orphans, job, up, faults, session, anchored>>
    BY <1>15 DEF SyncParent, Finish, At, Goto
  <2> QED
    BY <2>1, <2>2
<1>16. ASSUME NEW p \in Proc, SyncParentFails(p) PROVE TInv'
  BY <1>16 DEF SyncParentFails, Finish, At, Goto
<1>17. ASSUME NEW p \in Proc, Crash(p) PROVE TInv'
  BY <1>17 DEF Crash, Orphan, At, Goto
<1>18. ASSUME NEW p \in Proc, Restart(p) PROVE TInv'
  BY <1>18 DEF Restart, At, Goto
<1>19. CASE PowerLoss
  <2>1. \A n \in Names : final'[n] \in Dir \cup {NoDir}
    BY <1>19, PowerLossEffect DEF TInv
  <2>2. PICK gone \in SUBSET (session \ anchored),
             undone \in SUBSET {m \in Names : final[m] # NoDir /\ ~final[m].linked},
             keep \in [Names -> SUBSET Files] :
          /\ \A m \in Names : final[m] # NoDir => keep[m] \in Survivors(final[m])
          /\ final' = [m \in Names |->
                         IF final[m] = NoDir \/ m \in undone \/ Parent(m) \in gone THEN NoDir
                         ELSE [final[m] EXCEPT !.files = keep[m], !.linked = TRUE]]
          /\ session' = session \ gone
          /\ orphans' = {o \in Leftovers(undone) : Parent(o.name) \notin gone}
    BY <1>19, PowerLossParts, Zenon
  <2>3. final' = [n \in Names |-> final'[n]]
    BY <2>2
  <2>4. final' \in [Names -> Dir \cup {NoDir}]
    BY <2>1, <2>3
  <2>5. \A n \in undone : [name |-> n, files |-> final[n].files] \in [name : Names, files : SUBSET Files]
    OBVIOUS
  <2>6. \A q \in {r \in Proc : tmp[r] # NoDir} : Orphan(q) \in [name : Names, files : SUBSET Files]
    BY DEF Orphan
  <2>7. orphans' \subseteq [name : Names, files : SUBSET Files]
    <3> DEFINE All == [name : Names, files : SUBSET Files]
               A == {[name |-> n, files |-> final[n].files] : n \in undone}
               B == {Orphan(q) : q \in {r \in Proc : tmp[r] # NoDir}}
    <3>1. ASSUME NEW x \in A PROVE x \in All
      <4>1. PICK n \in undone : x = [name |-> n, files |-> final[n].files]
        BY <3>1
      <4> QED
        BY <4>1, <2>5, Zenon
    <3>2. ASSUME NEW x \in B PROVE x \in All
      <4>1. PICK q \in {r \in Proc : tmp[r] # NoDir} : x = Orphan(q)
        BY <3>2
      <4> QED
        BY <4>1, <2>6, Zenon
    <3>3. orphans \subseteq All /\ orphans' \subseteq orphans \cup A \cup B
      BY <2>2 DEF Leftovers
    <3> HIDE DEF All, A, B
    <3>4. orphans' \subseteq All
      BY <3>1, <3>2, <3>3
    <3> QED
      BY <3>4 DEF All
  <2>8. /\ faults < MaxFaults /\ faults' = faults + 1 /\ up' = {}
        /\ tmp' = [q \in Proc |-> NoDir]
        /\ anchored' = session' /\ acked' \subseteq acked
        /\ UNCHANGED <<lock, pc, job, result>>
    BY <1>19 DEF PowerLoss
  <2>9. session' \subseteq session
    BY <2>2
  <2> QED
    BY <2>4, <2>7, <2>8, <2>9
<1>20. CASE UNCHANGED vars
  BY <1>20 DEF vars, layout
<1>21. ASSUME NEW p \in Proc, Open(p) PROVE TInv'
  <2>1. TypeOK
    OBVIOUS
  <2> QED
    BY <1>21, <2>1, OpenFrame, OpenLayout DEF store, Opening
<1>22. ASSUME NEW p \in Proc, NEW n \in Names, RoundsDirFails(p, n) PROVE TInv'
  BY <1>22 DEF RoundsDirFails, Refuse, At
<1> QED
  BY <1>1, <1>2, <1>3, <1>4, <1>5, <1>6, <1>7, <1>8, <1>9, <1>10,
     <1>11, <1>12, <1>13, <1>14, <1>15, <1>16, <1>17, <1>18, <1>19, <1>20,
     <1>21, <1>22
  DEF Next, Work

(* No temp directory at first. *)
LEMMA TmpInit == Init => TmpOnDisk /\ PublishedOnDisk /\ PublishedAtSync /\ AckedLinked /\ Housed
BY DEF Init, TmpOnDisk, PublishedOnDisk, PublishedAtSync, AckedLinked, Housed, Opening

(* write_set_dir reaches the rename with every file and the directory       *)
(* synced, whatever the other processes do.                                 *)
LEMMA TmpStep == TInv /\ TmpOnDisk /\ [Next]_vars => TmpOnDisk'
<1> SUFFICES ASSUME TInv, TmpOnDisk, [Next]_vars PROVE TmpOnDisk'
  OBVIOUS
<1> USE NoDirIsNone DEF TInv, TypeOK, TmpOnDisk, Dir
<1>1. ASSUME NEW p \in Proc, NEW n \in Names, WriteSet(p, n) PROVE TmpOnDisk'
  BY <1>1 DEF WriteSet, Start, At, Goto
<1>2. ASSUME NEW p \in Proc, NEW n \in Names, WriteRound(p, n) PROVE TmpOnDisk'
  BY <1>2 DEF WriteRound, Start, At, Goto
<1>3. ASSUME NEW p \in Proc, NEW n \in Names, RefuseRound(p, n) PROVE TmpOnDisk'
  BY <1>3 DEF RefuseRound, Refuse, At, Goto
<1>4. ASSUME NEW p \in Proc, Acquire(p) PROVE TmpOnDisk'
  BY <1>4 DEF Acquire, At, Goto
<1>5. ASSUME NEW p \in Proc, LockTimeout(p) PROVE TmpOnDisk'
  BY <1>5 DEF LockTimeout, Finish, At, Goto
<1>6. ASSUME NEW p \in Proc, AlreadyThere(p) PROVE TmpOnDisk'
  BY <1>6 DEF AlreadyThere, Finish, At, Goto
<1>7. ASSUME NEW p \in Proc, CreateTmp(p) PROVE TmpOnDisk'
  BY <1>7 DEF CreateTmp, At, Goto
<1>8. ASSUME NEW p \in Proc, CreateTmpFails(p) PROVE TmpOnDisk'
  BY <1>8 DEF CreateTmpFails, Finish, At, Goto
<1>9. ASSUME NEW p \in Proc, NEW f \in Files, WriteFile(p, f) PROVE TmpOnDisk'
  BY <1>9 DEF WriteFile, At, Goto
<1>10. ASSUME NEW p \in Proc, SyncFile(p) PROVE TmpOnDisk'
  BY <1>10 DEF SyncFile, At, Goto
<1>11. ASSUME NEW p \in Proc, SyncTmpDir(p) PROVE TmpOnDisk'
  BY <1>11 DEF SyncTmpDir, At, Goto
<1>12. ASSUME NEW p \in Proc, WriteFails(p) PROVE TmpOnDisk'
  BY <1>12 DEF WriteFails, MayFail, Finish, DiscardTmp, Orphan, At, Goto
<1>13. ASSUME NEW p \in Proc, Rename(p) PROVE TmpOnDisk'
  BY <1>13 DEF Rename, At, Goto
<1>14. ASSUME NEW p \in Proc, RenameLost(p) PROVE TmpOnDisk'
  BY <1>14 DEF RenameLost, Finish, DiscardTmp, Orphan, At, Goto
<1>15. ASSUME NEW p \in Proc, SyncParent(p) PROVE TmpOnDisk'
  BY <1>15 DEF SyncParent, Finish, At, Goto
<1>16. ASSUME NEW p \in Proc, SyncParentFails(p) PROVE TmpOnDisk'
  BY <1>16 DEF SyncParentFails, Finish, At, Goto
<1>17. ASSUME NEW p \in Proc, Crash(p) PROVE TmpOnDisk'
  BY <1>17 DEF Crash, Orphan, At, Goto
<1>18. ASSUME NEW p \in Proc, Restart(p) PROVE TmpOnDisk'
  BY <1>18 DEF Restart, DeadHaveNone, At, Goto
<1>19. CASE PowerLoss
  BY <1>19 DEF PowerLoss
<1>20. CASE UNCHANGED vars
  BY <1>20 DEF vars, layout
<1>21. ASSUME NEW p \in Proc, Open(p) PROVE TmpOnDisk'
  BY <1>21, OpenFrame DEF store, Opening
<1>22. ASSUME NEW p \in Proc, NEW n \in Names, RoundsDirFails(p, n) PROVE TmpOnDisk'
  BY <1>22 DEF RoundsDirFails, Refuse, At
<1> QED
  BY <1>1, <1>2, <1>3, <1>4, <1>5, <1>6, <1>7, <1>8, <1>9, <1>10,
     <1>11, <1>12, <1>13, <1>14, <1>15, <1>16, <1>17, <1>18, <1>19, <1>20,
     <1>21, <1>22
  DEF Next, Work

(* A directory gets its final name complete and on the disk, and no fault   *)
(* changes that.                                                            *)
LEMMA PublishedStep ==
    TInv /\ TmpOnDisk /\ PublishedOnDisk /\ PublishedAtSync /\ [Next]_vars => PublishedOnDisk'
<1> SUFFICES ASSUME TInv, TmpOnDisk, PublishedOnDisk, PublishedAtSync, [Next]_vars
             PROVE  PublishedOnDisk'
  OBVIOUS
<1> USE NoDirIsNone DEF TInv, TypeOK, PublishedOnDisk, Dir
<1>1. ASSUME NEW p \in Proc, NEW n \in Names, WriteSet(p, n) PROVE PublishedOnDisk'
  BY <1>1 DEF WriteSet, Start, At, Goto
<1>2. ASSUME NEW p \in Proc, NEW n \in Names, WriteRound(p, n) PROVE PublishedOnDisk'
  BY <1>2 DEF WriteRound, Start, At, Goto
<1>3. ASSUME NEW p \in Proc, NEW n \in Names, RefuseRound(p, n) PROVE PublishedOnDisk'
  BY <1>3 DEF RefuseRound, Refuse, At, Goto
<1>4. ASSUME NEW p \in Proc, Acquire(p) PROVE PublishedOnDisk'
  BY <1>4 DEF Acquire, At, Goto
<1>5. ASSUME NEW p \in Proc, LockTimeout(p) PROVE PublishedOnDisk'
  BY <1>5 DEF LockTimeout, Finish, At, Goto
<1>6. ASSUME NEW p \in Proc, AlreadyThere(p) PROVE PublishedOnDisk'
  BY <1>6 DEF AlreadyThere, Finish, At, Goto
<1>7. ASSUME NEW p \in Proc, CreateTmp(p) PROVE PublishedOnDisk'
  BY <1>7 DEF CreateTmp, At, Goto
<1>8. ASSUME NEW p \in Proc, CreateTmpFails(p) PROVE PublishedOnDisk'
  BY <1>8 DEF CreateTmpFails, Finish, At, Goto
<1>9. ASSUME NEW p \in Proc, NEW f \in Files, WriteFile(p, f) PROVE PublishedOnDisk'
  BY <1>9 DEF WriteFile, At, Goto
<1>10. ASSUME NEW p \in Proc, SyncFile(p) PROVE PublishedOnDisk'
  BY <1>10 DEF SyncFile, At, Goto
<1>11. ASSUME NEW p \in Proc, SyncTmpDir(p) PROVE PublishedOnDisk'
  BY <1>11 DEF SyncTmpDir, At, Goto
<1>12. ASSUME NEW p \in Proc, WriteFails(p) PROVE PublishedOnDisk'
  BY <1>12 DEF WriteFails, MayFail, Finish, DiscardTmp, Orphan, At, Goto
<1>13. ASSUME NEW p \in Proc, Rename(p) PROVE PublishedOnDisk'
  BY <1>13 DEF Rename, At, TmpOnDisk
<1>14. ASSUME NEW p \in Proc, RenameLost(p) PROVE PublishedOnDisk'
  BY <1>14 DEF RenameLost, Finish, DiscardTmp, Orphan, At, Goto
<1>15. ASSUME NEW p \in Proc, SyncParent(p) PROVE PublishedOnDisk'
  BY <1>15, SyncParentEffect DEF Same
<1>16. ASSUME NEW p \in Proc, SyncParentFails(p) PROVE PublishedOnDisk'
  BY <1>16 DEF SyncParentFails, Finish, At, Goto
<1>17. ASSUME NEW p \in Proc, Crash(p) PROVE PublishedOnDisk'
  BY <1>17 DEF Crash, Orphan, At, Goto
<1>18. ASSUME NEW p \in Proc, Restart(p) PROVE PublishedOnDisk'
  BY <1>18 DEF Restart, At, Goto
<1>19. CASE PowerLoss
  BY <1>19, PowerLossEffect DEF Same
<1>20. CASE UNCHANGED vars
  BY <1>20 DEF vars, layout
<1>21. ASSUME NEW p \in Proc, Open(p) PROVE PublishedOnDisk'
  BY <1>21, OpenFrame DEF store, Opening
<1>22. ASSUME NEW p \in Proc, NEW n \in Names, RoundsDirFails(p, n) PROVE PublishedOnDisk'
  BY <1>22 DEF RoundsDirFails, Refuse, At
<1> QED
  BY <1>1, <1>2, <1>3, <1>4, <1>5, <1>6, <1>7, <1>8, <1>9, <1>10,
     <1>11, <1>12, <1>13, <1>14, <1>15, <1>16, <1>17, <1>18, <1>19, <1>20,
     <1>21, <1>22
  DEF Next, Work

(* Only the power takes a published directory away. *)
LEMMA AtSyncStep == TInv /\ PublishedAtSync /\ [Next]_vars => PublishedAtSync'
<1> SUFFICES ASSUME TInv, PublishedAtSync, [Next]_vars PROVE PublishedAtSync'
  OBVIOUS
<1> USE NoDirIsNone DEF TInv, TypeOK, PublishedAtSync, Dir
<1>1. ASSUME NEW p \in Proc, NEW n \in Names, WriteSet(p, n) PROVE PublishedAtSync'
  BY <1>1 DEF WriteSet, Start, At, Goto
<1>2. ASSUME NEW p \in Proc, NEW n \in Names, WriteRound(p, n) PROVE PublishedAtSync'
  BY <1>2 DEF WriteRound, Start, At, Goto
<1>3. ASSUME NEW p \in Proc, NEW n \in Names, RefuseRound(p, n) PROVE PublishedAtSync'
  BY <1>3 DEF RefuseRound, Refuse, At, Goto
<1>4. ASSUME NEW p \in Proc, Acquire(p) PROVE PublishedAtSync'
  BY <1>4 DEF Acquire, At, Goto
<1>5. ASSUME NEW p \in Proc, LockTimeout(p) PROVE PublishedAtSync'
  BY <1>5 DEF LockTimeout, Finish, At, Goto
<1>6. ASSUME NEW p \in Proc, AlreadyThere(p) PROVE PublishedAtSync'
  BY <1>6 DEF AlreadyThere, Finish, At, Goto
<1>7. ASSUME NEW p \in Proc, CreateTmp(p) PROVE PublishedAtSync'
  BY <1>7 DEF CreateTmp, At, Goto
<1>8. ASSUME NEW p \in Proc, CreateTmpFails(p) PROVE PublishedAtSync'
  BY <1>8 DEF CreateTmpFails, Finish, At, Goto
<1>9. ASSUME NEW p \in Proc, NEW f \in Files, WriteFile(p, f) PROVE PublishedAtSync'
  BY <1>9 DEF WriteFile, At, Goto
<1>10. ASSUME NEW p \in Proc, SyncFile(p) PROVE PublishedAtSync'
  BY <1>10 DEF SyncFile, At, Goto
<1>11. ASSUME NEW p \in Proc, SyncTmpDir(p) PROVE PublishedAtSync'
  BY <1>11 DEF SyncTmpDir, At, Goto
<1>12. ASSUME NEW p \in Proc, WriteFails(p) PROVE PublishedAtSync'
  BY <1>12 DEF WriteFails, MayFail, Finish, DiscardTmp, Orphan, At, Goto
<1>13. ASSUME NEW p \in Proc, Rename(p) PROVE PublishedAtSync'
  BY <1>13 DEF Rename, At, Goto
<1>14. ASSUME NEW p \in Proc, RenameLost(p) PROVE PublishedAtSync'
  BY <1>14 DEF RenameLost, Finish, DiscardTmp, Orphan, At, Goto
<1>15. ASSUME NEW p \in Proc, SyncParent(p) PROVE PublishedAtSync'
  <2>1. \A n \in Names : final[n] # NoDir => final'[n] # NoDir
    BY <1>15, SyncParentEffect
  <2> QED
    BY <1>15, <2>1 DEF SyncParent, Finish, At, Goto
<1>16. ASSUME NEW p \in Proc, SyncParentFails(p) PROVE PublishedAtSync'
  BY <1>16 DEF SyncParentFails, Finish, At, Goto
<1>17. ASSUME NEW p \in Proc, Crash(p) PROVE PublishedAtSync'
  BY <1>17 DEF Crash, Orphan, At, Goto
<1>18. ASSUME NEW p \in Proc, Restart(p) PROVE PublishedAtSync'
  BY <1>18 DEF Restart, At, Goto
<1>19. CASE PowerLoss
  BY <1>19 DEF PowerLoss
<1>20. CASE UNCHANGED vars
  BY <1>20 DEF vars, layout
<1>21. ASSUME NEW p \in Proc, Open(p) PROVE PublishedAtSync'
  BY <1>21, OpenFrame DEF store, Opening
<1>22. ASSUME NEW p \in Proc, NEW n \in Names, RoundsDirFails(p, n) PROVE PublishedAtSync'
  BY <1>22 DEF RoundsDirFails, Refuse, At
<1> QED
  BY <1>1, <1>2, <1>3, <1>4, <1>5, <1>6, <1>7, <1>8, <1>9, <1>10,
     <1>11, <1>12, <1>13, <1>14, <1>15, <1>16, <1>17, <1>18, <1>19, <1>20,
     <1>21, <1>22
  DEF Next, Work

(* Ok is answered once the rename is on the disk; from then on nothing      *)
(* removes the directory.                                                   *)
LEMMA AckedStep ==
    TInv /\ PublishedAtSync /\ PublishedOnDisk /\ AckedLinked /\ [Next]_vars => AckedLinked'
<1> SUFFICES ASSUME TInv, PublishedAtSync, PublishedOnDisk, AckedLinked, [Next]_vars PROVE AckedLinked'
  OBVIOUS
<1> USE NoDirIsNone DEF TInv, TypeOK, AckedLinked
<1>1. ASSUME NEW p \in Proc, NEW n \in Names, WriteSet(p, n) PROVE AckedLinked'
  BY <1>1 DEF WriteSet, Start, At, Goto
<1>2. ASSUME NEW p \in Proc, NEW n \in Names, WriteRound(p, n) PROVE AckedLinked'
  BY <1>2 DEF WriteRound, Start, At, Goto
<1>3. ASSUME NEW p \in Proc, NEW n \in Names, RefuseRound(p, n) PROVE AckedLinked'
  BY <1>3 DEF RefuseRound, Refuse, At, Goto
<1>4. ASSUME NEW p \in Proc, Acquire(p) PROVE AckedLinked'
  BY <1>4 DEF Acquire, At, Goto
<1>5. ASSUME NEW p \in Proc, LockTimeout(p) PROVE AckedLinked'
  BY <1>5 DEF LockTimeout, Finish, At, Goto
<1>6. ASSUME NEW p \in Proc, AlreadyThere(p) PROVE AckedLinked'
  BY <1>6 DEF AlreadyThere, Finish, At, Goto
<1>7. ASSUME NEW p \in Proc, CreateTmp(p) PROVE AckedLinked'
  BY <1>7 DEF CreateTmp, At, Goto
<1>8. ASSUME NEW p \in Proc, CreateTmpFails(p) PROVE AckedLinked'
  BY <1>8 DEF CreateTmpFails, Finish, At, Goto
<1>9. ASSUME NEW p \in Proc, NEW f \in Files, WriteFile(p, f) PROVE AckedLinked'
  BY <1>9 DEF WriteFile, At, Goto
<1>10. ASSUME NEW p \in Proc, SyncFile(p) PROVE AckedLinked'
  BY <1>10 DEF SyncFile, At, Goto
<1>11. ASSUME NEW p \in Proc, SyncTmpDir(p) PROVE AckedLinked'
  BY <1>11 DEF SyncTmpDir, At, Goto
<1>12. ASSUME NEW p \in Proc, WriteFails(p) PROVE AckedLinked'
  BY <1>12 DEF WriteFails, MayFail, Finish, DiscardTmp, Orphan, At, Goto
<1>13. ASSUME NEW p \in Proc, Rename(p) PROVE AckedLinked'
  BY <1>13 DEF Rename, At, Goto
<1>14. ASSUME NEW p \in Proc, RenameLost(p) PROVE AckedLinked'
  BY <1>14 DEF RenameLost, Finish, DiscardTmp, Orphan, At, Goto
<1>15. ASSUME NEW p \in Proc, SyncParent(p) PROVE AckedLinked'
  <2>1. acked' = acked \cup {job[p]}
    BY <1>15 DEF SyncParent
  <2> QED
    BY <1>15, <2>1, SyncParentEffect
<1>16. ASSUME NEW p \in Proc, SyncParentFails(p) PROVE AckedLinked'
  BY <1>16 DEF SyncParentFails, Finish, At, Goto
<1>17. ASSUME NEW p \in Proc, Crash(p) PROVE AckedLinked'
  BY <1>17 DEF Crash, Orphan, At, Goto
<1>18. ASSUME NEW p \in Proc, Restart(p) PROVE AckedLinked'
  BY <1>18 DEF Restart, At, Goto
<1>19. CASE PowerLoss
  <2>1. acked' = {n \in acked : final'[n] # NoDir}
    BY <1>19 DEF PowerLoss
  <2> QED
    BY <1>19, <2>1, PowerLossEffect
<1>20. CASE UNCHANGED vars
  BY <1>20 DEF vars, layout
<1>21. ASSUME NEW p \in Proc, Open(p) PROVE AckedLinked'
  BY <1>21, OpenFrame DEF store, Opening
<1>22. ASSUME NEW p \in Proc, NEW n \in Names, RoundsDirFails(p, n) PROVE AckedLinked'
  BY <1>22 DEF RoundsDirFails, Refuse, At
<1> QED
  BY <1>1, <1>2, <1>3, <1>4, <1>5, <1>6, <1>7, <1>8, <1>9, <1>10,
     <1>11, <1>12, <1>13, <1>14, <1>15, <1>16, <1>17, <1>18, <1>19, <1>20,
     <1>21, <1>22
  DEF Next, Work

(* Who opened a session finds the directories of the sets in it, and a      *)
(* round's writer has made rounds/; only the power takes them away, and     *)
(* everybody with them.                                                     *)
LEMMA HousedStep ==
    TInv /\ PublishedAtSync /\ PublishedOnDisk /\ Housed /\ [Next]_vars => Housed'
<1> SUFFICES ASSUME TInv, PublishedAtSync, PublishedOnDisk, Housed, [Next]_vars PROVE Housed'
  OBVIOUS
<1> USE NoDirIsNone, StoreAssumption DEF TInv, TypeOK, Housed, Parent, Opening, layout, Names
<1>1. ASSUME NEW p \in Proc, NEW n \in Names, WriteSet(p, n) PROVE Housed'
  BY <1>1 DEF WriteSet, Start, At, Goto
<1>2. ASSUME NEW p \in Proc, NEW n \in Names, WriteRound(p, n) PROVE Housed'
  BY <1>2 DEF WriteRound, Start, At, Goto
<1>3. ASSUME NEW p \in Proc, NEW n \in Names, RefuseRound(p, n) PROVE Housed'
  BY <1>3 DEF RefuseRound, Refuse, At, Goto
<1>4. ASSUME NEW p \in Proc, Acquire(p) PROVE Housed'
  BY <1>4 DEF Acquire, At, Goto
<1>5. ASSUME NEW p \in Proc, LockTimeout(p) PROVE Housed'
  BY <1>5 DEF LockTimeout, Finish, At, Goto
<1>6. ASSUME NEW p \in Proc, AlreadyThere(p) PROVE Housed'
  BY <1>6 DEF AlreadyThere, Finish, At, Goto
<1>7. ASSUME NEW p \in Proc, CreateTmp(p) PROVE Housed'
  BY <1>7 DEF CreateTmp, At, Goto
<1>8. ASSUME NEW p \in Proc, CreateTmpFails(p) PROVE Housed'
  BY <1>8 DEF CreateTmpFails, Finish, At, Goto
<1>9. ASSUME NEW p \in Proc, NEW f \in Files, WriteFile(p, f) PROVE Housed'
  BY <1>9 DEF WriteFile, At, Goto
<1>10. ASSUME NEW p \in Proc, SyncFile(p) PROVE Housed'
  BY <1>10 DEF SyncFile, At, Goto
<1>11. ASSUME NEW p \in Proc, SyncTmpDir(p) PROVE Housed'
  BY <1>11 DEF SyncTmpDir, At, Goto
<1>12. ASSUME NEW p \in Proc, WriteFails(p) PROVE Housed'
  BY <1>12 DEF WriteFails, MayFail, Finish, At, Goto
<1>13. ASSUME NEW p \in Proc, Rename(p) PROVE Housed'
  BY <1>13 DEF Rename, At, Goto
<1>14. ASSUME NEW p \in Proc, RenameLost(p) PROVE Housed'
  BY <1>14 DEF RenameLost, Finish, At, Goto
<1>15. ASSUME NEW p \in Proc, SyncParent(p) PROVE Housed'
  <2>1. \A n \in Names : final'[n] # NoDir => final[n] # NoDir
    BY <1>15, SyncParentEffect
  <2> QED
    BY <1>15, <2>1 DEF SyncParent, Finish, At, Goto
<1>16. ASSUME NEW p \in Proc, SyncParentFails(p) PROVE Housed'
  BY <1>16 DEF SyncParentFails, Finish, At, Goto
<1>17. ASSUME NEW p \in Proc, Crash(p) PROVE Housed'
  BY <1>17 DEF Crash, At, Goto
<1>18. ASSUME NEW p \in Proc, Restart(p) PROVE Housed'
  BY <1>18 DEF Restart, At, Goto
<1>19. CASE PowerLoss
  <2>1. up' = {}
    BY <1>19 DEF PowerLoss
  <2>2. \A n \in Names : final'[n] # NoDir => final[n] # NoDir /\ (Parent(n) \in session => Parent(n) \in session')
    BY <1>19, PowerLossEffect
  <2> QED
    BY <2>1, <2>2
<1>20. CASE UNCHANGED vars
  BY <1>20 DEF vars
<1>21. ASSUME NEW p \in Proc, Open(p) PROVE Housed'
  <2>1. TypeOK
    OBVIOUS
  <2> QED
    BY <1>21, <2>1, OpenFrame, OpenLayout DEF store
<1>22. ASSUME NEW p \in Proc, NEW n \in Names, RoundsDirFails(p, n) PROVE Housed'
  BY <1>22 DEF RoundsDirFails, Refuse, At
<1> QED
  BY <1>1, <1>2, <1>3, <1>4, <1>5, <1>6, <1>7, <1>8, <1>9, <1>10,
     <1>11, <1>12, <1>13, <1>14, <1>15, <1>16, <1>17, <1>18, <1>19, <1>20,
     <1>21, <1>22
  DEF Next, Work

(* The inductive invariant. *)
THEOREM Inductive == Spec => []IInv
<1>1. Init => IInv
  BY TypeInit, TmpInit DEF IInv
<1>2. IInv /\ [Next]_vars => IInv'
  BY TypeStep, TmpStep, PublishedStep, AtSyncStep, AckedStep, HousedStep DEF IInv
<1> QED
  BY <1>1, <1>2, PTL DEF Spec

(* Type correctness, with a temp directory exactly where write_set_dir has  *)
(* created one and not yet renamed or removed it.                           *)
THEOREM TypeCorrect == Spec => []TypeOK
<1>1. IInv => TypeOK
  BY DEF IInv, TInv
<1> QED
  BY <1>1, Inductive, PTL

(* A reader never sees a partial set or round under its final name, after   *)
(* any crashes, power losses and failed writes.                             *)
THEOREM Complete == Spec => []PublishedComplete
<1>1. IInv => PublishedComplete
  BY DEF IInv, PublishedOnDisk, PublishedComplete
<1> QED
  BY <1>1, Inductive, PTL

(* What changes the final names, besides a power loss. *)
LEMMA FinalKept ==
    ASSUME [Next]_vars, ~PowerLoss
    PROVE  \/ final' = final
           \/ \E p \in Proc : Rename(p) \/ SyncParent(p)
<1>1. ASSUME NEW p \in Proc, Open(p) PROVE final' = final
  BY <1>1, OpenFrame DEF store
<1> QED
  BY <1>1 DEF Next, Work, vars, WriteSet, WriteRound, Start, RefuseRound, Refuse, RoundsDirFails,
         Acquire, LockTimeout, AlreadyThere, CreateTmp, CreateTmpFails, WriteFile, SyncFile,
         SyncTmpDir, WriteFails, RenameLost, SyncParentFails, Crash, Restart

(* Only the power takes away what is published. *)
LEMMA OnlyPower ==
    ASSUME IInv, [Next]_vars, ~PowerLoss, NEW n \in Names, final[n] # NoDir
    PROVE  final'[n] # NoDir
<1>1. ASSUME NEW p \in Proc, Rename(p) PROVE final'[n] # NoDir
  <2>1. tmp[p] # NoDir /\ final \in [Names -> Dir \cup {NoDir}]
    BY <1>1 DEF IInv, TInv, TypeOK, Rename, At
  <2> QED
    BY <1>1, <2>1 DEF Rename
<1>2. ASSUME NEW p \in Proc, SyncParent(p) PROVE final'[n] # NoDir
  BY <1>2, SyncParentEffect DEF IInv
<1>3. final' = final \/ \E p \in Proc : Rename(p) \/ SyncParent(p)
  BY FinalKept
<1> QED
  BY <1>1, <1>2, <1>3

(* A set or a round whose publisher was told Ok stays, whatever fails       *)
(* later, unless the power takes its parent directory, whose entry in the   *)
(* session directory was not on the disk.                                   *)
THEOREM Durable == Spec => AckedDurable
<1> DEFINE Kept(n) == final'[n] = NoDir => Parent(n) \notin anchored /\ Parent(n) \notin session'
<1>1. IInv /\ [Next]_vars => [\A n \in acked : Kept(n)]_vars
  <2> SUFFICES ASSUME IInv, [Next]_vars, NEW n \in acked PROVE Kept(n)
    OBVIOUS
  <2>1. n \in Names /\ final[n] # NoDir /\ final[n].linked
    BY DEF IInv, TInv, TypeOK, AckedLinked
  <2>2. CASE PowerLoss
    BY <2>1, <2>2, PowerLossEffect DEF IInv
  <2>3. CASE ~PowerLoss
    BY <2>1, <2>3, OnlyPower
  <2> QED
    BY <2>2, <2>3
<1> QED
  BY <1>1, Inductive, PTL DEF Spec, AckedDurable

-----------------------------------------------------------------------------
(* Refinement. *)

(* What a reader of the final name finds. *)
Seen(d) == IF d = NoDir THEN {} ELSE {[by |-> d.by, files |-> d.files]}

StoredBar == [n \in Names |-> Seen(final[n])]

SafeBar == {n \in Names : final[n] # NoDir /\ final[n].linked /\ Parent(n) \in anchored}

(* A rename publishes a complete content under a free name. *)
LEMMA RenamePublishes ==
    ASSUME IInv, NEW p \in Proc, Rename(p)
    PROVE  \E n \in Names, c \in [by : Proc, files : {Files}] :
              /\ StoredBar[n] = {}
              /\ StoredBar' = [StoredBar EXCEPT ![n] = {c}]
              /\ SafeBar' = SafeBar
<1> DEFINE n == job[p]
           d == tmp[p]
           c == [by |-> d.by, files |-> d.files]
<1>1. n \in Names /\ p \in up /\ pc[p] = "rename" /\ final \in [Names -> Dir \cup {NoDir}]
  BY DEF IInv, TInv, TypeOK, Rename, At
<1>2. d \in Dir /\ d # NoDir
  BY <1>1, NoDirIsNone DEF IInv, TInv, TypeOK
<1>3. final[n] = NoDir /\ final' = [final EXCEPT ![n] = d]
  BY DEF Rename
<1>4. d.files = Files /\ ~d.linked
  BY <1>1, <1>2 DEF IInv, TmpOnDisk
<1>5. d.by \in Proc
  BY <1>2 DEF Dir
<1>6. c \in [by : Proc, files : {Files}]
  BY <1>4, <1>5
<1> HIDE DEF n, d
<1>7. final'[n] = d /\ \A m \in Names \ {n} : final'[m] = final[m]
  BY <1>1, <1>3
<1>8. SafeBar' = SafeBar
  <2>1. anchored' = anchored
    BY DEF Rename, layout
  <2> QED
    BY <1>1, <1>3, <1>4, <1>7, <2>1 DEF SafeBar
<1>9. StoredBar[n] = {}
  BY <1>1, <1>3 DEF StoredBar, Seen
<1>10. StoredBar' = [StoredBar EXCEPT ![n] = {c}]
  <2>1. \A m \in Names : Seen(final'[m]) = IF m = n THEN {c} ELSE Seen(final[m])
    BY <1>2, <1>7 DEF Seen
  <2> HIDE DEF c
  <2> QED
    BY <2>1 DEF StoredBar
<1> QED
  BY <1>1, <1>6, <1>8, <1>9, <1>10

(* sync_dir of the parent makes what is published safe, when the parent     *)
(* itself is on the disk.                                                   *)
LEMMA SyncHardens ==
    ASSUME IInv, NEW p \in Proc, SyncParent(p)
    PROVE  \E some \in SUBSET Names :
              /\ \A n \in some : StoredBar[n] # {}
              /\ SafeBar' = SafeBar \cup some
              /\ StoredBar' = StoredBar
<1> DEFINE n == job[p]
           some == {m \in {n} : Parent(m) \in anchored}
<1>1. /\ n \in Names /\ final'[n] # NoDir /\ final[n] # NoDir
      /\ Same(final[n], final'[n]) /\ final'[n].linked
      /\ \A m \in Names \ {n} : final'[m] = final[m]
  BY SyncParentEffect DEF IInv
<1>2. anchored' = anchored
  BY DEF SyncParent, layout
<1> HIDE DEF n
<1>3. SafeBar' = SafeBar \cup some
  BY <1>1, <1>2 DEF SafeBar
<1>4. \A m \in Names : Seen(final'[m]) = Seen(final[m])
  BY <1>1 DEF Seen, Same
<1>5. StoredBar' = StoredBar
  BY <1>4 DEF StoredBar
<1>6. \A m \in some : StoredBar[m] # {}
  BY <1>1 DEF StoredBar, Seen
<1>7. some \in SUBSET Names
  BY <1>1
<1> QED
  BY <1>3, <1>5, <1>6, <1>7

(* A sync of the session directory makes safe what is linked in it. *)
LEMMA OpenHardens ==
    ASSUME IInv, NEW p \in Proc, Open(p)
    PROVE  \E some \in SUBSET Names :
              /\ \A n \in some : StoredBar[n] # {}
              /\ SafeBar' = SafeBar \cup some
              /\ StoredBar' = StoredBar
<1> DEFINE some == {n \in Names : final[n] # NoDir /\ final[n].linked /\ Parent(n) \in anchored'}
<1>1. final' = final
  BY OpenFrame DEF store
<1>2. anchored \subseteq anchored'
  BY OpenLayout DEF IInv, TInv
<1>3. SafeBar' = SafeBar \cup some
  BY <1>1, <1>2 DEF SafeBar
<1>4. StoredBar' = StoredBar
  BY <1>1 DEF StoredBar
<1>5. \A n \in some : StoredBar[n] # {}
  BY DEF StoredBar, Seen
<1> QED
  BY <1>3, <1>4, <1>5

(* A power loss takes away whole contents that were not safe. *)
LEMMA PowerLossLoses ==
    ASSUME IInv, PowerLoss
    PROVE  /\ \E lost \in SUBSET (Names \ SafeBar) :
                 StoredBar' = [n \in Names |-> IF n \in lost THEN {} ELSE StoredBar[n]]
           /\ SafeBar' = {n \in Names : StoredBar'[n] # {}}
<1> DEFINE lost == {n \in Names : final[n] # NoDir /\ final'[n] = NoDir}
<1>1. ASSUME NEW n \in Names
      PROVE  /\ final[n] = NoDir => final'[n] = NoDir
             /\ final[n] # NoDir /\ final'[n] = NoDir => ~final[n].linked \/ Parent(n) \notin anchored
             /\ final'[n] # NoDir =>
                   Same(final[n], final'[n]) /\ final'[n].linked /\ Parent(n) \in anchored'
  <2>1. anchored' = session'
    BY DEF PowerLoss
  <2> QED
    BY <2>1, PowerLossEffect DEF IInv, Housed
<1>2. lost \in SUBSET (Names \ SafeBar)
  BY <1>1 DEF SafeBar
<1>3. \A n \in Names : Seen(final'[n]) = IF n \in lost THEN {} ELSE Seen(final[n])
  BY <1>1 DEF Seen, Same
<1> HIDE DEF lost
<1>4. StoredBar' = [n \in Names |-> IF n \in lost THEN {} ELSE StoredBar[n]]
  BY <1>3 DEF StoredBar
<1>5. \A n \in Names : StoredBar'[n] # {} <=> final'[n] # NoDir
  BY DEF StoredBar, Seen
<1>6. SafeBar' = {n \in Names : StoredBar'[n] # {}}
  BY <1>1, <1>5 DEF SafeBar
<1> QED
  BY <1>2, <1>4, <1>6

(* Every step of the store is a step of the abstract one, or none. *)
LEMMA StoreStep == IInv /\ [Next]_vars => [S!SNext]_(S!svars)
<1> SUFFICES ASSUME IInv, [Next]_vars
             PROVE  [S!SNext]_(S!svars)
  OBVIOUS
<1>1. CASE final' = final /\ anchored' = anchored
  BY <1>1 DEF S!svars
<1>2. ASSUME NEW p \in Proc, Rename(p) PROVE S!SNext
  BY <1>2, RenamePublishes DEF S!SNext, S!Publish, StoredBar, SafeBar, Seen
<1>3. ASSUME NEW p \in Proc, SyncParent(p) PROVE S!SNext
  BY <1>3, SyncHardens DEF S!SNext, S!Harden, StoredBar, SafeBar, Seen
<1>4. ASSUME NEW p \in Proc, Open(p) PROVE S!SNext
  BY <1>4, OpenHardens DEF S!SNext, S!Harden, StoredBar, SafeBar, Seen
<1>5. CASE PowerLoss
  BY <1>5, PowerLossLoses DEF S!SNext, S!LosePower, StoredBar, SafeBar, Seen
<1>6. \/ final' = final /\ anchored' = anchored
      \/ PowerLoss
      \/ \E p \in Proc : Rename(p) \/ SyncParent(p) \/ Open(p)
  BY DEF Next, Work, vars, layout, WriteSet, WriteRound, Start, RefuseRound, Refuse, RoundsDirFails,
         Acquire, LockTimeout, AlreadyThere, CreateTmp, CreateTmpFails, WriteFile, SyncFile,
         SyncTmpDir, WriteFails, RenameLost, SyncParentFails, Crash, Restart
<1> QED
  BY <1>1, <1>2, <1>3, <1>4, <1>5, <1>6

(* The temp directories, syncs and renames of write_set_dir implement a     *)
(* store of immutable contents, under crashes, power losses and I/O errors. *)
THEOREM Refinement == Spec => ImplementsStore
<1>1. Init => S!SInit
  BY DEF Init, S!SInit
<1> QED
  BY <1>1, Inductive, StoreStep, PTL DEF Spec, ImplementsStore, S!SSpec
===============================================================================
