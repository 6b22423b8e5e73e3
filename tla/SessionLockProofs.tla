-------------------------- MODULE SessionLockProofs --------------------------
(***************************************************************************)
(* Proofs about SessionLock, for any number of processes and crashes.  The *)
(* inductive fact is about the file, not about the holders: as long as no  *)
(* takeover has unlinked a live process's file, every live process past    *)
(* its O_EXCL open has its own file at the path.  Two holders would need   *)
(* two files there.                                                        *)
(***************************************************************************)
EXTENDS SessionLock, TLAPS

Holding(p) == At(p, "write") \/ At(p, "held")

OwnFile == ~robbed => \A p \in Proc : Holding(p) => lock # NoFile /\ lock.by = p

IInv == TypeOK /\ OwnFile

(* NoFile is not a file record. *)
LEMMA NoFileIsNone == NoFile \notin File
BY LockAssumption DEF File

(* The type invariant holds initially. *)
LEMMA TypeInit == Init => TypeOK
BY DEF Init, TypeOK, Points

(* Every step of acquire, of drop and of the environment keeps the types,   *)
(* and the pid in the file is its creator's.                                *)
LEMMA TypeStep == TypeOK /\ [Next]_vars => TypeOK'
<1> SUFFICES ASSUME TypeOK, [Next]_vars PROVE TypeOK'
  OBVIOUS
<1> USE NoFileIsNone DEF TypeOK
<1>1. ASSUME NEW p \in Proc, Call(p) PROVE TypeOK'
  BY <1>1 DEF Call, Goto, Points
<1>2. ASSUME NEW p \in Proc, Create(p) PROVE TypeOK'
  BY <1>2 DEF Create, Goto, Points, File
<1>3. ASSUME NEW p \in Proc, AlreadyExists(p) PROVE TypeOK'
  BY <1>3 DEF AlreadyExists, Goto, Points
<1>4. ASSUME NEW p \in Proc, WritePid(p) PROVE TypeOK'
  <2>1. lock' = lock \/ (lock # NoFile /\ lock.by = p /\ lock' = [lock EXCEPT !.pid = p])
    BY <1>4 DEF WritePid
  <2>2. /\ lock' \in File \cup {NoFile}
        /\ lock' # NoFile => lock'.pid \in {lock'.by, Empty}
    BY <2>1 DEF File
  <2> QED
    BY <1>4, <2>2 DEF WritePid, Goto, Points
<1>5. ASSUME NEW p \in Proc, Read(p) PROVE TypeOK'
  BY <1>5 DEF Read, Goto, Points, File
<1>6. ASSUME NEW p \in Proc, Check(p) PROVE TypeOK'
  BY <1>6 DEF Check, Goto, Points
<1>7. ASSUME NEW p \in Proc, Remove(p) PROVE TypeOK'
  BY <1>7 DEF Remove, Goto, Points
<1>8. ASSUME NEW p \in Proc, Sleep(p) PROVE TypeOK'
  BY <1>8 DEF Sleep, Goto, Points
<1>9. ASSUME NEW p \in Proc, WouldBlock(p) PROVE TypeOK'
  BY <1>9 DEF WouldBlock, Goto, Points
<1>10. ASSUME NEW p \in Proc, Release(p) PROVE TypeOK'
  BY <1>10 DEF Release, Goto, Points
<1>11. ASSUME NEW p \in Proc, Crash(p) PROVE TypeOK'
  BY <1>11 DEF Crash
<1>12. CASE Age
  BY <1>12 DEF Age, File
<1>13. CASE UNCHANGED vars
  BY <1>13 DEF vars
<1> QED
  BY <1>1, <1>2, <1>3, <1>4, <1>5, <1>6, <1>7, <1>8, <1>9, <1>10, <1>11, <1>12, <1>13
  DEF Next, Step

(* Initially no process holds the lock. *)
LEMMA OwnFileInit == Init => OwnFile
BY DEF Init, OwnFile, Holding, At

(* Every step keeps the holders' files in place, or records a robbery.      *)
LEMMA OwnFileStep == IInv /\ [Next]_vars => OwnFile'
<1> SUFFICES ASSUME IInv, [Next]_vars, ~robbed', NEW q \in Proc, Holding(q)'
             PROVE  (lock # NoFile /\ lock.by = q)'
  BY DEF OwnFile
<1> USE NoFileIsNone DEF IInv, TypeOK, OwnFile, Holding, At
<1>1. ASSUME NEW p \in Proc, Call(p) PROVE (lock # NoFile /\ lock.by = q)'
  BY <1>1 DEF Call, Goto
(* O_EXCL: the path was free, so nobody held the lock. *)
<1>2. ASSUME NEW p \in Proc, Create(p) PROVE (lock # NoFile /\ lock.by = q)'
  <2>1. q = p
    BY <1>2 DEF Create, Goto
  <2>2. lock' = [by |-> p, pid |-> Empty, aged |-> FALSE]
    BY <1>2 DEF Create
  <2>3. lock' \in File /\ lock'.by = p
    BY <2>2 DEF File
  <2> QED
    BY <2>1, <2>3
<1>3. ASSUME NEW p \in Proc, AlreadyExists(p) PROVE (lock # NoFile /\ lock.by = q)'
  BY <1>3 DEF AlreadyExists, Goto
<1>4. ASSUME NEW p \in Proc, WritePid(p) PROVE (lock # NoFile /\ lock.by = q)'
  <2>1. lock # NoFile /\ lock.by = q
    BY <1>4 DEF WritePid, Goto
  <2>2. lock' # NoFile /\ lock'.by = lock.by
    BY <1>4, <2>1 DEF WritePid, File
  <2> QED
    BY <2>1, <2>2
<1>5. ASSUME NEW p \in Proc, Read(p) PROVE (lock # NoFile /\ lock.by = q)'
  BY <1>5 DEF Read, Goto
<1>6. ASSUME NEW p \in Proc, Check(p) PROVE (lock # NoFile /\ lock.by = q)'
  BY <1>6 DEF Check, Goto
(* A takeover that robs nobody finds no holder's file. *)
<1>7. ASSUME NEW p \in Proc, Remove(p) PROVE (lock # NoFile /\ lock.by = q)'
  <2>1. ~robbed /\ ~(lock # NoFile /\ lock.by \in alive)
    BY <1>7 DEF Remove
  <2>2. Holding(q)
    BY <1>7 DEF Remove, Goto
  <2>3. lock # NoFile /\ lock.by \in alive
    BY <2>1, <2>2
  <2> QED
    BY <2>1, <2>3
<1>8. ASSUME NEW p \in Proc, Sleep(p) PROVE (lock # NoFile /\ lock.by = q)'
  BY <1>8 DEF Sleep, Goto
<1>9. ASSUME NEW p \in Proc, WouldBlock(p) PROVE (lock # NoFile /\ lock.by = q)'
  BY <1>9 DEF WouldBlock, Goto
(* The file a holder unlinks is its own, and no other process holds. *)
<1>10. ASSUME NEW p \in Proc, Release(p) PROVE (lock # NoFile /\ lock.by = q)'
  BY <1>10 DEF Release, Goto
<1>11. ASSUME NEW p \in Proc, Crash(p) PROVE (lock # NoFile /\ lock.by = q)'
  BY <1>11 DEF Crash
<1>12. CASE Age
  <2>1. lock # NoFile /\ lock.by = q
    BY <1>12 DEF Age
  <2> QED
    BY <1>12, <2>1 DEF Age, File
<1>13. CASE UNCHANGED vars
  BY <1>13 DEF vars
<1> QED
  BY <1>1, <1>2, <1>3, <1>4, <1>5, <1>6, <1>7, <1>8, <1>9, <1>10, <1>11, <1>12, <1>13
  DEF Next, Step

(* The invariant of the lock: types, and every live process past its open   *)
(* owns the file at the path unless a takeover has robbed one.              *)
THEOREM Inductive == Spec => []IInv
<1>1. Init => IInv
  BY TypeInit, OwnFileInit DEF IInv
<1>2. IInv /\ [Next]_vars => IInv'
  BY TypeStep, OwnFileStep DEF IInv
<1> QED
  BY <1>1, <1>2, PTL DEF Spec

(* Types, for every set of processes: the pid a waiter reads in the file is *)
(* its creator's, or not written yet.                                       *)
THEOREM TypeCorrect == Spec => []TypeOK
BY Inductive, PTL DEF IInv

(* Lock::acquire excludes every other live process, through crashes and     *)
(* unwritten pids, unless a takeover unlinks the file of a live process.    *)
THEOREM Exclusion == Spec => []ExclusiveUnlessRobbed
<1>1. IInv => ExclusiveUnlessRobbed
  BY DEF IInv, OwnFile, Holding, ExclusiveUnlessRobbed, MutualExclusion
<1> QED
  BY <1>1, Inductive, PTL
=============================================================================
