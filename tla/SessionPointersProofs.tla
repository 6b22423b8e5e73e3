----------------------- MODULE SessionPointersProofs -----------------------
(***************************************************************************)
(* Proofs about SessionPointers, for any number of processes, inputs,      *)
(* entries, I/O errors and deaths.  The tables are rewritten whole from a  *)
(* copy in memory, so everything rests on how far that copy can be from    *)
(* the file.  Bytes are stored before a row exists anywhere, which makes   *)
(* NoDanglingInput inductive.  For the other two the copy has to be exact: *)
(* while at most one process has the session open and no write has failed, *)
(* a copy differs from its file only by the change the call under way is   *)
(* about to store.                                                         *)
(***************************************************************************)
EXTENDS SessionPointers, TLAPS

(* An add_input under way is about an input. *)
ArgIsInput ==
    \A p \in Proc : pc[p] \in {"addLock", "addBlob", "addTable"} => arg[p] \in Inputs

TInv == TypeOK /\ ArgIsInput

(* The flag overlapped is exact: until it is set, one process at a time. *)
OneOpen ==
    ~overlapped =>
        \A p, q \in Proc : pc[p] # "closed" /\ pc[q] # "closed" => p = q

(* The copy of inputs.tbl: one row ahead between the push and the write. *)
RowsInStep ==
    ~overlapped /\ errors = 0 =>
        /\ told \subseteq rows
        /\ \A p \in Proc : pc[p] # "closed" =>
              memRows[p] = IF pc[p] = "addTable" THEN rows \cup {arg[p]} ELSE rows

(* The copy of config.tbl: it is read when the open completes, and apart    *)
(* from the entry of a config_set under way it agrees with the file.        *)
ConfigInStep ==
    ~overlapped /\ errors = 0 =>
        \A p \in Proc : pc[p] \notin {"closed", "opening"} =>
            \A k \in Keys :
               memConfig[p][k] # config[k] => pc[p] \in {"setLock", "setTable"} /\ arg[p] = k

IInv == TInv /\ NoDanglingInput /\ OneOpen /\ RowsInStep /\ ConfigInStep

-----------------------------------------------------------------------------
(* Before any process opens the session the types are right. *)
LEMMA TypeInit == Init => TInv
<1> DEFINE first == CHOOSE i \in Inputs : TRUE
<1>1. first \in Inputs
  BY PointersAssumption
<1> HIDE DEF first
<1> SUFFICES ASSUME Init PROVE TInv
  OBVIOUS
<1>2. arg \in [Proc -> {first}]
  BY DEF Init, first
<1>3. arg \in [Proc -> Inputs \cup Keys]
  BY <1>1, <1>2
<1>4. /\ rows = {} /\ blobs = {} /\ told = {} /\ lock = NoProc /\ overlapped = FALSE
      /\ errors = 0 /\ crashes = 0
      /\ config = [k \in Keys |-> Unset]
      /\ memRows = [p \in Proc |-> {}]
      /\ memConfig = [p \in Proc |-> config]
      /\ pc = [p \in Proc |-> "closed"]
  BY DEF Init
<1>5. config \in Config
  BY <1>4 DEF Config
<1>6. memConfig \in [Proc -> Config]
  BY <1>4, <1>5
<1>7. errors \in 0..MaxErrors /\ crashes \in 0..MaxCrashes
  BY <1>4, PointersAssumption
<1>8. memRows \in [Proc -> SUBSET Inputs] /\ pc \in [Proc -> Points]
  BY <1>4 DEF Points
<1>9. /\ \A p \in Proc : lock = p <=> pc[p] \in {"addBlob", "addTable", "setTable"}
      /\ ArgIsInput
  BY <1>4, PointersAssumption DEF ArgIsInput
<1> QED
  BY <1>3, <1>4, <1>5, <1>6, <1>7, <1>8, <1>9 DEF TInv, TypeOK

(* Every step of open, add_input and config_set keeps the types, and the    *)
(* lock stays with the process that is inside its critical section.         *)
LEMMA TypeStep == TInv /\ [Next]_vars => TInv'
<1> SUFFICES ASSUME TInv, [Next]_vars PROVE TInv'
  OBVIOUS
<1> USE PointersAssumption DEF TInv, TypeOK, ArgIsInput, Points, Config
<1>1. ASSUME NEW p \in Proc, ReadInputs(p) PROVE TInv'
  BY <1>1 DEF ReadInputs, Goto
<1>2. ASSUME NEW p \in Proc, ReadConfig(p) PROVE TInv'
  BY <1>2 DEF ReadConfig, Goto
<1>3. ASSUME NEW p \in Proc, Close(p) PROVE TInv'
  BY <1>3 DEF Close, Goto
<1>4. ASSUME NEW p \in Proc, NEW i \in Inputs, AddKnown(p, i) PROVE TInv'
  BY <1>4 DEF AddKnown, Tell
<1>5. ASSUME NEW p \in Proc, NEW i \in Inputs, AddNew(p, i) PROVE TInv'
  BY <1>5 DEF AddNew, Goto
<1>6. ASSUME NEW p \in Proc, Acquire(p) PROVE TInv'
  BY <1>6 DEF Acquire, Goto
<1>7. ASSUME NEW p \in Proc, LockTimeout(p) PROVE TInv'
  BY <1>7 DEF LockTimeout, Error, Goto
<1>8. ASSUME NEW p \in Proc, StoreBlob(p) PROVE TInv'
  BY <1>8 DEF StoreBlob, Goto
<1>9. ASSUME NEW p \in Proc, StoreBlobFails(p) PROVE TInv'
  BY <1>9 DEF StoreBlobFails, Error, Goto
<1>10. ASSUME NEW p \in Proc, StoreRows(p) PROVE TInv'
  BY <1>10 DEF StoreRows, Tell, Goto
<1>11. ASSUME NEW p \in Proc, StoreRowsFails(p) PROVE TInv'
  BY <1>11 DEF StoreRowsFails, Error, Goto
<1>12. ASSUME NEW p \in Proc, NEW k \in Keys, NEW v \in Values \cup {Unset}, ConfigSet(p, k, v) PROVE TInv'
  BY <1>12 DEF ConfigSet, Goto
<1>13. ASSUME NEW p \in Proc, StoreConfig(p) PROVE TInv'
  BY <1>13 DEF StoreConfig, Goto
<1>14. ASSUME NEW p \in Proc, StoreConfigFails(p) PROVE TInv'
  BY <1>14 DEF StoreConfigFails, Error, Goto
<1>15. ASSUME NEW p \in Proc, Crash(p) PROVE TInv'
  BY <1>15 DEF Crash, Goto
<1>16. CASE UNCHANGED vars
  BY <1>16 DEF vars
<1> QED
  BY <1>1, <1>2, <1>3, <1>4, <1>5, <1>6, <1>7, <1>8,
     <1>9, <1>10, <1>11, <1>12, <1>13, <1>14, <1>15, <1>16 DEF Next, Work

(* Nothing is named before there is anything. *)
LEMMA DanglingInit == Init => NoDanglingInput
BY DEF Init, NoDanglingInput

(* Bytes are never removed; a row enters a copy with its bytes stored, the  *)
(* table from a copy, and a copy from the table.                            *)
LEMMA DanglingStep == TInv /\ NoDanglingInput /\ [Next]_vars => NoDanglingInput'
<1> SUFFICES ASSUME TInv, rows \subseteq blobs, \A q \in Proc : memRows[q] \subseteq blobs,
                    [Next]_vars
             PROVE  rows' \subseteq blobs' /\ \A q \in Proc : memRows'[q] \subseteq blobs'
  BY DEF NoDanglingInput
<1> USE DEF TInv, TypeOK
<1>1. ASSUME NEW p \in Proc, ReadInputs(p) PROVE rows' \subseteq blobs' /\ \A q \in Proc : memRows'[q] \subseteq blobs'
  BY <1>1 DEF ReadInputs, Goto
<1>2. ASSUME NEW p \in Proc, ReadConfig(p) PROVE rows' \subseteq blobs' /\ \A q \in Proc : memRows'[q] \subseteq blobs'
  BY <1>2 DEF ReadConfig, Goto
<1>3. ASSUME NEW p \in Proc, Close(p) PROVE rows' \subseteq blobs' /\ \A q \in Proc : memRows'[q] \subseteq blobs'
  BY <1>3 DEF Close, Goto
<1>4. ASSUME NEW p \in Proc, NEW i \in Inputs, AddKnown(p, i) PROVE rows' \subseteq blobs' /\ \A q \in Proc : memRows'[q] \subseteq blobs'
  BY <1>4 DEF AddKnown, Tell
<1>5. ASSUME NEW p \in Proc, NEW i \in Inputs, AddNew(p, i) PROVE rows' \subseteq blobs' /\ \A q \in Proc : memRows'[q] \subseteq blobs'
  BY <1>5 DEF AddNew, Goto
<1>6. ASSUME NEW p \in Proc, Acquire(p) PROVE rows' \subseteq blobs' /\ \A q \in Proc : memRows'[q] \subseteq blobs'
  BY <1>6 DEF Acquire, Goto
<1>7. ASSUME NEW p \in Proc, LockTimeout(p) PROVE rows' \subseteq blobs' /\ \A q \in Proc : memRows'[q] \subseteq blobs'
  BY <1>7 DEF LockTimeout, Error, Goto
<1>8. ASSUME NEW p \in Proc, StoreBlob(p) PROVE rows' \subseteq blobs' /\ \A q \in Proc : memRows'[q] \subseteq blobs'
  BY <1>8 DEF StoreBlob, Goto
<1>9. ASSUME NEW p \in Proc, StoreBlobFails(p) PROVE rows' \subseteq blobs' /\ \A q \in Proc : memRows'[q] \subseteq blobs'
  BY <1>9 DEF StoreBlobFails, Error, Goto
<1>10. ASSUME NEW p \in Proc, StoreRows(p) PROVE rows' \subseteq blobs' /\ \A q \in Proc : memRows'[q] \subseteq blobs'
  BY <1>10 DEF StoreRows, Tell, Goto
<1>11. ASSUME NEW p \in Proc, StoreRowsFails(p) PROVE rows' \subseteq blobs' /\ \A q \in Proc : memRows'[q] \subseteq blobs'
  BY <1>11 DEF StoreRowsFails, Error, Goto
<1>12. ASSUME NEW p \in Proc, NEW k \in Keys, NEW v \in Values \cup {Unset}, ConfigSet(p, k, v) PROVE rows' \subseteq blobs' /\ \A q \in Proc : memRows'[q] \subseteq blobs'
  BY <1>12 DEF ConfigSet, Goto
<1>13. ASSUME NEW p \in Proc, StoreConfig(p) PROVE rows' \subseteq blobs' /\ \A q \in Proc : memRows'[q] \subseteq blobs'
  BY <1>13 DEF StoreConfig, Goto
<1>14. ASSUME NEW p \in Proc, StoreConfigFails(p) PROVE rows' \subseteq blobs' /\ \A q \in Proc : memRows'[q] \subseteq blobs'
  BY <1>14 DEF StoreConfigFails, Error, Goto
<1>15. ASSUME NEW p \in Proc, Crash(p) PROVE rows' \subseteq blobs' /\ \A q \in Proc : memRows'[q] \subseteq blobs'
  BY <1>15 DEF Crash, Goto
<1>16. CASE UNCHANGED vars
  BY <1>16 DEF vars
<1> QED
  BY <1>1, <1>2, <1>3, <1>4, <1>5, <1>6, <1>7, <1>8,
     <1>9, <1>10, <1>11, <1>12, <1>13, <1>14, <1>15, <1>16 DEF Next, Work

(* Nobody has the session open at first. *)
LEMMA OneOpenInit == Init => OneOpen
BY DEF Init, OneOpen

(* Only ReadInputs makes a process open the session, and it looks at the    *)
(* others.                                                                  *)
LEMMA OneOpenStep == TInv /\ OneOpen /\ [Next]_vars => OneOpen'
<1> SUFFICES ASSUME TInv, OneOpen, [Next]_vars PROVE OneOpen'
  OBVIOUS
<1> USE DEF TInv, TypeOK, OneOpen
<1>1. ASSUME NEW p \in Proc, ReadInputs(p) PROVE OneOpen'
  BY <1>1 DEF ReadInputs, Goto
<1>2. ASSUME NEW p \in Proc, ReadConfig(p) PROVE OneOpen'
  BY <1>2 DEF ReadConfig, Goto
<1>3. ASSUME NEW p \in Proc, Close(p) PROVE OneOpen'
  BY <1>3 DEF Close, Goto
<1>4. ASSUME NEW p \in Proc, NEW i \in Inputs, AddKnown(p, i) PROVE OneOpen'
  BY <1>4 DEF AddKnown, Tell
<1>5. ASSUME NEW p \in Proc, NEW i \in Inputs, AddNew(p, i) PROVE OneOpen'
  BY <1>5 DEF AddNew, Goto
<1>6. ASSUME NEW p \in Proc, Acquire(p) PROVE OneOpen'
  BY <1>6 DEF Acquire, Goto
<1>7. ASSUME NEW p \in Proc, LockTimeout(p) PROVE OneOpen'
  BY <1>7 DEF LockTimeout, Error, Goto
<1>8. ASSUME NEW p \in Proc, StoreBlob(p) PROVE OneOpen'
  BY <1>8 DEF StoreBlob, Goto
<1>9. ASSUME NEW p \in Proc, StoreBlobFails(p) PROVE OneOpen'
  BY <1>9 DEF StoreBlobFails, Error, Goto
<1>10. ASSUME NEW p \in Proc, StoreRows(p) PROVE OneOpen'
  BY <1>10 DEF StoreRows, Tell, Goto
<1>11. ASSUME NEW p \in Proc, StoreRowsFails(p) PROVE OneOpen'
  BY <1>11 DEF StoreRowsFails, Error, Goto
<1>12. ASSUME NEW p \in Proc, NEW k \in Keys, NEW v \in Values \cup {Unset}, ConfigSet(p, k, v) PROVE OneOpen'
  BY <1>12 DEF ConfigSet, Goto
<1>13. ASSUME NEW p \in Proc, StoreConfig(p) PROVE OneOpen'
  BY <1>13 DEF StoreConfig, Goto
<1>14. ASSUME NEW p \in Proc, StoreConfigFails(p) PROVE OneOpen'
  BY <1>14 DEF StoreConfigFails, Error, Goto
<1>15. ASSUME NEW p \in Proc, Crash(p) PROVE OneOpen'
  BY <1>15 DEF Crash, Goto
<1>16. CASE UNCHANGED vars
  BY <1>16 DEF vars
<1> QED
  BY <1>1, <1>2, <1>3, <1>4, <1>5, <1>6, <1>7, <1>8,
     <1>9, <1>10, <1>11, <1>12, <1>13, <1>14, <1>15, <1>16 DEF Next, Work

(* With nobody inside, no copy is out of step. *)
LEMMA InStepInit == Init => RowsInStep /\ ConfigInStep
BY DEF Init, RowsInStep, ConfigInStep

(* The copies of inputs.tbl stay in step with the file. *)
LEMMA RowsStep == TInv /\ OneOpen /\ RowsInStep /\ [Next]_vars => RowsInStep'
<1> SUFFICES ASSUME TInv, OneOpen, RowsInStep, [Next]_vars PROVE RowsInStep'
  OBVIOUS
<1> USE PointersAssumption DEF TInv, TypeOK, RowsInStep
<1>1. ASSUME NEW p \in Proc, ReadInputs(p) PROVE RowsInStep'
  BY <1>1 DEF ReadInputs, Goto
<1>2. ASSUME NEW p \in Proc, ReadConfig(p) PROVE RowsInStep'
  BY <1>2 DEF ReadConfig, Goto
<1>3. ASSUME NEW p \in Proc, Close(p) PROVE RowsInStep'
  BY <1>3 DEF Close, Goto
<1>4. ASSUME NEW p \in Proc, NEW i \in Inputs, AddKnown(p, i) PROVE RowsInStep'
  BY <1>4 DEF AddKnown, Tell
<1>5. ASSUME NEW p \in Proc, NEW i \in Inputs, AddNew(p, i) PROVE RowsInStep'
  BY <1>5 DEF AddNew, Goto
<1>6. ASSUME NEW p \in Proc, Acquire(p) PROVE RowsInStep'
  BY <1>6 DEF Acquire, Goto
<1>7. ASSUME NEW p \in Proc, LockTimeout(p) PROVE RowsInStep'
  BY <1>7 DEF LockTimeout, Error, Goto
<1>8. ASSUME NEW p \in Proc, StoreBlob(p) PROVE RowsInStep'
  BY <1>8 DEF StoreBlob, Goto
<1>9. ASSUME NEW p \in Proc, StoreBlobFails(p) PROVE RowsInStep'
  BY <1>9 DEF StoreBlobFails, Error, Goto
(* The file becomes the copy; no other process has one. *)
<1>10. ASSUME NEW p \in Proc, StoreRows(p) PROVE RowsInStep'
  BY <1>10 DEF StoreRows, Tell, Goto, OneOpen
<1>11. ASSUME NEW p \in Proc, StoreRowsFails(p) PROVE RowsInStep'
  BY <1>11 DEF StoreRowsFails, Error, Goto
<1>12. ASSUME NEW p \in Proc, NEW k \in Keys, NEW v \in Values \cup {Unset}, ConfigSet(p, k, v) PROVE RowsInStep'
  BY <1>12 DEF ConfigSet, Goto
<1>13. ASSUME NEW p \in Proc, StoreConfig(p) PROVE RowsInStep'
  BY <1>13 DEF StoreConfig, Goto
<1>14. ASSUME NEW p \in Proc, StoreConfigFails(p) PROVE RowsInStep'
  BY <1>14 DEF StoreConfigFails, Error, Goto
<1>15. ASSUME NEW p \in Proc, Crash(p) PROVE RowsInStep'
  BY <1>15 DEF Crash, Goto
<1>16. CASE UNCHANGED vars
  BY <1>16 DEF vars
<1> QED
  BY <1>1, <1>2, <1>3, <1>4, <1>5, <1>6, <1>7, <1>8,
     <1>9, <1>10, <1>11, <1>12, <1>13, <1>14, <1>15, <1>16 DEF Next, Work

(* The copies of config.tbl stay in step with the file. *)
LEMMA ConfigStep == TInv /\ OneOpen /\ ConfigInStep /\ [Next]_vars => ConfigInStep'
<1> SUFFICES ASSUME TInv, OneOpen, ConfigInStep, [Next]_vars PROVE ConfigInStep'
  OBVIOUS
<1> USE PointersAssumption DEF TInv, TypeOK, ConfigInStep, Config
<1>1. ASSUME NEW p \in Proc, ReadInputs(p) PROVE ConfigInStep'
  BY <1>1 DEF ReadInputs, Goto
<1>2. ASSUME NEW p \in Proc, ReadConfig(p) PROVE ConfigInStep'
  BY <1>2 DEF ReadConfig, Goto
<1>3. ASSUME NEW p \in Proc, Close(p) PROVE ConfigInStep'
  BY <1>3 DEF Close, Goto
<1>4. ASSUME NEW p \in Proc, NEW i \in Inputs, AddKnown(p, i) PROVE ConfigInStep'
  BY <1>4 DEF AddKnown, Tell
<1>5. ASSUME NEW p \in Proc, NEW i \in Inputs, AddNew(p, i) PROVE ConfigInStep'
  BY <1>5 DEF AddNew, Goto
<1>6. ASSUME NEW p \in Proc, Acquire(p) PROVE ConfigInStep'
  BY <1>6 DEF Acquire, Goto
<1>7. ASSUME NEW p \in Proc, LockTimeout(p) PROVE ConfigInStep'
  BY <1>7 DEF LockTimeout, Error, Goto
<1>8. ASSUME NEW p \in Proc, StoreBlob(p) PROVE ConfigInStep'
  BY <1>8 DEF StoreBlob, Goto
<1>9. ASSUME NEW p \in Proc, StoreBlobFails(p) PROVE ConfigInStep'
  BY <1>9 DEF StoreBlobFails, Error, Goto
<1>10. ASSUME NEW p \in Proc, StoreRows(p) PROVE ConfigInStep'
  BY <1>10 DEF StoreRows, Tell, Goto
<1>11. ASSUME NEW p \in Proc, StoreRowsFails(p) PROVE ConfigInStep'
  BY <1>11 DEF StoreRowsFails, Error, Goto
<1>12. ASSUME NEW p \in Proc, NEW k \in Keys, NEW v \in Values \cup {Unset}, ConfigSet(p, k, v) PROVE ConfigInStep'
  BY <1>12 DEF ConfigSet, Goto
(* The file becomes the copy; no other process has one. *)
<1>13. ASSUME NEW p \in Proc, StoreConfig(p) PROVE ConfigInStep'
  BY <1>13 DEF StoreConfig, Goto, OneOpen
<1>14. ASSUME NEW p \in Proc, StoreConfigFails(p) PROVE ConfigInStep'
  BY <1>14 DEF StoreConfigFails, Error, Goto
<1>15. ASSUME NEW p \in Proc, Crash(p) PROVE ConfigInStep'
  BY <1>15 DEF Crash, Goto
<1>16. CASE UNCHANGED vars
  BY <1>16 DEF vars
<1> QED
  BY <1>1, <1>2, <1>3, <1>4, <1>5, <1>6, <1>7, <1>8,
     <1>9, <1>10, <1>11, <1>12, <1>13, <1>14, <1>15, <1>16 DEF Next, Work

(* The inductive invariant. *)
THEOREM Inductive == Spec => []IInv
<1>1. Init => IInv
  BY TypeInit, DanglingInit, OneOpenInit, InStepInit DEF IInv
<1>2. IInv /\ [Next]_vars => IInv'
  BY TypeStep, DanglingStep, OneOpenStep, RowsStep, ConfigStep DEF IInv
<1> QED
  BY <1>1, <1>2, PTL DEF Spec

(* Type correctness, and the lock is held exactly inside the critical       *)
(* sections of add_input and config_set.                                    *)
THEOREM TypeCorrect == Spec => []TypeOK
<1>1. IInv => TypeOK
  BY DEF IInv, TInv
<1> QED
  BY <1>1, Inductive, PTL

(* No row without its bytes, on disk or in any session's memory, with any   *)
(* number of processes, failed writes and deaths.                           *)
THEOREM Dangling == Spec => []NoDanglingInput
<1>1. IInv => NoDanglingInput
  BY DEF IInv
<1> QED
  BY <1>1, Inductive, PTL

(* While the session has one process at a time and no write fails, every    *)
(* input add_input answered Ok for is in inputs.tbl, whatever dies.         *)
THEOREM Told == Spec => []ToldIfAlone
<1>1. IInv => ToldIfAlone
  BY DEF IInv, RowsInStep, ToldIfAlone, ToldIsStored
<1> QED
  BY <1>1, Inductive, PTL

(* Under the same proviso no rewrite of config.tbl takes an entry back to   *)
(* an older value: only the entry of the config_set under way changes.      *)
THEOREM OwnEntry == Spec => OnlyOwnEntry
<1> DEFINE Own == ~overlapped /\ errors = 0 =>
                     \A k \in Keys : config'[k] # config[k] =>
                        \E p \in Proc : pc[p] = "setTable" /\ arg[p] = k
<1>1. IInv /\ [Next]_vars => [Own]_vars
  <2> SUFFICES ASSUME IInv, [Next]_vars, ~overlapped, errors = 0,
                      NEW k \in Keys, config'[k] # config[k]
               PROVE  \E p \in Proc : pc[p] = "setTable" /\ arg[p] = k
    OBVIOUS
  <2>1. PICK p \in Proc : StoreConfig(p) \/ StoreConfigFails(p)
    BY DEF Next, Work, vars, ReadInputs, ReadConfig, Close, AddKnown, AddNew, Acquire,
           LockTimeout, StoreBlob, StoreBlobFails, StoreRows, StoreRowsFails, ConfigSet,
           Crash
  <2>2. memConfig[p][k] # config[k]
    BY <2>1 DEF StoreConfig, StoreConfigFails
  <2> QED
    BY <2>1, <2>2 DEF IInv, ConfigInStep, StoreConfig, StoreConfigFails
<1> QED
  BY <1>1, Inductive, PTL DEF Spec, OnlyOwnEntry
=============================================================================
