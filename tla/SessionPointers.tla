--------------------------- MODULE SessionPointers ---------------------------
(***************************************************************************)
(* The mutable half of a session directory: inputs.tbl and config.tbl.     *)
(* Session::open, add_input and config_set of                              *)
(* crates/mosura-api/src/session/mod.rs, over write_file_atomic of         *)
(* session/store.rs (a temp file and a rename: one step).  Each process    *)
(* reads both tables once, when it opens the session, and afterwards       *)
(* rewrites them whole from its own copy, under the session lock (an ideal *)
(* one here; SessionLock models the real one).                             *)
(***************************************************************************)
EXTENDS Naturals, FiniteSets

CONSTANTS
    Proc,
    Inputs,         \* input files, each standing for its digest
    Keys, Values,   \* config entries
    Unset,          \* a config key with no value
    NoProc,
    MaxErrors,      \* bound: I/O errors and lock timeouts together
    MaxCrashes      \* bound: processes that die inside a call

ASSUME PointersAssumption ==
    /\ Inputs # {}
    /\ Unset \notin Values
    /\ NoProc \notin Proc
    /\ MaxErrors \in Nat
    /\ MaxCrashes \in Nat

VARIABLES
    rows,           \* inputs.tbl
    blobs,          \* the files under inputs/
    config,         \* config.tbl
    memRows,        \* memRows[p]: Session.inputs
    memConfig,      \* memConfig[p]: Session.config
    lock, pc,
    arg,            \* arg[p]: the input of add_input, or the key of config_set
    errors, crashes,
    told,           \* the inputs for which add_input has answered Ok
    overlapped      \* whether two processes have had the session open at once

vars == <<rows, blobs, config, memRows, memConfig, lock, pc, arg, errors, crashes, told, overlapped>>

Config == [Keys -> Values \cup {Unset}]

Points == {"closed", "opening", "open", "addLock", "addBlob", "addTable", "setLock", "setTable"}

TypeOK ==
    /\ rows \subseteq Inputs
    /\ blobs \subseteq Inputs
    /\ config \in Config
    /\ memRows \in [Proc -> SUBSET Inputs]
    /\ memConfig \in [Proc -> Config]
    /\ lock \in Proc \cup {NoProc}
    /\ pc \in [Proc -> Points]
    /\ arg \in [Proc -> Inputs \cup Keys]
    /\ errors \in 0..MaxErrors
    /\ crashes \in 0..MaxCrashes
    /\ told \subseteq Inputs
    /\ overlapped \in BOOLEAN
    /\ \A p \in Proc : lock = p <=> pc[p] \in {"addBlob", "addTable", "setTable"}

Init ==
    /\ rows = {}
    /\ blobs = {}
    /\ config = [k \in Keys |-> Unset]
    /\ memRows = [p \in Proc |-> {}]
    /\ memConfig = [p \in Proc |-> config]
    /\ lock = NoProc
    /\ pc = [p \in Proc |-> "closed"]
    /\ arg \in [Proc -> {CHOOSE i \in Inputs : TRUE}]
    /\ errors = 0
    /\ crashes = 0
    /\ told = {}
    /\ overlapped = FALSE

Goto(p, l) == pc' = [pc EXCEPT ![p] = l]

Tell(i) == told' = told \cup {i}

Error == errors < MaxErrors /\ errors' = errors + 1 /\ UNCHANGED crashes

-----------------------------------------------------------------------------
(* Session::open: inputs.tbl, then config.tbl, without the lock. *)

ReadInputs(p) ==
    /\ pc[p] = "closed"
    /\ memRows' = [memRows EXCEPT ![p] = rows]
    /\ overlapped' = (overlapped \/ \E q \in Proc \ {p} : pc[q] # "closed")
    /\ Goto(p, "opening")
    /\ UNCHANGED <<rows, blobs, config, memConfig, lock, arg, errors, crashes, told>>

(* Mutation: config.tbl is not read back. *)
ReadConfigEmpty(p) ==
    /\ pc[p] = "opening"
    /\ memConfig' = [memConfig EXCEPT ![p] = [k \in Keys |-> Unset]]
    /\ Goto(p, "open")
    /\ UNCHANGED <<rows, blobs, config, memRows, lock, arg, errors, crashes, told, overlapped>>

ReadConfig(p) ==
    /\ pc[p] = "opening"
    /\ memConfig' = [memConfig EXCEPT ![p] = config]
    /\ Goto(p, "open")
    /\ UNCHANGED <<rows, blobs, config, memRows, lock, arg, errors, crashes, told, overlapped>>

(* The session value is dropped, or the process ends between calls. *)
Close(p) ==
    /\ pc[p] = "open"
    /\ Goto(p, "closed")
    /\ UNCHANGED <<rows, blobs, config, memRows, memConfig, lock, arg, errors, crashes, told, overlapped>>

-----------------------------------------------------------------------------
(* add_input *)

(* The digest is among the rows in memory: nothing to do. *)
AddKnown(p, i) ==
    /\ pc[p] = "open"
    /\ i \in memRows[p]
    /\ Tell(i)
    /\ UNCHANGED <<rows, blobs, config, memRows, memConfig, lock, pc, arg, errors, crashes, overlapped>>

(* Mutation: the row joins the copy in memory before the bytes are stored. *)
AddNewEarly(p, i) ==
    /\ pc[p] = "open"
    /\ i \notin memRows[p]
    /\ arg' = [arg EXCEPT ![p] = i]
    /\ memRows' = [memRows EXCEPT ![p] = @ \cup {i}]
    /\ Goto(p, "addLock")
    /\ UNCHANGED <<rows, blobs, config, memConfig, lock, errors, crashes, told, overlapped>>

AddNew(p, i) ==
    /\ pc[p] = "open"
    /\ i \notin memRows[p]
    /\ arg' = [arg EXCEPT ![p] = i]
    /\ Goto(p, "addLock")
    /\ UNCHANGED <<rows, blobs, config, memRows, memConfig, lock, errors, crashes, told, overlapped>>

(* Lock::acquire: granted, or given up after five seconds. *)
Acquire(p) ==
    /\ pc[p] \in {"addLock", "setLock"}
    /\ lock = NoProc
    /\ lock' = p
    /\ Goto(p, IF pc[p] = "addLock" THEN "addBlob" ELSE "setTable")
    /\ UNCHANGED <<rows, blobs, config, memRows, memConfig, arg, errors, crashes, told, overlapped>>

LockTimeout(p) ==
    /\ pc[p] \in {"addLock", "setLock"}
    /\ lock # NoProc
    /\ Error
    /\ Goto(p, "open")
    /\ UNCHANGED <<rows, blobs, config, memRows, memConfig, lock, arg, told, overlapped>>

(* The bytes first, when they are not there; then the row joins the copy in *)
(* memory.                                                                  *)
StoreBlob(p) ==
    /\ pc[p] = "addBlob"
    /\ blobs' = blobs \cup {arg[p]}
    /\ memRows' = [memRows EXCEPT ![p] = @ \cup {arg[p]}]
    /\ Goto(p, "addTable")
    /\ UNCHANGED <<rows, config, memConfig, lock, arg, errors, crashes, told, overlapped>>

(* A write that fails in its last call, sync_dir, has replaced the file. *)
StoreBlobFails(p) ==
    /\ pc[p] = "addBlob"
    /\ arg[p] \notin blobs
    /\ Error
    /\ blobs' \in {blobs, blobs \cup {arg[p]}}
    /\ lock' = NoProc
    /\ Goto(p, "open")
    /\ UNCHANGED <<rows, config, memRows, memConfig, arg, told, overlapped>>

(* Mutation: the table is written, the lock guard is leaked. *)
StoreRowsKeepLock(p) ==
    /\ pc[p] = "addTable"
    /\ rows' = memRows[p]
    /\ Tell(arg[p])
    /\ Goto(p, "open")
    /\ UNCHANGED <<blobs, config, memRows, memConfig, lock, arg, errors, crashes, overlapped>>

(* Mutation: the table is rendered before the new row is pushed. *)
StoreRowsBeforePush(p) ==
    /\ pc[p] = "addTable"
    /\ rows' = memRows[p] \ {arg[p]}
    /\ lock' = NoProc
    /\ Tell(arg[p])
    /\ Goto(p, "open")
    /\ UNCHANGED <<blobs, config, memRows, memConfig, arg, errors, crashes, overlapped>>

(* inputs.tbl is rewritten whole from memory, and the lock dropped. *)
StoreRows(p) ==
    /\ pc[p] = "addTable"
    /\ rows' = memRows[p]
    /\ lock' = NoProc
    /\ Tell(arg[p])
    /\ Goto(p, "open")
    /\ UNCHANGED <<blobs, config, memRows, memConfig, arg, errors, crashes, overlapped>>

(* The rewrite fails: Err, and the row stays in memory. *)
StoreRowsFails(p) ==
    /\ pc[p] = "addTable"
    /\ Error
    /\ rows' \in {rows, memRows[p]}
    /\ lock' = NoProc
    /\ Goto(p, "open")
    /\ UNCHANGED <<blobs, config, memRows, memConfig, arg, told, overlapped>>

-----------------------------------------------------------------------------
(* config_set: memory first, then the lock and the file. *)

ConfigSet(p, k, v) ==
    /\ pc[p] = "open"
    /\ memConfig' = [memConfig EXCEPT ![p][k] = v]
    /\ arg' = [arg EXCEPT ![p] = k]
    /\ Goto(p, "setLock")
    /\ UNCHANGED <<rows, blobs, config, memRows, lock, errors, crashes, told, overlapped>>

StoreConfig(p) ==
    /\ pc[p] = "setTable"
    /\ config' = memConfig[p]
    /\ lock' = NoProc
    /\ Goto(p, "open")
    /\ UNCHANGED <<rows, blobs, memRows, memConfig, arg, errors, crashes, told, overlapped>>

StoreConfigFails(p) ==
    /\ pc[p] = "setTable"
    /\ Error
    /\ config' \in {config, memConfig[p]}
    /\ lock' = NoProc
    /\ Goto(p, "open")
    /\ UNCHANGED <<rows, blobs, memRows, memConfig, arg, told, overlapped>>

(* The process dies inside a call; its lock is taken over. *)
Crash(p) ==
    /\ pc[p] \notin {"closed", "open"}
    /\ crashes < MaxCrashes
    /\ crashes' = crashes + 1
    /\ lock' = IF lock = p THEN NoProc ELSE lock
    /\ Goto(p, "closed")
    /\ UNCHANGED <<rows, blobs, config, memRows, memConfig, arg, errors, told, overlapped>>

Work(p) ==
    \/ ReadInputs(p) \/ ReadConfig(p) \/ Close(p)
    \/ \E i \in Inputs : AddKnown(p, i) \/ AddNew(p, i)
    \/ Acquire(p) \/ LockTimeout(p)
    \/ StoreBlob(p) \/ StoreBlobFails(p) \/ StoreRows(p) \/ StoreRowsFails(p)
    \/ \E k \in Keys, v \in Values \cup {Unset} : ConfigSet(p, k, v)
    \/ StoreConfig(p) \/ StoreConfigFails(p)
    \/ Crash(p)

Next == \E p \in Proc : Work(p)

Spec == Init /\ [][Next]_vars

-----------------------------------------------------------------------------
(* Properties. *)

(* No row without its bytes: whatever dies in between, an input that        *)
(* inputs.tbl or a session in memory names can be read.                     *)
NoDanglingInput == rows \cup UNION {memRows[p] : p \in Proc} \subseteq blobs

(* An input for which add_input answered Ok is in inputs.tbl: the next      *)
(* process that opens the session finds it.                                 *)
ToldIsStored == told \subseteq rows

(* One process at a time, and no failed write: then add_input's Ok can be   *)
(* relied on, whatever dies inside a call.                                  *)
ToldIfAlone == ~overlapped /\ errors = 0 => ToldIsStored

(* Under the same proviso a config entry changes on disk only through a     *)
(* config_set of that entry, though config.tbl is rewritten whole: no other *)
(* entry is carried back to an older value.                                 *)
OnlyOwnEntry ==
    [][~overlapped /\ errors = 0 =>
          \A k \in Keys : config'[k] # config[k] =>
             \E p \in Proc : pc[p] = "setTable" /\ arg[p] = k]_vars
=============================================================================
