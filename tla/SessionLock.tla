----------------------------- MODULE SessionLock -----------------------------
(***************************************************************************)
(* The session's lock file: Lock::acquire, Lock::stale and Drop of         *)
(* crates/mosura-api/src/session/lock.rs, as the processes that share one  *)
(* session directory run them.  A step is one system call (open with       *)
(* O_EXCL, write, read, /proc lookup or stat, unlink), so the calls of     *)
(* different processes interleave.  Processes may die at any point.        *)
(***************************************************************************)
EXTENDS Naturals, FiniteSets

CONSTANTS
    Proc,           \* processes; a process stands for its pid too
    Empty,          \* the content of a lock file whose pid was not written
    NoFile,         \* the lock file does not exist
    MaxCrash        \* bound: how many processes die

ASSUME LockAssumption ==
    /\ Empty \notin Proc
    /\ NoFile \notin [by : Proc, pid : Proc \cup {Empty}, aged : BOOLEAN]
    /\ MaxCrash \in Nat

VARIABLES
    lock,           \* the file: its creator, its content, older than STALE_AFTER
    alive,          \* the processes /proc lists
    pc,             \* where each process is in acquire
    holder,         \* holder[p]: the content p read last
    robbed          \* history: a takeover unlinked the file of a live process

vars == <<lock, alive, pc, holder, robbed>>

File == [by : Proc, pid : Proc \cup {Empty}, aged : BOOLEAN]

Points == {"idle", "open", "write", "read", "check", "remove", "wait", "held"}

TypeOK ==
    /\ lock \in File \cup {NoFile}
    /\ alive \subseteq Proc
    /\ pc \in [Proc -> Points]
    /\ holder \in [Proc -> Proc \cup {Empty}]
    /\ robbed \in BOOLEAN
    /\ lock # NoFile => lock.pid \in {lock.by, Empty}

Init ==
    /\ lock = NoFile
    /\ alive = Proc
    /\ pc = [p \in Proc |-> "idle"]
    /\ holder = [p \in Proc |-> Empty]
    /\ robbed = FALSE

Goto(p, l) == pc' = [pc EXCEPT ![p] = l]

At(p, l) == p \in alive /\ pc[p] = l

-----------------------------------------------------------------------------
(* acquire *)

Call(p) ==
    /\ At(p, "idle")
    /\ Goto(p, "open")
    /\ UNCHANGED <<lock, alive, holder, robbed>>

(* Mutation: the file is opened without O_EXCL. *)
CreateShared(p) ==
    /\ At(p, "open")
    /\ lock' = [by |-> p, pid |-> Empty, aged |-> FALSE]
    /\ Goto(p, "write")
    /\ UNCHANGED <<alive, holder, robbed>>

(* open(O_CREAT | O_EXCL) *)
Create(p) ==
    /\ At(p, "open")
    /\ lock = NoFile
    /\ lock' = [by |-> p, pid |-> Empty, aged |-> FALSE]
    /\ Goto(p, "write")
    /\ UNCHANGED <<alive, holder, robbed>>

AlreadyExists(p) ==
    /\ At(p, "open")
    /\ lock # NoFile
    /\ Goto(p, "read")
    /\ UNCHANGED <<lock, alive, holder, robbed>>

(* Mutation: the pid is written to the path, whoever's file is there. *)
WritePidToPath(p) ==
    /\ At(p, "write")
    /\ lock' = IF lock = NoFile THEN lock ELSE [lock EXCEPT !.pid = p]
    /\ Goto(p, "held")
    /\ UNCHANGED <<alive, holder, robbed>>

(* The pid goes into the file p opened, which another process may have      *)
(* unlinked since; an error of the write is ignored.                        *)
WritePid(p) ==
    /\ At(p, "write")
    /\ lock' \in {lock} \cup IF lock # NoFile /\ lock.by = p
                               THEN {[lock EXCEPT !.pid = p]} ELSE {}
    /\ Goto(p, "held")
    /\ UNCHANGED <<alive, holder, robbed>>

(* read_to_string(..).unwrap_or_default(): a missing file reads as empty. *)
Read(p) ==
    /\ At(p, "read")
    /\ holder' = [holder EXCEPT ![p] = IF lock = NoFile THEN Empty ELSE lock.pid]
    /\ Goto(p, "check")
    /\ UNCHANGED <<lock, alive, robbed>>

(* Mutation: a pid is trusted whether or not its process still runs. *)
staleUnchecked(p) ==
    IF holder[p] # Empty THEN FALSE ELSE lock = NoFile \/ lock.aged

(* The verdict on what was read: by /proc when it names a pid, otherwise by *)
(* the age of the file now at the path, a missing one counting as stale.    *)
stale(p) ==
    IF holder[p] # Empty THEN holder[p] \notin alive ELSE lock = NoFile \/ lock.aged

Check(p) ==
    /\ At(p, "check")
    /\ Goto(p, IF stale(p) THEN "remove" ELSE "wait")
    /\ holder' = [holder EXCEPT ![p] = Empty]
    /\ UNCHANGED <<lock, alive, robbed>>

(* remove_file by path: whatever file is there now. *)
Remove(p) ==
    /\ At(p, "remove")
    /\ lock' = NoFile
    /\ robbed' = (robbed \/ (lock # NoFile /\ lock.by \in alive))
    /\ Goto(p, "open")
    /\ UNCHANGED <<alive, holder>>

(* The deadline decides between another attempt and WouldBlock. *)
Sleep(p) ==
    /\ At(p, "wait")
    /\ Goto(p, "open")
    /\ UNCHANGED <<lock, alive, holder, robbed>>

WouldBlock(p) ==
    /\ At(p, "wait")
    /\ Goto(p, "idle")
    /\ UNCHANGED <<lock, alive, holder, robbed>>

(* Drop: remove_file, without looking whose file it is. *)
Release(p) ==
    /\ At(p, "held")
    /\ lock' = NoFile
    /\ Goto(p, "idle")
    /\ UNCHANGED <<alive, holder, robbed>>

-----------------------------------------------------------------------------
(* The environment. *)

Crash(p) ==
    /\ p \in alive
    /\ Cardinality(Proc \ alive) < MaxCrash
    /\ alive' = alive \ {p}
    /\ UNCHANGED <<lock, pc, holder, robbed>>

(* STALE_AFTER passes.  A live process is assumed to write its pid, or to   *)
(* release, within that time: only an abandoned file ages.                  *)
Age ==
    /\ lock # NoFile
    /\ lock.by \notin alive
    /\ ~lock.aged
    /\ lock' = [lock EXCEPT !.aged = TRUE]
    /\ UNCHANGED <<alive, pc, holder, robbed>>

Step(p) ==
    \/ Call(p) \/ Create(p) \/ AlreadyExists(p) \/ WritePid(p)
    \/ Read(p) \/ Check(p) \/ Remove(p)
    \/ Sleep(p) \/ WouldBlock(p) \/ Release(p)

Next == (\E p \in Proc : Step(p) \/ Crash(p)) \/ Age

Spec == Init /\ [][Next]_vars

(* Every process that lives keeps running its code, the session keeps being *)
(* used, and time passes.                                                   *)
FairSpec ==
    /\ Spec
    /\ \A p \in Proc : WF_vars(Step(p))
    /\ WF_vars(Age)

-----------------------------------------------------------------------------
(* Properties. *)

(* Lock::acquire serializes: no two live processes are between acquire and  *)
(* drop at once.                                                            *)
MutualExclusion ==
    \A p, q \in Proc : At(p, "held") /\ At(q, "held") => p = q

(* Exclusion is lost through the takeover and nothing else: as long as no   *)
(* unlink of a file judged stale hits the file of a live process, O_EXCL    *)
(* keeps the holders apart, across crashes and unwritten pids.              *)
ExclusiveUnlessRobbed == ~robbed => MutualExclusion

(* The session stays usable: whatever processes die, some live process      *)
(* keeps getting the lock; so the lock of a dead owner is taken over, also  *)
(* when it died before it wrote its pid.                                    *)
SomeoneGetsIn == []<>(alive = {} \/ \E p \in Proc : At(p, "held"))
=============================================================================
