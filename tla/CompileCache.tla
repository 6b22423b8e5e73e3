----------------------------- MODULE CompileCache -----------------------------
(***************************************************************************)
(* The compile service of a session: toolchain.open and compile_table of   *)
(* crates/mosura-api/src/ops/toolchain.rs, over Cached (cache.rs) over     *)
(* Locked (locked.rs) of crates/mosura-core/src/recompile/toolchain/, run  *)
(* by processes that drive the same compiler install.  The driver beneath  *)
(* is a black box here (CompilerDriver opens it): for each unit it either  *)
(* gives the compiler's verdict or leaves the unit unadjudicated.  A slot's *)
(* .log file holds diagnostics no property reads and is left out.          *)
(***************************************************************************)
EXTENDS Naturals, FiniteSets

CONSTANTS
    Proc, NoProc,
    Names,              \* toolchain names
    Units,              \* compile units: a source and its flags
    Source,             \* Source[u]: the text of u
    Hash,               \* Hash[u]: Fnv over the toolchain id, the flags and the source
    Accepts,            \* the units the compiler compiles; it rejects the others
    Cache,              \* Cache[p]: the directory p's objects are cached in
    InstallWritable,    \* whether <install>/.mosura-lock can be created
    CacheGroup,         \* CACHE_GROUP
    Install,            \* the lock path in the install directory
    NoFile, Torn,       \* a file that is absent; one truncated and not yet rewritten
    MaxErrors,          \* bound: failing I/O calls
    MaxCrashes          \* bound: processes that die

Slots == {Cache[p] : p \in Proc} \X {Hash[u] : u \in Units}
Paths == {Install} \cup {Cache[p] : p \in Proc}
Sources == {Source[u] : u \in Units}

ASSUME CacheAssumption ==
    /\ NoProc \notin Proc
    /\ Units # {}
    /\ Accepts \subseteq Units
    /\ {NoFile, Torn} \cap (Units \cup Sources) = {}
    /\ NoFile # Torn
    /\ InstallWritable \in BOOLEAN
    /\ CacheGroup \in Nat \ {0}
    /\ MaxErrors \in Nat
    /\ MaxCrashes \in Nat

VARIABLES
    src, obj,       \* <slot>.c and <slot>.obj
    holder,         \* holder[l]: who holds the advisory lock on path l
    toolchains,     \* toolchains[p]: the names open in p's session
    work,           \* work[p]: whether <session>/tmp/<pid> exists
    pc, cur,        \* where p is, and the unit it reads or writes
    look, todo,     \* units still to look up; units that missed
    group, judged,  \* the group being compiled; its units with a verdict
    answers,        \* answers[p]: the outputs of p's batch, until it returns them
    errors, crashes,
    strays,         \* compilers at work whose process has died
    spoiled         \* history: something came between two writes of an entry,
                    \* or two batches ran at once

vars == <<src, obj, holder, toolchains, work, pc, cur, look, todo, group, judged,
          answers, errors, crashes, strays, spoiled>>

Points == {"idle", "lookup", "exists", "readObj", "lock", "compile", "store",
           "storeSrc", "storeObj", "storeBytes"}

Answer == [unit : Units, object : Units \cup {NoFile, Torn}, adjudicated : BOOLEAN]

TypeOK ==
    /\ src \in [Slots -> Sources \cup {NoFile, Torn}]
    /\ obj \in [Slots -> Units \cup {NoFile, Torn}]
    /\ holder \in [Paths -> Proc \cup {NoProc}]
    /\ toolchains \in [Proc -> SUBSET Names]
    /\ work \in [Proc -> BOOLEAN]
    /\ pc \in [Proc -> Points]
    /\ cur \in [Proc -> Units]
    /\ look \in [Proc -> SUBSET Units]
    /\ todo \in [Proc -> SUBSET Units]
    /\ group \in [Proc -> SUBSET Units]
    /\ judged \in [Proc -> SUBSET Units]
    /\ answers \in [Proc -> SUBSET Answer]
    /\ errors \in 0..MaxErrors
    /\ crashes \in 0..MaxCrashes
    /\ strays \in 0..crashes
    /\ spoiled \in BOOLEAN
    /\ \A l \in Paths : holder[l] # NoProc => pc[holder[l]] = "compile"

Init ==
    /\ src = [s \in Slots |-> NoFile]
    /\ obj = [s \in Slots |-> NoFile]
    /\ holder = [l \in Paths |-> NoProc]
    /\ toolchains = [p \in Proc |-> {}]
    /\ work = [p \in Proc |-> FALSE]
    /\ pc = [p \in Proc |-> "idle"]
    /\ cur \in [Proc -> {CHOOSE u \in Units : TRUE}]
    /\ look = [p \in Proc |-> {}]
    /\ todo = [p \in Proc |-> {}]
    /\ group = [p \in Proc |-> {}]
    /\ judged = [p \in Proc |-> {}]
    /\ answers = [p \in Proc |-> {}]
    /\ errors = 0
    /\ crashes = 0
    /\ strays = 0
    /\ spoiled = FALSE

Goto(p, l) == pc' = [pc EXCEPT ![p] = l]

slot(p, u) == <<Cache[p], Hash[u]>>

Reply(p, u, o, a) ==
    answers' = [answers EXCEPT ![p] = @ \cup {[unit |-> u, object |-> o, adjudicated |-> a]}]

Error == errors < MaxErrors /\ errors' = errors + 1

-----------------------------------------------------------------------------
(* toolchain.open *)

(* The new driver's work directory is created first; a toolchain already    *)
(* open under the name is then replaced, and its driver, dropped, removes   *)
(* the directory the two share.                                             *)
Open(p, n) ==
    /\ pc[p] = "idle"
    /\ toolchains' = [toolchains EXCEPT ![p] = @ \cup {n}]
    /\ work' = [work EXCEPT ![p] = n \notin toolchains[p]]
    /\ UNCHANGED <<src, obj, holder, pc, cur, look, todo, group, judged, answers,
                   errors, crashes, strays>>

(* Locked::new or Cached::new fails: the new driver is dropped, and removes *)
(* the directory it shares with the toolchains that are open.               *)
OpenFails(p) ==
    /\ pc[p] = "idle"
    /\ Error
    /\ work' = [work EXCEPT ![p] = FALSE]
    /\ UNCHANGED <<src, obj, holder, toolchains, pc, cur, look, todo, group, judged, answers,
                   crashes, strays>>

(* Locked::new: the path the process locks. *)
lock_path(p) == IF InstallWritable THEN Install ELSE Cache[p]

-----------------------------------------------------------------------------
(* Cached::compile_batch: every unit is looked up first. *)

CompileBatch(p, units) ==
    /\ pc[p] = "idle"
    /\ toolchains[p] # {}
    /\ look' = [look EXCEPT ![p] = units]
    /\ todo' = [todo EXCEPT ![p] = {}]
    /\ answers' = [answers EXCEPT ![p] = {}]
    /\ Goto(p, "lookup")
    /\ UNCHANGED <<src, obj, holder, toolchains, work, cur, group, judged, errors, crashes, strays>>

(* Mutation: the digest is trusted, the stored source is not compared. *)
ReadSourceTrusting(p, u) ==
    /\ pc[p] = "lookup"
    /\ u \in look[p]
    /\ look' = [look EXCEPT ![p] = @ \ {u}]
    /\ IF src[slot(p, u)] # NoFile
       THEN cur' = [cur EXCEPT ![p] = u] /\ Goto(p, "exists") /\ UNCHANGED todo
       ELSE todo' = [todo EXCEPT ![p] = @ \cup {u}] /\ UNCHANGED <<pc, cur>>
    /\ UNCHANGED <<src, obj, holder, toolchains, work, group, judged, answers,
                   errors, crashes, strays>>

(* read: the stored source must be the unit's. *)
ReadSource(p, u) ==
    /\ pc[p] = "lookup"
    /\ u \in look[p]
    /\ look' = [look EXCEPT ![p] = @ \ {u}]
    /\ IF src[slot(p, u)] = Source[u]
       THEN cur' = [cur EXCEPT ![p] = u] /\ Goto(p, "exists") /\ UNCHANGED todo
       ELSE todo' = [todo EXCEPT ![p] = @ \cup {u}] /\ UNCHANGED <<pc, cur>>
    /\ UNCHANGED <<src, obj, holder, toolchains, work, group, judged, answers,
                   errors, crashes, strays>>

(* No object file: the stored verdict is a rejection. *)
HitRejected(p) ==
    /\ pc[p] = "exists"
    /\ obj[slot(p, cur[p])] = NoFile
    /\ Reply(p, cur[p], NoFile, TRUE)
    /\ Goto(p, "lookup")
    /\ UNCHANGED <<src, obj, holder, toolchains, work, cur, look, todo, group, judged,
                   errors, crashes, strays>>

SeeObject(p) ==
    /\ pc[p] = "exists"
    /\ obj[slot(p, cur[p])] # NoFile
    /\ Goto(p, "readObj")
    /\ UNCHANGED <<src, obj, holder, toolchains, work, cur, look, todo, group, judged,
                   answers, errors, crashes, strays>>

HitObject(p) ==
    /\ pc[p] = "readObj"
    /\ obj[slot(p, cur[p])] # NoFile
    /\ Reply(p, cur[p], obj[slot(p, cur[p])], TRUE)
    /\ Goto(p, "lookup")
    /\ UNCHANGED <<src, obj, holder, toolchains, work, cur, look, todo, group, judged,
                   errors, crashes, strays>>

(* The object went away after exists() saw it, or cannot be read: a miss. *)
MissObject(p) ==
    /\ pc[p] = "readObj"
    /\ obj[slot(p, cur[p])] = NoFile \/ errors < MaxErrors
    /\ errors' = IF obj[slot(p, cur[p])] = NoFile THEN errors ELSE errors + 1
    /\ todo' = [todo EXCEPT ![p] = @ \cup {cur[p]}]
    /\ Goto(p, "lookup")
    /\ UNCHANGED <<src, obj, holder, toolchains, work, cur, look, group, judged,
                   answers, crashes, strays>>

(* The misses go to the driver in chunks of CACHE_GROUP. *)
NextGroup(p) ==
    /\ pc[p] = "lookup"
    /\ look[p] = {}
    /\ \E g \in SUBSET todo[p] :
          /\ g # {}
          /\ Cardinality(g) = CacheGroup \/ (Cardinality(g) < CacheGroup /\ g = todo[p])
          /\ group' = [group EXCEPT ![p] = g]
          /\ todo' = [todo EXCEPT ![p] = @ \ g]
    /\ Goto(p, "lock")
    /\ UNCHANGED <<src, obj, holder, toolchains, work, cur, look, judged, answers,
                   errors, crashes, strays>>

BatchDone(p) ==
    /\ pc[p] = "lookup"
    /\ look[p] = {}
    /\ todo[p] = {}
    /\ answers' = [answers EXCEPT ![p] = {}]
    /\ Goto(p, "idle")
    /\ UNCHANGED <<src, obj, holder, toolchains, work, cur, look, todo, group, judged,
                   errors, crashes, strays>>

-----------------------------------------------------------------------------
(* Locked::compile_batch *)

(* Mutation: try_acquire, its refusal ignored. *)
AcquireAnyway(p) ==
    /\ pc[p] = "lock"
    /\ holder' = [holder EXCEPT ![lock_path(p)] = p]
    /\ Goto(p, "compile")
    /\ UNCHANGED <<src, obj, toolchains, work, cur, look, todo, group, judged, answers,
                   errors, crashes, strays>>

Acquire(p) ==
    /\ pc[p] = "lock"
    /\ holder[lock_path(p)] = NoProc
    /\ holder' = [holder EXCEPT ![lock_path(p)] = p]
    /\ Goto(p, "compile")
    /\ UNCHANGED <<src, obj, toolchains, work, cur, look, todo, group, judged, answers,
                   errors, crashes, strays>>

(* acquire() answers Err; the result is kept as the guard, unexamined. *)
AcquireFails(p) ==
    /\ pc[p] = "lock"
    /\ Error
    /\ Goto(p, "compile")
    /\ UNCHANGED <<src, obj, holder, toolchains, work, cur, look, todo, group, judged,
                   answers, crashes, strays>>

(* Mutation: the guard is forgotten, not dropped. *)
CompileKeepsLock(p) ==
    /\ pc[p] = "compile"
    /\ judged' \in {[judged EXCEPT ![p] = j] : j \in SUBSET group[p]}
    /\ work[p] \/ judged'[p] = {}
    /\ Goto(p, "store")
    /\ UNCHANGED <<src, obj, holder, toolchains, work, cur, look, todo, group, answers,
                   errors, crashes, strays>>

(* The driver runs the group; without its work directory nothing is staged  *)
(* and nothing answers.  Then the lock is dropped.                          *)
Compile(p) ==
    /\ pc[p] = "compile"
    /\ judged' \in {[judged EXCEPT ![p] = j] : j \in SUBSET group[p]}
    /\ work[p] \/ judged'[p] = {}
    /\ holder' = [l \in Paths |-> IF holder[l] = p THEN NoProc ELSE holder[l]]
    /\ Goto(p, "store")
    /\ UNCHANGED <<src, obj, toolchains, work, cur, look, todo, group, answers,
                   errors, crashes, strays>>

-----------------------------------------------------------------------------
(* Cached::write, for the adjudicated units of the group, in turn. *)

Pass(p, u) ==
    /\ pc[p] = "store"
    /\ u \in group[p] \ judged[p]
    /\ group' = [group EXCEPT ![p] = @ \ {u}]
    /\ Reply(p, u, NoFile, FALSE)
    /\ UNCHANGED <<src, obj, holder, toolchains, work, pc, cur, look, todo, judged,
                   errors, crashes, strays>>

(* fs::write truncates, then writes. *)
TruncateSource(p, u) ==
    /\ pc[p] = "store"
    /\ u \in group[p] \cap judged[p]
    /\ group' = [group EXCEPT ![p] = @ \ {u}]
    /\ cur' = [cur EXCEPT ![p] = u]
    /\ src' = [src EXCEPT ![slot(p, u)] = Torn]
    /\ Goto(p, "storeSrc")
    /\ UNCHANGED <<obj, holder, toolchains, work, look, todo, judged, answers,
                   errors, crashes, strays>>

StoreSource(p) ==
    /\ pc[p] = "storeSrc"
    /\ src' = [src EXCEPT ![slot(p, cur[p])] = Source[cur[p]]]
    /\ Goto(p, "storeObj")
    /\ UNCHANGED <<obj, holder, toolchains, work, cur, look, todo, group, judged, answers,
                   errors, crashes, strays>>

TruncateObject(p) ==
    /\ pc[p] = "storeObj"
    /\ cur[p] \in Accepts
    /\ obj' = [obj EXCEPT ![slot(p, cur[p])] = Torn]
    /\ Goto(p, "storeBytes")
    /\ UNCHANGED <<src, holder, toolchains, work, cur, look, todo, group, judged, answers,
                   errors, crashes, strays>>

StoreObject(p) ==
    /\ pc[p] = "storeBytes"
    /\ obj' = [obj EXCEPT ![slot(p, cur[p])] = cur[p]]
    /\ Reply(p, cur[p], cur[p], TRUE)
    /\ Goto(p, "store")
    /\ UNCHANGED <<src, holder, toolchains, work, cur, look, todo, group, judged,
                   errors, crashes, strays>>

RemoveObject(p) ==
    /\ pc[p] = "storeObj"
    /\ cur[p] \notin Accepts
    /\ obj' = [obj EXCEPT ![slot(p, cur[p])] = NoFile]
    /\ Reply(p, cur[p], NoFile, TRUE)
    /\ Goto(p, "store")
    /\ UNCHANGED <<src, holder, toolchains, work, cur, look, todo, group, judged,
                   errors, crashes, strays>>

(* A call of write fails; its result is discarded and the next one follows. *)
StoreFails(p) ==
    /\ Error
    /\ \/ /\ pc[p] = "storeSrc"
          /\ Goto(p, "storeObj")
          /\ UNCHANGED answers
       \/ /\ pc[p] \in {"storeObj", "storeBytes"}
          /\ Reply(p, cur[p], IF cur[p] \in Accepts THEN cur[p] ELSE NoFile, TRUE)
          /\ Goto(p, "store")
    /\ UNCHANGED <<src, obj, holder, toolchains, work, cur, look, todo, group, judged,
                   crashes, strays>>

GroupDone(p) ==
    /\ pc[p] = "store"
    /\ group[p] = {}
    /\ judged' = [judged EXCEPT ![p] = {}]
    /\ Goto(p, "lookup")
    /\ UNCHANGED <<src, obj, holder, toolchains, work, cur, look, todo, group,
                   answers, errors, crashes, strays>>

-----------------------------------------------------------------------------
(* The process dies and is started again: memory is lost, the advisory lock *)
(* is released by the system, the files stay.  The new pid has a work       *)
(* directory of its own.  A compiler it was waiting for is a process of its *)
(* own and may run on.                                                      *)
Crash(p) ==
    /\ crashes < MaxCrashes
    /\ crashes' = crashes + 1
    /\ strays' \in {strays, IF pc[p] = "compile" THEN strays + 1 ELSE strays}
    /\ holder' = [l \in Paths |-> IF holder[l] = p THEN NoProc ELSE holder[l]]
    /\ toolchains' = [toolchains EXCEPT ![p] = {}]
    /\ work' = [work EXCEPT ![p] = FALSE]
    /\ look' = [look EXCEPT ![p] = {}]
    /\ todo' = [todo EXCEPT ![p] = {}]
    /\ group' = [group EXCEPT ![p] = {}]
    /\ judged' = [judged EXCEPT ![p] = {}]
    /\ answers' = [answers EXCEPT ![p] = {}]
    /\ Goto(p, "idle")
    /\ UNCHANGED <<src, obj, cur, errors>>

(* Such a compiler ends, and nobody reads what it did. *)
StrayEnds ==
    /\ strays > 0
    /\ strays' = strays - 1
    /\ UNCHANGED <<src, obj, holder, toolchains, work, pc, cur, look, todo, group, judged,
                   answers, errors, crashes, spoiled>>

Step(p) ==
    \/ \E u \in Units : ReadSource(p, u) \/ Pass(p, u) \/ TruncateSource(p, u)
    \/ HitRejected(p) \/ SeeObject(p) \/ HitObject(p) \/ MissObject(p)
    \/ NextGroup(p) \/ BatchDone(p)
    \/ AcquireFails(p) \/ Compile(p)
    \/ StoreSource(p) \/ TruncateObject(p) \/ StoreObject(p) \/ RemoveObject(p)
    \/ StoreFails(p) \/ GroupDone(p)

-----------------------------------------------------------------------------
(* What the history remembers. *)

Batches == {p \in Proc : pc[p] = "compile"}

(* One compile batch at a time runs on the install, those of compilers      *)
(* whose process has died included.  Does not hold: such a compiler works   *)
(* on after its process's lock is released.                                 *)
OneBatchPerInstall == Cardinality(Batches) + strays <= 1

Reading(p) == pc[p] \in {"exists", "readObj"}
Writing(p) == pc[p] \in {"storeSrc", "storeObj", "storeBytes"}

(* Two processes are on one entry, and one of them writes it. *)
Meeting ==
    \E p, q \in Proc :
       p # q /\ Writing(p) /\ (Reading(q) \/ Writing(q)) /\ slot(p, cur[p]) = slot(q, cur[q])

(* A step of p spoils what the cache can promise: p fails or dies while it  *)
(* writes an entry, meets another process there, or compiles beside it.     *)
Watch(p) ==
    spoiled' = (\/ spoiled
                \/ Writing(p) /\ (errors' # errors \/ crashes' # crashes)
                \/ Meeting'
                \/ ~OneBatchPerInstall')

-----------------------------------------------------------------------------
Act(p) ==
    \/ \E n \in Names : Open(p, n)
    \/ OpenFails(p)
    \/ \E units \in (SUBSET Units) \ {{}} : CompileBatch(p, units)
    \/ Acquire(p)
    \/ Step(p)
    \/ Crash(p)

Next == (\E p \in Proc : Act(p) /\ Watch(p)) \/ StrayEnds

Spec == Init /\ [][Next]_vars

(* A process that runs takes its next step; the system's file lock goes in  *)
(* the end to a process that keeps waiting for it.                          *)
FairSpec ==
    Spec /\ \A p \in Proc : WF_vars(Step(p) /\ Watch(p)) /\ SF_vars(Acquire(p) /\ Watch(p))

-----------------------------------------------------------------------------
(* Properties. *)

Verdict(u) == IF u \in Accepts THEN u ELSE NoFile

(* What a batch answers as adjudicated is the compiler's verdict on that    *)
(* very unit, whether it was compiled now or served from a cache several    *)
(* processes share, also when two units' digests collide, and whoever has   *)
(* died or failed elsewhere: as long as nothing came between the writes of  *)
(* an entry and batches ran one at a time.                                  *)
AnswerIsVerdict ==
    ~spoiled => \A p \in Proc : \A a \in answers[p] :
                   a.adjudicated => a.object = Verdict(a.unit)

(* As long as the install directory takes the lock file and no call has     *)
(* failed, two live processes do not compile at once.                       *)
OneBatchIfLocked ==
    InstallWritable /\ errors = 0 => \A p, q \in Batches : p = q

(* toolchain.open leaves a toolchain that can compile: the work directory   *)
(* the session's drivers stage their sources in is there.                   *)
OpenIsUsable == \A p \in Proc : toolchains[p] # {} => work[p]

(* A batch is answered in the end, whoever dies with the lock in hand.      *)
Answered == \A p \in Proc : pc[p] # "idle" ~> pc[p] = "idle"
=============================================================================
