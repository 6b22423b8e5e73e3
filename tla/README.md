# Mosura: a TLA+ verification project

Mosura is a decompiler and recompilation workbench in Rust. A program is loaded
and analysed, its functions are decompiled to C, the C is compiled again with a
period compiler, and the objects are compared with the original code. Everything
a user makes is kept in a *session directory*, which several processes may use
at once.

This directory holds TLA+ models of the parts of Mosura that have state,
concurrency or failure in them and of the algorithms at the core of the
decompiler, the TLC configurations that check them, and TLAPS proofs about the
six that several processes or callbacks share and about the range algebra of jump
tables. `PROJECT.json` maps every definition to the
lines it models and lists components, runs, hazards, findings and theorems.
Source paths below are relative to `src/crates/`.

## 1. The system

| Component | State | Operations | Hard about it |
|---|---|---|---|
| Analysis manager (`mosura-core/src/analysis/manager.rs`) | priority queue keyed by (priority, seq), per-analyzer pending set and flag, active priority | notifiers, `disassemble`, `create_function`, `schedule_one_shot`, `run` | bodies schedule work for themselves and others while they run; priorities are relative to the running command; `run` must end exactly at the fixpoint |
| Session lock (`mosura-api/src/session/lock.rs`) | the file `<session>/lock` with a pid | `Lock::acquire`, drop | takeover of a dead owner's lock; every step is a separate system call |
| Session set store (`mosura-api/src/session/store.rs`, `mod.rs`) | immutable directories of tables, one per key; rounds by name; the entries of the session directory that hold them | `open`, `write_set`, `write_round` | crash and power loss between write, fsync and rename; concurrent publishers; directories whose own entry is not synced |
| Session inputs and configuration (`session/mod.rs`) | `inputs.tbl`, `config.tbl`, `inputs/*`, and a copy of each table in every process | `open`, `add_input`, `config_set` | copies go stale; bytes and row are two writes |
| Compile cache and install lock (`mosura-core/src/recompile/toolchain/{cache,locked}.rs`, `mosura-api/src/ops/toolchain.rs`) | cache slots of up to three files, an advisory lock per install, a work directory per process | `toolchain.open`, `Cached::compile_batch`, `Locked::compile_batch` | cache outside the lock, non-atomic slots, digests that may collide, ignored I/O errors, a compiler that outlives its process |
| Compiler driver (`toolchain/driver.rs`, `spec.rs`) | work directory, session log, the batch's results | `compile_batch` | the compiler dies in the middle of a shared session; logs must be attributed; retries must isolate and end |
| Decompiler rewrite rules (`mosura-core/src/decompile/{rules,divopt,nzmask,consume,action,pipeline}.rs`) | the operations of a function, with a mask of possibly set bits and one of consumed bits per value | `ActionPool::apply` over about a hundred rules, `calc_nzmask`, dead code | rules rewrite what others are about to look at; masks are computed once and used after rewrites; constants at the edge of their size; rules that undo each other |
| Jump table recovery (`decompile/{jumpbasic,jumptable,circlerange}.rs`) | guard records, the recovered table, the pass it was found in | `analyze_guards`, `recover_staged`, `switch_norm` | tables are recovered from a graph that is still growing and labelled on another one; ranges wrap around |
| Structure recovery (`decompile/structure.rs`, `printc.rs`) | the flow graph's nodes, edge labels, cut edges, loops, the list of likely gotos | `structure` (`structure_loops`, `collapse_all`, `scope_break`), the orientation passes, `emit_structured` | an edge is cut at one depth and printed at another; the graph is collapsed three times and the rounds must agree; irreducible graphs; the loop has no bound of its own |
| C API handles (`mosura-capi/src/`) | handle kinds, reference counts, last error | create, retain, release, calls through a panic boundary | use after release, panics across the boundary |
| Address sets (`analysis/program/address_set.rs`) | sorted disjoint intervals | union, subtraction, iteration | boundaries, wrap-around |
| Analyzers (`analysis/analyzers/`) | the program database | `added` | fixpoint through the manager |
| The rest of the decompiler (`decompile/`): SSA, merging, types, C output | p-code graphs | graph algorithms | volume; no concurrency |
| SLEIGH, loaders, FID | parsed data | translation, parsing | volume; no concurrency |
| Operations, tables, facade, CLI, development tools | none of their own | dispatch and formatting | little |

How they interact. The CLI, the Rust facade and the C API all call the
operations of `mosura-api`. An operation runs the core (loader, manager with its
analyzers, decompiler) in the calling thread and stores what it computed as a set
under a key derived from its inputs. The manager owns the thread while `run`
executes and calls analyzer bodies, which call back into its scheduling half.
Sessions are shared *between processes*, through the file system only: the lock
file orders the rewrites of the two mutable tables and the publication of rounds,
sets are published by rename without it, and the compile cache is shared without
it. Compilers are external programs, run one batch at a time per install.

So concurrency in Mosura is concurrency of processes over files, and that is what
the five file-based models are about; the manager is sequential, but re-entrant
in a way that is hard to test.

What makes each part correct:

* manager: no notification is lost, no queued command overwritten, requests are
  served in the promised order, and `run` returns at the fixpoint and not before;
* lock: at most one live process inside, and no lock kept by the dead;
* set store: a published directory is complete, never replaced, and durable once
  acknowledged; an Ok for a round means *this* round is stored;
* inputs and configuration: no row without bytes; what was acknowledged is found
  by the next open;
* cache: an answer marked adjudicated is the compiler's verdict on that unit; one
  batch at a time per install; batches are answered;
* driver: verdicts are true, a unit is not condemned for its neighbours, and the
  retries end;
* rewrite rules: no rewrite changes what an expression computes, the masks the
  rules rely on are true, and the pool comes to an end;
* jump tables: the table has every address the jump can go to, and the labelled
  switch goes where the code went;
* structure recovery: the collapse ends without giving up, loses no block, and the
  printed statements lead from every block to where the machine code goes.

## 2. The modules

Each component module has its state, `Init`, one action per operation or per
system call, `Next`, `Spec`, and, where liveness is checked, `FairSpec`. The `MC…`
modules give the constants small values. Definitions whose comment starts with
"Mutation" or "mutant" are deliberately wrong variants of the definition after them; no
specification uses them. Each shows that some property would notice that bug.

**`AnalysisManager`** models `Scheduling` and `AutoAnalysisManager::run`. `phase`
says where control is: with the caller (`"out"`), at the head of the loop
(`"loop"`), or in a popped command's body (`"exec"`). A body is arbitrary: any
scheduling operation may happen any number of times in it. `queue` is the BTreeMap
as a set of entries with their keys. `rel` and `born` on an entry, and the variable
`born`, are history: they remember who asked, for the ordering properties.

**`Worklist`** is the abstract specification of the manager: what is owed to each
analyzer, with no queue, key, priority or flag. `ImplementsWorklist` is the
refinement (`owed <- pending`, `running <- phase # "out"`).

**`SessionLock`** models `Lock::acquire` (exclusive create, write of the pid, read,
staleness check, unlink, sleep, give up), `Drop` (unlink by path) and the death of
processes, one system call per action. `robbed` is history: a takeover has unlinked
a live process's file.

**`SetStore`** models `write_set_dir` beneath `write_set` and `write_round`: temp
directory, files, fsyncs, rename, fsync of the parent, and the clean-up on each
failure; and what `Session::open` does to the session directory (`OpenDirs`,
`LookForManifest`, `WriteManifest`, `SyncSession`). A power loss keeps what was synced
and any subset of the rest. `session` holds the entries of the session directory and
`anchored` those that have reached the disk: `rounds/` is created by `write_round`,
which syncs `rounds/` but not the directory that holds its entry. The entry becomes
durable when a file is written into the session directory, by an `open` that makes the
manifest or by a write of a mutable table (`SavePointers`).

**`ImmutableStore`** is the abstract specification of the set store: a name gets its
whole content at once, keeps it, and until it is safe may lose it to a power failure,
whole again. `ImplementsStore` is the refinement: `stored` is what a reader of the
final names sees, `safe` the names whose rename, and whose parent directory's entry,
have reached the disk.

**`SessionPointers`** models `Session::open`, `add_input` and `config_set`. Atomic
file replacement (`write_file_atomic`) is one step; one that fails has replaced the file
or not, since the sync of the directory comes after the rename. `told` and `overlapped` are
history: the inputs acknowledged, and whether two processes have had the session
open at once.

**`CompileCache`** models `toolchain.open`, `Cached` and `Locked`, one file-system
call per step (a write is a truncation followed by the content), over a driver that
answers or stays silent. The digest is an arbitrary function, so collisions are
part of the model. A process that dies while its compiler works may leave it behind
(`strays`): the compiler is a child of its own, while the advisory lock goes with the
process. `spoiled` is history: a process failed or died between the writes of an entry,
two met at an entry while one was writing it, or two batches ran at once, those of
`strays` included.

**`CompilerDriver`** opens that driver: one `compile_batch` on units `1..N`, for
every truth about the sources (compiled, rejected, fatal to the compiler) and every
set of objects left by earlier batches. Its lists of units are always increasing, so
sets stand for them. `alone` and `cut` are history: the units that
had a session of their own, and those killed from outside after a line about them.

The decompiler's rule pool is split the way the rules are grouped:

* **`Words`**: integers of a size in bytes, their signs and their comparisons; jump
  tables use it too.
* **`Pcode`**: expressions, their widths, and `Value`, what an operation computes
  (`emu.rs`, `eval_const`). An expression is a tree: each operation has one reader,
  which is what the rules' `lone_descend` tests ask for, and equal subtrees are one
  varnode. Constants keep the whole word they were made from, as `new_const` does.
* **`NzMask`** and **`Consume`**: the two analyses of bits that the rules rest on.
* **`RulesArith`, `RulesCompare`, `RulesBool`, `RulesPiece`, `RulesBits`,
  `RulesSign`, `RulesDiv`**: one operator per rule. It returns the set of expressions
  `apply_op` may put in place of an operation, empty when the rule does not apply.
* **`RulePool`**: the state machine. `MainloopBegins` computes the masks, `Rewrite`
  visits an operation and applies the first rule that changes it, staying there with
  the rules after it as `ActionPool::process_op` does, and `Settled` ends a round:
  the main loop restarts if something changed, the cleanup pool follows otherwise.

**`CircleRange`** is the range algebra of jump tables: the methods of `CircleRange`
as operators. **`JumpTable`** builds on it: the walk from the jump back over the
branches (`NextBranch`, `PullBack`), the passes of `recover_staged` (`RecoverFirst`,
`Recheck`, `RecoverAgain`, `KeepFrozen`) and `switch_norm` (`Normalize`). A *site*
gives the graph around the jump in each pass and the final graph, which may differ.

Structure recovery follows the phases of `structure`:

* **`FlowGraph`**: `structure_loops`: the spanning tree, the edge labels, and Tarjan's
  test for irreducible edges.
* **`LoopBodies`**: `order_loop_bodies`: each loop's body, tails, exit and exit edges,
  the innermost first.
* **`Collapse`**: the collapsing graph. A node is what the code's `FlowBlock` is, and
  every collapse rule is an operator from a graph and a block to the set of graphs it
  may leave, empty when the rule declines. `scope_break` turns gotos of the finished
  graph into breaks.
* **`TraceDag`**: `TraceDAG`, the traces that find the edge to give up when no rule
  applies.
* **`PrintFlow`**: what the printed text does: for each printed form, the block each
  branch of each basic block leads to. The text itself is left out.
* **`Structure`**: the state machine. `stage` says which scan `collapse_all` is in
  (`CollapseCondition`, `CollapseTarget`, `CollapseInternal`, `CollapseLate`,
  `UpdateLoopBody`, `SelectGoto`); `Finish` orders the roots and turns gotos into
  breaks; `OrientBranches` and `PreferComplement` are the two actions that store
  conditions the other way and have the graph collapsed again. `shape` is history: the
  nodes the first round made.
* **`StructureText`**: `Structure` with `PrintFlow`: the claim that the text of the
  finished graph goes where the flow graph goes. It is a module of its own because the
  printed forms are recursive, which the proofs about `Structure` do not need.

`SetStore` and `SessionPointers` take the session lock to be ideal, `CompileCache`
takes the driver as a black box; `SessionLock` and `CompilerDriver` model what is
under those assumptions, and the lock's is *not* fully met (section 4).

## 3. The runs that pass

| Run | Instance | Properties |
|---|---|---|
| `manager` | three analyzers, two of one type on both sides of `DISASSEMBLY`, one one-shot priority, one address, four pushes | `TypeOK`, `OneTaskPerPending`, `UniqueKeys`, `RequestsJumpTheQueue`, `DisassembledFirst`, `Delivered`, `ImplementsWorklist` |
| `lock` | three processes, two deaths | `TypeOK`, `ExclusiveUnlessRobbed`, `SomeoneGetsIn` |
| `sets` | two processes, one set, one round, one table, two faults | `TypeOK`, `PublishedComplete`, `AckedDurable`, `ImplementsStore` |
| `pointers` | two processes, two inputs, two config keys, one error, one death | `TypeOK`, `NoDanglingInput`, `ToldIfAlone`, `OnlyOwnEntry` |
| `cache` | two processes on one cache, two units with one digest, one of them rejected, one error, one death | `TypeOK`, `AnswerIsVerdict`, `OneBatchIfLocked` |
| `cache_live` | two processes on one cache, one unit, one error, one death | `Answered` |
| `driver` | three units, rounds of sixteen, two and one, two kills from outside | `VerdictIsTrue`, `CollateralJudged`, `SilentRanAlone`, `Returns` |
| `rules` | 7,577 expressions of up to five operations, bytes of two bits, words of four bytes | `TypeOK`, `MaskIsSound`, `ConsumeIsSound`, `ValuePreserved`, `Finishes` |
| `jumptable` | switches on a variable of sixteen values with up to two branches before them, found in one pass or two | `GuardExact`, `TableCovers`, `FlowPreserved` |
| `structure` | all flow graphs of three blocks, branching ones of four, switches among five to seven, in loops and with edges to themselves: 7,252 functions | `Reducible`, `NeverStuck`, `BlocksKept`, `FlowPreserved`, `RoundsAgree`, `Finishes` |

Bounds, and why they are enough to be interesting:

* `manager`: four pushes allow a body that is popped to ask for disassembly and for
  a function in either order while an older task waits. One address is enough,
  since the code only asks whether a set is empty. The bound also makes the
  analyzers stop finding facts, which is what termination of `run` depends on.
* `lock`: the takeover race needs two waiters and a releaser, hence three processes;
  two deaths let a process die taking over from a dead one.
* `sets`: two faults let a crash follow an I/O error or a power loss follow a crash.
  One set and one round suffice because names do not interact; two processes compete
  for each. Both processes open the session themselves, so one may use it while the
  other is still creating it. Symmetry in the processes is used (only safety is checked).
* `pointers`: two keys are needed to see one entry carried along by the write of the
  other; two inputs for rows. One error and one death each, anywhere.
* `cache`: both units fall in one slot, so each lookup can meet the other's entry, and
  the cache is shared, as `<session>/compile` is by default. An error and a death may
  come anywhere. `cache_live` has the same faults and one unit, which keeps the liveness
  check small.
* `driver`: 16, 2, 1 are the rounds that division by eight gives, so the batch is
  run together, in pairs and alone.
* `rules`: the catalogue in `MCRulePool` has, for each rule, expressions that make it
  fire, with constants at 0, 1, the sign bit and the largest value, and combinations
  in which one rule feeds another. Widths are scaled down so that an expression can
  be compared with its rewritten form for *every* value of its variables: a byte has
  two bits and a word four bytes. The rules compute with widths symbolically, so
  boundaries (sign bits, shifts by the width, truncations) are all present.
* `jumptable`: sixteen values, tables of up to six entries; limits of the code that
  depend on table size (`MaxTableSize`, `PositiveSize`, `MaxStride`) are scaled
  with them. Subjects have guards by every comparison, shifted, masked, scaled and
  truncated indices, and code between guard and jump.
* `structure`: three blocks give all reducible loops with one exit and the smallest
  irreducible graphs, each with conditions that fit in one expression or do not, have a
  clean negation or not, and a preferred complement or not, in all eight combinations;
  the four-block graphs add two loops that share blocks, several exits and edges into
  the middle of a loop; the switches have cases that fall through, return, jump back,
  share an exit or have a default. Among these are functions for which every rule, every
  kind of cut edge and the searches inside a loop and behind the last one take place.
  The four-block graphs are those numbered as a depth-first search meets them.

`AckedDurable`, `ToldIfAlone`, `OnlyOwnEntry`, `ExclusiveUnlessRobbed`,
`AnswerIsVerdict`, `OneBatchIfLocked` and `VerdictIsTrue` have provisos. They state how
far the code's promise really goes; section 4 shows what happens outside most of them, and the
notes in `PROJECT.json` under `hazards` name the provisos that leave a hazard uncovered.

Fairness. `manager`: weak fairness of `Run`; one thread owns the manager, and neither
the loop nor an analyzer body stops by itself. `lock`: weak fairness of every live
process's next step and of the passing of time; the session is assumed to stay in
use, or nobody would take a dead owner's lock over. `cache_live`: weak fairness of
each process's steps, and strong fairness of acquiring the advisory file lock, which
the operating system hands to a waiter sooner or later. Calls (`Open`,
`CompileBatch`) are not fair: nobody has to make them. `driver`: weak fairness of
the single thread that runs the batch. `rules`: none; `Finishes` says that every
behaviour has finitely many steps, in whatever order operations are visited.
`structure`: the one thread keeps taking steps until the text is printed (`Runs`;
outside the last stage some step that changes the state is always enabled, so this is
weak fairness of `Next` in a form TLC evaluates quickly). The deadline that abandons a
decompilation is not taken.

Deadlock is checked everywhere but in `manager`, which stops when the bound on
pushes is used up and nothing is queued, and in `rules` and `jumptable`, where the
algorithm ends.

## 4. Where code and text disagree

Two runs check a statement of the code's own comments, and TLC refutes it:

* `lock_exclusion` (`MutualExclusion`): a waiter whose read follows a release sees an
  empty pid, takes the missing file for stale, and unlinks by path the lock a third
  party created in the meantime. Two live processes are then inside. Nobody dies in
  this run.
* `rules_lessequal` (`ValuePreserved`): `replace_lessequal` looks for signed overflow
  after extending the constant to 64 bits, so at every smaller size `V s<= MAX`
  becomes `V s< MIN`. The subjects of `rules` leave this constant out.

Six more properties are stated in the modules, are known not to hold, and are
described with their hazards rather than kept as runs:

* `AckedKept` (`SetStore`): an acknowledged set or round is kept. A process opens a new
  session, which syncs the session directory; its first `write_round` creates `rounds/`
  (`session/mod.rs:379`), publishes the round, syncs `rounds/` and returns Ok; a power
  loss takes `rounds/`, whose entry in the session directory nobody synced, and the round
  with it. Sets are exposed for a shorter time: `open` makes `program/` and `functions/`
  before it syncs the session directory, but a second process that finds the manifest, or
  one whose sync failed, goes on without a sync.
* `OneBatchPerInstall` (`CompileCache`): `locked.rs:1` promises "one compile batch
  at a time per toolchain INSTALL". A process that dies while its compiler runs loses the advisory lock at once;
  the compiler is a child started with `.status()` (`driver.rs:241-247`) and works on,
  and the next process gets the lock and starts another.

* `OkRoundIsMine` (`SetStore`): `write_round` looks for the name before it takes the
  lock, and `write_set_dir` answers Ok for an existing directory: of two concurrent
  rounds with one name, the second is told Ok and its tables are dropped.
* `ToldIsStored` (`SessionPointers`): both tables are rewritten whole from the copy
  read at open; the lock orders the writes but the table is not read again under it,
  so the later writer drops the other's row.
* `AnswerIsVerdict` (`CompileCache`) without its proviso `~spoiled`: the source is stored
  before the object; after a death in between, the entry reads as an adjudicated
  failure, and no later run corrects it. A lookup by another process that falls between
  the two writes is answered the same way.
* `OpenIsUsable` (`CompileCache`): opening a toolchain again under its name drops the
  old driver, which removes the work directory the new one has just been given.

Three more disagreements between what the code promises and what it does were met in
the decompiler. They are left out of the properties or the instances, each under a name
or by its shape, so that the runs say how far the promise goes:

* Jump tables: the first guard record of a branch is kept whatever it tests, and
  `normalize_one` folds its branch into the switch, so a branch on an unrelated variable
  directly before the switch is lost. `MCSites` has no such branch.
* Gotos behind loops (`GotoBehindLoop` in `StructureText`): `scope_break_walk`
  (`structure.rs:1848`) does not look at `node_gotos`. A loop or switch followed by its
  own cut edge still takes the next block in the text for its exit, and a goto to that
  block from inside is printed as a `break`, which then lands on the goto behind the
  loop. The smallest case: 1 goes to 2 or 4, 2 to 1 or 3, 3 to 1, 4 to 1 or 3.
* Edges into cases (`CutInside` in `StructureText`): a switch edge that was cut and leads
  into the middle of another case's body is printed with that case's label
  (`case_of_block`, `printc.rs`), so it enters the case at its top; a head all of whose
  edges were cut is printed with gotos and no switch.

Smaller differences met while modelling, for which there is no run:

* `RuleScarry` skips the smallest constant in slot 0 only (`rules.rs:1089-1096`, but
  `1120-1131` treats both slots alike);
* `eval_const` counts leading zeros in 64 bits (`rules.rs:66`; its doc at `:32` and
  `emu.rs:579-586` count in the operand's size);
* `varnode.rs:120` says that `consume` defaults to 0, `funcdata.rs:1020` sets all ones;
* `pull_back_unary` takes `left & step` in the sign extension (`circlerange.rs:822`)
  where the zero extension a few lines above takes `left % step`: for step 1 and an odd
  `left` the range it compares with begins one too late;
* `pull_back_binary` turns `c - x` in `[left, right)` into `[c - left, c - right)`
  (`circlerange.rs:1008`), where the inputs are `[c - right + 1, c - left + 1)`;
  `PullBackArithmetic` therefore states the subtraction of a constant only;
* `minimal_container` (`circlerange.rs:534`) of a range and a full one may answer a range
  that is not full;
* `circlerange.rs:876` describes a comparison that can have both truth values as the
  full range; the code answers `[0,2)`.

## 5. What is proved

The proofs hold for every value of the constants that meets the named assumption
of the module; TLC evaluates these assumptions in the runs.

`AnalysisManagerProofs` (from `ConstantsAssumption`: finitely many analyzers,
integer priorities). The inductive invariant is
`IInv == TypeOK /\ QueueInv /\ OneTaskPerPending`. `RequestsJumpTheQueue` alone is not
inductive: a new request must be shown ahead of what is queued, which needs
`ActiveFloor` (whatever was queued when the running command was popped has at least
its priority, because that command was the first key). `DisassembledFirst` needs
`CurrentRequests` (all requests of the running body sit at one base priority,
creation one behind disassembly) and `RequestOrder` (the same, for bodies that have
returned); `UniqueKeys` needs `Bookkeeping` (sequence numbers below the counter). A
notification pushes several tasks at once, so the lemmas `RankBounds`,
`RankInjective` and `TasksFacts` first show that their sequence numbers are new and
distinct. From `Inductive` follow `TypeCorrect`, `NoLostNotification`,
`NoCommandOverwritten`, `RequestsFirst`, `DisassemblyBeforeCreation` and
`Refinement`: the manager implements `Worklist`. The step that matters there is the
return of `run`: an empty queue means, by `OneTaskPerPending`, that nothing is owed.

`SessionLockProofs`. `IInv == TypeOK /\ OwnFile`; `OwnFile` says that every live
process past its exclusive create is the creator of the file at the path, unless a
takeover has robbed someone. `Exclusion` follows: one path, one creator.

`SetStoreProofs` (from `StoreAssumption`). A published directory survives a power
loss complete because every file is synced, then the directory, then renamed. So
`IInv` relates each writer's program point to its temp directory (`TmpOnDisk`), says
that a published directory is on the disk (`PublishedOnDisk`) and there until its
publisher's sync of the parent (`PublishedAtSync`), that what was acknowledged is
linked (`AckedLinked`), and that a process at work has its parent directory (`Housed`).
`PublishedComplete` alone is not inductive: a power loss keeps
a directory whole only if its files were synced, which is a fact about the past of its
writer. `Complete`, `Durable` and `TypeCorrect` follow, and `Refinement`: a rename is
the abstract `Publish`, the sync of the parent and that of the session directory
`Harden`, a power loss `LosePower`, and every other step is invisible. `Durable` is about
steps: only a power loss removes an acknowledged name (`OnlyPower`), and only together
with a parent directory whose entry was not on the disk.

`SessionPointersProofs` (from `PointersAssumption`). For `Dangling` the invariant has
to follow one input through `add_input`: between `StoreBlob` and `StoreRows` the bytes
are on disk, and only then may a copy hold the row. `Told` and `OwnEntry` need, besides,
that without overlap there is one open session at most (`OneOpen`) and that its copies
agree with the disk outside the very write in progress (`RowsInStep`, `ConfigInStep`).

`CompileCacheProofs` (from `CacheAssumption`). With `CompilerHolds` (a compiling
process holds the lock on its path, as long as no call has failed), `OneBatch`
follows for any number of processes, units and cache directories: two live processes
do not compile at once, whoever dies. It says nothing of a compiler whose process has
died (section 4). `Verdicts` shows `AnswerIsVerdict`, on shared caches and separate ones
and with any number of errors and deaths, for behaviours that are not `spoiled`: TLC
refutes it otherwise. It assumes besides that no two units agree in both digest and
source (`DigestTells`; flags and toolchain id enter the digest only, so a collision of
such units is served the other's object). The invariant, `CacheTrue`, allows an entry to
be wrong only while a process is between its writes, and then nobody else is at it.

`CompilerDriverProofs` (from `DriverAssumption`). `SessionTrue` says what the log and
the objects of the running session tell of each of its units, which makes an
adjudication true (`TrueVerdicts`). `NoneLost` (a unit without a verdict is still in one
of the lists) and `AloneAnswered` (a unit that ran alone and silent kills the compiler,
or was killed from outside) give `Collateral` and `RanAlone`. `Singles` connects them to
the loop: in rounds of one every chunk is a single unit, so the batch cannot end before
each silent unit was alone.

`CircleRangeProofs` (from `WidthAssumption` and `PowersOfTwo`, the few facts about
powers of two the solver does not know). The run `jumptable` has words of sixteen
values; these theorems hold at every width. They are about ranges of step 1, those that
comparisons produce. A range is `[left, right)` on a circle, so `left` may be above
`right`, and equal ends mean everything: `In` says this without modular arithmetic, and
`RangeContains` identifies it with `contains_val`. `Meets` and `Joins` give each class of
the 64-entry `ARRANGE` table its meaning, which makes `IntersectExact` and `UnionExact`
case distinctions; `NoInterval` and `Between` give the converse, that `intersect` and
`circle_union` give up only where no range is the answer (`IntersectGivesUp`,
`UnionGivesUp`). `TrueInputsExact` covers the boundary constants of the six comparisons
in both slots, with `PullBackComparison` and `ComplementExact` on top of it;
`PullBackArithmetic` and `TranslateExact` are the other two directions a range is
translated in, and `EnumeratedExact` says that the loop over a range's elements meets
each one once. Outside these statements: a range with both truth values, for which
`pull_back_binary` answers `[0,2)` (section 4); the full
range in `EnumeratedExact` (at word size `get_size` is one less than the number of its
values); ranges with a stride, extensions and shifts, which are model-checked.

`StructureProofs` (from `SubjectsAssumption`: out-edges lead to blocks of the function).
The run `structure` has 7,252 small functions; here the graph may have any number of
blocks, cases and edges, several of them between the same two blocks, and be reducible or
not. `BlocksKept` says that the nodes of the collapsing graph share out the basic blocks
and that no node is placed twice. It is not inductive: a rule installs a node in place of
a block and its successors, and nothing in `BlocksKept` says that a successor is in the
graph. `StructInv` adds `Closed` (edges of nodes in the graph lead to nodes in the graph),
`Shaped` (the fields the rules read), `Narrow` (a node that is no switch has at most two
out-edges), that the block whose edge was just given up is in the graph, and that the late
scan and the choice of an edge begin when no main rule applies (`Settled`). The argument
has three parts:

* `InstallKeeps`: `install` is safe when its components are different nodes of the graph
  and only the first is entered from outside. `InstallIs` says what it makes of every
  node and edge.
* One lemma per rule (`CatKeeps`, `IfElseKeeps`, `ShortCircuitKeeps`, `SwitchKeeps`...)
  that the rule's guards give this. Most rest on `OnlyIn`: a successor with one in-edge
  is entered from here only, so it is no other component and no other node loses an edge
  to it. The guards that count in-edges are what keeps the same block from being printed
  twice. Cutting edges and setting flags go through `SameParts`, which also covers the
  reordering of the roots (`OrderPermuted`).
* Two recursions. `LeafSets` recurs over nodes that each rule adds to: `Kept` says that
  there are leaf sets and that *every* solution of their equation shares out the blocks,
  so a step only has to extend a solution and to restrict one. The line of successors of
  `rule_cat` has any length: `LineUpTo`, `LinesAgree` and `CatKeeps` argue by the least
  number at which the claim would fail (`LeastNat`, from the well-foundedness of the
  numbers in the library), which takes no induction theorem.

`CollapseShrinks` is the step behind `Finishes`: in the four stages of `collapse_all` a
step leaves the graph alone or lowers a measure (`Smaller`), the number of nodes, then of
edges, then of switch heads, then of edges not given up. So the loops of
`collapse_conditions` and `collapse_internal` change the graph finitely often, whatever
the function, and no rule undoes another's work. Two cases take an argument. A rule that
wraps a single node saves none (`SingleShrinks`): a loop of one block loses an edge, and a
switch head without cases its mark. And an edge that is given up must not be given up
already (`SettledOpen`). Here `Settled` and `Narrow` are
needed: `rule_block_goto` would have cut such an edge, unless it left a block with three
out-edges that is no switch, and the code marks every such block as one. That the
scan then reaches its end, and that `select_goto` is offered an edge at all, is the rest of
`Finishes` and stays with TLC.

Only model-checked: the liveness properties (`Delivered`, `SomeoneGetsIn`,
`Answered`, `Returns`, `Finishes`), which rest on fairness and so are outside
the prover's reach. Of structure recovery, `Reducible` and `NeverStuck` (the correctness of
Tarjan's test and of the trace search, over a depth-first search of the whole graph),
`RoundsAgree` (two whole runs compared) and `FlowPreserved` (the printed forms are defined
by `RECURSIVE` operators, as is what they mean). Of the rule pool and the jump tables,
`TypeOK`, `MaskIsSound`, `ConsumeIsSound`, `GuardExact`, `TableCovers` and `FlowPreserved`:
expressions are trees that `RECURSIVE` operators evaluate with bitwise arithmetic, neither
of which the solver has.

## 6. Assumptions and abstractions

* A live process writes its pid into the lock within `STALE_AFTER`; pids are not
  reused; the five-second deadline of `acquire` may expire at any attempt.
* A live process's `open` of the lock file succeeds or finds the file there; other
  errors, on which `acquire` returns without a lock (`lock.rs:44`), are left out.
* A rename is atomic, and durable once the parent directory is synced. Without sync,
  a power loss may lose or keep each file and each entry of the session directory. The
  entry of the session directory itself is on the disk. `program/` and `functions/`,
  made together, are one entry, and a sync of a parent counts for the caller's name only.
* Units of one batch have distinct keys. The compiler is a function of the unit, and
  its log ends a finished unit with a summary line. A log line and its object appear
  together: torn objects, and sources that `stage` failed to write, are left out.
* What two compilers at work on one install do to each other's files is not modelled;
  `AnswerIsVerdict` leaves such behaviours out.
* Diagnostics, table layout, command lines and script text are left out, and so are a
  cache slot's `.log` file and in-memory sessions.
* An `AddressSet` is a set of addresses in the manager's model.
* Rule pool: operations are visited in any order (the code visits them in the order of
  its list, which rewriting changes). A change is whatever apply_op did, also where it
  returns 0 after changing something (`RuleSignForm2`). The deadline of the pool and
  the main loop's other actions are left out.
* Rules that are unsound, in the code as in Ghidra's originals, on inputs a compiler
  does not produce are kept off those inputs: `RuleRightShiftAnd` on arithmetic shifts
  by the width or more, `RuleShiftPiece` on a zero-extended sign, `RuleSignForm` with
  an output of another size, `RuleSignForm2` with a multiplier of 0, a comparison of a
  shifted 0, `get_hi_bit` on two sign bits, a three-way comparison of different
  constants, `RuleDivOpt` when the product overflows, and the offset truncation of
  `RuleSignMod2nOpt`.
* Jump tables: addresses are computed without loads. A large range that `calc_range`
  takes for one of positive numbers is checked for those only (`WithinAssumption`).
  A table of two or more entries found in a partial graph is kept by the code whatever
  the rest of the graph shows; sites where that loses entries are left out. `Paths`
  stands for the melding of op lists along the ways back to the index, and `NextBranch`
  does not unroll guards or look for another switch (`jumpbasic.rs:744-752`).
* Structure recovery: a block's out-edges are distinct, and a switch's default target is
  not also a labelled case. `clip_extra_roots`, the last resort when no edge is offered,
  is the stage `"stuck"`, which `NeverStuck` excludes. Loops printed as `for`, the
  return-split and sparse-switch arms, and whether a condition can be negated cleanly
  (`clean`) or has a preferred complement (`flips`) are given or left out. So are
  `force_loop_overflow`, a switch that prints every while loop in its long form, and the
  swap of the arms in `emit_if`, which negates the condition with it. A block without
  successors ends in a return. The trace search has a smaller limit than the code's
  (steps that open, retire or cut, not every trace looked at), and no run comes to it.

## 7. What is not modelled, and the plan

Done, in order of importance: manager and its abstract specification; session lock;
set store; inputs and configuration; compile cache; compiler driver; proofs for these
six and for the range algebra; the decompiler's rule pool, jump table recovery and structure
recovery; the proofs that structuring keeps every block and does not go round in circles.

Next:

1. `Handles`: the C API's handles: kinds, reference counts, release, and what a panic
   inside a call leaves behind.
2. `AddressSet`: the interval operations as operators, checked against a reference
   set of addresses over bounded inputs, with lemmas about single insertions.
3. `Discovery`: disassembly and function creation as bodies of `AnalysisManager`
   commands, composed with it; the claim is that the result does not depend on the
   order of the seeds.
4. The operations: a computation keyed by its inputs, over `SetStore` and
   `SessionPointers`, with the listings and reads that run beside writers
   (`rounds()` lists temp directories; see the hazards).
5. More of `Structure` for every graph: that the search always offers an edge to give up
   (`NeverStuck`), and Tarjan's test (`Reducible`).

Rules of the pool that are not modelled: those on phis and indirect effects
(`PullsubMulti`, `PullsubIndirect`, `PushMulti`, `MultiCollapse`,
`IndirectCollapse`), on removal and sharing (`EarlyRemoval`, `SelectCse`), on pointers
(`Ptr*`, `FuncPtrEncoding`), floats (`Float*`), split and double-precision values
(`Subvar*`, `SplitFlow`, `Double*`, `PiecePathology`), control flow (`SwitchSingle`,
`ConditionalMove`, `OrPredicate`), and `DivTermAdd2` and `RangeMeld`. Of jump tables,
unrolled guards, override models and tables read from memory are not modelled.

Not planned: the decompiler's type propagation, calling conventions and layout,
SLEIGH, the binary loaders, function identification (hash lookups), and the CLI, the
facade and the development tools, which hold no state that outlives a call.
