--------------------------- MODULE AnalysisManager ---------------------------
(***************************************************************************)
(* The auto-analysis worklist: Scheduling and AutoAnalysisManager::run of  *)
(* crates/mosura-core/src/analysis/manager.rs.                             *)
(*                                                                         *)
(* One thread owns the manager.  Control is with the caller (phase "out"), *)
(* at the head of run's loop ("loop"), or inside the body of a popped      *)
(* command ("exec").  A command's body is an analyzer's `added`, which may *)
(* call any method of Scheduling any number of times, so the scheduling    *)
(* operations are actions enabled in "exec" (analyzers) and in "out" (the  *)
(* caller seeding work).  An AddressSet is a set of addresses here.        *)
(***************************************************************************)
EXTENDS Integers, FiniteSets

CONSTANTS
    Analyzers,      \* the analyzers offered, numbered in the order offered
    Priority,       \* Priority[i]: the analyzer's AnalysisPriority
    Type,           \* Type[i]: the AnalyzerType whose facts it consumes
    Enabled,        \* those that can_analyze the program and are not disabled
    Types,          \* the AnalyzerTypes with a notifier
    Addr,           \* addresses
    OneShots,       \* the priorities of one-shot analyzers
    DISASSEMBLY,    \* AnalysisPriority::DISASSEMBLY
    NoPriority,     \* active_priority = None
    MaxSeq          \* bound: commands pushed in one behaviour

ASSUME ConstantsAssumption ==
    /\ Analyzers \subseteq Nat
    /\ IsFiniteSet(Analyzers)
    /\ Priority \in [Analyzers -> Int]
    /\ Type \in [Analyzers -> Types]
    /\ Enabled \subseteq Analyzers
    /\ OneShots \subseteq Int
    /\ DISASSEMBLY \in Int
    /\ NoPriority \notin Int
    /\ MaxSeq \in Nat

VARIABLES
    registered,     \* the analyzers in the manager's vector
    queue,          \* the entries of the BTreeMap, keyed by (prio, seq)
    seq,            \* the next sequence number
    active,         \* active_priority
    pending,        \* pending[i]: locations accumulated for analyzer i
    scheduled,      \* scheduled[i]: the one-task-in-queue flag
    phase,          \* "out", "loop" or "exec"
    born            \* history: the value of seq when the body now executing was popped

vars == <<registered, queue, seq, active, pending, scheduled, phase, born>>

Kinds == {"task", "disassemble", "create", "oneshot"}

(* A queue entry.  `who` is the analyzer of a task (0 for other commands);  *)
(* `rel` and `born` are history: the entry was queued at a priority         *)
(* relative to the running one, and by the body that was popped when seq    *)
(* was `born` (0: by the caller).                                           *)
Entry == [prio : Int, seq : Nat, kind : Kinds, who : Nat,
          set : SUBSET Addr, rel : BOOLEAN, born : Nat]

(* The BTreeMap's order on its (priority, seq) keys. *)
Before(e, f) == e.prio < f.prio \/ (e.prio = f.prio /\ e.seq < f.seq)

TypeOK ==
    /\ registered \subseteq Analyzers
    /\ queue \subseteq Entry
    /\ seq \in Nat
    /\ active \in Int \cup {NoPriority}
    /\ pending \in [Analyzers -> SUBSET Addr]
    /\ scheduled \in [Analyzers -> BOOLEAN]
    /\ phase \in {"out", "loop", "exec"}
    /\ born \in Nat
    /\ phase = "out" => active = NoPriority
    /\ phase = "exec" => active \in Int

Init ==
    /\ registered = {}
    /\ queue = {}
    /\ seq = 0
    /\ active = NoPriority
    /\ pending = [i \in Analyzers |-> {}]
    /\ scheduled = [i \in Analyzers |-> FALSE]
    /\ phase = "out"
    /\ born = 0

-----------------------------------------------------------------------------
(* Scheduling: the operations analyzers and the caller use. *)

MaySchedule == phase \in {"out", "exec"}

(* Mutation: the counter is not advanced. *)
PushSameSeq(es) ==
    /\ queue' = queue \cup es
    /\ seq' = seq

Push(es) ==
    /\ queue' = queue \cup es
    /\ seq' = seq + Cardinality(es)

(* The entry a single push at priority p inserts. *)
Command(p, kind, set, rel) ==
    [prio |-> p, seq |-> seq, kind |-> kind, who |-> 0, set |-> set,
     rel |-> rel, born |-> born]

(* schedule_task for every analyzer of `who`, in index order: the k-th task *)
(* pushed gets the k-th sequence number.                                    *)
Rank(i, who) == Cardinality({j \in who : j < i})

Tasks(who) ==
    {[prio |-> Priority[i], seq |-> seq + Rank(i, who), kind |-> "task", who |-> i,
      set |-> {}, rel |-> FALSE, born |-> born] : i \in who}

Subscribers(ty) == {i \in registered : Type[i] = ty}

(* Mutation: the task is scheduled before the set is merged. *)
UnscheduledEarly(ty, set) ==
    {i \in Subscribers(ty) : ~scheduled[i] /\ pending[i] # {}}

(* Those of the notified analyzers for which schedule_task pushes a task. *)
Unscheduled(ty, set) ==
    {i \in Subscribers(ty) : ~scheduled[i] /\ pending[i] \cup set # {}}

Notify(ty, set) ==
    /\ MaySchedule
    /\ seq + Cardinality(Unscheduled(ty, set)) =< MaxSeq
    /\ pending' = [i \in Analyzers |->
                     IF i \in Subscribers(ty) THEN pending[i] \cup set ELSE pending[i]]
    /\ Push(Tasks(Unscheduled(ty, set)))
    /\ scheduled' = [i \in Analyzers |->
                       scheduled[i] \/ i \in Unscheduled(ty, set)]
    /\ UNCHANGED <<registered, active, phase, born>>

(* Mutation: the step of 1 that Ghidra's comment (not its code) gives. *)
disassembly_priority_by_one == IF active = NoPriority THEN DISASSEMBLY ELSE active - 1

disassembly_priority == IF active = NoPriority THEN DISASSEMBLY ELSE active - 2

PushCommand(p, kind, set, rel) ==
    /\ MaySchedule
    /\ seq < MaxSeq
    /\ Push({Command(p, kind, set, rel)})
    /\ UNCHANGED <<registered, active, pending, scheduled, phase, born>>

Disassemble(set) ==
    /\ set # {}
    /\ PushCommand(disassembly_priority, "disassemble", set, TRUE)

(* disassemble_at: its one caller passes AnalysisPriority::DISASSEMBLY. *)
DisassembleAt(set) ==
    /\ set # {}
    /\ PushCommand(DISASSEMBLY, "disassemble", set, FALSE)

(* Mutation: creation queued at the disassembly priority itself. *)
CreateFunctionTogether(set) ==
    /\ set # {}
    /\ PushCommand(disassembly_priority, "create", set, TRUE)

CreateFunction(set) ==
    /\ set # {}
    /\ PushCommand(disassembly_priority + 1, "create", set, TRUE)

ScheduleOneShot(p, set) == PushCommand(p, "oneshot", set, FALSE)

-----------------------------------------------------------------------------
(* AutoAnalysisManager. *)

AddAnalyzer(i) ==
    /\ phase = "out"
    /\ i \in Enabled
    /\ \A j \in registered : j < i
    /\ registered' = registered \cup {i}
    /\ UNCHANGED <<queue, seq, active, pending, scheduled, phase, born>>

StartRun ==
    /\ phase = "out"
    /\ phase' = "loop"
    /\ UNCHANGED <<registered, queue, seq, active, pending, scheduled, born>>

(* Mutation: the flag is not cleared before the run. *)
TakeKeepsFlag(i) ==
    /\ scheduled' = scheduled
    /\ pending' = [pending EXCEPT ![i] = {}]

(* Swap the accumulator out and clear the flag, before the analyzer runs. *)
Take(i) ==
    /\ scheduled' = [scheduled EXCEPT ![i] = FALSE]
    /\ pending' = [pending EXCEPT ![i] = {}]

First(e) == \A f \in queue \ {e} : Before(e, f)

PopTask(e) ==
    /\ e.kind = "task"
    /\ Take(e.who)
    /\ phase' = IF pending[e.who] = {} THEN "loop" ELSE "exec"

PopCommand(e) ==
    /\ e.kind # "task"
    /\ phase' = "exec"
    /\ UNCHANGED <<pending, scheduled>>

Pop(e) ==
    /\ phase = "loop"
    /\ e \in queue
    /\ First(e)
    /\ queue' = queue \ {e}
    /\ active' = e.prio
    /\ born' = seq
    /\ PopTask(e) \/ PopCommand(e)
    /\ UNCHANGED <<registered, seq>>

Finish ==
    /\ phase = "exec"
    /\ phase' = "loop"
    /\ UNCHANGED <<registered, queue, seq, active, pending, scheduled, born>>

(* Mutation: active_priority survives the run. *)
ReturnActive ==
    /\ phase = "loop"
    /\ queue = {}
    /\ phase' = "out"
    /\ born' = 0
    /\ UNCHANGED <<registered, queue, seq, active, pending, scheduled>>

(* The queue is empty: run clears active_priority and returns. *)
Return ==
    /\ phase = "loop"
    /\ queue = {}
    /\ phase' = "out"
    /\ active' = NoPriority
    /\ born' = 0
    /\ UNCHANGED <<registered, queue, seq, pending, scheduled>>

Schedule ==
    \/ \E ty \in Types, set \in SUBSET Addr : Notify(ty, set)
    \/ \E set \in SUBSET Addr :
          \/ Disassemble(set)
          \/ DisassembleAt(set)
          \/ CreateFunction(set)
          \/ \E p \in OneShots : ScheduleOneShot(p, set)

Run == StartRun \/ (\E e \in queue : Pop(e)) \/ Finish \/ Return

Next == Schedule \/ Run \/ (\E i \in Analyzers : AddAnalyzer(i))

Spec == Init /\ [][Next]_vars

(* The caller that seeded work calls run, a body returns, and the loop goes *)
(* on: the thread of control does not stop by itself.                       *)
FairSpec == Spec /\ WF_vars(Run)

-----------------------------------------------------------------------------
(* Properties. *)

(* The scheduled flag says exactly whether a task of the analyzer is        *)
(* queued, and it is set exactly while work is pending: no notification is  *)
(* ever left behind without a task to deliver it, one made while the        *)
(* analyzer itself runs included.                                           *)
OneTaskPerPending ==
    \A i \in Analyzers :
        /\ scheduled[i] <=> pending[i] # {}
        /\ scheduled[i] <=> \E e \in queue : e.kind = "task" /\ e.who = i
        /\ \A e, f \in queue :
              e.kind = "task" /\ f.kind = "task" /\ e.who = i /\ f.who = i => e = f

(* The map's keys never collide, so no insertion overwrites a queued        *)
(* command, and entries of one priority run in the order they were pushed.  *)
UniqueKeys ==
    \A e, f \in queue : e.seq = f.seq => e = f

(* A request made at a priority relative to the running command is ahead of *)
(* everything that was already queued when that command was popped.         *)
RequestsJumpTheQueue ==
    \A e, f \in queue : e.rel /\ e.born # 0 /\ f.seq < e.born => Before(e, f)

(* A function is created only once every (undelayed) disassembly request    *)
(* made by the same body has been popped.                                   *)
DisassembledFirst ==
    [][\A e \in queue :
          e \notin queue' /\ e.kind = "create" =>
              ~ \E f \in queue : /\ f.kind = "disassemble"
                                 /\ f.rel
                                 /\ f.born = e.born]_vars

(* Every accumulated location is eventually handed to its analyzer, as long *)
(* as the analyzers stop finding new facts (MaxSeq).                        *)
Delivered ==
    \A i \in Analyzers : pending[i] # {} ~> pending[i] = {}

(* The manager keeps the abstract worklist's promise: queue, keys and flags *)
(* only decide the order in which what is owed is delivered.                *)
W == INSTANCE Worklist WITH subscribed <- registered, owed <- pending,
                            running <- phase # "out"

ImplementsWorklist == W!WSpec

=============================================================================
