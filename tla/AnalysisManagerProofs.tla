------------------------ MODULE AnalysisManagerProofs ------------------------
(***************************************************************************)
(* Proofs about AnalysisManager, for every set of analyzers, priorities,   *)
(* addresses and bound.                                                    *)
(***************************************************************************)
EXTENDS AnalysisManager, FiniteSetTheorems, TLAPS

(* Sequence numbers and histories stay below the counter, a task names an   *)
(* analyzer, and control is with the caller exactly when nothing is active. *)
Bookkeeping ==
    /\ born =< seq
    /\ \A e \in queue : e.seq < seq /\ e.born =< e.seq
    /\ \A e \in queue : e.kind = "task" => e.who \in Analyzers
    /\ \A e \in queue : e.kind = "create" => e.rel
    /\ phase = "out" => active = NoPriority /\ born = 0
    /\ phase = "exec" => active \in Int /\ born > 0

(* While a body runs, whatever was queued when it was popped has at least   *)
(* its priority: it was popped as the first key.                            *)
ActiveFloor ==
    phase = "exec" => \A f \in queue : f.seq < born => active =< f.prio

(* The requests of the body now running (or of the caller) all sit at its   *)
(* disassembly priority, function creation one behind disassembly.          *)
CurrentRequests ==
    phase # "loop" =>
        \A e \in queue : e.rel /\ e.born = born =>
            e.prio = IF e.kind = "create" THEN disassembly_priority + 1
                                          ELSE disassembly_priority

(* The same order, kept for the requests of bodies that have returned. *)
RequestOrder ==
    \A e, f \in queue :
        /\ e.rel /\ f.rel /\ e.born = f.born
        /\ e.kind = "disassemble" /\ f.kind = "create"
        => e.prio < f.prio

(* The facts about the queue's entries, each kept by every push and pop. *)
QueueInv == /\ Bookkeeping
            /\ UniqueKeys
            /\ ActiveFloor
            /\ RequestsJumpTheQueue
            /\ CurrentRequests
            /\ RequestOrder

IInv == TypeOK /\ QueueInv /\ OneTaskPerPending

-----------------------------------------------------------------------------
(* The tasks one notification pushes. *)

(* A proper subset of a finite set has fewer elements. *)
LEMMA ProperSubset ==
    ASSUME NEW S, IsFiniteSet(S), NEW T \in SUBSET S, T # S
    PROVE  /\ Cardinality(T) \in Nat
           /\ Cardinality(S) \in Nat
           /\ Cardinality(T) < Cardinality(S)
<1>1. IsFiniteSet(T) /\ Cardinality(T) =< Cardinality(S) /\ Cardinality(T) # Cardinality(S)
  BY FS_Subset
<1>2. Cardinality(T) \in Nat /\ Cardinality(S) \in Nat
  BY <1>1, FS_CardinalityType
<1> QED
  BY <1>1, <1>2

(* An analyzer's place among those of a notification is below their number. *)
LEMMA RankBounds ==
    ASSUME NEW who \in SUBSET Analyzers, NEW i \in who
    PROVE  /\ IsFiniteSet(who)
           /\ Cardinality(who) \in Nat
           /\ Rank(i, who) \in Nat
           /\ Rank(i, who) < Cardinality(who)
<1> DEFINE S == {j \in who : j < i}
<1>1. IsFiniteSet(who)
  BY FS_Subset, ConstantsAssumption
<1>2. i \in Nat /\ i \notin S
  BY ConstantsAssumption
<1>3. S \in SUBSET who /\ S # who
  BY <1>2
<1> HIDE DEF S
<1>4. /\ Cardinality(S) \in Nat
      /\ Cardinality(who) \in Nat
      /\ Cardinality(S) < Cardinality(who)
  BY <1>1, <1>3, ProperSubset
<1> QED
  BY <1>1, <1>4 DEF Rank, S

(* Two tasks of one notification have different ranks. *)
LEMMA RankInjective ==
    ASSUME NEW who \in SUBSET Analyzers, NEW i \in who, NEW k \in who,
           Rank(i, who) = Rank(k, who)
    PROVE  i = k
<1>1. ASSUME NEW x \in who, NEW y \in who, x < y
      PROVE  Rank(x, who) < Rank(y, who)
  <2> DEFINE S == {j \in who : j < x}
             T == {j \in who : j < y}
  <2>1. IsFiniteSet(T)
    BY RankBounds, FS_Subset
  <2>2. \A j \in who : j \in Nat
    BY ConstantsAssumption
  <2>3. \A j \in who : j < x => j < y
    BY <1>1, <2>2
  <2>4. x \in T /\ x \notin S
    BY <1>1, <2>2
  <2>5. S \in SUBSET T /\ S # T
    BY <2>3, <2>4
  <2> HIDE DEF S, T
  <2>6. Cardinality(S) < Cardinality(T)
    BY <2>1, <2>5, ProperSubset
  <2> QED
    BY <2>6 DEF Rank, S, T
<1>2. i \in Nat /\ k \in Nat
  BY ConstantsAssumption
<1>3. Rank(i, who) \in Nat /\ Rank(k, who) \in Nat
  BY RankBounds
<1>4. ~(i < k) /\ ~(k < i)
  BY <1>1, <1>3
<1> QED
  BY <1>2, <1>4

(* Its tasks are entries, one for each analyzer. *)
LEMMA TasksType ==
    ASSUME NEW who \in SUBSET Analyzers, TypeOK
    PROVE  /\ Tasks(who) \subseteq Entry
           /\ IsFiniteSet(Tasks(who))
           /\ Cardinality(Tasks(who)) = Cardinality(who)
<1> DEFINE F(i) == [prio |-> Priority[i], seq |-> seq + Rank(i, who), kind |-> "task",
                    who |-> i, set |-> {}, rel |-> FALSE, born |-> born]
<1> DEFINE g == [i \in who |-> F(i)]
<1>1. IsFiniteSet(who)
  BY FS_Subset, ConstantsAssumption
<1>2. \A i \in who : F(i) \in Entry
  <2> SUFFICES ASSUME NEW i \in who PROVE F(i) \in Entry
    OBVIOUS
  <2>1. Rank(i, who) \in Nat /\ Priority[i] \in Int /\ i \in Nat
    BY RankBounds, ConstantsAssumption
  <2>2. seq + Rank(i, who) \in Nat /\ born \in Nat
    BY <2>1 DEF TypeOK
  <2> QED
    BY <2>1, <2>2 DEF Entry, Kinds
<1>3. Tasks(who) = {g[i] : i \in who}
  BY DEF Tasks
<1>4. g \in Bijection(who, Tasks(who))
  <2>1. \A i, k \in who : g[i] = g[k] => i = k
    OBVIOUS
  <2> QED
    BY <1>3, <2>1 DEF Bijection, Injection, Surjection, IsInjective, Range
<1>5. IsFiniteSet(Tasks(who)) /\ Cardinality(Tasks(who)) = Cardinality(who)
  BY <1>1, <1>4, FS_Bijection DEF ExistsBijection
<1> QED
  BY <1>2, <1>3, <1>5

(* Their sequence numbers are new and distinct, and in the order of the     *)
(* analyzers they belong to one each.                                       *)
LEMMA TasksFacts ==
    ASSUME TypeOK, NEW who \in SUBSET Analyzers
    PROVE  /\ \A e \in Tasks(who) :
                 /\ seq =< e.seq /\ e.seq < seq + Cardinality(who)
                 /\ e.born = born /\ ~e.rel
                 /\ e.kind = "task" /\ e.who \in who
           /\ \A e, f \in Tasks(who) : e.seq = f.seq \/ e.who = f.who => e = f
           /\ \A i \in who : \E e \in Tasks(who) : e.who = i
<1>1. seq \in Nat
  BY DEF TypeOK
<1>2. \A i \in who : Rank(i, who) \in Nat /\ Rank(i, who) < Cardinality(who)
                     /\ Cardinality(who) \in Nat
  BY RankBounds
<1>3. \A i, k \in who : Rank(i, who) = Rank(k, who) => i = k
  BY RankInjective
<1> DEFINE F(i) == [prio |-> Priority[i], seq |-> seq + Rank(i, who), kind |-> "task",
                    who |-> i, set |-> {}, rel |-> FALSE, born |-> born]
<1>4. Tasks(who) = {F(i) : i \in who}
  BY DEF Tasks
<1>5. \A i \in who : /\ seq =< F(i).seq /\ F(i).seq < seq + Cardinality(who)
                     /\ F(i).born = born /\ ~F(i).rel
                     /\ F(i).kind = "task" /\ F(i).who = i
  BY <1>1, <1>2
<1>6. \A i, k \in who : F(i).seq = F(k).seq => i = k
  BY <1>1, <1>2, <1>3
<1> HIDE DEF F
<1>7. ASSUME NEW e \in Tasks(who)
      PROVE  \E i \in who : e = F(i)
  BY <1>4
<1>8. ASSUME NEW e \in Tasks(who), NEW f \in Tasks(who), e.seq = f.seq \/ e.who = f.who
      PROVE  e = f
  <2>1. PICK i \in who : e = F(i)
    BY <1>7
  <2>2. PICK k \in who : f = F(k)
    BY <1>7
  <2> QED
    BY <1>5, <1>6, <1>8, <2>1, <2>2
<1>9. \A i \in who : F(i) \in Tasks(who) /\ F(i).who = i
  BY <1>4, <1>5
<1> QED
  BY <1>5, <1>7, <1>8, <1>9

-----------------------------------------------------------------------------
(* What a push and a pop do to the queue. *)

(* Scheduling::push keeps the queue's invariant: the new keys are fresh, and *)
(* what the entries remember of the order they were asked for still holds.  *)
LEMMA PushKeepsQueueInv ==
    ASSUME TypeOK, QueueInv, MaySchedule,
           NEW es \in SUBSET Entry,
           queue' = queue \cup es, seq' \in Nat, seq =< seq',
           \A e \in es : /\ seq =< e.seq /\ e.seq < seq' /\ e.born = born
                         /\ e.kind = "task" => e.who \in Analyzers
                         /\ e.kind = "create" => e.rel
                         /\ e.rel => e.prio = IF e.kind = "create"
                                                 THEN disassembly_priority + 1
                                                 ELSE disassembly_priority,
           \A e, f \in es : e.seq = f.seq => e = f,
           UNCHANGED <<active, phase, born>>
    PROVE  QueueInv'
<1> USE DEF TypeOK, MaySchedule
<1>1. \A e \in queue \cup es : /\ e.seq \in Nat /\ e.prio \in Int /\ e.born \in Nat
                              /\ e.rel \in BOOLEAN
  BY DEF Entry
<1>2. Bookkeeping'
  BY <1>1 DEF QueueInv, Bookkeeping
<1>3. UniqueKeys'
  BY <1>1 DEF QueueInv, Bookkeeping, UniqueKeys
<1>4. phase = "exec" => active \in Int /\ disassembly_priority = active - 2
  BY ConstantsAssumption DEF QueueInv, Bookkeeping, disassembly_priority
<1>5. phase = "out" => born = 0 /\ disassembly_priority = DISASSEMBLY /\ DISASSEMBLY \in Int
  BY ConstantsAssumption DEF QueueInv, Bookkeeping, disassembly_priority
<1>6. ActiveFloor'
  <2> SUFFICES ASSUME phase = "exec", NEW f \in queue \cup es, f.seq < born
               PROVE  active =< f.prio
    BY DEF ActiveFloor
  <2>1. f \in queue
    BY <1>1 DEF QueueInv, Bookkeeping
  <2> QED
    BY <2>1 DEF QueueInv, ActiveFloor
<1>7. RequestsJumpTheQueue'
  <2> SUFFICES ASSUME NEW e \in queue \cup es, NEW f \in queue \cup es,
                      e.rel, e.born # 0, f.seq < e.born
               PROVE  Before(e, f)
    BY DEF RequestsJumpTheQueue
  <2>1. e.born =< seq
    BY <1>1 DEF QueueInv, Bookkeeping
  <2>2. f \in queue
    BY <1>1, <2>1
  <2>3. CASE e \in queue
    BY <2>2, <2>3 DEF QueueInv, RequestsJumpTheQueue
  <2>4. CASE e \in es
    <3>1. phase = "exec" /\ e.born = born
      BY <1>5, <2>4
    <3>2. active =< f.prio
      BY <2>2, <3>1 DEF QueueInv, ActiveFloor
    <3>3. e.prio < active
      BY <1>4, <2>4, <3>1
    <3> QED
      BY <1>1, <1>4, <3>1, <3>2, <3>3 DEF Before
  <2> QED
    BY <2>3, <2>4
<1>8. CurrentRequests'
  <2>1. disassembly_priority' = disassembly_priority
    BY DEF disassembly_priority
  <2> SUFFICES ASSUME phase # "loop", NEW e \in queue \cup es, e.rel, e.born = born
               PROVE  e.prio = IF e.kind = "create" THEN disassembly_priority + 1
                                                    ELSE disassembly_priority
    BY <2>1 DEF CurrentRequests
  <2> QED
    BY DEF QueueInv, CurrentRequests
<1>9. RequestOrder'
  <2> SUFFICES ASSUME NEW e \in queue \cup es, NEW f \in queue \cup es,
                      e.rel, f.rel, e.born = f.born,
                      e.kind = "disassemble", f.kind = "create"
               PROVE  e.prio < f.prio
    BY DEF RequestOrder
  <2>1. CASE e \in queue /\ f \in queue
    BY <2>1 DEF QueueInv, RequestOrder
  <2>2. CASE e \in es \/ f \in es
    <3>1. e.born = born /\ f.born = born
      BY <2>2
    <3>2. e.prio = disassembly_priority /\ f.prio = disassembly_priority + 1
      BY <3>1 DEF QueueInv, CurrentRequests
    <3> QED
      BY <1>1, <1>4, <1>5, <3>2
  <2> QED
    BY <2>1, <2>2
<1> QED
  BY <1>2, <1>3, <1>6, <1>7, <1>8, <1>9 DEF QueueInv

(* Taking the first entry off the queue keeps its invariant. *)
LEMMA PopKeepsQueueInv ==
    ASSUME TypeOK, QueueInv, NEW e \in queue, Pop(e)
    PROVE  QueueInv'
<1> USE DEF TypeOK
<1>1. \A f \in queue : f.seq \in Nat /\ f.prio \in Int /\ f.born \in Nat
  BY DEF Entry
<1>2. /\ queue' = queue \ {e} /\ active' = e.prio /\ born' = seq /\ seq' = seq
      /\ phase' \in {"loop", "exec"}
  BY DEF Pop, PopTask, PopCommand
<1>3. \A f \in queue : f.seq < seq /\ f.born < seq
  BY <1>1 DEF QueueInv, Bookkeeping
<1>4. Bookkeeping'
  BY <1>1, <1>2, <1>3 DEF QueueInv, Bookkeeping
<1>5. UniqueKeys' /\ RequestsJumpTheQueue' /\ RequestOrder'
  BY <1>2 DEF QueueInv, UniqueKeys, RequestsJumpTheQueue, RequestOrder
<1>6. ActiveFloor'
  BY <1>1, <1>2 DEF ActiveFloor, Pop, First, Before
<1>7. CurrentRequests'
  <2>1. \A f \in queue' : f.born # born'
    BY <1>1, <1>2, <1>3
  <2> QED
    BY <2>1 DEF CurrentRequests
<1> QED
  BY <1>4, <1>5, <1>6, <1>7 DEF QueueInv

-----------------------------------------------------------------------------
(* Type correctness and the task flags. *)

(* Every step of the scheduler and of a running body keeps the types. *)
LEMMA TypeStep ==
    ASSUME TypeOK, Bookkeeping, [Next]_vars
    PROVE  TypeOK'
<1> USE DEF TypeOK
<1>1. ASSUME NEW ty \in Types, NEW set \in SUBSET Addr, Notify(ty, set)
      PROVE  TypeOK'
  <2> DEFINE who == Unscheduled(ty, set)
  <2>1. who \in SUBSET Analyzers
    BY DEF Unscheduled, Subscribers
  <2>2. Tasks(who) \subseteq Entry /\ Cardinality(Tasks(who)) = Cardinality(who)
        /\ Cardinality(who) \in Nat
    <3>1. IsFiniteSet(who)
      BY <2>1, FS_Subset, ConstantsAssumption
    <3> QED
      BY <2>1, <3>1, TasksType, FS_CardinalityType
  <2>3. /\ queue' = queue \cup Tasks(who) /\ seq' = seq + Cardinality(Tasks(who))
        /\ UNCHANGED <<registered, active, phase, born>>
    BY <1>1 DEF Notify, Push
  <2>4. pending' \in [Analyzers -> SUBSET Addr] /\ scheduled' \in [Analyzers -> BOOLEAN]
    BY <1>1 DEF Notify
  <2> HIDE DEF who
  <2> QED
    BY <2>2, <2>3, <2>4
<1>2. ASSUME NEW p \in Int, NEW kind \in Kinds, NEW set \in SUBSET Addr, NEW rel \in BOOLEAN,
             PushCommand(p, kind, set, rel)
      PROVE  TypeOK'
  <2>1. Command(p, kind, set, rel) \in Entry
    BY DEF Command, Entry
  <2>2. Cardinality({Command(p, kind, set, rel)}) = 1
    BY FS_Singleton
  <2> QED
    BY <1>2, <2>1, <2>2 DEF PushCommand, Push
<1>3. MaySchedule => disassembly_priority \in Int
  BY ConstantsAssumption DEF disassembly_priority, Bookkeeping, MaySchedule
<1>4. CASE Schedule
  <2>1. ASSUME NEW set \in SUBSET Addr, Disassemble(set) PROVE TypeOK'
    BY <1>2, <1>3, <2>1 DEF Disassemble, PushCommand, Kinds
  <2>2. ASSUME NEW set \in SUBSET Addr, DisassembleAt(set) PROVE TypeOK'
    BY <1>2, <2>2, ConstantsAssumption DEF DisassembleAt, Kinds
  <2>3. ASSUME NEW set \in SUBSET Addr, CreateFunction(set) PROVE TypeOK'
    <3>1. disassembly_priority + 1 \in Int
      BY <1>3, <2>3 DEF CreateFunction, PushCommand
    <3> QED
      BY <1>2, <2>3, <3>1 DEF CreateFunction, Kinds
  <2>4. ASSUME NEW set \in SUBSET Addr, NEW p \in OneShots, ScheduleOneShot(p, set)
        PROVE  TypeOK'
    BY <1>2, <2>4, ConstantsAssumption DEF ScheduleOneShot, Kinds
  <2> QED
    BY <1>1, <1>4, <2>1, <2>2, <2>3, <2>4 DEF Schedule
<1>5. ASSUME NEW e \in queue, Pop(e) PROVE TypeOK'
  <2>1. queue' \subseteq Entry /\ active' \in Int /\ born' \in Nat /\ seq' \in Nat
    BY <1>5 DEF Pop, Entry
  <2>2. CASE PopTask(e)
    BY <1>5, <2>1, <2>2 DEF Pop, PopTask, Take
  <2>3. CASE PopCommand(e)
    BY <1>5, <2>1, <2>3 DEF Pop, PopCommand
  <2> QED
    BY <1>5, <2>2, <2>3 DEF Pop
<1>6. CASE StartRun \/ Finish \/ Return
  BY <1>6 DEF StartRun, Finish, Return
<1>7. ASSUME NEW i \in Analyzers, AddAnalyzer(i) PROVE TypeOK'
  BY <1>7 DEF AddAnalyzer
<1>8. CASE UNCHANGED vars
  BY <1>8 DEF vars
<1> QED
  BY <1>4, <1>5, <1>6, <1>7, <1>8 DEF Next, Run

(* Every step keeps the queue's invariant. *)
LEMMA QueueStep ==
    ASSUME TypeOK, QueueInv, [Next]_vars
    PROVE  QueueInv'
<1>1. ASSUME NEW ty \in Types, NEW set \in SUBSET Addr, Notify(ty, set)
      PROVE  QueueInv'
  <2> DEFINE who == Unscheduled(ty, set)
  <2>1. who \in SUBSET Analyzers
    BY DEF Unscheduled, Subscribers, TypeOK
  <2>2. IsFiniteSet(who) /\ Cardinality(who) \in Nat
    BY <2>1, FS_Subset, FS_CardinalityType, ConstantsAssumption
  <2>3. Tasks(who) \in SUBSET Entry /\ Cardinality(Tasks(who)) = Cardinality(who)
    BY <2>1, TasksType
  <2>4. /\ queue' = queue \cup Tasks(who) /\ seq' = seq + Cardinality(who)
        /\ MaySchedule /\ UNCHANGED <<active, phase, born>>
    BY <1>1, <2>3 DEF Notify, Push
  <2> HIDE DEF who
  <2>5. seq' \in Nat /\ seq =< seq'
    BY <2>2, <2>4 DEF TypeOK
  <2>6. \A e \in Tasks(who) : /\ seq =< e.seq /\ e.seq < seq' /\ e.born = born
                              /\ e.kind = "task" => e.who \in Analyzers
                              /\ e.kind = "create" => e.rel
                              /\ e.rel => e.prio = IF e.kind = "create"
                                                      THEN disassembly_priority + 1
                                                      ELSE disassembly_priority
    BY <2>1, <2>4, TasksFacts
  <2>7. \A e, f \in Tasks(who) : e.seq = f.seq => e = f
    BY <2>1, TasksFacts
  <2> QED
    BY <2>3, <2>4, <2>5, <2>6, <2>7, PushKeepsQueueInv
<1>2. ASSUME NEW p \in Int, NEW kind \in Kinds \ {"task"}, NEW set \in SUBSET Addr,
             NEW rel \in BOOLEAN, PushCommand(p, kind, set, rel),
             kind = "create" => rel,
             rel => p = IF kind = "create" THEN disassembly_priority + 1
                                           ELSE disassembly_priority
      PROVE  QueueInv'
  <2> DEFINE c == Command(p, kind, set, rel)
  <2>1. {c} \in SUBSET Entry
    BY DEF Command, Entry, TypeOK
  <2>2. /\ queue' = queue \cup {c} /\ seq' = seq + 1 /\ MaySchedule
        /\ UNCHANGED <<active, phase, born>>
    BY <1>2, FS_Singleton DEF PushCommand, Push
  <2>3. seq \in Nat /\ seq' \in Nat /\ seq =< seq'
    BY <2>2 DEF TypeOK
  <2>4. c.seq = seq /\ c.born = born /\ c.kind = kind /\ c.rel = rel /\ c.prio = p
    BY DEF Command
  <2> HIDE DEF c
  <2>5. \A e \in {c} : /\ seq =< e.seq /\ e.seq < seq' /\ e.born = born
                       /\ e.kind = "task" => e.who \in Analyzers
                       /\ e.kind = "create" => e.rel
                       /\ e.rel => e.prio = IF e.kind = "create"
                                               THEN disassembly_priority + 1
                                               ELSE disassembly_priority
    BY <1>2, <2>2, <2>3, <2>4 DEF Kinds
  <2> QED
    BY <2>1, <2>2, <2>3, <2>5, PushKeepsQueueInv
<1>3. MaySchedule => disassembly_priority \in Int
  BY ConstantsAssumption DEF disassembly_priority, QueueInv, Bookkeeping, MaySchedule
<1>4. CASE Schedule
  <2>1. ASSUME NEW set \in SUBSET Addr, Disassemble(set) PROVE QueueInv'
    <3>1. disassembly_priority \in Int
      BY <1>3, <2>1 DEF Disassemble, PushCommand
    <3> QED
      BY <1>2, <2>1, <3>1 DEF Disassemble, Kinds
  <2>2. ASSUME NEW set \in SUBSET Addr, DisassembleAt(set) PROVE QueueInv'
    BY <1>2, <2>2, ConstantsAssumption DEF DisassembleAt, Kinds
  <2>3. ASSUME NEW set \in SUBSET Addr, CreateFunction(set) PROVE QueueInv'
    <3>1. disassembly_priority + 1 \in Int
      BY <1>3, <2>3 DEF CreateFunction, PushCommand
    <3> QED
      BY <1>2, <2>3, <3>1 DEF CreateFunction, Kinds
  <2>4. ASSUME NEW set \in SUBSET Addr, NEW p \in OneShots, ScheduleOneShot(p, set)
        PROVE  QueueInv'
    BY <1>2, <2>4, ConstantsAssumption DEF ScheduleOneShot, Kinds
  <2> QED
    BY <1>1, <1>4, <2>1, <2>2, <2>3, <2>4 DEF Schedule
<1>5. ASSUME NEW e \in queue, Pop(e) PROVE QueueInv'
  BY <1>5, PopKeepsQueueInv
<1> USE DEF QueueInv, Bookkeeping, UniqueKeys, ActiveFloor, RequestsJumpTheQueue,
            CurrentRequests, RequestOrder, Before, disassembly_priority
<1>6. CASE StartRun \/ Finish
  BY <1>6 DEF StartRun, Finish
<1>7. CASE Return
  BY <1>7 DEF Return, TypeOK
<1>8. ASSUME NEW i \in Analyzers, AddAnalyzer(i) PROVE QueueInv'
  BY <1>8 DEF AddAnalyzer
<1>9. CASE UNCHANGED vars
  BY <1>9 DEF vars
<1> QED
  BY <1>4, <1>5, <1>6, <1>7, <1>8, <1>9 DEF Next, Run

(* Every step keeps one queued task per pending set, and none for an empty  *)
(* one.                                                                     *)
LEMMA TaskStep ==
    ASSUME TypeOK, OneTaskPerPending, Bookkeeping, UniqueKeys, [Next]_vars
    PROVE  OneTaskPerPending'
<1> USE DEF TypeOK
<1>1. ASSUME NEW ty \in Types, NEW set \in SUBSET Addr, Notify(ty, set)
      PROVE  OneTaskPerPending'
  <2> DEFINE who == Unscheduled(ty, set)
  <2>1. who \in SUBSET Analyzers
    BY DEF Unscheduled, Subscribers
  <2>2. queue' = queue \cup Tasks(who)
    BY <1>1 DEF Notify, Push
  <2>3. \A i \in Analyzers :
          /\ scheduled'[i] <=> scheduled[i] \/ i \in who
          /\ scheduled'[i] <=> pending'[i] # {}
          /\ i \in who => ~scheduled[i]
    <3> SUFFICES ASSUME NEW i \in Analyzers
                 PROVE  /\ scheduled'[i] <=> scheduled[i] \/ i \in who
                        /\ scheduled'[i] <=> pending'[i] # {}
                        /\ i \in who => ~scheduled[i]
      OBVIOUS
    <3>1. scheduled'[i] <=> scheduled[i] \/ i \in who
      BY <1>1, Zenon DEF Notify
    <3>2. i \in who <=> i \in Subscribers(ty) /\ ~scheduled[i] /\ pending[i] \cup set # {}
      BY DEF Unscheduled
    <3>3. pending'[i] = IF i \in Subscribers(ty) THEN pending[i] \cup set ELSE pending[i]
      BY <1>1, Zenon DEF Notify
    <3>4. scheduled[i] <=> pending[i] # {}
      BY DEF OneTaskPerPending
    <3>5. pending'[i] # {} <=> pending[i] # {} \/ (i \in Subscribers(ty) /\ pending[i] \cup set # {})
      BY <3>3
    <3> HIDE DEF who
    <3> QED
      BY <3>1, <3>2, <3>4, <3>5
  <2>4. /\ \A e \in Tasks(who) : e.kind = "task" /\ e.who \in who
        /\ \A e, f \in Tasks(who) : e.who = f.who => e = f
        /\ \A i \in who : \E e \in Tasks(who) : e.who = i
    BY <2>1, TasksFacts
  <2> HIDE DEF who
  <2> SUFFICES ASSUME NEW i \in Analyzers
               PROVE  /\ scheduled'[i] <=> \E e \in queue' : e.kind = "task" /\ e.who = i
                      /\ \A e, f \in queue' :
                            e.kind = "task" /\ f.kind = "task" /\ e.who = i /\ f.who = i
                               => e = f
    BY <2>3 DEF OneTaskPerPending
  <2>5. CASE i \in who
    <3>1. ~ \E e \in queue : e.kind = "task" /\ e.who = i
      BY <2>3, <2>5 DEF OneTaskPerPending
    <3> QED
      BY <2>2, <2>3, <2>4, <2>5, <3>1
  <2>6. CASE i \notin who
    <3>1. \A e \in Tasks(who) : e.who # i
      BY <2>4, <2>6
    <3> QED
      BY <2>2, <2>3, <2>6, <3>1 DEF OneTaskPerPending
  <2> QED
    BY <2>5, <2>6
<1>2. ASSUME NEW p, NEW kind \in Kinds \ {"task"}, NEW set, NEW rel,
             PushCommand(p, kind, set, rel)
      PROVE  OneTaskPerPending'
  <2>1. queue' = queue \cup {Command(p, kind, set, rel)} /\ UNCHANGED <<pending, scheduled>>
    BY <1>2 DEF PushCommand, Push
  <2>2. Command(p, kind, set, rel).kind # "task"
    BY DEF Command
  <2> QED
    BY <2>1, <2>2 DEF OneTaskPerPending
<1>3. CASE Schedule
  BY <1>1, <1>2, <1>3 DEF Schedule, Disassemble, DisassembleAt, CreateFunction,
                          ScheduleOneShot, Kinds
<1>4. ASSUME NEW e \in queue, Pop(e) PROVE OneTaskPerPending'
  <2>1. queue' = queue \ {e}
    BY <1>4 DEF Pop
  <2>2. CASE PopTask(e)
    <3>1. e.who \in Analyzers /\ e.kind = "task"
      BY <2>2 DEF Bookkeeping, PopTask
    <3>2. /\ scheduled' = [scheduled EXCEPT ![e.who] = FALSE]
          /\ pending' = [pending EXCEPT ![e.who] = {}]
      BY <2>2 DEF PopTask, Take
    <3>3. \A f \in queue' : f.kind = "task" => f.who # e.who
      BY <2>1, <3>1 DEF OneTaskPerPending
    <3> QED
      BY <2>1, <3>1, <3>2, <3>3 DEF OneTaskPerPending
  <2>3. CASE PopCommand(e)
    BY <2>1, <2>3 DEF PopCommand, OneTaskPerPending
  <2> QED
    BY <1>4, <2>2, <2>3 DEF Pop
<1>5. CASE StartRun \/ Finish \/ Return \/ (\E i \in Analyzers : AddAnalyzer(i))
           \/ UNCHANGED vars
  BY <1>5 DEF StartRun, Finish, Return, AddAnalyzer, vars, OneTaskPerPending
<1> QED
  BY <1>3, <1>4, <1>5 DEF Next, Run

-----------------------------------------------------------------------------
(* The theorems. *)

(* A new manager satisfies the inductive invariant. *)
LEMMA InitIInv == Init => IInv
BY DEF Init, IInv, TypeOK, QueueInv, Bookkeeping, UniqueKeys, ActiveFloor,
       RequestsJumpTheQueue, CurrentRequests, RequestOrder, OneTaskPerPending

(* Every step of the manager keeps the inductive invariant. *)
LEMMA StepIInv == IInv /\ [Next]_vars => IInv'
BY TypeStep, QueueStep, TaskStep DEF IInv, QueueInv

(* The inductive invariant: what each queued entry remembers of the moment  *)
(* it was pushed, together with the task flags.                             *)
THEOREM Inductive == Spec => []IInv
BY InitIInv, StepIInv, PTL DEF Spec

(* Every variable keeps its type, whatever the analyzers schedule. *)
THEOREM TypeCorrect == Spec => []TypeOK
<1>1. IInv => TypeOK
  BY DEF IInv
<1> QED
  BY <1>1, Inductive, PTL

(* No lost wakeup in Scheduling: a pending set always has exactly one task. *)
THEOREM NoLostNotification == Spec => []OneTaskPerPending
<1>1. IInv => OneTaskPerPending
  BY DEF IInv
<1> QED
  BY <1>1, Inductive, PTL

(* Scheduling::push never overwrites a queued command. *)
THEOREM NoCommandOverwritten == Spec => []UniqueKeys
<1>1. IInv => UniqueKeys
  BY DEF IInv, QueueInv
<1> QED
  BY <1>1, Inductive, PTL

(* Requests made while a command runs are served before the older queue. *)
THEOREM RequestsFirst == Spec => []RequestsJumpTheQueue
<1>1. IInv => RequestsJumpTheQueue
  BY DEF IInv, QueueInv
<1> QED
  BY <1>1, Inductive, PTL

(* Only a pop removes an entry, and it removes the first one. *)
LEMMA RemovedIsFirst ==
    ASSUME TypeOK, [Next]_vars, NEW e \in queue, e \notin queue'
    PROVE  First(e)
<1>1. CASE Schedule
  BY <1>1 DEF Schedule, Notify, Disassemble, DisassembleAt, CreateFunction,
              ScheduleOneShot, PushCommand, Push
<1>2. ASSUME NEW f \in queue, Pop(f) PROVE First(e)
  BY <1>2 DEF Pop
<1>3. CASE StartRun \/ Finish \/ Return \/ (\E i \in Analyzers : AddAnalyzer(i))
           \/ UNCHANGED vars
  BY <1>3 DEF StartRun, Finish, Return, AddAnalyzer, vars
<1> QED
  BY <1>1, <1>2, <1>3 DEF Next, Run

(* CreateFunctionCmd never overtakes the disassembly its requester asked    *)
(* for.                                                                     *)
THEOREM DisassemblyBeforeCreation == Spec => DisassembledFirst
<1>1. ASSUME IInv, [Next]_vars, NEW e \in queue, e \notin queue', e.kind = "create",
             NEW f \in queue, f.kind = "disassemble", f.rel, f.born = e.born
      PROVE  FALSE
  <2>1. e.prio \in Int /\ f.prio \in Int /\ e # f
    BY <1>1 DEF IInv, TypeOK, Entry
  <2>2. e.prio =< f.prio
    BY <1>1, <2>1, RemovedIsFirst DEF IInv, First, Before
  <2>3. e.rel
    BY <1>1 DEF IInv, QueueInv, Bookkeeping
  <2> QED
    BY <1>1, <2>1, <2>2, <2>3 DEF IInv, QueueInv, RequestOrder
<1> DEFINE A == \A e \in queue :
                  e \notin queue' /\ e.kind = "create" =>
                      ~ \E f \in queue : /\ f.kind = "disassemble"
                                         /\ f.rel
                                         /\ f.born = e.born
<1>2. IInv /\ [Next]_vars => [A]_vars
  BY <1>1
<1> HIDE DEF A
<1>3. Spec => [][A]_vars
  BY <1>2, Inductive, PTL DEF Spec
<1> QED
  BY <1>3 DEF DisassembledFirst, A

-----------------------------------------------------------------------------
(* Refinement. *)

(* Every step of the manager is a step of the abstract worklist, or none. *)
LEMMA WorklistStep == IInv /\ [Next]_vars => [W!WNext]_(W!wvars)
<1> SUFFICES ASSUME IInv, [Next]_vars
             PROVE  [W!WNext]_(W!wvars)
  OBVIOUS
<1> USE DEF W!WNext, W!wvars, TypeOK, IInv
<1>1. ASSUME NEW ty \in Types, NEW set \in SUBSET Addr, Notify(ty, set)
      PROVE  W!Report(ty, set)
  BY <1>1 DEF Notify, Subscribers, W!Report
<1>2. CASE \E set \in SUBSET Addr : \/ Disassemble(set)
                                    \/ DisassembleAt(set)
                                    \/ CreateFunction(set)
                                    \/ \E p \in OneShots : ScheduleOneShot(p, set)
  BY <1>2 DEF Disassemble, DisassembleAt, CreateFunction, ScheduleOneShot, PushCommand
<1>3. ASSUME NEW e \in queue, Pop(e) PROVE [W!WNext]_(W!wvars)
  <2>1. phase # "out" /\ phase' # "out" /\ registered' = registered
    BY <1>3 DEF Pop, PopTask, PopCommand
  <2>2. CASE PopTask(e)
    <3>1. e.who \in Analyzers
      BY <2>2 DEF QueueInv, Bookkeeping, PopTask
    <3>2. pending[e.who] # {}
      BY <2>2, <3>1 DEF OneTaskPerPending, PopTask
    <3>3. W!Deliver(e.who)
      BY <2>1, <2>2, <3>1, <3>2 DEF W!Deliver, PopTask, Take
    <3> QED
      BY <3>1, <3>3
  <2>3. CASE PopCommand(e)
    BY <2>1, <2>3 DEF PopCommand
  <2> QED
    BY <1>3, <2>2, <2>3 DEF Pop
<1>4. CASE StartRun
  BY <1>4 DEF StartRun, W!Enter
<1>5. CASE Finish \/ UNCHANGED vars
  BY <1>5 DEF Finish, vars
<1>6. CASE Return
  <2>1. \A i \in Analyzers : pending[i] = {}
    BY <1>6 DEF Return, OneTaskPerPending
  <2> QED
    BY <1>6, <2>1 DEF Return, W!Leave
<1>7. ASSUME NEW i \in Analyzers, AddAnalyzer(i) PROVE W!Subscribe(i)
  BY <1>7 DEF AddAnalyzer, W!Subscribe
<1> QED
  BY <1>1, <1>2, <1>3, <1>4, <1>5, <1>6, <1>7 DEF Next, Run, Schedule

(* The queue, its keys and its flags implement the abstract worklist: what  *)
(* is reported is delivered, and run returns only when nothing is owed.     *)
THEOREM Refinement == Spec => ImplementsWorklist
<1>1. Init => W!WInit
  BY DEF Init, W!WInit
<1> QED
  BY <1>1, Inductive, WorklistStep, PTL DEF Spec, ImplementsWorklist, W!WSpec

=============================================================================
