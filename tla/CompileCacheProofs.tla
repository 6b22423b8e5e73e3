------------------------- MODULE CompileCacheProofs -------------------------
(***************************************************************************)
(* Proofs about CompileCache: its types; that the install lock admits one  *)
(* live process at a time to a compile batch whatever the processes, units *)
(* and caches are, as long as the lock file can be had (inductively: a     *)
(* process that compiles holds the lock on its path); and that what the    *)
(* cache answers is the compiler's verdict where nothing comes between the *)
(* writes of an entry.                                                     *)
(***************************************************************************)
EXTENDS CompileCache, TLAPS

(* The slot of a unit is one of the slots. *)
LEMMA SlotType == \A p \in Proc, u \in Units : slot(p, u) \in Slots
BY DEF slot, Slots

(* The path a process locks is one of the lock paths. *)
LEMMA PathType == \A p \in Proc : lock_path(p) \in Paths
BY DEF lock_path, Paths

(* The text of a unit is one of the sources. *)
LEMMA SourceType == \A u \in Units : Source[u] \in Sources
BY DEF Sources

(* An answer about a unit joins the answers of the batch. *)
LEMMA ReplyType ==
    ASSUME NEW p \in Proc, NEW u \in Units, NEW o \in Units \cup {NoFile, Torn},
           NEW a \in BOOLEAN, answers \in [Proc -> SUBSET Answer], Reply(p, u, o, a)
    PROVE  answers' \in [Proc -> SUBSET Answer]
<1>1. [unit |-> u, object |-> o, adjudicated |-> a] \in Answer
  BY DEF Answer
<1> QED
  BY <1>1 DEF Reply

(* The types hold initially. *)
LEMMA TypeInit == Init => TypeOK
<1> SUFFICES ASSUME Init PROVE TypeOK
  OBVIOUS
<1>1. cur \in [Proc -> Units]
  <2>1. (CHOOSE u \in Units : TRUE) \in Units
    BY CacheAssumption
  <2> QED
    BY <2>1 DEF Init
<1>2. strays \in 0..crashes /\ errors \in 0..MaxErrors /\ crashes \in 0..MaxCrashes
  BY CacheAssumption DEF Init
<1>3. spoiled \in BOOLEAN
  BY DEF Init
<1> QED
  BY <1>1, <1>2, <1>3, CacheAssumption DEF Init, TypeOK, Points

(* Every step keeps the types, and only a compiling process holds a lock.  *)
LEMMA TypeStep == TypeOK /\ [Next]_vars => TypeOK'
<1> SUFFICES ASSUME TypeOK, [Next]_vars PROVE TypeOK'
  OBVIOUS
<1>0. spoiled' \in BOOLEAN
  BY DEF Next, Watch, StrayEnds, vars, TypeOK
<1> USE <1>0, SlotType, PathType, SourceType, CacheAssumption DEF TypeOK, Points
<1>1. ASSUME NEW p \in Proc, NEW n \in Names, Open(p, n) PROVE TypeOK'
  BY <1>1 DEF Open, Goto
<1>2. ASSUME NEW p \in Proc, NEW units \in SUBSET Units, CompileBatch(p, units) PROVE TypeOK'
  BY <1>2 DEF CompileBatch, Goto
<1>3. ASSUME NEW p \in Proc, NEW u \in Units, ReadSource(p, u) PROVE TypeOK'
  BY <1>3 DEF ReadSource, Goto
<1>4. ASSUME NEW p \in Proc, HitRejected(p) PROVE TypeOK'
  <2>1. answers' \in [Proc -> SUBSET Answer]
    BY <1>4, ReplyType DEF HitRejected
  <2>2. pc[p] # "compile" /\ pc' = [pc EXCEPT ![p] = "lookup"]
    BY <1>4 DEF HitRejected, Goto
  <2>3. UNCHANGED <<src, obj, holder, toolchains, work, cur, look, todo, group, judged, errors, crashes, strays>>
    BY <1>4 DEF HitRejected
  <2> QED
    BY <2>1, <2>2, <2>3
<1>5. ASSUME NEW p \in Proc, SeeObject(p) PROVE TypeOK'
  BY <1>5 DEF SeeObject, Goto
<1>6. ASSUME NEW p \in Proc, HitObject(p) PROVE TypeOK'
  <2>1. answers' \in [Proc -> SUBSET Answer]
    <3>1. obj[slot(p, cur[p])] \in Units \cup {NoFile, Torn} /\ cur[p] \in Units
      OBVIOUS
    <3>2. Reply(p, cur[p], obj[slot(p, cur[p])], TRUE) /\ answers \in [Proc -> SUBSET Answer]
      BY <1>6 DEF HitObject
    <3> HIDE DEF TypeOK
    <3> QED
      BY <3>1, <3>2, ReplyType
  <2>2. pc[p] # "compile" /\ pc' = [pc EXCEPT ![p] = "lookup"]
    BY <1>6 DEF HitObject, Goto
  <2>3. UNCHANGED <<src, obj, holder, toolchains, work, cur, look, todo, group, judged, errors, crashes, strays>>
    BY <1>6 DEF HitObject
  <2> QED
    BY <2>1, <2>2, <2>3
<1>7. ASSUME NEW p \in Proc, MissObject(p) PROVE TypeOK'
  BY <1>7 DEF MissObject, Goto, Error
<1>8. ASSUME NEW p \in Proc, NextGroup(p) PROVE TypeOK'
  BY <1>8 DEF NextGroup, Goto
<1>9. ASSUME NEW p \in Proc, BatchDone(p) PROVE TypeOK'
  BY <1>9 DEF BatchDone, Goto
<1>10. ASSUME NEW p \in Proc, Acquire(p) PROVE TypeOK'
  BY <1>10 DEF Acquire, Goto
<1>11. ASSUME NEW p \in Proc, AcquireFails(p) PROVE TypeOK'
  BY <1>11 DEF AcquireFails, Goto, Error
<1>12. ASSUME NEW p \in Proc, Compile(p) PROVE TypeOK'
  BY <1>12 DEF Compile, Goto
<1>13. ASSUME NEW p \in Proc, NEW u \in Units, Pass(p, u) PROVE TypeOK'
  <2>1. answers' \in [Proc -> SUBSET Answer]
    BY <1>13, ReplyType DEF Pass
  <2> QED
    BY <1>13, <2>1 DEF Pass, Goto
<1>14. ASSUME NEW p \in Proc, NEW u \in Units, TruncateSource(p, u) PROVE TypeOK'
  BY <1>14 DEF TruncateSource, Goto
<1>15. ASSUME NEW p \in Proc, StoreSource(p) PROVE TypeOK'
  BY <1>15 DEF StoreSource, Goto
<1>16. ASSUME NEW p \in Proc, TruncateObject(p) PROVE TypeOK'
  BY <1>16 DEF TruncateObject, Goto
<1>17. ASSUME NEW p \in Proc, StoreObject(p) PROVE TypeOK'
  <2>1. answers' \in [Proc -> SUBSET Answer]
    BY <1>17, ReplyType DEF StoreObject
  <2>2. pc[p] # "compile" /\ pc' = [pc EXCEPT ![p] = "store"]
    BY <1>17 DEF StoreObject, Goto
  <2>3. obj' \in [Slots -> Units \cup {NoFile, Torn}]
    BY <1>17 DEF StoreObject
  <2>4. UNCHANGED <<src, holder, toolchains, work, cur, look, todo, group, judged, errors, crashes, strays>>
    BY <1>17 DEF StoreObject
  <2> QED
    BY <2>1, <2>2, <2>3, <2>4
<1>18. ASSUME NEW p \in Proc, RemoveObject(p) PROVE TypeOK'
  <2>1. answers' \in [Proc -> SUBSET Answer]
    BY <1>18, ReplyType DEF RemoveObject
  <2>2. pc[p] # "compile" /\ pc' = [pc EXCEPT ![p] = "store"]
    BY <1>18 DEF RemoveObject, Goto
  <2>3. obj' \in [Slots -> Units \cup {NoFile, Torn}]
    BY <1>18 DEF RemoveObject
  <2>4. UNCHANGED <<src, holder, toolchains, work, cur, look, todo, group, judged, errors, crashes, strays>>
    BY <1>18 DEF RemoveObject
  <2> QED
    BY <2>1, <2>2, <2>3, <2>4
<1>19. ASSUME NEW p \in Proc, StoreFails(p) PROVE TypeOK'
  <2>1. answers' \in [Proc -> SUBSET Answer]
    <3>1. CASE UNCHANGED answers
      BY <3>1
    <3>2. CASE Reply(p, cur[p], IF cur[p] \in Accepts THEN cur[p] ELSE NoFile, TRUE)
      BY <3>2, ReplyType
    <3> QED
      BY <1>19, <3>1, <3>2 DEF StoreFails
  <2>2. pc[p] # "compile" /\ \E l \in {"storeObj", "store"} : pc' = [pc EXCEPT ![p] = l]
    BY <1>19 DEF StoreFails, Goto
  <2>3. errors' \in 0..MaxErrors
    BY <1>19 DEF StoreFails, Error
  <2>4. UNCHANGED <<src, obj, holder, toolchains, work, cur, look, todo, group, judged, crashes, strays>>
    BY <1>19 DEF StoreFails
  <2> QED
    BY <2>1, <2>2, <2>3, <2>4
<1>20. ASSUME NEW p \in Proc, GroupDone(p) PROVE TypeOK'
  BY <1>20 DEF GroupDone, Goto
<1>21. ASSUME NEW p \in Proc, Crash(p) PROVE TypeOK'
  BY <1>21 DEF Crash, Goto
<1>22. CASE UNCHANGED vars
  BY <1>22 DEF vars
<1>23. ASSUME NEW p \in Proc, OpenFails(p) PROVE TypeOK'
  BY <1>23 DEF OpenFails, Error
<1>24. CASE StrayEnds
  BY <1>24 DEF StrayEnds
<1> QED
  BY <1>1, <1>2, <1>3, <1>4, <1>5, <1>6, <1>7, <1>8, <1>9, <1>10, <1>11,
     <1>12, <1>13, <1>14, <1>15, <1>16, <1>17, <1>18, <1>19, <1>20, <1>21, <1>22,
     <1>23, <1>24
  DEF Next, Act, Step

(* A compiling process holds the lock on its path, as long as no lock call  *)
(* has failed.                                                              *)
CompilerHolds ==
    errors = 0 => \A p \in Proc : pc[p] = "compile" => holder[lock_path(p)] = p

(* Every step keeps the lock with the process that compiles. *)
LEMMA HoldsStep == TypeOK /\ CompilerHolds /\ [Next]_vars => CompilerHolds'
<1> SUFFICES ASSUME TypeOK, CompilerHolds, [Next]_vars, errors' = 0,
                    NEW q \in Proc, pc'[q] = "compile"
             PROVE  holder'[lock_path(q)] = q
  BY DEF CompilerHolds, lock_path
<1> USE PathType, CacheAssumption DEF TypeOK, Points, CompilerHolds
<1>1. ASSUME NEW p \in Proc, NEW n \in Names, Open(p, n) PROVE holder'[lock_path(q)] = q
  BY <1>1 DEF Open, Goto
<1>2. ASSUME NEW p \in Proc, NEW units \in SUBSET Units, CompileBatch(p, units) PROVE holder'[lock_path(q)] = q
  BY <1>2 DEF CompileBatch, Goto
<1>3. ASSUME NEW p \in Proc, NEW u \in Units, ReadSource(p, u) PROVE holder'[lock_path(q)] = q
  BY <1>3 DEF ReadSource, Goto
<1>4. ASSUME NEW p \in Proc, HitRejected(p) PROVE holder'[lock_path(q)] = q
  BY <1>4 DEF HitRejected, Goto
<1>5. ASSUME NEW p \in Proc, SeeObject(p) PROVE holder'[lock_path(q)] = q
  BY <1>5 DEF SeeObject, Goto
<1>6. ASSUME NEW p \in Proc, HitObject(p) PROVE holder'[lock_path(q)] = q
  BY <1>6 DEF HitObject, Goto
<1>7. ASSUME NEW p \in Proc, MissObject(p) PROVE holder'[lock_path(q)] = q
  BY <1>7 DEF MissObject, Goto, Error
<1>8. ASSUME NEW p \in Proc, NextGroup(p) PROVE holder'[lock_path(q)] = q
  BY <1>8 DEF NextGroup, Goto
<1>9. ASSUME NEW p \in Proc, BatchDone(p) PROVE holder'[lock_path(q)] = q
  BY <1>9 DEF BatchDone, Goto
<1>10. ASSUME NEW p \in Proc, Acquire(p) PROVE holder'[lock_path(q)] = q
  BY <1>10 DEF Acquire, Goto
<1>11. ASSUME NEW p \in Proc, AcquireFails(p) PROVE holder'[lock_path(q)] = q
  BY <1>11 DEF AcquireFails, Goto, Error
<1>12. ASSUME NEW p \in Proc, Compile(p) PROVE holder'[lock_path(q)] = q
  BY <1>12 DEF Compile, Goto
<1>13. ASSUME NEW p \in Proc, NEW u \in Units, Pass(p, u) PROVE holder'[lock_path(q)] = q
  BY <1>13 DEF Pass, Goto
<1>14. ASSUME NEW p \in Proc, NEW u \in Units, TruncateSource(p, u) PROVE holder'[lock_path(q)] = q
  BY <1>14 DEF TruncateSource, Goto
<1>15. ASSUME NEW p \in Proc, StoreSource(p) PROVE holder'[lock_path(q)] = q
  BY <1>15 DEF StoreSource, Goto
<1>16. ASSUME NEW p \in Proc, TruncateObject(p) PROVE holder'[lock_path(q)] = q
  BY <1>16 DEF TruncateObject, Goto
<1>17. ASSUME NEW p \in Proc, StoreObject(p) PROVE holder'[lock_path(q)] = q
  BY <1>17 DEF StoreObject, Goto
<1>18. ASSUME NEW p \in Proc, RemoveObject(p) PROVE holder'[lock_path(q)] = q
  BY <1>18 DEF RemoveObject, Goto
<1>19. ASSUME NEW p \in Proc, StoreFails(p) PROVE holder'[lock_path(q)] = q
  BY <1>19 DEF StoreFails, Goto, Error
<1>20. ASSUME NEW p \in Proc, GroupDone(p) PROVE holder'[lock_path(q)] = q
  BY <1>20 DEF GroupDone, Goto
<1>21. ASSUME NEW p \in Proc, Crash(p) PROVE holder'[lock_path(q)] = q
  BY <1>21 DEF Crash, Goto
<1>22. CASE UNCHANGED vars
  BY <1>22 DEF vars
<1>23. ASSUME NEW p \in Proc, OpenFails(p) PROVE holder'[lock_path(q)] = q
  BY <1>23 DEF OpenFails, Error
<1>24. CASE StrayEnds
  BY <1>24 DEF StrayEnds
<1> QED
  BY <1>1, <1>2, <1>3, <1>4, <1>5, <1>6, <1>7, <1>8, <1>9, <1>10, <1>11,
     <1>12, <1>13, <1>14, <1>15, <1>16, <1>17, <1>18, <1>19, <1>20, <1>21, <1>22,
     <1>23, <1>24
  DEF Next, Act, Step

(* The types, for all processes, units, digests and cache directories.      *)
THEOREM TypeCorrect == Spec => []TypeOK
BY TypeInit, TypeStep, PTL DEF Spec

(* The install lock lets one live process at a time compile while the lock  *)
(* file can be created and locked, also when the system takes the lock from *)
(* a process that died.  A compiler such a process has left at work is not  *)
(* kept out (OneBatchPerInstall).                                           *)
THEOREM OneBatch == Spec => []OneBatchIfLocked
<1>1. Init => CompilerHolds
  BY DEF Init, CompilerHolds
<1>2. TypeOK /\ CompilerHolds => OneBatchIfLocked
  BY CacheAssumption DEF TypeOK, CompilerHolds, OneBatchIfLocked, Batches, lock_path
<1> QED
  BY <1>1, <1>2, TypeCorrect, HoldsStep, PTL DEF Spec

-----------------------------------------------------------------------------
(* What the cache answers.  It is the compiler's verdict when nothing comes *)
(* between the writes of an entry; processes may share the directory.       *)
(* Digests may collide; two units with one digest and one source (their     *)
(* flags or toolchains differ) may not.                                     *)

DigestTells == \A u, v \in Units : Hash[u] = Hash[v] /\ Source[u] = Source[v] => u = v

(* The source of p's entry is written, its object is not. *)
Half(p) == pc[p] \in {"storeObj", "storeBytes"}

(* An entry with a unit's source has its verdict, unless it is being        *)
(* written.                                                                 *)
EntryTrue ==
    \A s \in Slots, u \in Units :
        s[2] = Hash[u] /\ src[s] = Source[u] =>
            obj[s] = Verdict(u) \/ \E r \in Proc : Half(r) /\ slot(r, cur[r]) = s

(* Between the comparison of the source and the answer, and between the     *)
(* writes of source and object, the entry has the source.                   *)
SourceThere ==
    \A p \in Proc :
        /\ Reading(p) \/ Half(p) => src[slot(p, cur[p])] = Source[cur[p]]
        /\ pc[p] = "storeBytes" => cur[p] \in Accepts

AnswersTrue ==
    \A p \in Proc : \A a \in answers[p] : a.adjudicated => a.object = Verdict(a.unit)

CacheTrue == ~spoiled => ~Meeting /\ EntryTrue /\ SourceThere /\ AnswersTrue

(* p does not fail or die while it writes an entry. *)
Unharmed(p) == Writing(p) => errors' = errors /\ crashes' = crashes

(* A failing write is no such step. *)
LEMMA ErrorSpoils == ASSUME TypeOK, NEW p \in Proc, StoreFails(p), Unharmed(p) PROVE FALSE
<1>1. errors \in Nat /\ errors' = errors + 1
  BY DEF TypeOK, StoreFails, Error
<1>2. Writing(p)
  BY DEF StoreFails, Writing
<1> QED
  BY <1>1, <1>2 DEF Unharmed

(* The digest part of a slot. *)
LEMMA SlotHash == \A p \in Proc, u \in Units : slot(p, u)[2] = Hash[u]
BY DEF slot

(* An entry with the source of the unit another one is stored for is that   *)
(* unit's.                                                                  *)
LEMMA SameUnit ==
    ASSUME DigestTells, NEW u \in Units, NEW v \in Units, Hash[u] = Hash[v], Source[u] = Source[v]
    PROVE  u = v
BY DEF DigestTells

(* A reply with the verdict keeps the answers true. *)
LEMMA ReplyTrue ==
    ASSUME TypeOK, AnswersTrue, NEW p \in Proc, NEW u \in Units, NEW o, NEW a \in BOOLEAN,
           a => o = Verdict(u), Reply(p, u, o, a)
    PROVE  AnswersTrue'
<1> SUFFICES ASSUME NEW q \in Proc, NEW b \in answers'[q], b.adjudicated
             PROVE  b.object = Verdict(b.unit)
  BY DEF AnswersTrue, Verdict
<1>1. CASE b \in answers[q]
  BY <1>1 DEF AnswersTrue
<1>2. CASE b \notin answers[q]
  <2>1. b = [unit |-> u, object |-> o, adjudicated |-> a]
    BY <1>2 DEF Reply, TypeOK
  <2> QED
    BY <2>1
<1> QED
  BY <1>1, <1>2

(* Steps that write no file and begin or end no write of an entry. *)
Quiet == /\ src' = src /\ obj' = obj
         /\ \A r \in Proc : Half(r)' = Half(r) /\ (Half(r) => cur'[r] = cur[r])

(* They keep the entries true. *)
LEMMA QuietEntry == ASSUME EntryTrue, Quiet PROVE EntryTrue'
BY DEF EntryTrue, Quiet, Verdict, slot

(* An entry is never seen with a source and another unit's verdict. *)
LEMMA EntryStep ==
    ASSUME DigestTells, TypeOK, EntryTrue, SourceThere, NEW p \in Proc, Act(p), Unharmed(p)
    PROVE  EntryTrue'
<1> USE SlotType, CacheAssumption DEF TypeOK
<1>1. ASSUME NEW n \in Names, Open(p, n) PROVE EntryTrue'
  <2>1. Quiet
    BY <1>1 DEF Quiet, Open, Goto, Half
  <2> QED
    BY <2>1, QuietEntry
<1>2. ASSUME OpenFails(p) PROVE EntryTrue'
  <2>1. Quiet
    BY <1>2 DEF Quiet, OpenFails, Goto, Half
  <2> QED
    BY <2>1, QuietEntry
<1>3. ASSUME NEW units \in SUBSET Units, CompileBatch(p, units) PROVE EntryTrue'
  <2>1. Quiet
    BY <1>3 DEF Quiet, CompileBatch, Goto, Half
  <2> QED
    BY <2>1, QuietEntry
<1>4. ASSUME NEW u \in Units, ReadSource(p, u) PROVE EntryTrue'
  <2>1. Quiet
    BY <1>4 DEF Quiet, ReadSource, Goto, Half
  <2> QED
    BY <2>1, QuietEntry
<1>5. ASSUME HitRejected(p) PROVE EntryTrue'
  <2>1. Quiet
    BY <1>5 DEF Quiet, HitRejected, Goto, Half
  <2> QED
    BY <2>1, QuietEntry
<1>6. ASSUME SeeObject(p) PROVE EntryTrue'
  <2>1. Quiet
    BY <1>6 DEF Quiet, SeeObject, Goto, Half
  <2> QED
    BY <2>1, QuietEntry
<1>7. ASSUME HitObject(p) PROVE EntryTrue'
  <2>1. Quiet
    BY <1>7 DEF Quiet, HitObject, Goto, Half
  <2> QED
    BY <2>1, QuietEntry
<1>8. ASSUME MissObject(p) PROVE EntryTrue'
  <2>1. Quiet
    BY <1>8 DEF Quiet, MissObject, Goto, Half
  <2> QED
    BY <2>1, QuietEntry
<1>9. ASSUME NextGroup(p) PROVE EntryTrue'
  <2>1. Quiet
    BY <1>9 DEF Quiet, NextGroup, Goto, Half
  <2> QED
    BY <2>1, QuietEntry
<1>10. ASSUME BatchDone(p) PROVE EntryTrue'
  <2>1. Quiet
    BY <1>10 DEF Quiet, BatchDone, Goto, Half
  <2> QED
    BY <2>1, QuietEntry
<1>11. ASSUME Acquire(p) PROVE EntryTrue'
  <2>1. Quiet
    BY <1>11 DEF Quiet, Acquire, Goto, Half
  <2> QED
    BY <2>1, QuietEntry
<1>12. ASSUME AcquireFails(p) PROVE EntryTrue'
  <2>1. Quiet
    BY <1>12 DEF Quiet, AcquireFails, Goto, Half
  <2> QED
    BY <2>1, QuietEntry
<1>13. ASSUME Compile(p) PROVE EntryTrue'
  <2>1. Quiet
    BY <1>13 DEF Quiet, Compile, Goto, Half
  <2> QED
    BY <2>1, QuietEntry
<1>14. ASSUME NEW u \in Units, Pass(p, u) PROVE EntryTrue'
  <2>1. Quiet
    BY <1>14 DEF Quiet, Pass, Goto, Half
  <2> QED
    BY <2>1, QuietEntry
<1>15. ASSUME NEW u \in Units, TruncateSource(p, u) PROVE EntryTrue'
  <2> DEFINE s == slot(p, u)
  <2>1. s \in Slots /\ src' = [src EXCEPT ![s] = Torn] /\ obj' = obj
    BY <1>15 DEF TruncateSource
  <2>2. \A r \in Proc : Half(r) => r # p /\ Half(r)' /\ cur'[r] = cur[r]
    BY <1>15 DEF TruncateSource, Goto, Half
  <2>3. Torn \notin Sources
    OBVIOUS
  <2> HIDE DEF s
  <2> SUFFICES ASSUME NEW t \in Slots, NEW v \in Units, t[2] = Hash[v], src'[t] = Source[v]
               PROVE  obj'[t] = Verdict(v) \/ \E r \in Proc : Half(r)' /\ slot(r, cur'[r]) = t
    BY DEF EntryTrue, Verdict, slot
  <2>4. CASE t = s
    BY <2>1, <2>3, <2>4, SourceType
  <2>5. CASE t # s
    <3>1. src[t] = Source[v] /\ obj'[t] = obj[t]
      BY <2>1, <2>5
    <3>2. ASSUME NEW r \in Proc, Half(r), slot(r, cur[r]) = t
          PROVE  Half(r)' /\ slot(r, cur'[r]) = t
      BY <2>2, <3>2
    <3> QED
      BY <3>1, <3>2 DEF EntryTrue
  <2> QED
    BY <2>4, <2>5
<1>16. ASSUME StoreSource(p) PROVE EntryTrue'
  <2> DEFINE s == slot(p, cur[p])
  <2>1. s \in Slots /\ src' = [src EXCEPT ![s] = Source[cur[p]]] /\ obj' = obj
    BY <1>16 DEF StoreSource
  <2>2. \A r \in Proc : Half(r) => r # p /\ Half(r)' /\ cur'[r] = cur[r]
    BY <1>16 DEF StoreSource, Goto, Half
  <2>3. Half(p)' /\ slot(p, cur'[p]) = s
    BY <1>16 DEF StoreSource, Goto, Half
  <2> HIDE DEF s
  <2> SUFFICES ASSUME NEW t \in Slots, NEW v \in Units, t[2] = Hash[v], src'[t] = Source[v]
               PROVE  obj'[t] = Verdict(v) \/ \E r \in Proc : Half(r)' /\ slot(r, cur'[r]) = t
    BY DEF EntryTrue, Verdict, slot
  <2>4. CASE t = s
    BY <2>1, <2>3, <2>4, SourceType
  <2>5. CASE t # s
    <3>1. src[t] = Source[v] /\ obj'[t] = obj[t]
      BY <2>1, <2>5
    <3>2. ASSUME NEW r \in Proc, Half(r), slot(r, cur[r]) = t
          PROVE  Half(r)' /\ slot(r, cur'[r]) = t
      BY <2>2, <3>2
    <3> QED
      BY <3>1, <3>2 DEF EntryTrue
  <2> QED
    BY <2>4, <2>5
<1>17. ASSUME TruncateObject(p) PROVE EntryTrue'
  <2> DEFINE s == slot(p, cur[p])
  <2>1. s \in Slots /\ obj' = [obj EXCEPT ![s] = Torn] /\ src' = src /\ cur' = cur
    BY <1>17 DEF TruncateObject
  <2>2. Half(p)' /\ \A r \in Proc : Half(r) => Half(r)'
    BY <1>17 DEF TruncateObject, Goto, Half
  <2>3. slot(p, cur'[p]) = s
    BY <2>1
  <2> HIDE DEF s
  <2> SUFFICES ASSUME NEW t \in Slots, NEW v \in Units, t[2] = Hash[v], src'[t] = Source[v]
               PROVE  obj'[t] = Verdict(v) \/ \E r \in Proc : Half(r)' /\ slot(r, cur'[r]) = t
    BY DEF EntryTrue, Verdict, slot
  <2>4. CASE t = s
    BY <2>2, <2>3, <2>4
  <2>5. CASE t # s
    BY <2>1, <2>2, <2>5 DEF EntryTrue
  <2> QED
    BY <2>4, <2>5
<1>18. ASSUME StoreObject(p) PROVE EntryTrue'
  <2> DEFINE s == slot(p, cur[p])
  <2>1. s \in Slots /\ cur[p] \in Units /\ s[2] = Hash[cur[p]] /\ src[s] = Source[cur[p]]
    BY <1>18, SlotHash DEF StoreObject, SourceThere, Half
  <2>2. obj' = [obj EXCEPT ![s] = Verdict(cur[p])] /\ src' = src /\ cur' = cur
    BY <1>18 DEF StoreObject, SourceThere, Verdict
  <2>3. \A r \in Proc : Half(r) /\ r # p => Half(r)'
    BY <1>18 DEF StoreObject, Goto, Half
  <2> HIDE DEF s
  <2> SUFFICES ASSUME NEW t \in Slots, NEW v \in Units, t[2] = Hash[v], src'[t] = Source[v]
               PROVE  obj'[t] = Verdict(v) \/ \E r \in Proc : Half(r)' /\ slot(r, cur'[r]) = t
    BY DEF EntryTrue, Verdict, slot
  <2>4. CASE t = s
    <3>1. v = cur[p]
      BY <2>1, <2>2, <2>4, SameUnit
    <3> QED
      BY <2>2, <2>4, <3>1
  <2>5. CASE t # s
    <3>1. obj'[t] = obj[t] /\ src[t] = Source[v]
      BY <2>2, <2>5
    <3>2. CASE obj[t] = Verdict(v)
      BY <3>1, <3>2
    <3>3. CASE obj[t] # Verdict(v)
      <4>1. PICK r \in Proc : Half(r) /\ slot(r, cur[r]) = t
        BY <3>1, <3>3 DEF EntryTrue
      <4>2. r # p
        BY <2>5, <4>1 DEF s
      <4> QED
        BY <2>2, <2>3, <4>1, <4>2
    <3> QED
      BY <3>2, <3>3
  <2> QED
    BY <2>4, <2>5
<1>19. ASSUME RemoveObject(p) PROVE EntryTrue'
  <2> DEFINE s == slot(p, cur[p])
  <2>1. s \in Slots /\ cur[p] \in Units /\ s[2] = Hash[cur[p]] /\ src[s] = Source[cur[p]]
    BY <1>19, SlotHash DEF RemoveObject, SourceThere, Half
  <2>2. obj' = [obj EXCEPT ![s] = Verdict(cur[p])] /\ src' = src /\ cur' = cur
    BY <1>19 DEF RemoveObject, SourceThere, Verdict
  <2>3. \A r \in Proc : Half(r) /\ r # p => Half(r)'
    BY <1>19 DEF RemoveObject, Goto, Half
  <2> HIDE DEF s
  <2> SUFFICES ASSUME NEW t \in Slots, NEW v \in Units, t[2] = Hash[v], src'[t] = Source[v]
               PROVE  obj'[t] = Verdict(v) \/ \E r \in Proc : Half(r)' /\ slot(r, cur'[r]) = t
    BY DEF EntryTrue, Verdict, slot
  <2>4. CASE t = s
    <3>1. v = cur[p]
      BY <2>1, <2>2, <2>4, SameUnit
    <3> QED
      BY <2>2, <2>4, <3>1
  <2>5. CASE t # s
    <3>1. obj'[t] = obj[t] /\ src[t] = Source[v]
      BY <2>2, <2>5
    <3>2. CASE obj[t] = Verdict(v)
      BY <3>1, <3>2
    <3>3. CASE obj[t] # Verdict(v)
      <4>1. PICK r \in Proc : Half(r) /\ slot(r, cur[r]) = t
        BY <3>1, <3>3 DEF EntryTrue
      <4>2. r # p
        BY <2>5, <4>1 DEF s
      <4> QED
        BY <2>2, <2>3, <4>1, <4>2
    <3> QED
      BY <3>2, <3>3
  <2> QED
    BY <2>4, <2>5
<1>20. ASSUME StoreFails(p) PROVE EntryTrue'
  BY <1>20, ErrorSpoils
<1>21. ASSUME GroupDone(p) PROVE EntryTrue'
  <2>1. Quiet
    BY <1>21 DEF Quiet, GroupDone, Goto, Half
  <2> QED
    BY <2>1, QuietEntry
<1>22. ASSUME Crash(p) PROVE EntryTrue'
  <2>1. Quiet
    BY <1>22 DEF Quiet, Crash, Goto, Half, Unharmed, Writing
  <2> QED
    BY <2>1, QuietEntry
<1> QED
  BY <1>1, <1>2, <1>3, <1>4, <1>5, <1>6, <1>7, <1>8, <1>9, <1>10, <1>11,
     <1>12, <1>13, <1>14, <1>15, <1>16, <1>17, <1>18, <1>19, <1>20, <1>21, <1>22
  DEF Act, Step

(* Nobody else writes into the entry a process is reading or writing. *)
LEMMA SourceStep ==
    ASSUME TypeOK, SourceThere, NEW p \in Proc, Act(p), Unharmed(p), ~Meeting'
    PROVE  SourceThere'
<1> DEFINE Goal(q) == /\ Reading(q)' \/ Half(q)' => src'[slot(q, cur'[q])] = Source[cur'[q]]
                      /\ pc'[q] = "storeBytes" => cur'[q] \in Accepts
<1> SUFFICES ASSUME NEW q \in Proc PROVE Goal(q)
  BY DEF SourceThere, slot
<1> USE SlotType, CacheAssumption DEF TypeOK, SourceThere
<1>1. ASSUME NEW n \in Names, Open(p, n) PROVE Goal(q)
  BY <1>1 DEF Open, Goto, Reading, Half
<1>2. ASSUME OpenFails(p) PROVE Goal(q)
  BY <1>2 DEF OpenFails, Goto, Reading, Half, Error
<1>3. ASSUME NEW units \in SUBSET Units, CompileBatch(p, units) PROVE Goal(q)
  BY <1>3 DEF CompileBatch, Goto, Reading, Half
<1>4. ASSUME NEW u \in Units, ReadSource(p, u) PROVE Goal(q)
  BY <1>4 DEF ReadSource, Goto, Reading, Half
<1>5. ASSUME HitRejected(p) PROVE Goal(q)
  BY <1>5 DEF HitRejected, Goto, Reading, Half
<1>6. ASSUME SeeObject(p) PROVE Goal(q)
  BY <1>6 DEF SeeObject, Goto, Reading, Half
<1>7. ASSUME HitObject(p) PROVE Goal(q)
  BY <1>7 DEF HitObject, Goto, Reading, Half
<1>8. ASSUME MissObject(p) PROVE Goal(q)
  BY <1>8 DEF MissObject, Goto, Reading, Half
<1>9. ASSUME NextGroup(p) PROVE Goal(q)
  BY <1>9 DEF NextGroup, Goto, Reading, Half
<1>10. ASSUME BatchDone(p) PROVE Goal(q)
  BY <1>10 DEF BatchDone, Goto, Reading, Half
<1>11. ASSUME Acquire(p) PROVE Goal(q)
  BY <1>11 DEF Acquire, Goto, Reading, Half
<1>12. ASSUME AcquireFails(p) PROVE Goal(q)
  BY <1>12 DEF AcquireFails, Goto, Reading, Half, Error
<1>13. ASSUME Compile(p) PROVE Goal(q)
  BY <1>13 DEF Compile, Goto, Reading, Half
<1>14. ASSUME NEW u \in Units, Pass(p, u) PROVE Goal(q)
  BY <1>14 DEF Pass, Goto, Reading, Half
<1>15. ASSUME NEW u \in Units, TruncateSource(p, u) PROVE Goal(q)
  <2>1. CASE p = q
    BY <1>15, <2>1 DEF TruncateSource, Goto, Reading, Half
  <2>2. CASE p # q /\ ~(Reading(q) \/ Half(q))
    BY <1>15, <2>2 DEF TruncateSource, Goto, Reading, Half
  <2>3. CASE p # q /\ (Reading(q) \/ Half(q))
    <3>1. /\ pc'[q] = pc[q] /\ cur'[q] = cur[q] /\ cur'[p] = u /\ u \in Units
          /\ pc'[p] = "storeSrc"
      BY <1>15, <2>3 DEF TruncateSource, Goto
    <3>2. Writing(p)' /\ (Reading(q) \/ Writing(q))'
      BY <2>3, <3>1 DEF Writing, Reading, Half
    <3>3. slot(p, u) # slot(q, cur[q])
      BY <2>3, <3>1, <3>2 DEF Meeting, slot
    <3> QED
      BY <1>15, <2>3, <3>1, <3>3 DEF TruncateSource, Reading, Half
  <2> QED
    BY <2>1, <2>2, <2>3
<1>16. ASSUME StoreSource(p) PROVE Goal(q)
  <2>1. CASE p = q
    BY <1>16, <2>1 DEF StoreSource, Goto, Reading, Half
  <2>2. CASE p # q /\ ~(Reading(q) \/ Half(q))
    BY <1>16, <2>2 DEF StoreSource, Goto, Reading, Half
  <2>3. CASE p # q /\ (Reading(q) \/ Half(q))
    <3>1. /\ pc'[q] = pc[q] /\ cur'[q] = cur[q] /\ cur'[p] = cur[p] /\ cur[p] \in Units
          /\ pc'[p] = "storeObj"
      BY <1>16, <2>3 DEF StoreSource, Goto
    <3>2. Writing(p)' /\ (Reading(q) \/ Writing(q))'
      BY <2>3, <3>1 DEF Writing, Reading, Half
    <3>3. slot(p, cur[p]) # slot(q, cur[q])
      BY <2>3, <3>1, <3>2 DEF Meeting, slot
    <3> QED
      BY <1>16, <2>3, <3>1, <3>3 DEF StoreSource, Reading, Half
  <2> QED
    BY <2>1, <2>2, <2>3
<1>17. ASSUME TruncateObject(p) PROVE Goal(q)
  BY <1>17 DEF TruncateObject, Goto, Reading, Half
<1>18. ASSUME StoreObject(p) PROVE Goal(q)
  BY <1>18 DEF StoreObject, Goto, Reading, Half
<1>19. ASSUME RemoveObject(p) PROVE Goal(q)
  BY <1>19 DEF RemoveObject, Goto, Reading, Half
<1>20. ASSUME StoreFails(p) PROVE Goal(q)
  BY <1>20, ErrorSpoils
<1>21. ASSUME GroupDone(p) PROVE Goal(q)
  BY <1>21 DEF GroupDone, Goto, Reading, Half
<1>22. ASSUME Crash(p) PROVE Goal(q)
  BY <1>22 DEF Crash, Goto, Reading, Half
<1> QED
  BY <1>1, <1>2, <1>3, <1>4, <1>5, <1>6, <1>7, <1>8, <1>9, <1>10, <1>11,
     <1>12, <1>13, <1>14, <1>15, <1>16, <1>17, <1>18, <1>19, <1>20, <1>21, <1>22
  DEF Act, Step

(* What is answered as adjudicated comes from the compiler or from an entry *)
(* with its source compared and nobody writing it.                          *)
LEMMA AnswerStep ==
    ASSUME TypeOK, ~Meeting, EntryTrue, SourceThere, AnswersTrue,
           NEW p \in Proc, Act(p), Unharmed(p)
    PROVE  AnswersTrue'
<1>0. ASSUME \A q \in Proc : answers'[q] \subseteq answers[q] PROVE AnswersTrue'
  BY <1>0 DEF AnswersTrue, Verdict
<1>a. ASSUME Reading(p) PROVE obj[slot(p, cur[p])] = Verdict(cur[p])
  <2>1. slot(p, cur[p]) \in Slots /\ cur[p] \in Units /\ slot(p, cur[p])[2] = Hash[cur[p]]
    BY SlotType, SlotHash DEF TypeOK
  <2>2. ASSUME NEW r \in Proc, Half(r), slot(r, cur[r]) = slot(p, cur[p]) PROVE FALSE
    BY <1>a, <2>2 DEF Meeting, Half, Reading, Writing
  <2> QED
    BY <1>a, <2>1, <2>2 DEF EntryTrue, SourceThere
<1>1. ASSUME NEW n \in Names, Open(p, n) PROVE AnswersTrue'
  BY <1>1, <1>0 DEF Open, TypeOK
<1>2. ASSUME OpenFails(p) PROVE AnswersTrue'
  BY <1>2, <1>0 DEF OpenFails, TypeOK
<1>3. ASSUME NEW units \in SUBSET Units, CompileBatch(p, units) PROVE AnswersTrue'
  BY <1>3, <1>0 DEF CompileBatch, TypeOK
<1>4. ASSUME NEW u \in Units, ReadSource(p, u) PROVE AnswersTrue'
  BY <1>4, <1>0 DEF ReadSource, TypeOK
<1>5. ASSUME HitRejected(p) PROVE AnswersTrue'
  <2>1. cur[p] \in Units /\ NoFile = Verdict(cur[p])
    BY <1>5, <1>a DEF HitRejected, TypeOK, Reading
  <2>2. Reply(p, cur[p], NoFile, TRUE)
    BY <1>5 DEF HitRejected
  <2> QED
    BY <2>1, <2>2, ReplyTrue
<1>6. ASSUME SeeObject(p) PROVE AnswersTrue'
  BY <1>6, <1>0 DEF SeeObject, TypeOK
<1>7. ASSUME HitObject(p) PROVE AnswersTrue'
  <2>1. cur[p] \in Units /\ obj[slot(p, cur[p])] = Verdict(cur[p])
    BY <1>7, <1>a DEF HitObject, TypeOK, Reading
  <2>2. Reply(p, cur[p], obj[slot(p, cur[p])], TRUE)
    BY <1>7 DEF HitObject
  <2> QED
    BY <2>1, <2>2, ReplyTrue
<1>8. ASSUME MissObject(p) PROVE AnswersTrue'
  BY <1>8, <1>0 DEF MissObject, TypeOK
<1>9. ASSUME NextGroup(p) PROVE AnswersTrue'
  BY <1>9, <1>0 DEF NextGroup, TypeOK
<1>10. ASSUME BatchDone(p) PROVE AnswersTrue'
  BY <1>10, <1>0 DEF BatchDone, TypeOK
<1>11. ASSUME Acquire(p) PROVE AnswersTrue'
  BY <1>11, <1>0 DEF Acquire, TypeOK
<1>12. ASSUME AcquireFails(p) PROVE AnswersTrue'
  BY <1>12, <1>0 DEF AcquireFails, TypeOK
<1>13. ASSUME Compile(p) PROVE AnswersTrue'
  BY <1>13, <1>0 DEF Compile, TypeOK
<1>14. ASSUME NEW u \in Units, Pass(p, u) PROVE AnswersTrue'
  BY <1>14, ReplyTrue DEF Pass
<1>15. ASSUME NEW u \in Units, TruncateSource(p, u) PROVE AnswersTrue'
  BY <1>15, <1>0 DEF TruncateSource, TypeOK
<1>16. ASSUME StoreSource(p) PROVE AnswersTrue'
  BY <1>16, <1>0 DEF StoreSource, TypeOK
<1>17. ASSUME TruncateObject(p) PROVE AnswersTrue'
  BY <1>17, <1>0 DEF TruncateObject, TypeOK
<1>18. ASSUME StoreObject(p) PROVE AnswersTrue'
  <2>1. cur[p] \in Units /\ cur[p] = Verdict(cur[p])
    BY <1>18 DEF StoreObject, TypeOK, SourceThere, Verdict
  <2>2. Reply(p, cur[p], cur[p], TRUE)
    BY <1>18 DEF StoreObject
  <2> QED
    BY <2>1, <2>2, ReplyTrue
<1>19. ASSUME RemoveObject(p) PROVE AnswersTrue'
  <2>1. cur[p] \in Units /\ NoFile = Verdict(cur[p])
    BY <1>19 DEF RemoveObject, TypeOK, Verdict
  <2>2. Reply(p, cur[p], NoFile, TRUE)
    BY <1>19 DEF RemoveObject
  <2> QED
    BY <2>1, <2>2, ReplyTrue
<1>20. ASSUME StoreFails(p) PROVE AnswersTrue'
  BY <1>20, ErrorSpoils
<1>21. ASSUME GroupDone(p) PROVE AnswersTrue'
  BY <1>21, <1>0 DEF GroupDone, TypeOK
<1>22. ASSUME Crash(p) PROVE AnswersTrue'
  BY <1>22, <1>0 DEF Crash, TypeOK
<1> QED
  BY <1>1, <1>2, <1>3, <1>4, <1>5, <1>6, <1>7, <1>8, <1>9, <1>10, <1>11,
     <1>12, <1>13, <1>14, <1>15, <1>16, <1>17, <1>18, <1>19, <1>20, <1>21, <1>22
  DEF Act, Step

(* Whatever the processes, units and caches, shared or not: as long as      *)
(* nothing came between the writes of an entry (no process failed or died   *)
(* in there, no two met there) and batches ran one at a time, a batch's     *)
(* adjudicated answers are the compiler's verdicts on those very units,     *)
(* also when the digests of different sources collide.                      *)
THEOREM Verdicts ==
    ASSUME DigestTells
    PROVE  Spec => []AnswerIsVerdict
<1>1. Init => CacheTrue
  <2> SUFFICES ASSUME Init PROVE ~Meeting /\ EntryTrue /\ SourceThere /\ AnswersTrue
    BY DEF CacheTrue
  <2>1. EntryTrue
    BY SourceType, CacheAssumption DEF Init, EntryTrue
  <2>2. ~Meeting /\ SourceThere /\ AnswersTrue
    BY DEF Init, Meeting, Writing, Reading, Half, SourceThere, AnswersTrue
  <2> QED
    BY <2>1, <2>2
<1>2. TypeOK /\ CacheTrue /\ [Next]_vars => CacheTrue'
  <2> SUFFICES ASSUME TypeOK, CacheTrue, [Next]_vars, ~spoiled'
               PROVE  (~Meeting /\ EntryTrue /\ SourceThere /\ AnswersTrue)'
    BY DEF CacheTrue
  <2>1. ASSUME NEW p \in Proc, Act(p), Watch(p)
        PROVE  (~Meeting /\ EntryTrue /\ SourceThere /\ AnswersTrue)'
    <3>1. ~spoiled /\ ~Meeting' /\ Unharmed(p)
      BY <2>1 DEF Watch, Unharmed, TypeOK
    <3>2. ~Meeting /\ EntryTrue /\ SourceThere /\ AnswersTrue
      BY <3>1 DEF CacheTrue
    <3>3. EntryTrue'
      BY <2>1, <3>1, <3>2, EntryStep
    <3>4. SourceThere'
      BY <2>1, <3>1, <3>2, SourceStep
    <3>5. AnswersTrue'
      BY <2>1, <3>1, <3>2, AnswerStep
    <3> QED
      BY <3>1, <3>3, <3>4, <3>5
  <2>2. CASE UNCHANGED <<src, obj, pc, cur, answers, spoiled>>
    <3>1. ~Meeting /\ EntryTrue /\ SourceThere /\ AnswersTrue
      BY <2>2 DEF CacheTrue
    <3>2. (~Meeting)' /\ SourceThere' /\ AnswersTrue'
      BY <2>2, <3>1 DEF Meeting, Writing, Reading, Half, SourceThere, AnswersTrue, slot, Verdict
    <3>3. EntryTrue'
      BY <2>2, <3>1, QuietEntry DEF Quiet, Half
    <3> QED
      BY <3>2, <3>3
  <2> QED
    BY <2>1, <2>2 DEF Next, StrayEnds, vars
<1>3. CacheTrue => AnswerIsVerdict
  BY DEF CacheTrue, AnswersTrue, AnswerIsVerdict
<1> QED
  BY <1>1, <1>2, <1>3, TypeCorrect, PTL DEF Spec
=============================================================================
