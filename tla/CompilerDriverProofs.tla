------------------------- MODULE CompilerDriverProofs -------------------------
(***************************************************************************)
(* Proofs about CompilerDriver, for any number of units, batch size and    *)
(* kills from outside.  A verdict is read off the work directory after a   *)
(* session, so the invariant says what each object and each line of the    *)
(* log then means for the units of the chunk.  That no unit is forgotten   *)
(* is a matter of where the lists put it: without a verdict it is pending, *)
(* running or waiting for the next round, and in a round of single units   *)
(* those that wait have been run alone.                                    *)
(***************************************************************************)
EXTENDS CompilerDriver, FiniteSetTheorems, TLAPS

(* The variables' types. *)
TypeOK ==
    /\ invocation \in {"Script", "Native"}
    /\ accepts \subseteq Units /\ aborts \subseteq Units
    /\ pc \in {"round", "run", "collect", "done"}
    /\ group \in Nat \ {0}
    /\ pending \subseteq Units /\ next_round \subseteq Units /\ chunk \subseteq Units
    /\ objects \in [Units -> Object]
    /\ ended \subseteq Units /\ left \in BOOLEAN /\ said \subseteq Units
    /\ results \in [Units -> [object : Object, adjudicated : BOOLEAN]]
    /\ alone \subseteq Units /\ cut \subseteq Units
    /\ hiccups \in Nat
    /\ pc \in {"round", "done"} => chunk = {}
    /\ pc = "done" => pending = {} /\ (group = 1 \/ next_round = {})

(* A result is a fact about its unit. *)
TrueVerdict(u, object) ==
    /\ object \in {"none", "own"}
    /\ object = "own" => u \in accepts \ aborts
    /\ object = "none" => u \notin accepts \ aborts \/ u \in cut

(* Stage leaves the chunk without objects. *)
StageClears == pc = "run" => \A u \in chunk : objects[u] = "none"

(* After a session, what adjudicated_from goes by is true. *)
SessionTrue == pc = "collect" => \A u \in chunk : adjudicated_from(u) => TrueVerdict(u, objects[u])

(* No unit is lost between the lists. *)
NoneLost ==
    \A u \in Units : results[u].adjudicated \/ u \in pending \cup chunk \cup next_round

(* In a round of single units a chunk is one unit. *)
Singles ==
    group = 1 =>
        /\ \A u, v \in chunk : u = v
        /\ chunk \cup next_round \subseteq alone

(* A unit that was run alone, and did not kill its session, was answered    *)
(* when nothing else killed it.                                             *)
AloneAnswered ==
    hiccups = 0 /\ group = 1 =>
        /\ next_round \subseteq aborts
        /\ pc = "collect" => \A u \in chunk \ aborts : adjudicated_from(u)

IInv ==
    TypeOK /\ VerdictIsTrue /\ StageClears /\ SessionTrue /\ NoneLost /\ Singles /\ AloneAnswered

-----------------------------------------------------------------------------
(* Any set of units is finite, and one without members counts none. *)
LEMMA UnitsFinite ==
    ASSUME NEW S, S \subseteq Units
    PROVE  /\ IsFiniteSet(S) /\ Cardinality(S) \in Nat
           /\ Cardinality(S) = 0 => S = {}
<1>1. IsFiniteSet(Units)
  BY FS_Interval, DriverAssumption DEF Units
<1>2. IsFiniteSet(S)
  BY <1>1, FS_Subset
<1> QED
  BY <1>2, FS_CardinalityType, FS_EmptySet

(* The front of a list is part of it, and the front of length one is a      *)
(* single unit: pending.chunks(1).                                          *)
LEMMA FrontOne ==
    ASSUME NEW list, list \subseteq Units
    PROVE  \A u, v \in Front(list, 1) : u = v
<1> SUFFICES ASSUME NEW u \in Front(list, 1), NEW v \in Front(list, 1) PROVE u = v
  OBVIOUS
<1>1. ASSUME NEW w \in Front(list, 1) PROVE \A x \in list : ~(x < w)
  <2> DEFINE below == {x \in list : x < w}
  <2>1. Cardinality(below) < 1
    BY DEF Front
  <2>2. below \subseteq Units
    OBVIOUS
  <2> HIDE DEF below
  <2>3. Cardinality(below) = 0
    BY <2>1, <2>2, UnitsFinite
  <2>4. below = {}
    BY <2>2, <2>3, UnitsFinite
  <2> QED
    BY <2>4 DEF below
<1>2. u \in list /\ v \in list /\ u \in Int /\ v \in Int
  BY DEF Front, Units
<1> QED
  BY <1>1, <1>2

(* The types hold when compile_batch begins. *)
LEMMA TypeInit == Init => TypeOK
<1> SUFFICES ASSUME Init PROVE TypeOK
  OBVIOUS
<1>1. group \in Nat \ {0}
  BY DriverAssumption DEF Init
<1>2. objects \in [Units -> Object]
  BY DEF Init, Object
<1>3. results \in [Units -> [object : Object, adjudicated : BOOLEAN]]
  BY DEF Init, Object
<1>4. /\ invocation \in {"Script", "Native"} /\ accepts \subseteq Units /\ aborts \subseteq Units
      /\ pc = "round" /\ pending = Units /\ next_round = {} /\ chunk = {} /\ hiccups = 0
      /\ ended = {} /\ left = FALSE /\ said = {} /\ alone = {} /\ cut = {}
  BY DEF Init
<1> QED
  BY <1>1, <1>2, <1>3, <1>4 DEF TypeOK

(* Every step of compile_batch keeps the types. *)
LEMMA TypeStep == TypeOK /\ [Next]_vars => TypeOK'
<1> SUFFICES ASSUME TypeOK, [Next]_vars PROVE TypeOK'
  OBVIOUS
<1> USE DriverAssumption DEF TypeOK, Object
<1>1. CASE Stage
  BY <1>1 DEF Stage, truth, Front
<1>2. CASE RunScript
  BY <1>2 DEF RunScript, Session, truth
<1>3. CASE RunScriptAborts
  BY <1>3 DEF RunScriptAborts, Session, Before, truth
<1>4. CASE RunScriptHiccup
  BY <1>4 DEF RunScriptHiccup, Session, Before, truth
<1>5. CASE RunNative
  <2>1. PICK killed \in SUBSET (chunk \ aborts) :
          LET ran == chunk \ (aborts \cup killed)
          IN  /\ hiccups + Cardinality(killed) <= MaxHiccups
              /\ hiccups' = hiccups + Cardinality(killed)
              /\ objects' = [u \in Units |-> IF u \in ran \cap accepts THEN "own" ELSE objects[u]]
              /\ \E spoke \in SUBSET (chunk \ ran) :
                    /\ said' = (ran \ accepts) \cup spoke
                    /\ cut' = cut \cup (spoke \cap killed)
    BY <1>5, Zenon DEF RunNative
  <2>2. Cardinality(killed) \in Nat
    BY UnitsFinite
  <2>3. hiccups' \in Nat /\ said' \subseteq Units /\ cut' \subseteq Units /\ objects' \in [Units -> Object]
    BY <2>1, <2>2
  <2> QED
    BY <1>5, <2>3 DEF RunNative, truth
<1>6. CASE Collect
  BY <1>6 DEF Collect, truth
<1>7. CASE EndRound
  BY <1>7 DEF EndRound, truth
<1>8. CASE UNCHANGED vars
  BY <1>8 DEF vars, truth
<1> QED
  BY <1>1, <1>2, <1>3, <1>4, <1>5, <1>6, <1>7, <1>8 DEF Next, Done

(* A new batch has no results and no chunk. *)
LEMMA VerdictInit == Init => VerdictIsTrue /\ StageClears /\ SessionTrue
BY DEF Init, VerdictIsTrue, StageClears, SessionTrue

(* The objects of a chunk are removed before its session. *)
LEMMA StageStep == TypeOK /\ StageClears /\ [Next]_vars => StageClears'
<1> SUFFICES ASSUME TypeOK, StageClears, [Next]_vars PROVE StageClears'
  OBVIOUS
<1> USE DEF TypeOK, StageClears
<1>1. CASE Stage
  BY <1>1 DEF Stage, Front
<1>2. CASE RunScript
  BY <1>2 DEF RunScript, Session, truth
<1>3. CASE RunScriptAborts
  BY <1>3 DEF RunScriptAborts, Session, truth
<1>4. CASE RunScriptHiccup
  BY <1>4 DEF RunScriptHiccup, Session, truth
<1>5. CASE RunNative
  BY <1>5 DEF RunNative, truth
<1>6. CASE Collect
  BY <1>6 DEF Collect, truth
<1>7. CASE EndRound
  BY <1>7 DEF EndRound, truth
<1>8. CASE UNCHANGED vars
  BY <1>8 DEF vars, truth
<1> QED
  BY <1>1, <1>2, <1>3, <1>4, <1>5, <1>6, <1>7, <1>8 DEF Next, Done

(* A session leaves an object only for a source it finished and compiles;   *)
(* a line about a unit only when it finished the unit, died on it, or was   *)
(* cut short at it: the text at the end of the log goes to the first unit   *)
(* without a summary line, which is the one the session stopped at.         *)
LEMMA SessionStep == TypeOK /\ StageClears /\ SessionTrue /\ [Next]_vars => SessionTrue'
<1> SUFFICES ASSUME TypeOK, StageClears, SessionTrue, [Next]_vars PROVE SessionTrue'
  OBVIOUS
<1> USE DEF TypeOK, SessionTrue
<1>1. CASE Stage
  BY <1>1 DEF Stage, truth
<1>2. CASE RunScript
  <2> SUFFICES ASSUME NEW u \in chunk, adjudicated_from(u)' PROVE TrueVerdict(u, objects[u])'
    BY <1>2 DEF RunScript
  <2>1. /\ u \notin aborts /\ objects[u] = "none" /\ accepts' = accepts /\ aborts' = aborts
        /\ objects'[u] = IF u \in accepts THEN "own" ELSE objects[u]
    BY <1>2 DEF RunScript, Session, truth, StageClears
  <2> QED
    BY <2>1 DEF TrueVerdict
<1>3. CASE RunScriptAborts
  <2>1. PICK d \in chunk \cap aborts, text \in BOOLEAN :
          Before(d) \cap aborts = {} /\ Session(Before(d), text)
    BY <1>3 DEF RunScriptAborts
  <2>2. UNCHANGED <<invocation, accepts, aborts, chunk, cut>> /\ invocation = "Script"
    BY <1>3 DEF RunScriptAborts, truth
  <2> SUFFICES ASSUME NEW u \in chunk, adjudicated_from(u)' PROVE TrueVerdict(u, objects[u])'
    BY <2>2
  <2>3. objects[u] = "none"
    BY <1>3 DEF RunScriptAborts, StageClears
  <2>4. CASE u \in Before(d)
    BY <2>1, <2>2, <2>3, <2>4 DEF Session, TrueVerdict
  <2>5. CASE u \notin Before(d)
    <3>1. objects'[u] = "none" /\ ended' = Before(d)
      BY <2>1, <2>3, <2>5 DEF Session
    <3>2. split_log(u)'
      BY <2>2, <3>1 DEF adjudicated_from, has_log
    <3>3. u <= d
      BY <2>2, <2>5, <3>1, <3>2 DEF split_log, Before, Units
    <3>4. u = d
      BY <2>5, <3>3 DEF Before, Units
    <3> QED
      BY <2>2, <3>1, <3>4 DEF TrueVerdict
  <2> QED
    BY <2>4, <2>5
<1>4. CASE RunScriptHiccup
  <2>1. PICK d \in chunk \ aborts, text \in BOOLEAN :
          /\ Before(d) \cap aborts = {} /\ Session(Before(d), text)
          /\ cut' = IF text THEN cut \cup {d} ELSE cut
    BY <1>4 DEF RunScriptHiccup
  <2>2. UNCHANGED <<invocation, accepts, aborts, chunk>> /\ invocation = "Script"
    BY <1>4 DEF RunScriptHiccup, truth
  <2> SUFFICES ASSUME NEW u \in chunk, adjudicated_from(u)' PROVE TrueVerdict(u, objects[u])'
    BY <2>2
  <2>3. objects[u] = "none"
    BY <1>4 DEF RunScriptHiccup, StageClears
  <2>4. CASE u \in Before(d)
    BY <2>1, <2>2, <2>3, <2>4 DEF Session, TrueVerdict
  <2>5. CASE u \notin Before(d)
    <3>1. objects'[u] = "none" /\ ended' = Before(d) /\ left' = text
      BY <2>1, <2>3, <2>5 DEF Session
    <3>2. split_log(u)'
      BY <2>2, <3>1 DEF adjudicated_from, has_log
    <3>3. u <= d /\ text
      BY <2>2, <2>5, <3>1, <3>2 DEF split_log, Before, Units
    <3>4. u = d /\ u \in cut'
      BY <2>1, <2>5, <3>3 DEF Before, Units
    <3> QED
      BY <3>1, <3>4 DEF TrueVerdict
  <2> QED
    BY <2>4, <2>5
<1>5. CASE RunNative
  <2>1. PICK killed \in SUBSET (chunk \ aborts) :
          LET ran == chunk \ (aborts \cup killed)
          IN  /\ objects' = [u \in Units |-> IF u \in ran \cap accepts THEN "own" ELSE objects[u]]
              /\ \E spoke \in SUBSET (chunk \ ran) :
                    /\ said' = (ran \ accepts) \cup spoke
                    /\ cut' = cut \cup (spoke \cap killed)
    BY <1>5, Zenon DEF RunNative
  <2>2. UNCHANGED <<invocation, accepts, aborts, chunk>> /\ invocation = "Native"
    BY <1>5 DEF RunNative, truth
  <2> SUFFICES ASSUME NEW u \in chunk, adjudicated_from(u)' PROVE TrueVerdict(u, objects[u])'
    BY <2>2
  <2>3. objects[u] = "none"
    BY <1>5 DEF RunNative, StageClears
  <2>4. objects'[u] = "own" \/ (objects'[u] = "none" /\ u \in said')
    BY <2>1, <2>2, <2>3 DEF adjudicated_from, has_log
  <2> QED
    BY <2>1, <2>2, <2>3, <2>4 DEF TrueVerdict
<1>6. CASE Collect
  BY <1>6 DEF Collect, truth
<1>7. CASE EndRound
  BY <1>7 DEF EndRound, truth
<1>8. CASE UNCHANGED vars
  BY <1>8 DEF vars, adjudicated_from, has_log, split_log, TrueVerdict
<1> QED
  BY <1>1, <1>2, <1>3, <1>4, <1>5, <1>6, <1>7, <1>8 DEF Next, Done

(* Verdicts stay true: a result is written once, from a session's outcome,  *)
(* and a cut never loses a member.                                          *)
LEMMA VerdictStep == TypeOK /\ SessionTrue /\ VerdictIsTrue /\ [Next]_vars => VerdictIsTrue'
<1> SUFFICES ASSUME TypeOK, SessionTrue, VerdictIsTrue, [Next]_vars PROVE VerdictIsTrue'
  OBVIOUS
<1> USE DEF TypeOK, VerdictIsTrue
<1>1. CASE Stage
  BY <1>1 DEF Stage, truth
<1>2. CASE RunScript
  BY <1>2 DEF RunScript, Session, truth
<1>3. CASE RunScriptAborts
  BY <1>3 DEF RunScriptAborts, Session, truth
<1>4. CASE RunScriptHiccup
  BY <1>4 DEF RunScriptHiccup, Session, truth
<1>5. CASE RunNative
  BY <1>5 DEF RunNative, truth
<1>6. CASE Collect
  <2> SUFFICES ASSUME NEW u \in Units, results'[u].adjudicated PROVE TrueVerdict(u, results'[u].object)
    BY <1>6 DEF Collect, truth, TrueVerdict
  <2>1. CASE u \in chunk /\ adjudicated_from(u)
    <3>1. results'[u].object = objects[u]
      BY <1>6, <2>1 DEF Collect
    <3> QED
      BY <1>6, <2>1, <3>1 DEF Collect, SessionTrue
  <2>2. CASE ~(u \in chunk /\ adjudicated_from(u))
    <3>1. results'[u] = results[u]
      BY <1>6, <2>2 DEF Collect
    <3> QED
      BY <3>1 DEF TrueVerdict
  <2> QED
    BY <2>1, <2>2
<1>7. CASE EndRound
  BY <1>7 DEF EndRound, truth
<1>8. CASE UNCHANGED vars
  BY <1>8 DEF vars, truth
<1> QED
  BY <1>1, <1>2, <1>3, <1>4, <1>5, <1>6, <1>7, <1>8 DEF Next, Done

(* All units are pending at first, and none has been run. *)
LEMMA ListsInit == Init => NoneLost /\ Singles /\ AloneAnswered
BY DEF Init, NoneLost, Singles, AloneAnswered

(* A unit leaves a list for the next one, or with its verdict. *)
LEMMA NoneLostStep == TypeOK /\ NoneLost /\ [Next]_vars => NoneLost'
<1> SUFFICES ASSUME TypeOK, NoneLost, [Next]_vars PROVE NoneLost'
  OBVIOUS
<1> USE DEF TypeOK, NoneLost
<1>1. CASE Stage
  BY <1>1 DEF Stage, truth
<1>2. CASE RunScript
  BY <1>2 DEF RunScript, Session, truth
<1>3. CASE RunScriptAborts
  BY <1>3 DEF RunScriptAborts, Session, truth
<1>4. CASE RunScriptHiccup
  BY <1>4 DEF RunScriptHiccup, Session, truth
<1>5. CASE RunNative
  BY <1>5 DEF RunNative, truth
<1>6. CASE Collect
  <2> SUFFICES ASSUME NEW u \in Units
               PROVE  results'[u].adjudicated \/ u \in pending' \cup chunk' \cup next_round'
    OBVIOUS
  <2>1. CASE u \in chunk /\ adjudicated_from(u)
    <3>1. results'[u] = [object |-> objects[u], adjudicated |-> TRUE]
      BY <1>6, <2>1 DEF Collect
    <3> QED
      BY <3>1
  <2>2. CASE u \in chunk /\ ~adjudicated_from(u)
    BY <1>6, <2>2 DEF Collect
  <2>3. CASE u \notin chunk
    BY <1>6, <2>3 DEF Collect
  <2> QED
    BY <2>1, <2>2, <2>3
<1>7. CASE EndRound
  BY <1>7 DEF EndRound, truth
<1>8. CASE UNCHANGED vars
  BY <1>8 DEF vars, truth
<1> QED
  BY <1>1, <1>2, <1>3, <1>4, <1>5, <1>6, <1>7, <1>8 DEF Next, Done

(* Chunks of one: Stage records that the unit had a session of its own. *)
LEMMA SinglesStep == TypeOK /\ Singles /\ [Next]_vars => Singles'
<1> SUFFICES ASSUME TypeOK, Singles, [Next]_vars PROVE Singles'
  OBVIOUS
<1> USE DEF TypeOK, Singles
<1>1. CASE Stage
  <2> SUFFICES ASSUME group = 1
               PROVE  (\A u, v \in chunk' : u = v) /\ chunk' \cup next_round \subseteq alone'
    BY <1>1 DEF Stage
  <2>1. \A u, v \in chunk' : u = v
    BY <1>1, FrontOne DEF Stage
  <2>2. \A u \in chunk' : chunk' = {u}
    BY <2>1
  <2> QED
    BY <1>1, <2>1, <2>2 DEF Stage
<1>2. CASE RunScript
  BY <1>2 DEF RunScript, Session, truth
<1>3. CASE RunScriptAborts
  BY <1>3 DEF RunScriptAborts, Session, truth
<1>4. CASE RunScriptHiccup
  BY <1>4 DEF RunScriptHiccup, Session, truth
<1>5. CASE RunNative
  BY <1>5 DEF RunNative, truth
<1>6. CASE Collect
  BY <1>6 DEF Collect, truth
<1>7. CASE EndRound
  <2>1. chunk' = {} /\ alone' = alone
    BY <1>7 DEF EndRound
  <2>2. next_round' = {} \/ (next_round' = next_round /\ group' = group /\ chunk' = chunk)
    BY <1>7 DEF EndRound
  <2> QED
    BY <2>1, <2>2
<1>8. CASE UNCHANGED vars
  BY <1>8 DEF vars, truth
<1> QED
  BY <1>1, <1>2, <1>3, <1>4, <1>5, <1>6, <1>7, <1>8 DEF Next, Done

(* A unit alone with its compiler, which survives it, is answered: it has a *)
(* summary line or a process that ended.                                    *)
LEMMA AloneStep == TypeOK /\ Singles /\ AloneAnswered /\ [Next]_vars => AloneAnswered'
<1> SUFFICES ASSUME TypeOK, Singles, AloneAnswered, [Next]_vars PROVE AloneAnswered'
  OBVIOUS
<1> USE DEF TypeOK, AloneAnswered
<1>1. CASE Stage
  BY <1>1 DEF Stage, truth
<1>2. CASE RunScript
  BY <1>2 DEF RunScript, Session, truth, adjudicated_from, has_log, split_log
<1>3. CASE RunScriptAborts
  BY <1>3 DEF RunScriptAborts, truth, Singles
<1>4. CASE RunScriptHiccup
  BY <1>4 DEF RunScriptHiccup, Session, truth
<1>5. CASE RunNative
  <2>0. UNCHANGED <<aborts, chunk, group, next_round>>
    BY <1>5 DEF RunNative, truth
  <2> SUFFICES ASSUME hiccups' = 0, group = 1
               PROVE  hiccups = 0 /\ \A u \in chunk \ aborts : adjudicated_from(u)'
    BY <2>0
  <2>1. PICK killed \in SUBSET (chunk \ aborts) :
          LET ran == chunk \ (aborts \cup killed)
          IN  /\ hiccups' = hiccups + Cardinality(killed)
              /\ objects' = [v \in Units |-> IF v \in ran \cap accepts THEN "own" ELSE objects[v]]
              /\ \E spoke \in SUBSET (chunk \ ran) : said' = (ran \ accepts) \cup spoke
    BY <1>5, Zenon DEF RunNative
  <2>2. hiccups = 0 /\ killed = {}
    BY <2>1, UnitsFinite
  <2>3. \A u \in chunk \ aborts : objects'[u] = "own" \/ u \in said'
    BY <2>1, <2>2
  <2>4. invocation' = "Native"
    BY <1>5 DEF RunNative, truth
  <2> QED
    BY <2>2, <2>3, <2>4 DEF adjudicated_from, has_log
<1>6. CASE Collect
  BY <1>6 DEF Collect, truth
<1>7. CASE EndRound
  BY <1>7 DEF EndRound, truth
<1>8. CASE UNCHANGED vars
  BY <1>8 DEF vars, adjudicated_from, has_log, split_log
<1> QED
  BY <1>1, <1>2, <1>3, <1>4, <1>5, <1>6, <1>7, <1>8 DEF Next, Done

(* The inductive invariant. *)
THEOREM Inductive == Spec => []IInv
<1>1. Init => IInv
  BY TypeInit, VerdictInit, ListsInit DEF IInv
<1>2. IInv /\ [Next]_vars => IInv'
  BY TypeStep, StageStep, SessionStep, VerdictStep, NoneLostStep, SinglesStep, AloneStep DEF IInv
<1> QED
  BY <1>1, <1>2, PTL DEF Spec

(* For any batch, group sizes and kills, what compile_batch adjudicates is  *)
(* true of the source, never an earlier batch's object, and a failure only  *)
(* for a source that fails or whose compile was cut short after a line.     *)
THEOREM TrueVerdicts == Spec => []VerdictIsTrue
<1>1. IInv => VerdictIsTrue
  BY DEF IInv
<1> QED
  BY <1>1, Inductive, PTL

(* With nothing but the units to kill sessions, every unit the compiler     *)
(* survives has its verdict at the end, whatever shared its sessions.       *)
THEOREM Collateral == Spec => []CollateralJudged
<1>1. IInv => CollateralJudged
  <2> SUFFICES ASSUME IInv, pc = "done", hiccups = 0, NEW u \in Units \ aborts
               PROVE  results[u].adjudicated
    BY DEF CollateralJudged
  <2>1. u \notin pending \cup chunk \cup next_round
    BY DEF IInv, TypeOK, AloneAnswered
  <2> QED
    BY <2>1 DEF IInv, NoneLost
<1> QED
  BY <1>1, Inductive, PTL

(* A unit that compile_batch leaves without a verdict had a session of its  *)
(* own.                                                                     *)
THEOREM RanAlone == Spec => []SilentRanAlone
<1>1. IInv => SilentRanAlone
  <2> SUFFICES ASSUME IInv, pc = "done", NEW u \in Units, ~results[u].adjudicated
               PROVE  u \in alone
    BY DEF SilentRanAlone
  <2>1. u \in next_round
    BY DEF IInv, TypeOK, NoneLost
  <2> QED
    BY <2>1 DEF IInv, TypeOK, Singles
<1> QED
  BY <1>1, Inductive, PTL
===============================================================================
