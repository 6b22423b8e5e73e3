---------------------------- MODULE CompilerDriver ----------------------------
(***************************************************************************)
(* CompilerDriver::compile_batch of                                        *)
(* crates/mosura-core/src/recompile/toolchain/driver.rs: one call, on the  *)
(* units 1..N (their keys distinct), against a compiler that may die.  The *)
(* batch runs in sessions of `group` units; what no session answered is    *)
(* retried in smaller groups and at last alone.  A Script session (the DOS *)
(* compiler under an emulator) runs its units in order into one log and    *)
(* stops where it dies; a Native compiler is one process per unit.  Chunks *)
(* are cut from the front of a list and silent units are appended in order,*)
(* so every list of units is increasing and a set stands for it.           *)
(***************************************************************************)
EXTENDS Naturals, FiniteSets

CONSTANTS
    N,              \* number of units
    BatchSize,      \* batch_size
    MaxHiccups      \* bound: sessions or processes killed from outside

ASSUME DriverAssumption ==
    /\ N \in Nat
    /\ BatchSize \in Nat
    /\ MaxHiccups \in Nat

Units == 1..N

(* A unit's object file: absent, written by this compile, or left by an     *)
(* earlier batch that used the same key.                                    *)
Object == {"none", "own", "stale"}

VARIABLES
    invocation,     \* spec.invocation
    accepts,        \* the units whose source the compiler compiles; it rejects the others
    aborts,         \* the units on which the compiler itself dies
    pc,
    group,          \* units per session in this round
    pending,        \* this round's units not yet run
    next_round,     \* the units this round left silent
    chunk,          \* the units of the running session
    objects,        \* the object files in the work directory
    ended, left,    \* the log: the units with a summary line, and whether text follows the last
    said,           \* Native: the units whose process printed something
    results,
    alone,          \* history: the units that had a session of their own
    cut,            \* history: the units cut short from outside after a line about them
    hiccups

vars == <<invocation, accepts, aborts, pc, group, pending, next_round, chunk, objects, ended, left,
          said, results, alone, cut, hiccups>>

Init ==
    /\ invocation \in {"Script", "Native"}
    /\ accepts \in SUBSET Units
    /\ aborts \in SUBSET Units
    /\ pc = "round"
    /\ group = IF BatchSize = 0 THEN 1 ELSE BatchSize
    /\ pending = Units
    /\ next_round = {}
    /\ chunk = {}
    /\ objects \in [Units -> {"none", "stale"}]
    /\ ended = {}
    /\ left = FALSE
    /\ said = {}
    /\ results = [u \in Units |-> [object |-> "none", adjudicated |-> FALSE]]
    /\ alone = {}
    /\ cut = {}
    /\ hiccups = 0

truth == <<invocation, accepts, aborts>>

(* The first k units of a list. *)
Front(list, k) == {u \in list : Cardinality({v \in list : v < u}) < k}

-----------------------------------------------------------------------------
(* The next chunk: stage writes its sources, and removes its objects and    *)
(* the log of the session before.                                           *)
Stage ==
    /\ pc = "round"
    /\ pending # {}
    /\ chunk' = Front(pending, group)
    /\ pending' = pending \ chunk'
    /\ alone' = alone \cup {u \in chunk' : chunk' = {u}}
    /\ objects' = [u \in Units |-> IF u \in chunk' THEN "none" ELSE objects[u]]
    /\ ended' = {}
    /\ left' = FALSE
    /\ said' = {}
    /\ pc' = "run"
    /\ UNCHANGED <<truth, group, next_round, results, cut, hiccups>>

(* A session that finished the units in `ran`, each with a summary line     *)
(* (LogSplit::PerUnit's terminator) and, when the source compiles, an       *)
(* object; `text`: whether the next unit left something in the log.         *)
Session(ran, text) ==
    /\ objects' = [u \in Units |-> IF u \in ran \cap accepts THEN "own" ELSE objects[u]]
    /\ ended' = ran
    /\ left' = text

Before(d) == {u \in chunk : u < d}

(* A session that no unit kills and nothing interrupts. *)
RunScript ==
    /\ pc = "run"
    /\ invocation = "Script"
    /\ chunk \cap aborts = {}
    /\ Session(chunk, FALSE)
    /\ pc' = "collect"
    /\ UNCHANGED <<truth, group, pending, next_round, chunk, said, results, alone, cut, hiccups>>

(* The session dies on a unit the compiler cannot survive, with or without  *)
(* a last word about it.                                                    *)
RunScriptAborts ==
    /\ pc = "run"
    /\ invocation = "Script"
    /\ \E d \in chunk \cap aborts, text \in BOOLEAN :
          /\ Before(d) \cap aborts = {}
          /\ Session(Before(d), text)
    /\ pc' = "collect"
    /\ UNCHANGED <<truth, group, pending, next_round, chunk, said, results, alone, cut, hiccups>>

(* The session is killed from outside (the emulator, the disk) at a unit    *)
(* that had no part in it; perhaps before the first has started.            *)
RunScriptHiccup ==
    /\ pc = "run"
    /\ invocation = "Script"
    /\ hiccups < MaxHiccups
    /\ hiccups' = hiccups + 1
    /\ \E d \in chunk \ aborts, text \in BOOLEAN :
          /\ Before(d) \cap aborts = {}
          /\ Session(Before(d), text)
          /\ cut' = IF text THEN cut \cup {d} ELSE cut
    /\ pc' = "collect"
    /\ UNCHANGED <<truth, group, pending, next_round, chunk, said, results, alone>>

(* One process per unit; those in `killed` are interrupted. *)
RunNative ==
    /\ pc = "run"
    /\ invocation = "Native"
    /\ \E killed \in SUBSET (chunk \ aborts) :
          LET ran == chunk \ (aborts \cup killed)
          IN  /\ hiccups + Cardinality(killed) <= MaxHiccups
              /\ hiccups' = hiccups + Cardinality(killed)
              /\ objects' = [u \in Units |-> IF u \in ran \cap accepts THEN "own"
                                             ELSE objects[u]]
              /\ \E spoke \in SUBSET (chunk \ ran) :
                    /\ said' = (ran \ accepts) \cup spoke
                    /\ cut' = cut \cup (spoke \cap killed)
    /\ pc' = "collect"
    /\ UNCHANGED <<truth, group, pending, next_round, chunk, ended, left, results, alone>>

(* Mutation: LogSplit::Whole on a session of several units. *)
split_log_whole(u) == (left \/ ended # {}) /\ u \in chunk

(* split_log: a summary line ends its unit's block; what is left at the end *)
(* goes to the first unit that has none.                                    *)
split_log(u) ==
    LET silent == chunk \ ended
    IN  u \in ended \/ (left /\ u \in silent /\ \A v \in silent : u <= v)

has_log(u) == IF invocation = "Script" THEN split_log(u) ELSE u \in said

adjudicated_from(u) == objects[u] # "none" \/ has_log(u)

(* Mutation: the next round's list is assigned, not appended to. *)
CollectForgets ==
    /\ pc = "collect"
    /\ results' = [u \in Units |-> IF u \in chunk /\ adjudicated_from(u)
                                   THEN [object |-> objects[u], adjudicated |-> TRUE]
                                   ELSE results[u]]
    /\ next_round' = {u \in chunk : ~adjudicated_from(u)}
    /\ chunk' = {}
    /\ pc' = "round"
    /\ UNCHANGED <<truth, group, pending, objects, ended, left, said, alone, cut, hiccups>>

(* The chunk's objects and logs become results; the silent units wait for   *)
(* the next round.                                                          *)
Collect ==
    /\ pc = "collect"
    /\ results' = [u \in Units |-> IF u \in chunk /\ adjudicated_from(u)
                                   THEN [object |-> objects[u], adjudicated |-> TRUE]
                                   ELSE results[u]]
    /\ next_round' = next_round \cup {u \in chunk : ~adjudicated_from(u)}
    /\ chunk' = {}
    /\ pc' = "round"
    /\ UNCHANGED <<truth, group, pending, objects, ended, left, said, alone, cut, hiccups>>

(* Mutation: the loop ends when the shrunken group reaches one. *)
EndRoundEarly ==
    /\ pc = "round"
    /\ pending = {}
    /\ IF group \div 8 <= 1 \/ next_round = {}
       THEN pc' = "done" /\ UNCHANGED <<group, pending, next_round>>
       ELSE /\ group' = group \div 8
            /\ pending' = next_round
            /\ next_round' = {}
            /\ pc' = "round"
    /\ UNCHANGED <<truth, chunk, objects, ended, left, said, results, alone, cut, hiccups>>

(* Mutation: the group does not shrink. *)
EndRoundSameSize ==
    /\ pc = "round"
    /\ pending = {}
    /\ IF group = 1 \/ next_round = {}
       THEN pc' = "done" /\ UNCHANGED <<group, pending, next_round>>
       ELSE /\ pending' = next_round
            /\ next_round' = {}
            /\ pc' = "round"
            /\ UNCHANGED group
    /\ UNCHANGED <<truth, chunk, objects, ended, left, said, results, alone, cut, hiccups>>

(* The round is over: alone and still silent is no verdict; otherwise the   *)
(* silent units run again in groups an eighth of the size.                  *)
EndRound ==
    /\ pc = "round"
    /\ pending = {}
    /\ IF group = 1 \/ next_round = {}
       THEN pc' = "done" /\ UNCHANGED <<group, pending, next_round>>
       ELSE /\ group' = IF group \div 8 < 1 THEN 1 ELSE group \div 8
            /\ pending' = next_round
            /\ next_round' = {}
            /\ pc' = "round"
    /\ UNCHANGED <<truth, chunk, objects, ended, left, said, results, alone, cut, hiccups>>

(* compile_batch has returned. *)
Done == pc = "done" /\ UNCHANGED vars

Next ==
    \/ Stage
    \/ RunScript \/ RunScriptAborts \/ RunScriptHiccup \/ RunNative
    \/ Collect
    \/ EndRound
    \/ Done

Spec == Init /\ [][Next]_vars

FairSpec == Spec /\ WF_vars(Next)

-----------------------------------------------------------------------------
(* Properties. *)

(* An adjudicated result is a fact about the source: an object only for a   *)
(* source the compiler compiles, and never one an earlier batch left under  *)
(* the key; a failure only for a source it rejects or dies on, or one whose *)
(* compile was cut short after a line about it (split_log cannot tell that  *)
(* line from the compiler's last word).                                     *)
VerdictIsTrue ==
    \A u \in Units : results[u].adjudicated =>
       /\ results[u].object \in {"none", "own"}
       /\ results[u].object = "own" => u \in accepts \ aborts
       /\ results[u].object = "none" => u \notin accepts \ aborts \/ u \in cut

(* One aborted session does not condemn the units that merely shared it:    *)
(* when nothing but the units themselves kills sessions, every unit the     *)
(* compiler survives ends with its verdict, whatever it was batched with.   *)
CollateralJudged ==
    pc = "done" /\ hiccups = 0 =>
       \A u \in Units \ aborts : results[u].adjudicated

(* Nothing is concluded about a unit that never had a session of its own:   *)
(* a unit the batch leaves without a verdict was run alone.                 *)
SilentRanAlone ==
    pc = "done" => \A u \in Units : results[u].adjudicated \/ u \in alone

(* The retries come to an end, however often sessions die.                  *)
Returns == <>(pc = "done")
=============================================================================
