------------------------------- MODULE Worklist -------------------------------
(***************************************************************************)
(* What the analysis manager promises its callers, without queue, keys,    *)
(* priorities or flags: a fact reported while analyzer i is registered for *)
(* its type is owed to i until i is run on it, and run returns only when   *)
(* nothing is owed to anyone (crates/mosura-core/src/analysis/manager.rs,  *)
(* module documentation).                                                  *)
(***************************************************************************)
CONSTANTS Analyzers, Type, Types, Addr

VARIABLES
    subscribed,     \* the registered analyzers
    owed,           \* owed[i]: locations reported and not yet handed to i
    running         \* control is inside run

wvars == <<subscribed, owed, running>>

WInit ==
    /\ subscribed = {}
    /\ owed = [i \in Analyzers |-> {}]
    /\ running = FALSE

Subscribe(i) ==
    /\ ~running
    /\ subscribed' = subscribed \cup {i}
    /\ UNCHANGED <<owed, running>>

(* A fact goes to every subscriber of its type at once. *)
Report(ty, set) ==
    /\ owed' = [i \in Analyzers |->
                  IF i \in subscribed /\ Type[i] = ty THEN owed[i] \cup set ELSE owed[i]]
    /\ UNCHANGED <<subscribed, running>>

(* An analyzer is handed everything it is owed, in one set. *)
Deliver(i) ==
    /\ running
    /\ owed[i] # {}
    /\ owed' = [owed EXCEPT ![i] = {}]
    /\ UNCHANGED <<subscribed, running>>

Enter ==
    /\ ~running
    /\ running' = TRUE
    /\ UNCHANGED <<subscribed, owed>>

Leave ==
    /\ running
    /\ \A i \in Analyzers : owed[i] = {}
    /\ running' = FALSE
    /\ UNCHANGED <<subscribed, owed>>

WNext ==
    \/ \E i \in Analyzers : Subscribe(i) \/ Deliver(i)
    \/ \E ty \in Types, set \in SUBSET Addr : Report(ty, set)
    \/ Enter
    \/ Leave

WSpec == WInit /\ [][WNext]_wvars
===============================================================================
