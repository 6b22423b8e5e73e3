---------------------------- MODULE ImmutableStore ----------------------------
(***************************************************************************)
(* What the set store of a session promises, without files, renames or     *)
(* syncs (crates/mosura-api/src/session/store.rs, documentation of         *)
(* write_set_dir): a name gets its whole content in one step and keeps it. *)
(* Until it is safe a loss of power may take it away, as a whole.          *)
(***************************************************************************)
CONSTANTS
    Names,
    Contents        \* complete contents

VARIABLES
    stored,         \* stored[n]: the content under n, or nothing: a set of at most one
    safe            \* the names whose content survives a loss of power

svars == <<stored, safe>>

SInit ==
    /\ stored = [n \in Names |-> {}]
    /\ safe = {}

Publish(n, c) ==
    /\ stored[n] = {}
    /\ stored' = [stored EXCEPT ![n] = {c}]
    /\ UNCHANGED safe

Harden(some) ==
    /\ \A n \in some : stored[n] # {}
    /\ safe' = safe \cup some
    /\ UNCHANGED stored

LosePower ==
    /\ \E lost \in SUBSET (Names \ safe) :
          stored' = [n \in Names |-> IF n \in lost THEN {} ELSE stored[n]]
    /\ safe' = {n \in Names : stored'[n] # {}}

SNext ==
    \/ \E n \in Names, c \in Contents : Publish(n, c)
    \/ \E some \in SUBSET Names : Harden(some)
    \/ LosePower

SSpec == SInit /\ [][SNext]_svars
===============================================================================
