------------------------------ MODULE JumpTable ------------------------------
(***************************************************************************)
(* Recovery of a switch statement from an indirect jump                    *)
(* (decompile/jumpbasic.rs): the conditional branches on the way to the    *)
(* jump bound a variable the address is computed from; the address is      *)
(* computed for every value of the bounded variable; later, on the final   *)
(* graph, the variable is found again, the values become case labels, and  *)
(* the nearest branch becomes the default case.                            *)
(*                                                                         *)
(* The code is discovered while tables are recovered, so a table is tried  *)
(* in several passes, each on a larger graph (recover_staged).             *)
(*                                                                         *)
(* A site is [branches, addr, between]: the branches on the one path to    *)
(* the jump, nearest first, each with its condition, the truth value that  *)
(* leads to the jump and where the other one leads; the address jumped to; *)
(* and what lies between the nearest branch and the jump.                  *)
(* Expressions are those of Pcode, read as a graph: equal subtrees are one *)
(* varnode.                                                                *)
(***************************************************************************)
EXTENDS CircleRange, NzMask, SequencesExt

CONSTANTS
  Sites,        \* a switch: its site in each pass of the recovery, and in the final graph
  Image,        \* the addresses of the program
  MaxTableSize, \* MAX_TABLE_SIZE: 1024 in the code
  PositiveSize, \* a range larger than this is cut to its positive half: 65536
  MaxStride     \* the largest stride get_stride returns, a power of 2: 32

ASSUME SizeAssumption == /\ {MaxTableSize, PositiveSize, MaxStride} \subseteq Nat \ {0}
                         /\ MaxTableSize < PositiveSize

VARIABLES
  sites,  \* the switch under study
  pass,   \* the pass of the recovery
  stage,  \* "first", "recheck", "retry", "frozen", "normalize", then one of Ends
  guards, \* the guard records found so far
  branch, \* the last branch analysed, 0 before the first
  cur,    \* what is being pulled back: at most one varnode with its range
  table   \* the recovered table

vars == <<sites, pass, stage, guards, branch, cur, table>>

maxbranch == 2
maxpullback == 2

Ends == {"failed", "indexed", "labelled"}
Site == IF stage \in {"normalize"} \cup Ends THEN sites.final ELSE sites.passes[pass]

-----------------------------------------------------------------------------
(* Varnodes of a site.                                                     *)

RECURSIVE Below(_)
Below(t) == {t} \cup UNION {Below(t.in[i]) : i \in DOMAIN t.in}
Varnodes(s) == Below(s.addr) \cup UNION {Below(s.branches[i].cond) : i \in DOMAIN s.branches}

\* The address with the value v in place of a varnode.
RECURSIVE Emulated(_, _, _)
Emulated(t, vn, v) ==
  IF t = vn THEN Const(vn.size, v) ELSE [t EXCEPT !.in = [i \in DOMAIN @ |-> Emulated(@[i], vn, v)]]

NoValues == [n \in {} |-> 0]
EmulatedOps == {"IntAdd", "IntSub", "IntMult", "IntLeft", "IntRight", "IntAnd", "IntOr", "Copy",
                "IntZext", "IntSext", "Subpiece"}
\* jumptable::emulate, for an address that its operations can compute.
emulate(addr, vn, v) == Value(Emulated(addr, vn, v), NoValues)
CanEmulate(addr, vn) ==
  \A t \in Below(Emulated(addr, vn, 0)) : t.op \in EmulatedOps \cup {"Const"}

\* The paths from a varnode down to the variables it depends on.
RECURSIVE Paths(_)
Paths(vn) ==
  CASE IsConst(vn) -> {}
    [] vn.op = "Var" -> {<<vn>>}
    [] OTHER -> {<<vn>> \o p : p \in UNION {Paths(vn.in[i]) : i \in DOMAIN vn.in}}
\* find_determining_varnodes: the varnodes on every path, the address first.
find_determining_varnodes(addr) ==
  LET paths == Paths(addr)
  IN IF paths = {} THEN <<addr>>
     ELSE SelectSeq(CHOOSE p \in paths : TRUE, LAMBDA vn : \A q \in paths : vn \in Range(q))

-----------------------------------------------------------------------------
(* GuardRecord                                                             *)

\* The varnode whose low bits vn copies, the rest of vn being zero.
RECURSIVE Ancestor(_, _)
Ancestor(vn, bits) ==
  LET mask == 2^bits - 1
      c == vn.in[Len(vn.in)]
      first == Ancestor(vn.in[1], bits)
  IN CASE vn.op = "Copy" -> first
       [] vn.op = "IntAnd" /\ IsConstOf(c, mask) -> first
       [] vn.op = "IntOr" /\ IsConst(c) /\ BitAnd(c.val, mask) = 0 -> first
       [] vn.op \in {"IntZext", "IntSext"} /\ Bits(vn.in[1].size) >= bits -> first
       [] vn.op = "Piece" /\ Bits(c.size) >= bits -> Ancestor(c, bits)
       [] vn.op = "Subpiece" /\ is_const0(c) -> first
       [] OTHER -> vn
quasi_copy(vn) ==
  LET bits == mostsigbit_set(vn.nz) + 1
  IN [base |-> IF bits = 0 THEN vn ELSE Ancestor(vn, bits), bits |-> bits]

\* Two varnodes computed by the same operation from one varnode and a constant.
one_off_match(a, b) ==
  /\ a.op = b.op
  /\ a.op \in {"IntAnd", "IntAdd", "IntXor", "IntOr", "IntLeft", "IntRight", "IntSright", "IntMult", "Subpiece"}
  /\ Same(a.in[1], b.in[1]) /\ IsConst(a.in[2]) /\ IsConst(b.in[2]) /\ a.in[2].val = b.in[2].val

\* The guard on g restricts vn (loads aside).
value_match(g, vn) ==
  LET mine == quasi_copy(g)
      yours == quasi_copy(vn)
  IN \/ Same(g, vn)
     \/ /\ mine.bits = yours.bits
        /\ Same(mine.base, yours.base) \/ one_off_match(mine.base, yours.base)
     \/ mine.bits # yours.bits /\ one_off_match(g, vn)

\* CircleRange::pull_back through the operation that defines vn: the set (at
\* most one) of the input and its range.
pull_back(r, vn, usenzmask) ==
  LET k == IF Len(vn.in) = 2 /\ IsConst(vn.in[1]) THEN 2 ELSE 1
      input == vn.in[k]
      val == vn.in[Other(k)].val
      pulled == IF Len(vn.in) = 1 THEN pull_back_unary(r, vn.op, input.size, vn.size)
                ELSE IF ~IsConst(vn.in[Other(k)]) THEN {}
                ELSE pull_back_binary(r, vn.op, val, k, input.size)
      truncates == /\ usenzmask /\ vn.op = "Subpiece" /\ is_const0(vn.in[2])
                   /\ vn.size >= (mostsigbit_set(input.nz) + ByteBits) \div ByteBits
      kept == IF pulled = {} /\ truncates THEN {[r EXCEPT !.mask = calc_mask(input.size)]} ELSE pulled
      sharpened(n) == LET met == UNION {intersect(n, z) : z \in set_nz_mask(input.nz, input.size)}
                      IN IF usenzmask /\ met # {} THEN met ELSE {n}
  IN IF IsConst(input) THEN {}
     ELSE {[vn |-> input, range |-> n] : n \in UNION {sharpened(n) : n \in kept}}

-----------------------------------------------------------------------------
(* JumpBasic                                                               *)

get_stride(vn) ==
  IF vn.nz % (2 * MaxStride) = 0 THEN MaxStride
  ELSE 2^leastsigbit_set(vn.nz)

\* One past the largest value of a masked varnode, 0 for no limit.
get_max_value(vn) ==
  IF vn.op = "IntAnd" /\ IsConst(vn.in[2])
  THEN Masked(coveringmask(vn.in[2].val) + 1, calc_mask(vn.size)) ELSE 0

\* The element of met, at most one range; r if there is none.
IfAny(met, r) == IF met = {} THEN r ELSE CHOOSE n \in met : TRUE

\* A range too large for a table is cut to the positive numbers in it.
CutPositive(rng, positive) ==
  LET assumed == get_size(rng) > PositiveSize /\ ~positive.isempty
  IN [range |-> IF assumed THEN positive ELSE rng, assumed |-> assumed]
TakePositive(rng, size, stride) ==
  LET half == new(0, rng.mask \div 2 + 1, calc_mask(size), stride)
  IN CutPositive(rng, IfAny(intersect(half, rng), half))

\* What is known of vn at the jump, and whether it had to be assumed positive.
calc_range(vn, gs) ==
  LET stride == IF vn.op \in BoolOutput \cup {"Const"} THEN 1 ELSE get_stride(vn)
      start == CASE IsConst(vn) -> from_value(vn.val, vn.size)
                 [] vn.op \in BoolOutput -> new(0, 2, calc_mask(1), 1)
                 [] OTHER -> new(0, get_max_value(vn), calc_mask(vn.size), stride)
      narrow(r, g) == IF value_match(g.vn, vn) THEN IfAny(intersect(r, g.range), r) ELSE r
  IN TakePositive(FoldLeft(narrow, start, gs), vn.size, stride)

\* The position on the path of the varnode with the fewest values.
Smallest(path, size, matchsize) ==
  LET better(best, i) ==
        IF \/ size[best] = matchsize
           \/ size[i] >= size[best]
           \/ size[i] = 2^ByteBits /\ path[i].size = 1
        THEN best ELSE i
  IN FoldLeft(better, 1, [i \in 1 .. Len(path) |-> i])
find_smallest_normal(path, gs, matchsize) ==
  Smallest(path, [i \in DOMAIN path |-> get_size(calc_range(path[i], gs).range)], matchsize)

\* The operations of the model: those on the path above the normalized
\* variable and those the guards were pulled back through.
ModelOps(path, k, gs) == {path[i] : i \in 1 .. k - 1} \cup {gs[i].read : i \in DOMAIN gs}
\* flows_only_to_model: nothing else reads vn but trail.
flows_only_to_model(s, vn, trail, model) ==
  \A t \in Varnodes(s) : vn \in Range(t.in) => t \in model \cup trail

\* find_unnormalized: past at most one addition of a constant and one extension.
find_unnormalized(s, path, k, gs) ==
  LET step(acc, i) ==
        LET t == acc.vn
            sums == t.op \in {"IntAdd", "IntSub"}
            extends == t.op \in {"IntZext", "IntSext"}
            slot == CHOOSE j \in DOMAIN t.in : t.in[j] = path[i]
            goes == /\ flows_only_to_model(s, t, acc.trail, ModelOps(path, k, gs))
                    /\ IsWritten(t) /\ path[i] \in Range(t.in)
                    /\ \/ sums /\ acc.sums = 0 /\ IsConst(t.in[Other(slot)])
                       \/ extends /\ acc.extensions = 0
        IN IF acc.stopped \/ ~goes THEN [acc EXCEPT !.stopped = TRUE]
           ELSE [acc EXCEPT !.vn = path[i], !.trail = {t}, !.sums = @ + Bool(sums),
                            !.extensions = @ + Bool(extends)]
      from == [vn |-> path[k], trail |-> {}, sums |-> 0, extensions |-> 0, stopped |-> FALSE]
  IN FoldLeft(step, from, [i \in 1 .. Len(path) - k |-> k + i]).vn

\* backup2switch: the value of vn for which outvn has the value v; none if
\* there is no such value.
RECURSIVE backup2switch(_, _, _)
backup2switch(v, outvn, vn) ==
  LET slot == IF IsConst(outvn.in[1]) THEN 2 ELSE 1
      input == outvn.in[slot]
      c == outvn.in[Other(slot)].val
      mask == calc_mask(outvn.size)
      small == calc_mask(input.size)
      negative == BitAnd(v, small - small \div 2) # 0
      high == mask - small
  IN CASE outvn = vn -> {v}
       [] outvn # vn /\ outvn.op = "IntAdd" -> backup2switch(Masked(v - c, mask), input, vn)
       [] outvn # vn /\ outvn.op = "IntSub" ->
            backup2switch(Masked(IF slot = 1 THEN c + v ELSE c - v, mask), input, vn)
       [] outvn # vn /\ outvn.op = "IntZext" ->
            IF v > small THEN {} ELSE backup2switch(v, input, vn)
       [] outvn # vn /\ outvn.op = "IntSext" ->
            IF IF negative THEN BitAnd(v, high) # high ELSE v > small THEN {}
            ELSE backup2switch(BitAnd(v, small), input, vn)

\* jumptable::normalize: the value a varnode only moves.
RECURSIVE Moved(_)
Moved(vn) ==
  IF vn.op \in {"Copy", "IntSext", "IntZext"} \/ (vn.op = "Subpiece" /\ is_const0(vn.in[2]))
  THEN Moved(vn.in[1]) ELSE vn

\* The exit of a comparison of a varnode under the address with a constant
\* directly before the jump, none for any other branch.
find_default(s) ==
  IF s.branches = <<>> \/ s.between = "block" THEN {}
  ELSE LET c == s.branches[1].cond
           bounds == /\ c.op \in {"IntLess", "IntLessequal", "IntSless", "IntSlessequal"}
                     /\ \E i \in 1 .. 2 : IsConst(c.in[Other(i)]) /\ Moved(c.in[i]) \in Below(s.addr)
       IN IF bounds THEN {s.branches[1].exit} ELSE {}

TableFits(range) == get_size(range) \in 1 .. MaxTableSize

NoTable == [targets |-> <<>>]

\* The table of the addresses for the values found of vn.
AddressesOf(s, vn, found, values) ==
  LET targets == [i \in DOMAIN values |-> emulate(s.addr, vn, values[i])]
  IN IF ~TableFits(found.range) \/ ~CanEmulate(s.addr, vn) \/ ~(Range(targets) \subseteq Image)
     THEN NoTable
     ELSE [targets |-> targets, default |-> find_default(s), norm_range |-> found.range,
           assumed |-> found.assumed, vn |-> vn]
RecoverFor(s, vn, found) == AddressesOf(s, vn, found, Enumerated(found.range))
RecoverOn(s, gs, path, k) == RecoverFor(s, path[k], calc_range(path[k], gs))

\* recover_jumpbasic, once the guards are known.
recover_jumpbasic(s, gs, matchsize) ==
  LET path == find_determining_varnodes(s.addr)
  IN RecoverOn(s, gs, path, find_smallest_normal(path, gs, matchsize))

-----------------------------------------------------------------------------
(* analyze_guards                                                          *)

usenzmask == stage # "retry"
Analysing == stage \in {"first", "recheck", "retry", "normalize"}
Considered == Min({maxbranch, Len(Site.branches)})
Analysed == Analysing /\ cur = {} /\ branch = Considered

Record(i, read, vn, range) == [branch |-> i, read |-> read, vn |-> vn, range |-> range]
Cbranch == [op |-> "Cbranch"]

Restart == guards' = <<>> /\ branch' = 0 /\ cur' = {}

Init ==
  /\ sites \in Sites
  /\ pass = 1 /\ stage = "first" /\ table = NoTable
  /\ guards = <<>> /\ branch = 0 /\ cur = {}

\* The next branch away from the jump: its condition has the truth value
\* that leads to the jump.
NextBranch ==
  /\ Analysing /\ cur = {} /\ branch < Considered
  /\ LET b == Site.branches[branch + 1]
         r == from_bool(b.toswitch)
     IN /\ guards' = Append(guards, Record(branch + 1, Cbranch, b.cond, r))
        /\ cur' = {[vn |-> b.cond, range |-> r, left |-> maxpullback]}
  /\ branch' = branch + 1
  /\ UNCHANGED <<sites, pass, stage, table>>

\* What the range means for the varnode's input, if that can be said.
PullBack ==
  /\ Analysing
  /\ \E c \in cur :
       LET pulled == IF IsWritten(c.vn) THEN pull_back(c.range, c.vn, usenzmask) ELSE {}
           kept == {p \in pulled : ~p.range.isempty}
       IN /\ guards' = guards \o SetToSeq({Record(branch, c.vn, p.vn, p.range) : p \in kept})
          /\ cur' = IF c.left = 1 THEN {}
                    ELSE {[vn |-> p.vn, range |-> p.range, left |-> c.left - 1] : p \in kept}
  /\ UNCHANGED <<sites, pass, stage, branch, table>>

-----------------------------------------------------------------------------
(* recover_staged                                                          *)

\* On to the next pass with the table t, or to the final graph after the last.
NextPass(t) ==
  /\ table' = t
  /\ pass' = Min({pass + 1, Len(sites.passes)})
  /\ stage' = CASE pass < Len(sites.passes) /\ t = NoTable -> "first"
                [] pass < Len(sites.passes) /\ Len(t.targets) = 1 -> "recheck"
                [] pass < Len(sites.passes) /\ Len(t.targets) > 1 -> "frozen"
                [] OTHER -> IF t = NoTable THEN "failed" ELSE "normalize"
  /\ Restart /\ UNCHANGED sites

RecoverFirst ==
  /\ stage = "first" /\ Analysed
  /\ \E t \in {recover_jumpbasic(Site, guards, 0)} : NextPass(t)

\* mutant: a table of one entry is final
RecheckNothing == stage = "recheck" /\ Analysed /\ NextPass(table)

\* A table of one entry is given up for the table the guards alone give if
\* the larger graph has more entries.
Recheck ==
  /\ stage = "recheck" /\ Analysed
  /\ IF Len(recover_jumpbasic(Site, guards, 1).targets) > 1
     THEN stage' = "retry" /\ Restart /\ UNCHANGED <<sites, pass, table>>
     ELSE NextPass(table)
RecoverAgain ==
  /\ stage = "retry" /\ Analysed
  /\ \E t \in {recover_jumpbasic(Site, guards, 0)} : NextPass(IF t = NoTable THEN table ELSE t)

KeepFrozen == stage = "frozen" /\ NextPass(table)

-----------------------------------------------------------------------------
(* switch_norm                                                             *)

\* mutant: a branch some block away is folded too
FoldedFromAfar(s) == s.branches # <<>>

\* fold_in_one_guard: the branch directly before the jump becomes a case.
Folded(s) == s.branches # <<>> /\ s.between = "nothing"

\* normalize_one: labels are the values the table was recovered for, taken
\* back through the final graph to the variable the switch is on.
Normalize ==
  /\ stage = "normalize" /\ Analysed
  /\ \E path \in {find_determining_varnodes(Site.addr)} :
       \E k \in {find_smallest_normal(path, guards, Len(table.targets))} :
         \E switchvn \in {find_unnormalized(Site, path, k, guards)} :
           LET values == Enumerated(table.norm_range)
               labels == [i \in DOMAIN values |-> backup2switch(values[i], path[k], switchvn)]
           IN IF \/ get_size(calc_range(path[k], guards).range) # Len(table.targets)
                 \/ {} \in Range(labels)
              THEN stage' = "indexed" /\ UNCHANGED table
              ELSE /\ stage' = "labelled"
                   /\ table' = [labels |-> labels, switchvn |-> switchvn, folded |-> Folded(Site)] @@ table
  /\ UNCHANGED <<sites, pass, guards, branch, cur>>

Next == NextBranch \/ PullBack \/ RecoverFirst \/ Recheck \/ RecoverAgain \/ KeepFrozen \/ Normalize

Spec == Init /\ [][Next]_vars

-----------------------------------------------------------------------------
(* Properties                                                              *)

\* The values the variables can have at a site.
AllEnvironments(s) ==
  Environments([op |-> "All", in |-> <<s.addr>> \o [i \in DOMAIN s.branches |-> s.branches[i].cond]])

GoesToSwitch(b, env) == Value(b.cond, env) = Bool(b.toswitch)

\* Where control goes from the farthest of the branches in the set kept.
Destination(s, kept, atSwitch, env) ==
  LET leaves == {i \in kept : ~GoesToSwitch(s.branches[i], env)}
  IN IF leaves = {} THEN atSwitch ELSE {s.branches[Max(leaves)].exit}

LastSite == sites.passes[Len(sites.passes)]
\* calc_range takes a large range for one of positive numbers.
WithinAssumption(env) == table.assumed => Value(table.vn, env) <= table.norm_range.mask \div 2

\* A guard record says exactly when its branch leads on to the jump: the
\* varnode's value is in the record's range (GuardRecord, CircleRange::pull_back).
GuardExact ==
  \A i \in DOMAIN guards :
    LET g == guards[i]
    IN \A env \in AllEnvironments(Site) :
         GoesToSwitch(Site.branches[g.branch], env) <=> contains_val(g.range, Value(g.vn, env))

\* Once recovered from the whole graph, the table has every address the
\* jump can go to, however few an earlier pass saw (recover_staged,
\* recover_jumpbasic).
TableCovers ==
  stage \in {"normalize", "indexed", "labelled"} =>
    \A env \in AllEnvironments(LastSite) :
      Destination(LastSite, DOMAIN LastSite.branches, {}, env) = {} /\ WithinAssumption(env)
        => Value(LastSite.addr, env) \in Range(table.targets)

\* The switch with its labels and default goes where the branches and the
\* jump of the program went, whatever the values of its variables: labels
\* come from a range found in one graph and a variable found in another, and
\* the branch before the switch is gone (normalize_one, fold_in_one_guard).
FlowPreserved ==
  stage = "labelled" =>
    \A env \in AllEnvironments(LastSite) :
      LET v == Value(table.switchvn, env)
          cases == {table.targets[i] : i \in {j \in DOMAIN table.labels : table.labels[j] = {v}}}
          atSwitch == IF cases = {} THEN table.default ELSE cases
          kept == {i \in DOMAIN sites.final.branches : i > 1 \/ ~table.folded}
      IN WithinAssumption(env) =>
           Destination(sites.final, kept, atSwitch, env)
             = Destination(LastSite, DOMAIN LastSite.branches, {Value(LastSite.addr, env)}, env)
=============================================================================
