------------------------------- MODULE Consume -------------------------------
(***************************************************************************)
(* The consumed bits of a varnode: those that can make a difference to     *)
(* what the function returns.  A value none of whose bits is consumed is   *)
(* replaced by zero, and RuleOrConsume drops an operand that sets none.    *)
(***************************************************************************)
EXTENDS NzMask

minimalmask(v) == calc_mask(CHOOSE s \in {1, 2, 4, 8} :
                              /\ v <= calc_mask(s)
                              /\ \A r \in {1, 2, 4, 8} : v <= calc_mask(r) => s <= r)

\* mutant: no carry from the bits below
NoCarry(t, i, c) == c

\* What input i of operation t passes on when the bits c of its output are
\* consumed.
consume_transfer(t, i, c) ==
  LET x == t.in[1]
      y == t.in[Len(t.in)]
      all == IF c = 0 THEN 0 ELSE WordMask
      shift(m) == IF IsConst(y) /\ i = 1 THEN m ELSE all
      small == calc_mask(x.size)
      above == pcode_right(c, Bits(y.size))
  IN CASE t.op = "IntMult" ->
            IF i = 2 \/ ~IsConst(y) THEN coveringmask(c)
            ELSE IF y.val = 0 THEN 0
            ELSE BitAnd(pcode_right(calc_mask(t.size), leastsigbit_set(y.val)), coveringmask(c))
       [] t.op \in {"IntAdd", "IntSub"} -> coveringmask(c)
       [] t.op = "Subpiece" -> IF i = 1 THEN pcode_left(c, Bits(y.val)) ELSE all
       [] t.op = "Piece" -> IF i = 1 THEN above ELSE BitXor(c, pcode_left(above, Bits(y.size)))
       [] t.op \in {"Copy", "IntNegate", "IntXor", "IntOr", "IntZext"} -> c
       [] t.op = "IntAnd" -> IF i = 1 /\ IsConst(y) THEN BitAnd(c, y.val) ELSE c
       [] t.op = "IntSext" ->
            BitOr(BitAnd(c, small), IF c > small THEN 2^(Bits(x.size) - 1) ELSE 0)
       [] t.op = "IntLeft" -> shift(pcode_right(c, y.val))
       [] t.op = "IntRight" -> shift(pcode_left(c, y.val))
       [] t.op \in {"IntLess", "IntLessequal", "IntEqual", "IntNotequal"} ->
            IF c = 0 THEN 0 ELSE BitOr(x.nz, y.nz)
       [] t.op \in {"Popcount", "Lzcount"} ->
            IF BitAnd(2 * Bits(x.size) - 1, c) = 0 THEN 0 ELSE WordMask
       [] OTHER -> all

RECURSIVE Outputs(_)
Outputs(t) ==
  IF ~IsWritten(t) THEN {} ELSE {t} \cup UNION {Outputs(t.in[i]) : i \in DOMAIN t.in}

\* gather_consumed_return: what is consumed of the value root the function
\* returns.
gather_consumed_return(root) == minimalmask(root.nz)

\* The work list of calc_consume at its end: the consumed bits of each output
\* are those that any of its readers passes on.
Consumption(root) ==
  LET outputs == Outputs(root)
      c[v \in outputs] ==
        LET readers == {ri \in outputs \X {1, 2} :
                          ri[2] \in DOMAIN ri[1].in /\ ri[1].in[ri[2]] = v}
            passed == {consume_transfer(ri[1], ri[2], c[ri[1]]) : ri \in readers}
            seeds == IF v = root THEN {gather_consumed_return(root)} ELSE {}
        IN BitAnd(FoldSet(BitOr, 0, passed \cup seeds), calc_mask(v.size))
  IN c

\* never_consumed: an output of which no bit is consumed is read as zero.
RECURSIVE WithConsumption(_, _)
WithConsumption(t, c) ==
  IF ~IsWritten(t) THEN t
  ELSE LET unused(vn) == IsWritten(vn) /\ c[vn] = 0
           input(vn) == IF unused(vn) THEN Const(vn.size, 0) ELSE WithConsumption(vn, c)
       IN [t EXCEPT !.co = c[t], !.in = [i \in DOMAIN t.in |-> input(t.in[i])]]

calc_consume(root) == WithConsumption(root, Consumption(root))

\* A | B  =>  B, when no bit that A can set is consumed.
RuleOrConsume(t) ==
  LET unused(i) == BitAnd(t.co, t.in[i].nz) = 0
  IN CASE unused(1) -> {Copy(t, t.in[2])}
       [] unused(2) -> {Copy(t, t.in[1])}
       [] OTHER     -> {}
=============================================================================
