------------------------------ MODULE RulesBits ------------------------------
(***************************************************************************)
(* Rewrite rules on masks and shifts (decompile/rules.rs).  See RulesArith *)
(* for how a rule is written.                                              *)
(***************************************************************************)
EXTENDS NzMask, SequencesExt

\* Bitwise operation opc on two words.
Bitwise2(opc, a, b) ==
  CASE opc = "IntAnd" -> BitAnd(a, b) [] opc = "IntOr" -> BitOr(a, b) [] opc = "IntXor" -> BitXor(a, b)

\* (V & c) & d  =>  V & (c & d)
RuleAndOrLump(t) ==
  LET s == t.in[1]
  IN IF IsConst(t.in[2]) /\ s.op = t.op /\ IsConst(s.in[2]) /\ ~is_free(s.in[1])
     THEN {Become(t, t.op, <<s.in[1], Const(s.in[1].size, Bitwise2(t.op, t.in[2].val, s.in[2].val))>>)}
     ELSE {}

\* (V & c) >> s  =>  V >> s, when the mask keeps every bit the shift keeps.
RuleRightShiftAnd(t) ==
  LET s == t.in[1]
      sa == t.in[2].val
  IN IF /\ IsConst(t.in[2]) /\ s.op = "IntAnd" /\ IsConst(s.in[2]) /\ ~is_free(s.in[1])
        /\ pcode_right(s.in[2].val, sa) = pcode_right(calc_mask(s.in[1].size), sa)
     THEN {Become(t, t.op, <<s.in[1], t.in[2]>>)} ELSE {}

\* V & W where no bit can be set in both, or where W keeps every bit of V.
RuleAndMask(t) ==
  LET m == Nzm(t.in[1])
      both == BitAnd(m, Nzm(t.in[2]))
  IN CASE both = 0                      -> {Copy(t, Const(t.size, 0))}
       [] both = m /\ IsConst(t.in[2]) -> {Copy(t, t.in[1])}
       [] OTHER                         -> {}

\* V | c  =>  c, where c holds every bit V can have.
RuleOrCollapse(t) ==
  IF IsConst(t.in[2]) /\ BitOr(Nzm(t.in[1]), t.in[2].val) = t.in[2].val
  THEN {Copy(t, t.in[2])} ELSE {}

\* Only bits of the mask val can be set in vn.
Aligned(vn, val) == BitAnd(Nzm(vn), val) = Nzm(vn)

\* (X + c) & val  =>  X + (c & val), for a high mask val and an aligned X;
\* and the same when an aligned addend stands between.
RuleHighOrderAnd(t) ==
  LET sum == t.in[1]
      k == t.in[2]
      val == k.val
      high == BitOr((val - 1) % 2^Bits(WordBytes), val) = calc_mask(k.size)
      cleared(add) == [add EXCEPT !.in[2] = Const(k.size, BitAnd(val, @.val))]
      inner == {i \in {1, 2} : LET add == sum.in[Other(i)]
                               IN /\ Aligned(sum.in[i], val) /\ add.op = "IntAdd"
                                  /\ IsConst(add.in[2]) /\ Aligned(add.in[1], val)}
  IN CASE ~IsConst(k) \/ sum.op # "IntAdd" \/ ~high -> {}
       [] IsConst(sum.in[2]) -> IF ~is_free(sum.in[1]) /\ Aligned(sum.in[1], val)
                                THEN {Become(t, "IntAdd", cleared(sum).in)} ELSE {}
       [] inner # {} -> {Copy(t, [sum EXCEPT !.in[Other(Min(inner))] = cleared(@)])}
       [] OTHER -> {}

\* A shift that pushes out every bit of one operand of the shifted operation.
RuleShiftBitops(t) ==
  LET s == t.in[1]
      k == t.in[2]
      left == t.op \in {"IntLeft", "IntMult"}
      sa == CASE t.op = "Subpiece" -> Bits(k.val)
              [] t.op = "IntMult"  -> leastsigbit_set(k.val)
              [] OTHER             -> k.val
      shifted(m) == IF left THEN pcode_left(m, sa) ELSE pcode_right(m, sa)
      gone == {i \in {1, 2} : BitAnd(shifted(Nzm(s.in[i])), calc_mask(t.size)) = 0}
      kept == IF s.op \in {"IntMult", "IntAnd"} THEN Const(s.size, 0) ELSE s.in[Other(Min(gone))]
  IN CASE ~IsConst(k) \/ (t.op = "IntMult" /\ k.val = 0) -> {}
       [] s.op \notin {"IntAnd", "IntOr", "IntXor"} \cup (IF left THEN {"IntMult", "IntAdd"} ELSE {}) -> {}
       [] gone = {} -> {}
       [] OTHER     -> {[t EXCEPT !.in[1] = kept]}

\* (A & B) | (A & C)  =>  A & (B | C)
RuleHumptyOr(t) ==
  LET and1 == t.in[1]
      and2 == t.in[2]
      common == {ij \in {<<1, 1>>, <<1, 2>>, <<2, 1>>, <<2, 2>>} : Same(and1.in[ij[1]], and2.in[ij[2]])}
      \* the first pair in the order the code tries them
      ij == CHOOSE p \in common : \A q \in common : 2 * p[1] + p[2] <= 2 * q[1] + q[2]
      a == and1.in[ij[1]]
      b == and1.in[Other(ij[1])]
      c == and2.in[Other(ij[2])]
      both == BitOr(b.val, c.val)
      overlaps(vn) == BitAnd(Nzm(vn), Nzm(a)) # 0
  IN CASE and1.op # "IntAnd" \/ and2.op # "IntAnd" -> {}
       [] common = {} -> {}
       [] IsConst(b) /\ IsConst(c) ->
            IF both = calc_mask(a.size) THEN {Copy(t, a)}
            ELSE {Become(t, "IntAnd", <<a, Const(a.size, both)>>)}
       [] overlaps(b) /\ overlaps(c) -> {Become(t, "IntAnd", <<a, Op("IntOr", b.size, <<b, c>>)>>)}
       [] OTHER -> {}

\* V | all ones  =>  all ones
RuleOrMask(t) ==
  IF IsConst(t.in[2]) /\ BitAnd(t.in[2].val, calc_mask(t.size)) = calc_mask(t.size)
  THEN {Copy(t, t.in[2])} ELSE {}

\* (V << s) & A  =>  (V & (A >> s)) << s, where the mask then meets a constant
\* or drops a side of what is shifted.
RuleAndCommute(t) ==
  LET full == calc_mask(t.size)
      shift(i) == t.in[i]
      sa(i) == shift(i).in[2].val
      other(i) == t.in[Other(i)]
      left(i) == shift(i).op = "IntLeft"
      noop(i) == Nzm(other(i)) = IF left(i) THEN (IF pcode_left(full, sa(i)) # 0 THEN 1 ELSE 0)
                                 ELSE pcode_right(full, sa(i))
      moved(i) == IF left(i) THEN pcode_right(Nzm(other(i)), sa(i)) ELSE pcode_left(Nzm(other(i)), sa(i))
      v(i) == shift(i).in[1]
      misses(i, m) == BitAnd(m, moved(i)) = 0
      covers(i, m) == IsConst(other(i)) /\ BitAnd(m, moved(i)) = m
      useful(i) ==
        \/ left(i) /\ IsConst(other(i))
        \/ v(i).op = "IntOr" /\ \E j \in {1, 2} : misses(i, Nzm(v(i).in[j])) \/ covers(i, Nzm(v(i).in[j]))
        \/ v(i).op = "Piece" /\ \/ misses(i, Nzm(v(i).in[2]))
                                \/ misses(i, pcode_left(Nzm(v(i).in[1]), Bits(v(i).in[2].size)))
      slots == {i \in {1, 2} : /\ shift(i).op \in {"IntLeft", "IntRight"} /\ IsConst(shift(i).in[2])
                               /\ ~noop(i) /\ moved(i) \notin {0, full} /\ useful(i)}
      i == Min(slots)
      opposite == IF left(i) THEN "IntRight" ELSE "IntLeft"
      mask == Op(opposite, t.size, <<other(i), shift(i).in[2]>>)
  IN IF slots = {} THEN {}
     ELSE {Become(t, shift(i).op, <<Op("IntAnd", t.size, <<v(i), mask>>), shift(i).in[2]>>)}

\* (V & c) << s: the mask goes when it keeps every bit that is left of V.
RuleShiftAnd(t) ==
  LET and == t.in[1]
      k == t.in[2].val
      v == and.in[1]
      power == k # 0 /\ k = 2^leastsigbit_set(k) /\ k # 1
      sa == IF t.op = "IntMult" THEN leastsigbit_set(k) ELSE k
      moved(m) == IF t.op = "IntRight" THEN pcode_right(m, sa)
                  ELSE BitAnd(pcode_left(m, sa), calc_mask(v.size))
  IN CASE ~IsConst(t.in[2]) \/ and.op # "IntAnd"   -> {}
       [] ~IsConst(and.in[2]) \/ is_free(v)        -> {}
       [] t.op = "IntMult" /\ ~power               -> {}
       [] BitAnd(moved(and.in[2].val), moved(Nzm(v))) # moved(Nzm(v)) -> {}
       [] OTHER -> {[t EXCEPT !.in[1] = Copy(and, v)]}

\* A shift by a constant, or a multiplication by a power of two: which way and
\* how far; -1 when it is neither.
ShiftWay(t) == IF t.op = "IntRight" THEN "IntRight" ELSE "IntLeft"
ShiftBy(t) ==
  CASE ~IsConst(t.in[2]) -> -1
    [] t.op = "IntMult"  -> IF t.in[2].val # 0 /\ t.in[2].val = 2^leastsigbit_set(t.in[2].val)
                            THEN leastsigbit_set(t.in[2].val) ELSE -1
    [] OTHER             -> t.in[2].val

\* (V << c) << d  =>  V << (c + d);  (V << c) >> c  =>  V & mask
RuleDoubleShift(t) ==
  LET s == t.in[1]
      sa1 == ShiftBy(t)
      sa2 == ShiftBy(s)
      full == calc_mask(s.size)
      mask == BitAnd(IF ShiftWay(t) = "IntLeft" THEN pcode_left(full, sa1) ELSE pcode_right(full, sa1), full)
  IN CASE s.op \notin {"IntLeft", "IntRight", "IntMult"} -> {}
       [] sa1 = -1 \/ sa2 = -1 -> {}
       [] ShiftWay(t) = ShiftWay(s) ->
            IF sa1 + sa2 < Bits(s.size) THEN {Become(t, ShiftWay(t), <<s.in[1], Const(4, sa1 + sa2)>>)}
            ELSE {Copy(t, Const(s.size, 0))}
       [] sa1 = sa2 -> {Become(t, "IntAnd", <<s.in[1], Const(s.size, mask)>>)}
       [] OTHER -> {}

\* (V s>> c) s>> d  =>  V s>> min(c + d, all but the sign)
RuleDoubleArithShift(t) ==
  LET s == t.in[1]
      sa == t.in[2].val + s.in[2].val
  IN IF /\ IsConst(t.in[2]) /\ s.op = "IntSright" /\ IsConst(s.in[2]) /\ ~is_free(s.in[1])
        /\ sa > 0
     THEN {Become(t, t.op, <<s.in[1], Const(4, Min({sa, Bits(t.size) - 1}))>>)} ELSE {}

\* ext(V) & ext(W)  =>  ext(V & W), and the same for two equal shifts.
RuleBitUndistribute(t) ==
  LET a == t.in[1]
      b == t.in[2]
      extension == a.op \in {"IntZext", "IntSext"} /\ a.in[1].size = b.in[1].size
      shift == /\ a.op \in {"IntLeft", "IntRight", "IntSright"}
               /\ IF IsConst(a.in[2]) /\ IsConst(b.in[2]) THEN a.in[2].val = b.in[2].val
                  ELSE Same(a.in[2], b.in[2])
      inner == Op(t.op, a.in[1].size, <<a.in[1], b.in[1]>>)
  IN IF /\ IsWritten(a) /\ a.op = b.op /\ (extension \/ shift)
        /\ ~is_free(a.in[1]) /\ ~is_free(b.in[1])
     THEN {Become(t, a.op, IF extension THEN <<inner>> ELSE <<inner, a.in[2]>>)} ELSE {}

\* V & ~V  =>  0;  V | ~V, V ^ ~V  =>  all ones, for the ~V in slot i of r.
RuleNegateIdentity(r, i) ==
  LET v == r.in[i].in[1]
  IN IF r.op \in {"IntAnd", "IntOr", "IntXor"} /\ Same(r.in[Other(i)], v)
     THEN {Copy(r, Const(v.size, IF r.op = "IntAnd" THEN 0 ELSE calc_mask(v.size)))} ELSE {}

\* V ^ (V ^ W)  =>  W
RuleXorSwap(t) ==
  LET x(i, j) == t.in[i].in[j]
      cancels(ij) == /\ t.in[ij[1]].op = "IntXor" /\ ~is_free(x(ij[1], Other(ij[2])))
                     /\ Same(t.in[Other(ij[1])], x(ij[1], ij[2]))
      found == SelectSeq(<<<<1, 1>>, <<1, 2>>, <<2, 1>>, <<2, 2>>>>, cancels)
  IN IF found = <<>> THEN {} ELSE {Copy(t, x(Head(found)[1], Other(Head(found)[2])))}

\* ~~V  =>  V
RuleNegateNegate(t) ==
  LET s == t.in[1]
  IN IF s.op = "IntNegate" /\ ~is_free(s.in[1]) THEN {Copy(t, s.in[1])} ELSE {}

\* lzcount(V) >> log2(bits)  =>  V == 0, for the count in slot i of r.
RuleLzcountShiftBool(r, i) ==
  LET v == r.in[i].in[1]
      zero == Op("IntEqual", 1, <<v, Const(v.size, 0)>>)
  IN IF /\ r.op \in {"IntRight", "IntSright"} /\ IsConst(r.in[2])
        /\ popcount(Bits(v.size)) = 1 /\ pcode_right(Bits(v.size), r.in[2].val) = 1
     THEN {IF r.size = 1 THEN Copy(r, zero) ELSE Become(r, "IntZext", <<zero>>)} ELSE {}
=============================================================================
