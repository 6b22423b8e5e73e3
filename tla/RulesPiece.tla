----------------------------- MODULE RulesPiece -----------------------------
(***************************************************************************)
(* Rewrite rules on concatenation, truncation and extension                *)
(* (decompile/rules.rs).  See RulesArith for how a rule is written.        *)
(***************************************************************************)
EXTENDS NzMask, SequencesExt

Extensions == {"IntZext", "IntSext"}

\* The size low bytes of vn from byte offset on, as an input or a copy of t.
Truncate(t, vn, offset) ==
  IF offset.val = 0 /\ vn.size = t.size THEN Copy(t, vn) ELSE Become(t, "Subpiece", <<vn, offset>>)

\* sub(ext(V), c): the truncation is of V, or comes before the extension.
RuleSubExtComm(t) ==
  LET ext == t.in[1]
      v == ext.in[1]
      cut == t.in[2].val
      lower == IF cut = 0 THEN v ELSE Op("Subpiece", v.size - cut, <<v, t.in[2]>>)
  IN CASE ext.op \notin Extensions \/ IsConst(v) -> {}
       [] t.size + cut <= v.size -> {Truncate(t, v, t.in[2])}
       [] cut >= v.size          -> {}
       [] OTHER                  -> {Become(t, ext.op, <<lower>>)}

\* concat(sub(V, c + d), sub(V, c))  =>  sub(V, c)
RuleHumptyDumpty(t) ==
  LET hi == t.in[1]
      lo == t.in[2]
  IN IF /\ hi.op = "Subpiece" /\ lo.op = "Subpiece" /\ Same(hi.in[1], lo.in[1])
        /\ hi.in[2].val = lo.in[2].val + lo.size
     THEN {Truncate(t, lo.in[1], lo.in[2])} ELSE {}

\* sub(concat(V, W), c)  =>  a part of V or of W, where c does not straddle them.
RuleDumptyHump(t) ==
  LET piece == t.in[1]
      lo == piece.in[2]
      off == t.in[2].val
  IN CASE piece.op # "Piece"       -> {}
       [] off >= lo.size           -> {Truncate(t, piece.in[1], Const(4, off - lo.size))}
       [] off + t.size > lo.size   -> {}
       [] OTHER                    -> {Truncate(t, lo, Const(4, off))}

\* sub(ext(V), 0) and sub(V & mask, 0): the inner operation is undone.
RuleSubCancel(t) ==
  LET ext == t.in[1]
      v == ext.in[1]
      off == t.in[2].val
  IN CASE ext.op = "IntAnd" ->
            IF off = 0 /\ IsConstOf(ext.in[2], calc_mask(t.size)) /\ ~is_free(v)
            THEN {Become(t, t.op, <<v, t.in[2]>>)} ELSE {}
       [] ext.op \notin Extensions -> {}
       [] off = 0 -> CASE is_free(v)      -> {}
                       [] t.size = v.size -> {Copy(t, v)}
                       [] t.size < v.size -> {Become(t, "Subpiece", <<v, t.in[2]>>)}
                       [] OTHER           -> {Become(t, ext.op, <<v>>)}
       [] OTHER   -> IF ext.op = "IntZext" /\ v.size <= off
                     THEN {Copy(t, Const(t.size, 0))} ELSE {}

\* sub(V << 8*k, c)  =>  sub(V, c - k)
RuleShiftSub(t) ==
  LET s == t.in[1]
      v == s.in[1]
      off == t.in[2].val - s.in[2].val \div ByteBits
  IN IF /\ s.op = "IntLeft" /\ IsConst(s.in[2]) /\ s.in[2].val % ByteBits = 0
        /\ ~is_free(v) /\ off >= 0 /\ off + t.size <= v.size
     THEN {Become(t, t.op, <<v, Const(t.in[2].size, off)>>)} ELSE {}
\* (ext(V) << 8*|W|) | zext(W)  =>  concat(V, W), extended if the result is
\* wider; and the sign bits of V put back above V  =>  sext(V).
RuleShiftPiece(t) ==
  LET i == IF t.in[1].op = "IntLeft" THEN 1 ELSE 2
      shift == t.in[i]
      low == t.in[Other(i)]
      ext == shift.in[1]
      hi == ext.in[1]
      w == low.in[1]
      sa == shift.in[2].val
      concat == sa + Bits(hi.size)
      piece == Op("Piece", concat \div ByteBits, <<hi, w>>)
      v == hi.in[1]
      signs == /\ hi.op = "IntSright" /\ IsConstOf(hi.in[2], Bits(v.size) - 1)
               /\ v.op = "Subpiece" /\ is_const0(v.in[2]) /\ Same(v.in[1], low)
               /\ pcode_right(Nzm(low), sa) = 0 /\ sa = Bits(v.size)
  IN CASE ~IsWritten(low) \/ shift.op # "IntLeft" \/ ~IsConst(shift.in[2]) -> {}
       [] ext.op \notin Extensions \/ is_free(hi) \/ Bits(t.size) < concat  -> {}
       [] low.op # "IntZext"             -> IF signs THEN {Become(t, "IntSext", <<v>>)} ELSE {}
       [] is_free(w) \/ sa # Bits(w.size) -> {}
       [] concat = Bits(t.size)          -> {Become(t, "Piece", <<hi, w>>)}
       [] OTHER                          -> {Become(t, ext.op, <<piece>>)}

\* sext(V) & mask and concat(W, V) & mask  =>  zext(V), for the mask of V.
RuleAndZext(t) ==
  LET s == t.in[1]
      v == s.in[IF s.op = "Piece" THEN 2 ELSE 1]
  IN IF /\ IsConst(t.in[2]) /\ s.op \in {"IntSext", "Piece"}
        /\ t.in[2].val = calc_mask(v.size) /\ ~is_free(v)
     THEN {Become(t, "IntZext", <<v>>)} ELSE {}

\* zext(zext(V))  =>  zext(V);  zext(zext(V) << s)  =>  zext(V) << s
RuleZextShiftZext(t) ==
  LET s == t.in[1]
      z == s.in[1]
  IN CASE s.op = "IntZext" -> IF is_free(z) THEN {} ELSE {Become(t, "IntZext", <<z>>)}
       [] s.op # "IntLeft" \/ z.op # "IntZext" \/ ~IsConst(s.in[2])        -> {}
       [] is_free(z.in[1]) \/ s.in[2].val > Bits(z.size - z.in[1].size)    -> {}
       [] OTHER -> {Become(t, "IntLeft", <<Op("IntZext", t.size, z.in), Const(4, s.in[2].val)>>)}

\* zext(sub(V, c)) back at the size of V  =>  (V >> 8*c) & mask, with any
\* further shift of the truncated value added in.
RuleSubZext(t) ==
  LET s == t.in[1]
      sub == IF s.op = "IntRight" THEN s.in[1] ELSE s
      v == sub.in[1]
      cut == Bits(sub.in[2].val)
      right(sa, csize) == Op("IntRight", v.size, <<v, Const(csize, sa)>>)
      masked(x, val) == {Become(t, "IntAnd", <<x, Const(v.size, val)>>)}
  IN CASE sub.op # "Subpiece" \/ is_free(v) \/ v.size # t.size -> {}
       [] s.op = "IntRight" ->
            IF ~IsConst(s.in[2]) THEN {}
            ELSE masked(right(s.in[2].val + cut, s.in[2].size),
                        pcode_right(calc_mask(sub.size), s.in[2].val))
       [] OTHER -> masked(IF cut = 0 THEN v ELSE right(cut, sub.in[2].size), calc_mask(sub.size))

\* concat(0, W)  =>  zext(W)
RulePiece2Zext(t) == IF is_const0(t.in[1]) THEN {Become(t, "IntZext", <<t.in[2]>>)} ELSE {}

\* concat(V s>> all but the sign, V)  =>  sext(V)
RulePiece2Sext(t) ==
  LET s == t.in[1]
  IN IF s.op = "IntSright" /\ Same(s.in[1], t.in[2]) /\ IsConstOf(s.in[2], Bits(t.in[2].size) - 1)
     THEN {Become(t, "IntSext", <<t.in[2]>>)} ELSE {}

\* A concatenation under a mask that reads none of its high, or low, part.
RuleAndPiece(t) ==
  LET othermask(i) == Nzm(t.in[Other(i)])
      hi(i) == t.in[i].in[1]
      lo(i) == t.in[i].in[2]
      masked(i) == t.in[i].op = "Piece" /\ othermask(i) \notin {0, calc_mask(t.size)}
      nohigh(i) == BitAnd(Nzm(hi(i)), pcode_right(othermask(i), Bits(lo(i).size))) = 0
      nolow(i) == ~nohigh(i) /\ BitAnd(Nzm(lo(i)), othermask(i)) = 0
      dropped(i) == \/ nohigh(i) /\ ~is_const0(hi(i))
                    \/ nolow(i) /\ ~IsConst(lo(i))
      slots == {i \in {1, 2} : masked(i) /\ dropped(i)}
      i == Min(slots)
  IN IF slots = {} THEN {}
     ELSE {[t EXCEPT !.in[i] = IF nohigh(i) THEN Op("IntZext", t.size, <<lo(i)>>)
                               ELSE Op("Piece", t.size, <<hi(i), Const(lo(i).size, 0)>>)]}

\* concat(V op c, W)  =>  concat(V, W) op c', for a bitwise op in either half.
RuleConcatCommute(t) ==
  LET lobits == Bits(t.in[2].size)
      base(i) == t.in[i].in[1]
      c(i) == t.in[i].in[2].val
      up(i) == IF i = 1 THEN pcode_left(c(i), lobits) ELSE c(i)
      rest(i) == IF i = 1 THEN calc_mask(t.in[2].size)
                 ELSE pcode_left(calc_mask(t.in[1].size), lobits)
      val(i) == IF t.in[i].op = "IntAnd" THEN BitOr(up(i), rest(i)) ELSE up(i)
      slots == {i \in {1, 2} : /\ t.in[i].op \in {"IntOr", "IntXor", "IntAnd"}
                               /\ IsConst(t.in[i].in[2])
                               /\ ~is_free(base(i)) /\ ~is_free(t.in[Other(i)])}
      i == Min(slots)
  IN IF slots = {} THEN {}
     ELSE {Become(t, t.in[i].op, <<Op("Piece", t.size, [t.in EXCEPT ![i] = base(i)]), Const(t.size, val(i))>>)}

\* concat(zext(V), W)  =>  zext(concat(V, W))
RuleConcatZext(t) ==
  LET v == t.in[1].in[1]
      w == t.in[2]
  IN IF t.in[1].op = "IntZext" /\ ~is_free(v) /\ ~is_free(w)
     THEN {Become(t, "IntZext", <<Op("Piece", v.size + w.size, <<v, w>>)>>)} ELSE {}

\* zext(V) >> W  =>  zext(V >> W)
RuleZextCommute(t) ==
  LET v == t.in[1].in[1]
  IN IF t.in[1].op = "IntZext" /\ ~is_free(v)
     THEN {Become(t, "IntZext", <<Op("IntRight", v.size, <<v, t.in[2]>>)>>)} ELSE {}

\* concat(V, 0)  =>  zext(V) << 8*|0|
RuleConcatZero(t) ==
  IF is_const0(t.in[2])
  THEN {Become(t, "IntLeft", <<Op("IntZext", t.size, <<t.in[1]>>), Const(4, Bits(t.in[2].size))>>)}
  ELSE {}

\* concat(V, zext(W) << 8*c)  =>  concat(concat(V, W), 0), when W ends at the top.
RuleConcatLeftShift(t) ==
  LET v == t.in[1]
      s == t.in[2]
      z == s.in[1]
      w == z.in[1]
      size == v.size + w.size
  IN CASE s.op # "IntLeft" \/ z.op # "IntZext" \/ ~IsConst(s.in[2]) -> {}
       [] s.in[2].val % ByteBits # 0 \/ is_free(w) \/ is_free(v)    -> {}
       [] s.in[2].val \div ByteBits + w.size # z.size               -> {}
       [] OTHER -> {Become(t, "Piece", <<Op("Piece", size, <<v, w>>), Const(t.size - size, 0)>>)}

\* sub(sub(V, c), d)  =>  sub(V, c + d)
RuleDoubleSub(t) ==
  LET s == t.in[1]
  IN IF s.op = "Subpiece" THEN {Become(t, t.op, <<s.in[1], Const(4, t.in[2].val + s.in[2].val)>>)}
     ELSE {}

\* concat(V, W) >> s  =>  ext(V) >> (s - 8*|W|)
RuleConcatShift(t) ==
  LET c == t.in[1]
      v == c.in[1]
      sa == t.in[2].val - Bits(c.in[2].size)
      ext == IF t.op = "IntRight" THEN "IntZext" ELSE "IntSext"
  IN CASE ~IsConst(t.in[2]) \/ c.op # "Piece"    -> {}
       [] sa < 0 \/ is_free(v)                   -> {}
       [] sa = 0 -> {Become(t, ext, <<v>>)}
       [] OTHER  -> {Become(t, t.op, <<Op(ext, c.size, <<v>>), Const(t.in[2].size, sa)>>)}

\* sub(V, c)  =>  sub(V >> 8*c, 0), unless the reader r is a shift it can join.
JoinsShift(t, r) ==
  /\ r.op \in {"IntRight", "IntSright"} /\ IsConst(r.in[2])
  /\ t.size + t.in[2].val = t.in[1].size

RuleSubRight(t, r) ==
  LET a == t.in[1]
      c == t.in[2].val
  IN IF c = 0 \/ JoinsShift(t, r) THEN {}
     ELSE {Become(t, t.op, <<Op("IntRight", a.size, <<a, Const(4, Bits(c))>>), Const(4, 0)>>)}

\* sub(V, c) >> s  =>  sub(V >> (8*c + s), 0), for the truncation in slot i of r.
RuleSubRightShift(r, i) ==
  LET t == r.in[i]
      a == t.in[1]
      d == Bits(t.in[2].val) + r.in[2].val
      sa == IF d >= Bits(a.size) THEN Bits(a.size) - 1 ELSE d
  IN IF /\ t.in[2].val # 0 /\ JoinsShift(t, r)
        /\ ~(d >= Bits(a.size) /\ r.op = "IntRight")
     THEN {Become(r, "Subpiece", <<Op(r.op, a.size, <<a, Const(4, sa)>>), Const(4, 0)>>)} ELSE {}

\* sub(V >> n, c): the whole bytes of the shift move into the truncation.
RuleSubNormal(t) ==
  LET s == t.in[1]
      a == s.in[1]
      n0 == s.in[2].val
      c0 == t.in[2].val
      k0 == n0 \div ByteBits
      whole == n0 = Bits(k0)
      trunc == a.size - c0 - k0
      short == k0 + c0 + t.size > a.size
      k == IF short THEN a.size - c0 - t.size ELSE k0
      c == Const(4, c0 + k)
      n == n0 - Bits(k)
      ext == IF s.op = "IntSright" THEN "IntSext" ELSE "IntZext"
      limit == IF s.op = "IntSright" THEN Bits(t.size) - 1 ELSE Bits(t.size)
  IN CASE s.op \notin {"IntRight", "IntSright"}                       -> {}
       [] ~IsConst(s.in[2]) \/ is_free(a)                             -> {}
       [] n0 + Bits(c0) + Bits(t.size) < Bits(a.size) /\ ~whole       -> {}
       [] short /\ whole /\ trunc > 0 /\ popcount(trunc) = 1 ->
            {Become(t, ext, <<Op("Subpiece", trunc, <<a, Const(4, c0 + k0)>>)>>)}
       [] n = 0 -> {Become(t, t.op, <<a, c>>)}
       [] OTHER -> {Become(t, s.op, <<Op("Subpiece", t.size, <<a, c>>),
                                      Const(4, IF n >= Bits(t.size) THEN limit ELSE n)>>)}

\* Both operands of a division are extended from no more than the wider of
\* them: the division is done at that size.
cancel_extensions(t, long) ==
  LET in(i) == long.in[i].in[1]
      size == Max({in(1).size, in(2).size})
      input(i) == IF in(i).size = size THEN in(i) ELSE Op(long.in[i].op, size, long.in[i].in)
  IN IF \E i \in {1, 2} : in(i).size = size /\ is_free(in(i)) THEN {}
     ELSE {Become(t, t.op, <<Op(long.op, size, <<input(1), input(2)>>), t.in[2]>>)}

\* A truncated division can be done on the truncated operands: both are
\* extended from no more than what is kept, or the divisor is a constant that
\* survives the truncation.
DividesSmall(t, long) ==
  LET signed == long.op \in {"IntSdiv", "IntSrem"}
      k == long.in[2]
      small == BitAnd(k.val, calc_mask(t.size))
      kept == IF signed THEN Signed(small, t.size) % 2^Bits(long.size) ELSE small
  IN IF IsConst(k) THEN long.in[1].in[1].size <= t.size /\ k.val = kept
     ELSE long.in[1].in[1].size <= t.size /\ long.in[2].in[1].size <= t.size

\* sub(V op W, c)  =>  sub(V, c) op sub(W, c), unless the reader r restores
\* the size.
RuleSubCommute(t, r) ==
  LET long == t.in[1]
      off == t.in[2].val
      ext == IF long.op \in {"IntSdiv", "IntSrem"} THEN "IntSext" ELSE "IntZext"
      divides == long.op \in {"IntDiv", "IntRem", "IntSdiv", "IntSrem"}
      extended == /\ long.in[1].op = ext
                  /\ IsConst(long.in[2]) \/ long.in[2].op = ext
      restored == off = 0 /\ r.op = "IntZext" /\ r.size = long.size
      sub(vn) == Op("Subpiece", t.size, <<vn, Const(4, off)>>)
      input(i) == IF long.op = "IntLeft" /\ i = 2 THEN long.in[2] ELSE sub(long.in[i])
      commute == {Become(t, long.op, [i \in DOMAIN long.in |-> input(i)])}
  IN CASE long.op \notin {"IntLeft", "IntDiv", "IntRem", "IntSdiv", "IntSrem", "IntAdd", "IntMult",
                          "IntNegate", "IntXor", "IntAnd", "IntOr"} -> {}
       [] off # 0 /\ long.op \notin {"IntNegate", "IntXor", "IntAnd", "IntOr"} -> {}
       [] long.op = "IntLeft" /\ long.in[1].op \notin {"IntZext", "Piece"} -> {}
       [] divides /\ ~extended -> {}
       [] divides /\ ~DividesSmall(t, long) ->
            IF IsConst(long.in[2]) THEN {} ELSE cancel_extensions(t, long)
       [] restored -> {}
       [] OTHER -> commute
=============================================================================
