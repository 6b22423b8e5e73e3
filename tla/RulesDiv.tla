------------------------------ MODULE RulesDiv ------------------------------
(***************************************************************************)
(* Division and remainder recovered from the multiplications, shifts and   *)
(* sign corrections that compilers emit for them (decompile/divopt.rs).    *)
(* Constants wider than a machine word are not modelled.                   *)
(***************************************************************************)
EXTENDS NzMask

MinusOne(vn) == IsConstOf(vn, calc_mask(vn.size))

\* V s>> (bits - 1), the sign of V in every bit.
IsSign(vn) == /\ vn.op = "IntSright"
              /\ IsConstOf(vn.in[2], Bits(vn.in[1].size) - 1)

\* check_sign_extraction: the values of which vn is the sign.
check_sign_extraction(vn) == IF IsSign(vn) THEN {vn.in[1]} ELSE {}

-----------------------------------------------------------------------------
\* The d for which x * magic >> n is x / d for every x of xsize bits, or 0.
calc_divisor(n, magic, xsize) ==
  LET y == magic - 1
      power == 2^n
      down == power \div y
      rem == power % y
      up == rem >= down
      q == IF up THEN down + 1 ELSE down
      r == IF up THEN rem - y + q ELSE rem
      diff == ((IF up THEN q ELSE 0) + q - r) % 2^Bits(WordBytes)
      reach == power \div diff
  IN CASE n > 2 * Bits(WordBytes) - 1 \/ xsize > Bits(WordBytes) \/ magic <= 1 -> 0
       [] down > WordMask \/ y < down           -> 0
       [] up /\ r < 0                           -> 0
       [] diff = 0 \/ reach > WordMask          -> q
       [] reach <= 2^xsize - 1                  -> 0
       [] OTHER                                 -> q

\* A product by a constant, cut and shifted by t: the forms (at most one)
\* [in: what is divided, n: the shift, y: the constant, xsize: the bits of
\* what is multiplied, ext: how it was extended].
find_form(t) ==
  LET shifts == t.op # "Subpiece"
      cut == IF shifts THEN t.in[1] ELSE t
      cuts == cut.op = "Subpiece"
      mult == IF cuts THEN cut.in[1] ELSE cut
      n == (IF shifts THEN t.in[2].val ELSE 0) + (IF cuts THEN Bits(cut.in[2].val) ELSE 0)
      k == IF IsConst(mult.in[1]) THEN 1 ELSE 2
      v == mult.in[Other(k)]
      extended == v.op \in {"IntZext", "IntSext"}
      ext == IF v.op = "IntSext" THEN "IntSext" ELSE "IntZext"
      bits == mostsigbit_set(IF v.op = "IntZext" THEN v.in[1].nz ELSE v.nz) + 1
      xsize == IF ext = "IntSext" THEN Bits(v.in[1].size) ELSE bits
      mismatch == shifts /\ (ext = "IntSext") # (t.op = "IntSright")
  IN IF /\ shifts => IsConst(t.in[2])
        /\ cuts => cut.size + cut.in[2].val = mult.size
        /\ mult.op = "IntMult" /\ IsWritten(mult.in[1]) /\ IsConst(mult.in[k]) /\ IsWritten(v)
        /\ ext = "IntZext" => xsize > 0 /\ xsize <= Bits(v.size) \div 2
        /\ extended => ~is_free(v.in[1])
        /\ mismatch => Bits(t.size) - n = xsize
     THEN {[in |-> IF extended /\ v.size # t.size THEN v.in[1] ELSE v,
            n |-> n, y |-> mult.in[k].val, xsize |-> xsize, ext |-> ext]}
     ELSE {}

\* check_form_overlap: the cut is part of a form that its reader r completes.
check_form_overlap(t, r) ==
  /\ t.op = "Subpiece" /\ r.op \in {"IntRight", "IntSright"}
  /\ ~IsConst(r.in[2]) \/ find_form(r) # {}

\* The divisor of a form (at most one).
FormDivisor(t, r) ==
  IF check_form_overlap(t, r) THEN {}
  ELSE {[form |-> f, d |-> calc_divisor(f.n, f.y, f.xsize - (IF f.ext = "IntSext" THEN 1 ELSE 0))] :
          f \in find_form(t)}

Extended(f, size) == IF f.in.size < size THEN Op(f.ext, size, <<f.in>>) ELSE f.in

\* ext(V) * c >> n  =>  V / d, a signed one corrected by the sign of V.
RuleDivOpt(t, r) ==
  LET size(f) == IF f.in.size > t.size THEN f.in.size ELSE t.size
      divided(fd) ==
        LET v == Extended(fd.form, t.size)
            s == size(fd.form)
            d == Const(s, fd.d)
        IN IF fd.form.ext = "IntZext" THEN [op |-> "IntDiv", in |-> <<v, d>>]
           ELSE [op |-> "IntAdd", in |-> <<Op("IntSdiv", s, <<v, d>>),
                                           Op("IntSright", s, <<v, Const(s, Bits(s) - 1)>>)>>]
      new(fd) == IF size(fd.form) = t.size THEN Become(t, divided(fd).op, divided(fd).in)
                 ELSE Become(t, "Subpiece",
                             <<Op(divided(fd).op, size(fd.form), divided(fd).in), Const(4, 0)>>)
      moved(f) == /\ f.ext = "IntSext" /\ f.in.size <= t.size /\ r.op \in {"IntRight", "IntSright"}
                  /\ r.in[1] = t /\ IsConstOf(r.in[2], Bits(t.size) - 1)
  IN {new(fd) : fd \in {fd \in FormDivisor(t, r) : fd.d # 0 /\ ~moved(fd.form)}}

\* move_sign_bit_extraction: a reader r that takes the sign of the signed
\* quotient takes it from the dividend.
RuleDivOptSign(r, i) ==
  LET t == r.in[i]
  IN IF r.op \in {"IntRight", "IntSright"} /\ i = 1 /\ IsConstOf(r.in[2], Bits(t.size) - 1)
     THEN {Become(r, r.op, <<Extended(fd.form, t.size), r.in[2]>>) :
             fd \in {fd \in FormDivisor(t, r) : /\ fd.d # 0 /\ fd.form.ext = "IntSext"
                                                /\ fd.form.in.size <= t.size}}
     ELSE {}

\* V + (V / d) * -d  =>  V % d, for the quotient in slot j of the product in
\* slot i of the sum.
RuleModOpt(sum, i, j) ==
  LET mult == sum.in[i]
      quotient == mult.in[j]
      v == quotient.in[1]
      d == quotient.in[2]
      k == mult.in[Other(j)]
      cancels == IF IsConst(k) THEN IsConst(d) /\ Neg(k.val, k.size) = d.val
                 ELSE k.op = "Int2comp" /\ Same(k.in[1], d)
  IN IF mult.op = "IntMult" /\ cancels /\ sum.op = "IntAdd" /\ Same(sum.in[Other(i)], v)
     THEN {Become(sum, IF quotient.op = "IntDiv" THEN "IntRem" ELSE "IntSrem", <<v, d>>)} ELSE {}

-----------------------------------------------------------------------------
\* The values v of which the product of the sum, in either slot, is
\* -(v s>> (bits - 1)), v being what it is added to (check_sign_ext_form).
check_sign_ext_form(sum) ==
  {sum.in[Other(i)] : i \in {i \in {1, 2} :
     LET mult == sum.in[i]
     IN mult.op = "IntMult" /\ MinusOne(mult.in[2]) /\ IsSign(mult.in[1])
        /\ Same(mult.in[1].in[1], sum.in[Other(i)])}}

\* (V - (V s>> 31)) s>> 1  =>  V s/ 2
RuleSignDiv2(t) ==
  IF IsConstOf(t.in[2], 1) /\ t.in[1].op = "IntAdd"
  THEN {Become(t, "IntSdiv", <<v, Const(v.size, 2)>>) : v \in check_sign_ext_form(t.in[1])} ELSE {}

\* (V / c) / d  =>  V / (c * d), and (V >> n) / d, where the product fits.
RuleDivChain(t) ==
  LET inner == t.in[1]
      size == inner.size
      same == inner.op = t.op
      val1 == IF same THEN inner.in[2].val ELSE pcode_left(1, inner.in[2].val)
      val2 == t.in[2].val
      res == (val1 * val2) % 2^Bits(size)
      abs(v) == IF signbit_negative(v, size) THEN Neg(v, size) ELSE v
      bitcount == mostsigbit_set(abs(val1)) + mostsigbit_set(abs(val2)) + 2
  IN IF /\ IsConst(t.in[2]) /\ IsWritten(inner)
        /\ same \/ (t.op = "IntDiv" /\ inner.op = "IntRight")
        /\ IsConst(inner.in[2]) /\ ~is_free(inner.in[1])
        /\ res # 0 /\ bitcount <= Bits(size) - (IF t.op = "IntSdiv" THEN 2 ELSE 0)
     THEN {Become(t, t.op, <<inner.in[1], Const(size, res)>>)} ELSE {}

\* (V + (sign of V >> (bits - n))) & -2^n  =>  (V s/ 2^n) * 2^n
RuleSignNearMult(t) ==
  LET sum == t.in[1]
      slots == {i \in {1, 2} : sum.in[i].op = "IntRight" /\ IsConst(sum.in[i].in[2])}
      i == Min(slots)
      unshift == sum.in[i]
      v == sum.in[Other(i)]
      n == Bits(unshift.size) - unshift.in[2].val
      mask == (calc_mask(unshift.size) * 2^n) % 2^Bits(unshift.size)
      pow == Const(v.size, 2^n)
  IN IF /\ IsConst(t.in[2]) /\ sum.op = "IntAdd" /\ slots # {} /\ ~is_free(v)
        /\ unshift.in[2].val > 0 /\ n > 0 /\ t.in[2].val = mask
        /\ IsSign(unshift.in[1]) /\ Same(unshift.in[1].in[1], v)
     THEN {Become(t, "IntMult", <<Op("IntSdiv", v.size, <<v, pow>>), pow>>)} ELSE {}

\* -((V - (V s>> 31)) & -2) + V  =>  V s% 2, for the product in slot i.
RuleSignMod2nOpt2(sum, i) ==
  LET mult == sum.in[i]
      and == mult.in[1]
      npow == (2^Bits(WordBytes) - and.in[2].val) % 2^Bits(mult.in[2].size)
  IN IF /\ MinusOne(mult.in[2]) /\ and.op = "IntAnd" /\ IsConst(and.in[2]) /\ npow = 2
        /\ and.in[1].op = "IntAdd" /\ sum.op = "IntAdd"
     THEN {Become(sum, "IntSrem", <<v, Const(v.size, npow)>>) :
             v \in {v \in check_sign_ext_form(and.in[1]) : Same(sum.in[Other(i)], v)}}
     ELSE {}

\* The value that vn is a truncation of, from the given byte on.
Cut(vn, from) ==
  IF vn.op = "Subpiece" /\ IsConstOf(vn.in[2], from) THEN {vn.in[1]} ELSE {}

\* ((V - (V s>> 31)) & 1) + (V s>> 31)  =>  V s% 2, for the AND in slot i; or
\* the AND takes the low part of V and the sign of its high part, and what is
\* in slot i is its extension.
RuleSignMod2Opt(sum, i) ==
  LET cut == sum.in[i].op = "IntZext"
      and == IF cut THEN sum.in[i].in[1] ELSE sum.in[i]
      diff == and.in[1]
      k == Min({k \in {1, 2} : diff.in[k].op = "IntMult" /\ MinusOne(diff.in[k].in[2])})
      sign == check_sign_extraction(diff.in[k].in[1])
      low == diff.in[Other(k)]
      parts(h) == Cut(low, 0) \cap Cut(h, IF h.op = "Subpiece" THEN h.in[1].size - h.size ELSE 0)
      base == IF cut THEN UNION {parts(h) : h \in sign \ {low}} ELSE sign \cap {low}
  IN IF /\ and.op = "IntAnd" /\ IsConstOf(and.in[2], 1) /\ diff.op = "IntAdd" /\ sum.op = "IntAdd"
        /\ \E j \in {1, 2} : diff.in[j].op = "IntMult" /\ MinusOne(diff.in[j].in[2])
     THEN {Become(sum, "IntSrem", <<v, Const(v.size, 2)>>) :
             v \in {v \in base : ~is_free(v) /\ v \in check_sign_extraction(sum.in[Other(i)])}}
     ELSE {}

\* ((V + s) & (2^n - 1)) - s  =>  V s% 2^n, where s is the sign of V shifted
\* down to n bits; s is the first factor of the product in slot i of the sum.
\* The AND may be of the low part of V and the sign of the high part, extended.
RuleSignMod2nOpt(sum, i) ==
  LET mult == sum.in[i]
      correct == mult.in[1]
      amount == correct.in[2].val
      other == sum.in[Other(i)]
      cut == other.op = "IntZext"
      and == IF cut THEN other.in[1] ELSE other
      add == and.in[1]
      mask(v) == 2^(Bits(v.size) - amount) - 1
      whole(vn, from) == IF cut THEN Cut(vn, from) ELSE {vn}
      corrected(v, s) ==
        /\ v \in whole(add.in[Other(s)], 0) /\ add.in[s].op = "IntRight"
        /\ IsConstOf(add.in[s].in[2], amount - Bits(v.size - and.size))
        /\ \E h \in check_sign_extraction(add.in[s].in[1]) : v \in whole(h, and.size)
  IN IF /\ mult.op = "IntMult" /\ MinusOne(mult.in[2]) /\ sum.op = "IntAdd"
        /\ IsConst(correct.in[2]) /\ and.op = "IntAnd" /\ add.op = "IntAdd"
     THEN {Become(sum, "IntSrem", <<v, Const(v.size, mask(v) + 1)>>) :
             v \in {v \in check_sign_extraction(correct.in[1]) :
                      /\ ~is_free(v) /\ IsConstOf(and.in[2], mask(v))
                      /\ \E s \in {1, 2} : corrected(v, s)}}
     ELSE {}

\* (ext(V) * b >> n) + V  =>  ext(V) * (b + 2^n) >> n, for the shifted product
\* in slot i of the sum.
RuleDivTermAdd(sum, i) ==
  LET t == sum.in[i]
      cut == IF t.op = "Subpiece" THEN t ELSE t.in[1]
      mult == cut.in[1]
      ext == mult.in[1]
      n == Bits(cut.in[2].val) + (IF t.op = "Subpiece" THEN 0 ELSE t.in[2].val)
      shift == IF t.op = "Subpiece" THEN "IntRight" ELSE t.op
      factor == (mult.in[2].val + 2^n) % 2^Bits(WordBytes)
      product == Op("IntMult", ext.size, <<ext, Const(ext.size, factor)>>)
  IN IF /\ cut.op = "Subpiece" /\ cut.size + cut.in[2].val = mult.size
        /\ t.op = "Subpiece" \/ IsConst(t.in[2])
        /\ mult.op = "IntMult" /\ IsConst(mult.in[2]) /\ IsWritten(ext)
        /\ ~(ext.op = "IntZext" /\ t.op = "IntSright") /\ ~(ext.op = "IntSext" /\ t.op = "IntRight")
        /\ sum.op = "IntAdd" /\ \E j \in {1, 2} : Same(sum.in[j], ext.in[1])
     THEN {Become(sum, "Subpiece", <<Op(shift, ext.size, <<product, Const(4, n)>>), Const(4, 0)>>)}
     ELSE {}
=============================================================================
