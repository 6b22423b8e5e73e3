------------------------------ MODULE RulesSign ------------------------------
(***************************************************************************)
(* Rewrite rules on sign bits (decompile/rules.rs).  See RulesArith for    *)
(* how a rule is written.                                                  *)
(***************************************************************************)
EXTENDS NzMask, SequencesExt

\* The shift that leaves only the sign.
SignBit(vn) == Bits(vn.size) - 1

\* sub(sext(V), c) above V  =>  V s>> all but the sign
RuleSignForm(t) ==
  LET v == t.in[1].in[1]
  IN IF t.in[1].op = "IntSext" /\ t.in[2].val >= v.size /\ ~is_free(v)
     THEN {Become(t, "IntSright", <<v, Const(4, SignBit(v))>>)} ELSE {}

\* V >> all but the sign  =>  (V s>> all but the sign) * -1, for the reader r
\* that computes with it.
RuleSignShift(t, r) ==
  LET v == t.in[1]
      arithmetic == \/ r.op \in {"IntAdd", "IntMult"}
                    \/ r.op \in {"IntEqual", "IntNotequal"} /\ IsConst(r.in[2])
  IN IF IsConstOf(t.in[2], SignBit(v)) /\ ~is_free(v) /\ arithmetic
     THEN {Become(t, "IntMult", <<Op("IntSright", v.size, t.in), Const(v.size, calc_mask(v.size))>>)}
     ELSE {}

\* (V s>> all but the sign) == 0  =>  0 s<= V, for the shift in slot i of c.
RuleTestSign(c, i) ==
  LET v == c.in[i].in[1]
      k == c.in[2]
      zero == Const(v.size, 0)
      positive == (k.val = 0) = (c.op = "IntEqual")
  IN IF /\ IsConstOf(c.in[i].in[2], SignBit(v)) /\ ~is_free(v)
        /\ c.op \in {"IntEqual", "IntNotequal"} /\ IsConst(k)
        /\ k.val \in {0, calc_mask(c.in[1].size)}
     THEN {IF positive THEN Become(c, "IntSlessequal", <<zero, v>>)
           ELSE Become(c, "IntSless", <<v, zero>>)}
     ELSE {}

\* The sign of the top half of sext(V) * W is the sign of V.  The code makes
\* this change without counting it.
RuleSignForm2(t) ==
  LET sub == t.in[1]
      size == sub.size
      mult == sub.in[1]
      s == IF mult.in[1].op = "IntSext" THEN 1 ELSE 2
      v == mult.in[s].in[1]
      w == mult.in[Other(s)]
  IN IF /\ IsConstOf(t.in[2], SignBit(sub)) /\ sub.op = "Subpiece"
        /\ sub.in[2].val + size = mult.size /\ mult.op = "IntMult"
        /\ mult.in[s].op = "IntSext" /\ ~is_free(v) /\ v.size = size
        /\ \/ IsConst(w) /\ w.val <= calc_mask(size) /\ 2 * size <= mult.size
           \/ w.op = "IntZext" /\ w.in[1].size + size <= mult.size
     THEN {[t EXCEPT !.in[1] = v]} ELSE {}
=============================================================================
