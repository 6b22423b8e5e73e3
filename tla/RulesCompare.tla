---------------------------- MODULE RulesCompare ----------------------------
(***************************************************************************)
(* Rewrite rules on comparisons (decompile/rules.rs).  See RulesArith for  *)
(* how a rule is written.                                                  *)
(***************************************************************************)
EXTENDS NzMask, SequencesExt

\* x is -u: the multiplication of u by all ones.
IsNegated(vn) == vn.op = "IntMult" /\ IsConstOf(vn.in[2], calc_mask(vn.in[1].size))

\* a - b == 0  =>  a == b, and the same for a + k and a + -b.
RuleEqual2Zero(t) ==
  LET zero == IF is_const0(t.in[2]) THEN 2 ELSE 1
      sum == t.in[Other(zero)]
      a == sum.in[1]
      b == sum.in[2]
      compare(x, y) == {Become(t, t.op, <<x, y>>)}
  IN CASE ~is_const0(t.in[zero]) \/ sum.op \notin {"IntSub", "IntAdd"} -> {}
       [] sum.op = "IntSub" -> compare(a, b)
       [] IsConst(b)        -> compare(a, Const(b.size, Neg(b.val, b.size)))
       [] IsNegated(a)      -> compare(b, a.in[1])
       [] IsNegated(b)      -> compare(a, b.in[1])
       [] OTHER             -> {}

SameOperands(s, t) ==
  \/ s.in[1] = t.in[1] /\ s.in[2] = t.in[2]
  \/ s.in[1] = t.in[2] /\ s.in[2] = t.in[1]

OrEqual(opc) == IF opc = "IntSless" THEN "IntSlessequal" ELSE "IntLessequal"
Strict(opc) == IF opc = "IntSlessequal" THEN "IntSless" ELSE "IntLess"

\* a < b || a == b  =>  a <= b;  a < b || a != b  =>  a != b
RuleLessEqual(t) ==
  LET less(i) == /\ t.in[i].op \in {"IntLess", "IntSless"}
                 /\ t.in[Other(i)].op \in {"IntEqual", "IntNotequal"}
      i == IF less(1) THEN 1 ELSE 2
      l == t.in[i]
      e == t.in[Other(i)]
  IN CASE ~less(i) \/ ~SameOperands(l, e) -> {}
       [] e.op = "IntNotequal" -> {Copy(t, e)}
       [] OTHER                -> {Become(t, OrEqual(l.op), l.in)}

\* a <= b && a != b  =>  a < b
RuleLessNotEqual(t) ==
  LET i == IF t.in[1].op \in {"IntLessequal", "IntSlessequal"} THEN 1 ELSE 2
      l == t.in[i]
      e == t.in[Other(i)]
  IN IF /\ IsWritten(t.in[1]) /\ IsWritten(t.in[2])
        /\ l.op \in {"IntLessequal", "IntSlessequal"}
        /\ e.op = "IntNotequal" /\ SameOperands(l, e)
     THEN {Become(t, Strict(l.op), l.in)} ELSE {}

\* (v | w) == 0  =>  v == 0 && w == 0, for the OR in the first slot of c.
RuleOrCompare(c, i) ==
  LET v == c.in[i].in[1]
      w == c.in[i].in[2]
      test(x) == Op(c.op, 1, <<x, Const(x.size, 0)>>)
  IN IF /\ c.op \in {"IntEqual", "IntNotequal"} /\ i = 1 /\ is_const0(c.in[2])
        /\ ~is_free(v) /\ ~is_free(w)
     THEN {Become(c, IF c.op = "IntEqual" THEN "BoolAnd" ELSE "BoolOr", <<test(v), test(w)>>)}
     ELSE {}

\* The shift a multiplication or division by a power of two is, 0 if none.
Log2(v) == IF v # 0 /\ v = 2^leastsigbit_set(v) THEN leastsigbit_set(v) ELSE 0

\* V << s == c  =>  V == c >> s, masking the bits V loses; V >> s == c
\* =>  V == c << s where no bit is lost.
RuleShiftCompare(t) ==
  LET s == t.in[1]
      k == t.in[2]
      left == s.op \in {"IntLeft", "IntMult"}
      sa == IF s.op \in {"IntLeft", "IntRight"} THEN s.in[2].val ELSE Log2(s.in[2].val)
      v == s.in[1]
      nz == Nzm(v)
      up(x) == BitAnd(pcode_left(x, sa), calc_mask(s.size))
      compare(x, val) == {Become(t, t.op, <<x, Const(k.size, val)>>)}
      masked == Op("IntAnd", k.size, <<v, Const(k.size, 2^(Bits(s.size) - sa) - 1)>>)
  IN CASE ~IsConst(k) \/ s.op \notin {"IntLeft", "IntRight", "IntMult", "IntDiv"} -> {}
       [] ~IsConst(s.in[2]) \/ sa = 0 \/ is_free(v) -> {}
       [] left  -> CASE pcode_left(pcode_right(k.val, sa), sa) # k.val -> {}
                     [] pcode_right(up(nz), sa) = nz -> compare(v, pcode_right(k.val, sa))
                     [] OTHER                        -> compare(masked, pcode_right(k.val, sa))
       [] OTHER -> IF /\ pcode_left(pcode_right(nz, sa), sa) = nz
                      /\ pcode_right(up(k.val), sa) = k.val
                   THEN compare(v, up(k.val)) ELSE {}

\* The slot of an extension compared with a constant, 0 if there is none.
ZextSlot(t) ==
  CASE t.in[2].op = "IntZext" -> IF IsConst(t.in[1]) THEN 2 ELSE 0
    [] t.in[1].op = "IntZext" -> IF IsConst(t.in[2]) THEN 1 ELSE 0
    [] OTHER                  -> 0

\* The comparison opc at the size before the extension in slot z.
CompareSmall(t, z, opc) ==
  LET small == t.in[z].in[1]
      k == Const(small.size, t.in[Other(z)].val)
  IN Become(t, opc, IF z = 1 THEN <<small, k>> ELSE <<k, small>>)

\* mutant: any constant
ZextEliminateAny(t) ==
  LET z == ZextSlot(t) IN IF z # 0 THEN {CompareSmall(t, z, t.op)} ELSE {}

\* zext(V) == c  =>  V == c, when c fits V.
RuleZextEliminate(t) ==
  LET z == ZextSlot(t)
  IN IF z # 0 /\ t.in[Other(z)].val \div 2^Bits(t.in[z].in[1].size) = 0
     THEN {CompareSmall(t, z, t.op)} ELSE {}

\* zext(V) s< c  =>  V < c, when c is a positive number that fits V.
RuleZextSless(t) ==
  LET z == ZextSlot(t)
  IN IF z # 0 /\ t.in[Other(z)].val \div 2^(Bits(t.in[z].in[1].size) - 1) = 0
     THEN {CompareSmall(t, z, IF t.op = "IntSless" THEN "IntLess" ELSE "IntLessequal")}
     ELSE {}

\* Neither side can be negative: the comparison is unsigned.
RuleSlessToLess(t) ==
  LET negative(vn) == BitAnd(Nzm(vn), 2^(Bits(t.in[1].size) - 1)) # 0
  IN IF negative(t.in[1]) \/ negative(t.in[2]) THEN {}
     ELSE {Become(t, IF t.op = "IntSless" THEN "IntLess" ELSE "IntLessequal", t.in)}

\* V ^ W == 0  =>  V == W;  V ^ c == d  =>  V == c ^ d
RuleXorCollapse(t) ==
  LET x == t.in[1]
      k == t.in[2]
      w == x.in[2]
  IN CASE ~IsConst(k) \/ x.op # "IntXor"       -> {}
       [] is_free(x.in[1]) \/ is_const0(w)     -> {}
       [] IsConst(w) -> {Become(t, t.op, <<x.in[1], Const(k.size, BitXor(k.val, w.val))>>)}
       [] k.val = 0  -> {Become(t, t.op, <<x.in[1], w>>)}
       [] OTHER      -> {}

\* (sub(V, c) & d) == 0 and (zext(V) & d) == 0  =>  (V & d') == 0
RuleAndCompare(t) ==
  LET and == t.in[1]
      sub == and.in[1]
      v == sub.in[1]
      d == and.in[2].val
      moved == IF sub.op = "Subpiece" THEN pcode_left(d, Bits(sub.in[2].val))
               ELSE BitAnd(d, calc_mask(v.size))
  IN IF /\ is_const0(t.in[2]) /\ and.op = "IntAnd" /\ IsConst(and.in[2])
        /\ sub.op \in {"Subpiece", "IntZext"} /\ ~is_free(v)
        /\ d # calc_mask(and.size)
     THEN {Become(t, t.op, <<Op("IntAnd", v.size, <<v, Const(v.size, moved)>>), Const(v.size, 0)>>)}
     ELSE {}

\* The bounds of the unsigned order.
RuleLessEqual2Zero(t) ==
  LET l == t.in[1]
      r == t.in[2]
      true == {Copy(t, Const(1, 1))}
      equal == {Become(t, "IntEqual", t.in)}
  IN CASE is_const0(l)                        -> true
       [] IsConstOf(l, calc_mask(l.size))     -> equal
       [] IsConst(l)                          -> {}
       [] is_const0(r)                        -> equal
       [] IsConstOf(r, calc_mask(r.size))     -> true
       [] OTHER                               -> {}

\* carry(V, c)  =>  -c <= V
RuleCarryElim(t) ==
  LET v == t.in[1]
      k == t.in[2]
  IN CASE ~IsConst(k) \/ is_free(v) -> {}
       [] k.val = 0 -> {Copy(t, Const(1, 0))}
       [] OTHER     -> {Become(t, "IntLessequal", <<Const(v.size, Neg(k.val, k.size)), v>>)}

\* V <= c  =>  V < c + 1;  c <= V  =>  c - 1 < V.  The signed bound is computed
\* on the whole word, so it overflows only for a constant as wide as that.
replace_lessequal(t) ==
  LET i == IF IsConst(t.in[1]) THEN 1 ELSE 2
      k == t.in[i]
      diff == IF i = 1 THEN -1 ELSE 1
      val == Signed(k.val, k.size)
      \* wrapping_add on the word
      sum == Signed((val + diff) % 2^Bits(WordBytes), WordBytes)
      overflows == IF t.op = "IntSlessequal" THEN (val < 0 /\ sum > 0) \/ (val > 0 /\ sum < 0)
                   ELSE (diff = -1 /\ val = 0) \/ (diff = 1 /\ val = -1)
  IN IF ~IsConst(k) \/ overflows THEN {}
     ELSE {[Become(t, Strict(t.op), t.in) EXCEPT !.in[i] = Const(k.size, sum % 2^Bits(k.size))]}

RuleIntLessEqual(t) == replace_lessequal(t)

RuleLess2Zero(t) ==
  LET l == t.in[1]
      r == t.in[2]
      false == {Copy(t, Const(1, 0))}
      differ == {Become(t, "IntNotequal", t.in)}
  IN CASE is_const0(l)                    -> differ
       [] IsConstOf(l, calc_mask(l.size)) -> false
       [] IsConst(l)                      -> {}
       [] is_const0(r)                    -> false
       [] IsConstOf(r, calc_mask(r.size)) -> differ
       [] OTHER                           -> {}

\* V < 1  =>  V == 0;  V <= 0  =>  V == 0
RuleLessOne(t) ==
  LET k == t.in[2]
  IN IF IsConstOf(k, IF t.op = "IntLess" THEN 1 ELSE 0)
     THEN {Become(t, "IntEqual", <<t.in[1], Const(k.size, 0)>>)} ELSE {}

\* The operand of a sum or bitwise operation that alone decides its sign, if any.
get_hi_bit(vn) ==
  LET top == 2^(Bits(vn.in[1].size) - 1)
      ok(x) == Nzm(x) = top \/ BitAnd(Nzm(x), top) = 0
      deciding == {i \in {1, 2} : Nzm(vn.in[i]) = top}
  IN IF /\ vn.op \in {"IntAdd", "IntOr", "IntXor"}
        /\ ok(vn.in[1]) /\ ok(vn.in[2]) /\ deciding # {}
     THEN {vn.in[Min(deciding)]} ELSE {}

\* A sign test, -1 s< V or V s< 0, moves to the varnode that holds the sign.
RuleSLess2Zero(t) ==
  LET positive == IsConst(t.in[1])
      bound == t.in[IF positive THEN 1 ELSE 2]
      v == t.in[IF positive THEN 2 ELSE 1]
      x == v.in[1]
      y == v.in[2]
      test(a, pos) == {Become(t, "IntSless", IF pos THEN <<Const(a.size, calc_mask(a.size)), a>>
                                             ELSE <<a, Const(a.size, 0)>>)}
      hibit(h) == IF positive THEN Become(t, "IntEqual", <<Const(h.size, 0), h>>)
                  ELSE Become(t, "IntNotequal", <<h, bound>>)
  IN CASE ~IsWritten(v) \/ ~IsConstOf(bound, IF positive THEN calc_mask(bound.size) ELSE 0) -> {}
       [] get_hi_bit(v) # {} -> {hibit(h) : h \in get_hi_bit(v)}
       [] v.op = "IntLeft" -> IF /\ positive /\ IsConstOf(y, Bits(bound.size) - 1)
                                 /\ x.op \in BoolOutput
                              THEN {Become(t, "BoolNegate", <<x>>)} ELSE {}
       [] v.op \notin {"Subpiece", "IntNegate", "IntAnd", "Piece"} \/ is_free(x) -> {}
       [] v.op = "Subpiece"  -> IF v.size + y.val = x.size THEN test(x, positive) ELSE {}
       [] v.op = "IntNegate" -> test(x, ~positive)
       [] v.op = "Piece"     -> test(x, positive)
       [] v.op = "IntAnd"    -> IF IsConst(y) /\ (y.val \div 2^(Bits(x.size) - 1)) % 2 = 1
                                THEN test(x, positive) ELSE {}

\* V + c == d  =>  V == d - c;  V * -1 == d  =>  V == -d;  ~V == d  =>  V == ~d
RuleEqual2Constant(t) ==
  LET s == t.in[1]
      k == t.in[2].val
      y == s.in[2]
      compare(val) == {Become(t, t.op, <<s.in[1], Const(s.in[1].size, val % 2^Bits(s.size))>>)}
  IN CASE ~IsConst(t.in[2]) \/ s.op \notin {"IntAdd", "IntMult", "IntNegate"} -> {}
       [] is_free(s.in[1])     -> {}
       [] s.op = "IntNegate"   -> compare(BitNot(k))
       [] ~IsConst(y)          -> {}
       [] s.op = "IntAdd"      -> compare(k - y.val)
       [] y.val = calc_mask(y.size) -> compare(-k)
       [] OTHER                -> {}

-----------------------------------------------------------------------------
(* The three-way comparison zext(A < B) + zext(A <= B) - 1 against a       *)
(* constant is one comparison of A with B.                                 *)

\* The two truth values added up, and whether the -1 is missing.
three_way_detect(sum) ==
  LET x == sum.in[1]
      y == sum.in[2]
      minus1(vn) == IsConstOf(vn, calc_mask(vn.size))
      zext(vn) == vn.op = "IntZext"
      found(z1, z2, partial) ==
        IF zext(z1) /\ zext(z2) THEN {[less |-> z1.in[1], lessequal |-> z2.in[1], partial |-> partial]}
        ELSE {}
  IN CASE IsConst(y) -> IF minus1(y) /\ x.op = "IntAdd" THEN found(x.in[1], x.in[2], FALSE) ELSE {}
       [] zext(y) /\ x.op = "IntAdd" -> IF minus1(x.in[2]) THEN found(x.in[1], y, FALSE) ELSE {}
       [] zext(y)          -> found(x, y, TRUE)
       [] y.op = "IntAdd"  -> IF minus1(y.in[2]) THEN found(x, y.in[1], FALSE) ELSE {}
       [] OTHER            -> {}

\* How the second comparison is the first with equality: 0 as they stand, 1
\* with the two exchanged, -1 not at all.  A second strict comparison must be
\* with the neighbouring constant.  Two constants are never one varnode.
three_way_test_compare_equivalence(a, b) ==
  LET strict == b.op = a.op
      same(i) == Same(a.in[i], b.in[i])
      consts(i) == IsConst(a.in[i]) /\ IsConst(b.in[i])
      next(m, n) == (m.val + 1) % 2^Bits(WordBytes) = n.val
      moved(i) == consts(i) /\ a.in[i].val # b.in[i].val /\ strict
      below == IF moved(1) THEN next(b.in[1], a.in[1]) ELSE next(a.in[2], b.in[2])
      above == IF moved(1) THEN next(a.in[1], b.in[1]) ELSE next(b.in[2], a.in[2])
  IN CASE a.op \notin {"IntLess", "IntSless"} \/ b.op \notin {a.op, OrEqual(a.op)} -> -1
       [] \E i \in {1, 2} : ~same(i) /\ ~consts(i) -> -1
       [] moved(1) /\ ~same(2) -> -1
       [] ~moved(1) /\ ~same(2) /\ ~moved(2) -> -1
       [] ~moved(1) /\ ~moved(2) -> IF strict THEN -1 ELSE 0
       [] below -> 0
       [] above -> 1
       [] OTHER -> -1

\* The number of a case of RuleThreeWayCompare: the constant, its slot and
\* the comparison.
ThreeWayForm(t, slot, partial) ==
  LET k == t.in[slot]
      base == IF k.val <= 2 THEN k.val + 1 ELSE 0
      constant == IF partial THEN base - 1 ELSE base
      opc == CASE t.op = "IntSless" -> 0 [] t.op = "IntSlessequal" -> 1
               [] t.op = "IntEqual" -> 2 [] t.op = "IntNotequal"   -> 3
  IN (constant * 2 + slot - 1) * 4 + opc

RuleThreeWayCompare(t) ==
  LET slot == IF IsConst(t.in[1]) THEN 1 ELSE 2
      k == t.in[slot]
      sum == t.in[Other(slot)]
      false == Const(1, 0)
      compare(f, less) ==
        LET b == less.in[1]
            a == less.in[2]
            is(opc, x, y) == {Become(t, opc, <<x, y>>)}
        IN CASE f \in {1, 21}          -> is("IntEqual", false, false)
             [] f \in {4, 16}          -> is("IntNotequal", false, false)
             [] f \in {2, 5, 6, 12}    -> is(less.op, a, b)
             [] f \in {13, 19, 20, 23} -> is(OrEqual(less.op), a, b)
             [] f \in {8, 17, 18, 22}  -> is(less.op, b, a)
             [] f \in {0, 3, 7, 9}     -> is(OrEqual(less.op), b, a)
             [] f \in {10, 14}         -> is("IntEqual", a, b)
             [] f \in {11, 15}         -> is("IntNotequal", a, b)
             [] OTHER                  -> {}
      apply(d) ==
        LET strict(vn) == vn.op \in {"IntLess", "IntSless"}
            one == IF strict(d.less) THEN d.less ELSE d.lessequal
            two == IF strict(d.less) THEN d.lessequal ELSE d.less
            form == three_way_test_compare_equivalence(one, two)
            less == IF form = 1 THEN two ELSE one
        IN IF form < 0 \/ (d.partial /\ k.val > 2) THEN {}
           ELSE compare(ThreeWayForm(t, slot, d.partial), less)
  IN IF /\ IsConst(k) /\ (k.val <= 2 \/ k.val = calc_mask(k.size))
        /\ sum.op = "IntAdd"
     THEN UNION {apply(d) : d \in three_way_detect(sum)} ELSE {}
=============================================================================
