----------------------------- MODULE RulesArith -----------------------------
(***************************************************************************)
(* Rewrite rules on sums, products and their carries (decompile/rules.rs). *)
(* A rule is given an operation t of an expression, as apply_op is, and    *)
(* returns the set of expressions it may put there: empty when the rule    *)
(* does not apply, which is apply_op returning 0.                          *)
(***************************************************************************)
EXTENDS NzMask, SequencesExt

ArithOps == {"IntAdd", "IntSub", "IntMult"}

\* Every input is constant: the operation becomes the copy of its value.
RuleConstFold(t) ==
  LET x == t.in[1]
      y == t.in[Len(t.in)]
      word(vn) == BitAnd(vn.val, calc_mask(vn.size))
      folded == eval_const(t.op, word(x), word(y), x, y)
  IN IF /\ t.op \notin {"Copy", "Piece", "IntDiv", "IntRem", "IntSdiv", "IntSrem"} \cup CarryOps
        /\ \A i \in DOMAIN t.in : IsConst(t.in[i])
     THEN {Copy(t, Const(t.size, folded % 2^Bits(t.size)))}
     ELSE {}

\* Both inputs are the same varnode.
RuleTrivialArith(t) ==
  IF ~Same(t.in[1], t.in[2]) THEN {}
  ELSE CASE t.op \in {"IntNotequal", "IntSless", "IntLess", "BoolXor"} -> {Copy(t, Const(1, 0))}
         [] t.op \in {"IntEqual", "IntSlessequal", "IntLessequal"}     -> {Copy(t, Const(1, 1))}
         [] t.op = "IntXor" -> {Copy(t, Const(t.size, 0))}
         [] OTHER           -> {Copy(t, t.in[1])}

\* A constant goes to the second slot of a commutative operation.
RuleTermOrder(t) ==
  IF IsConst(t.in[1]) /\ ~IsConst(t.in[2])
  THEN {Become(t, t.op, <<t.in[2], t.in[1]>>)} ELSE {}

RuleIdentityEl(t) ==
  CASE t.op # "IntMult" /\ is_const0(t.in[2])      -> {Copy(t, t.in[1])}
    [] t.op = "IntMult" /\ IsConstOf(t.in[2], 1)   -> {Copy(t, t.in[1])}
    [] t.op = "IntMult" /\ is_const0(t.in[2])      -> {Copy(t, t.in[2])}
    [] OTHER                                       -> {}

RuleTrivialShift(t) ==
  LET sa == t.in[2]
  IN CASE is_const0(sa) -> {Copy(t, t.in[1])}
       [] IsConst(sa) /\ sa.val >= Bits(t.in[1].size) /\ t.op # "IntSright"
                        -> {Copy(t, Const(t.in[1].size, 0))}
       [] OTHER         -> {}

\* V << c is V * 2^c when V is computed, or read, arithmetically.
RuleShift2Mult(t, reader) ==
  IF /\ IsConst(t.in[2]) /\ t.in[2].val < Bits(WordBytes) \div 2
     /\ t.in[1].op \in ArithOps \/ reader \in ArithOps
  THEN {Become(t, "IntMult", <<t.in[1], Const(t.size, 2^t.in[2].val)>>)}
  ELSE {}

-----------------------------------------------------------------------------
(* RuleCollectTerms: like terms of a sum are merged, then its constants.   *)

IsScaled(vn) == vn.op = "IntMult" /\ IsConst(vn.in[2])

get_mult_coeff(vn) ==
  IF IsScaled(vn) THEN [vn |-> vn.in[1], coeff |-> vn.in[2].val] ELSE [vn |-> vn, coeff |-> 1]

NoMult == <<0>>

\* The terms of a sum: the place of each, and of the multiplication by a
\* constant that a whole nested sum is under, if any.  Nested sums are taken
\* from a stack, so the last one found is opened first.
RECURSIVE collect_terms(_, _, _)
collect_terms(root, path, mult) ==
  LET input(i) == At(root, path).in[i]
      place(i) == Append(path, i)
      nested(i) == input(i).op = "IntAdd"
      scaled(i) == IsScaled(input(i)) /\ input(i).in[1].op = "IntAdd"
      leaf(i) == IF nested(i) \/ scaled(i) THEN <<>> ELSE <<[path |-> place(i), mult |-> mult]>>
      open(i) == CASE nested(i) -> collect_terms(root, place(i), mult)
                   [] scaled(i) -> collect_terms(root, Append(place(i), 1), place(i))
                   [] OTHER     -> <<>>
  IN leaf(1) \o leaf(2) \o open(2) \o open(1)

\* term_order: constants last, other terms by storage location, temporaries
\* after the variables.
TermKey(vn) ==
  LET base == get_mult_coeff(vn).vn
  IN CASE IsConst(vn) -> 1000 [] base.op = "Var" -> base.val [] OTHER -> 999

SortedTerms(t) ==
  LET edges == collect_terms(t, <<>>, NoMult)
      key(i) == TermKey(At(t, edges[i].path))
      before(i, j) == key(i) < key(j) \/ (key(i) = key(j) /\ i < j)
      order == SetToSortSeq(DOMAIN edges, before)
  IN [i \in DOMAIN order |-> edges[order[i]]]

\* (a + b) * c  =>  a*c + b*c
distribute_int_mult_add(t) ==
  LET coeff == t.in[2].val
      times(vn) == IF IsConst(vn)
                   THEN Const(t.size, BitAnd(Const(t.size, coeff * vn.val).val, calc_mask(t.size)))
                   ELSE Op("IntMult", t.size, <<vn, Const(t.size, coeff)>>)
  IN Become(t, "IntAdd", <<times(t.in[1].in[1]), times(t.in[1].in[2])>>)

\* Two neighbouring terms over the same varnode become one.
MergeTerms(t, one, two) ==
  LET m1 == get_mult_coeff(At(t, one.path))
      m2 == get_mult_coeff(At(t, two.path))
      size == m1.vn.size
      coeff == (m1.coeff + m2.coeff) % 2^Bits(size)
      merged == IF coeff = 0 THEN Const(size, 0)
                ELSE Op("IntMult", size, <<m1.vn, Const(size, coeff)>>)
      distribute(e) == Put(t, e.mult, distribute_int_mult_add(At(t, e.mult)))
  IN CASE one.mult # NoMult -> distribute(one)
       [] two.mult # NoMult -> distribute(two)
       [] OTHER -> Put(Put(t, one.path, Const(size, 0)), two.path, merged)

\* All the constants under no multiplication are added into the first of them.
RECURSIVE PutAll(_, _, _)
PutAll(t, paths, new) ==
  IF paths = {} THEN t
  ELSE LET p == CHOOSE p \in paths : TRUE IN PutAll(Put(t, p, new), paths \ {p}, new)

MergeConstants(t, terms) ==
  LET vn(i) == At(t, terms[i].path)
      plain == {i \in DOMAIN terms : IsConst(vn(i)) /\ terms[i].mult = NoMult}
      nonzero == {i \in plain : vn(i).val # 0}
      first == Min(nonzero)
      size == vn(first).size
      sum == MapThenSumSet(LAMBDA i : vn(i).val, nonzero) % 2^Bits(size)
      cleared == PutAll(t, {terms[i].path : i \in {j \in plain : j > first}}, Const(size, 0))
  IN IF Cardinality(nonzero) <= 1 THEN {} ELSE {Put(cleared, terms[first].path, Const(size, sum))}

RuleCollectTerms(t, reader) ==
  LET terms == SortedTerms(t)
      vn(i) == At(t, terms[i].path)
      like == {i \in 2 .. Len(terms) :
                 /\ ~IsConst(vn(i))
                 /\ get_mult_coeff(vn(i - 1)).vn = get_mult_coeff(vn(i)).vn}
      i == Min(like)
  IN CASE reader = "IntAdd" -> {}
       [] like # {}         -> {MergeTerms(t, terms[i - 1], terms[i])}
       [] OTHER             -> MergeConstants(t, terms)

\* An input that is a copy is replaced by what was copied.
RulePropagateCopy(t) ==
  LET copies == {i \in DOMAIN t.in : t.in[i].op = "Copy"}
      i == Min(copies)
  IN IF copies = {} THEN {} ELSE {[t EXCEPT !.in[i] = @.in[1]]}

-----------------------------------------------------------------------------
(* Sums compared as constants and at most two terms (AddExpression).       *)

NoTerms == [constval |-> 0, terms |-> <<>>]

AddTerm(e, vn, coeff) ==
  IF Len(e.terms) < 2 THEN [e EXCEPT !.terms = Append(@, [vn |-> vn, coeff |-> coeff])] ELSE e

RECURSIVE gather(_, _, _, _)
gather(e, vn, coeff, depth) ==
  LET m == 2^Bits(vn.size)
      d == IF IsConst(vn.in[2]) THEN depth ELSE depth - 1
  IN CASE IsConst(vn) -> [e EXCEPT !.constval = (@ + coeff * vn.val) % m]
       [] vn.op = "IntAdd" /\ d >= 0 ->
            gather(gather(e, vn.in[1], coeff, d), vn.in[2], coeff, d)
       [] IsScaled(vn) -> gather(e, vn.in[1], (coeff * vn.in[2].val) % m, depth)
       [] OTHER -> AddTerm(e, vn, coeff)

GatherTwo(a, b, bcoeff) ==
  LET depth == IF IsConst(a) \/ IsConst(b) THEN 1 ELSE 0
  IN gather(gather(NoTerms, a, 1, depth), b, bcoeff, depth)

is_equivalent(e, f) ==
  LET te(i, j) == /\ e.terms[i].coeff = f.terms[j].coeff
                  /\ functional_equality(e.terms[i].vn, f.terms[j].vn)
  IN /\ e.constval = f.constval /\ Len(e.terms) = Len(f.terms)
     /\ CASE Len(e.terms) = 1 -> te(1, 1)
          [] Len(e.terms) = 2 -> (te(1, 1) /\ te(2, 2)) \/ (te(1, 2) /\ te(2, 1))
          [] OTHER            -> FALSE

subtract_matches(x, a, b) ==
  is_equivalent(GatherTwo(a, b, calc_mask(b.size)), gather(NoTerms, x, 1, 1))
add_matches(x, a, b) == is_equivalent(GatherTwo(a, b, 1), gather(NoTerms, x, 1, 1))

\* The overflow flag in slot i of the comparison c is compared with the sign
\* of x: the slot of the zero in the sign test, 0 if there is none.
SignTest(c, i) ==
  LET s == c.in[Other(i)]
  IN CASE c.op \notin {"IntEqual", "IntNotequal"} \/ s.op # "IntSless" -> 0
       [] is_const0(s.in[1]) -> 1
       [] is_const0(s.in[2]) -> 2
       [] OTHER              -> 0

\* The signed comparison of a with b that such a comparison stands for.
SignedCompare(c, z, a, b) ==
  IF c.op = "IntNotequal"
  THEN Become(c, "IntSless", IF z = 2 THEN <<a, b>> ELSE <<b, a>>)
  ELSE Become(c, "IntSlessequal", IF z = 1 THEN <<a, b>> ELSE <<b, a>>)

\* sborrow(a, 0) => false
RuleSborrow(t) == IF is_const0(t.in[2]) THEN {Copy(t, Const(1, 0))} ELSE {}

\* sborrow(a, b) != (a - b s< 0)  =>  a s< b, with the sborrow in slot i of c.
RuleSborrowCompare(c, i) ==
  LET a == c.in[i].in[1]
      b == c.in[i].in[2]
      z == SignTest(c, i)
      x == c.in[Other(i)].in[Other(z)]
  IN IF ~is_const0(b) /\ z # 0 /\ subtract_matches(x, a, b)
     THEN {SignedCompare(c, z, a, b)} ELSE {}

\* scarry(a, 0) => false
RuleScarry(t) ==
  IF is_const0(t.in[1]) \/ is_const0(t.in[2]) THEN {Copy(t, Const(1, 0))} ELSE {}

\* scarry(a, k) != (a + k s< 0)  =>  a s< -k.  The least integer, which is its
\* own negation, is refused when it is the first operand.
RuleScarryCompare(c, i) ==
  LET s == c.in[i]
      swap == ~IsConst(s.in[2])
      a == s.in[IF swap THEN 2 ELSE 1]
      k == s.in[IF swap THEN 1 ELSE 2]
      z == SignTest(c, i)
      x == c.in[Other(i)].in[Other(z)]
  IN IF /\ IsConst(k) /\ ~is_const0(s.in[1]) /\ ~is_const0(s.in[2])
        /\ ~(swap /\ k.val = 2^(Bits(k.size) - 1))
        /\ z # 0 /\ add_matches(x, a, k)
     THEN {SignedCompare(c, z, a, Const(k.size, Neg(k.val, k.size)))} ELSE {}

-----------------------------------------------------------------------------
(* Differences and negations.                                              *)

Times(vn, coeff) == Op("IntMult", vn.size, <<vn, Const(vn.size, coeff)>>)

\* V - W  =>  V + W * -1
RuleSub2Add(t) ==
  {Become(t, "IntAdd", <<t.in[1], Times(t.in[2], calc_mask(t.in[2].size))>>)}

\* (V + c) + d  =>  V + (c + d), and the same for products.  The form that
\* gathers offsets from the stack pointer needs a spacebase variable.
RuleAddMultCollapse(t) ==
  LET s == t.in[1]
      c == s.in[2].val
      d == t.in[2].val
      size == t.in[2].size
      val == IF t.op = "IntAdd" THEN c + d ELSE c * d
  IN IF IsConst(t.in[2]) /\ s.op = t.op /\ IsConst(s.in[2]) /\ ~is_free(s.in[1])
     THEN {Become(t, t.op, <<s.in[1], Const(size, val % 2^Bits(size))>>)} ELSE {}

\* V * -1  =>  -V
RuleMultNegOne(t) ==
  IF IsConstOf(t.in[2], calc_mask(t.in[2].size)) THEN {Become(t, "Int2comp", <<t.in[1]>>)} ELSE {}

\* V + c  =>  V - (-c), for an unsigned c whose top quarter of bits is set.
RuleAddUnsigned(t) ==
  LET k == t.in[2]
      quarter == calc_mask(k.size) - (2^((Bits(k.size) * 3) \div 4) - 1)
  IN IF IsConst(k) /\ BitAnd(k.val, quarter) = quarter
     THEN {Become(t, "IntSub", <<t.in[1], Const(k.size, Neg(k.val, k.size))>>)} ELSE {}

\* V + -W  =>  V - W, for the negation in slot i of the sum a.
Rule2Comp2Sub(a, i) ==
  IF a.op = "IntAdd" THEN {Become(a, "IntSub", <<a.in[Other(i)], a.in[i].in[1]>>)} ELSE {}

\* A signed division of numbers that cannot be negative is unsigned.
RulePositiveDiv(t) ==
  LET negative(vn) == (Nzm(vn) \div 2^(Bits(t.size) - 1)) % 2 = 1
  IN IF negative(t.in[1]) \/ negative(t.in[2]) THEN {}
     ELSE {Become(t, IF t.op = "IntSdiv" THEN "IntDiv" ELSE "IntRem", t.in)}

\* -V  =>  V * -1
Rule2Comp2Mult(t) ==
  LET v == t.in[1] IN {Become(t, "IntMult", <<v, Const(v.size, calc_mask(v.size))>>)}
=============================================================================
