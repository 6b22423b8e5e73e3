------------------------------ MODULE RulesBool ------------------------------
(***************************************************************************)
(* Rewrite rules on truth values (decompile/rules.rs).  See RulesArith for *)
(* how a rule is written.                                                  *)
(***************************************************************************)
EXTENDS NzMask, SequencesExt

\* Input variables carry no locked boolean type here: only operations are
\* known to give a truth value.
is_boolean_value(vn) == vn.op \in BoolOutput

\* The comparison that is true exactly when opc on the same inputs is not,
\* and whether its inputs are exchanged.
Flip(opc) ==
  CASE opc = "IntEqual"      -> [op |-> "IntNotequal", swap |-> FALSE]
    [] opc = "IntNotequal"   -> [op |-> "IntEqual", swap |-> FALSE]
    [] opc = "IntLess"       -> [op |-> "IntLessequal", swap |-> TRUE]
    [] opc = "IntLessequal"  -> [op |-> "IntLess", swap |-> TRUE]
    [] opc = "IntSless"      -> [op |-> "IntSlessequal", swap |-> TRUE]
    [] opc = "IntSlessequal" -> [op |-> "IntSless", swap |-> TRUE]
    [] opc = "BoolNegate"    -> [op |-> "Copy", swap |-> FALSE]

\* !(a < b)  =>  b <= a, done in the comparison the negation reads.
RuleBoolNegate(t) ==
  LET c == t.in[1]
      flip == Flip(c.op)
  IN IF c.op \in ComparisonOps \cup {"BoolNegate"}
     THEN {Copy(t, Become(c, flip.op, IF flip.swap THEN Reverse(c.in) ELSE c.in))}
     ELSE {}

\* Bitwise logic on truth values is boolean logic.
RuleLogic2Bool(t) ==
  IF /\ is_boolean_value(t.in[1])
     /\ IF IsConst(t.in[2]) THEN t.in[2].val <= 1 ELSE is_boolean_value(t.in[2])
  THEN {Become(t, CASE t.op = "IntAnd" -> "BoolAnd"
                    [] t.op = "IntOr"  -> "BoolOr"
                    [] t.op = "IntXor" -> "BoolXor", t.in)}
  ELSE {}

\* zext(b) * -1, the all-ones mask made of a truth value.
IsBoolMask(vn) ==
  /\ vn.op = "IntMult" /\ IsConstOf(vn.in[2], calc_mask(vn.in[2].size))
  /\ vn.in[1].op = "IntZext" /\ is_boolean_value(vn.in[1].in[1])

\* Logic, comparison or increment on such a mask, in slot i of the operation
\* a that reads it, is the same on the truth value.
RuleBoolZext(a, i) ==
  LET zext == a.in[i].in[1]
      b == zext.in[1]
      size == a.in[i].size
      k == a.in[2]
      other == a.in[Other(i)]
      logic(opc) ==
        LET joined == Op(opc, 1, <<b, other.in[1].in[1]>>)
        IN IF IsBoolMask(other) /\ other.in[2].val = calc_mask(size)
           THEN {Become(a, "IntMult", <<Op("IntZext", size, <<joined>>), Const(size, calc_mask(size))>>)}
           ELSE {}
  IN CASE ~IsBoolMask(a.in[i]) -> {}
       [] a.op = "IntAdd" ->
            IF IsConstOf(k, 1)
            THEN {Copy(a, [zext EXCEPT !.in = <<Op("BoolNegate", 1, <<b>>)>>])} ELSE {}
       [] a.op \in {"IntEqual", "IntNotequal"} ->
            IF IsConst(k) /\ k.val \in {0, a.in[i].in[2].val}
            THEN {Become(a, a.op, <<b, Const(1, Bool(k.val # 0))>>)} ELSE {}
       [] a.op = "IntAnd" -> logic("BoolAnd")
       [] a.op = "IntOr"  -> logic("BoolOr")
       [] a.op = "IntXor" -> logic("BoolXor")
       [] OTHER           -> {}

\* A truth value compared with 0 or 1.
RuleBooleanNegate(t) ==
  LET k == t.in[2]
  IN IF IsConst(k) /\ k.val \in {0, 1} /\ is_boolean_value(t.in[1])
     THEN {Become(t, IF (t.op = "IntNotequal") = (k.val = 1) THEN "BoolNegate" ELSE "Copy",
                  <<t.in[1]>>)}
     ELSE {}
\* The varnode holding bit pos of vn as a truth value, or that bit itself if
\* it is constant: at most one, and none where the trail is lost.
RECURSIVE popcount_boolean_result(_, _)
popcount_boolean_result(vn, pos) ==
  LET x == vn.in[1]
      y == vn.in[Len(vn.in)]
      can(w) == BitAnd(Nzm(w), 2^pos) # 0
  IN CASE IsConst(vn) -> {Const(1, (vn.val \div 2^pos) % 2)}
       [] ~IsWritten(vn) -> {}
       [] pos = 0 /\ vn.size = 1 /\ Nzm(vn) = 1 -> {vn}
       [] vn.op = "IntAnd" -> IF IsConst(y) THEN popcount_boolean_result(x, pos) ELSE {}
       [] vn.op \in {"IntXor", "IntOr"} ->
            IF can(x) = can(y) THEN {} ELSE popcount_boolean_result(IF can(x) THEN x ELSE y, pos)
       [] vn.op \in {"IntZext", "IntSext"} ->
            IF pos >= Bits(x.size) THEN {} ELSE popcount_boolean_result(x, pos)
       [] vn.op = "Subpiece" -> popcount_boolean_result(x, pos + Bits(y.val))
       [] vn.op = "Piece" -> IF pos >= Bits(y.size) THEN popcount_boolean_result(x, pos - Bits(y.size))
                             ELSE popcount_boolean_result(y, pos)
       [] vn.op = "IntLeft" -> IF IsConst(y) /\ y.val <= pos
                               THEN popcount_boolean_result(x, pos - y.val) ELSE {}
       [] vn.op \in {"IntRight", "IntSright"} ->
            IF IsConst(y) /\ pos + y.val < Bits(x.size)
            THEN popcount_boolean_result(x, pos + y.val) ELSE {}
       [] OTHER -> {}

\* popcount(V) & 1, where one or two bits of V can be set, is one truth value
\* or the exclusive or of two.  The count is in slot i of the operation a.
RulePopcountBoolXor(a, i) ==
  LET v == a.in[i].in[1]
      nz == Nzm(v)
      b1 == popcount_boolean_result(v, leastsigbit_set(nz))
      b2 == popcount_boolean_result(v, mostsigbit_set(nz))
      usable(b) == {x \in b : IsConst(x) => x.val = 1}
  IN CASE a.op # "IntAnd" \/ ~IsConstOf(a.in[2], 1) \/ a.in[2].size # 1 \/ ~IsWritten(v) -> {}
       [] popcount(nz) = 1 -> {Copy(a, x) : x \in {x \in b1 : ~IsConst(x)}}
       [] popcount(nz) = 2 -> {Become(a, "IntXor", xy) :
                                 xy \in {xy \in usable(b1) \X usable(b2) :
                                           ~(IsConst(xy[1]) /\ IsConst(xy[2]))}}
       [] OTHER -> {}

-----------------------------------------------------------------------------
(* Truth values that are equal, or opposite, whatever the inputs are.      *)

varnode_same(a, b) == IF IsConst(a) /\ IsConst(b) THEN a.val = b.val ELSE a = b

\* c < V and V < c + 1: opposite comparisons of V with neighbouring constants.
same_op_complement(a, b) ==
  LET k == IF IsConst(a.in[2]) THEN 2 ELSE 1
      val(i) == IF k = i THEN a.in[i].val ELSE b.in[i].val
      size == a.in[k].size
  IN /\ a.op \in {"IntLess", "IntSless"}
     /\ IsConst(a.in[k]) /\ IsConst(b.in[Other(k)])
     /\ varnode_same(a.in[Other(k)], b.in[k])
     /\ (val(1) + 1) % 2^Bits(WordBytes) = val(2)
     /\ ~(val(2) = 0 /\ a.op = "IntLess")
     /\ ~(a.op = "IntSless" /\ signbit_negative(val(2), size) /\ ~signbit_negative(val(1), size))

Opposite(m) ==
  CASE m = "Same" -> "Complementary" [] m = "Complementary" -> "Same" [] OTHER -> m

\* One comparison against another.
MatchComparisons(a, b) ==
  LET flip == Flip(b.op)
      order == IF flip.swap THEN <<2, 1>> ELSE <<1, 2>>
      same == \A i \in DOMAIN a.in : varnode_same(a.in[i], b.in[i])
  IN CASE a.op = b.op -> CASE same                     -> "Same"
                           [] same_op_complement(a, b) -> "Complementary"
                           [] OTHER                    -> "Uncorrelated"
       [] b.op \notin ComparisonOps \/ a.op # flip.op  -> "Uncorrelated"
       [] \A i \in {1, 2} : varnode_same(a.in[i], b.in[order[i]]) -> "Complementary"
       [] OTHER -> "Uncorrelated"

\* expression::evaluate
RECURSIVE BooleanMatch(_, _, _)
BooleanMatch(a, b, depth) ==
  LET junction == {"BoolAnd", "BoolOr", "BoolXor"}
      in(i, j) == BooleanMatch(a.in[i], b.in[j], depth - 1)
      cross == in(1, 1) = "Uncorrelated"
      pair1 == IF cross THEN in(1, 2) ELSE in(1, 1)
      pair2 == IF cross THEN in(2, 1) ELSE in(2, 2)
      both(m) == pair1 = m /\ pair2 = m
  IN CASE Same(a, b)                      -> "Same"
       [] a.op = "BoolNegate"             -> Opposite(BooleanMatch(a.in[1], b, depth))
       [] b.op = "BoolNegate"             -> Opposite(BooleanMatch(a, b.in[1], depth))
       [] a.op \notin BoolOutput \/ b.op \notin BoolOutput -> "Uncorrelated"
       [] depth = 0 \/ a.op \notin junction -> MatchComparisons(a, b)
       [] b.op \notin junction \/ (a.op # b.op /\ "BoolXor" \in {a.op, b.op}) -> "Uncorrelated"
       [] pair1 = "Uncorrelated" \/ pair2 = "Uncorrelated" -> "Uncorrelated"
       [] a.op # b.op   -> IF both("Complementary") THEN "Complementary" ELSE "Uncorrelated"
       [] both("Same")  -> "Same"
       [] a.op = "BoolXor" -> IF both("Complementary") THEN "Same" ELSE "Complementary"
       [] OTHER         -> "Uncorrelated"

\* The first operand of t.in[1] that matches one of t.in[2]: where each is.
Junctions == {"BoolAnd", "BoolOr"}
CommonOperand(t) ==
  LET match(ij) == BooleanMatch(t.in[1].in[ij[1]], t.in[2].in[ij[2]], 1)
      pairs == SelectSeq(<<<<1, 1>>, <<1, 2>>, <<2, 1>>, <<2, 2>>>>,
                         LAMBDA ij : match(ij) # "Uncorrelated")
  IN IF /\ t.in[1].op \in Junctions /\ t.in[2].op \in Junctions
        /\ \A i, j \in {1, 2} : ~is_free(t.in[i].in[j])
        /\ pairs # <<>>
     THEN {[left |-> Head(pairs)[1], right |-> Head(pairs)[2], match |-> match(Head(pairs))]}
     ELSE {}

\* (A && B) == (A && C)  =>  !A || B == C
RuleBooleanUndistribute(t) ==
  LET operand(i, j) == t.in[i].in[j]
      \* an OR is seen as the AND of the negations, negated
      flipped(i) == t.in[i].op = "BoolOr"
      equal0 == (t.op = "IntEqual") # (flipped(1) # flipped(2))
      undistribute(c) ==
        LET agree == flipped(1) = (flipped(2) # (c.match = "Complementary"))
            a == operand(1, c.left)
            b == operand(1, Other(c.left))
            d == operand(2, Other(c.right))
            equal == equal0 # (flipped(1) # flipped(2))
            negate == flipped(1) # equal0
        IN IF ~agree THEN {}
           ELSE {Become(t, IF equal0 THEN "BoolOr" ELSE "BoolAnd",
                        <<IF negate THEN Op("BoolNegate", 1, <<a>>) ELSE a,
                          Op(IF equal THEN "IntEqual" ELSE "IntNotequal", 1, <<b, d>>)>>)}
  IN UNION {undistribute(c) : c \in CommonOperand(t)}

\* (A && B) || (A && C)  =>  A && (B || C), and the forms with A and !A.
RuleBooleanDedup(t) ==
  LET op1 == t.in[1].op
      op2 == t.in[2].op
      dedup(c) ==
        LET left == t.in[1].in[c.left]
            right == t.in[2].in[c.right]
            others == <<t.in[1].in[Other(c.left)], t.in[2].in[Other(c.right)]>>
            all(opc) == t.op = opc /\ op1 = opc /\ op2 = opc
            join(opc, a, inner) == {Become(t, opc, <<a, Op(inner, 1, others)>>)}
        IN IF c.match = "Complementary"
           THEN CASE all("BoolAnd") -> {Copy(t, Const(1, 0))}
                  [] all("BoolOr")  -> {Copy(t, Const(1, 1))}
                  [] t.op = "BoolOr" /\ op1 # op2 ->
                       join("BoolOr", IF op1 = "BoolOr" THEN left ELSE right, "BoolOr")
                  [] OTHER -> {}
           ELSE CASE all(t.op)  -> join(t.op, left, t.op)
                  [] op1 = op2  -> join(op1, left, t.op)
                  [] OTHER      -> {}
  IN UNION {dedup(c) : c \in CommonOperand(t)}

\* A truth value against a constant one.
RuleTrivialBool(t) ==
  LET one == t.in[2].val = 1
      v == t.in[1]
  IN CASE ~IsConst(t.in[2])   -> {}
       [] t.op = "BoolXor"    -> {Become(t, IF one THEN "BoolNegate" ELSE "Copy", <<v>>)}
       [] t.op = "BoolAnd"    -> {Copy(t, IF one THEN v ELSE Const(1, 0))}
       [] t.op = "BoolOr"     -> {Copy(t, IF one THEN Const(1, 1) ELSE v)}

RuleBxor2NotEqual(t) == {Become(t, "IntNotequal", t.in)}
=============================================================================
