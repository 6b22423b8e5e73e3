----------------------------- MODULE MCRulePool -----------------------------
(* Expressions to rewrite: a few families that between them bring every     *)
(* rule of the pools into play.                                             *)
EXTENDS RulePool

x == Var(1, 1)
y == Var(1, 2)
X == Var(2, 3)
Y == Var(2, 4)
W == Var(4, 5)

C(size, vals) == {Const(size, v) : v \in vals}

Arith == {"IntAdd", "IntSub", "IntMult", "IntAnd", "IntOr", "IntXor"}
Shifts == {"IntLeft", "IntRight", "IntSright"}
Equality == {"IntEqual", "IntNotequal"}

\* Binary operations of size s on operands from A and B; comparisons have size 1.
Bin(ops, s, A, B) == {Op(o, s, <<a, b>>) : o \in ops, a \in A, b \in B}
Cmp(ops, A, B) == Bin(ops, 1, A, B)
Un(ops, s, A) == {Op(o, s, <<a>>) : o \in ops, a \in A}
Ext(s, A) == Un({"IntZext", "IntSext"}, s, A)
Sub(s, A, offsets) == Bin({"Subpiece"}, s, A, C(4, offsets))
Join(s, A, B) == Bin({"Piece"}, s, A, B)
Shifted(s, A, amounts) == Bin(Shifts, s, A, C(4, amounts))

\* A chain of two operations with constants, on a variable.
Chain ==
  LET inner == Bin(Arith, 2, {X}, C(2, {1, 3, 12, 15})) \cup Shifted(2, {X}, 1 .. 3)
  IN Bin(Arith, 2, inner, C(2, {0, 1, 6, 12, 15})) \cup Shifted(2, inner, 1 .. 3)
     \cup Un({"IntNegate", "Int2comp"}, 2, inner)

\* Two operations joined.
Joined ==
  LET one == Bin(Arith, 1, {x}, {y} \cup C(1, {1})) \cup Shifted(1, {x}, {1})
             \cup Un({"IntNegate", "Int2comp"}, 1, {x})
      two == Bin(Arith, 1, {x}, C(1, {2, 3})) \cup Bin({"IntRight"}, 1, {x}, C(4, {1})) \cup {x, y}
  IN Bin(Arith, 1, one, two) \cup Bin(Arith, 1, {y}, one)

\* Comparisons of an operation with a constant, or the other way round.
Compared ==
  LET inner == Bin(Arith, 2, {X}, C(2, {1, 8, 12, 15})) \cup Shifted(2, {X}, {1, 3})
               \cup Un({"IntNegate", "Int2comp"}, 2, {X}) \cup {X}
      k == C(2, {0, 1, 6, 15})
  IN Cmp(ComparisonOps, inner, k) \cup Cmp(ComparisonOps, C(2, {0, 6, 15}), inner)
     \cup Cmp({"IntCarry", "IntScarry", "IntSborrow"}, {X}, k)
     \cup Cmp(ComparisonOps, Bin({"IntAdd", "IntSub", "IntXor", "IntOr"}, 1, {x}, {y}), C(1, {0, 2}))

\* Extensions, truncations and concatenations of variables and constants.
Pieces ==
  LET wide == Ext(2, {x}) \cup Join(2, {x}, {y} \cup C(1, {0, 1})) \cup Join(2, C(1, {0, 2}), {x})
      parts == Sub(1, {X}, {0, 1})
      masked == Bin({"IntAnd", "IntOr", "IntXor"}, 1, {x}, C(1, {1, 2}))
      \* the high half of x * 3 is x s/ 2, but 2 is no positive number of 2 bits
      tooSmall == Bin({"IntMult"}, 2, Un({"IntSext"}, 2, {x}), C(2, {3}))
  IN Sub(1, wide, {0, 1})
     \cup Sub(1, Shifted(2, {X} \cup wide, 1 .. 3), {0, 1})
     \cup Sub(1, Bin(Arith, 2, {X} \cup Ext(2, {x}), Ext(2, {y}) \cup C(2, {3, 6})) \ tooSmall, {0, 1})
     \cup Bin(Arith, 2, wide, C(2, {3, 6, 12}) \cup wide)
     \cup Shifted(2, wide, 1 .. 3)
     \cup Cmp(ComparisonOps, wide, C(2, {0, 1, 3, 6, 15}))
     \cup Cmp(Equality, Bin({"IntAnd"}, 2, wide, C(2, {3, 6})), C(2, {0}))
     \cup Cmp({"IntSless"}, parts, C(1, {0})) \cup Cmp({"IntSless"}, C(1, {3}), parts)
     \cup Join(2, parts, parts) \cup Join(2, masked, {y}) \cup Join(2, {x}, masked)
     \cup Join(2, Shifted(1, {x}, {1}), {x})
     \cup Ext(2, parts) \cup Ext(2, Shifted(1, parts, {1}))

\* Three sizes of extension and truncation.
Sizes ==
  LET wide == Ext(2, {x})
      unsigned == Un({"IntZext"}, 4, {x} \cup wide)
      signed == Un({"IntSext"}, 4, {X})
      shifted == Bin({"IntLeft"}, 2, wide, C(4, {1, 2}))
  IN unsigned \cup signed \cup Ext(4, shifted)
     \cup Sub(1, unsigned, {0, 1, 2}) \cup Sub(2, unsigned \cup signed, {0, 1, 2})
     \cup Sub(1, Sub(2, unsigned, {0, 2}), {0, 1})
     \cup Sub(2, Shifted(4, unsigned, {1, 2, 4, 6}), {0, 1, 2})
     \cup Join(3, {x}, wide) \cup Join(3, wide, {y}) \cup Join(3, {y}, shifted)
     \cup Bin({"IntOr", "IntAdd", "IntXor"}, 2, shifted, Ext(2, {y}))
     \cup Bin({"IntAnd"}, 4, unsigned \cup signed, C(4, {3, 12, 15}))
     \cup Shifted(1, Sub(1, {X}, {1}), {1})

\* Truth values.
Truth == Cmp({"IntEqual", "IntLess", "IntSless"}, {x}, {y} \cup C(1, {0, 1}))
Truths ==
  LET b == Cmp({"IntEqual", "IntLessequal", "IntSless"}, {x}, {y})
      c == Cmp({"IntNotequal", "IntLess"}, {x}, {y} \cup C(1, {1})) \cup Cmp({"IntLess"}, {y}, {x})
      junction == {"BoolAnd", "BoolOr"}
      mask(B) == Bin({"IntMult"}, 2, Un({"IntZext"}, 2, B), C(2, {15}))
  IN Bin(BoolOps \ {"BoolNegate"}, 1, Truth, c \cup C(1, {0, 1}))
     \cup Bin({"IntAnd", "IntOr", "IntXor"}, 1, b, c \cup C(1, {1}))
     \cup Un({"BoolNegate"}, 1, Truth) \cup Un({"BoolNegate"}, 1, Un({"BoolNegate"}, 1, Truth))
     \cup Cmp(Equality, Truth, C(1, {0, 1}))
     \cup Bin({"IntEqual", "IntNotequal"} \cup junction, 1,
              Bin(junction, 1, b, {Op("IntEqual", 1, <<y, Const(1, 0)>>)}),
              Bin(junction, 1, c, {Op("IntEqual", 1, <<y, Const(1, 1)>>)}))
     \cup Bin({"IntAnd", "IntOr", "IntXor"}, 2, mask(b), mask(c))
     \cup Bin({"IntAdd"}, 2, mask(b), C(2, {1})) \cup Cmp(Equality, mask(b), C(2, {0, 15}))

\* A comparison of an overflow flag with the sign of the result.
Overflows ==
  LET flag == Cmp({"IntSborrow"}, {X}, C(2, {1, 6, 15})) \cup Cmp({"IntScarry"}, {X}, C(2, {1, 6, 15}))
      sign(f) == LET k == f.in[2]
                 IN Cmp({"IntSless"}, {Op("IntAdd", 2, <<X, Const(2, IF f.op = "IntScarry" THEN k.val
                                                                     ELSE Neg(k.val, 2))>>)}, C(2, {0}))
      positive(f) == {[s EXCEPT !.in = Reverse(@)] : s \in sign(f)}
  IN UNION {Cmp(Equality, {f}, sign(f) \cup positive(f)) : f \in flag}
     \cup UNION {Cmp(Equality, sign(f), {f}) : f \in flag}

\* zext(x < y) + zext(x <= y) - 1 against a constant, in each arrangement.
ThreeWay ==
  LET minus1 == Const(2, 15)
      z(b) == Op("IntZext", 2, <<b>>)
      add(a, b) == Op("IntAdd", 2, <<a, b>>)
      pairs == {<<Op(o, 1, <<x, y>>), Op(OrEqual(o), 1, <<x, y>>)>> : o \in {"IntLess", "IntSless"}}
               \cup {<<Op("IntLess", 1, <<x, Const(1, v)>>), Op("IntLess", 1, <<x, Const(1, w)>>)>> :
                       v \in {1, 2}, w \in {1, 2}}
      sums == {add(add(z(p[1]), z(p[2])), minus1) : p \in pairs}
              \cup {add(add(z(p[2]), minus1), z(p[1])) : p \in pairs}
              \cup {add(z(p[1]), add(z(p[2]), minus1)) : p \in pairs}
              \cup {add(z(p[1]), z(p[2])) : p \in pairs}
      ops == {"IntSless", "IntSlessequal"} \cup Equality
  IN Cmp(ops, sums, C(2, {0, 1, 2, 15})) \cup Cmp(ops, C(2, {0, 1, 15}), sums)

\* Divisions, counts and sign bits.
Others ==
  LET low == Bin({"IntAnd"}, 2, {X}, C(2, {3, 6}))
      divide == {"IntDiv", "IntRem", "IntSdiv", "IntSrem"}
      count == Bin({"IntAnd"}, 2, {X}, C(2, {1, 8})) \cup Join(2, Truth, Truth)
      sign == Shifted(2, {X}, {3})
      aligned == Bin({"IntMult"}, 2, {X}, C(2, {4})) \cup Bin({"IntAnd"}, 2, {Y}, C(2, {12}))
      sums == Bin({"IntAdd"}, 2, aligned, C(2, {6, 7}))
      odd == Bin({"IntOr"}, 1, {x}, C(1, {1}))
  IN Bin(divide, 2, low \cup {X}, C(2, {3, 5}))
     \cup Sub(1, Bin(divide, 2, Ext(2, {x}), Ext(2, {y}) \cup C(2, {1, 3})), {0})
     \cup Sub(1, Bin(divide, 4, Ext(4, {x}), Ext(4, {X}) \cup C(4, {3, 255})), {0})
     \cup Bin({"IntAnd"}, 1, Un({"Popcount"}, 1, count), C(1, {1}))
     \cup Bin({"IntRight"}, 2, Un({"Lzcount"}, 2, {x, X}), C(4, {1, 2}))
     \cup Cmp(Equality, sign, C(2, {0, 1, 15}))
     \cup Bin({"IntAnd"}, 2, sums \cup Bin({"IntAdd"}, 2, sums, aligned), C(2, {12}))
     \cup Un({"IntNegate"}, 2, Un({"IntNegate"}, 2, {X}))
     \cup Bin({"IntSright"}, 2, Sub(2, Bin({"IntMult"}, 4, Un({"IntSext"}, 4, {X}),
                                           C(4, {3}) \cup Un({"IntZext"}, 4, odd)), {2}), C(4, {3}))

\* Divisions and remainders by constants, as compilers expand them.
Divisions ==
  LET fits(v, k, top) == k * 2^Bits(v.in[1].size) <= 2^(Bits(v.size) - 1) * top
      product(v, top) == Bin({"IntMult"}, v.size, {v},
                             C(v.size, {k \in 2 .. calc_mask(v.size) : fits(v, k, top)}))
      shifts(v) == C(4, 1 .. Bits(v.size) - 1)
      unsigned == Un({"IntZext"}, 4, {X}) \cup Un({"IntZext"}, 2, {x})
      signed == Un({"IntSext"}, 4, {X}) \cup Un({"IntSext"}, 2, {x})
      high == Sub(2, product(Op("IntSext", 4, <<X>>), 2) \cup Bin({"IntMult"}, 4, Un({"IntSext"}, 4, {X}),
                                                               C(4, 248 .. 255)), {2})
      sign == Shifted(2, {X}, {3}) \ Bin({"IntLeft"}, 2, {X}, C(4, {3}))
      less(A, B) == Bin({"IntAdd"}, 2, A, Bin({"IntMult"}, 2, B, C(2, {15})))
      plus(A, B) == Bin({"IntAdd"}, 2, A, B)
      rounded == less({X}, sign)
      quotient == Bin({"IntDiv", "IntSdiv"}, 2, {X}, C(2, {2, 3, 7}))
      odd == Bin({"IntOr"}, 1, {y}, C(1, {1}))
      bit == Bin({"IntSright"}, 1, Sub(1, {X}, {1}), C(4, {1}))
      sign4 == Bin({"IntSright"}, 4, {W}, C(4, {7}))
      lower == plus(Sub(2, {W}, {0}), Bin({"IntRight"}, 2, Bin({"IntSright"}, 2, Sub(2, {W}, {2}),
                                                               C(4, {3})), C(4, {2})))
      lowless == Bin({"IntAdd"}, 1, Sub(1, {X}, {0}), Bin({"IntMult"}, 1, bit, C(1, {3})))
      down(n) == Bin({"IntRight"}, 2, sign, C(4, {4 - n}))
  IN UNION {Bin({"IntRight"}, v.size, product(v, 2), shifts(v)) : v \in unsigned}
     \cup UNION {Bin({"IntSright"}, v.size, product(v, 2), shifts(v)) : v \in signed}
     \cup plus(high, {X}) \cup less(Bin({"IntSright"}, 2, high, C(4, {1})), sign)
     \cup Bin({"IntRight"}, 2, high, C(4, {3}))
     \cup plus({X}, Bin({"IntMult"}, 2, quotient, C(2, {13, 14})))
     \cup Bin({"IntAdd"}, 1, {x}, Bin({"IntMult"}, 1, Bin({"IntDiv", "IntSdiv"}, 1, {x}, odd),
                                       Un({"Int2comp"}, 1, odd)))
     \cup Bin({"IntDiv", "IntSdiv"}, 2, quotient \cup Bin({"IntRight"}, 2, {X}, C(4, {1})), C(2, {2, 3}))
     \cup Bin({"IntSright"}, 2, rounded, C(4, {1}))
     \cup less({X}, Bin({"IntAnd"}, 2, rounded, C(2, {14})))
     \cup plus(sign, Bin({"IntAnd"}, 2, rounded, C(2, {1})))
     \cup UNION {Bin({"IntAnd"}, 2, plus({X}, down(n)), C(2, {16 - 2^n})) : n \in 1 .. 3}
     \cup UNION {less(Bin({"IntAnd"}, 2, plus({X}, down(n)), C(2, {2^n - 1})), down(n)) : n \in 1 .. 3}
     \cup Bin({"IntAdd"}, 4, Un({"IntZext"}, 4, Bin({"IntAnd"}, 2, lower, C(2, {3}))),
                             Bin({"IntMult"}, 4, Bin({"IntRight"}, 4, sign4, C(4, {6})), C(4, {255})))
     \cup plus(sign, Un({"IntZext"}, 2, Bin({"IntAnd"}, 1, lowless, C(1, {1}))))

MCSubjects ==
  Chain \cup Joined \cup Compared \cup Pieces \cup Sizes \cup Truths \cup Overflows \cup ThreeWay
        \cup Others \cup Divisions

\* V s<= the largest number: always true.
AtMostMax == Cmp({"IntSlessequal"}, {X}, C(2, {7}))
=============================================================================
