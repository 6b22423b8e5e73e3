------------------------------- MODULE Pcode -------------------------------
(***************************************************************************)
(* The data-flow expressions the decompiler rewrites: the operations of    *)
(* SSA form, seen as a tree from one result down to its leaves.            *)
(*                                                                         *)
(* A varnode is a constant, an input variable, or the output of an         *)
(* operation.  Each operation of the tree has one reader, which is what    *)
(* the code's lone_descend tests ask for, and two equal subtrees stand for *)
(* one varnode, as they do in the code once RuleSelectCse has merged them. *)
(***************************************************************************)
EXTENDS Words, Sequences, Bitwise, TLC

-----------------------------------------------------------------------------
(* Varnodes and operations.                                                *)

\* A constant: new_const keeps the whole word it is given, even where that
\* is wider than the size of the constant.  nz is the mask of the bits that
\* may be set (Varnode::nzm), co that of the bits its readers use
\* (Varnode::consume).
Const(size, v) ==
  LET word == v % 2^Bits(WordBytes)
  IN [op |-> "Const", size |-> size, val |-> word, in |-> <<>>,
      nz |-> word % 2^Bits(size), co |-> WordMask]

\* Input variable n of the function, at the n-th storage location.
Var(size, n) == [op |-> "Var", size |-> size, val |-> n, in |-> <<>>,
                 nz |-> calc_mask(size), co |-> WordMask]

\* mutant: a new varnode is not consumed
OpUnconsumed(opc, size, in) == [op |-> opc, size |-> size, val |-> 0, in |-> in,
                                nz |-> calc_mask(size), co |-> 0]

\* A new operation: until masks are next computed, any bit of its output may
\* be set and every bit is used.
Op(opc, size, in) == [op |-> opc, size |-> size, val |-> 0, in |-> in,
                      nz |-> calc_mask(size), co |-> WordMask]

\* op_set_opcode with op_set_all_input: the operation keeps its output, and
\* the output the masks computed for what the operation was.
Become(t, opc, in) == [t EXCEPT !.op = opc, !.in = in]

\* How every simplification to an existing value is written: as a COPY that
\* RulePropagateCopy later removes.
Copy(t, vn) == Become(t, "Copy", <<vn>>)

IsConst(vn) == vn.op = "Const"
IsConstOf(vn, v) == IsConst(vn) /\ vn.val = v
is_const0(vn) == IsConstOf(vn, 0)
IsWritten(vn) == vn.op \notin {"Const", "Var"}
is_free(vn) == IsConst(vn)

\* One varnode.  Two constants are never one, even of the same value.
Same(a, b) == a = b /\ ~IsConst(a)

\* The other input of a binary operation.
Other(i) == 3 - i

-----------------------------------------------------------------------------
(* Words.                                                                  *)

BitAnd(a, b) == a & b
BitOr(a, b)  == a + b - BitAnd(a, b)
BitXor(a, b) == a + b - 2 * BitAnd(a, b)
BitNot(a)    == WordMask - a

Neg(a, size) == (2^Bits(size) - a) % 2^Bits(size)

pcode_left(v, sa)  == IF sa >= Bits(WordBytes) THEN 0 ELSE (v * 2^sa) % 2^Bits(WordBytes)
pcode_right(v, sa) == IF sa >= Bits(WordBytes) THEN 0 ELSE v \div 2^sa

mostsigbit_set(v) ==
  IF v = 0 THEN -1 ELSE CHOOSE b \in 0 .. Bits(WordBytes) - 1 : v \div 2^b = 1
leastsigbit_set(v) ==
  IF v = 0 THEN -1 ELSE CHOOSE b \in 0 .. Bits(WordBytes) - 1 : (v \div 2^b) % 2 = 1
                                                              /\ v % 2^b = 0
coveringmask(v) == IF v = 0 THEN 0 ELSE 2^(mostsigbit_set(v) + 1) - 1
popcount(v) == Cardinality({b \in 0 .. Bits(WordBytes) - 1 : (v \div 2^b) % 2 = 1})

\* The pattern of a signed value in a word.
sext(v, size) == Signed(v, size) % 2^Bits(WordBytes)

-----------------------------------------------------------------------------
(* What an operation computes.                                             *)

BoolOps == {"BoolNegate", "BoolAnd", "BoolOr", "BoolXor"}
CarryOps == {"IntCarry", "IntScarry", "IntSborrow"}

\* PcodeOp::is_calculated_bool: the operations whose output is 0 or 1.
BoolOutput == ComparisonOps \cup BoolOps \cup CarryOps

is_commutative(opc) ==
  opc \in {"IntEqual", "IntNotequal", "IntAdd", "IntCarry", "IntScarry", "IntXor",
           "IntAnd", "IntOr", "IntMult", "BoolXor", "BoolAnd", "BoolOr"}

\* The quotient rounds toward zero.  Dividing by zero faults: no expression
\* under study does it.
Divide(opc, a, b, size) ==
  LET sa == Signed(a, size)
      sb == Signed(b, size)
      abs(n) == IF n < 0 THEN -n ELSE n
      sgn(n) == IF n < 0 THEN -1 ELSE 1
  IN CASE b = 0           -> 0
       [] opc = "IntDiv"  -> a \div b
       [] opc = "IntRem"  -> a % b
       [] opc = "IntSdiv" -> sgn(sa) * sgn(sb) * (abs(sa) \div abs(sb))
       [] opc = "IntSrem" -> sgn(sa) * (abs(sa) % abs(sb))

\* eval_const: the value of an operation whose inputs are the words a and b
\* of the varnodes x and y.
eval_const(opc, a, b, x, y) ==
  CASE opc \in {"Copy", "IntZext"} -> a
    [] opc = "IntAdd"     -> a + b
    [] opc = "IntSub"     -> a - b
    [] opc = "IntMult"    -> a * b
    [] opc = "IntAnd"     -> BitAnd(a, b)
    [] opc = "IntOr"      -> BitOr(a, b)
    [] opc = "IntXor"     -> BitXor(a, b)
    [] opc = "IntLeft"    -> pcode_left(a, b)
    [] opc = "IntRight"   -> pcode_right(a, b)
    [] opc = "IntSright"  -> Signed(a, x.size) \div 2^Min({b, Bits(WordBytes)})
    [] opc = "IntNegate"  -> BitNot(a)
    [] opc = "Int2comp"   -> -a
    [] opc = "IntSext"    -> Signed(a, x.size)
    [] opc = "Subpiece"   -> pcode_right(a, Bits(b))
    [] opc = "BoolNegate" -> Bool(a = 0)
    [] opc = "BoolAnd"    -> (a % 2) * (b % 2)
    [] opc = "BoolOr"     -> Bool((a % 2) + (b % 2) > 0)
    [] opc = "BoolXor"    -> (a + b) % 2
    [] opc = "Popcount"   -> popcount(a)
    [] opc = "Lzcount"    -> Bits(WordBytes) - 1 - mostsigbit_set(a)
    [] OTHER              -> Bool(Compare(opc, a, b, x.size))

\* The p-code semantics of sleigh::emu, which eval_const mirrors for all but
\* LZCOUNT (counted within the input's width here) and does not define for
\* the divisions and PIECE.
Evaluate(opc, a, b, x, y) ==
  CASE opc = "Piece"   -> a * 2^Bits(y.size) + b
    [] opc = "Lzcount" -> Bits(x.size) - 1 - mostsigbit_set(a)
    [] opc \in {"IntDiv", "IntRem", "IntSdiv", "IntSrem"} -> Divide(opc, a, b, x.size)
    [] OTHER           -> eval_const(opc, a, b, x, y)

\* The value of an expression when the variables have the values env gives.
RECURSIVE Value(_, _)
Value(t, env) ==
  CASE t.op = "Const" -> t.val % 2^Bits(t.size)
    [] t.op = "Var"   -> env[t.val]
    [] OTHER ->
         LET x == t.in[1]
             y == t.in[Len(t.in)]
         IN Evaluate(t.op, Value(x, env), Value(y, env), x, y) % 2^Bits(t.size)

RECURSIVE Variables(_)
Variables(t) ==
  IF t.op = "Var" THEN {<<t.val, t.size>>}
  ELSE UNION {Variables(t.in[i]) : i \in DOMAIN t.in}

\* Every assignment of values to the variables of an expression.
Environments(t) ==
  LET assign(v, envs) == {(v[1] :> n) @@ env : n \in 0 .. calc_mask(v[2]), env \in envs}
  IN FoldSet(assign, {<<>>}, Variables(t))

-----------------------------------------------------------------------------
(* Places in an expression: the sequence of input slots from the top.      *)

RECURSIVE At(_, _)
At(t, path) == IF path = <<>> THEN t ELSE At(t.in[Head(path)], Tail(path))

RECURSIVE Put(_, _, _)
Put(t, path, new) ==
  IF path = <<>> THEN new
  ELSE [t EXCEPT !.in[Head(path)] = Put(@, Tail(path), new)]

\* The places of the operations of an expression.
RECURSIVE Places(_)
Places(t) ==
  IF ~IsWritten(t) THEN {}
  ELSE {<<>>} \cup UNION {{<<i>> \o p : p \in Places(t.in[i])} : i \in DOMAIN t.in}

-----------------------------------------------------------------------------
(* When two varnodes certainly hold the same value.                        *)

\* 0: equal; 1: equal if their definitions are; -1: no.
functional_equality_level0(a, b) ==
  CASE a = b                     -> 0
    [] a.size # b.size           -> -1
    [] IsConst(a) \/ IsConst(b)  -> -1
    [] OTHER                     -> 1

\* Equal, or computed by the same operation from equal inputs.
functional_equality(a, b) ==
  \/ functional_equality_level0(a, b) = 0
  \/ /\ functional_equality_level0(a, b) = 1
     /\ IsWritten(a) /\ IsWritten(b) /\ a.op = b.op
     /\ LET same(i, j) == functional_equality_level0(a.in[i], b.in[j]) = 0
        IN IF Len(a.in) = 1 THEN same(1, 1)
           ELSE \/ same(1, 1) /\ same(2, 2)
                \/ is_commutative(a.op) /\ same(1, 2) /\ same(2, 1)

=============================================================================
