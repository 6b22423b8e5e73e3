---------------------------- MODULE MCJumpTable ----------------------------
(* Switches on a variable of 16 values: the address is linear in an index   *)
(* that the branches before the jump bound.                                 *)
EXTENDS JumpTable

x == Var(1, 1)
X == Var(2, 2)
Y == Var(2, 3)

C(size, v) == Const(size, v)
Bin(op, a, b) == Op(op, a.size, <<a, b>>)
Cmp(op, a, b) == Op(op, 1, <<a, b>>)
Zext(a) == Op("IntZext", 4, <<a>>)

MCImage == 64 .. 127
Out == 1
Away == 2

\* Addresses computed from an index.
Address(idx) == Bin("IntAdd", Bin("IntMult", Zext(idx), C(4, 2)), C(4, 64))

Branch(cond, toswitch, exit) ==
  [cond |-> calc_nzmask(cond), toswitch |-> toswitch, exit |-> exit]
MakeSite(branches, idx, between) ==
  [branches |-> branches, addr |-> calc_nzmask(Address(idx)), between |-> between]

\* The forms of idx < k: as compiled, and as simplified.
Bounds(idx, k) ==
  {Branch(Cmp("IntLess", idx, C(2, k)), TRUE, Out), Branch(Cmp("IntLessequal", idx, C(2, k - 1)), TRUE, Out),
   Branch(Cmp("IntLess", C(2, k - 1), idx), FALSE, Out), Branch(Cmp("IntLessequal", C(2, k), idx), FALSE, Out)}

Betweens == {"nothing", "statement", "block"}

\* An index with one guard on it, in any form, in the first and final graph.
Plain ==
  UNION {{[passes |-> <<MakeSite(<<early>>, X, between)>>, final |-> MakeSite(<<final>>, X, between)] :
            early \in Bounds(X, k), final \in Bounds(X, k), between \in Betweens} : k \in {1, 3, 6, 7}}

\* An index counted from some first case, written as a difference and later
\* as a sum, and compared before or after the extension.
Offset ==
  LET early(c) == Bin("IntSub", X, C(2, c))
      final(c) == Bin("IntAdd", X, C(2, 16 - c))
  IN UNION {{[passes |-> <<MakeSite(<<e>>, early(c), between)>>, final |-> MakeSite(<<f>>, final(c), between)] :
               e \in Bounds(early(c), k), f \in Bounds(final(c), k), between \in {"nothing", "block"}} :
               c \in {1, 14}, k \in {4, 5}}

\* Bounded from both sides, by two branches, on the variable or on an offset.
TwoSided ==
  LET low(c) == Branch(Cmp("IntLess", X, C(2, c)), FALSE, Away)
      site(b, c, idx) == MakeSite(<<b, low(c)>>, idx, "nothing")
  IN {[passes |-> <<site(e, c, X)>>, final |-> site(f, c, X)] :
        e \in Bounds(X, 6), f \in Bounds(X, 6), c \in 1 .. 5}
     \cup {[passes |-> <<site(b, 2, Bin("IntAdd", X, C(2, 14)))>>,
            final |-> site(b, 2, Bin("IntAdd", X, C(2, 14)))] : b \in Bounds(X, 6)}

\* Bounded by a mask, by a sign, or by the size of a byte.
Unguarded ==
  LET site(idx) == MakeSite(<<>>, idx, "nothing")
      signed == MakeSite(<<Branch(Cmp("IntSless", X, C(2, 4)), TRUE, Out)>>, X, "nothing")
  IN {[passes |-> <<site(Bin("IntAnd", X, C(2, m)))>>, final |-> site(Bin("IntAnd", X, C(2, m)))] :
        m \in {1, 3, 6}}
     \cup {[passes |-> <<signed>>, final |-> signed], [passes |-> <<site(x)>>, final |-> site(x)],
           [passes |-> <<site(X)>>, final |-> site(X)]}

\* The flow that gives the index more than one value is found in a later pass.
Staged ==
  LET known(v) == [branches |-> <<>>, addr |-> C(4, 64 + 2 * v), between |-> "nothing"]
      whole(b) == MakeSite(<<b>>, X, "nothing")
      again(b, n) == [i \in 1 .. n |-> whole(b)]
  IN {[passes |-> <<known(v)>> \o again(b, n), final |-> whole(b)] :
        v \in {1, 3}, b \in Bounds(X, 4), n \in 1 .. 3}
     \cup {[passes |-> <<known(v), known(v)>>, final |-> known(v)] : v \in {1, 3}}

\* The final graph no longer shows the bounds: the two branches have become one.
Merged ==
  LET low == Cmp("IntLess", C(2, 1), X)
      high == Cmp("IntLess", X, C(2, 6))
      early == <<Branch(high, TRUE, Out), Branch(low, TRUE, Out)>>
      final == <<Branch(Cmp("BoolAnd", low, high), TRUE, Out)>>
  IN {[passes |-> <<MakeSite(early, X, "nothing")>>, final |-> MakeSite(final, X, "nothing")]}

\* The way out is one of the cases.
Shared ==
  LET b == [Branch(Cmp("IntLess", X, C(2, 3)), TRUE, Out) EXCEPT !.exit = 66]
      s == MakeSite(<<b>>, X, "nothing")
  IN {[passes |-> <<s>>, final |-> s]}

MCSites == Plain \cup Offset \cup TwoSided \cup Unguarded \cup Staged \cup Merged \cup Shared
=============================================================================
