----------------------------- MODULE PrintFlow -----------------------------
(***************************************************************************)
(* What the printed C does (emit_structured and its helpers of             *)
(* decompile/printc.rs): the set of <<block, out-edge, next>>, one for     *)
(* every out-edge of a basic block in the flow graph, with the block       *)
(* control reaches next, or None at the end of the text.                   *)
(*                                                                         *)
(* g is a collapsed graph with cfg, the out-edges of its basic blocks, and *)
(* default, for each switch with an out-of-range target the edge that      *)
(* leads there, which no case value takes.                                 *)
(***************************************************************************)
EXTENDS Collapse

-----------------------------------------------------------------------------
\* operand_oriented
operand_oriented(g, x) == g.blocks[x].kind # "CondOr" /\ exit_basic(g, x) \in g.oriented

\* The out-edge a block takes when its condition, as it is stored, holds.
TrueEdge(g, b) == IF b \in g.oriented THEN 1 ELSE 2

NodeGotos(g, x) == SelectSeq(g.gotos, LAMBDA r : ~r.conditional /\ r.node = x)
ConditionGotos(g, b) == SelectSeq(g.gotos, LAMBDA r : r.conditional /\ r.at = b)
Landing(r, brk) == IF r.isbreak THEN brk ELSE r.target

\* next_flow_after: the block a switch's break is taken to lead to.
RECURSIVE next_flow_after(_, _)
next_flow_after(g, x) ==
  LET p == Parent(g, x)
      comps == g.blocks[p].comps
      k == CHOOSE i \in DOMAIN comps : comps[i] = x
  IN IF p = None THEN RootExit(g, CHOOSE i \in DOMAIN g.order : g.order[i] = x)
     ELSE CASE g.blocks[p].kind = "List" /\ k < Len(comps) -> entry_basic(g, comps[k + 1])
            [] g.blocks[p].kind \in {"WhileDo", "InfLoop"} -> entry_basic(g, p)
            [] g.blocks[p].kind = "DoWhile"                -> exit_basic(g, p)
            [] OTHER                                       -> next_flow_after(g, p)

-----------------------------------------------------------------------------
(* Flow is what a node does as a statement, its own goto included; Body    *)
(* what it does before that; Cond what it does as a condition, negated or  *)
(* not, that continues at t when the printed expression holds and else at  *)
(* f.  brk is where a break leads.                                         *)
RECURSIVE Flow(_, _, _, _)
RECURSIVE Body(_, _, _, _)
RECURSIVE IfFlow(_, _, _, _)
RECURSIVE Cond(_, _, _, _, _, _)
RECURSIVE SwitchFlow(_, _, _)

Flow(g, x, after, brk) ==
  LET own == NodeGotos(g, x)
  IN Body(g, x, IF own = <<>> THEN after ELSE Landing(own[1], brk), brk)

\* A condition whose edge was cut prints if (cond) goto; it is a block or a
\* short-circuit condition.
Branching(g, x, after, brk) ==
  LET cut == ConditionGotos(g, exit_basic(g, x))
  IN IF cut = <<>> THEN {<<exit_basic(g, x), i, after>> : i \in DOMAIN g.cfg[exit_basic(g, x)]}
     ELSE Cond(g, x, cut[1].negated, Landing(cut[1], brk), after, brk)

\* A sequence of nodes, before the k-th.
Run(g, comps, k, after, brk) ==
  UNION {Flow(g, comps[i], IF i < Len(comps) THEN entry_basic(g, comps[i + 1]) ELSE after, brk) : i \in 1 .. k}

Body(g, x, after, brk) ==
  LET node == g.blocks[x]
      c == node.comps
      at(k) == entry_basic(g, c[k])
  IN CASE node.kind \in {"Basic", "CondOr"} -> Branching(g, x, after, brk)
       [] node.kind = "List" -> Run(g, c, Len(c), after, brk)
       [] node.kind \in {"If", "IfElse"} -> IfFlow(g, x, after, brk)
       [] node.kind = "WhileDo" ->
            (IF "overflow" \in node.flags THEN Cond(g, c[1], node.negated, after, at(2), after)
             ELSE Cond(g, c[1], node.negated, at(2), after, after))
            \cup Flow(g, c[2], at(1), after)
       [] node.kind = "DoWhile" -> Cond(g, c[1], node.negated, at(1), after, after)
       [] node.kind = "InfLoop" -> Flow(g, c[1], at(1), after)
       [] node.kind = "Switch" -> SwitchFlow(g, x, after)

\* emit_if, without the swap of its arms: an else arm that is an if itself is
\* printed as else if, past the goto emit_structured would print after it.
IfFlow(g, x, after, brk) ==
  LET node == g.blocks[x]
      c == node.comps
      otherwise == IF node.kind = "IfElse" THEN entry_basic(g, c[3]) ELSE after
  IN Cond(g, c[1], node.negated, entry_basic(g, c[2]), otherwise, brk)
     \cup Flow(g, c[2], after, brk)
     \cup (IF node.kind = "If" THEN {}
           ELSE IF g.blocks[c[3]].kind \in {"If", "IfElse"} THEN IfFlow(g, c[3], after, brk)
           ELSE Flow(g, c[3], after, brk))

\* render_cond_expr: a negation is pushed down to the operands, and turns
\* the or into an and.
Cond(g, x, neg, t, f, brk) ==
  LET node == g.blocks[x]
      c == node.comps
      sense(k) == Xor(Xor(neg, operand_oriented(g, c[k])), node.flip[k])
      second == entry_basic(g, c[2])
  IN CASE node.kind = "CondOr" ->
            Cond(g, c[1], sense(1), IF neg THEN second ELSE t, IF neg THEN f ELSE second, brk)
            \cup Cond(g, c[2], sense(2), t, f, brk)
       [] node.kind = "List" -> Run(g, c, Len(c) - 1, None, brk) \cup Cond(g, Last(c), neg, t, f, brk)
       [] OTHER -> LET b == exit_basic(g, x)
                       holds == IF neg THEN f ELSE t
                       fails == IF neg THEN t ELSE f
                   IN {<<b, TrueEdge(g, b), holds>>, <<b, 3 - TrueEdge(g, b), fails>>}

\* The Switch arm of emit_structured_body.
SwitchFlow(g, x, after) ==
  LET h == g.blocks[x].comps[1]
      cases == Tail(g.blocks[x].comps)
      default == {e \in DOMAIN g.cfg[h] : h \in DOMAIN g.default /\ g.default[h] = e}
      listed == DOMAIN g.cfg[h] \ default
      owners(b) == {k \in DOMAIN cases : b \in Leaves(g, cases[k])}
      beyond == {g.cfg[h][e] : e \in {d \in listed : owners(g.cfg[h][d]) = {}}}
      leaving(b) == IF b = next_flow_after(g, x) THEN after ELSE b
      case(b) == IF owners(b) = {} THEN leaving(b) ELSE entry_basic(g, cases[Min(owners(b))])
      entries == {entry_basic(g, cases[k]) : k \in DOMAIN cases}
      cuts == SelectSeq(NodeGotos(g, h), LAMBDA r : r.target \notin beyond)
      stray == SelectSeq(cuts, LAMBDA r : r.target \in entries)
      default_cuts == SelectSeq(cuts, LAMBDA r : r.target \notin entries)
      unlisted(b) == b \in entries /\ \A e \in listed : owners(g.cfg[h][e]) # owners(b)
      otherwise(b) == IF unlisted(b) THEN b
                      ELSE IF default_cuts = <<>> THEN after ELSE leaving(default_cuts[1].target)
      dispatch == {<<h, e, case(g.cfg[h][e])>> : e \in listed}
                  \cup {<<h, e, otherwise(g.cfg[h][e])>> : e \in default}
      falls(k) == IF Len(Out(g, cases[k])) = 1 \/ k = Len(cases) THEN after ELSE entry_basic(g, cases[k + 1])
  IN (IF stray = <<>> THEN dispatch ELSE {<<d[1], d[2], Landing(stray[1], None)>> : d \in dispatch})
     \cup UNION {Flow(g, cases[k], falls(k), after) : k \in DOMAIN cases}

\* The printed function, and the flow graph it was made from.
PrintedFlow(g) == UNION {Flow(g, g.order[k], RootExit(g, k), None) : k \in DOMAIN g.order}
GraphFlow(g) == {<<e[1], e[2], Target(g.cfg, e)>> : e \in EdgesOf(g.cfg)}
=============================================================================
