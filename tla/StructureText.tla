--------------------------- MODULE StructureText ---------------------------
(***************************************************************************)
(* The text printed for the graph structure collapsed: what emit_structured*)
(* prints (PrintFlow) against the flow graph structure started from.       *)
(***************************************************************************)
EXTENDS Structure, PrintFlow

\* A switch head with an edge into the middle of one of its cases, or with no
\* edge left: emit_structured_body prints the case's label for that edge.
CutInside ==
  LET switches == {x \in FinalNodes : g.blocks[x].kind = "Switch"}
      inside(x) == UNION {Leaves(g, c) \ {entry_basic(g, c)} : c \in ToSet(Tail(g.blocks[x].comps))}
  IN \E h \in subject.switch : \A x \in switches :
       g.blocks[x].comps[1] = h => ToSet(g.cfg[h]) \cap inside(x) # {}

\* A loop or switch with a goto of its own behind it: scope_break_walk takes
\* the next block in the text for what its breaks lead to.
RECURSIVE Ending(_)
Ending(x) ==
  LET c == g.blocks[x].comps
  IN {x} \cup CASE g.blocks[x].kind = "List" -> Ending(Last(c))
                [] g.blocks[x].kind \in {"If", "IfElse", "Switch"} -> UNION {Ending(c[k]) : k \in 2 .. Len(c)}
                [] OTHER -> {}
GotoBehindLoop ==
  \E r \in ToSet(g.gotos) :
    /\ ~r.conditional
    /\ \E x \in Ending(r.node) : g.blocks[x].kind \in {"WhileDo", "DoWhile", "InfLoop", "Switch"}

\* The printed text does what the flow graph does: from every block, each
\* branch of the if, while, do, switch, goto and break statements leads to the
\* block the machine code goes to, through all the negations, swapped arms and
\* cut edges of three rounds; the two printed forms above apart.
FlowPreserved ==
  stage = "printed" /\ ~CutInside /\ ~GotoBehindLoop => PrintedFlow(g) = GraphFlow(g)
=============================================================================
