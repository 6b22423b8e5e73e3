----------------------------- MODULE Structure -----------------------------
(***************************************************************************)
(* Turning a function's flow graph into C (structure and Structured of     *)
(* decompile/structure.rs, with the two actions that orient branches): the *)
(* graph is collapsed three times, to find the conditions to store         *)
(* negated, to find the if/else arms to swap, and to print.                *)
(*                                                                         *)
(*   subject  the function: its out-edges, the switches and their          *)
(*            out-of-range targets, the blocks that are too complex to     *)
(*            print in a condition, the ones whose negated condition is a  *)
(*            single comparison (clean), and those whose condition has a   *)
(*            preferred complement (flips)                                 *)
(*   round    how many times it was collapsed before                       *)
(*   stage    what collapse_all does next                                  *)
(*   g        the graph (see Collapse)                                     *)
(*   index    the position the scan of g.order is at                       *)
(*   target   the block whose edge was just given up                       *)
(*   loops    the loops of the graph, the innermost first                  *)
(*   search   the loop at hand and the edges likely to be given up for it  *)
(*   shape    the nodes the first round made, as sets of basic blocks      *)
(***************************************************************************)
EXTENDS TraceDag

CONSTANT Subjects

\* The out-edges of a block lead to blocks of the function.
ASSUME SubjectsAssumption == \A s \in Subjects : s.outs \in Seq(Seq(1 .. Len(s.outs)))

VARIABLES subject, round, stage, g, index, target, loops, search, shape
vars == <<subject, round, stage, g, index, target, loops, search, shape>>

-----------------------------------------------------------------------------
\* install_switch_defaults marks the default edge after the loops are labelled.
LeafLabels(s, labelled, b) ==
  [i \in DOMAIN s.outs[b] |->
     (labelled[<<b, i>>] \cap {"back", "irreducible"})
     \cup (IF b \in DOMAIN s.default /\ s.default[b] = i THEN {"default"} ELSE {})]

\* The graph structure starts from.
Unstructured(s, oriented) ==
  LET found == structure_loops(s.outs)
  IN [blocks |-> [b \in Blocks(s.outs) |->
                    Leaf(b, s.outs[b], LeafLabels(s, found.labels, b),
                         b \in s.switch \/ Len(s.outs[b]) > 2)],
      order |-> [b \in Blocks(s.outs) |-> b], gotos |-> <<>>, default_goto |-> {},
      oriented |-> oriented, complex |-> s.complex, rpo |-> found.rpo,
      cfg |-> s.outs, default |-> s.default]

LoopsOf(s) ==
  LET found == structure_loops(s.outs)
  IN order_loop_bodies([outs |-> s.outs, labels |-> found.labels, rpo |-> found.rpo])

NoSearch == [iter |-> 1, likely |-> <<>>, next |-> 1, full |-> FALSE]

Init ==
  /\ subject \in Subjects
  /\ round = 0 /\ stage = "conditions" /\ index = 1 /\ target = None /\ search = NoSearch
  /\ shape = {}
  /\ g = Unstructured(subject, {})
  /\ loops = LoopsOf(subject)

-----------------------------------------------------------------------------
(* The scans.                                                              *)

\* The position of the first block from k on that fires, or None.
FirstFrom(gr, Rules(_, _), k) ==
  LET fires == {i \in k .. Len(gr.order) : Rules(gr, gr.order[i]) # {}}
  IN IF fires = {} THEN None ELSE Min(fires)

\* A pass goes on behind the block that fired; another one starts when it
\* changed anything.
NextFiring(gr, Rules(_, _), k) ==
  LET here == FirstFrom(gr, Rules, k) IN IF here # None THEN here ELSE FirstFrom(gr, Rules, 1)

Apply(Rules(_, _), k) ==
  /\ g' \in Rules(g, g.order[k])
  /\ index' = k + 1

\* collapse_conditions
CollapseCondition ==
  /\ stage = "conditions"
  /\ \E k \in {NextFiring(g, rule_short_circuit, index)} :
       IF k # None THEN Apply(rule_short_circuit, k) /\ UNCHANGED stage
       ELSE stage' = "rules" /\ index' = 1 /\ UNCHANGED g
  /\ UNCHANGED <<subject, round, target, loops, search, shape>>

\* collapse_internal: the block whose edge was given up comes first, alone.
CollapseTarget ==
  /\ stage = "rules" /\ target # None
  /\ g' \in MainRules(g, target)
  /\ target' = None
  /\ UNCHANGED <<subject, round, stage, index, loops, search, shape>>

CollapseInternal ==
  /\ stage = "rules" /\ target = None
  /\ \E k \in {NextFiring(g, MainRules, index)} :
       IF k # None THEN Apply(MainRules, k) /\ UNCHANGED stage
       ELSE stage' = "late" /\ index' = 1 /\ UNCHANGED g
  /\ UNCHANGED <<subject, round, target, loops, search, shape>>

\* The rules tried when no other applies; when they do not either, the graph
\* is collapsed or an edge must be given up.
CollapseLate ==
  /\ stage = "late"
  /\ \E k \in {FirstFrom(g, LateRules, 1)} :
       IF k # None THEN g' \in LateRules(g, g.order[k]) /\ stage' = "rules"
       ELSE /\ stage' = IF \A b \in ToSet(g.order) : Isolated(g, b) THEN "final" ELSE "select"
            /\ UNCHANGED g
  /\ UNCHANGED <<subject, round, index, target, loops, search, shape>>

-----------------------------------------------------------------------------
(* Choosing the edge to give up.                                           *)

\* get_current_edge: the edge between what two blocks are part of now.
CurrentEdge(e) ==
  {d \in OutEdges(g, ToSet(g.order)) :
     d[1] = current_form(g, e[1]) /\ Out(g, d[1])[d[2]] = current_form(g, e[2])}

\* loop_body_update: a tail that is not part of the head's node yet.
LoopBottom(loop) ==
  LET head == current_form(g, loop.head)
      apart == SelectSeq(loop.tails, LAMBDA t : current_form(g, t) # head)
  IN IF apart # <<>> THEN current_form(g, apart[1])
     ELSE IF Contains(Out(g, head), head) THEN head ELSE None

\* emit_likely_edges: the ways out, the official one last before the edge
\* back from the preferred tail.
emit_likely_edges(loop) ==
  LET head == current_form(g, loop.head)
      tails == [k \in DOMAIN loop.tails |-> current_form(g, loop.tails[k])]
      exit == IF loop.exit = None THEN None ELSE current_form(g, loop.exit)
      official == IF Contains(tails, exit) THEN None ELSE exit
      now(e) == <<current_form(g, e[1]), current_form(g, e[2])>>
      last == Last(loop.exitedges)
      held == loop.exitedges # <<>> /\ CurrentEdge(last) # {} /\ now(last)[2] = official
      listed == IF held THEN Front(loop.exitedges) ELSE loop.exitedges
      exits == SelectSeq(listed, LAMBDA e : CurrentEdge(e) # {})
      back(t) == [i \in DOMAIN SelectSeq(Out(g, t), LAMBDA c : c = head) |-> <<t, head>>]
      others == FlattenSeq(Reverse([k \in DOMAIN Tail(tails) |-> back(Tail(tails)[k])]))
  IN [k \in DOMAIN exits |-> now(exits[k])] \o others
     \o (IF held THEN <<now(last)>> ELSE <<>>) \o back(tails[1])

\* set_exit_marks: a search inside a loop does not leave it.
ExitsMarked(loop) ==
  LET exits == UNION {CurrentEdge(e) : e \in ToSet(loop.exitedges)}
  IN [g EXCEPT !.blocks = [b \in DOMAIN @ |->
        [@[b] EXCEPT !.labels = [i \in DOMAIN @ |-> IF <<b, i>> \in exits THEN @[i] \cup {"exit"} ELSE @[i]]]]]

\* The first loop from the one at hand on that is there still and has edges
\* to offer.
LiveLoop ==
  LET used(k) == k = search.iter /\ search.full /\ search.next > Len(search.likely)
      selfloop(k) == LoopBottom(loops[k]) = current_form(g, loops[k].head)
      live == {k \in search.iter .. Len(loops) : LoopBottom(loops[k]) # None /\ (selfloop(k) \/ ~used(k))}
  IN IF live = {} THEN Len(loops) + 1 ELSE Min(live)

Likely(k, edges) == [iter |-> k, likely |-> edges, next |-> 1, full |-> TRUE]

\* update_loop_body, for the loop LiveLoop found: a node that loops to itself
\* gives up that edge; a loop, what the search inside it and its exits offer;
\* behind the last loop, what the search from the roots finds.
FillLikely(k) ==
  LET loop == loops[k]
      head == current_form(g, loop.head)
      inner == run_trace_dag(ExitsMarked(loop), <<head>>, LoopBottom(loop))
      roots == SelectSeq(g.order, LAMBDA b : In(g, b) = {})
      dag == run_trace_dag(g, roots, None)
  IN IF k > Len(loops)
     THEN [search |-> Likely(k, dag.likely), failed |-> dag.failed \/ dag.likely = <<>>]
     ELSE IF LoopBottom(loop) = head
     THEN [search |-> Likely(k, <<<<head, head>>>>), failed |-> FALSE]
     ELSE [search |-> Likely(k, inner.likely \o emit_likely_edges(loop)), failed |-> inner.failed]

\* The likely edges at hand belong to the loop at hand and are not used up; a
\* node that loops to itself takes no other edge than that one.
Stocked(k) == k = search.iter /\ search.full /\ search.next <= Len(search.likely)
              /\ (k <= Len(loops) => LET head == current_form(g, loops[k].head)
                                     IN LoopBottom(loops[k]) = head => search.likely = <<<<head, head>>>>)

UpdateLoopBody ==
  /\ stage = "select" /\ ~Stocked(LiveLoop)
  /\ \E filled \in {FillLikely(LiveLoop)} :
       /\ search' = filled.search
       /\ stage' = IF filled.failed THEN "stuck" ELSE stage
  /\ UNCHANGED <<subject, round, g, index, target, loops, shape>>

\* select_goto: the next likely edge that is there still.
SelectGoto ==
  /\ stage = "select" /\ Stocked(LiveLoop)
  /\ \E e \in {search.likely[search.next]} :
       IF CurrentEdge(e) = {} THEN UNCHANGED <<g, stage, target, index>>
       ELSE \E c \in {Min({d[2] : d \in CurrentEdge(e)})} :
              /\ g' = set_goto_branch(g, current_form(g, e[1]), c)
              /\ target' = current_form(g, e[1])
              /\ stage' = "rules" /\ index' = 1
  /\ search' = [search EXCEPT !.next = @ + 1]
  /\ UNCHANGED <<subject, round, loops, shape>>

-----------------------------------------------------------------------------
(* The finished graph, and what the next round starts from.                *)

\* last_op is a RETURN
EndsInReturn(x) ==
  LET last == Resolved(g, x)
  IN IsBasic(g, last) /\ subject.outs[last] = <<>> /\ last \notin subject.switch

\* compare_final_order: the entry first, what returns last.
FinalRank(x) ==
  <<IF block_index(g, x) = 1 THEN 0 ELSE 1, IF EndsInReturn(x) THEN 1 ELSE 0, block_index(g, x)>>
order_roots ==
  {roots \in SetToSeqs(ToSet(g.order)) :
     \A j, k \in DOMAIN roots : j < k => LexLess(FinalRank(roots[j]), FinalRank(roots[k]))}

Shape(gr) == {Leaves(gr, n) : n \in DOMAIN gr.blocks}

Finish ==
  /\ stage = "final"
  /\ \E roots \in order_roots : g' = scope_break([g EXCEPT !.order = roots])
  /\ shape' = IF round = 0 THEN Shape(g) ELSE shape
  /\ stage' = IF round = 2 THEN "printed" ELSE "oriented"
  /\ UNCHANGED <<subject, round, index, target, loops, search>>

Nodes(r) ==
  LET nodes[x \in DOMAIN g.blocks] == {x} \cup UNION {nodes[c] : c \in ToSet(g.blocks[x].comps)}
  IN nodes[r]
FinalNodes == UNION {Nodes(r) : r \in ToSet(g.order)}

\* compound_leaves: the blocks of a condition that a negation of it negates.
CompoundLeaves(cond) ==
  LET leaves[x \in DOMAIN g.blocks, flipped \in BOOLEAN] ==
        LET node == g.blocks[x]
        IN IF node.kind = "CondOr"
           THEN UNION {leaves[node.comps[k], Xor(flipped, node.flip[k])] : k \in {1, 2}}
           ELSE IF flipped THEN {} ELSE {exit_basic(g, x)}
  IN leaves[cond, FALSE]

\* branch_negations: the conditions printed negated, when all of the blocks
\* that takes can be negated cleanly.
branch_negations ==
  LET negated == {x \in FinalNodes : g.blocks[x].negated /\ g.blocks[x].kind \in {"If", "WhileDo", "DoWhile"}}
      cond(x) == g.blocks[x].comps[1]
      blocks(x) == CompoundLeaves(cond(x))
  IN UNION {blocks(x) : x \in {y \in negated : blocks(y) \subseteq subject.clean}}

\* if_else_splits
if_else_splits ==
  {exit_basic(g, g.blocks[x].comps[1]) : x \in {y \in FinalNodes : g.blocks[y].kind = "IfElse"}}

Restructure(oriented) ==
  /\ g' = Unstructured(subject, oriented)
  /\ round' = round + 1
  /\ stage' = "conditions" /\ index' = 1 /\ target' = None /\ search' = NoSearch
  /\ UNCHANGED <<subject, loops, shape>>

\* mutant: the branches are oriented again and again
OrientForever ==
  /\ stage = "oriented" /\ round = 0
  /\ g' = Unstructured(subject, g.oriented \cup branch_negations)
  /\ stage' = "conditions" /\ index' = 1 /\ target' = None /\ search' = NoSearch
  /\ UNCHANGED <<subject, round, loops, shape>>

\* ActionOrientBranches stores the conditions printed negated the other way.
OrientBranches ==
  /\ stage = "oriented" /\ round = 0
  /\ Restructure(g.oriented \cup branch_negations)

\* ActionPreferComplement swaps the arms of an if/else whose condition has a
\* preferred complement.
PreferComplement ==
  /\ stage = "oriented" /\ round = 1
  /\ Restructure(SymDiff(g.oriented, if_else_splits \cap subject.flips))

Printed == stage = "printed" /\ UNCHANGED vars

Next ==
  \/ CollapseCondition \/ CollapseTarget \/ CollapseInternal \/ CollapseLate
  \/ UpdateLoopBody \/ SelectGoto
  \/ Finish \/ OrientBranches \/ PreferComplement \/ Printed

\* structure runs until it has printed: it keeps taking steps, or is done.
\* (In every other state Next is enabled and changes the state, so this is
\* WF_vars(Next).)
Runs == []<><<TRUE>>_vars \/ <>[](stage = "printed")

Spec == Init /\ [][Next]_vars /\ Runs

-----------------------------------------------------------------------------
\* structure_loops, Tarjan's test: without the edges it calls irreducible, the
\* entry still reaches every block, and the head of every back edge is on all
\* paths to its tail.
Reached(from, without) ==
  LET kept(b) == {i \in DOMAIN Out(g, b) : ~is_goto_out(g, b, i)}
      more(set) == (UNION {{Out(g, b)[i] : i \in kept(b)} : b \in set}) \ without
  IN Closure(more, from, Len(g.blocks))

Reducible ==
  stage = "conditions" /\ round = 0 /\ Len(g.blocks) = Len(subject.outs) =>
    /\ Reached({1}, {}) = Blocks(subject.outs)
    /\ \A e \in OutEdges(g, Blocks(subject.outs)) :
         "back" \in Labels(g, e[1], e[2]) /\ e[1] # Out(g, e[1])[e[2]] =>
           \/ Out(g, e[1])[e[2]] = 1
           \/ e[1] \notin Reached({1}, {Out(g, e[1])[e[2]]})

\* select_goto: as long as the graph is not collapsed, the traces and the loop
\* exits offer an edge to give up; neither clip_extra_roots nor the stop for a
\* graph that cannot be collapsed is reached.
NeverStuck == stage # "stuck"

\* install: while nodes are replaced, no basic block is lost, none is in two
\* of them, and no node is a part of another twice, so every block is printed
\* once.
BlocksKept ==
  /\ PlacedOnce(g)
  /\ UNION {Leaves(g, x) : x \in ToSet(g.order)} = Blocks(subject.outs)
  /\ \A x, y \in ToSet(g.order) : x # y => Leaves(g, x) \cap Leaves(g, y) = {}

\* ActionOrientBranches and ActionPreferComplement: storing conditions the
\* other way around does not change how the graph collapses, so the negations
\* the first round found are those of the graph that is printed.
RoundsAgree == stage = "printed" => Shape(g) = shape

\* collapse_all ends: no rule undoes another one's work, and the search for
\* an edge to give up never offers the same ones again.
Finishes == <>(stage = "printed")
=============================================================================
