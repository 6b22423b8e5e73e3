----------------------------- MODULE FlowGraph -----------------------------
(***************************************************************************)
(* The loop labels of a control-flow graph (structure_loops of             *)
(* decompile/structure.rs).  A graph is the sequence of its blocks'        *)
(* successors; block 1 is the entry and reaches every block.  An edge is   *)
(* <<block, out-index>>, and has a set of labels: "tree" and "back" from   *)
(* the depth-first search, "irreducible" when it enters a loop other than  *)
(* by its head.                                                            *)
(***************************************************************************)
EXTENDS Integers, Sequences, FiniteSets, SequencesExt, FiniteSetsExt

Blocks(outs) == DOMAIN outs
EdgesOf(outs) == UNION {{<<b, i>> : i \in DOMAIN outs[b]} : b \in Blocks(outs)}
Target(outs, e) == outs[e[1]][e[2]]

\* The set with all that More leads to from it, n times over.
Closure(More(_), set, n) ==
  LET closure[k \in 0 .. n] ==
        IF k = 0 THEN set ELSE LET inner == closure[k - 1] IN inner \cup More(inner)
  IN closure[n]

\* The sources of the edges into t, in the order of in_adjacency.
Preds(outs, t) ==
  FlattenSeq([b \in Blocks(outs) |-> [i \in DOMAIN SelectSeq(outs[b], LAMBDA c : c = t) |-> b]])

-----------------------------------------------------------------------------
\* A step of the depth-first search: the block on top of the stack is left,
\* or its next out-edge is labelled and, if it is a tree edge, followed.
\* state and istate are the stack, with the next out-edge of each block on
\* it; pre is the preorder, left the blocks already left, the latest first
\* (the reverse postorder), and last[b] the length of pre when b was left:
\* the descendants of b are the blocks of pre from b to there.
Explore(outs, st) ==
  LET b == Last(st.state)
      i == Last(st.istate)
      c == outs[b][i]
      flags == CASE ~Contains(st.pre, c) -> {"tree"}
                 [] Contains(st.left, c) -> {}
                 [] OTHER                -> {"back"}
      marked == [st EXCEPT !.labels[<<b, i>>] = flags, !.istate[Len(st.istate)] = i + 1]
  IN IF i > Len(outs[b])
     THEN [st EXCEPT !.last[b] = Len(st.pre), !.left = <<b>> \o @,
                     !.state = Front(@), !.istate = Front(@)]
     ELSE IF flags = {"tree"}
     THEN [marked EXCEPT !.pre = Append(@, c), !.state = Append(@, c), !.istate = Append(@, 1)]
     ELSE marked

\* A block is left once and an edge is labelled once.
SpanningTree(outs) ==
  LET steps == Cardinality(Blocks(outs)) + Cardinality(EdgesOf(outs))
      after[n \in 0 .. steps] ==
        IF n = 0 THEN [pre |-> <<1>>, state |-> <<1>>, istate |-> <<1>>, left |-> <<>>,
                       last |-> [b \in Blocks(outs) |-> 0], labels |-> [e \in EdgesOf(outs) |-> {}]]
        ELSE Explore(outs, after[n - 1])
  IN after[steps]

IsDescendant(st, x, y) ==
  LET at(b) == CHOOSE k \in DOMAIN st.pre : st.pre[k] = b
  IN at(x) <= at(y) /\ at(y) <= st.last[x]

-----------------------------------------------------------------------------
(* Tarjan's test for reducibility, over the heads x in reverse preorder.   *)

\* What reaches a back edge into x without passing x.
ReachUnder(outs, st, x, tails) ==
  LET entering(set) == {e \in EdgesOf(outs) : Target(outs, e) \in set /\ "irreducible" \notin st.labels[e]}
      more(set) == {y \in {st.copymap[e[1]] : e \in entering(set)} : IsDescendant(st, x, y)} \ {x}
  IN Closure(more, tails, Cardinality(Blocks(outs)))

\* mutant: the edge is taken for one from inside the loop
MarkNothing(outs, st, x) == st

\* Edges into that from outside x's descendants are irreducible.
MarkIrreducible(outs, st, x) ==
  LET tails == {e[1] : e \in {d \in EdgesOf(outs) : Target(outs, d) = x /\ "back" \in st.labels[d]}} \ {x}
      under == ReachUnder(outs, st, x, {st.copymap[y] : y \in tails})
      enters(e) == Target(outs, e) \in under /\ ~IsDescendant(st, x, st.copymap[e[1]])
  IN [st EXCEPT
        !.labels = [e \in DOMAIN @ |-> IF enters(e) THEN @[e] \cup {"irreducible"} ELSE @[e]],
        !.copymap = [b \in DOMAIN @ |-> IF b \in under THEN x ELSE @[b]]]

\* The labels, and the reverse-postorder number of every block.
structure_loops(outs) ==
  LET tree == SpanningTree(outs)
      st == [pre |-> tree.pre, last |-> tree.last, labels |-> tree.labels,
             copymap |-> [b \in Blocks(outs) |-> b]]
      marked == FoldLeft(LAMBDA s, x : MarkIrreducible(outs, s, x), st, Reverse(tree.pre))
  IN [labels |-> marked.labels,
      rpo |-> [b \in Blocks(outs) |-> CHOOSE k \in DOMAIN tree.left : tree.left[k] = b]]
=============================================================================
