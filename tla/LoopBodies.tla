----------------------------- MODULE LoopBodies -----------------------------
(***************************************************************************)
(* The loops of a labelled flow graph (order_loop_bodies of                *)
(* decompile/structure.rs): for each head its tails, the block it exits    *)
(* to, and the edges that leave it, in the order in which they may be      *)
(* given up as gotos.  The innermost loops come first.                     *)
(*                                                                         *)
(* cfg is [outs, labels, rpo]; sequences keep the order in which the code  *)
(* meets blocks, since it decides which exit is preferred.                 *)
(***************************************************************************)
EXTENDS FlowGraph

None == 0

IsGoto(cfg, e) == cfg.labels[e] \cap {"irreducible", "goto"} # {}
\* Sources of edges into b, and targets of edges out of it, that are no gotos.
StructuredPreds(cfg, b) ==
  SelectSeq(Preds(cfg.outs, b),
            LAMBDA p : \E i \in DOMAIN cfg.outs[p] : cfg.outs[p][i] = b /\ ~IsGoto(cfg, <<p, i>>))
StructuredOuts(cfg, b) ==
  LET kept == {i \in DOMAIN cfg.outs[b] : ~IsGoto(cfg, <<b, i>>)}
  IN [k \in 1 .. Cardinality(kept) |-> cfg.outs[b][SetToSortSeq(kept, <)[k]]]

\* The sequence with those of more that it does not have yet.
Joined(seq, more) == FoldLeft(LAMBDA s, b : IF Contains(s, b) THEN s ELSE Append(s, b), seq, more)

\* The sequence with what More gives for its elements from the first-th on,
\* and for those that come in so, of which there are at most n.
GrowFrom(first, More(_, _), seq, n) ==
  LET grown[i \in first - 1 .. n] ==
        IF i = first - 1 THEN seq
        ELSE LET s == grown[i - 1] IN IF i > Len(s) THEN s ELSE Joined(s, More(s, i))
  IN grown[n]

-----------------------------------------------------------------------------
\* label_loops and merge_identical_heads: one loop for every block that back
\* edges lead to, its tails in reverse postorder.
Tails(cfg, h) ==
  {e[1] : e \in {d \in EdgesOf(cfg.outs) : Target(cfg.outs, d) = h /\ "back" \in cfg.labels[d]}}
label_loops(cfg) ==
  LET heads == SetToSortSeq({b \in Blocks(cfg.outs) : Tails(cfg, b) # {}}, <)
  IN [k \in DOMAIN heads |->
        [head |-> heads[k],
         tails |-> SetToSortSeq(Tails(cfg, heads[k]), LAMBDA a, b : cfg.rpo[a] < cfg.rpo[b]),
         depth |-> 0, container |-> None, exit |-> None, exitedges |-> <<>>]]

Ends(loop) == Joined(<<loop.head>>, loop.tails)

\* find_base: whatever reaches a tail without passing the head.
find_base(cfg, loop) ==
  GrowFrom(2, LAMBDA body, i : StructuredPreds(cfg, body[i]), Ends(loop), Cardinality(Blocks(cfg.outs)))

\* label_containments: the loops whose heads are in the body of loop k are
\* one deeper, and k contains them unless something deeper does.
label_containments(cfg, loops, k) ==
  LET body == ToSet(find_base(cfg, loops[k])) \ {loops[k].head}
      inside(m) == loops[m].head \in body
      deeper == [m \in DOMAIN loops |-> [loops[m] EXCEPT !.depth = IF inside(m) THEN @ + 1 ELSE @]]
      replaces(c) == c = None \/ deeper[c].depth < deeper[k].depth
  IN [m \in DOMAIN loops |->
        [deeper[m] EXCEPT !.container = IF inside(m) /\ replaces(@) THEN k ELSE @]]

-----------------------------------------------------------------------------
\* extend_to_container: the blocks the containing loop has beyond the body.
extend_to_container(cfg, loop, outer, body) ==
  LET stop == IF outer.head \in body THEN None ELSE outer.head
      more(set) == (UNION {ToSet(StructuredPreds(cfg, b)) : b \in set \ {stop}}) \ body
  IN Closure(more, ({outer.head} \cup ToSet(outer.tails) \cup ToSet(StructuredPreds(cfg, loop.head))) \ body,
             Cardinality(Blocks(cfg.outs)))

\* find_exit: the first way out, of a tail, else of the head, else of
\* another block; within the containing loop if there is one.
find_exit(cfg, loops, k, body) ==
  LET loop == loops[k]
      middle == SubSeq(body, Len(Ends(loop)) + 1, Len(body))
      leaving(b) == SelectSeq(StructuredOuts(cfg, b), LAMBDA c : ~Contains(body, c))
      trial == FlattenSeq([i \in DOMAIN loop.tails |-> leaving(loop.tails[i])])
               \o leaving(loop.head) \o FlattenSeq([i \in DOMAIN middle |-> leaving(middle[i])])
      inside == IF loop.container = None THEN ToSet(trial)
                ELSE extend_to_container(cfg, loop, loops[loop.container], ToSet(body))
      found == SelectSeq(trial, LAMBDA b : b \in inside)
  IN IF found = <<>> THEN None ELSE found[1]

\* order_tails: a tail with an edge to the exit comes first.
order_tails(cfg, tails, exit) ==
  LET able == {i \in DOMAIN tails : Contains(cfg.outs[tails[i]], exit)}
      i == Min(able)
  IN IF able = {} \/ exit = None THEN tails ELSE [tails EXCEPT ![1] = tails[i], ![i] = tails[1]]

\* extend: what is reached only from the body, short of the exit.
extend(cfg, exit, base) ==
  LET only(body, i, c) ==
        /\ c # exit
        /\ \A e \in EdgesOf(cfg.outs) :
             Target(cfg.outs, e) = c => e[1] \in ToSet(SubSeq(body, 1, i)) /\ ~IsGoto(cfg, e)
      more(body, i) == SelectSeq(cfg.outs[body[i]], LAMBDA c : only(body, i, c))
  IN GrowFrom(1, more, base, Cardinality(Blocks(cfg.outs)))

\* label_exit_edges: edges out of the middle, the head, the tails (the
\* preferred one last), and then those to the exit.
label_exit_edges(cfg, loop, base, body) ==
  LET middle == SubSeq(body, base + 1, Len(body))
      from == middle \o Joined(<<loop.head>>, Reverse(loop.tails))
      edges(b) == [i \in DOMAIN StructuredOuts(cfg, b) |-> <<b, StructuredOuts(cfg, b)[i]>>]
      all == FlattenSeq([i \in DOMAIN from |-> edges(from[i])])
  IN SelectSeq(all, LAMBDA e : e[2] # loop.exit /\ ~Contains(body, e[2]))
     \o SelectSeq(all, LAMBDA e : e[2] = loop.exit)

WithExit(cfg, loops, k) ==
  LET base == find_base(cfg, loops[k])
      exit == find_exit(cfg, loops, k, base)
      loop == [loops[k] EXCEPT !.exit = exit, !.tails = order_tails(cfg, @, exit)]
  IN [loop EXCEPT
        !.exitedges = label_exit_edges(cfg, loop, Len(Ends(loop)), extend(cfg, exit, base))]

\* The loops, deepest first.  A loop's tails are reordered before loops
\* around it are processed, which only uses them as a set.
order_loop_bodies(cfg) ==
  LET found == label_loops(cfg)
      nested == FoldLeft(LAMBDA loops, k : label_containments(cfg, loops, k), found,
                         [k \in DOMAIN found |-> k])
      order == SortSeq([k \in DOMAIN found |-> k],
                       LAMBDA a, b : \/ nested[a].depth > nested[b].depth
                                     \/ nested[a].depth = nested[b].depth /\ a < b)
  IN [i \in DOMAIN order |-> WithExit(cfg, nested, order[i])]
=============================================================================
