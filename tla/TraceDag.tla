------------------------------ MODULE TraceDag ------------------------------
(***************************************************************************)
(* The search for edges that no structure will take (TraceDag of           *)
(* decompile/structure.rs).  Traces follow the edges of the acyclic part   *)
(* of the graph; a trace opens a branch point when all edges into the next *)
(* node have been followed, and a branch point is retired when all traces  *)
(* out of it end or meet in one node.  When nothing more opens or retires, *)
(* one trace is given up, and its edge is a likely goto.                   *)
(*                                                                         *)
(*   bps     branch points [from: the trace that opened it, top: its node, *)
(*           paths: its traces, depth]; the first is a root without a node *)
(*   trs     traces [bp: their branch point, bottom: the last node reached,*)
(*           dest: the next one, lump: the edges it stands for, terminal]  *)
(*   active  the traces still pushed, cursor the one looked at next        *)
(*   visit   the edges given up into each node                             *)
(*   likely  the edges <<from, to>> given up, the first first              *)
(***************************************************************************)
EXTENDS Collapse

DagOuts(g, b) == SelectSeq([i \in DOMAIN Out(g, b) |-> i], LAMBDA i : is_loop_dag_out(g, b, i))
DagIns(g, b) == {e \in In(g, b) : is_loop_dag_out(g, e[1], e[2])}

Trace(bp, bottom, dest) == [bp |-> bp, bottom |-> bottom, dest |-> dest, lump |-> 1, terminal |-> FALSE]
Ended(trace) == [trace EXCEPT !.bottom = None, !.dest = None, !.lump = 0, !.terminal = TRUE]

initialize(g, roots, finish) ==
  [bps |-> <<[from |-> None, top |-> None, paths |-> [k \in DOMAIN roots |-> k], depth |-> 0]>>,
   trs |-> [k \in DOMAIN roots |-> Trace(1, None, roots[k])],
   active |-> [k \in DOMAIN roots |-> k], cursor |-> 1,
   visit |-> [b \in DOMAIN g.blocks |-> 0], finish |-> finish, likely |-> <<>>, failed |-> FALSE]

Point(td, tr) == td.bps[td.trs[tr].bp]
Position(seq, x) == CHOOSE k \in DOMAIN seq : seq[k] = x

-----------------------------------------------------------------------------
\* check_retirement: looked at through the first trace of the branch point.
check_retirement(td, tr) ==
  LET bp == Point(td, tr)
      going == {td.trs[p].dest : p \in {q \in ToSet(bp.paths) : ~td.trs[q].terminal}}
  IN /\ bp.paths[1] = tr
     /\ ToSet(bp.paths) \subseteq ToSet(td.active)
     /\ Cardinality(going) <= (IF bp.depth = 0 THEN 0 ELSE 1)

\* retire_branch: the trace that opened the branch point goes on for it.
retire_branch(td, tr) ==
  LET bp == Point(td, tr)
      live == SelectSeq(bp.paths, LAMBDA p : ~td.trs[p].terminal)
      rest == SelectSeq(td.active, LAMBDA t : ~Contains(bp.paths, t))
      opener == td.trs[bp.from]
      resumed == IF live = <<>> THEN Ended(opener)
                 ELSE [opener EXCEPT !.bottom = td.trs[live[1]].bottom, !.dest = td.trs[live[1]].dest,
                         !.lump = MapThenSumSet(LAMBDA p : td.trs[p].lump, ToSet(live))]
  IN IF bp.depth = 0 THEN [td EXCEPT !.active = rest, !.cursor = 1]
     ELSE [td EXCEPT !.trs[bp.from] = resumed, !.active = Append(rest, bp.from),
                     !.cursor = Len(rest) + 1]

\* check_open: every edge into the next node was followed or given up; the
\* node the search ends at only opens for the root.
check_open(g, td, tr) ==
  LET t == td.trs[tr]
      isroot == Point(td, tr).depth = 0
  IN /\ ~t.terminal
     /\ \/ isroot /\ t.bottom = None
        \/ /\ isroot \/ t.dest # td.finish
           /\ Cardinality(DagIns(g, t.dest)) <= t.lump + td.visit[t.dest]

open_branch(g, td, tr) ==
  LET top == td.trs[tr].dest
      outs == DagOuts(g, top)
      bp == Len(td.bps) + 1
      paths == [k \in DOMAIN outs |-> Len(td.trs) + k]
      rest == Remove(td.active, tr)
  IN IF outs = <<>> THEN [td EXCEPT !.trs[tr] = Ended(@), !.cursor = Position(td.active, tr)]
     ELSE [td EXCEPT
             !.bps = Append(@, [from |-> tr, top |-> top, paths |-> paths, depth |-> Point(td, tr).depth + 1]),
             !.trs = @ \o [k \in DOMAIN outs |-> Trace(bp, top, Out(g, top)[outs[k]])],
             !.active = rest \o paths,
             !.cursor = Len(rest) + 1]

-----------------------------------------------------------------------------
(* The trace to give up.                                                   *)

Ancestors(td, bp) ==
  LET above[x \in DOMAIN td.bps] ==
        {x} \cup (IF td.bps[x].from = None THEN {} ELSE above[td.trs[td.bps[x].from].bp])
  IN above[bp]
\* Branch points between two of them, by way of their nearest common one.
distance(td, a, b) ==
  LET common == Max({td.bps[c].depth : c \in Ancestors(td, a) \cap Ancestors(td, b)})
  IN td.bps[a].depth + td.bps[b].depth - 2 * common

\* BadEdgeScore, the least one being the worst edge: few siblings to the same
\* node, which has no way out, far from other traces to it, deep; then the
\* order in which the code sorts them.
Score(g, td, candidates, tr) ==
  LET t == td.trs[tr]
      rivals == {r \in candidates : td.trs[r].dest = t.dest} \ {tr}
      far == IF rivals = {} THEN -1 ELSE Min({distance(td, t.bp, td.trs[r].bp) : r \in rivals})
      top == Point(td, tr).top
  IN <<Cardinality({r \in rivals : td.trs[r].bp = t.bp}), IF Out(g, t.dest) = <<>> THEN 0 ELSE 1,
       -far, -Point(td, tr).depth, block_index(g, t.dest), IF top = None THEN -1 ELSE block_index(g, top),
       Position(Point(td, tr).paths, tr), Position(td.active, tr)>>
LexLess(s, t) == \E k \in DOMAIN s : s[k] < t[k] /\ \A j \in 1 .. k - 1 : s[j] = t[j]

\* mutant: no trace at the root is given up, however far it has come
NotAtRoot(td) == {tr \in ToSet(td.active) : ~td.trs[tr].terminal /\ td.trs[tr].bp # 1}

\* Virtual edges, into the nodes the search starts at, are never given up.
Candidates(td) ==
  {tr \in ToSet(td.active) : ~td.trs[tr].terminal /\ ~(td.trs[tr].bp = 1 /\ td.trs[tr].bottom = None)}
select_bad_edge(g, td) ==
  LET candidates == Candidates(td)
      score == [tr \in candidates |-> Score(g, td, candidates, tr)]
  IN CHOOSE tr \in candidates : \A r \in candidates \ {tr} : LexLess(score[tr], score[r])

remove_trace(td, tr) ==
  LET t == td.trs[tr]
      given == [td EXCEPT !.likely = Append(@, <<t.bottom, t.dest>>),
                          !.visit[t.dest] = @ + t.lump, !.cursor = 1]
  IN IF t.bottom # Point(td, tr).top THEN [given EXCEPT !.trs[tr] = Ended(@)]
     ELSE [given EXCEPT !.active = Remove(@, tr), !.bps[t.bp].paths = Remove(@, tr)]

-----------------------------------------------------------------------------
\* The next trace from the cursor on retires its branch point or opens one;
\* when there is none, one edge is given up.
PushTrace(g, td) ==
  LET n == Len(td.active)
      turn == [k \in 1 .. n |-> td.active[((td.cursor + k - 2) % n) + 1]]
      able == SelectSeq(turn, LAMBDA tr : check_retirement(td, tr) \/ check_open(g, td, tr))
      step == IF able = <<>> THEN remove_trace(td, select_bad_edge(g, td))
              ELSE IF check_retirement(td, able[1]) THEN retire_branch(td, able[1])
              ELSE open_branch(g, td, able[1])
  IN IF n = 0 THEN td
     ELSE IF able = <<>> /\ Candidates(td) = {} THEN [td EXCEPT !.failed = TRUE]
     ELSE step

\* push_branches, with a limit on the branches opened, retired and cut; a
\* search that comes to it has failed.  The code's limit counts every trace
\* looked at, and is larger by the factor edges + 16.
push_branches(g, start) ==
  LET edges == MapThenSumSet(LAMBDA b : Len(Out(g, b)) + 1, DOMAIN g.blocks)
      limit == 3 * edges + 16
      pushed[n \in 0 .. limit] == IF n = 0 THEN start ELSE PushTrace(g, pushed[n - 1])
      last == pushed[limit]
  IN IF last.active = <<>> THEN last ELSE [last EXCEPT !.failed = TRUE]

run_trace_dag(g, roots, finish) == push_branches(g, initialize(g, roots, finish))
=============================================================================
