------------------------------ MODULE Collapse ------------------------------
(***************************************************************************)
(* The rules that collapse a flow graph into structured C (the rule_*      *)
(* methods of decompile/structure.rs).  A graph g holds                    *)
(*   blocks    the nodes ever made; the first ones are the basic blocks    *)
(*   order     the nodes not yet part of another one, oldest first         *)
(*   gotos     the branches given up, in the order they were cut           *)
(*   default_goto  the switch heads whose default edge was cut             *)
(*   oriented, complex  basic blocks whose condition is stored negated, or *)
(*             is too long to print inside parentheses                     *)
(*   rpo       the reverse-postorder number of the basic blocks            *)
(* Out-edge 1 of a two-way block is the false one.  A rule returns the     *)
(* set of graphs it leads to: {} when it does not apply.                   *)
(***************************************************************************)
EXTENDS LoopBodies

Leaf(b, outs, labels, switch) ==
  [kind |-> "Basic", comps |-> <<>>, outs |-> outs, labels |-> labels,
   flags |-> IF switch THEN {"switch"} ELSE {}, negated |-> FALSE, flip |-> <<FALSE, FALSE>>]

Xor(p, q) == p # q
IsBasic(g, b) == g.blocks[b].kind = "Basic"
Out(g, b) == g.blocks[b].outs
Labels(g, b, i) == g.blocks[b].labels[i]
OutEdges(g, bs) == UNION {{<<b, i>> : i \in DOMAIN Out(g, b)} : b \in bs}
In(g, t) == {e \in OutEdges(g, ToSet(g.order)) : Out(g, e[1])[e[2]] = t}
OneIn(g, b) == \E e \in In(g, b) : In(g, b) = {e}
Isolated(g, b) == Out(g, b) = <<>> /\ In(g, b) = {}

is_goto_out(g, b, i) == Labels(g, b, i) \cap {"irreducible", "goto"} # {}
is_decision_out(g, b, i) == Labels(g, b, i) \cap {"irreducible", "back", "goto"} = {}
is_loop_dag_out(g, b, i) == Labels(g, b, i) \cap {"irreducible", "back", "exit", "goto"} = {}
is_switch_out(g, b) == "switch" \in g.blocks[b].flags
is_interior_goto_target(g, b) == "gotoin" \in g.blocks[b].flags
NoGotoOut(g, b) == \A i \in DOMAIN Out(g, b) : ~is_goto_out(g, b, i)
NoGotoIn(g, b) == \A e \in In(g, b) : ~is_goto_out(g, e[1], e[2])

entry_basic(g, b) ==
  LET entry[x \in DOMAIN g.blocks] == IF IsBasic(g, x) THEN x ELSE entry[g.blocks[x].comps[1]]
  IN entry[b]
exit_basic(g, b) ==
  LET exit[x \in DOMAIN g.blocks] == IF IsBasic(g, x) THEN x ELSE exit[Last(g.blocks[x].comps)]
  IN exit[b]
\* The basic blocks of every node.
LeafSets(g) ==
  LET leaves[x \in DOMAIN g.blocks] ==
        IF IsBasic(g, x) THEN {x} ELSE UNION {leaves[c] : c \in ToSet(g.blocks[x].comps)}
  IN leaves
Leaves(g, b) == LeafSets(g)[b]
block_index(g, b) == Min({g.rpo[l] : l \in Leaves(g, b)})

\* Every node is in the graph once, or once a component of one other node.
PlacedOnce(g) ==
  LET places(n) == DOMAIN g.blocks[n].comps
      part(n, k) == g.blocks[n].comps[k]
  IN /\ \A m, n \in DOMAIN g.blocks : \A j \in places(m), k \in places(n) :
          part(m, j) = part(n, k) => m = n /\ j = k
     /\ \A n \in DOMAIN g.blocks : \A k \in places(n) : part(n, k) \notin ToSet(g.order)
     /\ \A i, j \in DOMAIN g.order : g.order[i] = g.order[j] => i = j

\* The node b is a component of, or None.
Parent(g, b) ==
  LET above == {p \in DOMAIN g.blocks : Contains(g.blocks[p].comps, b)}
  IN IF above = {} THEN None ELSE Max(above)
current_form(g, b) ==
  LET form[x \in DOMAIN g.blocks] == IF Parent(g, x) = None THEN x ELSE form[Parent(g, x)]
  IN form[b]

is_complex(g, b) ==
  LET complex[x \in DOMAIN g.blocks] ==
        CASE IsBasic(g, x)               -> x \in g.complex
          [] g.blocks[x].kind = "CondOr" -> complex[g.blocks[x].comps[1]]
          [] OTHER                       -> TRUE
  IN complex[b]

\* The node whose branch a list ends in.
Resolved(g, b) ==
  LET end[x \in DOMAIN g.blocks] == IF g.blocks[x].kind = "List" THEN end[Last(g.blocks[x].comps)] ELSE x
  IN end[b]
is_oriented(g, b) == g.blocks[Resolved(g, b)].kind # "CondOr" /\ exit_basic(g, b) \in g.oriented

-----------------------------------------------------------------------------
\* The sequence without the elements of a set, in its order.
Without(seq, set) ==
  LET kept == {i \in DOMAIN seq : seq[i] \notin set}
      upto(i) == Cardinality({j \in kept : j <= i})
  IN [k \in 1 .. Cardinality(kept) |-> seq[CHOOSE i \in kept : upto(i) = k]]

\* The number install gives the node it makes.
Made(g) == Len(g.blocks) + 1

\* mutant: the parts of the node stay in the graph
InstallBeside(g, comps, kind, outs) ==
  [g EXCEPT !.blocks = Append(@, [kind |-> kind, comps |-> comps, outs |-> outs,
                                  labels |-> [i \in DOMAIN outs |-> {}],
                                  flags |-> {}, negated |-> FALSE, flip |-> <<FALSE, FALSE>>]),
            !.order = Append(Without(@, {comps[1]}), Made(g))]

\* install: one node in the place of comps.  It takes over the edges into the
\* first of them, the labels of the edges it keeps, and their flags.
install(g, comps, kind, outs) ==
  LET n == Made(g)
      set == ToSet(comps)
      label(t) == IF t \in set THEN {"back"}
                  ELSE UNION {Labels(g, e[1], e[2]) :
                                e \in {d \in OutEdges(g, set) : Out(g, d[1])[d[2]] = t}}
      flags == (UNION {{"gotoin"} \cap g.blocks[c].flags : c \in set})
               \cup (IF \E c \in set : is_switch_out(g, c) /\ ~(ToSet(Out(g, c)) \subseteq set)
                     THEN {"switch"} ELSE {})
      node == [kind |-> kind, comps |-> comps,
               outs |-> [i \in DOMAIN outs |-> IF outs[i] \in set THEN n ELSE outs[i]],
               labels |-> [i \in DOMAIN outs |-> label(outs[i])],
               flags |-> flags, negated |-> FALSE, flip |-> <<FALSE, FALSE>>]
      preds == {e[1] : e \in In(g, comps[1])} \ set
      redirected == [b \in DOMAIN g.blocks |->
                       IF b \notin preds THEN g.blocks[b]
                       ELSE [g.blocks[b] EXCEPT !.outs =
                               [i \in DOMAIN @ |-> IF @[i] \in set THEN n ELSE @[i]]]]
  IN [g EXCEPT !.blocks = Append(redirected, node),
               !.order = Append(Without(@, set), n)]

Negate(g, n, negated) == [g EXCEPT !.blocks[n].negated = negated]

\* The first i of the set for which a rule applies, and what it does there.
FirstOf(set, Then(_)) == IF set = {} THEN {} ELSE {Then(Min(set))}
TwoWay(g, b) == Len(Out(g, b)) = 2 /\ ~is_switch_out(g, b)

-----------------------------------------------------------------------------
(* Branches given up.                                                      *)

\* set_goto_branch, for a set of edges.
set_goto_branches(g, edges) ==
  LET targets == {Out(g, e[1])[e[2]] : e \in edges}
      label(b, i) == IF <<b, i>> \in edges THEN Labels(g, b, i) \cup {"goto"} ELSE Labels(g, b, i)
      marked(b) == [g.blocks[b] EXCEPT !.labels = [i \in DOMAIN Out(g, b) |-> label(b, i)],
                                       !.flags = IF b \in targets THEN @ \cup {"gotoin"} ELSE @]
  IN [g EXCEPT !.blocks = [b \in DOMAIN g.blocks |-> marked(b)]]
set_goto_branch(g, b, i) == set_goto_branches(g, {<<b, i>>})

\* A goto of a two-way block belongs to its condition; any other one follows
\* the whole node.
record_goto(g, b, i, conditional) ==
  [node |-> b, at |-> exit_basic(g, b), target |-> entry_basic(g, Out(g, b)[i]),
   conditional |-> conditional, negated |-> conditional /\ Xor(i = 1, is_oriented(g, b)),
   isbreak |-> FALSE]
remove_out_edge(g, b, i) ==
  [g EXCEPT !.blocks[b].outs = RemoveAt(@, i), !.blocks[b].labels = RemoveAt(@, i)]

rule_block_goto(g, b) ==
  LET cut(i) == [remove_out_edge(g, b, i) EXCEPT
                   !.gotos = Append(@, record_goto(g, b, i, TwoWay(g, b))),
                   !.default_goto = IF is_switch_out(g, b) /\ "default" \in Labels(g, b, i)
                                    THEN @ \cup {b} ELSE @]
  IN FirstOf({i \in DOMAIN Out(g, b) :
                is_goto_out(g, b, i) /\ (is_switch_out(g, b) \/ Len(Out(g, b)) \in {1, 2})}, cut)

-----------------------------------------------------------------------------
(* Sequences, conditions and loops.                                        *)

\* The block after x, and whether a list from b runs on from x to it.
After(g, x) == Out(g, x)[1]
RunsOn(g, b, x) ==
  /\ Len(Out(g, x)) = 1
  /\ After(g, x) # b
  /\ OneIn(g, After(g, x))
  /\ is_decision_out(g, x, 1)
  /\ ~is_switch_out(g, After(g, x))
\* The blocks from b on, the n-th after it being Line(g, b)[n].
Line(g, b) ==
  LET line[n \in Nat] == IF n = 0 THEN b ELSE After(g, line[n - 1])
  IN line

\* The list from b goes on as long as it can.
rule_cat(g, b) ==
  LET line == Line(g, b)
      starts == /\ Len(Out(g, b)) = 1
                /\ ~is_switch_out(g, b)
                /\ ~(OneIn(g, b) /\ \A e \in In(g, b) : Len(Out(g, e[1])) = 1)
      ends(n) == (\A k \in 0 .. n - 1 : RunsOn(g, b, line[k])) /\ ~RunsOn(g, b, line[n])
  IN {install(g, [i \in 1 .. n + 1 |-> line[i - 1]], "List", Out(g, line[n])) :
        n \in {m \in 1 .. Len(g.order) : starts /\ ends(m)}}

\* A two-way block with neither edge to itself nor given up.
PlainBranch(g, b) == TwoWay(g, b) /\ b \notin ToSet(Out(g, b)) /\ NoGotoOut(g, b)

MakeIf(g, b, i) ==
  Negate(install(g, <<b, Out(g, b)[i]>>, "If", <<Out(g, b)[3 - i]>>), Made(g),
         Xor(i = 1, is_oriented(g, b)))

rule_proper_if(g, b) ==
  LET fits(i) == LET clause == Out(g, b)[i] IN
        /\ OneIn(g, clause)
        /\ Out(g, clause) = <<Out(g, b)[3 - i]>>
        /\ ~is_switch_out(g, clause)
        /\ is_decision_out(g, b, i)
        /\ NoGotoOut(g, clause)
  IN FirstOf({i \in {1, 2} : PlainBranch(g, b) /\ fits(i)}, LAMBDA i : MakeIf(g, b, i))

\* mutant: the arm printed last is taken first
IfNoExitAsPrinted(g, b) ==
  LET fits(i) == LET clause == Out(g, b)[i] IN
        OneIn(g, clause) /\ Out(g, clause) = <<>> /\ ~is_switch_out(g, clause)
        /\ is_decision_out(g, b, i)
      clauses == {i \in {1, 2} : PlainBranch(g, b) /\ fits(i)}
  IN IF clauses = {} THEN {}
     ELSE {MakeIf(g, b, IF is_oriented(g, b) THEN Max(clauses) ELSE Min(clauses))}

\* ruleBlockIfNoExit: the clause never comes back.
rule_if_no_exit(g, b) ==
  LET fits(i) == LET clause == Out(g, b)[i] IN
        OneIn(g, clause) /\ Out(g, clause) = <<>> /\ ~is_switch_out(g, clause)
        /\ is_decision_out(g, b, i)
  IN FirstOf({i \in {1, 2} : PlainBranch(g, b) /\ fits(i)}, LAMBDA i : MakeIf(g, b, i))

rule_if_else(g, b) ==
  LET arm(i) == Out(g, b)[i]
      fits == /\ TwoWay(g, b)
              /\ \A i \in {1, 2} : /\ is_decision_out(g, b, i)
                                   /\ OneIn(g, arm(i)) /\ Len(Out(g, arm(i))) = 1
                                   /\ ~is_switch_out(g, arm(i)) /\ NoGotoOut(g, arm(i))
              /\ Out(g, arm(1)) = Out(g, arm(2))
              /\ Out(g, arm(1)) # <<b>>
      then == IF is_oriented(g, b) THEN 1 ELSE 2
  IN IF fits THEN {install(g, <<b, arm(then), arm(3 - then)>>, "IfElse", Out(g, arm(1)))} ELSE {}

\* mutant: a loop that tests inside keeps the condition to go on
WhileSameSense(g, b) ==
  LET fits(i) == LET body == Out(g, b)[i] IN
        OneIn(g, body) /\ Out(g, body) = <<b>> /\ ~is_switch_out(g, body)
      make(i) == [Negate(install(g, <<b, Out(g, b)[i]>>, "WhileDo", <<Out(g, b)[3 - i]>>), Made(g),
                         Xor(i = 1, is_oriented(g, b)))
                  EXCEPT !.blocks[Made(g)].flags = IF is_complex(g, b) THEN @ \cup {"overflow"} ELSE @]
  IN FirstOf({i \in {1, 2} : PlainBranch(g, b) /\ ~is_interior_goto_target(g, b) /\ fits(i)}, make)

\* A condition too long for the parentheses is tested inside the loop, where
\* it is the condition to leave it.
rule_while_do(g, b) ==
  LET fits(i) == LET body == Out(g, b)[i] IN
        OneIn(g, body) /\ Out(g, body) = <<b>> /\ ~is_switch_out(g, body)
      overflow == is_complex(g, b)
      loop(i) == Negate(install(g, <<b, Out(g, b)[i]>>, "WhileDo", <<Out(g, b)[3 - i]>>), Made(g),
                        Xor(Xor(i = 1, overflow), is_oriented(g, b)))
      make(i) == [loop(i) EXCEPT !.blocks[Made(g)].flags = IF overflow THEN @ \cup {"overflow"} ELSE @]
  IN FirstOf({i \in {1, 2} : PlainBranch(g, b) /\ ~is_interior_goto_target(g, b) /\ fits(i)}, make)

rule_do_while(g, b) ==
  LET make(i) == Negate(install(g, <<b>>, "DoWhile", <<Out(g, b)[3 - i]>>), Made(g),
                        Xor(i = 1, is_oriented(g, b)))
  IN FirstOf({i \in {1, 2} : TwoWay(g, b) /\ NoGotoOut(g, b) /\ Out(g, b)[i] = b}, make)

rule_inf_loop(g, b) ==
  IF Out(g, b) = <<b>> /\ NoGotoOut(g, b) THEN {install(g, <<b>>, "InfLoop", <<>>)} ELSE {}

\* ruleBlockOr: two conditions of which either leads to clause.
rule_short_circuit(g, b) ==
  LET second(i) == Out(g, b)[i]
      clause(i) == Out(g, b)[3 - i]
      shared(i) == {j \in {1, 2} : Out(g, second(i))[j] = clause(i)}
      fits(i) == /\ second(i) # b /\ OneIn(g, second(i)) /\ TwoWay(g, second(i))
                 /\ ~is_interior_goto_target(g, second(i))
                 /\ "back" \notin Labels(g, b, i)
                 /\ ~is_complex(g, second(i))
                 /\ clause(i) \notin {b, second(i)}
                 /\ shared(i) # {}
                 /\ Out(g, second(i))[3 - Min(shared(i))] # b
      make(i) == [install(g, <<b, second(i)>>, "CondOr",
                          <<Out(g, second(i))[3 - Min(shared(i))], clause(i)>>) EXCEPT
                    !.blocks[Made(g)].flip = <<i = 2, Min(shared(i)) = 1>>]
  IN FirstOf({i \in {1, 2} : TwoWay(g, b) /\ NoGotoOut(g, b) /\ fits(i)}, make)

-----------------------------------------------------------------------------
(* Switches.                                                               *)

\* The block the cases of b leave to: one that b reaches and that is no case
\* itself, else the one the cases go on to.
SwitchExit(g, b) ==
  LET case(i) == Out(g, b)[i]
      obvious == {i \in DOMAIN Out(g, b) :
                    case(i) = b \/ Len(Out(g, case(i))) > 1 \/ Cardinality(In(g, case(i))) > 1}
      onward == {i \in DOMAIN Out(g, b) : Out(g, case(i)) # <<>>}
  IN IF obvious # {} THEN case(Min(obvious))
     ELSE IF onward # {} THEN Out(g, case(Min(onward)))[1] ELSE None

IsCase(g, b, exit, c) ==
  /\ OneIn(g, c)
  /\ NoGotoIn(g, c)
  /\ Out(g, c) \in {<<>>, <<exit>>}
  /\ NoGotoOut(g, c)
  /\ ~is_switch_out(g, c)

\* check_switch_skips: edges straight to the exit other than the default one,
\* when the default goes elsewhere.
SwitchSkips(g, b, exit) ==
  LET edges == DOMAIN Out(g, b)
      default(i) == "default" \in Labels(g, b, i)
      elsewhere == b \in g.default_goto \/ \E i \in edges : default(i) /\ Out(g, b)[i] # exit
  IN {i \in edges : elsewhere /\ Out(g, b)[i] = exit /\ ~default(i)}

rule_switch(g, b) ==
  LET exit == SwitchExit(g, b)
      obvious == exit \in ToSet(Out(g, b))
      fits == /\ is_switch_out(g, b)
              /\ obvious => NoGotoIn(g, exit) /\ NoGotoOut(g, exit)
              /\ \A c \in ToSet(Out(g, b)) \ {exit} : IsCase(g, b, exit, c)
      skips == SwitchSkips(g, b, exit)
      cases == <<b>> \o Without(Out(g, b), {exit})
      made == install(g, cases, "Switch", IF exit = None THEN <<>> ELSE <<exit>>)
  IN IF ~fits THEN {}
     ELSE IF skips # {} THEN {set_goto_branches(g, {<<b, i>> : i \in skips})}
     ELSE {[made EXCEPT !.blocks[Made(g)].flags = @ \ {"switch"}]}

\* ruleCaseFallthru: a case that runs into the next one has that edge cut.
rule_case_fallthru(g, b) ==
  LET outs == ToSet(Out(g, b))
      other(c) == Cardinality(In(g, c)) > 2 \/ Len(Out(g, c)) > 1
      runson(c) == /\ ~other(c) /\ Len(Out(g, c)) = 1
                   /\ Len(Out(g, Out(g, c)[1])) <= 1
                   /\ {e[1] : e \in In(g, Out(g, c)[1])} = {b, c}
                   /\ Cardinality(In(g, Out(g, c)[1])) = 2
      fall == {c \in outs : runson(c)}
  IN IF is_switch_out(g, b) /\ b \notin outs /\ Cardinality({c \in outs : other(c)}) <= 1 /\ fall # {}
     THEN {set_goto_branches(g, {<<c, 1>> : c \in fall})} ELSE {}

-----------------------------------------------------------------------------
\* The first of a sequence of outcomes that is one.
FirstFiring(outcomes) ==
  LET fires == {i \in DOMAIN outcomes : outcomes[i] # {}}
  IN IF fires = {} THEN {} ELSE outcomes[Min(fires)]

\* The rules as collapse_internal tries them on a block, and those of its
\* last resort.
MainRules(g, b) ==
  IF Isolated(g, b) THEN {}
  ELSE FirstFiring(<<rule_block_goto(g, b), rule_cat(g, b), rule_proper_if(g, b), rule_if_else(g, b),
                     rule_while_do(g, b), rule_do_while(g, b), rule_inf_loop(g, b), rule_switch(g, b)>>)
LateRules(g, b) == FirstFiring(<<rule_if_no_exit(g, b), rule_case_fallthru(g, b)>>)

-----------------------------------------------------------------------------
(* scope_break: gotos of the collapsed graph to the block after the loop   *)
(* or switch around them print as break.                                   *)

RootExit(g, k) == IF k = Len(g.order) THEN None ELSE entry_basic(g, g.order[k + 1])

\* scope_break_walk: every node with the block its innermost loop or switch
\* leaves to; exit is the block printed after x.
scope_break_walk(g, root, after) ==
  LET walk[x \in DOMAIN g.blocks, exit \in Nat, loopexit \in Nat] ==
        LET kind == g.blocks[x].kind
            comps == g.blocks[x].comps
            scope == IF kind \in {"WhileDo", "DoWhile", "InfLoop", "Switch"} THEN exit ELSE loopexit
            next(k) ==
              CASE kind = "List"                     -> IF k < Len(comps) THEN entry_basic(g, comps[k + 1]) ELSE exit
                [] kind \in {"If", "IfElse", "Switch"} -> IF k = 1 THEN None ELSE exit
                [] kind = "WhileDo"                  -> IF k = 1 THEN None ELSE entry_basic(g, x)
                [] kind = "InfLoop"                  -> entry_basic(g, x)
                [] OTHER                             -> None
        IN {<<x, loopexit>>} \cup UNION {walk[comps[k], next(k), scope] : k \in DOMAIN comps}
  IN walk[root, after, None]

scope_break(g) ==
  LET scopes == UNION {scope_break_walk(g, g.order[k], RootExit(g, k)) : k \in DOMAIN g.order}
      leaves(r) == <<IF r.conditional THEN r.at ELSE r.node, r.target>> \in scopes
  IN [g EXCEPT !.gotos = [k \in DOMAIN @ |-> [@[k] EXCEPT !.isbreak = leaves(g.gotos[k])]]]
=============================================================================
