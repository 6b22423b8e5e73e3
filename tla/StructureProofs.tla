-------------------------- MODULE StructureProofs --------------------------
(***************************************************************************)
(* Structuring loses no block, for every function.  TLC runs Structure for *)
(* a few flow graphs; here a graph may have any number of blocks, cases    *)
(* and edges, reducible or not.                                            *)
(*                                                                         *)
(* BlocksKept is not inductive: a rule could install a node that is not in *)
(* the graph, or one that is entered from elsewhere, if an edge led out of *)
(* the graph.  GraphInv adds that the edges are closed, the shape of the   *)
(* nodes, and that only a switch has more than two out-edges.  One lemma,  *)
(* InstallKeeps, says when install is safe; every rule is shown to call it *)
(* that way.                                                               *)
(*                                                                         *)
(* The same lemmas give the reason collapse_all ends: every change it      *)
(* makes to the graph lowers a measure (Smaller).  The late rules and the  *)
(* cut need Settled for that, the main rules having nothing left to do.    *)
(*                                                                         *)
(* The leaf sets are a recursive function, and the nodes it recurs over    *)
(* grow with every rule.  Instead of an induction, Kept speaks of every    *)
(* solution of the defining equation: the new graph's solutions, cut back  *)
(* to the old nodes, are the old graph's.  rule_cat's line of successors   *)
(* does need an induction, by the least number at which it would fail.     *)
(***************************************************************************)
EXTENDS Structure, WellFoundedInduction, FiniteSetTheorems, TLAPS

-----------------------------------------------------------------------------
(* Numbers, sets and sequences.                                            *)

\* The order of the numbers, as a relation.
Below == {p \in Nat \X Nat : p[1] < p[2]}

\* A set of numbers that is not empty has a least one.
LEMMA LeastNat ==
  ASSUME NEW T \in SUBSET Nat, T # {}
  PROVE  \E n \in T : \A m \in T : n <= m
<1>1. IsWellFoundedOn(Below, Nat)
  BY NatLessThanWellFounded DEF Below, OpToRel
<1>2. PICK n \in T : \A m \in T : ~(<<m, n>> \in Below)
  BY <1>1, WFMin
<1>3. ASSUME NEW m \in T PROVE n <= m
  <2>1. ~(<<m, n>> \in Below)
    BY <1>2
  <2>2. <<m, n>> \in Nat \X Nat /\ <<m, n>>[1] = m /\ <<m, n>>[2] = n
    OBVIOUS
  <2>3. ~(m < n)
    BY <2>1, <2>2 DEF Below
  <2> QED BY <2>3
<1> QED
  BY <1>3

\* Min, the way the scans and the rules pick the first that fits, is in
\* its set.
LEMMA MinIn ==
  ASSUME NEW T \in SUBSET Nat, T # {}
  PROVE  Min(T) \in T
  BY LeastNat DEF Min

\* Two functions that agree on a set have the same values there.
LEMMA ImagesAgree ==
  ASSUME NEW S, NEW f, NEW h, \A c \in S : h[c] = f[c]
  PROVE  {h[c] : c \in S} = {f[c] : c \in S}
  OBVIOUS

\* A function on 1 .. n is a sequence.
LEMMA SeqFrom ==
  ASSUME NEW n \in Nat, NEW S, NEW f \in [1 .. n -> S]
  PROVE  f \in Seq(S)
  OBVIOUS

\* A sequence, its positions and its elements (Vec and its iteration).
LEMMA SeqElements ==
  ASSUME NEW S, NEW s \in Seq(S)
  PROVE  /\ ToSet(s) \subseteq S /\ s \in Seq(ToSet(s))
         /\ Len(s) \in Nat /\ DOMAIN s = 1 .. Len(s)
         /\ \A i \in 1 .. Len(s) : s[i] \in S /\ s[i] \in ToSet(s)
         /\ \A T : S \subseteq T => s \in Seq(T)
<1>1. Len(s) \in Nat /\ DOMAIN s = 1 .. Len(s) /\ \A i \in 1 .. Len(s) : s[i] \in S
  OBVIOUS
<1>2. ToSet(s) \subseteq S /\ \A i \in 1 .. Len(s) : s[i] \in ToSet(s)
  BY <1>1 DEF ToSet
<1>3. s \in Seq(ToSet(s))
  BY <1>1, <1>2
<1>4. ASSUME NEW T, S \subseteq T PROVE s \in Seq(T)
  BY <1>1, <1>4
<1> QED BY <1>1, <1>2, <1>3, <1>4

\* What Append (Vec::push in install) makes of a sequence.
LEMMA AppendIs ==
  ASSUME NEW s, s \in Seq(ToSet(s)), NEW e
  PROVE  /\ Append(s, e) \in Seq(ToSet(Append(s, e)))
         /\ Len(s) \in Nat /\ DOMAIN s = 1 .. Len(s)
         /\ Len(Append(s, e)) = Len(s) + 1
         /\ DOMAIN Append(s, e) = 1 .. Len(s) + 1
         /\ \A i \in 1 .. Len(s) : Append(s, e)[i] = s[i]
         /\ Append(s, e)[Len(s) + 1] = e
         /\ ToSet(Append(s, e)) = ToSet(s) \cup {e}
<1> DEFINE S == ToSet(s) \cup {e}
<1>1. s \in Seq(S) /\ e \in S
  OBVIOUS
<1> HIDE DEF S
<1>2. /\ Append(s, e) \in Seq(S)
      /\ Len(s) \in Nat /\ DOMAIN s = 1 .. Len(s)
      /\ Len(Append(s, e)) = Len(s) + 1
      /\ DOMAIN Append(s, e) = 1 .. Len(s) + 1
      /\ \A i \in 1 .. Len(s) : Append(s, e)[i] = s[i]
      /\ Append(s, e)[Len(s) + 1] = e
  BY <1>1
<1>3. ToSet(Append(s, e)) = S
  BY <1>2 DEF ToSet, S
<1> QED BY <1>2, <1>3 DEF S

\* A part of a finite set has fewer elements.
LEMMA ProperSubset ==
  ASSUME NEW S, IsFiniteSet(S), NEW T \in SUBSET S, T # S
  PROVE  /\ Cardinality(T) \in Nat /\ Cardinality(S) \in Nat
         /\ Cardinality(T) < Cardinality(S)
<1>1. IsFiniteSet(T) /\ Cardinality(T) <= Cardinality(S) /\ Cardinality(S) # Cardinality(T)
  BY FS_Subset
<1>2. Cardinality(T) \in Nat /\ Cardinality(S) \in Nat
  BY <1>1, FS_CardinalityType
<1> QED BY <1>1, <1>2

\* Without (retain and filter in the rules): the elements outside the set,
\* each as often as before.
LEMMA WithoutIs ==
  ASSUME NEW S, NEW s \in Seq(S), NEW set
  PROVE  /\ Without(s, set) \in Seq(S)
         /\ ToSet(Without(s, set)) = ToSet(s) \ set
         /\ (\A i, j \in {k \in DOMAIN s : s[k] \notin set} : s[i] = s[j] => i = j) =>
              \A i, j \in DOMAIN Without(s, set) : Without(s, set)[i] = Without(s, set)[j] => i = j
<1> DEFINE kept == {i \in DOMAIN s : s[i] \notin set}
           upto(i) == {j \in kept : j <= i}
           rank == [i \in kept |-> Cardinality(upto(i))]
           at(k) == CHOOSE i \in kept : Cardinality(upto(i)) = k
           n == Cardinality(kept)
<1>1. DOMAIN s = 1 .. Len(s) /\ Len(s) \in Nat
  OBVIOUS
<1>2. kept \subseteq 1 .. Len(s) /\ \A i \in kept : i \in Nat
  BY <1>1
<1>3. IsFiniteSet(kept) /\ n \in Nat
  <2>1. IsFiniteSet(1 .. Len(s))
    BY <1>1, FS_Interval
  <2>2. IsFiniteSet(kept)
    BY <2>1, <1>2, FS_Subset
  <2> QED BY <2>2, FS_CardinalityType
<1>4. \A i \in kept : upto(i) \in SUBSET kept /\ i \in upto(i)
  BY <1>2
<1>5. \A i \in kept : Cardinality(upto(i)) \in 1 .. n
  <2> SUFFICES ASSUME NEW i \in kept PROVE Cardinality(upto(i)) \in 1 .. n
    OBVIOUS
  <2>1. upto(i) \in SUBSET kept /\ upto(i) # {}
    BY <1>4
  <2> HIDE DEF upto, kept
  <2>2. IsFiniteSet(upto(i)) /\ Cardinality(upto(i)) <= n
    BY <2>1, <1>3, FS_Subset
  <2>3. Cardinality(upto(i)) \in Nat /\ Cardinality(upto(i)) # 0
    BY <2>1, <2>2, FS_CardinalityType, FS_EmptySet
  <2> QED BY <2>2, <2>3, <1>3
<1>6. \A i, j \in kept : i < j => Cardinality(upto(i)) < Cardinality(upto(j))
  <2> SUFFICES ASSUME NEW i \in kept, NEW j \in kept, i < j
               PROVE  Cardinality(upto(i)) < Cardinality(upto(j))
    OBVIOUS
  <2>1. upto(i) \in SUBSET upto(j) /\ j \notin upto(i) /\ j \in upto(j)
    BY <1>2
  <2>2. IsFiniteSet(upto(j))
    BY <1>3, <1>4, FS_Subset
  <2> HIDE DEF upto
  <2> QED BY <2>1, <2>2, ProperSubset
<1>7. \A i, j \in kept : Cardinality(upto(i)) = Cardinality(upto(j)) => i = j
  <2> SUFFICES ASSUME NEW i \in kept, NEW j \in kept, Cardinality(upto(i)) = Cardinality(upto(j)) 
               PROVE  i = j
    OBVIOUS
  <2>1. i \in Nat /\ j \in Nat
    BY <1>2
  <2> HIDE DEF upto, kept, n
  <2>2. Cardinality(upto(i)) \in Nat /\ Cardinality(upto(j)) \in Nat
    BY <1>3, <1>5
  <2>3. ~(i < j) /\ ~(j < i)
    BY <2>2, <1>6
  <2> QED BY <2>1, <2>3
<1> HIDE DEF kept, upto, n
<1>8. \A k \in 1 .. n : \E i \in kept : Cardinality(upto(i)) = k
  <2>1. rank \in Injection(kept, 1 .. n)
    BY <1>5, <1>7 DEF Injection, IsInjective
  <2>2. IsFiniteSet(1 .. n) /\ Cardinality(1 .. n) = n
    BY <1>3, FS_Interval
  <2>3. rank \in Surjection(kept, 1 .. n)
    BY <2>1, <2>2, FS_Injection DEF n
  <2> QED BY <2>3 DEF Surjection
<1>9. \A k \in 1 .. n : at(k) \in kept /\ Cardinality(upto(at(k))) = k
  BY <1>8
<1>10. \A i \in kept : \E k \in 1 .. n : at(k) = i
  BY <1>5, <1>7, <1>9
<1>11. Without(s, set) = [k \in 1 .. n |-> s[at(k)]]
  BY DEF Without, kept, upto, n
<1> HIDE DEF at
<1> DEFINE w == Without(s, set)
<1>12. DOMAIN w = 1 .. n /\ \A k \in 1 .. n : w[k] = s[at(k)]
  BY <1>11
<1>13. w \in Seq(S)
  <2>1. \A k \in 1 .. n : s[at(k)] \in S
    BY <1>9 DEF kept
  <2> QED BY <2>1, <1>3, <1>11
<1>14. ToSet(w) = ToSet(s) \ set
  <2>1. ToSet(w) = {s[at(k)] : k \in 1 .. n}
    BY <1>12 DEF ToSet
  <2>2. {s[at(k)] : k \in 1 .. n} = {s[i] : i \in kept}
    BY <1>9, <1>10
  <2>3. {s[i] : i \in kept} = ToSet(s) \ set
    BY DEF kept, ToSet
  <2> QED BY <2>1, <2>2, <2>3
<1>15. ASSUME \A i, j \in kept : s[i] = s[j] => i = j
       PROVE  \A i, j \in DOMAIN w : w[i] = w[j] => i = j
  <2> SUFFICES ASSUME NEW i \in 1 .. n, NEW j \in 1 .. n, w[i] = w[j] PROVE i = j
    BY <1>12
  <2>1. s[at(i)] = s[at(j)] /\ at(i) \in kept /\ at(j) \in kept
    BY <1>12, <1>9
  <2>2. at(i) = at(j)
    BY <2>1, <1>15
  <2> QED BY <2>2, <1>9
<1> QED BY <1>13, <1>14, <1>15 DEF kept

-----------------------------------------------------------------------------
(* The invariant of the graph.                                             *)

\* f solves the equation that LeafSets is a solution of.
IsLeafSets(G, f) ==
  f = [x \in DOMAIN G.blocks |->
         IF IsBasic(G, x) THEN {x} ELSE UNION {f[c] : c \in ToSet(G.blocks[x].comps)}]

\* LeafSets solves its equation, when anything does.
LEMMA LeafSetsAre ==
  ASSUME NEW G, \E f : IsLeafSets(G, f)
  PROVE  IsLeafSets(G, LeafSets(G))
<1>1. LeafSets(G) = CHOOSE f : IsLeafSets(G, f)
  BY DEF LeafSets, IsLeafSets
<1> QED BY <1>1

\* The fields of a graph and of a node.
GraphFields == {"blocks", "order", "gotos", "default_goto", "oriented", "complex", "rpo", "cfg", "default"}
NodeFields == {"kind", "comps", "outs", "labels", "flags", "negated", "flip"}

\* The types of the parts that the invariant is about.
Shaped(G) ==
  /\ DOMAIN G = GraphFields
  /\ G.blocks \in Seq(ToSet(G.blocks))
  /\ G.order \in Seq(DOMAIN G.blocks)
  /\ \A n \in DOMAIN G.blocks :
       /\ DOMAIN G.blocks[n] = NodeFields
       /\ G.blocks[n].comps \in Seq(DOMAIN G.blocks)
       /\ G.blocks[n].outs \in Seq(Nat)

\* The edges of the nodes in the graph lead to nodes in the graph.
Closed(G) == \A n \in ToSet(G.order) : ToSet(Out(G, n)) \subseteq ToSet(G.order)

\* A node in the graph that is no switch head has at most two out-edges.
Narrow(G) == \A n \in ToSet(G.order) : is_switch_out(G, n) \/ DOMAIN Out(G, n) \subseteq {1, 2}

\* With the leaf sets f, the nodes in the graph share out the blocks B.
Covers(G, f, B) ==
  /\ UNION {f[x] : x \in ToSet(G.order)} = B
  /\ \A x, y \in ToSet(G.order) : x # y => f[x] \cap f[y] = {}

\* There are leaf sets, and whichever they are they share out B: what a
\* recursive function is worth is known from its equation alone.
Kept(G, B) == (\E f : IsLeafSets(G, f)) /\ (\A f : IsLeafSets(G, f) => Covers(G, f, B))

\* What every rule keeps.
GraphInv(G, B) == Shaped(G) /\ Closed(G) /\ Narrow(G) /\ PlacedOnce(G) /\ Kept(G, B)

\* A graph with the same nodes in it, the same components and no new edges
\* keeps the invariant, in whatever order its nodes are (order_roots).
LEMMA SameParts ==
  ASSUME NEW G, NEW H, NEW B, GraphInv(G, B),
         DOMAIN H = GraphFields,
         H.blocks \in Seq(ToSet(H.blocks)),
         DOMAIN H.blocks = DOMAIN G.blocks,
         H.order \in Seq(DOMAIN G.blocks),
         ToSet(H.order) = ToSet(G.order),
         \A i, j \in DOMAIN H.order : H.order[i] = H.order[j] => i = j,
         \A n \in DOMAIN G.blocks :
            /\ DOMAIN H.blocks[n] = NodeFields
            /\ H.blocks[n].kind = G.blocks[n].kind
            /\ H.blocks[n].comps = G.blocks[n].comps
            /\ H.blocks[n].outs \in Seq(Nat)
            /\ ToSet(H.blocks[n].outs) \subseteq ToSet(G.blocks[n].outs),
         Narrow(H)
  PROVE  GraphInv(H, B)
<1>1. Shaped(H)
  BY DEF Shaped, GraphInv
<1>2. Closed(H)
  <2>1. ToSet(G.order) \subseteq DOMAIN G.blocks
    BY DEF GraphInv, Shaped, ToSet
  <2> QED BY <2>1 DEF GraphInv, Closed, Out
<1>3. PlacedOnce(H)
  <2>1. PlacedOnce(G)
    BY DEF GraphInv
  <2>2. ASSUME NEW m \in DOMAIN G.blocks, NEW n \in DOMAIN G.blocks,
               NEW j \in DOMAIN H.blocks[m].comps, NEW k \in DOMAIN H.blocks[n].comps,
               H.blocks[m].comps[j] = H.blocks[n].comps[k]
        PROVE  m = n /\ j = k
    <3>1. H.blocks[m].comps = G.blocks[m].comps /\ H.blocks[n].comps = G.blocks[n].comps
      OBVIOUS
    <3> QED BY <2>1, <2>2, <3>1 DEF PlacedOnce
  <2>3. ASSUME NEW n \in DOMAIN G.blocks, NEW k \in DOMAIN H.blocks[n].comps
        PROVE  H.blocks[n].comps[k] \notin ToSet(H.order)
    BY <2>1 DEF PlacedOnce
  <2> QED BY <2>2, <2>3 DEF PlacedOnce
<1>4. \A f : IsLeafSets(H, f) <=> IsLeafSets(G, f)
  <2>1. \A x \in DOMAIN G.blocks :
          (IsBasic(H, x) <=> IsBasic(G, x)) /\ H.blocks[x].comps = G.blocks[x].comps
    BY DEF IsBasic
  <2> DEFINE L(K, f, x) == IF IsBasic(K, x) THEN {x} ELSE UNION {f[c] : c \in ToSet(K.blocks[x].comps)}
  <2>2. \A f : \A x \in DOMAIN G.blocks : L(H, f, x) = L(G, f, x)
    BY <2>1
  <2>3. \A f : /\ IsLeafSets(H, f) <=> f = [x \in DOMAIN G.blocks |-> L(H, f, x)]
               /\ IsLeafSets(G, f) <=> f = [x \in DOMAIN G.blocks |-> L(G, f, x)]
    BY DEF IsLeafSets
  <2> HIDE DEF L
  <2> QED BY <2>2, <2>3
<1>5. Kept(H, B)
  BY <1>4 DEF GraphInv, Kept, Covers
<1> QED BY <1>1, <1>2, <1>3, <1>5 DEF GraphInv

-----------------------------------------------------------------------------
(* The measure the rules lower.                                            *)

\* The edges of the graph, its switch heads, and the edges not given up.
EdgeSet(G) == OutEdges(G, ToSet(G.order))
SwitchSet(G) == {b \in ToSet(G.order) : is_switch_out(G, b)}
OpenSet(G) == {e \in EdgeSet(G) : ~is_goto_out(G, e[1], e[2])}

\* H has fewer nodes than G; or as many, and fewer edges, or else fewer switch
\* heads, or else fewer edges that are not given up.
Fewer(H, G) == Cardinality(ToSet(H.order)) < Cardinality(ToSet(G.order))
Smaller(H, G) ==
  \/ Fewer(H, G)
  \/ /\ Cardinality(ToSet(H.order)) = Cardinality(ToSet(G.order))
     /\ \/ Cardinality(EdgeSet(H)) < Cardinality(EdgeSet(G))
        \/ /\ Cardinality(EdgeSet(H)) = Cardinality(EdgeSet(G))
           /\ \/ Cardinality(SwitchSet(H)) < Cardinality(SwitchSet(G))
              \/ /\ Cardinality(SwitchSet(H)) = Cardinality(SwitchSet(G))
                 /\ Cardinality(OpenSet(H)) < Cardinality(OpenSet(G))

\* The measure is made of numbers, so it cannot be lowered for ever.
LEMMA FiniteGraph ==
  ASSUME NEW G, Shaped(G)
  PROVE  /\ IsFiniteSet(ToSet(G.order)) /\ IsFiniteSet(EdgeSet(G))
         /\ IsFiniteSet(SwitchSet(G)) /\ IsFiniteSet(OpenSet(G))
         /\ Cardinality(ToSet(G.order)) \in Nat /\ Cardinality(EdgeSet(G)) \in Nat
         /\ Cardinality(SwitchSet(G)) \in Nat /\ Cardinality(OpenSet(G)) \in Nat
<1> DEFINE S == ToSet(G.order)
           E == EdgeSet(G)
           at(b) == {<<b, i>> : i \in DOMAIN Out(G, b)}
<1>1. G.order \in Seq(DOMAIN G.blocks) /\ S \subseteq DOMAIN G.blocks /\ Len(G.order) \in Nat
      /\ DOMAIN G.order = 1 .. Len(G.order) /\ G.order \in Seq(S)
  BY SeqElements DEF Shaped
<1>2. IsFiniteSet(S)
  <2>1. G.order \in Surjection(1 .. Len(G.order), S)
    BY <1>1 DEF Surjection, ToSet
  <2>2. IsFiniteSet(1 .. Len(G.order))
    <3>1. 1 \in Int /\ Len(G.order) \in Int
      BY <1>1
    <3> QED BY <3>1, FS_Interval
  <2> HIDE DEF S
  <2> QED BY <2>1, <2>2, FS_Surjection
<1>3. ASSUME NEW b \in S PROVE IsFiniteSet(at(b))
  <2>1. Len(Out(G, b)) \in Nat /\ DOMAIN Out(G, b) = 1 .. Len(Out(G, b))
    BY <1>1 DEF Shaped, Out
  <2>2. IsFiniteSet(DOMAIN Out(G, b))
    BY <2>1, FS_Interval
  <2> DEFINE f == [i \in DOMAIN Out(G, b) |-> <<b, i>>]
  <2>3. f \in Surjection(DOMAIN Out(G, b), at(b))
    BY DEF Surjection
  <2> HIDE DEF f, at
  <2> QED BY <2>2, <2>3, FS_Surjection
<1>4. IsFiniteSet(E)
  <2> DEFINE all == {at(b) : b \in S}
             f == [b \in S |-> at(b)]
  <2>1. IsFiniteSet(all)
    <3>1. f \in Surjection(S, all)
      BY DEF Surjection
    <3> HIDE DEF f, all, S
    <3> QED BY <1>2, <3>1, FS_Surjection
  <2>2. \A T \in all : IsFiniteSet(T)
    BY <1>3
  <2>3. E = UNION all
    BY DEF EdgeSet, OutEdges
  <2> HIDE DEF all, E
  <2> QED BY <2>1, <2>2, <2>3, FS_UNION
<1>5. IsFiniteSet(SwitchSet(G)) /\ IsFiniteSet(OpenSet(G))
  <2>1. SwitchSet(G) \in SUBSET S /\ OpenSet(G) \in SUBSET E
    BY DEF SwitchSet, OpenSet
  <2> HIDE DEF S, E
  <2> QED BY <2>1, <1>2, <1>4, FS_Subset
<1> QED BY <1>2, <1>4, <1>5, FS_CardinalityType

\* Two nodes out, one in: there is one less.
LEMMA FewerNodes ==
  ASSUME NEW S, IsFiniteSet(S), NEW set \in SUBSET S, NEW a \in set, NEW b \in set, a # b, NEW n
  PROVE  Cardinality((S \ set) \cup {n}) < Cardinality(S)
<1> DEFINE A == S \ {a}
           C == A \ {b}
           D == S \ set
<1>1. IsFiniteSet(A) /\ Cardinality(A) = Cardinality(S) - 1
  BY FS_RemoveElement
<1>2. b \in A
  OBVIOUS
<1>3. D \subseteq C
  OBVIOUS
<1> HIDE DEF A
<1>4. IsFiniteSet(C) /\ Cardinality(C) = Cardinality(A) - 1
  BY <1>1, <1>2, FS_RemoveElement
<1> HIDE DEF C, D
<1>5. IsFiniteSet(D) /\ Cardinality(D) <= Cardinality(C)
  BY <1>3, <1>4, FS_Subset
<1>6. Cardinality(D \cup {n}) = Cardinality(D) \/ Cardinality(D \cup {n}) = Cardinality(D) + 1
  BY <1>5, FS_AddElement
<1>7. Cardinality(S) \in Nat /\ Cardinality(D) \in Nat /\ Cardinality(C) \in Nat /\ Cardinality(A) \in Nat
  BY <1>1, <1>4, <1>5, FS_CardinalityType
<1>8. Cardinality(D \cup {n}) < Cardinality(S)
  BY <1>1, <1>4, <1>5, <1>6, <1>7
<1> QED BY <1>8 DEF D

-----------------------------------------------------------------------------
(* install: a new node takes the place of its components.                  *)

\* The edges into the components, led to the new node instead.
Redirected(outs, set, n) == [i \in DOMAIN outs |-> IF outs[i] \in set THEN n ELSE outs[i]]

\* The nodes outside that lead to the first component.
Entering(G, comps) == {e[1] : e \in In(G, comps[1])} \ ToSet(comps)

\* What install makes: one more node, with the components and the edges it
\* was given; the other nodes as they were, up to the edges into the
\* components.
LEMMA InstallIs ==
  ASSUME NEW G, Shaped(G), NEW comps, NEW kind, NEW outs, NEW H, H = install(G, comps, kind, outs)
  PROVE  /\ DOMAIN H = GraphFields
         /\ H.blocks \in Seq(ToSet(H.blocks))
         /\ Len(G.blocks) \in Nat /\ DOMAIN G.blocks = 1 .. Len(G.blocks)
         /\ DOMAIN H.blocks = 1 .. Made(G)
         /\ DOMAIN H.blocks[Made(G)] = NodeFields
         /\ H.blocks[Made(G)].kind = kind
         /\ H.blocks[Made(G)].comps = comps
         /\ H.blocks[Made(G)].outs = Redirected(outs, ToSet(comps), Made(G))
         /\ \A n \in DOMAIN G.blocks :
              /\ DOMAIN H.blocks[n] = NodeFields
              /\ H.blocks[n].kind = G.blocks[n].kind
              /\ H.blocks[n].comps = G.blocks[n].comps
              /\ H.blocks[n].flags = G.blocks[n].flags
              /\ H.blocks[n].outs = IF n \in Entering(G, comps)
                                    THEN Redirected(Out(G, n), ToSet(comps), Made(G)) ELSE Out(G, n)
         /\ H.order = Append(Without(G.order, ToSet(comps)), Made(G))
<1> DEFINE set == ToSet(comps)
           preds == {e[1] : e \in In(G, comps[1])} \ set
           label(t) == IF t \in set THEN {"back"}
                  ELSE UNION {Labels(G, e[1], e[2]) :
                                e \in {d \in OutEdges(G, set) : Out(G, d[1])[d[2]] = t}}
           flags == (UNION {{"gotoin"} \cap G.blocks[c].flags : c \in set})
               \cup (IF \E c \in set : is_switch_out(G, c) /\ ~(ToSet(Out(G, c)) \subseteq set)
                     THEN {"switch"} ELSE {})
           labels == [i \in DOMAIN outs |-> label(outs[i])]
           node == [kind |-> kind, comps |-> comps, outs |-> Redirected(outs, set, Made(G)),
                    labels |-> labels, flags |-> flags, negated |-> FALSE, flip |-> <<FALSE, FALSE>>]
           rest == [b \in DOMAIN G.blocks |->
                       IF b \notin preds THEN G.blocks[b]
                       ELSE [G.blocks[b] EXCEPT !.outs = Redirected(@, set, Made(G))]]
<1>1. H = [G EXCEPT !.blocks = Append(rest, node), !.order = Append(Without(@, set), Made(G))]
  BY DEF install, Redirected
<1> HIDE DEF preds, flags, labels, label, set
<1>2. DOMAIN H = GraphFields /\ H.blocks = Append(rest, node)
      /\ H.order = Append(Without(G.order, set), Made(G))
  <2> HIDE DEF node, rest
  <2> QED BY <1>1 DEF Shaped, GraphFields
<1>3. /\ DOMAIN node = NodeFields /\ node.kind = kind /\ node.comps = comps
      /\ node.outs = Redirected(outs, set, Made(G))
  BY DEF NodeFields
<1>4. Len(G.blocks) \in Nat /\ DOMAIN G.blocks = 1 .. Len(G.blocks)
  BY DEF Shaped
<1>5. rest \in Seq(ToSet(rest)) /\ Len(rest) = Len(G.blocks)
  <2>1. DOMAIN rest = 1 .. Len(G.blocks) /\ rest = [b \in 1 .. Len(G.blocks) |-> rest[b]]
    BY <1>4
  <2>2. \A b \in 1 .. Len(G.blocks) : rest[b] \in ToSet(rest)
    BY <2>1 DEF ToSet
  <2> HIDE DEF rest
  <2> QED BY <2>1, <2>2, <1>4
<1>6. \A n \in DOMAIN G.blocks :
              /\ DOMAIN rest[n] = NodeFields
              /\ rest[n].kind = G.blocks[n].kind
              /\ rest[n].comps = G.blocks[n].comps
              /\ rest[n].flags = G.blocks[n].flags
              /\ rest[n].outs = IF n \in preds THEN Redirected(Out(G, n), set, Made(G)) ELSE Out(G, n)
  BY DEF Shaped, NodeFields, Out
<1> HIDE DEF node, rest
<1>7. /\ H.blocks \in Seq(ToSet(H.blocks))
      /\ DOMAIN H.blocks = 1 .. Made(G)
      /\ H.blocks[Made(G)] = node
      /\ \A n \in 1 .. Len(G.blocks) : H.blocks[n] = rest[n]
  BY <1>2, <1>5, AppendIs DEF Made
<1>8. \A n \in DOMAIN G.blocks :
              /\ DOMAIN H.blocks[n] = NodeFields
              /\ H.blocks[n].kind = G.blocks[n].kind
              /\ H.blocks[n].comps = G.blocks[n].comps
              /\ H.blocks[n].flags = G.blocks[n].flags
              /\ H.blocks[n].outs = IF n \in preds THEN Redirected(Out(G, n), set, Made(G)) ELSE Out(G, n)
  BY <1>4, <1>6, <1>7
<1>9. /\ DOMAIN H.blocks[Made(G)] = NodeFields
      /\ H.blocks[Made(G)].kind = kind
      /\ H.blocks[Made(G)].comps = comps
      /\ H.blocks[Made(G)].outs = Redirected(outs, set, Made(G))
  BY <1>3, <1>7
<1> QED BY <1>2, <1>4, <1>7, <1>8, <1>9 DEF preds, set, Entering

\* Where redirected edges lead, as a sequence.
LEMMA RedirectedIs ==
  ASSUME NEW T, NEW outs \in Seq(T), NEW set, NEW n
  PROVE  Redirected(outs, set, n) \in Seq((T \ set) \cup {n})
<1>1. DOMAIN outs = 1 .. Len(outs) /\ Len(outs) \in Nat /\ \A i \in DOMAIN outs : outs[i] \in T
  OBVIOUS
<1>2. \A i \in DOMAIN outs : Redirected(outs, set, n)[i] \in (T \ set) \cup {n}
  BY <1>1 DEF Redirected
<1> QED BY <1>1, <1>2 DEF Redirected

\* Where redirected edges lead, as a set.
LEMMA RedirectedSet ==
  ASSUME NEW outs, NEW set, NEW n
  PROVE  ToSet(Redirected(outs, set, n)) \subseteq (ToSet(outs) \ set) \cup {n}
  BY DEF ToSet, Redirected

\* install keeps the invariant when its components are different nodes in
\* the graph, only the first is entered from outside and the new node has at
\* most two out-edges: no block is lost or placed twice, and no edge into a
\* component is left.
LEMMA InstallKeeps ==
  ASSUME NEW G, NEW B, GraphInv(G, B),
         NEW comps \in Seq(ToSet(G.order)), Len(comps) > 0,
         \A i, j \in DOMAIN comps : comps[i] = comps[j] => i = j,
         NEW outs \in Seq(ToSet(G.order)), DOMAIN outs \subseteq {1, 2},
         NEW kind, kind # "Basic",
         \A k \in DOMAIN comps : k # 1 => \A e \in In(G, comps[k]) : e[1] \in ToSet(comps)
  PROVE  GraphInv(install(G, comps, kind, outs), B)
<1> DEFINE H == install(G, comps, kind, outs)
           n == Made(G)
           set == ToSet(comps)
           kept == ToSet(G.order) \ set
<1>a. H = install(G, comps, kind, outs)
  OBVIOUS
<1> HIDE DEF H
<1>1. Shaped(G) /\ Closed(G) /\ Narrow(G) /\ PlacedOnce(G) /\ Kept(G, B)
  BY DEF GraphInv
<1>2. /\ DOMAIN H = GraphFields
      /\ H.blocks \in Seq(ToSet(H.blocks))
      /\ Len(G.blocks) \in Nat /\ DOMAIN G.blocks = 1 .. Len(G.blocks)
      /\ DOMAIN H.blocks = 1 .. n
      /\ DOMAIN H.blocks[n] = NodeFields
      /\ H.blocks[n].kind = kind
      /\ H.blocks[n].comps = comps
      /\ H.blocks[n].outs = Redirected(outs, set, n)
      /\ \A m \in DOMAIN G.blocks :
           /\ DOMAIN H.blocks[m] = NodeFields
           /\ H.blocks[m].kind = G.blocks[m].kind
           /\ H.blocks[m].comps = G.blocks[m].comps
           /\ H.blocks[m].flags = G.blocks[m].flags
           /\ H.blocks[m].outs = IF m \in Entering(G, comps)
                                 THEN Redirected(Out(G, m), set, n) ELSE Out(G, m)
      /\ H.order = Append(Without(G.order, set), n)
  <2>1. /\ DOMAIN H = GraphFields
        /\ H.blocks \in Seq(ToSet(H.blocks))
        /\ Len(G.blocks) \in Nat /\ DOMAIN G.blocks = 1 .. Len(G.blocks)
        /\ DOMAIN H.blocks = 1 .. n
        /\ H.order = Append(Without(G.order, set), n)
    BY <1>a, <1>1, InstallIs
  <2>2. /\ DOMAIN H.blocks[n] = NodeFields
        /\ H.blocks[n].kind = kind
        /\ H.blocks[n].comps = comps
        /\ H.blocks[n].outs = Redirected(outs, set, n)
    BY <1>a, <1>1, InstallIs
  <2>3. ASSUME NEW m \in DOMAIN G.blocks
        PROVE  /\ DOMAIN H.blocks[m] = NodeFields
               /\ H.blocks[m].kind = G.blocks[m].kind
               /\ H.blocks[m].comps = G.blocks[m].comps
               /\ H.blocks[m].flags = G.blocks[m].flags
    BY <1>a, <1>1, InstallIs
  <2>4. ASSUME NEW m \in DOMAIN G.blocks
        PROVE  H.blocks[m].outs = IF m \in Entering(G, comps)
                                  THEN Redirected(Out(G, m), set, n) ELSE Out(G, m)
    BY <1>a, <1>1, InstallIs
  <2> HIDE DEF n, set
  <2> QED BY <2>1, <2>2, <2>3, <2>4
<1>3. n = Len(G.blocks) + 1
  BY DEF Made
<1> HIDE DEF n, set
<1>4. ToSet(G.order) \subseteq DOMAIN G.blocks
  BY <1>1 DEF Shaped, ToSet
<1>5. DOMAIN H.blocks = DOMAIN G.blocks \cup {n} /\ n \notin DOMAIN G.blocks
  BY <1>2, <1>3
<1>6. set \subseteq ToSet(G.order) /\ comps[1] \in set
  BY DEF set, ToSet
<1>7. /\ H.order \in Seq(DOMAIN H.blocks)
      /\ ToSet(H.order) = kept \cup {n}
      /\ \A i, j \in DOMAIN H.order : H.order[i] = H.order[j] => i = j
  <2> DEFINE w == Without(G.order, set)
  <2>1. /\ w \in Seq(DOMAIN G.blocks)
        /\ ToSet(w) = kept
        /\ \A i, j \in DOMAIN w : w[i] = w[j] => i = j
    <3>1. G.order \in Seq(DOMAIN G.blocks)
      BY <1>1 DEF Shaped
    <3>2. \A i, j \in DOMAIN G.order : G.order[i] = G.order[j] => i = j
      BY <1>1 DEF PlacedOnce
    <3> QED BY <3>1, <3>2, WithoutIs
  <2> HIDE DEF w
  <2>2. w \in Seq(ToSet(w)) /\ n \notin ToSet(w)
    BY <2>1, <1>4, <1>5 DEF ToSet
  <2>3. H.order = Append(w, n)
    BY <1>2 DEF w
  <2>4. ToSet(H.order) = kept \cup {n}
    BY <2>1, <2>2, <2>3, AppendIs
  <2>5. H.order \in Seq(DOMAIN H.blocks)
    BY <2>1, <2>3, <1>5
  <2>6. \A i, j \in DOMAIN H.order : H.order[i] = H.order[j] => i = j
    <3>1. /\ Len(w) \in Nat /\ DOMAIN w = 1 .. Len(w) /\ DOMAIN H.order = 1 .. Len(w) + 1
          /\ \A i \in 1 .. Len(w) : H.order[i] = w[i] /\ H.order[i] # n
          /\ H.order[Len(w) + 1] = n
      BY <2>2, <2>3, AppendIs DEF ToSet
    <3> QED BY <3>1, <2>1
  <2> QED BY <2>4, <2>5, <2>6
<1>8. Shaped(H)
  <2>1. \A m \in DOMAIN G.blocks : H.blocks[m].outs \in Seq(Nat)
    <3> SUFFICES ASSUME NEW m \in DOMAIN G.blocks PROVE H.blocks[m].outs \in Seq(Nat)
      OBVIOUS
    <3>1. Out(G, m) \in Seq(Nat)
      BY <1>1 DEF Shaped, Out
    <3>2. Redirected(Out(G, m), set, n) \in Seq(Nat)
      <4>1. Redirected(Out(G, m), set, n) \in Seq((Nat \ set) \cup {n})
        BY <3>1, RedirectedIs
      <4>2. n \in Nat
        BY <1>2, <1>3
      <4>3. (Nat \ set) \cup {n} \subseteq Nat
        BY <4>2
      <4> QED BY <4>1, <4>3, SeqElements
    <3> QED BY <3>1, <3>2, <1>2
  <2>2. H.blocks[n].outs \in Seq(Nat)
    <3>1. Redirected(outs, set, n) \in Seq((ToSet(G.order) \ set) \cup {n})
      BY RedirectedIs
    <3>2. (ToSet(G.order) \ set) \cup {n} \subseteq Nat
      BY <1>2, <1>3, <1>4
    <3>3. Redirected(outs, set, n) \in Seq(Nat)
      BY <3>1, <3>2, SeqElements
    <3> QED BY <3>3, <1>2
  <2>3. ASSUME NEW m \in DOMAIN G.blocks PROVE H.blocks[m].comps \in Seq(DOMAIN H.blocks)
    <3>1. G.blocks[m].comps \in Seq(DOMAIN G.blocks)
      BY <1>1 DEF Shaped
    <3>2. G.blocks[m].comps \in Seq(DOMAIN H.blocks)
      BY <3>1, <1>5, SeqElements
    <3> QED BY <3>2, <1>2
  <2>4. H.blocks[n].comps \in Seq(DOMAIN H.blocks)
    BY <1>2, <1>4, <1>5
  <2> QED BY <1>2, <1>5, <1>7, <2>1, <2>2, <2>3, <2>4 DEF Shaped
<1>9. Closed(H)
  <2>1. ToSet(H.blocks[n].outs) \subseteq kept \cup {n}
    <3>1. ToSet(H.blocks[n].outs) \subseteq (ToSet(outs) \ set) \cup {n}
      BY <1>2, RedirectedSet
    <3>2. ToSet(outs) \subseteq ToSet(G.order)
      BY DEF ToSet
    <3> QED BY <3>1, <3>2
  <2>2. ASSUME NEW m \in kept PROVE ToSet(H.blocks[m].outs) \subseteq kept \cup {n}
    <3>1. ToSet(Out(G, m)) \subseteq ToSet(G.order) /\ m \in DOMAIN G.blocks /\ Out(G, m) \in Seq(Nat)
      BY <1>1, <1>4 DEF Closed, Shaped, Out
    <3>2. CASE m \in Entering(G, comps)
      <4>1. H.blocks[m].outs = Redirected(Out(G, m), set, n)
        BY <3>1, <3>2, <1>2
      <4>2. ToSet(Redirected(Out(G, m), set, n)) \subseteq (ToSet(Out(G, m)) \ set) \cup {n}
        BY RedirectedSet
      <4> QED BY <4>1, <4>2, <3>1
    <3>3. CASE m \notin Entering(G, comps)
      <4>1. H.blocks[m].outs = Out(G, m)
        BY <3>1, <3>3, <1>2
      <4>2. ASSUME NEW i \in DOMAIN Out(G, m), Out(G, m)[i] \in set PROVE FALSE
        <5>1. PICK k \in DOMAIN comps : comps[k] = Out(G, m)[i]
          BY <4>2 DEF set, ToSet
        <5>2. <<m, i>> \in In(G, comps[k])
          BY <5>1 DEF In, OutEdges
        <5>3. m \notin set
          OBVIOUS
        <5>4. <<m, i>>[1] = m
          OBVIOUS
        <5>5. CASE k = 1
          BY <5>2, <5>3, <5>4, <5>5, <3>3 DEF Entering, set
        <5>6. CASE k # 1
          BY <5>2, <5>3, <5>4, <5>6 DEF set
        <5> QED BY <5>5, <5>6
      <4> QED BY <4>1, <4>2, <3>1 DEF ToSet
    <3> QED BY <3>2, <3>3
  <2> QED BY <2>1, <2>2, <1>7 DEF Closed, Out
<1>10. PlacedOnce(H)
  <2>1. \A k \in DOMAIN comps : comps[k] \in set
    BY DEF set, ToSet
  <2>2. \A m \in DOMAIN G.blocks : \A k \in DOMAIN G.blocks[m].comps :
          G.blocks[m].comps[k] \notin ToSet(G.order) /\ G.blocks[m].comps[k] \in DOMAIN G.blocks
    BY <1>1 DEF PlacedOnce, Shaped
  <2>3. ASSUME NEW l \in DOMAIN H.blocks, NEW m \in DOMAIN H.blocks,
               NEW j \in DOMAIN H.blocks[l].comps, NEW k \in DOMAIN H.blocks[m].comps,
               H.blocks[l].comps[j] = H.blocks[m].comps[k]
        PROVE  l = m /\ j = k
    <3>1. CASE l = n /\ m = n
      BY <3>1, <2>3, <1>2
    <3>a. ASSUME NEW x \in DOMAIN H.blocks, NEW i \in DOMAIN H.blocks[x].comps, x # n
          PROVE  H.blocks[x].comps[i] \notin ToSet(G.order)
      <4>1. x \in DOMAIN G.blocks
        BY <3>a, <1>5
      <4>2. H.blocks[x].comps = G.blocks[x].comps
        BY <4>1, <1>2
      <4> QED BY <4>1, <4>2, <2>2
    <3>b. ASSUME NEW i \in DOMAIN H.blocks[n].comps
          PROVE  H.blocks[n].comps[i] \in ToSet(G.order)
      BY <2>1, <1>2, <1>6
    <3>2. CASE l = n /\ m # n
      BY <3>2, <3>a, <3>b, <2>3
    <3>3. CASE l # n /\ m = n
      BY <3>3, <3>a, <3>b, <2>3
    <3>4. CASE l # n /\ m # n
      <4>1. l \in DOMAIN G.blocks /\ m \in DOMAIN G.blocks
        BY <3>4, <1>5
      <4>2. H.blocks[l].comps = G.blocks[l].comps /\ H.blocks[m].comps = G.blocks[m].comps
        BY <4>1, <1>2
      <4> QED BY <4>1, <4>2, <2>3, <1>1 DEF PlacedOnce
    <3> QED BY <3>1, <3>2, <3>3, <3>4
  <2>4. ASSUME NEW m \in DOMAIN H.blocks, NEW k \in DOMAIN H.blocks[m].comps
        PROVE  H.blocks[m].comps[k] \notin ToSet(H.order)
    <3>1. CASE m = n
      <4>1. H.blocks[m].comps[k] \in set
        BY <3>1, <2>1, <1>2
      <4> QED BY <4>1, <1>4, <1>5, <1>6, <1>7
    <3>2. CASE m # n
      <4>1. m \in DOMAIN G.blocks /\ H.blocks[m].comps = G.blocks[m].comps
        BY <3>2, <1>2, <1>5
      <4>2. H.blocks[m].comps[k] \notin ToSet(G.order) /\ H.blocks[m].comps[k] \in DOMAIN G.blocks
        BY <4>1, <2>2
      <4> QED BY <4>2, <1>5, <1>7
    <3> QED BY <3>1, <3>2
  <2> QED BY <2>3, <2>4, <1>7 DEF PlacedOnce
<1>11. Kept(H, B)
  <2>1. \A m \in DOMAIN G.blocks : ToSet(G.blocks[m].comps) \subseteq DOMAIN G.blocks
    BY <1>1, SeqElements DEF Shaped
  <2>2. \A m \in DOMAIN G.blocks : (IsBasic(H, m) <=> IsBasic(G, m)) /\ H.blocks[m].comps = G.blocks[m].comps
    BY <1>2 DEF IsBasic
  <2>3. ~IsBasic(H, n) /\ ToSet(H.blocks[n].comps) = set
    BY <1>2 DEF IsBasic, set
  <2>4. set \subseteq DOMAIN G.blocks
    BY <1>4, <1>6
  <2>5. \E f : IsLeafSets(H, f)
    <3>1. PICK f : IsLeafSets(G, f)
      BY <1>1 DEF Kept
    <3> DEFINE h == [x \in DOMAIN H.blocks |-> IF x = n THEN UNION {f[c] : c \in set} ELSE f[x]]
    <3>2. /\ \A x \in DOMAIN G.blocks : h[x] = f[x]
          /\ h[n] = UNION {f[c] : c \in set}
          /\ h = [x \in DOMAIN H.blocks |-> h[x]]
      BY <1>5
    <3> HIDE DEF h
    <3>3. ASSUME NEW x \in DOMAIN H.blocks
          PROVE  h[x] = IF IsBasic(H, x) THEN {x} ELSE UNION {h[c] : c \in ToSet(H.blocks[x].comps)}
      <4>1. CASE x = n
        <5>1. {h[c] : c \in set} = {f[c] : c \in set}
          <6>1. \A c \in set : h[c] = f[c]
            BY <3>2, <2>4
          <6> QED BY <6>1, ImagesAgree
        <5> QED BY <5>1, <4>1, <3>2, <2>3
      <4>2. CASE x # n
        <5>1. x \in DOMAIN G.blocks
          BY <4>2, <1>5
        <5>2. {h[c] : c \in ToSet(G.blocks[x].comps)} = {f[c] : c \in ToSet(G.blocks[x].comps)}
          <6> DEFINE parts == ToSet(G.blocks[x].comps)
          <6>1. \A c \in parts : h[c] = f[c]
            BY <5>1, <3>2, <2>1
          <6> HIDE DEF parts
          <6>2. {h[c] : c \in parts} = {f[c] : c \in parts}
            BY <6>1, ImagesAgree
          <6> QED BY <6>2 DEF parts
        <5>3. f[x] = IF IsBasic(G, x) THEN {x} ELSE UNION {f[c] : c \in ToSet(G.blocks[x].comps)}
          BY <3>1, <5>1 DEF IsLeafSets
        <5> QED BY <5>1, <5>2, <5>3, <3>2, <2>2
      <4> QED BY <4>1, <4>2
    <3>4. IsLeafSets(H, h)
      BY <3>2, <3>3 DEF IsLeafSets
    <3> QED BY <3>4
  <2>6. ASSUME NEW h, IsLeafSets(H, h) PROVE Covers(H, h, B)
    <3> DEFINE f == [x \in DOMAIN G.blocks |-> h[x]]
    <3>1. \A x \in DOMAIN H.blocks :
             h[x] = IF IsBasic(H, x) THEN {x} ELSE UNION {h[c] : c \in ToSet(H.blocks[x].comps)}
      BY <2>6 DEF IsLeafSets
    <3>2. ASSUME NEW x \in DOMAIN G.blocks
          PROVE  f[x] = IF IsBasic(G, x) THEN {x} ELSE UNION {f[c] : c \in ToSet(G.blocks[x].comps)}
      <4>1. {h[c] : c \in ToSet(G.blocks[x].comps)} = {f[c] : c \in ToSet(G.blocks[x].comps)}
        BY <2>1
      <4> QED BY <4>1, <3>1, <2>2, <1>5
    <3>3. \A x \in DOMAIN G.blocks : f[x] = h[x]
      OBVIOUS
    <3>a. f = [x \in DOMAIN G.blocks |-> f[x]]
      OBVIOUS
    <3> HIDE DEF f
    <3>4. IsLeafSets(G, f)
      BY <3>2, <3>a DEF IsLeafSets
    <3>5. Covers(G, f, B)
      BY <3>4, <1>1 DEF Kept
    <3>6. h[n] = UNION {f[c] : c \in set}
      <4>1. {h[c] : c \in set} = {f[c] : c \in set}
        BY <3>3, <2>4
      <4> QED BY <4>1, <3>1, <2>3, <1>5
    <3>7. \A x \in kept : h[x] = f[x]
      BY <3>3, <1>4
    <3>8. UNION {h[x] : x \in ToSet(H.order)} = B
      <4>1. UNION {h[x] : x \in ToSet(H.order)} = (UNION {f[x] : x \in kept}) \cup h[n]
        BY <3>7, <1>7
      <4>2. (UNION {f[x] : x \in kept}) \cup (UNION {f[c] : c \in set}) = UNION {f[x] : x \in ToSet(G.order)}
        BY <1>6
      <4> QED BY <4>1, <4>2, <3>5, <3>6 DEF Covers
    <3>9. \A x \in kept : h[x] \cap h[n] = {}
      <4> SUFFICES ASSUME NEW x \in kept, NEW l \in h[x], l \in h[n] PROVE FALSE
        OBVIOUS
      <4>1. PICK c \in set : l \in f[c]
        BY <3>6
      <4>2. l \in f[x] /\ x # c /\ x \in ToSet(G.order) /\ c \in ToSet(G.order)
        BY <3>7, <1>6
      <4> QED BY <4>1, <4>2, <3>5 DEF Covers
    <3>10. \A x, y \in kept : x # y => h[x] \cap h[y] = {}
      BY <3>5, <3>7 DEF Covers
    <3> QED BY <3>8, <3>9, <3>10, <1>7 DEF Covers
  <2> QED BY <2>5, <2>6 DEF Kept
<1>12. Narrow(H)
  <2>1. DOMAIN Out(H, n) \subseteq {1, 2}
    BY <1>2 DEF Out, Redirected
  <2>2. ASSUME NEW m \in kept PROVE is_switch_out(H, m) \/ DOMAIN Out(H, m) \subseteq {1, 2}
    <3>1. m \in DOMAIN G.blocks /\ m \in ToSet(G.order)
      BY <1>4
    <3>2. H.blocks[m].flags = G.blocks[m].flags /\ DOMAIN Out(H, m) = DOMAIN Out(G, m)
      BY <3>1, <1>2 DEF Out, Redirected
    <3> QED BY <3>1, <3>2, <1>1 DEF Narrow, is_switch_out
  <2> QED BY <2>1, <2>2, <1>7 DEF Narrow
<1>13. GraphInv(H, B)
  BY <1>8, <1>9, <1>10, <1>11, <1>12 DEF GraphInv
<1> QED BY <1>13 DEF H

-----------------------------------------------------------------------------
(* Steps that leave the parts of the graph alone.                          *)

\* A graph with other labels and flags, and the rest as it was, keeps the
\* invariant.
LEMMA Repainted ==
  ASSUME NEW G, NEW B, GraphInv(G, B), NEW H,
         DOMAIN H = GraphFields, H.order = G.order,
         DOMAIN H.blocks = DOMAIN G.blocks,
         H.blocks = [n \in DOMAIN H.blocks |-> H.blocks[n]],
         \A n \in DOMAIN G.blocks :
            /\ DOMAIN H.blocks[n] = NodeFields
            /\ H.blocks[n].kind = G.blocks[n].kind
            /\ H.blocks[n].comps = G.blocks[n].comps
            /\ H.blocks[n].outs \in Seq(Nat)
            /\ ToSet(H.blocks[n].outs) \subseteq ToSet(G.blocks[n].outs),
         Narrow(H)
  PROVE  GraphInv(H, B)
<1>1. Shaped(G) /\ PlacedOnce(G)
  BY DEF GraphInv
<1>2. DOMAIN G.blocks = 1 .. Len(G.blocks) /\ Len(G.blocks) \in Nat
  BY <1>1, SeqElements DEF Shaped
<1>3. H.blocks \in Seq(ToSet(H.blocks))
  <2>1. H.blocks \in [1 .. Len(G.blocks) -> ToSet(H.blocks)]
    BY <1>2 DEF ToSet
  <2> QED BY <2>1, <1>2
<1>4. \A i, j \in DOMAIN H.order : H.order[i] = H.order[j] => i = j
  BY <1>1 DEF PlacedOnce
<1>5. H.order \in Seq(DOMAIN G.blocks)
  BY <1>1 DEF Shaped
<1> QED BY <1>3, <1>4, <1>5, SameParts

\* The edges are those of the nodes in the graph.
LEMMA SameEdges ==
  ASSUME NEW G, Shaped(G), NEW H, H.order = G.order,
         \A n \in DOMAIN G.blocks : H.blocks[n].outs = G.blocks[n].outs
  PROVE  EdgeSet(H) = EdgeSet(G)
<1>1. ToSet(G.order) \subseteq DOMAIN G.blocks
  BY SeqElements DEF Shaped
<1>2. \A n \in ToSet(G.order) : Out(H, n) = Out(G, n)
  BY <1>1 DEF Out
<1> QED BY <1>2 DEF EdgeSet, OutEdges

\* Setting a single field of a node.
SetFlags(G, n, v) == [G EXCEPT !.blocks[n].flags = v]
SetFlip(G, n, v) == [G EXCEPT !.blocks[n].flip = v]

\* Negating a node that needs no switch flag, or setting its flags, keeps the
\* invariant and the edges.
LEMMA FieldSet ==
  ASSUME NEW G, NEW B, GraphInv(G, B), NEW n \in DOMAIN G.blocks, DOMAIN Out(G, n) \subseteq {1, 2}, NEW v
  PROVE  \A H \in {Negate(G, n, v), SetFlags(G, n, v), SetFlip(G, n, v)} :
           /\ GraphInv(H, B) /\ DOMAIN H.blocks = DOMAIN G.blocks
           /\ H.order = G.order /\ EdgeSet(H) = EdgeSet(G) /\ Out(H, n) = Out(G, n)
<1>1. Shaped(G)
  BY DEF GraphInv
<1>2. ASSUME NEW field \in {"negated", "flags", "flip"},
             NEW H, H = [G EXCEPT !.blocks = [G.blocks EXCEPT ![n] = [G.blocks[n] EXCEPT ![field] = v]]]
      PROVE  /\ GraphInv(H, B) /\ DOMAIN H.blocks = DOMAIN G.blocks
             /\ H.order = G.order /\ EdgeSet(H) = EdgeSet(G) /\ Out(H, n) = Out(G, n)
  <2> DEFINE node == [G.blocks[n] EXCEPT ![field] = v]
  <2>1. DOMAIN G = GraphFields /\ \A m \in DOMAIN G.blocks : DOMAIN G.blocks[m] = NodeFields
    BY <1>1 DEF Shaped
  <2>2. DOMAIN node = NodeFields
    BY <2>1
  <2>3. node.kind = G.blocks[n].kind /\ node.comps = G.blocks[n].comps /\ node.outs = G.blocks[n].outs
    BY <2>1 DEF NodeFields
  <2> HIDE DEF node
  <2> DEFINE bs == [G.blocks EXCEPT ![n] = node]
  <2>4. DOMAIN bs = DOMAIN G.blocks /\ \A m \in DOMAIN G.blocks : bs[m] = IF m = n THEN node ELSE G.blocks[m]
    OBVIOUS
  <2>a. bs = [m \in DOMAIN bs |-> bs[m]]
    OBVIOUS
  <2>5. H = [G EXCEPT !.blocks = bs]
    BY <1>2 DEF node
  <2> HIDE DEF bs
  <2>6. DOMAIN H = GraphFields /\ H.blocks = bs /\ H.order = G.order
    BY <2>1, <2>5 DEF GraphFields
  <2>7. \A m \in DOMAIN G.blocks : G.blocks[m].outs \in Seq(Nat)
    BY <1>1 DEF Shaped
  <2>8. \A m \in DOMAIN G.blocks :
            /\ DOMAIN H.blocks[m] = NodeFields
            /\ H.blocks[m].kind = G.blocks[m].kind
            /\ H.blocks[m].comps = G.blocks[m].comps
            /\ H.blocks[m].outs = G.blocks[m].outs
    BY <2>1, <2>2, <2>3, <2>4, <2>6
  <2>b. Narrow(H)
    <3>1. \A m \in DOMAIN G.blocks : m # n => H.blocks[m] = G.blocks[m]
      BY <2>4, <2>6
    <3>2. ToSet(G.order) \subseteq DOMAIN G.blocks /\ Narrow(G)
      BY SeqElements DEF GraphInv, Shaped
    <3> QED BY <3>1, <3>2, <2>6, <2>8 DEF Narrow, is_switch_out, Out
  <2>9. GraphInv(H, B)
    BY <2>4, <2>a, <2>b, <2>6, <2>7, <2>8, Repainted
  <2>10. EdgeSet(H) = EdgeSet(G)
    BY <2>6, <2>8, <1>1, SameEdges
  <2> QED BY <2>4, <2>6, <2>8, <2>9, <2>10 DEF Out
<1>3. Negate(G, n, v)
        = [G EXCEPT !.blocks = [G.blocks EXCEPT ![n] = [G.blocks[n] EXCEPT !["negated"] = v]]]
  BY DEF Negate
<1>4. SetFlags(G, n, v)
        = [G EXCEPT !.blocks = [G.blocks EXCEPT ![n] = [G.blocks[n] EXCEPT !["flags"] = v]]]
  BY DEF SetFlags
<1>5. SetFlip(G, n, v)
        = [G EXCEPT !.blocks = [G.blocks EXCEPT ![n] = [G.blocks[n] EXCEPT !["flip"] = v]]]
  BY DEF SetFlip
<1> QED BY <1>2, <1>3, <1>4, <1>5

\* set_goto_branch keeps the invariant and the order of the scan.
LEMMA GotoBranches ==
  ASSUME NEW G, NEW B, GraphInv(G, B), NEW edges
  PROVE  GraphInv(set_goto_branches(G, edges), B) /\ set_goto_branches(G, edges).order = G.order
<1> DEFINE H == set_goto_branches(G, edges)
           targets == {Out(G, e[1])[e[2]] : e \in edges}
           label(b, i) == IF <<b, i>> \in edges THEN Labels(G, b, i) \cup {"goto"} ELSE Labels(G, b, i)
           labels(b) == [i \in DOMAIN Out(G, b) |-> label(b, i)]
           flags(b) == IF b \in targets THEN G.blocks[b].flags \cup {"gotoin"} ELSE G.blocks[b].flags
           bs == [b \in DOMAIN G.blocks |-> [G.blocks[b] EXCEPT !.labels = labels(b), !.flags = flags(b)]]
<1>1. H = [G EXCEPT !.blocks = bs]
  BY DEF set_goto_branches
<1>2. Shaped(G)
  BY DEF GraphInv
<1> HIDE DEF labels, flags
<1>3. \A b \in DOMAIN G.blocks :
        /\ DOMAIN bs[b] = NodeFields
        /\ bs[b].kind = G.blocks[b].kind
        /\ bs[b].comps = G.blocks[b].comps
        /\ bs[b].outs = G.blocks[b].outs
        /\ bs[b].flags = flags(b)
  BY <1>2 DEF Shaped, NodeFields
<1>4. DOMAIN bs = DOMAIN G.blocks /\ bs = [b \in DOMAIN bs |-> bs[b]]
  OBVIOUS
<1> HIDE DEF bs, H
<1>5. DOMAIN H = GraphFields /\ H.blocks = bs /\ H.order = G.order
  BY <1>1, <1>2 DEF GraphFields, Shaped
<1>6. \A m \in DOMAIN G.blocks : G.blocks[m].outs \in Seq(Nat)
  BY <1>2 DEF Shaped
<1>a. Narrow(H)
  <2>1. ToSet(G.order) \subseteq DOMAIN G.blocks /\ Narrow(G)
    BY SeqElements DEF GraphInv, Shaped
  <2>2. \A b \in DOMAIN G.blocks : G.blocks[b].flags \subseteq flags(b)
    BY DEF flags
  <2> QED BY <2>1, <2>2, <1>3, <1>5 DEF Narrow, is_switch_out, Out
<1>7. GraphInv(H, B)
  BY <1>3, <1>4, <1>5, <1>6, <1>a, Repainted
<1> QED BY <1>5, <1>7 DEF H

\* Giving up an edge that was not given up before leaves one less.
LEMMA GotoShrinks ==
  ASSUME NEW G, NEW B, GraphInv(G, B), NEW edges, NEW b \in ToSet(G.order), NEW k \in DOMAIN Out(G, b),
         <<b, k>> \in edges, ~is_goto_out(G, b, k)
  PROVE  Smaller(set_goto_branches(G, edges), G)
<1> DEFINE H == set_goto_branches(G, edges)
           targets == {Out(G, e[1])[e[2]] : e \in edges}
           label(c, i) == IF <<c, i>> \in edges THEN Labels(G, c, i) \cup {"goto"} ELSE Labels(G, c, i)
           labels(c) == [i \in DOMAIN Out(G, c) |-> label(c, i)]
           flags(c) == IF c \in targets THEN G.blocks[c].flags \cup {"gotoin"} ELSE G.blocks[c].flags
           bs == [c \in DOMAIN G.blocks |-> [G.blocks[c] EXCEPT !.labels = labels(c), !.flags = flags(c)]]
<1>1. H = [G EXCEPT !.blocks = bs]
  BY DEF set_goto_branches
<1>2. Shaped(G) /\ ToSet(G.order) \subseteq DOMAIN G.blocks
  BY SeqElements DEF GraphInv, Shaped
<1> HIDE DEF labels, flags
<1>3. \A c \in DOMAIN G.blocks :
        bs[c].outs = G.blocks[c].outs /\ bs[c].labels = labels(c) /\ bs[c].flags = flags(c)
  BY <1>2 DEF Shaped, NodeFields
<1> HIDE DEF bs, H
<1>4. H.blocks = bs /\ H.order = G.order
  BY <1>1, <1>2 DEF GraphFields, Shaped
<1>5. EdgeSet(H) = EdgeSet(G)
  BY <1>2, <1>3, <1>4, SameEdges
<1>6. SwitchSet(H) = SwitchSet(G)
  <2>1. \A c \in DOMAIN G.blocks : "switch" \in flags(c) <=> "switch" \in G.blocks[c].flags
    BY DEF flags
  <2> QED BY <2>1, <1>2, <1>3, <1>4 DEF SwitchSet, is_switch_out
<1>7. ASSUME NEW c \in ToSet(G.order), NEW i \in DOMAIN Out(G, c)
      PROVE  /\ Labels(G, c, i) \subseteq Labels(H, c, i)
             /\ <<c, i>> \in edges => "goto" \in Labels(H, c, i)
  <2>1. labels(c)[i] = label(c, i)
    BY DEF labels
  <2>2. H.blocks[c].labels = labels(c)
    BY <1>2, <1>3, <1>4
  <2>3. Labels(H, c, i) = label(c, i)
    BY <2>1, <2>2 DEF Labels
  <2> QED BY <2>3
<1>8. OpenSet(H) \subseteq OpenSet(G)
  <2> SUFFICES ASSUME NEW e \in OpenSet(H) PROVE e \in OpenSet(G)
    OBVIOUS
  <2>1. e \in EdgeSet(G) /\ ~is_goto_out(H, e[1], e[2])
    BY <1>5 DEF OpenSet
  <2>2. e[1] \in ToSet(G.order) /\ e[2] \in DOMAIN Out(G, e[1])
    BY <2>1 DEF EdgeSet, OutEdges
  <2>3. Labels(G, e[1], e[2]) \subseteq Labels(H, e[1], e[2])
    BY <2>2, <1>7
  <2> QED BY <2>1, <2>3 DEF OpenSet, is_goto_out
<1>9. <<b, k>> \in OpenSet(G)
  <2>1. <<b, k>> \in EdgeSet(G)
    BY DEF EdgeSet, OutEdges
  <2> QED BY <2>1 DEF OpenSet
<1>10. <<b, k>> \notin OpenSet(H)
  <2>1. "goto" \in Labels(H, b, k)
    BY <1>7
  <2> QED BY <2>1 DEF OpenSet, is_goto_out
<1>11. IsFiniteSet(OpenSet(G))
  BY <1>2, FiniteGraph
<1>12. Cardinality(OpenSet(H)) < Cardinality(OpenSet(G))
  BY <1>8, <1>9, <1>10, <1>11, ProperSubset
<1>13. Smaller(H, G)
  BY <1>4, <1>5, <1>6, <1>12 DEF Smaller
<1> QED BY <1>13 DEF H

\* Removing an edge (rule_block_goto) keeps the invariant, and lowers the
\* number of edges.
LEMMA CutEdge ==
  ASSUME NEW G, NEW B, GraphInv(G, B), NEW b \in ToSet(G.order), NEW i \in DOMAIN Out(G, b),
         NEW gotos, NEW cut
  PROVE  /\ GraphInv([remove_out_edge(G, b, i) EXCEPT !.gotos = gotos, !.default_goto = cut], B)
         /\ Smaller([remove_out_edge(G, b, i) EXCEPT !.gotos = gotos, !.default_goto = cut], G)
<1> DEFINE outs == RemoveAt(Out(G, b), i)
           labels == RemoveAt(G.blocks[b].labels, i)
           node == [G.blocks[b] EXCEPT !.outs = outs, !.labels = labels]
           bs == [G.blocks EXCEPT ![b] = node]
           H == [remove_out_edge(G, b, i) EXCEPT !.gotos = gotos, !.default_goto = cut]
<1>1. Shaped(G)
  BY DEF GraphInv
<1>2. b \in DOMAIN G.blocks
  BY <1>1, SeqElements DEF Shaped
<1>3. Out(G, b) \in Seq(Nat)
  BY <1>1, <1>2 DEF Shaped, Out
<1>4. /\ outs \in Seq(Nat) /\ ToSet(outs) \subseteq ToSet(Out(G, b))
      /\ DOMAIN outs = 1 .. Len(Out(G, b)) - 1
  <2> DEFINE s == Out(G, b)
             l == SubSeq(s, 1, i - 1)
             r == SubSeq(s, i + 1, Len(s))
  <2>1. s \in Seq(ToSet(s)) /\ ToSet(s) \subseteq Nat /\ i \in 1 .. Len(s) /\ Len(s) \in Nat
    BY <1>3, SeqElements
  <2> HIDE DEF s
  <2>2. l \in Seq(ToSet(s)) /\ r \in Seq(ToSet(s))
    BY <2>1
  <2>3. outs \in Seq(ToSet(s))
    BY <2>2 DEF RemoveAt, s
  <2>4. Len(l) = i - 1 /\ Len(r) = Len(s) - i
    BY <2>1
  <2>5. outs = l \o r
    BY DEF RemoveAt, s
  <2> HIDE DEF outs, l, r
  <2>6. Len(outs) = Len(s) - 1
    BY <2>1, <2>2, <2>4, <2>5
  <2> QED BY <2>1, <2>3, <2>6, SeqElements DEF s
<1> HIDE DEF outs, labels
<1>5. remove_out_edge(G, b, i) = [G EXCEPT !.blocks = bs]
  <2>1. remove_out_edge(G, b, i) = [G EXCEPT !.blocks[b].outs = outs, !.blocks[b].labels = labels]
    BY DEF remove_out_edge, outs, labels, Out
  <2> QED BY <2>1, <1>1, <1>2 DEF Shaped, GraphFields, NodeFields
<1>6. /\ DOMAIN node = NodeFields /\ node.kind = G.blocks[b].kind /\ node.comps = G.blocks[b].comps
      /\ node.outs = outs /\ node.flags = G.blocks[b].flags
  BY <1>1, <1>2 DEF Shaped, NodeFields
<1> HIDE DEF node
<1>7. /\ DOMAIN bs = DOMAIN G.blocks /\ bs = [m \in DOMAIN bs |-> bs[m]]
      /\ \A m \in DOMAIN G.blocks : bs[m] = IF m = b THEN node ELSE G.blocks[m]
  OBVIOUS
<1> HIDE DEF bs
<1>8. DOMAIN H = GraphFields /\ H.blocks = bs /\ H.order = G.order
  BY <1>1, <1>5 DEF Shaped, GraphFields
<1> HIDE DEF H
<1>9. \A m \in DOMAIN G.blocks :
            /\ DOMAIN H.blocks[m] = NodeFields
            /\ H.blocks[m].kind = G.blocks[m].kind
            /\ H.blocks[m].comps = G.blocks[m].comps
            /\ H.blocks[m].outs \in Seq(Nat)
            /\ ToSet(H.blocks[m].outs) \subseteq ToSet(G.blocks[m].outs)
  BY <1>1, <1>4, <1>6, <1>7, <1>8 DEF Shaped, Out
<1>a. DOMAIN outs \subseteq DOMAIN Out(G, b)
  <2>1. Len(Out(G, b)) \in Nat /\ DOMAIN Out(G, b) = 1 .. Len(Out(G, b))
    BY <1>3, SeqElements
  <2> QED BY <2>1, <1>4
<1>b. Narrow(H)
  <2>1. ToSet(G.order) \subseteq DOMAIN G.blocks /\ Narrow(G)
    BY SeqElements DEF GraphInv, Shaped
  <2>2. \A m \in DOMAIN G.blocks : /\ H.blocks[m].flags = G.blocks[m].flags
                                   /\ DOMAIN Out(H, m) \subseteq DOMAIN Out(G, m)
    BY <1>a, <1>6, <1>7, <1>8 DEF Out
  <2> QED BY <2>1, <2>2, <1>8 DEF Narrow, is_switch_out
<1>10. GraphInv(H, B)
  BY <1>b, <1>7, <1>8, <1>9, Repainted
<1>11. Smaller(H, G)
  <2> DEFINE l == Len(Out(G, b))
  <2>1. l \in Nat /\ DOMAIN Out(G, b) = 1 .. l /\ i \in 1 .. l
    BY <1>3, SeqElements
  <2>2. l \in DOMAIN Out(G, b) /\ l \notin DOMAIN outs /\ DOMAIN outs \subseteq DOMAIN Out(G, b)
    BY <2>1, <1>4
  <2> HIDE DEF l
  <2>3. Out(H, b) = outs /\ \A m \in DOMAIN G.blocks : m # b => Out(H, m) = Out(G, m)
    BY <1>2, <1>6, <1>7, <1>8 DEF Out
  <2>4. ToSet(G.order) \subseteq DOMAIN G.blocks
    BY <1>1, SeqElements DEF Shaped
  <2>5. EdgeSet(H) \subseteq EdgeSet(G)
    BY <2>2, <2>3, <2>4, <1>8 DEF EdgeSet, OutEdges
  <2>6. <<b, l>> \in EdgeSet(G)
    BY <2>2 DEF EdgeSet, OutEdges
  <2>7. <<b, l>> \notin EdgeSet(H)
    BY <2>2, <2>3 DEF EdgeSet, OutEdges
  <2>8. IsFiniteSet(EdgeSet(G))
    BY <1>1, FiniteGraph
  <2>9. Cardinality(EdgeSet(H)) < Cardinality(EdgeSet(G))
    BY <2>5, <2>6, <2>7, <2>8, ProperSubset
  <2> QED BY <2>9, <1>8 DEF Smaller
<1> QED BY <1>10, <1>11 DEF H

-----------------------------------------------------------------------------
(* The rules that put two, one or three nodes together.                    *)

\* The out-edges of a node in the graph are in-edges of nodes in the graph.
LEMMA EdgeLeads ==
  ASSUME NEW G, NEW B, GraphInv(G, B), NEW b \in ToSet(G.order)
  PROVE  /\ b \in DOMAIN G.blocks
         /\ Out(G, b) \in Seq(ToSet(G.order))
         /\ DOMAIN Out(G, b) = 1 .. Len(Out(G, b)) /\ Len(Out(G, b)) \in Nat
         /\ \A i \in DOMAIN Out(G, b) :
              Out(G, b)[i] \in ToSet(G.order) /\ <<b, i>> \in In(G, Out(G, b)[i])
<1>1. Shaped(G) /\ Closed(G)
  BY DEF GraphInv
<1>2. b \in DOMAIN G.blocks
  BY <1>1, SeqElements DEF Shaped
<1>3. Out(G, b) \in Seq(Nat)
  BY <1>1, <1>2 DEF Shaped, Out
<1>4. ToSet(Out(G, b)) \subseteq ToSet(G.order)
  BY <1>1 DEF Closed
<1>5. Out(G, b) \in Seq(ToSet(G.order)) /\ DOMAIN Out(G, b) = 1 .. Len(Out(G, b)) /\ Len(Out(G, b)) \in Nat
      /\ \A i \in DOMAIN Out(G, b) : Out(G, b)[i] \in ToSet(Out(G, b))
  BY <1>3, <1>4, SeqElements
<1>6. \A i \in DOMAIN Out(G, b) : <<b, i>> \in In(G, Out(G, b)[i])
  BY DEF In, OutEdges
<1> QED BY <1>2, <1>4, <1>5, <1>6

\* A node with one in-edge that a given edge enters has no other.
LEMMA OnlyIn ==
  ASSUME NEW G, NEW b \in ToSet(G.order), NEW i \in DOMAIN Out(G, b), OneIn(G, Out(G, b)[i])
  PROVE  In(G, Out(G, b)[i]) = {<<b, i>>}
<1>1. <<b, i>> \in In(G, Out(G, b)[i])
  BY DEF In, OutEdges
<1> QED BY <1>1 DEF OneIn

\* After install, the new node is in the graph and its components are not.
LEMMA InstallOrder ==
  ASSUME NEW G, NEW B, GraphInv(G, B), NEW comps, NEW kind, NEW outs, NEW H, H = install(G, comps, kind, outs)
  PROVE  /\ ToSet(H.order) = (ToSet(G.order) \ ToSet(comps)) \cup {Made(G)}
         /\ Made(G) \notin DOMAIN G.blocks /\ ToSet(G.order) \subseteq DOMAIN G.blocks
<1> DEFINE w == Without(G.order, ToSet(comps))
<1>1. Shaped(G)
  BY DEF GraphInv
<1>2. G.order \in Seq(DOMAIN G.blocks)
  BY <1>1 DEF Shaped
<1>3. w \in Seq(DOMAIN G.blocks) /\ ToSet(w) = ToSet(G.order) \ ToSet(comps)
  BY <1>2, WithoutIs
<1>4. H.order = Append(w, Made(G)) /\ Len(G.blocks) \in Nat /\ DOMAIN G.blocks = 1 .. Len(G.blocks)
  BY <1>1, InstallIs
<1> HIDE DEF w
<1>5. w \in Seq(ToSet(w))
  BY <1>3, SeqElements
<1>6. ToSet(H.order) = (ToSet(G.order) \ ToSet(comps)) \cup {Made(G)}
  BY <1>3, <1>4, <1>5, AppendIs
<1>7. Made(G) \notin DOMAIN G.blocks
  BY <1>4 DEF Made
<1>8. ToSet(G.order) \subseteq DOMAIN G.blocks
  BY <1>2, SeqElements
<1> QED BY <1>6, <1>7, <1>8

\* Two or more nodes put together are fewer.
LEMMA InstallFewer ==
  ASSUME NEW G, NEW B, GraphInv(G, B), NEW comps \in Seq(ToSet(G.order)), Len(comps) > 1,
         comps[1] # comps[2], NEW kind, NEW outs
  PROVE  Fewer(install(G, comps, kind, outs), G)
<1> DEFINE S == ToSet(G.order)
           set == ToSet(comps)
           H == install(G, comps, kind, outs)
<1>1. IsFiniteSet(S)
  BY FiniteGraph DEF GraphInv
<1>2. ToSet(H.order) = (S \ set) \cup {Made(G)}
  <2>1. H = install(G, comps, kind, outs)
    OBVIOUS
  <2> HIDE DEF H
  <2> QED BY <2>1, InstallOrder
<1>3. set \in SUBSET S /\ comps[1] \in set /\ comps[2] \in set
  BY SeqElements
<1> HIDE DEF S, set, H
<1>4. Cardinality((S \ set) \cup {Made(G)}) < Cardinality(S)
  BY <1>1, <1>3, FewerNodes
<1> QED BY <1>2, <1>4 DEF Fewer, S, H

\* An injection that misses an element leads from a smaller set.
LEMMA MissesOne ==
  ASSUME NEW S, NEW T, IsFiniteSet(T), NEW f \in Injection(S, T)
  PROVE  /\ IsFiniteSet(S) /\ Cardinality(S) \in Nat /\ Cardinality(T) \in Nat
         /\ Cardinality(S) <= Cardinality(T)
         /\ (\E t \in T : \A x \in S : f[x] # t) => Cardinality(S) < Cardinality(T)
<1>1. /\ IsFiniteSet(S) /\ Cardinality(S) <= Cardinality(T)
      /\ Cardinality(S) = Cardinality(T) <=> f \in Surjection(S, T)
  BY FS_Injection
<1>2. Cardinality(S) \in Nat /\ Cardinality(T) \in Nat
  BY <1>1, FS_CardinalityType
<1>3. (\E t \in T : \A x \in S : f[x] # t) => f \notin Surjection(S, T)
  BY DEF Surjection
<1> QED BY <1>1, <1>2, <1>3

\* A node put in the place of another one keeps their number.  If it has no
\* more out-edges, there are no more edges, and fewer if it has fewer.
LEMMA SingleShrinks ==
  ASSUME NEW G, NEW B, GraphInv(G, B), NEW b \in ToSet(G.order), NEW comps, comps = <<b>>,
         NEW outs \in Seq(ToSet(G.order)), Len(outs) <= Len(Out(G, b)), NEW kind,
         NEW H, H = install(G, comps, kind, outs)
  PROVE  /\ ToSet(H.order) = (ToSet(G.order) \ {b}) \cup {Made(G)} /\ Made(G) \notin ToSet(G.order)
         /\ Cardinality(ToSet(H.order)) = Cardinality(ToSet(G.order))
         /\ Cardinality(EdgeSet(H)) \in Nat /\ Cardinality(EdgeSet(G)) \in Nat
         /\ Cardinality(EdgeSet(H)) <= Cardinality(EdgeSet(G))
         /\ Len(outs) < Len(Out(G, b)) => Cardinality(EdgeSet(H)) < Cardinality(EdgeSet(G))
<1> DEFINE S == ToSet(G.order)
           n == Made(G)
           f == [e \in EdgeSet(H) |-> <<IF e[1] = n THEN b ELSE e[1], e[2]>>]
<1>1. Shaped(G)
  BY DEF GraphInv
<1>2. ToSet(comps) = {b}
  BY DEF ToSet
<1>3. ToSet(H.order) = (S \ {b}) \cup {n} /\ n \notin S /\ S \subseteq DOMAIN G.blocks
  <2>1. ToSet(H.order) = (S \ ToSet(comps)) \cup {n} /\ n \notin DOMAIN G.blocks /\ S \subseteq DOMAIN G.blocks
    BY InstallOrder
  <2> HIDE DEF S, n
  <2> QED BY <2>1, <1>2
<1>4. IsFiniteSet(S) /\ IsFiniteSet(EdgeSet(G))
  BY <1>1, FiniteGraph
<1>5. Cardinality(ToSet(H.order)) = Cardinality(S)
  <2> DEFINE R == S \ {b}
  <2>1. IsFiniteSet(R) /\ Cardinality(R) = Cardinality(S) - 1
    BY <1>4, FS_RemoveElement
  <2>2. n \notin R
    BY <1>3
  <2>3. Cardinality(S) \in Nat
    BY <1>4, FS_CardinalityType
  <2> HIDE DEF R, n
  <2>4. Cardinality(R \cup {n}) = Cardinality(R) + 1
    BY <2>1, <2>2, FS_AddElement
  <2> HIDE DEF S
  <2>5. Cardinality(R \cup {n}) = Cardinality(S)
    BY <2>1, <2>3, <2>4
  <2> QED BY <1>3, <2>5 DEF R
<1>6. DOMAIN Out(H, n) = DOMAIN outs /\ \A m \in S : DOMAIN Out(H, m) = DOMAIN Out(G, m)
  <2>1. Out(H, n) = Redirected(outs, ToSet(comps), n)
    BY <1>1, InstallIs DEF Out
  <2>2. \A m \in DOMAIN G.blocks :
          Out(H, m) = Redirected(Out(G, m), ToSet(comps), n) \/ Out(H, m) = Out(G, m)
    BY <1>1, InstallIs DEF Out
  <2> QED BY <2>1, <2>2, <1>3 DEF Redirected
<1>7. /\ Len(outs) \in Nat /\ DOMAIN outs = 1 .. Len(outs)
      /\ Len(Out(G, b)) \in Nat /\ DOMAIN Out(G, b) = 1 .. Len(Out(G, b))
  BY EdgeLeads
<1> HIDE DEF S, n
<1>8. \A e \in EdgeSet(H) : \/ e[1] = n /\ e[2] \in DOMAIN outs /\ e = <<n, e[2]>>
                            \/ e[1] \in S \ {b} /\ e[2] \in DOMAIN Out(G, e[1]) /\ e = <<e[1], e[2]>>
  BY <1>3, <1>6 DEF EdgeSet, OutEdges
<1>9. EdgeSet(G) = UNION {{<<m, i>> : i \in DOMAIN Out(G, m)} : m \in S}
  BY DEF EdgeSet, OutEdges, S
<1>10. DOMAIN outs \subseteq DOMAIN Out(G, b)
  BY <1>7
<1>11. b \in S /\ n \notin S
  BY <1>3 DEF S
<1>12. \A e \in EdgeSet(H) : f[e] \in EdgeSet(G)
  BY <1>8, <1>9, <1>10, <1>11
<1>13. \A d, e \in EdgeSet(H) : f[d] = f[e] => d = e
  <2> SUFFICES ASSUME NEW d \in EdgeSet(H), NEW e \in EdgeSet(H), f[d] = f[e] PROVE d = e
    OBVIOUS
  <2>1. /\ (IF d[1] = n THEN b ELSE d[1]) = (IF e[1] = n THEN b ELSE e[1])
        /\ d[2] = e[2]
    OBVIOUS
  <2>2. d = <<d[1], d[2]>> /\ e = <<e[1], e[2]>>
    BY <1>8
  <2>3. (d[1] = n \/ d[1] # b) /\ (e[1] = n \/ e[1] # b)
    BY <1>8
  <2>4. d[1] = e[1]
    BY <2>1, <2>3
  <2> QED BY <2>1, <2>2, <2>4
<1>14. f \in Injection(EdgeSet(H), EdgeSet(G))
  BY <1>12, <1>13 DEF Injection, IsInjective
<1>15. ASSUME Len(outs) < Len(Out(G, b))
       PROVE  \E t \in EdgeSet(G) : \A e \in EdgeSet(H) : f[e] # t
  <2> DEFINE l == Len(Out(G, b))
  <2>1. l \in DOMAIN Out(G, b) /\ l \notin DOMAIN outs
    BY <1>7, <1>15
  <2> HIDE DEF l
  <2>2. <<b, l>> \in EdgeSet(G)
    BY <2>1, <1>9, <1>11
  <2>3. ASSUME NEW e \in EdgeSet(H), f[e] = <<b, l>> PROVE FALSE
    <3>1. (IF e[1] = n THEN b ELSE e[1]) = b /\ e[2] = l
      BY <2>3
    <3> QED BY <3>1, <2>1, <1>8, <1>11
  <2> QED BY <2>2, <2>3
<1> HIDE DEF f
<1>16. /\ Cardinality(EdgeSet(H)) \in Nat /\ Cardinality(EdgeSet(G)) \in Nat
       /\ Cardinality(EdgeSet(H)) <= Cardinality(EdgeSet(G))
       /\ Len(outs) < Len(Out(G, b)) => Cardinality(EdgeSet(H)) < Cardinality(EdgeSet(G))
  BY <1>4, <1>14, <1>15, MissesOne
<1> QED BY <1>3, <1>5, <1>16 DEF S, n

\* A node and a successor that nothing else enters may be installed, and are
\* then one.
LEMMA PairKeeps ==
  ASSUME NEW G, NEW B, GraphInv(G, B), NEW b \in ToSet(G.order), NEW i \in DOMAIN Out(G, b),
         Out(G, b)[i] # b, OneIn(G, Out(G, b)[i]),
         NEW outs \in Seq(ToSet(G.order)), DOMAIN outs \subseteq {1, 2}, NEW kind, kind # "Basic",
         NEW H, H = install(G, <<b, Out(G, b)[i]>>, kind, outs)
  PROVE  GraphInv(H, B) /\ Fewer(H, G)
<1> DEFINE c == Out(G, b)[i]
           comps == <<b, c>>
<1>1. c \in ToSet(G.order)
  BY EdgeLeads
<1>2. In(G, c) = {<<b, i>>}
  BY OnlyIn
<1>3. c # b
  OBVIOUS
<1> HIDE DEF c
<1>4. /\ comps \in Seq(ToSet(G.order)) /\ Len(comps) = 2 /\ DOMAIN comps = {1, 2}
      /\ comps[1] = b /\ comps[2] = c
  BY <1>1
<1> HIDE DEF comps
<1>5. b \in ToSet(comps)
  BY <1>4 DEF ToSet
<1>6. \A k \in DOMAIN comps : k # 1 => \A e \in In(G, comps[k]) : e[1] \in ToSet(comps)
  <2>1. \A e \in In(G, c) : e[1] = b
    BY <1>2
  <2> QED BY <1>4, <1>5, <2>1
<1>7. \A k, j \in DOMAIN comps : comps[k] = comps[j] => k = j
  BY <1>3, <1>4
<1>8. Len(comps) > 0
  BY <1>4
<1>9. GraphInv(install(G, comps, kind, outs), B)
  BY <1>4, <1>6, <1>7, <1>8, InstallKeeps
<1>10. Fewer(install(G, comps, kind, outs), G)
  <2>1. Len(comps) > 1 /\ comps[1] # comps[2]
    BY <1>3, <1>4
  <2> QED BY <1>4, <2>1, InstallFewer
<1> QED BY <1>9, <1>10 DEF comps, c

\* The node install makes is one of the nodes, with the out-edges it was given.
LEMMA MadeIn ==
  ASSUME NEW G, NEW B, GraphInv(G, B), NEW comps, NEW kind, NEW outs
  PROVE  /\ Made(G) \in DOMAIN install(G, comps, kind, outs).blocks
         /\ DOMAIN Out(install(G, comps, kind, outs), Made(G)) = DOMAIN outs
<1> DEFINE H == install(G, comps, kind, outs)
<1>1. Shaped(G)
  BY DEF GraphInv
<1> HIDE DEF H
<1>2. /\ DOMAIN H.blocks = 1 .. Made(G) /\ Len(G.blocks) \in Nat
      /\ Out(H, Made(G)) = Redirected(outs, ToSet(comps), Made(G))
  BY <1>1, InstallIs DEF H, Out
<1> QED BY <1>2 DEF Made, H, Redirected

\* Both edges of a two-way node are edges of the graph.
LEMMA TwoWayEdges ==
  ASSUME NEW G, NEW B, GraphInv(G, B), NEW b \in ToSet(G.order), TwoWay(G, b), NEW i \in {1, 2}
  PROVE  /\ i \in DOMAIN Out(G, b) /\ 3 - i \in DOMAIN Out(G, b)
         /\ Out(G, b)[i] \in ToSet(G.order) /\ Out(G, b)[i] \in ToSet(Out(G, b))
         /\ Out(G, b)[3 - i] \in ToSet(G.order)
         /\ <<Out(G, b)[3 - i]>> \in Seq(ToSet(G.order))
<1>1. i \in DOMAIN Out(G, b) /\ 3 - i \in DOMAIN Out(G, b)
  BY EdgeLeads DEF TwoWay
<1>2. Out(G, b)[i] \in ToSet(G.order) /\ Out(G, b)[3 - i] \in ToSet(G.order)
  BY <1>1, EdgeLeads
<1> QED BY <1>1, <1>2 DEF ToSet

\* The if that rule_proper_if and rule_if_no_exit make keeps the invariant
\* and lowers the number of nodes.
LEMMA MakeIfKeeps ==
  ASSUME NEW G, NEW B, GraphInv(G, B), NEW b \in ToSet(G.order), PlainBranch(G, b),
         NEW i \in {1, 2}, OneIn(G, Out(G, b)[i])
  PROVE  GraphInv(MakeIf(G, b, i), B) /\ Fewer(MakeIf(G, b, i), G)
<1> DEFINE H == install(G, <<b, Out(G, b)[i]>>, "If", <<Out(G, b)[3 - i]>>)
<1>1. TwoWay(G, b) /\ b \notin ToSet(Out(G, b))
  BY DEF PlainBranch
<1>2. i \in DOMAIN Out(G, b) /\ Out(G, b)[i] # b /\ <<Out(G, b)[3 - i]>> \in Seq(ToSet(G.order))
  BY <1>1, TwoWayEdges
<1>3. GraphInv(H, B) /\ Fewer(H, G)
  <2> DEFINE outs == <<Out(G, b)[3 - i]>>
  <2>1. /\ H = install(G, <<b, Out(G, b)[i]>>, "If", outs) /\ outs \in Seq(ToSet(G.order)) /\ "If" # "Basic"
        /\ DOMAIN outs \subseteq {1, 2}
    BY <1>2
  <2> HIDE DEF outs, H
  <2> QED BY <2>1, <1>2, PairKeeps
<1>4. Made(G) \in DOMAIN H.blocks /\ DOMAIN Out(H, Made(G)) \subseteq {1, 2}
  BY MadeIn
<1> DEFINE v == Xor(i = 1, is_oriented(G, b))
<1>5. MakeIf(G, b, i) = Negate(H, Made(G), v)
  BY DEF MakeIf
<1> HIDE DEF H, v
<1>6. GraphInv(MakeIf(G, b, i), B) /\ MakeIf(G, b, i).order = H.order
  BY <1>3, <1>4, <1>5, FieldSet
<1> QED BY <1>3, <1>6 DEF Fewer

\* rule_proper_if keeps the invariant and lowers the number of nodes.
LEMMA ProperIfKeeps ==
  ASSUME NEW G, NEW B, GraphInv(G, B), NEW b \in ToSet(G.order), NEW H \in rule_proper_if(G, b)
  PROVE  GraphInv(H, B) /\ Fewer(H, G)
<1> DEFINE fits(i) == /\ OneIn(G, Out(G, b)[i])
                      /\ Out(G, Out(G, b)[i]) = <<Out(G, b)[3 - i]>>
                      /\ ~is_switch_out(G, Out(G, b)[i])
                      /\ is_decision_out(G, b, i)
                      /\ NoGotoOut(G, Out(G, b)[i])
           set == {i \in {1, 2} : PlainBranch(G, b) /\ fits(i)}
<1>1. set # {} /\ H = MakeIf(G, b, Min(set))
  BY DEF rule_proper_if, FirstOf
<1>2. Min(set) \in set
  BY <1>1, MinIn
<1> QED BY <1>1, <1>2, MakeIfKeeps

\* rule_if_no_exit keeps the invariant and lowers the number of nodes.
LEMMA IfNoExitKeeps ==
  ASSUME NEW G, NEW B, GraphInv(G, B), NEW b \in ToSet(G.order), NEW H \in rule_if_no_exit(G, b)
  PROVE  GraphInv(H, B) /\ Fewer(H, G)
<1> DEFINE fits(i) == /\ OneIn(G, Out(G, b)[i])
                      /\ Out(G, Out(G, b)[i]) = <<>>
                      /\ ~is_switch_out(G, Out(G, b)[i])
                      /\ is_decision_out(G, b, i)
           set == {i \in {1, 2} : PlainBranch(G, b) /\ fits(i)}
<1>1. set # {} /\ H = MakeIf(G, b, Min(set))
  BY DEF rule_if_no_exit, FirstOf
<1>2. Min(set) \in set
  BY <1>1, MinIn
<1> QED BY <1>1, <1>2, MakeIfKeeps

\* rule_while_do keeps the invariant and lowers the number of nodes.
LEMMA WhileDoKeeps ==
  ASSUME NEW G, NEW B, GraphInv(G, B), NEW b \in ToSet(G.order), NEW H \in rule_while_do(G, b)
  PROVE  GraphInv(H, B) /\ Fewer(H, G)
<1> DEFINE fits(i) == /\ OneIn(G, Out(G, b)[i])
                      /\ Out(G, Out(G, b)[i]) = <<b>>
                      /\ ~is_switch_out(G, Out(G, b)[i])
           set == {i \in {1, 2} : PlainBranch(G, b) /\ ~is_interior_goto_target(G, b) /\ fits(i)}
           body(i) == install(G, <<b, Out(G, b)[i]>>, "WhileDo", <<Out(G, b)[3 - i]>>)
           loop(i) == Negate(body(i), Made(G), Xor(Xor(i = 1, is_complex(G, b)), is_oriented(G, b)))
           flags(i) == IF is_complex(G, b) THEN loop(i).blocks[Made(G)].flags \cup {"overflow"}
                       ELSE loop(i).blocks[Made(G)].flags
           make(i) == SetFlags(loop(i), Made(G), flags(i))
<1>1. rule_while_do(G, b) = IF set = {} THEN {} ELSE {make(Min(set))}
  BY ZenonT(60) DEF rule_while_do, FirstOf, SetFlags
<1> HIDE DEF make
<1>2. set # {} /\ H = make(Min(set))
  BY <1>1
<1>3. PICK i \in {1, 2} : H = make(i) /\ PlainBranch(G, b) /\ OneIn(G, Out(G, b)[i])
  <2>1. Min(set) \in set
    BY <1>2, MinIn
  <2> QED BY <1>2, <2>1
<1> HIDE DEF set
<1>4. TwoWay(G, b) /\ b \notin ToSet(Out(G, b))
  BY <1>3 DEF PlainBranch
<1>5. i \in DOMAIN Out(G, b) /\ Out(G, b)[i] # b /\ <<Out(G, b)[3 - i]>> \in Seq(ToSet(G.order))
  BY <1>3, <1>4, TwoWayEdges
<1>6. GraphInv(body(i), B) /\ Fewer(body(i), G)
  <2>1. OneIn(G, Out(G, b)[i])
    BY <1>3
  <2> DEFINE outs == <<Out(G, b)[3 - i]>>
             W == body(i)
  <2>2. /\ i \in DOMAIN Out(G, b) /\ Out(G, b)[i] # b /\ outs \in Seq(ToSet(G.order))
        /\ W = install(G, <<b, Out(G, b)[i]>>, "WhileDo", outs) /\ "WhileDo" # "Basic"
        /\ DOMAIN outs \subseteq {1, 2}
    BY <1>5
  <2> HIDE DEF outs, W
  <2>3. GraphInv(W, B) /\ Fewer(W, G)
    BY <2>1, <2>2, PairKeeps
  <2> QED BY <2>3 DEF W
<1>7. Made(G) \in DOMAIN body(i).blocks /\ DOMAIN Out(body(i), Made(G)) \subseteq {1, 2}
  BY MadeIn
<1> HIDE DEF body
<1>8. GraphInv(loop(i), B) /\ Made(G) \in DOMAIN loop(i).blocks /\ loop(i).order = body(i).order
      /\ DOMAIN Out(loop(i), Made(G)) \subseteq {1, 2}
  BY <1>6, <1>7, FieldSet
<1> HIDE DEF loop, flags
<1>9. GraphInv(H, B) /\ H.order = loop(i).order
  BY <1>3, <1>8, FieldSet DEF make
<1> QED BY <1>6, <1>8, <1>9 DEF Fewer

\* A node alone may be installed.
LEMMA SingleKeeps ==
  ASSUME NEW G, NEW B, GraphInv(G, B), NEW b \in ToSet(G.order), NEW comps, comps = <<b>>,
         NEW outs \in Seq(ToSet(G.order)), DOMAIN outs \subseteq {1, 2}, NEW kind, kind # "Basic",
         NEW H, H = install(G, comps, kind, outs)
  PROVE  GraphInv(H, B)
<1>1. comps \in Seq(ToSet(G.order)) /\ Len(comps) = 1 /\ DOMAIN comps = {1}
  OBVIOUS
<1>2. \A k \in DOMAIN comps : k # 1 => \A e \in In(G, comps[k]) : e[1] \in ToSet(comps)
  BY <1>1
<1>3. \A k, j \in DOMAIN comps : comps[k] = comps[j] => k = j
  BY <1>1
<1>4. Len(comps) > 0
  BY <1>1
<1> QED BY <1>1, <1>2, <1>3, <1>4, InstallKeeps

\* rule_do_while keeps the invariant and lowers the number of edges.
LEMMA DoWhileKeeps ==
  ASSUME NEW G, NEW B, GraphInv(G, B), NEW b \in ToSet(G.order), NEW H \in rule_do_while(G, b)
  PROVE  GraphInv(H, B) /\ Smaller(H, G)
<1> DEFINE set == {i \in {1, 2} : TwoWay(G, b) /\ NoGotoOut(G, b) /\ Out(G, b)[i] = b}
           body(i) == install(G, <<b>>, "DoWhile", <<Out(G, b)[3 - i]>>)
           v(i) == Xor(i = 1, is_oriented(G, b))
           make(i) == Negate(body(i), Made(G), v(i))
<1>1. rule_do_while(G, b) = IF set = {} THEN {} ELSE {make(Min(set))}
  BY DEF rule_do_while, FirstOf
<1> HIDE DEF make
<1>2. set # {} /\ H = make(Min(set))
  BY <1>1
<1>3. PICK i \in {1, 2} : H = make(i) /\ TwoWay(G, b)
  <2>1. Min(set) \in set
    BY <1>2, MinIn
  <2> QED BY <1>2, <2>1
<1> HIDE DEF set
<1>4. <<Out(G, b)[3 - i]>> \in Seq(ToSet(G.order))
  BY <1>3, TwoWayEdges
<1>5. /\ GraphInv(body(i), B)
      /\ Cardinality(ToSet(body(i).order)) = Cardinality(ToSet(G.order))
      /\ Cardinality(EdgeSet(body(i))) < Cardinality(EdgeSet(G))
  <2> DEFINE comps == <<b>>
             outs == <<Out(G, b)[3 - i]>>
  <2>1. comps = <<b>> /\ outs \in Seq(ToSet(G.order)) /\ "DoWhile" # "Basic" /\ DOMAIN outs \subseteq {1, 2}
    BY <1>4
  <2> HIDE DEF comps, outs
  <2> DEFINE W == install(G, comps, "DoWhile", outs)
  <2>3. Len(outs) <= Len(Out(G, b)) /\ Len(outs) < Len(Out(G, b))
    BY <1>3 DEF outs, TwoWay
  <2>4. W = install(G, comps, "DoWhile", outs)
    OBVIOUS
  <2> HIDE DEF W
  <2>2. GraphInv(W, B)
    BY <2>1, <2>4, SingleKeeps
  <2>5. /\ Cardinality(ToSet(W.order)) = Cardinality(ToSet(G.order))
        /\ Cardinality(EdgeSet(W)) < Cardinality(EdgeSet(G))
    BY <2>1, <2>3, <2>4, SingleShrinks
  <2> QED BY <2>2, <2>5 DEF comps, outs, W
<1>6. Made(G) \in DOMAIN body(i).blocks /\ DOMAIN Out(body(i), Made(G)) \subseteq {1, 2}
  BY MadeIn
<1> HIDE DEF body, v
<1>7. GraphInv(H, B) /\ H.order = body(i).order /\ EdgeSet(H) = EdgeSet(body(i))
  BY <1>3, <1>5, <1>6, FieldSet DEF make
<1> QED BY <1>5, <1>7 DEF Smaller

\* rule_inf_loop keeps the invariant and lowers the number of edges.
LEMMA InfLoopKeeps ==
  ASSUME NEW G, NEW B, GraphInv(G, B), NEW b \in ToSet(G.order), NEW H \in rule_inf_loop(G, b)
  PROVE  GraphInv(H, B) /\ Smaller(H, G)
<1>1. H = install(G, <<b>>, "InfLoop", <<>>) /\ Out(G, b) = <<b>>
  BY DEF rule_inf_loop
<1> DEFINE comps == <<b>>
           outs == <<>>
<1>2. comps = <<b>> /\ outs \in Seq(ToSet(G.order)) /\ "InfLoop" # "Basic" /\ DOMAIN outs \subseteq {1, 2}
  OBVIOUS
<1>a. Len(outs) <= Len(Out(G, b)) /\ Len(outs) < Len(Out(G, b))
  BY <1>1
<1>3. H = install(G, comps, "InfLoop", outs)
  BY <1>1
<1> HIDE DEF comps, outs
<1>4. GraphInv(H, B)
  BY <1>2, <1>3, SingleKeeps
<1>5. /\ Cardinality(ToSet(H.order)) = Cardinality(ToSet(G.order))
      /\ Cardinality(EdgeSet(H)) < Cardinality(EdgeSet(G))
  BY <1>2, <1>a, <1>3, SingleShrinks
<1> QED BY <1>4, <1>5 DEF Smaller

\* rule_short_circuit (collapse_conditions) keeps the invariant and lowers
\* the number of nodes.
LEMMA ShortCircuitKeeps ==
  ASSUME NEW G, NEW B, GraphInv(G, B), NEW b \in ToSet(G.order), NEW H \in rule_short_circuit(G, b)
  PROVE  GraphInv(H, B) /\ Fewer(H, G)
<1> DEFINE second(i) == Out(G, b)[i]
           clause(i) == Out(G, b)[3 - i]
           shared(i) == {j \in {1, 2} : Out(G, second(i))[j] = clause(i)}
           fits(i) == /\ second(i) # b /\ OneIn(G, second(i)) /\ TwoWay(G, second(i))
                      /\ ~is_interior_goto_target(G, second(i))
                      /\ "back" \notin Labels(G, b, i)
                      /\ ~is_complex(G, second(i))
                      /\ clause(i) \notin {b, second(i)}
                      /\ shared(i) # {}
                      /\ Out(G, second(i))[3 - Min(shared(i))] # b
           set == {i \in {1, 2} : TwoWay(G, b) /\ NoGotoOut(G, b) /\ fits(i)}
           outs(i) == <<Out(G, second(i))[3 - Min(shared(i))], clause(i)>>
           body(i) == install(G, <<b, second(i)>>, "CondOr", outs(i))
           flip(i) == <<i = 2, Min(shared(i)) = 1>>
           make(i) == SetFlip(body(i), Made(G), flip(i))
<1>1. rule_short_circuit(G, b) = IF set = {} THEN {} ELSE {make(Min(set))}
  BY DEF rule_short_circuit, FirstOf, SetFlip
<1> HIDE DEF make
<1>2. set # {} /\ H = make(Min(set))
  BY <1>1
<1>3. PICK i \in {1, 2} : /\ H = make(i) /\ TwoWay(G, b)
                          /\ second(i) # b /\ OneIn(G, second(i)) /\ TwoWay(G, second(i)) /\ shared(i) # {}
  <2> HIDE DEF second, shared
  <2>1. set \subseteq Nat
    OBVIOUS
  <2>2. Min(set) \in set
    <3> HIDE DEF set
    <3> QED BY <1>2, <2>1, MinIn
  <2> QED BY <1>2, <2>2
<1> HIDE DEF set
<1>4. i \in DOMAIN Out(G, b) /\ second(i) \in ToSet(G.order) /\ clause(i) \in ToSet(G.order)
  BY <1>3, TwoWayEdges
<1>5. Min(shared(i)) \in {1, 2}
  BY <1>3, MinIn
<1>6. Out(G, second(i))[3 - Min(shared(i))] \in ToSet(G.order)
  <2> HIDE DEF second, shared
  <2> QED BY <1>3, <1>4, <1>5, TwoWayEdges
<1>7. outs(i) \in Seq(ToSet(G.order)) /\ DOMAIN outs(i) \subseteq {1, 2}
  <2> HIDE DEF second, shared, clause
  <2> QED BY <1>4, <1>6
<1> HIDE DEF outs, shared
<1>8. GraphInv(body(i), B) /\ Fewer(body(i), G)
  <2> DEFINE o == outs(i)
             W == body(i)
  <2>1. /\ OneIn(G, Out(G, b)[i]) /\ Out(G, b)[i] # b /\ i \in DOMAIN Out(G, b)
        /\ W = install(G, <<b, Out(G, b)[i]>>, "CondOr", o) /\ "CondOr" # "Basic"
    BY <1>3, <1>4
  <2>2. o \in Seq(ToSet(G.order)) /\ DOMAIN o \subseteq {1, 2}
    BY <1>7
  <2> HIDE DEF o, W
  <2>3. GraphInv(W, B) /\ Fewer(W, G)
    BY <2>1, <2>2, PairKeeps
  <2> QED BY <2>3 DEF W
<1>9. Made(G) \in DOMAIN body(i).blocks /\ DOMAIN Out(body(i), Made(G)) \subseteq {1, 2}
  BY <1>7, MadeIn
<1> HIDE DEF body, flip
<1>10. GraphInv(H, B) /\ H.order = body(i).order
  BY <1>3, <1>8, <1>9, FieldSet DEF make
<1> QED BY <1>8, <1>10 DEF Fewer

\* rule_if_else keeps the invariant and lowers the number of nodes: the arms
\* are two nodes even where both edges leave the same way, since each has
\* one in-edge.
LEMMA IfElseKeeps ==
  ASSUME NEW G, NEW B, GraphInv(G, B), NEW b \in ToSet(G.order), NEW H \in rule_if_else(G, b)
  PROVE  GraphInv(H, B) /\ Fewer(H, G)
<1> DEFINE arm(i) == Out(G, b)[i]
           then == IF is_oriented(G, b) THEN 1 ELSE 2
           comps == <<b, arm(then), arm(3 - then)>>
<1>1. /\ TwoWay(G, b)
      /\ \A i \in {1, 2} : OneIn(G, arm(i)) /\ Len(Out(G, arm(i))) = 1
      /\ H = install(G, comps, "IfElse", Out(G, arm(1)))
  BY DEF rule_if_else
<1>2. \A i \in {1, 2} : arm(i) \in ToSet(G.order) /\ i \in DOMAIN Out(G, b)
  BY <1>1, TwoWayEdges
<1>3. \A i \in {1, 2} : In(G, arm(i)) = {<<b, i>>}
  BY <1>1, <1>2, OnlyIn
<1>4. arm(1) # arm(2)
  <2>1. <<b, 1>> # <<b, 2>>
    OBVIOUS
  <2> QED BY <1>3, <2>1
<1>5. \A i \in {1, 2} : arm(i) # b
  <2>1. Len(Out(G, b)) = 2
    BY <1>1 DEF TwoWay
  <2> QED BY <1>1, <2>1
<1>6. then \in {1, 2} /\ 3 - then \in {1, 2} /\ then # 3 - then
  OBVIOUS
<1>7. Out(G, arm(1)) \in Seq(ToSet(G.order)) /\ DOMAIN Out(G, arm(1)) \subseteq {1, 2}
  <2>1. Out(G, arm(1)) \in Seq(ToSet(G.order)) /\ DOMAIN Out(G, arm(1)) = 1 .. Len(Out(G, arm(1)))
    BY <1>2, EdgeLeads
  <2>2. Len(Out(G, arm(1))) = 1
    BY <1>1
  <2> QED BY <2>1, <2>2
<1> HIDE DEF arm, then
<1>8. /\ comps \in Seq(ToSet(G.order)) /\ Len(comps) = 3 /\ DOMAIN comps = {1, 2, 3}
      /\ comps[1] = b /\ comps[2] = arm(then) /\ comps[3] = arm(3 - then)
  BY <1>2, <1>6
<1> HIDE DEF comps
<1>9. \A k, j \in DOMAIN comps : comps[k] = comps[j] => k = j
  <2>1. arm(then) # b /\ arm(3 - then) # b
    BY <1>5, <1>6
  <2>2. arm(then) # arm(3 - then)
    BY <1>4, <1>6
  <2> QED BY <2>1, <2>2, <1>8
<1>10. \A k \in DOMAIN comps : k # 1 => \A e \in In(G, comps[k]) : e[1] \in ToSet(comps)
  <2>1. b \in ToSet(comps)
    BY <1>8 DEF ToSet
  <2>2. \A i \in {1, 2} : \A e \in In(G, arm(i)) : e[1] = b
    BY <1>3
  <2> QED BY <2>1, <2>2, <1>6, <1>8
<1>11. Len(comps) > 0 /\ "IfElse" # "Basic"
  BY <1>8
<1>12. GraphInv(install(G, comps, "IfElse", Out(G, arm(1))), B)
  BY <1>7, <1>8, <1>9, <1>10, <1>11, InstallKeeps
<1>13. Len(comps) > 1 /\ comps[1] # comps[2]
  BY <1>8, <1>9
<1>14. Fewer(install(G, comps, "IfElse", Out(G, arm(1))), G)
  BY <1>8, <1>13, InstallFewer
<1> QED BY <1>1, <1>12, <1>14

\* rule_block_goto keeps the invariant and lowers the number of edges.
LEMMA BlockGotoKeeps ==
  ASSUME NEW G, NEW B, GraphInv(G, B), NEW b \in ToSet(G.order), NEW H \in rule_block_goto(G, b)
  PROVE  GraphInv(H, B) /\ Smaller(H, G)
<1> DEFINE set == {i \in DOMAIN Out(G, b) :
                      is_goto_out(G, b, i) /\ (is_switch_out(G, b) \/ Len(Out(G, b)) \in {1, 2})}
           gotos(i) == Append(remove_out_edge(G, b, i).gotos, record_goto(G, b, i, TwoWay(G, b)))
           cut(i) == IF is_switch_out(G, b) /\ "default" \in Labels(G, b, i)
                     THEN remove_out_edge(G, b, i).default_goto \cup {b}
                     ELSE remove_out_edge(G, b, i).default_goto
           make(i) == [remove_out_edge(G, b, i) EXCEPT !.gotos = gotos(i), !.default_goto = cut(i)]
<1>1. rule_block_goto(G, b) = IF set = {} THEN {} ELSE {make(Min(set))}
  BY DEF rule_block_goto, FirstOf
<1> HIDE DEF make
<1>2. set # {} /\ H = make(Min(set))
  BY <1>1
<1>3. set \subseteq DOMAIN Out(G, b) /\ set \subseteq Nat
  BY EdgeLeads
<1> HIDE DEF set
<1>4. PICK i \in DOMAIN Out(G, b) : H = make(i)
  BY <1>2, <1>3, MinIn
<1> HIDE DEF gotos, cut
<1> QED BY <1>4, CutEdge DEF make

-----------------------------------------------------------------------------
(* rule_cat, a line of any length; data induction by the least number.     *)

\* f is the line of successors from b, up to the n-th.
IsLine(G, b, f, n) == f = [m \in 0 .. n |-> IF m = 0 THEN b ELSE After(G, f[m - 1])]

\* There is such a line for every n.
LEMMA LineUpTo ==
  ASSUME NEW G, NEW b, NEW n \in Nat
  PROVE  \E f : IsLine(G, b, f, n)
<1> DEFINE T == {m \in Nat : ~ \E f : IsLine(G, b, f, m)}
<1> SUFFICES ASSUME T # {} PROVE FALSE
  OBVIOUS
<1>1. PICK m \in T : \A k \in T : m <= k
  <2>1. T \in SUBSET Nat
    OBVIOUS
  <2> HIDE DEF T
  <2> QED BY <2>1, LeastNat
<1>2. m # 0
  <2> DEFINE f == [k \in 0 .. 0 |-> b]
  <2>1. IsLine(G, b, f, 0)
    BY DEF IsLine
  <2> QED BY <2>1
<1>3. m - 1 \in Nat /\ m \in Nat
  BY <1>2
<1>4. PICK f : IsLine(G, b, f, m - 1)
  BY <1>1, <1>3
<1> DEFINE h == [k \in 0 .. m |-> IF k = m THEN After(G, f[m - 1]) ELSE f[k]]
<1>5. \A k \in 0 .. m - 1 : f[k] = IF k = 0 THEN b ELSE After(G, f[k - 1])
  BY <1>4 DEF IsLine
<1>6. \A k \in 0 .. m : h[k] = IF k = 0 THEN b ELSE After(G, h[k - 1])
  <2> SUFFICES ASSUME NEW k \in 0 .. m PROVE h[k] = IF k = 0 THEN b ELSE After(G, h[k - 1])
    OBVIOUS
  <2>1. CASE k = 0
    <3>1. h[k] = f[k] /\ 0 \in 0 .. m - 1
      BY <2>1, <1>2, <1>3
    <3> QED BY <2>1, <3>1, <1>5
  <2>2. CASE k # 0 /\ k # m
    <3>1. k \in 0 .. m - 1 /\ k - 1 \in 0 .. m - 1 /\ k - 1 \in 0 .. m /\ k - 1 # m
      BY <2>2, <1>3
    <3>2. h[k] = f[k] /\ h[k - 1] = f[k - 1]
      BY <2>2, <3>1
    <3>3. f[k] = After(G, f[k - 1])
      BY <3>1, <1>5, <2>2
    <3> QED BY <2>2, <3>2, <3>3
  <2>3. CASE k = m
    <3>1. k # 0 /\ k - 1 \in 0 .. m /\ k - 1 # m
      BY <2>3, <1>2, <1>3
    <3>2. h[k] = After(G, f[m - 1]) /\ h[k - 1] = f[m - 1]
      BY <2>3, <3>1
    <3> QED BY <2>3, <3>1, <3>2
  <2> QED BY <2>1, <2>2, <2>3
<1>7. h = [k \in 0 .. m |-> h[k]]
  OBVIOUS
<1> HIDE DEF h
<1>8. IsLine(G, b, h, m)
  BY <1>6, <1>7 DEF IsLine
<1> QED BY <1>1, <1>8

\* A longer line starts as a shorter one does.
LEMMA LinesAgree ==
  ASSUME NEW G, NEW b, NEW n \in Nat, NEW f, IsLine(G, b, f, n), NEW m \in Nat, m >= n,
         NEW h, IsLine(G, b, h, m)
  PROVE  f[n] = h[n]
<1> DEFINE T == {k \in 0 .. n : f[k] # h[k]}
<1> SUFFICES ASSUME T # {} PROVE FALSE
  OBVIOUS
<1>1. PICK k \in T : \A l \in T : k <= l
  <2>1. T \in SUBSET Nat
    OBVIOUS
  <2> HIDE DEF T
  <2> QED BY <2>1, LeastNat
<1>2. \A l \in 0 .. n : f[l] = IF l = 0 THEN b ELSE After(G, f[l - 1])
  BY DEF IsLine
<1>3. \A l \in 0 .. n : h[l] = IF l = 0 THEN b ELSE After(G, h[l - 1])
  <2>1. \A l \in 0 .. m : h[l] = IF l = 0 THEN b ELSE After(G, h[l - 1])
    BY DEF IsLine
  <2>2. \A l \in 0 .. n : l \in 0 .. m
    OBVIOUS
  <2> QED BY <2>1, <2>2
<1>4. k \in 0 .. n /\ k # 0
  BY <1>1, <1>2, <1>3
<1>5. k - 1 \in 0 .. n /\ ~(k <= k - 1)
  BY <1>4
<1>6. f[k - 1] = h[k - 1]
  BY <1>1, <1>5
<1> QED BY <1>1, <1>2, <1>3, <1>4, <1>6

\* So Line is the line: every element is what follows the one before.
LEMMA LineSteps ==
  ASSUME NEW G, NEW b
  PROVE  /\ Line(G, b)[0] = b
         /\ \A n \in Nat : Line(G, b)[n + 1] = After(G, Line(G, b)[n])
<1> DEFINE P(f) == f = [n \in Nat |-> IF n = 0 THEN b ELSE After(G, f[n - 1])]
           F(n) == CHOOSE f : IsLine(G, b, f, n)
           line == [n \in Nat |-> F(n)[n]]
<1>1. \A n \in Nat : IsLine(G, b, F(n), n)
  BY LineUpTo
<1> HIDE DEF F
<1>2. \A n \in Nat : F(n)[n] = IF n = 0 THEN b ELSE After(G, F(n - 1)[n - 1])
  <2> SUFFICES ASSUME NEW n \in Nat PROVE F(n)[n] = IF n = 0 THEN b ELSE After(G, F(n - 1)[n - 1])
    OBVIOUS
  <2>1. n \in 0 .. n /\ IsLine(G, b, F(n), n)
    BY <1>1
  <2>2. F(n)[n] = IF n = 0 THEN b ELSE After(G, F(n)[n - 1])
    BY <2>1 DEF IsLine
  <2>3. ASSUME n # 0 PROVE F(n - 1)[n - 1] = F(n)[n - 1]
    <3>1. n - 1 \in Nat /\ n >= n - 1
      BY <2>3
    <3>2. IsLine(G, b, F(n - 1), n - 1)
      BY <3>1, <1>1
    <3> QED BY <2>1, <3>1, <3>2, LinesAgree
  <2> QED BY <2>2, <2>3
<1>3. \A n \in Nat : line[n] = IF n = 0 THEN b ELSE After(G, line[n - 1])
  <2> SUFFICES ASSUME NEW n \in Nat PROVE line[n] = IF n = 0 THEN b ELSE After(G, line[n - 1])
    OBVIOUS
  <2>1. line[n] = F(n)[n]
    OBVIOUS
  <2>2. n # 0 => line[n - 1] = F(n - 1)[n - 1]
    OBVIOUS
  <2> QED BY <2>1, <2>2, <1>2
<1>4. line = [n \in Nat |-> line[n]]
  OBVIOUS
<1> HIDE DEF line
<1>5. P(line)
  BY <1>3, <1>4
<1>6. Line(G, b) = CHOOSE f : P(f)
  BY DEF Line
<1> HIDE DEF P
<1>7. P(Line(G, b))
  BY <1>5, <1>6
<1> USE DEF P
<1>8. \A n \in Nat : Line(G, b)[n] = IF n = 0 THEN b ELSE After(G, Line(G, b)[n - 1])
  BY <1>7
<1>9. \A n \in Nat : n + 1 \in Nat /\ n + 1 # 0 /\ (n + 1) - 1 = n
  OBVIOUS
<1> QED BY <1>8, <1>9

\* rule_cat keeps the invariant and lowers the number of nodes, for a line of
\* any length: a node that came twice would be entered from the line twice,
\* and has one in-edge.
LEMMA CatKeeps ==
  ASSUME NEW G, NEW B, GraphInv(G, B), NEW b \in ToSet(G.order), NEW H \in rule_cat(G, b)
  PROVE  GraphInv(H, B) /\ Fewer(H, G)
<1> DEFINE line == Line(G, b)
           starts == /\ Len(Out(G, b)) = 1
                     /\ ~is_switch_out(G, b)
                     /\ ~(OneIn(G, b) /\ \A e \in In(G, b) : Len(Out(G, e[1])) = 1)
           ends(n) == (\A k \in 0 .. n - 1 : RunsOn(G, b, line[k])) /\ ~RunsOn(G, b, line[n])
           list(n) == [i \in 1 .. n + 1 |-> line[i - 1]]
<1>1. Len(G.order) \in Nat
  BY DEF GraphInv, Shaped
<1>2. PICK n \in 1 .. Len(G.order) :
        /\ \A k \in 0 .. n - 1 : RunsOn(G, b, line[k])
        /\ H = install(G, list(n), "List", Out(G, line[n]))
  <2>1. rule_cat(G, b) = {install(G, list(n), "List", Out(G, line[n])) :
                            n \in {m \in 1 .. Len(G.order) : starts /\ ends(m)}}
    BY DEF rule_cat
  <2> HIDE DEF line, list
  <2> QED BY <2>1
<1>3. n \in Nat /\ n >= 1
  BY <1>1
<1>4. line[0] = b /\ \A k \in Nat : line[k + 1] = After(G, line[k])
  BY LineSteps
<1> HIDE DEF line
<1>5. \A k \in 0 .. n : line[k] \in ToSet(G.order)
  <2> DEFINE T == {k \in 0 .. n : line[k] \notin ToSet(G.order)}
  <2> SUFFICES ASSUME T # {} PROVE FALSE
    OBVIOUS
  <2>1. PICK k \in T : \A l \in T : k <= l
    <3>1. T \in SUBSET Nat
      OBVIOUS
    <3> HIDE DEF T
    <3> QED BY <3>1, LeastNat
  <2>2. k \in 0 .. n /\ k # 0
    BY <2>1, <1>4
  <2>3. k - 1 \in 0 .. n /\ k - 1 \in 0 .. n - 1 /\ k - 1 \in Nat /\ ~(k <= k - 1) /\ (k - 1) + 1 = k
    BY <2>2, <1>3
  <2>4. line[k - 1] \in ToSet(G.order)
    BY <2>1, <2>3
  <2>5. Len(Out(G, line[k - 1])) = 1 /\ line[k] = Out(G, line[k - 1])[1]
    BY <2>3, <1>2, <1>4 DEF RunsOn, After
  <2>6. 1 \in DOMAIN Out(G, line[k - 1])
    BY <2>4, <2>5, EdgeLeads
  <2>7. line[k] \in ToSet(G.order)
    BY <2>4, <2>5, <2>6, EdgeLeads
  <2> QED BY <2>1, <2>7
<1>6. \A k \in 0 .. n - 1 :
        /\ 1 \in DOMAIN Out(G, line[k]) /\ line[k] \in ToSet(G.order)
        /\ line[k + 1] = Out(G, line[k])[1]
        /\ line[k + 1] # b
        /\ In(G, line[k + 1]) = {<<line[k], 1>>}
  <2> SUFFICES ASSUME NEW k \in 0 .. n - 1
               PROVE  /\ 1 \in DOMAIN Out(G, line[k]) /\ line[k] \in ToSet(G.order)
                      /\ line[k + 1] = Out(G, line[k])[1]
                      /\ line[k + 1] # b
                      /\ In(G, line[k + 1]) = {<<line[k], 1>>}
    OBVIOUS
  <2>1. k \in 0 .. n /\ k \in Nat
    BY <1>3
  <2>2. line[k] \in ToSet(G.order)
    BY <2>1, <1>5
  <2>3. RunsOn(G, b, line[k]) /\ line[k + 1] = After(G, line[k])
    BY <1>2, <1>4, <2>1
  <2>4. Len(Out(G, line[k])) = 1 /\ line[k + 1] = Out(G, line[k])[1] /\ line[k + 1] # b
        /\ OneIn(G, Out(G, line[k])[1])
    BY <2>3 DEF RunsOn, After
  <2>5. 1 \in DOMAIN Out(G, line[k])
    BY <2>2, <2>4, EdgeLeads
  <2>6. In(G, Out(G, line[k])[1]) = {<<line[k], 1>>}
    BY <2>2, <2>4, <2>5, OnlyIn
  <2> QED BY <2>2, <2>4, <2>5, <2>6
<1>7. \A j, k \in 0 .. n : j < k => line[j] # line[k]
  <2> DEFINE T == {j \in 0 .. n : \E k \in 0 .. n : j < k /\ line[j] = line[k]}
  <2> SUFFICES ASSUME T # {} PROVE FALSE
    OBVIOUS
  <2>1. PICK j \in T : \A l \in T : j <= l
    <3>1. T \in SUBSET Nat
      OBVIOUS
    <3> HIDE DEF T
    <3> QED BY <3>1, LeastNat
  <2>2. PICK k \in 0 .. n : j < k /\ line[j] = line[k]
    BY <2>1
  <2>3. j \in Nat /\ k \in Nat /\ k - 1 \in 0 .. n - 1 /\ (k - 1) + 1 = k /\ j \in 0 .. n
    BY <2>1, <2>2
  <2>4. CASE j = 0
    <3>1. line[k] # b
      BY <2>3, <1>6
    <3> QED BY <2>2, <2>4, <3>1, <1>4
  <2>5. CASE j # 0
    <3>1. j - 1 \in 0 .. n - 1 /\ (j - 1) + 1 = j
      BY <2>2, <2>3, <2>5
    <3>2. In(G, line[j]) = {<<line[j - 1], 1>>} /\ In(G, line[k]) = {<<line[k - 1], 1>>}
      BY <2>3, <3>1, <1>6
    <3>3. line[j - 1] = line[k - 1]
      <4>1. {<<line[j - 1], 1>>} = {<<line[k - 1], 1>>}
        BY <2>2, <3>2
      <4>2. <<line[j - 1], 1>> = <<line[k - 1], 1>>
        BY <4>1
      <4> QED BY <4>2
    <3>4. j - 1 \in 0 .. n /\ k - 1 \in 0 .. n /\ j - 1 < k - 1 /\ ~(j <= j - 1)
      BY <2>2, <2>3, <3>1, <1>3
    <3>5. j - 1 \in T
      BY <3>3, <3>4
    <3> HIDE DEF T
    <3> QED BY <2>1, <3>4, <3>5
  <2> QED BY <2>4, <2>5
<1> DEFINE comps == list(n)
<1>8. /\ DOMAIN comps = 1 .. n + 1
      /\ \A k \in 1 .. n + 1 : comps[k] = line[k - 1] /\ k - 1 \in 0 .. n
  BY <1>3
<1>9. comps \in Seq(ToSet(G.order)) /\ Len(comps) = n + 1
  <2>1. comps \in [1 .. n + 1 -> ToSet(G.order)]
    BY <1>5, <1>8
  <2> QED BY <2>1, <1>3
<1> HIDE DEF list
<1>10. \A j, k \in DOMAIN comps : comps[j] = comps[k] => j = k
  <2> SUFFICES ASSUME NEW j \in 1 .. n + 1, NEW k \in 1 .. n + 1, comps[j] = comps[k] PROVE j = k
    BY <1>8
  <2>1. line[j - 1] = line[k - 1] /\ j - 1 \in 0 .. n /\ k - 1 \in 0 .. n
    BY <1>8
  <2>2. ~(j - 1 < k - 1) /\ ~(k - 1 < j - 1)
    BY <2>1, <1>7
  <2> QED BY <2>1, <2>2
<1>11. \A k \in DOMAIN comps : k # 1 => \A e \in In(G, comps[k]) : e[1] \in ToSet(comps)
  <2> SUFFICES ASSUME NEW k \in 1 .. n + 1, k # 1, NEW e \in In(G, comps[k]) PROVE e[1] \in ToSet(comps)
    BY <1>8
  <2>1. k - 2 \in 0 .. n - 1 /\ (k - 2) + 1 = k - 1 /\ k - 1 \in 1 .. n + 1 /\ (k - 1) - 1 = k - 2
    BY <1>3
  <2>2. In(G, line[k - 1]) = {<<line[k - 2], 1>>}
    BY <2>1, <1>6
  <2>3. e = <<line[k - 2], 1>>
    BY <2>2, <1>8
  <2>4. comps[k - 1] = line[k - 2]
    BY <2>1, <1>8
  <2>5. comps[k - 1] \in ToSet(comps)
    BY <2>1, <1>8 DEF ToSet
  <2> QED BY <2>3, <2>4, <2>5
<1>12. Out(G, line[n]) \in Seq(ToSet(G.order)) /\ DOMAIN Out(G, line[n]) \subseteq {1, 2}
  <2>1. n \in 0 .. n /\ n - 1 \in 0 .. n - 1 /\ n - 1 \in Nat /\ (n - 1) + 1 = n
    BY <1>3
  <2>2. line[n] \in ToSet(G.order)
    BY <2>1, <1>5
  <2>3. ~is_switch_out(G, line[n])
    BY <2>1, <1>2, <1>4 DEF RunsOn
  <2>4. Out(G, line[n]) \in Seq(ToSet(G.order))
    BY <2>2, EdgeLeads
  <2> QED BY <2>2, <2>3, <2>4 DEF GraphInv, Narrow
<1>13. Len(comps) > 0 /\ "List" # "Basic"
  BY <1>3, <1>9
<1>14. GraphInv(install(G, comps, "List", Out(G, line[n])), B)
  BY <1>9, <1>10, <1>11, <1>12, <1>13, InstallKeeps
<1>15. Len(comps) > 1 /\ comps[1] # comps[2]
  <2>1. 1 \in DOMAIN comps /\ 2 \in DOMAIN comps /\ Len(comps) > 1
    BY <1>3, <1>8, <1>9
  <2> QED BY <2>1, <1>10
<1>16. Fewer(install(G, comps, "List", Out(G, line[n])), G)
  BY <1>9, <1>15, InstallFewer
<1> QED BY <1>2, <1>14, <1>16

-----------------------------------------------------------------------------
(* rule_switch, and which rule fires.                                      *)

\* The exit rule_switch finds is a node in the graph, of a switch that has
\* edges.
LEMMA SwitchExitIn ==
  ASSUME NEW G, NEW B, GraphInv(G, B), NEW b \in ToSet(G.order), SwitchExit(G, b) # None
  PROVE  SwitchExit(G, b) \in ToSet(G.order) /\ DOMAIN Out(G, b) # {}
<1> DEFINE case(i) == Out(G, b)[i]
           obvious == {i \in DOMAIN Out(G, b) :
                    case(i) = b \/ Len(Out(G, case(i))) > 1 \/ Cardinality(In(G, case(i))) > 1}
           onward == {i \in DOMAIN Out(G, b) : Out(G, case(i)) # <<>>}
<1>1. SwitchExit(G, b) = IF obvious # {} THEN case(Min(obvious))
                         ELSE IF onward # {} THEN Out(G, case(Min(onward)))[1] ELSE None
  BY DEF SwitchExit
<1>2. /\ obvious \subseteq DOMAIN Out(G, b) /\ onward \subseteq DOMAIN Out(G, b)
      /\ \A i \in onward : Out(G, case(i)) # <<>>
  OBVIOUS
<1> HIDE DEF obvious, onward
<1>3. DOMAIN Out(G, b) \subseteq Nat /\ \A i \in DOMAIN Out(G, b) : case(i) \in ToSet(G.order)
  BY EdgeLeads
<1> HIDE DEF case
<1>4. CASE obvious # {}
  <2>1. Min(obvious) \in obvious
    BY <1>2, <1>3, <1>4, MinIn
  <2> QED BY <1>1, <1>2, <1>3, <1>4, <2>1
<1>5. CASE obvious = {} /\ onward # {}
  <2> DEFINE c == case(Min(onward))
  <2>1. Min(onward) \in onward
    BY <1>2, <1>3, <1>5, MinIn
  <2>2. c \in ToSet(G.order) /\ Out(G, c) # <<>>
    BY <1>2, <1>3, <2>1
  <2> HIDE DEF c
  <2>3. 1 \in DOMAIN Out(G, c)
    <3>1. Out(G, c) \in Seq(ToSet(G.order)) /\ Len(Out(G, c)) \in Nat /\ DOMAIN Out(G, c) = 1 .. Len(Out(G, c))
      BY <2>2, EdgeLeads
    <3>2. Len(Out(G, c)) # 0
      BY <2>2, <3>1
    <3> QED BY <3>1, <3>2
  <2>4. Out(G, c)[1] \in ToSet(G.order)
    BY <2>2, <2>3, EdgeLeads
  <2> QED BY <2>1, <2>4, <1>1, <1>2, <1>5 DEF c
<1> QED BY <1>1, <1>4, <1>5

\* rule_switch keeps the invariant, for any number of cases: a case is
\* entered by one edge only, so none is a component twice.  It lowers the
\* number of nodes; without a case, of edges or of switch heads; where it
\* gives up the edges to the exit, of those not given up.
LEMMA SwitchKeeps ==
  ASSUME NEW G, NEW B, GraphInv(G, B), NEW b \in ToSet(G.order), NEW H \in rule_switch(G, b)
  PROVE  GraphInv(H, B) /\ Smaller(H, G)
<1> DEFINE exit == SwitchExit(G, b)
           skips == SwitchSkips(G, b, exit)
           cases == Without(Out(G, b), {exit})
           comps == <<b>> \o cases
           outs == IF exit = None THEN <<>> ELSE <<exit>>
           made == install(G, comps, "Switch", outs)
           flags == made.blocks[Made(G)].flags \ {"switch"}
<1>1. /\ is_switch_out(G, b)
      /\ \A c \in ToSet(Out(G, b)) \ {exit} : OneIn(G, c) /\ ~is_switch_out(G, c)
      /\ exit \in ToSet(Out(G, b)) => NoGotoIn(G, exit)
      /\ \/ skips # {} /\ H = set_goto_branches(G, {<<b, i>> : i \in skips})
         \/ H = SetFlags(made, Made(G), flags)
  <2> DEFINE fits == /\ is_switch_out(G, b)
                     /\ exit \in ToSet(Out(G, b)) => NoGotoIn(G, exit) /\ NoGotoOut(G, exit)
                     /\ \A c \in ToSet(Out(G, b)) \ {exit} : IsCase(G, b, exit, c)
  <2>1. rule_switch(G, b) = IF ~fits THEN {}
                            ELSE IF skips # {} THEN {set_goto_branches(G, {<<b, i>> : i \in skips})}
                            ELSE {SetFlags(made, Made(G), flags)}
    BY DEF rule_switch, SetFlags
  <2> HIDE DEF fits, made, flags, skips, exit
  <2>2. /\ fits
        /\ \/ skips # {} /\ H = set_goto_branches(G, {<<b, i>> : i \in skips})
           \/ H = SetFlags(made, Made(G), flags)
    BY <2>1
  <2>3. fits => /\ is_switch_out(G, b)
                /\ exit \in ToSet(Out(G, b)) => NoGotoIn(G, exit)
                /\ \A c \in ToSet(Out(G, b)) \ {exit} : OneIn(G, c) /\ ~is_switch_out(G, c)
    BY DEF fits, IsCase
  <2> QED BY <2>2, <2>3
<1>2. CASE skips # {} /\ H = set_goto_branches(G, {<<b, i>> : i \in skips})
  <2> DEFINE edges == {<<b, i>> : i \in skips}
  <2>1. PICK k : k \in skips
    BY <1>2
  <2>2. k \in DOMAIN Out(G, b) /\ Out(G, b)[k] = exit
    BY <2>1 DEF SwitchSkips
  <2>3. <<b, k>> \in In(G, exit) /\ exit \in ToSet(Out(G, b))
    BY <2>2, EdgeLeads DEF ToSet
  <2> HIDE DEF exit
  <2>4. ~is_goto_out(G, b, k)
    <3>1. NoGotoIn(G, exit)
      BY <1>1, <2>3
    <3>2. <<b, k>>[1] = b /\ <<b, k>>[2] = k
      OBVIOUS
    <3> QED BY <2>3, <3>1, <3>2 DEF NoGotoIn
  <2>5. <<b, k>> \in edges
    BY <2>1
  <2> HIDE DEF skips
  <2>6. H = set_goto_branches(G, edges)
    BY <1>2
  <2> HIDE DEF edges
  <2> QED BY <2>2, <2>4, <2>5, <2>6, GotoBranches, GotoShrinks
<1>3. CASE H = SetFlags(made, Made(G), flags)
  <2>1. /\ Out(G, b) \in Seq(ToSet(G.order)) /\ DOMAIN Out(G, b) = 1 .. Len(Out(G, b))
        /\ Len(Out(G, b)) \in Nat
    BY EdgeLeads
  <2>2. outs \in Seq(ToSet(G.order)) /\ Len(outs) <= Len(Out(G, b)) /\ DOMAIN outs \subseteq {1, 2}
    <3>1. exit # None => exit \in ToSet(G.order) /\ DOMAIN Out(G, b) # {}
      BY SwitchExitIn
    <3> HIDE DEF exit
    <3>2. CASE exit = None
      <4>1. outs = <<>>
        BY <3>2
      <4> HIDE DEF outs
      <4>2. Len(outs) = 0 /\ outs \in Seq(ToSet(G.order)) /\ DOMAIN outs \subseteq {1, 2}
        BY <4>1
      <4> QED BY <4>2, <2>1
    <3>3. CASE exit # None
      <4>1. outs = <<exit>> /\ exit \in ToSet(G.order)
        BY <3>1, <3>3
      <4>2. Len(Out(G, b)) >= 1
        BY <3>1, <3>3, <2>1
      <4> HIDE DEF outs
      <4>3. Len(outs) = 1 /\ outs \in Seq(ToSet(G.order)) /\ DOMAIN outs \subseteq {1, 2}
        BY <4>1
      <4> QED BY <4>2, <4>3, <2>1
    <3> QED BY <3>2, <3>3
  <2> HIDE DEF exit
  <2>3. cases \in Seq(ToSet(G.order)) /\ ToSet(cases) = ToSet(Out(G, b)) \ {exit}
    BY <2>1, WithoutIs
  <2>4. \A c \in ToSet(cases) : /\ c # b
                                /\ \A e \in In(G, c) : e[1] = b
    <3> SUFFICES ASSUME NEW c \in ToSet(cases) PROVE c # b /\ \A e \in In(G, c) : e[1] = b
      OBVIOUS
    <3>1. PICK i \in DOMAIN Out(G, b) : c = Out(G, b)[i]
      BY <2>3 DEF ToSet
    <3>2. OneIn(G, c) /\ ~is_switch_out(G, c)
      BY <1>1, <2>3
    <3>3. In(G, c) = {<<b, i>>}
      BY <3>1, <3>2, OnlyIn
    <3> QED BY <3>2, <3>3, <1>1
  <2>5. \A i, j \in DOMAIN cases : cases[i] = cases[j] => i = j
    <3> DEFINE kept == {i \in DOMAIN Out(G, b) : Out(G, b)[i] # exit}
    <3>1. \A i, j \in kept : Out(G, b)[i] = Out(G, b)[j] => i = j
      <4> SUFFICES ASSUME NEW i \in kept, NEW j \in kept, Out(G, b)[i] = Out(G, b)[j] PROVE i = j
        OBVIOUS
      <4>1. OneIn(G, Out(G, b)[i]) /\ OneIn(G, Out(G, b)[j])
        BY <1>1 DEF ToSet
      <4>2. In(G, Out(G, b)[i]) = {<<b, i>>} /\ In(G, Out(G, b)[j]) = {<<b, j>>}
        BY <4>1, OnlyIn
      <4>3. <<b, i>> = <<b, j>>
        BY <4>2
      <4> QED BY <4>3
    <3>2. kept = {i \in DOMAIN Out(G, b) : Out(G, b)[i] \notin {exit}}
      OBVIOUS
    <3> HIDE DEF kept
    <3> QED BY <3>1, <3>2, <2>1, WithoutIs
  <2> HIDE DEF cases
  <2>6. /\ Len(cases) \in Nat /\ DOMAIN cases = 1 .. Len(cases)
        /\ \A i \in 1 .. Len(cases) : cases[i] \in ToSet(cases)
    BY <2>3, SeqElements
  <2>7. /\ comps \in Seq(ToSet(G.order))
        /\ Len(comps) = Len(cases) + 1 /\ DOMAIN comps = 1 .. Len(cases) + 1
        /\ comps[1] = b /\ \A k \in 2 .. Len(cases) + 1 : comps[k] = cases[k - 1]
    BY <2>3, <2>6
  <2> HIDE DEF comps
  <2>8. \A k \in 2 .. Len(cases) + 1 : comps[k] \in ToSet(cases) /\ k - 1 \in DOMAIN cases
    BY <2>6, <2>7
  <2>9. \A j, k \in DOMAIN comps : comps[j] = comps[k] => j = k
    <3> SUFFICES ASSUME NEW j \in 1 .. Len(cases) + 1, NEW k \in 1 .. Len(cases) + 1, comps[j] = comps[k]
                 PROVE  j = k
      BY <2>7
    <3>1. CASE j = 1 \/ k = 1
      BY <3>1, <2>4, <2>6, <2>7, <2>8
    <3>2. CASE j # 1 /\ k # 1
      <4>1. j \in 2 .. Len(cases) + 1 /\ k \in 2 .. Len(cases) + 1
        BY <3>2, <2>6
      <4>2. cases[j - 1] = cases[k - 1] /\ j - 1 \in DOMAIN cases /\ k - 1 \in DOMAIN cases
        BY <4>1, <2>7, <2>8
      <4>3. j - 1 = k - 1
        BY <4>2, <2>5
      <4> QED BY <4>1, <4>3
    <3> QED BY <3>1, <3>2
  <2>10. \A k \in DOMAIN comps : k # 1 => \A e \in In(G, comps[k]) : e[1] \in ToSet(comps)
    <3>1. b \in ToSet(comps)
      BY <2>6, <2>7 DEF ToSet
    <3>2. \A k \in DOMAIN comps : k # 1 => comps[k] \in ToSet(cases)
      BY <2>6, <2>7, <2>8
    <3> QED BY <3>1, <3>2, <2>4
  <2>11. Len(comps) > 0 /\ "Switch" # "Basic"
    BY <2>6, <2>7
  <2> HIDE DEF outs
  <2>12. GraphInv(made, B)
    BY <2>2, <2>7, <2>9, <2>10, <2>11, InstallKeeps
  <2>13. Made(G) \in DOMAIN made.blocks /\ DOMAIN Out(made, Made(G)) \subseteq {1, 2}
    BY <2>2, MadeIn
  <2>14. made = install(G, comps, "Switch", outs) /\ "switch" \notin flags
    OBVIOUS
  <2> HIDE DEF made, flags
  <2>15. GraphInv(H, B) /\ H.order = made.order /\ EdgeSet(H) = EdgeSet(made)
    BY <2>12, <2>13, <1>3, FieldSet
  <2>16. CASE Len(cases) > 0
    <3>1. Len(comps) > 1 /\ 1 \in DOMAIN comps /\ 2 \in DOMAIN comps
      BY <2>6, <2>7, <2>16
    <3>2. comps[1] # comps[2]
      BY <2>9, <3>1
    <3>3. Fewer(made, G)
      BY <2>7, <2>14, <3>1, <3>2, InstallFewer
    <3> QED BY <2>15, <3>3 DEF Fewer, Smaller
  <2>17. CASE ~(Len(cases) > 0)
    <3>1. comps = <<b>>
      BY <2>6, <2>7, <2>17
    <3>2. /\ ToSet(made.order) = (ToSet(G.order) \ {b}) \cup {Made(G)} /\ Made(G) \notin ToSet(G.order)
          /\ Cardinality(ToSet(made.order)) = Cardinality(ToSet(G.order))
          /\ Cardinality(EdgeSet(made)) \in Nat /\ Cardinality(EdgeSet(G)) \in Nat
          /\ Cardinality(EdgeSet(made)) <= Cardinality(EdgeSet(G))
      BY <2>2, <2>14, <3>1, SingleShrinks
    <3>3. SwitchSet(H) = SwitchSet(G) \ {b}
      <4>1. Shaped(G) /\ Shaped(made) /\ ToSet(G.order) \subseteq DOMAIN G.blocks
        BY <2>12, SeqElements DEF GraphInv, Shaped
      <4>2. /\ \A m \in DOMAIN G.blocks : made.blocks[m].flags = G.blocks[m].flags
            /\ DOMAIN G.blocks = 1 .. Len(G.blocks) /\ DOMAIN made.blocks = 1 .. Made(G)
            /\ Len(G.blocks) \in Nat
        BY <4>1, <2>14, InstallIs
      <4>3. DOMAIN G.blocks \subseteq DOMAIN made.blocks /\ Made(G) \notin DOMAIN G.blocks
        BY <4>2 DEF Made
      <4>4. \A m \in DOMAIN made.blocks :
              H.blocks[m].flags = IF m = Made(G) THEN flags ELSE made.blocks[m].flags
        BY <4>1, <1>3, <2>13 DEF SetFlags, Shaped, GraphFields, NodeFields
      <4>5. "switch" \notin H.blocks[Made(G)].flags
        BY <4>4, <2>13, <2>14
      <4>6. \A m \in ToSet(G.order) : H.blocks[m].flags = G.blocks[m].flags
        BY <4>1, <4>2, <4>3, <4>4
      <4> QED BY <4>5, <4>6, <3>2, <2>15 DEF SwitchSet, is_switch_out
    <3>4. Cardinality(SwitchSet(H)) < Cardinality(SwitchSet(G))
      <4>1. IsFiniteSet(SwitchSet(G))
        BY FiniteGraph DEF GraphInv
      <4>2. b \in SwitchSet(G)
        BY <1>1 DEF SwitchSet
      <4> QED BY <4>1, <4>2, <3>3, ProperSubset
    <3> QED BY <2>15, <3>2, <3>4 DEF Smaller
  <2> QED BY <2>15, <2>16, <2>17
<1> QED BY <1>1, <1>2, <1>3

\* What the first rule that fires makes, some rule makes.
LEMMA Firing ==
  ASSUME NEW n \in Nat, NEW outcomes, DOMAIN outcomes = 1 .. n, NEW H \in FirstFiring(outcomes)
  PROVE  \E i \in 1 .. n : H \in outcomes[i]
<1> DEFINE fires == {i \in DOMAIN outcomes : outcomes[i] # {}}
<1>1. FirstFiring(outcomes) = IF fires = {} THEN {} ELSE outcomes[Min(fires)]
  BY DEF FirstFiring
<1>2. fires \subseteq 1 .. n /\ fires \subseteq Nat
  OBVIOUS
<1> HIDE DEF fires
<1>3. fires # {}
  BY <1>1
<1>4. Min(fires) \in fires
  BY <1>2, <1>3, MinIn
<1> QED BY <1>1, <1>2, <1>3, <1>4

\* No rule of collapse_internal applies.
Settled(G) == \A n \in ToSet(G.order) : MainRules(G, n) = {}

\* In a graph where no rule applies no edge is given up: rule_block_goto
\* would cut it.
LEMMA SettledOpen ==
  ASSUME NEW G, NEW B, GraphInv(G, B), Settled(G), NEW b \in ToSet(G.order), NEW i \in DOMAIN Out(G, b)
  PROVE  ~is_goto_out(G, b, i)
<1> SUFFICES ASSUME is_goto_out(G, b, i) PROVE FALSE
  OBVIOUS
<1> DEFINE outcomes ==
             <<rule_block_goto(G, b), rule_cat(G, b), rule_proper_if(G, b), rule_if_else(G, b),
               rule_while_do(G, b), rule_do_while(G, b), rule_inf_loop(G, b), rule_switch(G, b)>>
           fires == {k \in DOMAIN outcomes : outcomes[k] # {}}
           set == {k \in DOMAIN Out(G, b) :
                      is_goto_out(G, b, k) /\ (is_switch_out(G, b) \/ Len(Out(G, b)) \in {1, 2})}
<1>1. Len(Out(G, b)) \in Nat /\ DOMAIN Out(G, b) = 1 .. Len(Out(G, b)) /\ i \in 1 .. Len(Out(G, b))
  BY EdgeLeads
<1>2. is_switch_out(G, b) \/ Len(Out(G, b)) \in {1, 2}
  <2>1. is_switch_out(G, b) \/ DOMAIN Out(G, b) \subseteq {1, 2}
    BY DEF GraphInv, Narrow
  <2> QED BY <2>1, <1>1
<1>3. set # {}
  BY <1>2
<1>4. rule_block_goto(G, b) # {}
  <2> HIDE DEF set
  <2> QED BY <1>3 DEF rule_block_goto, FirstOf, set
<1>5. ~Isolated(G, b)
  BY <1>1 DEF Isolated
<1>6. MainRules(G, b) = FirstFiring(outcomes)
  BY <1>5 DEF MainRules
<1>7. DOMAIN outcomes = 1 .. 8 /\ outcomes[1] = rule_block_goto(G, b)
  OBVIOUS
<1> HIDE DEF outcomes
<1>8. fires \subseteq Nat /\ fires # {} /\ FirstFiring(outcomes) = outcomes[Min(fires)]
  BY <1>4, <1>7 DEF FirstFiring
<1>9. Min(fires) \in fires
  <2> HIDE DEF fires
  <2> QED BY <1>8, MinIn
<1>10. FirstFiring(outcomes) # {}
  BY <1>8, <1>9
<1> QED BY <1>6, <1>10 DEF Settled

\* rule_case_fallthru keeps the invariant, and where no other rule applies it
\* gives up an edge for the first time.
LEMMA CaseFallthruKeeps ==
  ASSUME NEW G, NEW B, GraphInv(G, B), NEW b \in ToSet(G.order), NEW H \in rule_case_fallthru(G, b)
  PROVE  GraphInv(H, B) /\ (Settled(G) => Smaller(H, G))
<1>1. PICK fall \in SUBSET ToSet(Out(G, b)) :
        /\ fall # {} /\ \A c \in fall : Len(Out(G, c)) = 1
        /\ H = set_goto_branches(G, {<<c, 1>> : c \in fall})
  BY DEF rule_case_fallthru
<1> DEFINE edges == {<<c, 1>> : c \in fall}
<1>2. PICK c \in fall : Len(Out(G, c)) = 1
  BY <1>1
<1>3. c \in ToSet(G.order)
  BY DEF GraphInv, Closed
<1>4. 1 \in DOMAIN Out(G, c)
  BY <1>2, <1>3, EdgeLeads
<1>5. <<c, 1>> \in edges /\ H = set_goto_branches(G, edges)
  BY <1>1
<1> HIDE DEF edges
<1>6. GraphInv(H, B)
  BY <1>5, GotoBranches
<1>7. ASSUME Settled(G) PROVE Smaller(H, G)
  <2>1. ~is_goto_out(G, c, 1)
    BY <1>3, <1>4, <1>7, SettledOpen
  <2> QED BY <2>1, <1>3, <1>4, <1>5, GotoShrinks
<1> QED BY <1>6, <1>7

\* The rules tried when no other applies keep the invariant and lower the
\* measure.
LEMMA LateRulesKeep ==
  ASSUME NEW G, NEW B, GraphInv(G, B), NEW b \in ToSet(G.order), NEW H \in LateRules(G, b)
  PROVE  GraphInv(H, B) /\ (Settled(G) => Smaller(H, G))
<1> DEFINE outcomes == <<rule_if_no_exit(G, b), rule_case_fallthru(G, b)>>
<1>1. H \in FirstFiring(outcomes)
  BY DEF LateRules
<1>2. DOMAIN outcomes = 1 .. 2
  OBVIOUS
<1>3. /\ outcomes[1] = rule_if_no_exit(G, b)
      /\ outcomes[2] = rule_case_fallthru(G, b)
  OBVIOUS
<1> HIDE DEF outcomes
<1>4. \E i \in 1 .. 2 : H \in outcomes[i]
  BY <1>1, <1>2, Firing
<1>5. H \in rule_if_no_exit(G, b) \/ H \in rule_case_fallthru(G, b)
  BY <1>3, <1>4
<1>6. \/ GraphInv(H, B) /\ (Settled(G) => Smaller(H, G))
      \/ GraphInv(H, B) /\ Fewer(H, G)
  BY <1>5, IfNoExitKeeps, CaseFallthruKeeps
<1> QED BY <1>6 DEF Smaller

\* The rules of collapse_internal keep the invariant and lower the measure.
LEMMA MainRulesKeep ==
  ASSUME NEW G, NEW B, GraphInv(G, B), NEW b \in ToSet(G.order), NEW H \in MainRules(G, b)
  PROVE  GraphInv(H, B) /\ Smaller(H, G)
<1> DEFINE outcomes ==
             <<rule_block_goto(G, b), rule_cat(G, b), rule_proper_if(G, b), rule_if_else(G, b),
               rule_while_do(G, b), rule_do_while(G, b), rule_inf_loop(G, b), rule_switch(G, b)>>
<1>1. H \in FirstFiring(outcomes)
  BY DEF MainRules
<1>2. DOMAIN outcomes = 1 .. 8
  OBVIOUS
<1>3. /\ outcomes[1] = rule_block_goto(G, b) /\ outcomes[2] = rule_cat(G, b)
      /\ outcomes[3] = rule_proper_if(G, b) /\ outcomes[4] = rule_if_else(G, b)
      /\ outcomes[5] = rule_while_do(G, b) /\ outcomes[6] = rule_do_while(G, b)
      /\ outcomes[7] = rule_inf_loop(G, b) /\ outcomes[8] = rule_switch(G, b)
  OBVIOUS
<1> HIDE DEF outcomes
<1>4. \E i \in 1 .. 8 : H \in outcomes[i]
  BY <1>1, <1>2, Firing
<1>5. \/ H \in rule_block_goto(G, b) \/ H \in rule_cat(G, b)
      \/ H \in rule_proper_if(G, b) \/ H \in rule_if_else(G, b)
      \/ H \in rule_while_do(G, b) \/ H \in rule_do_while(G, b)
      \/ H \in rule_inf_loop(G, b) \/ H \in rule_switch(G, b)
  BY <1>3, <1>4
<1>6. \/ GraphInv(H, B) /\ Smaller(H, G)
      \/ GraphInv(H, B) /\ Fewer(H, G)
  BY <1>5, BlockGotoKeeps, CatKeeps, ProperIfKeeps, IfElseKeeps, WhileDoKeeps, DoWhileKeeps,
     InfLoopKeeps, SwitchKeeps
<1> QED BY <1>6 DEF Smaller

-----------------------------------------------------------------------------
(* The unstructured graph, the finished graph and the scans.               *)

\* The graph that structure starts from satisfies the invariant.
LEMMA UnstructuredInv ==
  ASSUME NEW s \in Subjects, NEW o
  PROVE  GraphInv(Unstructured(s, o), Blocks(s.outs))
<1> DEFINE found == structure_loops(s.outs)
           labels(b) == LeafLabels(s, found.labels, b)
           B == Blocks(s.outs)
           G == Unstructured(s, o)
           switch(b) == b \in s.switch \/ Len(s.outs[b]) > 2
<1>1. s.outs \in Seq(Seq(B)) /\ B = 1 .. Len(s.outs) /\ Len(s.outs) \in Nat
  BY SubjectsAssumption DEF Blocks
<1> HIDE DEF found, B, labels
<1>2. /\ DOMAIN G = GraphFields
      /\ G.blocks = [b \in B |-> Leaf(b, s.outs[b], labels(b), switch(b))]
      /\ G.order = [b \in B |-> b]
  BY DEF Unstructured, GraphFields, found, labels, B
<1> HIDE DEF G
<1>3. DOMAIN G.blocks = B /\ DOMAIN G.order = B /\ \A b \in B : G.order[b] = b
  BY <1>2
<1>4. \A b \in B : /\ DOMAIN G.blocks[b] = NodeFields
                   /\ G.blocks[b].kind = "Basic"
                   /\ G.blocks[b].comps = <<>>
                   /\ G.blocks[b].outs = s.outs[b]
                   /\ switch(b) => "switch" \in G.blocks[b].flags
  <2> SUFFICES ASSUME NEW b \in B
               PROVE  /\ DOMAIN G.blocks[b] = NodeFields
                      /\ G.blocks[b].kind = "Basic"
                      /\ G.blocks[b].comps = <<>>
                      /\ G.blocks[b].outs = s.outs[b]
                      /\ switch(b) => "switch" \in G.blocks[b].flags
    OBVIOUS
  <2> DEFINE w == switch(b)
  <2>1. G.blocks[b] = Leaf(b, s.outs[b], labels(b), w)
    BY <1>2
  <2> HIDE DEF w
  <2>2. /\ DOMAIN G.blocks[b] = NodeFields
        /\ G.blocks[b].kind = "Basic"
        /\ G.blocks[b].comps = <<>>
        /\ G.blocks[b].outs = s.outs[b]
        /\ w => "switch" \in G.blocks[b].flags
    BY <2>1 DEF Leaf, NodeFields
  <2> QED BY <2>2 DEF w
<1>5. ToSet(G.order) = B
  BY <1>3 DEF ToSet
<1>6. G.order \in Seq(B)
  BY <1>1, <1>2
<1>7. G.blocks \in Seq(ToSet(G.blocks))
  <2> DEFINE T == ToSet(G.blocks)
  <2>1. \E f : G.blocks = [b \in B |-> f[b]]
    <3> DEFINE f == [b \in B |-> Leaf(b, s.outs[b], labels(b), switch(b))]
    <3>1. G.blocks = [b \in B |-> f[b]]
      BY <1>2
    <3> QED BY <3>1
  <2>2. \A b \in 1 .. Len(s.outs) : G.blocks[b] \in T
    BY <1>1, <1>3 DEF ToSet
  <2> HIDE DEF T
  <2>3. G.blocks \in [1 .. Len(s.outs) -> T]
    BY <2>1, <2>2, <1>1
  <2>4. G.blocks \in Seq(T)
    BY <2>3, <1>1, SeqFrom
  <2> QED BY <2>4 DEF T
<1>8. \A b \in B : s.outs[b] \in Seq(B) /\ s.outs[b] \in Seq(Nat) /\ ToSet(s.outs[b]) \subseteq B
  <2>1. \A b \in B : s.outs[b] \in Seq(B)
    BY <1>1
  <2>2. B \subseteq Nat
    BY <1>1
  <2>3. ASSUME NEW b \in B
        PROVE  s.outs[b] \in Seq(B) /\ s.outs[b] \in Seq(Nat) /\ ToSet(s.outs[b]) \subseteq B
    <3> DEFINE out == s.outs[b]
    <3>1. out \in Seq(B)
      BY <2>1
    <3> HIDE DEF out
    <3>2. out \in Seq(Nat) /\ ToSet(out) \subseteq B
      BY <3>1, <2>2, SeqElements
    <3> QED BY <3>1, <3>2 DEF out
  <2> QED BY <2>3
<1>9. Shaped(G)
  <2>1. <<>> \in Seq(B)
    OBVIOUS
  <2>2. \A b \in B : G.blocks[b].outs \in Seq(Nat) /\ G.blocks[b].comps \in Seq(B)
    BY <1>4, <1>8, <2>1
  <2> QED BY <1>2, <1>3, <1>4, <1>6, <1>7, <2>2 DEF Shaped
<1>10. Closed(G)
  BY <1>4, <1>5, <1>8 DEF Closed, Out
<1>11. PlacedOnce(G)
  <2>1. \A b \in B : DOMAIN G.blocks[b].comps = {}
    BY <1>4
  <2> QED BY <2>1, <1>3 DEF PlacedOnce
<1>12. Kept(G, B)
  <2> DEFINE f == [x \in B |-> {x}]
  <2>1. \A x \in B : IsBasic(G, x)
    BY <1>4 DEF IsBasic
  <2>2. IsLeafSets(G, f)
    BY <2>1, <1>3 DEF IsLeafSets
  <2>3. ASSUME NEW h, IsLeafSets(G, h) PROVE Covers(G, h, B)
    <3>1. \A x \in B : h[x] = {x}
      BY <2>1, <2>3, <1>3 DEF IsLeafSets
    <3> QED BY <3>1, <1>5 DEF Covers
  <2> QED BY <2>2, <2>3 DEF Kept
<1>13. Narrow(G)
  <2> SUFFICES ASSUME NEW b \in B, ~is_switch_out(G, b) PROVE DOMAIN Out(G, b) \subseteq {1, 2}
    BY <1>5 DEF Narrow
  <2>1. ~(Len(s.outs[b]) > 2) /\ Out(G, b) = s.outs[b]
    BY <1>4 DEF is_switch_out, Out
  <2> DEFINE out == s.outs[b]
  <2>2. out \in Seq(B)
    BY <1>8
  <2>3. ~(Len(out) > 2) /\ Out(G, b) = out
    BY <2>1
  <2> HIDE DEF out
  <2>4. Len(out) \in Nat /\ DOMAIN out = 1 .. Len(out)
    BY <2>2, SeqElements
  <2> QED BY <2>3, <2>4
<1> QED BY <1>9, <1>10, <1>11, <1>12, <1>13 DEF GraphInv, G, B

\* A sequence of the roots without repetition has all of them (order_roots).
LEMMA OrderPermuted ==
  ASSUME NEW G, NEW B, GraphInv(G, B), NEW roots \in SetToSeqs(ToSet(G.order))
  PROVE  /\ roots \in Seq(DOMAIN G.blocks)
         /\ ToSet(roots) = ToSet(G.order)
         /\ \A i, j \in DOMAIN roots : roots[i] = roots[j] => i = j
<1> DEFINE S == ToSet(G.order)
           n == Cardinality(S)
<1>1. G.order \in Seq(DOMAIN G.blocks)
  BY DEF GraphInv, Shaped
<1>2. Len(G.order) \in Nat /\ DOMAIN G.order = 1 .. Len(G.order) /\ S \subseteq DOMAIN G.blocks
      /\ G.order \in Seq(S)
  BY <1>1, SeqElements
<1>3. IsFiniteSet(S) /\ n \in Nat
  <2>1. G.order \in Surjection(1 .. Len(G.order), S)
    BY <1>2 DEF Surjection, ToSet
  <2>2. IsFiniteSet(1 .. Len(G.order))
    BY <1>2, FS_Interval
  <2> HIDE DEF S
  <2>3. IsFiniteSet(S)
    BY <2>1, <2>2, FS_Surjection
  <2> QED BY <2>3, FS_CardinalityType
<1>4. roots \in [1 .. n -> S] /\ \A i, j \in 1 .. n : i # j => roots[i] # roots[j]
  BY DEF SetToSeqs
<1> HIDE DEF S
<1>5. roots \in Injection(1 .. n, S)
  BY <1>4 DEF Injection, IsInjective
<1>6. IsFiniteSet(1 .. n) /\ Cardinality(1 .. n) = n
  BY <1>3, FS_Interval
<1>7. roots \in Surjection(1 .. n, S)
  BY <1>3, <1>5, <1>6, FS_Injection
<1>8. ToSet(roots) = S
  BY <1>4, <1>7 DEF Surjection, ToSet
<1>9. roots \in Seq(DOMAIN G.blocks)
  BY <1>2, <1>3, <1>4
<1> QED BY <1>4, <1>8, <1>9 DEF S

\* order_roots and scope_break keep the invariant.
LEMMA FinishedInv ==
  ASSUME NEW G, NEW B, GraphInv(G, B), NEW roots \in SetToSeqs(ToSet(G.order))
  PROVE  GraphInv(scope_break([G EXCEPT !.order = roots]), B)
<1> DEFINE R == [G EXCEPT !.order = roots]
           H == scope_break(R)
<1>1. Shaped(G)
  BY DEF GraphInv
<1>2. DOMAIN R = GraphFields /\ R.order = roots /\ R.blocks = G.blocks
  BY <1>1 DEF Shaped, GraphFields
<1> HIDE DEF R
<1>3. \E v : H = [R EXCEPT !.gotos = v]
  BY DEF scope_break
<1>4. DOMAIN H = GraphFields /\ H.order = roots /\ H.blocks = G.blocks
  <2> HIDE DEF H
  <2>1. PICK v : H = [R EXCEPT !.gotos = v]
    BY <1>3
  <2> QED BY <2>1, <1>2 DEF GraphFields
<1> HIDE DEF H
<1>5. \A n \in DOMAIN G.blocks : DOMAIN G.blocks[n] = NodeFields /\ G.blocks[n].outs \in Seq(Nat)
  BY <1>1 DEF Shaped
<1>6. G.blocks \in Seq(ToSet(G.blocks))
  BY <1>1 DEF Shaped
<1>7. /\ roots \in Seq(DOMAIN G.blocks) /\ ToSet(roots) = ToSet(G.order)
      /\ \A i, j \in DOMAIN roots : roots[i] = roots[j] => i = j
  BY OrderPermuted
<1>a. Narrow(H)
  BY <1>4, <1>7 DEF GraphInv, Narrow, is_switch_out, Out
<1>8. GraphInv(H, B)
  BY <1>a, <1>4, <1>5, <1>6, <1>7, SameParts
<1> QED BY <1>8 DEF H, R

-----------------------------------------------------------------------------
(* The specification.                                                      *)

\* The inductive invariant: the graph's, for the blocks of the function at
\* hand, where the scan and the edge just given up are, and that the last
\* resorts are tried when no other rule applies.
StructInv ==
  /\ subject \in Subjects
  /\ index \in Nat \ {0}
  /\ target # None => stage = "rules" /\ target \in ToSet(g.order)
  /\ GraphInv(g, Blocks(subject.outs))
  /\ stage \in {"late", "select"} => Settled(g)

\* The first position that fires is a position of the scan.
LEMMA FirstIn ==
  ASSUME NEW S, NEW order \in Seq(S), NEW k \in Nat \ {0},
         NEW fires \in SUBSET (k .. Len(order)), fires # {}
  PROVE  Min(fires) \in Nat \ {0} /\ order[Min(fires)] \in ToSet(order)
<1>1. Len(order) \in Nat /\ DOMAIN order = 1 .. Len(order)
  BY SeqElements
<1>2. fires \in SUBSET Nat /\ fires \subseteq 1 .. Len(order)
  BY <1>1
<1>3. Min(fires) \in fires
  BY <1>2, MinIn
<1>4. Min(fires) \in 1 .. Len(order)
  BY <1>2, <1>3
<1> QED BY <1>1, <1>4, SeqElements

\* collapse_conditions fires at a node in the graph.
LEMMA FirstCondition ==
  ASSUME NEW S, NEW G, G.order \in Seq(S), NEW k \in Nat \ {0}, NEW n, n # None,
         n = NextFiring(G, rule_short_circuit, k)
  PROVE  n \in Nat \ {0} /\ G.order[n] \in ToSet(G.order)
<1> DEFINE fires(j) == {i \in j .. Len(G.order) : rule_short_circuit(G, G.order[i]) # {}}
<1>1. \E j \in {k, 1} : fires(j) # {} /\ n = Min(fires(j))
  BY DEF NextFiring, FirstFrom
<1>2. PICK j \in {k, 1} : fires(j) # {} /\ n = Min(fires(j))
  BY <1>1
<1>3. j \in Nat \ {0} /\ fires(j) \in SUBSET (j .. Len(G.order))
  OBVIOUS
<1> HIDE DEF fires
<1> QED BY <1>2, <1>3, FirstIn

\* collapse_internal fires at a node in the graph.
LEMMA FirstMain ==
  ASSUME NEW S, NEW G, G.order \in Seq(S), NEW k \in Nat \ {0}, NEW n, n # None,
         n = NextFiring(G, MainRules, k)
  PROVE  n \in Nat \ {0} /\ G.order[n] \in ToSet(G.order)
<1> DEFINE fires(j) == {i \in j .. Len(G.order) : MainRules(G, G.order[i]) # {}}
<1>1. \E j \in {k, 1} : fires(j) # {} /\ n = Min(fires(j))
  BY DEF NextFiring, FirstFrom
<1>2. PICK j \in {k, 1} : fires(j) # {} /\ n = Min(fires(j))
  BY <1>1
<1>3. j \in Nat \ {0} /\ fires(j) \in SUBSET (j .. Len(G.order))
  OBVIOUS
<1> HIDE DEF fires
<1> QED BY <1>2, <1>3, FirstIn

\* collapse_internal stops when no rule applies to any node.
LEMMA NoneFires ==
  ASSUME NEW S, NEW G, G.order \in Seq(S), NEW k \in Nat \ {0}, NextFiring(G, MainRules, k) = None
  PROVE  Settled(G)
<1> DEFINE fires == {i \in 1 .. Len(G.order) : MainRules(G, G.order[i]) # {}}
<1>1. FirstFrom(G, MainRules, 1) = None
  BY DEF NextFiring
<1>2. fires = {} \/ Min(fires) = None
  BY <1>1 DEF FirstFrom
<1>3. fires = {}
  <2>1. fires \in SUBSET (1 .. Len(G.order)) /\ 1 \in Nat \ {0}
    OBVIOUS
  <2> HIDE DEF fires
  <2>2. fires # {} => Min(fires) \in Nat \ {0}
    BY <2>1, FirstIn
  <2> QED BY <1>2, <2>2 DEF None
<1>4. DOMAIN G.order = 1 .. Len(G.order)
  BY SeqElements
<1>5. ASSUME NEW n \in ToSet(G.order) PROVE MainRules(G, n) = {}
  <2>1. PICK i \in 1 .. Len(G.order) : n = G.order[i]
    BY <1>4 DEF ToSet
  <2> QED BY <2>1, <1>3
<1> QED BY <1>5 DEF Settled

\* The late rules fire at a node in the graph.
LEMMA FirstLate ==
  ASSUME NEW S, NEW G, G.order \in Seq(S), NEW n, n # None,
         n = FirstFrom(G, LateRules, 1)
  PROVE  n \in Nat \ {0} /\ G.order[n] \in ToSet(G.order)
<1> DEFINE fires == {i \in 1 .. Len(G.order) : LateRules(G, G.order[i]) # {}}
<1>1. fires # {} /\ n = Min(fires)
  BY DEF FirstFrom
<1>2. fires \in SUBSET (1 .. Len(G.order)) /\ 1 \in Nat \ {0}
  OBVIOUS
<1> HIDE DEF fires
<1> QED BY <1>1, <1>2, FirstIn

\* The initial states satisfy the invariant.
LEMMA StructInit ==
  ASSUME Init
  PROVE  StructInv
<1>1. /\ subject \in Subjects /\ g = Unstructured(subject, {}) /\ index = 1 /\ target = None
      /\ stage = "conditions"
  BY DEF Init
<1> QED BY <1>1, UnstructuredInv DEF StructInv

\* Every step keeps the invariant, one case per action.
LEMMA StructNext ==
  ASSUME StructInv, [Next]_vars
  PROVE  StructInv'
<1> DEFINE B == Blocks(subject.outs)
<1>1. /\ subject \in Subjects /\ index \in Nat \ {0} /\ GraphInv(g, B)
      /\ target # None => stage = "rules" /\ target \in ToSet(g.order)
      /\ stage \in {"late", "select"} => Settled(g)
  BY DEF StructInv
<1>2. g.order \in Seq(DOMAIN g.blocks)
  BY <1>1 DEF GraphInv, Shaped
<1>3. subject' = subject
  BY DEF Next, vars, CollapseCondition, CollapseTarget, CollapseInternal, CollapseLate, UpdateLoopBody,
         SelectGoto, Finish, OrientBranches, PreferComplement, Restructure, Printed
<1>4. SUFFICES /\ index' \in Nat \ {0}
               /\ target' # None => stage' = "rules" /\ target' \in ToSet(g'.order)
               /\ GraphInv(g', B)
               /\ stage' \in {"late", "select"} => Settled(g')
  BY <1>1, <1>3 DEF StructInv
<1> HIDE DEF B
<1>5. CASE CollapseCondition
  <2>1. stage = "conditions" /\ target' = target
    BY <1>5 DEF CollapseCondition
  <2>2. target' = None
    BY <2>1, <1>1
  <2>3. PICK k : /\ k = NextFiring(g, rule_short_circuit, index)
                 /\ IF k # None THEN g' \in rule_short_circuit(g, g.order[k]) /\ index' = k + 1
                    ELSE index' = 1 /\ g' = g
                 /\ stage' \in {"conditions", "rules"}
    BY <1>5 DEF CollapseCondition, Apply
  <2>4. CASE k # None
    <3>1. k \in Nat \ {0} /\ g.order[k] \in ToSet(g.order)
      BY <1>1, <1>2, <2>3, <2>4, FirstCondition
    <3>2. GraphInv(g', B)
      BY <1>1, <2>3, <2>4, <3>1, ShortCircuitKeeps
    <3> QED BY <2>2, <2>3, <2>4, <3>1, <3>2
  <2>5. CASE k = None
    <3>1. g' = g /\ index' = 1 /\ stage' \in {"conditions", "rules"}
      BY <2>3, <2>5
    <3> QED BY <1>1, <2>2, <3>1
  <2> QED BY <2>4, <2>5
<1>6. CASE CollapseTarget
  <2>1. /\ target # None /\ target' = None /\ index' = index /\ g' \in MainRules(g, target)
        /\ stage' = "rules"
    BY <1>6 DEF CollapseTarget
  <2>2. GraphInv(g', B)
    BY <1>1, <2>1, MainRulesKeep
  <2> QED BY <1>1, <2>1, <2>2
<1>7. CASE CollapseInternal
  <2>1. target' = None
    BY <1>7 DEF CollapseInternal
  <2>2. PICK k : /\ k = NextFiring(g, MainRules, index)
                 /\ IF k # None THEN g' \in MainRules(g, g.order[k]) /\ index' = k + 1 /\ stage' = "rules"
                    ELSE index' = 1 /\ g' = g
    BY <1>7 DEF CollapseInternal, Apply
  <2>3. CASE k # None
    <3>1. k \in Nat \ {0} /\ g.order[k] \in ToSet(g.order)
      BY <1>1, <1>2, <2>2, <2>3, FirstMain
    <3>2. GraphInv(g', B)
      BY <1>1, <2>2, <2>3, <3>1, MainRulesKeep
    <3> QED BY <2>1, <2>2, <2>3, <3>1, <3>2
  <2>4. CASE k = None
    <3>1. g' = g /\ index' = 1
      BY <2>2, <2>4
    <3>2. Settled(g)
      BY <1>1, <1>2, <2>2, <2>4, NoneFires
    <3> QED BY <1>1, <2>1, <3>1, <3>2
  <2> QED BY <2>3, <2>4
<1>8. CASE CollapseLate
  <2>1. stage = "late" /\ target' = target /\ index' = index
    BY <1>8 DEF CollapseLate
  <2>2. target' = None
    BY <2>1, <1>1
  <2>3. PICK k : /\ k = FirstFrom(g, LateRules, 1)
                 /\ IF k # None THEN g' \in LateRules(g, g.order[k]) /\ stage' = "rules" ELSE g' = g
    BY <1>8 DEF CollapseLate
  <2>4. CASE k # None
    <3>1. g.order[k] \in ToSet(g.order)
      BY <1>2, <2>3, <2>4, FirstLate
    <3>2. GraphInv(g', B)
      BY <1>1, <2>3, <2>4, <3>1, LateRulesKeep
    <3> QED BY <1>1, <2>1, <2>2, <2>3, <2>4, <3>2
  <2> QED BY <1>1, <2>1, <2>2, <2>3, <2>4
<1>9. CASE UpdateLoopBody
  <2>1. stage = "select" /\ g' = g /\ index' = index /\ target' = target
    BY <1>9 DEF UpdateLoopBody
  <2> QED BY <1>1, <2>1
<1>10. CASE SelectGoto
  <2>1. stage = "select"
    BY <1>10 DEF SelectGoto
  <2>2. target = None
    BY <1>1, <2>1
  <2>3. PICK e : IF CurrentEdge(e) = {} THEN UNCHANGED <<g, stage, target, index>>
                 ELSE \E c : /\ g' = set_goto_branch(g, current_form(g, e[1]), c)
                             /\ target' = current_form(g, e[1])
                             /\ stage' = "rules" /\ index' = 1
    BY <1>10 DEF SelectGoto
  <2>4. CASE CurrentEdge(e) # {}
    <3>1. PICK c : /\ g' = set_goto_branch(g, current_form(g, e[1]), c)
                   /\ target' = current_form(g, e[1])
                   /\ stage' = "rules" /\ index' = 1
      BY <2>3, <2>4
    <3>2. GraphInv(g', B) /\ g'.order = g.order
      BY <1>1, <3>1, GotoBranches DEF set_goto_branch
    <3>3. current_form(g, e[1]) \in ToSet(g.order)
      <4>1. PICK d \in OutEdges(g, ToSet(g.order)) : d[1] = current_form(g, e[1])
        BY <2>4 DEF CurrentEdge
      <4> QED BY <4>1 DEF OutEdges
    <3> QED BY <3>1, <3>2, <3>3
  <2> QED BY <1>1, <2>1, <2>2, <2>3, <2>4
<1>11. CASE Finish
  <2>1. stage = "final" /\ target' = target /\ index' = index /\ stage' \in {"printed", "oriented"}
    BY <1>11 DEF Finish
  <2>2. PICK roots \in SetToSeqs(ToSet(g.order)) : g' = scope_break([g EXCEPT !.order = roots])
    BY <1>11 DEF Finish, order_roots
  <2>3. GraphInv(g', B)
    BY <1>1, <2>2, FinishedInv
  <2> QED BY <1>1, <2>1, <2>3
<1>12. CASE OrientBranches \/ PreferComplement
  <2>1. PICK o : g' = Unstructured(subject, o)
    BY <1>12 DEF OrientBranches, PreferComplement, Restructure
  <2>2. index' = 1 /\ target' = None /\ stage' = "conditions"
    BY <1>12 DEF OrientBranches, PreferComplement, Restructure
  <2>3. GraphInv(g', B)
    BY <1>1, <2>1, UnstructuredInv DEF B
  <2> QED BY <2>2, <2>3
<1>13. CASE Printed \/ UNCHANGED vars
  <2>1. UNCHANGED vars
    BY <1>13 DEF Printed
  <2> QED BY <1>1, <2>1 DEF vars
<1> QED BY <1>5, <1>6, <1>7, <1>8, <1>9, <1>10, <1>11, <1>12, <1>13 DEF Next

\* The invariant gives BlocksKept.
LEMMA InvGivesBlocksKept ==
  ASSUME StructInv
  PROVE  BlocksKept
<1> DEFINE f == LeafSets(g)
           B == Blocks(subject.outs)
<1>1. PlacedOnce(g) /\ Kept(g, B)
  BY DEF StructInv, GraphInv
<1>2. IsLeafSets(g, f)
  BY <1>1, LeafSetsAre DEF Kept
<1>3. Covers(g, f, B)
  BY <1>1, <1>2 DEF Kept
<1>4. \A x : Leaves(g, x) = f[x]
  BY DEF Leaves
<1> HIDE DEF f, B
<1>5. UNION {Leaves(g, x) : x \in ToSet(g.order)} = B
  BY <1>3, <1>4 DEF Covers
<1>6. \A x, y \in ToSet(g.order) : x # y => Leaves(g, x) \cap Leaves(g, y) = {}
  BY <1>3, <1>4 DEF Covers
<1> QED BY <1>1, <1>5, <1>6 DEF BlocksKept, B

\* For every function, in every round, through any sequence of rules and
\* edges given up: the edges stay inside the graph, no node is placed
\* twice, and the nodes share out the blocks (structure, collapse_all).
THEOREM StructInvariant == Spec => []StructInv
<1>1. Init => StructInv
  BY StructInit
<1>2. StructInv /\ [Next]_vars => StructInv'
  BY StructNext
<1> QED BY <1>1, <1>2, PTL DEF Spec

\* install, for every function: no basic block is lost, none is in two
\* nodes, and no node is a part of another twice, so every block is printed
\* once.
THEOREM BlocksAreKept == Spec => []BlocksKept
<1>1. StructInv => BlocksKept
  BY InvGivesBlocksKept
<1> QED BY <1>1, StructInvariant, PTL

\* A step of collapse_all leaves the graph alone or lowers its measure.
GraphShrinks == stage \in {"conditions", "rules", "late", "select"} => g' = g \/ Smaller(g', g)

\* The steps of collapse_all, one case per action that changes the graph.
LEMMA CollapseStep ==
  ASSUME StructInv, [Next]_vars
  PROVE  GraphShrinks
<1> DEFINE B == Blocks(subject.outs)
<1>1. /\ index \in Nat \ {0} /\ GraphInv(g, B)
      /\ target # None => stage = "rules" /\ target \in ToSet(g.order)
      /\ stage \in {"late", "select"} => Settled(g)
  BY DEF StructInv
<1>2. g.order \in Seq(DOMAIN g.blocks)
  BY <1>1 DEF GraphInv, Shaped
<1> HIDE DEF B
<1> SUFFICES ASSUME stage \in {"conditions", "rules", "late", "select"} PROVE g' = g \/ Smaller(g', g)
  BY DEF GraphShrinks
<1>3. CASE CollapseCondition
  <2>1. PICK k : /\ k = NextFiring(g, rule_short_circuit, index)
                 /\ IF k # None THEN g' \in rule_short_circuit(g, g.order[k]) ELSE g' = g
    BY <1>3 DEF CollapseCondition, Apply
  <2>2. CASE k # None
    <3>1. g.order[k] \in ToSet(g.order)
      BY <1>1, <1>2, <2>1, <2>2, FirstCondition
    <3>2. Fewer(g', g)
      BY <1>1, <2>1, <2>2, <3>1, ShortCircuitKeeps
    <3> QED BY <3>2 DEF Smaller
  <2> QED BY <2>1, <2>2
<1>4. CASE CollapseTarget
  <2>1. target # None /\ g' \in MainRules(g, target)
    BY <1>4 DEF CollapseTarget
  <2> QED BY <1>1, <2>1, MainRulesKeep
<1>5. CASE CollapseInternal
  <2>1. PICK k : /\ k = NextFiring(g, MainRules, index)
                 /\ IF k # None THEN g' \in MainRules(g, g.order[k]) ELSE g' = g
    BY <1>5 DEF CollapseInternal, Apply
  <2>2. CASE k # None
    <3>1. g.order[k] \in ToSet(g.order)
      BY <1>1, <1>2, <2>1, <2>2, FirstMain
    <3> QED BY <1>1, <2>1, <2>2, <3>1, MainRulesKeep
  <2> QED BY <2>1, <2>2
<1>6. CASE CollapseLate
  <2>1. Settled(g)
    BY <1>1, <1>6 DEF CollapseLate
  <2>2. PICK k : /\ k = FirstFrom(g, LateRules, 1)
                 /\ IF k # None THEN g' \in LateRules(g, g.order[k]) ELSE g' = g
    BY <1>6 DEF CollapseLate
  <2>3. CASE k # None
    <3>1. g.order[k] \in ToSet(g.order)
      BY <1>2, <2>2, <2>3, FirstLate
    <3> QED BY <1>1, <2>1, <2>2, <2>3, <3>1, LateRulesKeep
  <2> QED BY <2>2, <2>3
<1>7. CASE SelectGoto
  <2>1. Settled(g)
    BY <1>1, <1>7 DEF SelectGoto
  <2>2. PICK e : IF CurrentEdge(e) = {} THEN g' = g
                 ELSE g' = set_goto_branch(g, current_form(g, e[1]), Min({d[2] : d \in CurrentEdge(e)}))
    BY <1>7 DEF SelectGoto
  <2>3. CASE CurrentEdge(e) # {}
    <3> DEFINE b == current_form(g, e[1])
               at == {d[2] : d \in CurrentEdge(e)}
    <3>1. \A d \in CurrentEdge(e) : d[1] = b /\ b \in ToSet(g.order) /\ d[2] \in DOMAIN Out(g, b)
      BY DEF CurrentEdge, OutEdges
    <3>2. b \in ToSet(g.order) /\ at \subseteq DOMAIN Out(g, b) /\ at # {}
      BY <2>3, <3>1
    <3>3. DOMAIN Out(g, b) \subseteq Nat
      BY <1>1, <3>2, EdgeLeads
    <3> HIDE DEF b, at
    <3>4. Min(at) \in DOMAIN Out(g, b)
      BY <3>2, <3>3, MinIn
    <3>5. ~is_goto_out(g, b, Min(at))
      BY <1>1, <2>1, <3>2, <3>4, SettledOpen
    <3>6. g' = set_goto_branches(g, {<<b, Min(at)>>})
      BY <2>2, <2>3 DEF b, at, set_goto_branch
    <3> QED BY <1>1, <3>2, <3>4, <3>5, <3>6, GotoShrinks
  <2> QED BY <2>2, <2>3
<1>8. CASE UpdateLoopBody \/ Finish \/ OrientBranches \/ PreferComplement \/ Printed \/ UNCHANGED vars
  BY <1>8 DEF vars, UpdateLoopBody, Finish, OrientBranches, PreferComplement, Printed
<1> QED BY <1>3, <1>4, <1>5, <1>6, <1>7, <1>8 DEF Next

\* collapse_all does not go round in circles, for every function: no rule
\* undoes another one's work, and an edge is given up at most once.  Every
\* change of the graph lowers a measure made of numbers, so a round makes
\* finitely many: the loops "while changed" of collapse_conditions and
\* collapse_internal end, and so does the giving up of edges.
THEOREM CollapseShrinks == Spec => [][GraphShrinks]_vars
<1>1. StructInv /\ [Next]_vars => [GraphShrinks]_vars
  BY CollapseStep
<1> QED BY <1>1, StructInvariant, PTL DEF Spec
=============================================================================
