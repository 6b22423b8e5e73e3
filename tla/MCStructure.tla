---------------------------- MODULE MCStructure ----------------------------
(* Instances of Structure: every graph of three blocks; graphs of four     *)
(* blocks whose entry branches, numbered as a depth-first search meets     *)
(* them; three-way switches among five blocks; switches that a loop may go *)
(* around, among seven; and switches with an edge to themselves.  With     *)
(* three blocks conditions may be too long to print in one expression, and *)
(* may or may not have a clean negation or a preferred complement.         *)
EXTENDS StructureText

Successors(bs) ==
  {<<>>} \cup {<<a>> : a \in bs} \cup {<<p[1], p[2]>> : p \in {q \in bs \X bs : q[1] # q[2]}}

RECURSIVE ReachedIn(_, _)
ReachedIn(outs, from) ==
  LET more == (UNION {ToSet(outs[b]) : b \in from}) \ from
  IN IF more = {} THEN from ELSE ReachedIn(outs, from \cup more)
Connected(outs) == ReachedIn(outs, {1}) = DOMAIN outs

NoDefault == [h \in {} |-> 0]
Function(outs, complex, clean, flips) ==
  [outs |-> outs, switch |-> {}, default |-> NoDefault, complex |-> complex,
   clean |-> clean, flips |-> flips]
Simple(outs) == Function(outs, {}, DOMAIN outs, DOMAIN outs)

ThreeBlocks ==
  {Function(outs, complex, clean, flips) :
     outs \in {o \in {<<a, b, c>> : a \in Successors(1 .. 3), b \in Successors(1 .. 3), c \in Successors(1 .. 3)} :
                 Connected(o)},
     complex \in {{}, 1 .. 3}, clean \in {{}, 1 .. 3}, flips \in {{}, 1 .. 3}}

FourBlocks ==
  {Simple(outs) :
     outs \in {o \in {<<entry, a, b, c>> : entry \in {<<2, 3>>, <<2, 4>>}, a \in {s \in Successors(1 .. 4) : Len(s) = 2},
                        b \in Successors(1 .. 4), c \in Successors(1 .. 4)} :
                 Connected(o) /\ SpanningTree(o).pre = <<1, 2, 3, 4>>}}

Switches ==
  {[Simple(outs) EXCEPT !.switch = {1}, !.default = default] :
     outs \in {o \in {<< <<2, 3, 4>>, a, b, c, d>> :
                        a \in {<<>>, <<1>>, <<3>>, <<5>>}, b \in {<<>>, <<1>>, <<4>>, <<5>>},
                        c \in {<<>>, <<2>>, <<5>>}, d \in {<<>>, <<1>>, <<1, 3>>}} : Connected(o)},
     default \in {NoDefault, [h \in {1} |-> 1], [h \in {1} |-> 3]}}

LoopedSwitches ==
  {[Simple(outs) EXCEPT !.switch = {2}, !.default = [h \in {2} |-> 3]] :
     outs \in {o \in {<<entry, <<3, 4, 5>>, a, b, c, d, <<>>>> : entry \in {<<2>>, <<7, 2>>},
                        a \in {<<2>>, <<4>>, <<6>>, <<7, 6>>}, b \in {<<>>, <<2>>, <<6>>, <<4, 6>>},
                        c \in {<<6>>, <<7>>, <<2, 6>>}, d \in {<<7>>, <<2, 7>>, <<7, 2>>}} : Connected(o)}}

SelfSwitches ==
  {[Simple(outs) EXCEPT !.switch = {2}, !.default = default] :
     outs \in {o \in {<< <<2>>, edges, a, b, c>> : edges \in {<<2, 3, 4>>, <<3, 2, 4>>, <<3, 4, 2>>},
                        a \in {<<>>, <<2>>, <<4>>, <<5>>}, b \in {<<>>, <<2>>, <<5>>, <<2, 5>>},
                        c \in {<<>>, <<2>>, <<1>>}} : Connected(o)},
     default \in {NoDefault, [h \in {2} |-> 1], [h \in {2} |-> 3]}}

MCSubjects == ThreeBlocks \cup FourBlocks \cup Switches \cup LoopedSwitches \cup SelfSwitches
=============================================================================
