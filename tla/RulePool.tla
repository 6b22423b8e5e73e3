------------------------------ MODULE RulePool ------------------------------
(***************************************************************************)
(* The rule pools of the decompiler (decompile/action.rs ActionPool and    *)
(* decompile/pipeline.rs): rewrite rules are applied to the operations of  *)
(* a function until a whole round changes nothing, first those of the main *)
(* pool, later those of the cleanup pool.                                  *)
(*                                                                         *)
(* Operations are visited in any order.  At an operation the rules for its *)
(* opcode are tried in the order of the pool; after one that changes       *)
(* something the next is tried, from the first again if the opcode changed.*)
(***************************************************************************)
EXTENDS Consume, RulesArith, RulesCompare, RulesBool, RulesPiece, RulesBits, RulesSign,
        RulesDiv

\* The expressions a function may hold when the pools start.
CONSTANT Subjects

VARIABLES term,   \* the expression
          pool,   \* the pool at work, "mainloop" before the main one, "done" at the end
          changed,\* whether this round of the main loop has changed anything
          at,     \* the place being visited, or Nowhere
          next    \* the rule to be tried next at that place

vars == <<term, pool, changed, at, next>>

Nowhere == <<0>>

-----------------------------------------------------------------------------
(* The pools.                                                              *)

OpCodes ==
  BoolOutput \cup
  {"Copy", "IntAdd", "IntSub", "IntMult", "IntDiv", "IntRem", "IntSdiv", "IntSrem", "IntAnd",
   "IntOr", "IntXor", "IntNegate", "Int2comp", "IntLeft", "IntRight", "IntSright", "IntZext",
   "IntSext", "Piece", "Subpiece", "Popcount", "Lzcount"}

default_rule_pool ==
  <<"TermOrder", "CollectTerms", "Sborrow", "Scarry", "IntLessEqual", "TrivialArith",
    "TrivialBool", "TrivialShift", "SignShift", "TestSign", "IdentityEl", "OrMask",
    "AndMask", "OrConsume", "OrCollapse", "AndOrLump", "ShiftBitops", "RightShiftAnd", "HighOrderAnd",
    "AndCommute", "AndPiece", "AndZext", "AndCompare", "DoubleSub", "DoubleShift",
    "DoubleArithShift", "ConcatShift", "ShiftCompare", "Shift2Mult", "ShiftPiece",
    "2Comp2Mult", "Sub2Add", "CarryElim", "Bxor2NotEqual", "Less2Zero", "LessEqual2Zero",
    "SLess2Zero", "Equal2Zero", "Equal2Constant", "ThreeWayCompare", "XorCollapse",
    "AddMultCollapse", "ConstFold", "PropagateCopy", "ZextEliminate", "SlessToLess",
    "ZextSless", "BitUndistribute", "BooleanUndistribute", "BooleanDedup", "BoolZext",
    "BooleanNegate", "Logic2Bool", "SubExtComm", "SubCommute", "ConcatCommute",
    "ConcatZext", "ZextCommute", "ZextShiftZext", "ShiftAnd", "ConcatZero",
    "ConcatLeftShift", "SubZext", "SubCancel", "ShiftSub", "HumptyDumpty", "DumptyHump",
    "HumptyOr", "NegateIdentity", "SubNormal", "PositiveDiv", "DivTermAdd",
    "DivOpt", "SignForm", "SignForm2", "SignDiv2", "DivChain", "SignNearMult", "ModOpt",
    "SignMod2nOpt", "SignMod2nOpt2", "SignMod2Opt",
    "BoolNegate", "LessEqual", "LessNotEqual", "LessOne", "Piece2Zext", "Piece2Sext",
    "PopcountBoolXor", "XorSwap", "LzcountShiftBool", "OrCompare", "NegateNegate">>

cleanup_pool == <<"MultNegOne", "AddUnsigned", "2Comp2Sub", "SubRight">>

\* mutant: the cleanup rules join the main pool
PoolsTogether(name) == IF name = "oppool" THEN default_rule_pool \o cleanup_pool ELSE cleanup_pool
Pool(name) == IF name = "oppool" THEN default_rule_pool ELSE cleanup_pool

\* Rule::oplist: the opcodes a rule is tried on.
oplist(r) ==
  CASE r = "TermOrder" -> {opc \in OpCodes : is_commutative(opc)}
    [] r \in {"CollectTerms", "AddUnsigned"} -> {"IntAdd"}
    [] r = "Sborrow" -> {"IntSborrow"}
    [] r = "Scarry" -> {"IntScarry"}
    [] r = "IntLessEqual" -> {"IntLessequal", "IntSlessequal"}
    [] r = "TrivialArith"
         -> ComparisonOps \cup {"BoolAnd", "BoolOr", "BoolXor", "IntAnd", "IntOr", "IntXor"}
    [] r = "TrivialBool" -> {"BoolAnd", "BoolOr", "BoolXor"}
    [] r = "TrivialShift" -> {"IntLeft", "IntRight", "IntSright"}
    [] r \in {"SignShift", "ZextCommute", "SignMod2nOpt"} -> {"IntRight"}
    [] r \in {"TestSign", "DoubleArithShift", "SignForm2", "SignDiv2"} -> {"IntSright"}
    [] r = "IdentityEl" -> {"IntAdd", "IntXor", "IntOr", "BoolXor", "BoolOr", "IntMult"}
    [] r \in {"OrMask", "OrCollapse", "HumptyOr", "OrCompare"} -> {"IntOr"}
    [] r \in {"AndMask", "HighOrderAnd", "AndCommute", "AndPiece", "AndZext", "SignNearMult",
            "SignMod2Opt"}
         -> {"IntAnd"}
    [] r \in {"AndOrLump", "BitUndistribute", "Logic2Bool"}
         -> {"IntAnd", "IntOr", "IntXor"}
    [] r = "OrConsume" -> {"IntOr", "IntXor"}
    [] r = "ShiftBitops" -> {"IntLeft", "IntRight", "Subpiece", "IntMult"}
    [] r \in {"RightShiftAnd", "ConcatShift"} -> {"IntRight", "IntSright"}
    [] r \in {"AndCompare", "ShiftCompare", "Equal2Zero", "Equal2Constant", "XorCollapse",
            "BooleanUndistribute"}
         -> {"IntEqual", "IntNotequal"}
    [] r \in {"DoubleSub", "SubExtComm", "SubCommute", "SubCancel", "ShiftSub", "DumptyHump",
            "SubNormal", "SignForm", "SubRight"}
         -> {"Subpiece"}
    [] r = "DoubleShift" -> {"IntLeft", "IntRight", "IntMult"}
    [] r = "Shift2Mult" -> {"IntLeft"}
    [] r = "ShiftPiece" -> {"IntOr", "IntXor", "IntAdd"}
    [] r \in {"2Comp2Mult", "2Comp2Sub"} -> {"Int2comp"}
    [] r = "Sub2Add" -> {"IntSub"}
    [] r = "CarryElim" -> {"IntCarry"}
    [] r = "Bxor2NotEqual" -> {"BoolXor"}
    [] r = "Less2Zero" -> {"IntLess"}
    [] r = "LessEqual2Zero" -> {"IntLessequal"}
    [] r = "SLess2Zero" -> {"IntSless"}
    [] r = "ThreeWayCompare" -> {"IntSless", "IntSlessequal", "IntEqual", "IntNotequal"}
    [] r = "AddMultCollapse" -> {"IntAdd", "IntMult"}
    [] r = "ZextEliminate" -> {"IntEqual", "IntNotequal", "IntLess", "IntLessequal"}
    [] r \in {"SlessToLess", "ZextSless"} -> {"IntSless", "IntSlessequal"}
    [] r = "BooleanDedup" -> {"BoolAnd", "BoolOr"}
    [] r \in {"BoolZext", "ZextShiftZext", "SubZext"} -> {"IntZext"}
    [] r = "BooleanNegate" -> {"IntNotequal", "IntEqual"}
    [] r \in {"ConcatCommute", "ConcatZext", "ConcatZero", "ConcatLeftShift", "HumptyDumpty",
            "Piece2Zext", "Piece2Sext"}
         -> {"Piece"}
    [] r = "ShiftAnd" -> {"IntRight", "IntLeft", "IntMult"}
    [] r \in {"NegateIdentity", "NegateNegate"} -> {"IntNegate"}
    [] r = "PositiveDiv" -> {"IntSdiv", "IntSrem"}
    [] r = "BoolNegate" -> {"BoolNegate"}
    [] r = "LessEqual" -> {"BoolOr"}
    [] r = "LessNotEqual" -> {"BoolAnd"}
    [] r = "LessOne" -> {"IntLess", "IntLessequal"}
    [] r = "PopcountBoolXor" -> {"Popcount"}
    [] r = "XorSwap" -> {"IntXor"}
    [] r = "LzcountShiftBool" -> {"Lzcount"}
    [] r \in {"MultNegOne", "SignMod2nOpt2"} -> {"IntMult"}
    [] r \in {"DivTermAdd", "DivOpt"} -> {"Subpiece", "IntRight", "IntSright"}
    [] r \in {"DivChain", "ModOpt"} -> {"IntDiv", "IntSdiv"}
    [] r \in {"ConstFold", "PropagateCopy"} -> OpCodes

perop(opc) ==
  [name \in {"oppool", "cleanup"} |-> SelectSeq(Pool(name), LAMBDA r : opc \in oplist(r))]
RulesFor == [opc \in OpCodes |-> perop(opc)]

-----------------------------------------------------------------------------
(* Rule::apply_op.                                                         *)

NoReader == [op |-> "None", size |-> 0, val |-> 0, in |-> <<>>, nz |-> 0, co |-> 0]

\* Rules that change the operation t they visit; some look at its reader.
AppliedHere(r, t, reader) ==
  CASE r = "TermOrder" -> RuleTermOrder(t)
    [] r = "CollectTerms" -> RuleCollectTerms(t, reader.op)
    [] r = "Sborrow" -> RuleSborrow(t)
    [] r = "Scarry" -> RuleScarry(t)
    [] r = "IntLessEqual" -> RuleIntLessEqual(t)
    [] r = "TrivialArith" -> RuleTrivialArith(t)
    [] r = "TrivialBool" -> RuleTrivialBool(t)
    [] r = "TrivialShift" -> RuleTrivialShift(t)
    [] r = "SignShift" -> RuleSignShift(t, reader)
    [] r = "IdentityEl" -> RuleIdentityEl(t)
    [] r = "OrMask" -> RuleOrMask(t)
    [] r = "AndMask" -> RuleAndMask(t)
    [] r = "OrCollapse" -> RuleOrCollapse(t)
    [] r = "OrConsume" -> RuleOrConsume(t)
    [] r = "AndOrLump" -> RuleAndOrLump(t)
    [] r = "ShiftBitops" -> RuleShiftBitops(t)
    [] r = "RightShiftAnd" -> RuleRightShiftAnd(t)
    [] r = "HighOrderAnd" -> RuleHighOrderAnd(t)
    [] r = "AndCommute" -> RuleAndCommute(t)
    [] r = "AndPiece" -> RuleAndPiece(t)
    [] r = "AndZext" -> RuleAndZext(t)
    [] r = "AndCompare" -> RuleAndCompare(t)
    [] r = "DoubleSub" -> RuleDoubleSub(t)
    [] r = "DoubleShift" -> RuleDoubleShift(t)
    [] r = "DoubleArithShift" -> RuleDoubleArithShift(t)
    [] r = "ConcatShift" -> RuleConcatShift(t)
    [] r = "ShiftCompare" -> RuleShiftCompare(t)
    [] r = "Shift2Mult" -> RuleShift2Mult(t, reader.op)
    [] r = "ShiftPiece" -> RuleShiftPiece(t)
    [] r = "2Comp2Mult" -> Rule2Comp2Mult(t)
    [] r = "Sub2Add" -> RuleSub2Add(t)
    [] r = "CarryElim" -> RuleCarryElim(t)
    [] r = "Bxor2NotEqual" -> RuleBxor2NotEqual(t)
    [] r = "Less2Zero" -> RuleLess2Zero(t)
    [] r = "LessEqual2Zero" -> RuleLessEqual2Zero(t)
    [] r = "SLess2Zero" -> RuleSLess2Zero(t)
    [] r = "Equal2Zero" -> RuleEqual2Zero(t)
    [] r = "Equal2Constant" -> RuleEqual2Constant(t)
    [] r = "ThreeWayCompare" -> RuleThreeWayCompare(t)
    [] r = "XorCollapse" -> RuleXorCollapse(t)
    [] r = "AddMultCollapse" -> RuleAddMultCollapse(t)
    [] r = "ConstFold" -> RuleConstFold(t)
    [] r = "PropagateCopy" -> RulePropagateCopy(t)
    [] r = "ZextEliminate" -> RuleZextEliminate(t)
    [] r = "SlessToLess" -> RuleSlessToLess(t)
    [] r = "ZextSless" -> RuleZextSless(t)
    [] r = "BitUndistribute" -> RuleBitUndistribute(t)
    [] r = "BooleanUndistribute" -> RuleBooleanUndistribute(t)
    [] r = "BooleanDedup" -> RuleBooleanDedup(t)
    [] r = "BooleanNegate" -> RuleBooleanNegate(t)
    [] r = "Logic2Bool" -> RuleLogic2Bool(t)
    [] r = "SubExtComm" -> RuleSubExtComm(t)
    [] r = "SubCommute" -> RuleSubCommute(t, reader)
    [] r = "ConcatCommute" -> RuleConcatCommute(t)
    [] r = "ConcatZext" -> RuleConcatZext(t)
    [] r = "ZextCommute" -> RuleZextCommute(t)
    [] r = "ZextShiftZext" -> RuleZextShiftZext(t)
    [] r = "ShiftAnd" -> RuleShiftAnd(t)
    [] r = "ConcatZero" -> RuleConcatZero(t)
    [] r = "ConcatLeftShift" -> RuleConcatLeftShift(t)
    [] r = "SubZext" -> RuleSubZext(t)
    [] r = "SubCancel" -> RuleSubCancel(t)
    [] r = "ShiftSub" -> RuleShiftSub(t)
    [] r = "HumptyDumpty" -> RuleHumptyDumpty(t)
    [] r = "DumptyHump" -> RuleDumptyHump(t)
    [] r = "HumptyOr" -> RuleHumptyOr(t)
    [] r = "SubNormal" -> RuleSubNormal(t)
    [] r = "PositiveDiv" -> RulePositiveDiv(t)
    [] r = "SignForm" -> RuleSignForm(t)
    [] r = "SignForm2" -> RuleSignForm2(t)
    [] r = "DivOpt" -> RuleDivOpt(t, reader)
    [] r = "SignDiv2" -> RuleSignDiv2(t)
    [] r = "DivChain" -> RuleDivChain(t)
    [] r = "SignNearMult" -> RuleSignNearMult(t)
    [] r = "BoolNegate" -> RuleBoolNegate(t)
    [] r = "LessEqual" -> RuleLessEqual(t)
    [] r = "LessNotEqual" -> RuleLessNotEqual(t)
    [] r = "LessOne" -> RuleLessOne(t)
    [] r = "Piece2Zext" -> RulePiece2Zext(t)
    [] r = "Piece2Sext" -> RulePiece2Sext(t)
    [] r = "XorSwap" -> RuleXorSwap(t)
    [] r = "NegateNegate" -> RuleNegateNegate(t)
    [] r = "MultNegOne" -> RuleMultNegOne(t)
    [] r = "AddUnsigned" -> RuleAddUnsigned(t)
    [] r = "SubRight" -> RuleSubRight(t, reader)
    [] OTHER -> {}

\* Rules that change the operation a that reads the one they visit, in slot i.
AppliedToReader(r, a, i) ==
  CASE r = "TestSign" -> RuleTestSign(a, i)
    [] r = "NegateIdentity" -> RuleNegateIdentity(a, i)
    [] r = "PopcountBoolXor" -> RulePopcountBoolXor(a, i)
    [] r = "LzcountShiftBool" -> RuleLzcountShiftBool(a, i)
    [] r = "OrCompare" -> RuleOrCompare(a, i)
    [] r = "2Comp2Sub" -> Rule2Comp2Sub(a, i)
    [] r = "Sborrow" -> RuleSborrowCompare(a, i)
    [] r = "Scarry" -> RuleScarryCompare(a, i)
    [] r = "SubRight" -> RuleSubRightShift(a, i)
    [] r = "DivTermAdd" -> RuleDivTermAdd(a, i)
    [] r = "DivOpt" -> RuleDivOptSign(a, i)
    [] r = "SignMod2nOpt2" -> RuleSignMod2nOpt2(a, i)
    [] r = "SignMod2Opt" /\ a.in[i].op = "IntAnd" -> RuleSignMod2Opt(a, i)
    [] OTHER -> {}

\* Rules that change the reader a of the reader of the operation they visit;
\* that reader is in slot i, the operation in slot j of it.
AppliedAbove(r, a, i, j) ==
  CASE r = "BoolZext" /\ j = 1 -> RuleBoolZext(a, i)
    [] r = "ModOpt" -> RuleModOpt(a, i, j)
    [] r = "SignMod2nOpt" /\ j = 1 -> RuleSignMod2nOpt(a, i)
    [] r = "SignMod2Opt" /\ a.in[i].op = "IntZext" -> RuleSignMod2Opt(a, i)
    [] OTHER -> {}

\* What applying rule r at place p of root can give: expressions, and whether
\* the operation at p is still the one visited.
apply_op(r, root, p, t, reader) ==
  {[term |-> Put(root, p, n), rule |-> r, here |-> TRUE] : n \in AppliedHere(r, t, reader)}
  \cup {[term |-> Put(root, Front(p), n), rule |-> r, here |-> FALSE] :
          n \in IF p = <<>> THEN {} ELSE AppliedToReader(r, reader, Last(p))}
  \cup {[term |-> Put(root, Front(Front(p)), n), rule |-> r, here |-> FALSE] :
          n \in IF Len(p) < 2 THEN {}
                ELSE AppliedAbove(r, At(root, Front(Front(p))), p[Len(p) - 1], Last(p))}

\* What the first rule at or after from that changes something at p can give.
Applied(root, name, p, from) ==
  LET t == At(root, p)
      reader == IF p = <<>> THEN NoReader ELSE At(root, Front(p))
      first(new, r) == IF new = {} THEN apply_op(r, root, p, t, reader) ELSE new
      rules == RulesFor[t.op][name]
  IN FoldLeft(first, {}, SubSeq(rules, from, Len(rules)))

-----------------------------------------------------------------------------
(* ActionPool::apply                                                       *)

\* What the main loop computes before its pool: ActionDeadCode the consumed
\* bits, ActionNonzeroMask the bits that may be set.
Analysed(t) == calc_nzmask(calc_consume(t))

Init == /\ term \in Subjects
        /\ pool = "mainloop" /\ changed = FALSE /\ at = Nowhere /\ next = 1

MainloopBegins ==
  /\ pool = "mainloop"
  /\ term' = Analysed(term)
  /\ pool' = "oppool"
  /\ UNCHANGED <<changed, at, next>>

\* After a rule has changed the operation at p the rules after it are tried,
\* all of them if the opcode changed.
rest(new, p) ==
  LET opc == At(term, p).op
      tried == CHOOSE i \in DOMAIN RulesFor[opc][pool] : RulesFor[opc][pool][i] = new.rule
  IN IF At(new.term, p).op = opc THEN tried + 1 ELSE 1

\* The visit is over: no rule is left that changes the operation, or it has
\* itself gone.
over(new, p) ==
  \/ ~new.here \/ new.rule = "SubCommute" \/ ~IsWritten(At(new.term, p))
  \/ Applied(new.term, pool, p, rest(new, p)) = {}

\* The first applicable rule at or after next changes the operation visited,
\* or the one that reads it; then the visit is over, the operation having no
\* reader left.
Rewrite ==
  /\ pool \in {"oppool", "cleanup"}
  /\ \E p \in IF at = Nowhere THEN Places(term) ELSE {at} :
       \E new \in Applied(term, pool, p, next) :
         /\ term' = new.term
         /\ \E o \in {over(new, p)} : /\ at' = IF o THEN Nowhere ELSE p
                                      /\ next' = IF o THEN 1 ELSE rest(new, p)
  /\ changed' = (pool = "oppool")
  /\ UNCHANGED pool

\* The pool has changed something: the main loop goes round again.
MainloopRestarts ==
  /\ changed
  /\ changed' = FALSE
  /\ pool' = "mainloop"
  /\ UNCHANGED term

PoolEnds ==
  /\ ~changed
  /\ pool' = IF pool = "oppool" THEN "cleanup" ELSE "done"
  /\ UNCHANGED <<term, changed>>

\* A round of the pool has changed nothing.
Settled ==
  /\ at = Nowhere /\ pool \in {"oppool", "cleanup"}
  /\ \A p \in Places(term) : Applied(term, pool, p, 1) = {}
  /\ MainloopRestarts \/ PoolEnds
  /\ UNCHANGED <<at, next>>

Next == MainloopBegins \/ Rewrite \/ Settled

Spec == Init /\ [][Next]_vars

-----------------------------------------------------------------------------
(* Properties.                                                             *)

\* The sizes of an operation's inputs and output agree with its opcode.
RECURSIVE WellSized(_)
WellSized(t) ==
  LET x == t.in[1]
      y == t.in[Len(t.in)]
  IN CASE IsConst(t) -> t.val <= calc_mask(t.size)
       [] t.op = "Var" -> TRUE
       [] OTHER ->
            /\ \A i \in DOMAIN t.in : WellSized(t.in[i])
            /\ CASE t.op \in ComparisonOps \cup CarryOps -> t.size = 1 /\ x.size = y.size
                 [] t.op \in BoolOps -> t.size = 1 /\ x.size = 1 /\ y.size = 1
                 [] t.op \in {"IntZext", "IntSext"} -> t.size > x.size
                 [] t.op = "Subpiece" -> IsConst(y) /\ t.size + y.val <= x.size
                 [] t.op = "Piece" -> t.size = x.size + y.size
                 [] t.op \in {"IntLeft", "IntRight", "IntSright"} -> t.size = x.size
                 [] t.op \in {"Popcount", "Lzcount"} -> TRUE
                 [] OTHER -> t.size = x.size /\ t.size = y.size

\* The state is well formed: constants fit their size, which new_const does
\* not see to, and the sizes of every operation agree.
TypeOK ==
  /\ WellSized(term)
  /\ pool \in {"mainloop", "oppool", "cleanup", "done"} /\ changed \in BOOLEAN
  /\ at = Nowhere \/ at \in Places(term)
  /\ next \in 1 .. Len(default_rule_pool)

\* No rewrite changes what the expression computes, for any value of its
\* variables.
ValuePreserved ==
  [][\A env \in Environments(term) : Value(term', env) = Value(term, env)]_vars

\* Every mask just computed is a superset of the bits that can be set; while
\* rules rewrite the operations below it, the mask of the result stays one.
\* (An inner one may not: RuleShiftAnd drops an AND and keeps its mask.)
MaskIsSound ==
  LET computed == pool = "oppool" /\ ~changed
  IN \A p \in Places(term) : computed \/ p = <<>> =>
       LET t == At(term, p)
       IN \A v \in {Value(t, env) : env \in Environments(t)} : BitAnd(v, t.nz) = v

\* Bits that are not consumed make no difference: whatever an inner operation
\* computed in them, the consumed bits of the result would be the same.
RECURSIVE With(_, _, _)
With(t, vn, v) ==
  IF t = vn THEN Const(vn.size, v)
  ELSE [t EXCEPT !.in = [i \in DOMAIN @ |-> With(@[i], vn, v)]]
ConsumeIsSound ==
  pool = "oppool" /\ ~changed =>
    \A vn \in {o \in Outputs(term) \ {term} : BitAnd(o.nz, o.co) # o.nz} : \A env \in Environments(term) :
      LET v == Value(vn, env)
          clear == BitAnd(v, vn.co)
          set == BitAnd(BitOr(v, WordMask - vn.co), vn.nz)
          result(t) == BitAnd(Value(t, env), term.co)
      IN \A w \in {clear, set} \ {v} : result(With(term, vn, w)) = result(term)

\* The pools finish: no rules undo each other for ever.  Nothing need be
\* assumed of the scheduler, a rewrite being the only thing that happens.
Finishes == <>[][FALSE]_vars
=============================================================================
