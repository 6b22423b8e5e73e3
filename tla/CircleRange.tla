----------------------------- MODULE CircleRange -----------------------------
(***************************************************************************)
(* Ranges of integers (decompile/circlerange.rs): the half-open interval   *)
(* [left, right) on the circle of the integers of one size, or every       *)
(* step-th element of it.  left = right stands for the whole circle, the   *)
(* empty range has a flag of its own.                                      *)
(*                                                                         *)
(* A method that changes the range is an operator that returns the new one.*)
(* One that may fail returns the set of its results, empty if it fails.    *)
(***************************************************************************)
EXTENDS Words

Word(v) == v % 2^Bits(WordBytes)
\* The word v & mask, for a v that may be negative; a mask is all ones.
Masked(v, mask) == v % (mask + 1)
\* v & step for a step, which is a power of two, and v ^ 1.
StepBit(v, step) == step * ((v \div step) % 2)
Flipped(v) == IF v % 2 = 0 THEN v + 1 ELSE v - 1

new(left, right, mask, step) ==
  [left |-> left, right |-> right, mask |-> mask, step |-> step, isempty |-> FALSE]
EmptyRange == [left |-> 0, right |-> 0, mask |-> 0, step |-> 1, isempty |-> TRUE]
\* mutant: the branch is taken for one on a true condition
FromTrue(b) == new(1, 2, calc_mask(1), 1)
from_bool(b) == new(IF b THEN 1 ELSE 0, IF b THEN 2 ELSE 1, calc_mask(1), 1)
from_value(v, size) == new(v, (v + 1) % 2^Bits(size), calc_mask(size), 1)
set_full(size) == new(0, 0, calc_mask(size), 1)

is_everything(r) == ~r.isempty /\ r.left = r.right
is_single(r) == ~r.isempty /\ r.right = Masked(r.left + r.step, r.mask)

contains_val(r, v) ==
  /\ ~r.isempty
  /\ r.left % r.step = v % r.step
  /\ CASE r.left < r.right -> r.left <= v /\ v < r.right
       [] r.right < r.left -> v < r.right \/ r.left <= v
       [] OTHER -> TRUE

\* The integers of a range.
Values(r) == {v \in 0 .. r.mask : contains_val(r, v)}

\* How many there are; one less for every word.
get_size(r) ==
  LET around == Word(r.mask - (r.left - r.right) + r.step) \div r.step
  IN CASE r.isempty -> 0
       [] ~r.isempty /\ r.left < r.right -> (r.right - r.left) \div r.step
       [] ~r.isempty /\ r.left >= r.right ->
            IF around # 0 THEN around ELSE IF r.step > 1 THEN r.mask \div r.step + 1 ELSE r.mask

\* The values of a range, in the order get_next gives them.
Enumerated(r) == [i \in 1 .. get_size(r) |-> Masked(r.left + (i - 1) * r.step, r.mask)]

-----------------------------------------------------------------------------
normalize(r) ==
  IF r.left = r.right THEN [r EXCEPT !.left = r.left % r.step, !.right = r.left % r.step] ELSE r

complement(r) ==
  CASE r.isempty -> [r EXCEPT !.left = 0, !.right = 0, !.isempty = FALSE]
    [] is_everything(r) -> [r EXCEPT !.isempty = TRUE]
    [] OTHER -> [r EXCEPT !.left = r.right, !.right = r.left]

invert(r) == complement([r EXCEPT !.step = 1])

\* The truth values in a range, as a range.
convert_to_boolean(r) ==
  LET zero == contains_val(r, 0)
      one == contains_val(r, 1)
  IN IF r.isempty THEN r
     ELSE [left |-> IF zero THEN 0 ELSE IF one THEN 1 ELSE r.left,
           right |-> IF one THEN 2 ELSE IF zero THEN 1 ELSE r.right,
           mask |-> calc_mask(1), step |-> 1, isempty |-> ~zero /\ ~one]
BothTruths(r) == contains_val(r, 0) /\ contains_val(r, 1)

\* new_stride: the ends of [left, right) moved up to a multiple of the step
\* plus rem; none if the range has no such element.
new_stride(mask, step, old_step, rem, left, right) ==
  LET up(v) == Masked(v + ((rem - v) % step), mask)
  IN IF left % old_step # rem % old_step \/ (left < right) # (up(left) < up(right))
     THEN {} ELSE {<<up(left), up(right)>>}

\* new_domain: [left, right) cut to the integers up to mask; none if empty.
new_domain(mask, step, left, right) ==
  LET rem == left % step
      l == IF left > mask THEN rem ELSE left
      r == IF right > mask THEN rem ELSE right
  IN CASE left > mask /\ right > mask /\ left < right -> {}
       [] (left > mask /\ right > mask) \/ l = r -> {<<rem, rem>>}
       [] OTHER -> {<<l, r>>}

\* encode_range_overlaps: how the ends of two intervals lie on the circle.
\*   a: apart    b: the first begins, they overlap    c: the first contains the second
\*   d: the second contains the first    e: the second begins, they overlap
\*   f: apart, the second first    g: they overlap at both ends
ARRANGE ==
  <<"g", "c", "g", "b", "e", "g", "d", "a", "g", "g", "g", "g", "g", "g", "g", "e",
    "g", "g", "g", "g", "c", "g", "b", "g", "g", "g", "g", "g", "g", "g", "g", "c",
    "d", "f", "g", "g", "g", "g", "g", "g", "g", "e", "g", "d", "g", "g", "g", "g",
    "b", "g", "g", "g", "f", "g", "g", "g", "g", "c", "g", "b", "e", "g", "d", "a">>
encode_range_overlaps(l1, r1, l2, r2) ==
  LET bit(b, weight) == IF b THEN weight ELSE 0
  IN ARRANGE[1 + bit(l1 <= r1, 32) + bit(l1 <= l2, 16) + bit(l1 <= r2, 8)
               + bit(r1 <= l2, 4) + bit(r1 <= r2, 2) + bit(l2 <= r2, 1)]

-----------------------------------------------------------------------------
\* The union, if it is one interval.
circle_union(a, b) ==
  LET step == IF a.step < b.step THEN b.step ELSE a.step
      aright == IF a.step < step THEN Masked(a.left + step, a.mask) ELSE a.right
      bright == IF b.step < step THEN Masked(b.left + step, a.mask) ELSE b.right
      rem == a.left % step
      code == encode_range_overlaps(a.left, aright, b.left, bright)
      is(l, r) == {[a EXCEPT !.left = l, !.right = r, !.step = step]}
      fails == \/ a.mask # b.mask
               \/ a.step < step /\ ~is_single(a)
               \/ b.step < step /\ ~is_single(b)
               \/ rem # b.left % step
      full == a.left = aright \/ b.left = bright
  IN CASE b.isempty -> {a}
       [] a.isempty /\ ~b.isempty -> {b}
       [] OTHER -> IF fails THEN {} ELSE IF full THEN is(rem, rem) ELSE
            CASE code = "g" -> is(rem, rem)
              [] code \in {"a", "f"} /\ aright = b.left -> is(a.left, bright)
              [] code \in {"a", "f"} /\ aright # b.left /\ a.left = bright -> is(b.left, aright)
              [] code \in {"a", "f"} /\ aright # b.left /\ a.left # bright -> {}
              [] code = "b" -> is(a.left, bright)
              [] code = "c" -> is(a.left, aright)
              [] code = "d" -> is(b.left, bright)
              [] code = "e" -> is(b.left, aright)

\* A smallest range that contains both.
minimal_container(a, b, max_step) ==
  LET min == IF a.left < b.left THEN a.left ELSE b.left
      max == IF a.left < b.left THEN b.left ELSE a.left
      diff == max - min
      stepped == /\ is_single(a) /\ is_single(b) /\ diff > 0 /\ diff <= max_step
                 /\ \E n \in 0 .. Bits(WordBytes) : diff = 2^n
      aright == Word(a.right - a.step + 1)
      bright == Word(b.right - b.step + 1)
      mask == IF a.mask < b.mask THEN b.mask ELSE a.mask
      code == encode_range_overlaps(a.left, aright, b.left, bright)
      before == Word(a.left + mask - bright + 1) < Word(b.left - aright)
      after == Word(b.left + mask - aright + 1) < Word(a.left - bright)
      l == CASE code \in {"b", "c"} \/ (code = "a" /\ ~before) \/ (code = "f" /\ after) -> a.left
             [] code = "g" -> 0
             [] OTHER -> b.left
      r == CASE code \in {"b", "d"} \/ (code = "a" /\ ~before) \/ (code = "f" /\ after) -> bright
             [] code = "g" -> 0
             [] OTHER -> aright
  IN IF stepped THEN [a EXCEPT !.step = diff, !.left = min, !.right = Masked(max + diff, a.mask)]
     ELSE normalize([a EXCEPT !.step = 1, !.mask = mask, !.left = l, !.right = r])

\* The ends of a range with a larger step and a smaller mask; none if nothing is left.
fitted(r, mask, step, rem) ==
  LET strided == IF r.step < step THEN new_stride(r.mask, step, r.step, rem, r.left, r.right)
                 ELSE {<<r.left, r.right>>}
  IN IF r.mask = mask THEN strided
     ELSE UNION {new_domain(mask, step, e[1], e[2]) : e \in strided}

\* Where [l1, r1) and [l2, r2) meet, if that is one interval; the rest is as in a.
meet(a, l1, r1, l2, r2) ==
  LET code == encode_range_overlaps(l1, r1, l2, r2)
      is(l, r) == {[a EXCEPT !.left = l, !.right = r]}
      part(l, r) == {[a EXCEPT !.left = l, !.right = r, !.isempty = l = r]}
  IN CASE l1 = r1 -> is(l2, r2)
       [] l1 # r1 /\ l2 = r2 -> is(l1, r1)
       [] OTHER ->
            CASE code \in {"a", "f"} -> {[a EXCEPT !.isempty = TRUE]}
              [] code = "b" \/ (code = "g" /\ l1 = r2) -> part(l2, r1)
              [] code = "c" -> is(l2, r2)
              [] code = "d" -> is(l1, r1)
              [] code = "e" \/ (code = "g" /\ l1 # r2 /\ l2 = r1) -> part(l1, r2)
              [] OTHER -> {}

\* The intersection, if it is one interval.
intersect(a, b) ==
  LET step == IF a.step < b.step THEN b.step ELSE a.step
      mask == IF a.mask < b.mask THEN a.mask ELSE b.mask
      rem == (IF a.step < b.step THEN b.left ELSE a.left) % step
      ends1 == fitted(a, mask, step, rem)
      ends2 == fitted(b, mask, step, rem)
  IN CASE a.isempty -> {a}
       [] ~a.isempty /\ (b.isempty \/ ends1 = {} \/ ends2 = {}) -> {[a EXCEPT !.isempty = TRUE]}
       [] OTHER -> UNION {meet([a EXCEPT !.mask = mask, !.step = step], e[1], e[2], f[1], f[2])
                            : e \in ends1, f \in ends2}

-----------------------------------------------------------------------------
\* The number of changes from a bit to the next, up to the highest set bit.
bit_transitions(v, size) ==
  LET bit(n) == (v \div 2^n) % 2
  IN Cardinality({n \in 1 .. Bits(size) - 1 : bit(n) # bit(n - 1)})

\* The range that a mask of bits stands for, if it is one.
set_nz_mask(nzmask, size) ==
  LET trans == bit_transitions(nzmask, size)
      stepped == nzmask % 2 = 0
      step == 2^Min({n \in 0 .. Bits(size) : (nzmask \div 2^n) % 2 = 1})
  IN CASE trans > 2 \/ (~stepped /\ trans = 2) -> {}
       [] trans = 0 -> {new(0, IF stepped THEN 1 ELSE 0, calc_mask(size), 1)}
       [] OTHER -> {new(0, Masked(nzmask + step, calc_mask(size)), calc_mask(size), step)}

-----------------------------------------------------------------------------
(* Pulling a range back through an operation: the inputs whose output it   *)
(* contains.                                                               *)

sign_extend(v, sizein, sizeout) ==
  IF v < 2^(Bits(sizein) - 1) THEN v ELSE v + 2^Bits(sizeout) - 2^Bits(sizein)

pull_back_unary(r, opc, insize, outsize) ==
  LET small == calc_mask(insize)
      truth == convert_to_boolean(r)
      narrowed(n) == [n EXCEPT !.left = Masked(@, small), !.right = Masked(@, small),
                               !.mask = IF @ < small THEN @ ELSE small]
      rem == r.left % r.step
      zexts == new(rem, small + 1 + rem, r.mask, r.step)
      low == (small - small \div 2) + StepBit(r.left, r.step)
      sexts == new(low, sign_extend(low % 2^Bits(insize), insize, outsize), r.mask, r.step)
      turned(k) == [r EXCEPT !.left = Masked(k + r.step - r.right, r.mask),
                             !.right = Masked(k + r.step - r.left, r.mask)]
  IN IF r.isempty THEN {r} ELSE
     CASE opc = "Copy" -> {r}
       [] opc = "BoolNegate" -> {IF BothTruths(r) THEN truth
                                 ELSE [truth EXCEPT !.left = Flipped(@), !.right = Flipped(truth.left) + 1]}
       [] opc = "Int2comp" -> {turned(0)}
       [] opc = "IntNegate" -> {turned(-1)}
       [] opc = "IntZext" -> {narrowed(n) : n \in intersect(r, zexts)}
       [] opc = "IntSext" -> {narrowed(r) : n \in {n \in intersect(sexts, r) : n.isempty}}
       [] OTHER -> {}

\* The operations whose other input, a constant val, makes the output true
\* for the inputs of one interval; slot is that of the input.
TrueInputs(opc, val, slot, mask) ==
  LET int_min == mask \div 2 + 1
      is(l, r) == new(Masked(l, mask), Masked(r, mask), mask, 1)
      never == [is(0, 0) EXCEPT !.isempty = TRUE]
  IN CASE opc = "IntEqual" -> is(val, val + 1)
       [] opc = "IntNotequal" -> is(val + 1, val)
       [] opc = "IntLess" -> IF slot = 1 THEN IF val = 0 THEN never ELSE is(0, val)
                             ELSE IF val = mask THEN never ELSE is(val + 1, 0)
       [] opc = "IntLessequal" -> IF slot = 1 THEN is(0, val + 1) ELSE is(val, 0)
       [] opc = "IntSless" -> IF slot = 1 THEN IF val = int_min THEN never ELSE is(int_min, val)
                              ELSE IF val = int_min - 1 THEN never ELSE is(val + 1, int_min)
       [] opc = "IntSlessequal" -> IF slot = 1 THEN is(int_min, val + 1) ELSE is(val, int_min)
       [] opc = "IntCarry" -> IF val = 0 THEN never ELSE is(mask - val + 1, 0)

pull_back_binary(r, opc, val, slot, insize) ==
  LET truth == convert_to_boolean(r)
      true == TrueInputs(opc, val, slot, calc_mask(insize))
      is(l, rt) == {[r EXCEPT !.left = Masked(l, r.mask), !.right = Masked(rt, r.mask)]}
      shifted(l, rt) == LET n == [r EXCEPT !.left = Masked(l * 2^val, r.mask), !.right = Masked(rt * 2^val, r.mask)]
                        IN {[n EXCEPT !.isempty = n.left = n.right]}
      whole == {[r EXCEPT !.left = 0, !.right = 0]}
      bound == calc_mask(insize) \div 2^val + 1
      above == calc_mask(insize) \div 2^(val + 1) + 1
      below == calc_mask(insize) - above + 1
      gap(v) == above <= v /\ v <= below
      inside(v) == above < v /\ v < below
  IN IF r.isempty THEN {r} ELSE
     CASE opc \in ComparisonOps \cup {"IntCarry"} ->
            {IF BothTruths(r) THEN [truth EXCEPT !.mask = calc_mask(insize)]
             ELSE IF truth.isempty THEN [true EXCEPT !.isempty = TRUE]
             ELSE IF truth.left = 0 THEN complement(true)
             ELSE true}
       [] opc = "IntAdd" -> is(r.left - val, r.right - val)
       [] opc = "IntSub" -> IF slot = 1 THEN is(r.left + val, r.right + val)
                            ELSE is(val - r.left, val - r.right)
       [] opc = "IntRight" /\ r.step = 1 /\ slot = 1 ->
            IF \/ r.left >= bound /\ r.right >= bound /\ r.left >= r.right
               \/ r.left = 0 /\ r.right >= bound
               \/ r.left = r.right
            THEN whole
            ELSE shifted(IF r.left > bound THEN bound ELSE r.left,
                         IF r.right > bound THEN 0 ELSE r.right)
       [] opc = "IntSright" /\ r.step = 1 /\ slot = 1 ->
            IF (gap(r.left) /\ gap(r.right) /\ r.left >= r.right) \/ r.left = r.right THEN whole
            ELSE shifted(IF inside(r.left) THEN above ELSE r.left,
                         IF inside(r.right) THEN below ELSE r.right)
       [] OTHER -> {}

\* The comparison with a constant that a range stands for: the set (at most
\* one) of [op, c, slot], slot being that of the constant.
translate2_op(r) ==
  LET int_min == r.mask \div 2 + 1
      is(op, c, slot) == {[op |-> op, c |-> c, slot |-> slot]}
  IN IF r.isempty \/ r.step # 1                      THEN {}
     ELSE IF r.right = Masked(r.left + 1, r.mask)    THEN is("IntEqual", r.left, 1)
     ELSE IF r.left = Masked(r.right + 1, r.mask)    THEN is("IntNotequal", r.right, 1)
     ELSE IF r.left = r.right                        THEN {}
     ELSE IF r.left = 0                              THEN is("IntLess", r.right, 2)
     ELSE IF r.right = 0                             THEN is("IntLess", Masked(r.left - 1, r.mask), 1)
     ELSE IF r.left = int_min                        THEN is("IntSless", r.right, 2)
     ELSE IF r.right = int_min                       THEN is("IntSless", Masked(r.left - 1, r.mask), 1)
     ELSE {}
=============================================================================
