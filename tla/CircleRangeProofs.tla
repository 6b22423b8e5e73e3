-------------------------- MODULE CircleRangeProofs --------------------------
(***************************************************************************)
(* Proofs about CircleRange, for integers of every width: the range that a *)
(* method computes has exactly the values it should.  Ranges have step 1   *)
(* here, as those of every comparison and every guard without a stride.    *)
(* The hard part is the circle: an interval may wrap around, be everything *)
(* or nothing, and every sum is taken modulo the width.                    *)
(***************************************************************************)
EXTENDS CircleRange, TLAPS

Sizes == 1 .. WordBytes
Ints(size) == 0 .. calc_mask(size)
Ranges(size) ==
  [left : Ints(size), right : Ints(size), mask : {calc_mask(size)}, step : {1}, isempty : BOOLEAN]

(* Half of the integers of a size are negative. *)
Half(size) == 2^(Bits(size) - 1)

(* What is needed of the width. *)
LEMMA Width ==
  ASSUME NEW size \in Sizes
  PROVE  /\ Half(size) \in Nat \ {0}
         /\ 2^Bits(size) = 2 * Half(size)
         /\ calc_mask(size) = 2 * Half(size) - 1
<1>1. Bits(size) \in 1 .. Bits(WordBytes)
  BY WidthAssumption DEF Bits, Sizes
<1> QED
  BY <1>1, PowersOfTwo DEF Half, calc_mask

(* One turn of the circle at most. *)
LEMMA Mod ==
  ASSUME NEW n \in Nat \ {0}, NEW v \in Int
  PROVE  /\ v % n \in 0 .. n - 1
         /\ 0 <= v /\ v < n => v % n = v
         /\ n <= v /\ v < 2 * n => v % n = v - n
         /\ -n <= v /\ v < 0 => v % n = v + n
OBVIOUS

(* The elements of an interval on the circle. *)
In(l, r, v) == \/ l < r /\ l <= v /\ v < r
               \/ r < l /\ (v < r \/ l <= v)
               \/ l = r

(* contains_val, with no stride. *)
LEMMA Contains ==
  ASSUME NEW r, r.step = 1, r.left \in Nat, r.right \in Nat, NEW v \in Nat
  PROVE  contains_val(r, v) <=> ~r.isempty /\ In(r.left, r.right, v)
<1>1. r.left % r.step = v % r.step
  OBVIOUS
<1> QED
  BY <1>1 DEF contains_val, In

(* Ranges are what Contains is about. *)
LEMMA RangeContains ==
  ASSUME NEW size \in Sizes, NEW r \in Ranges(size), NEW v \in Ints(size)
  PROVE  contains_val(r, v) <=> ~r.isempty /\ In(r.left, r.right, v)
<1>1. r.step = 1 /\ r.left \in Nat /\ r.right \in Nat /\ v \in Nat
  BY DEF Ranges, Ints
<1> QED
  BY <1>1, Contains

(* complement keeps the integers that the range does not have, and those only. *)
THEOREM ComplementExact ==
  ASSUME NEW size \in Sizes, NEW r \in Ranges(size)
  PROVE  /\ complement(r) \in Ranges(size)
         /\ \A v \in Ints(size) : contains_val(complement(r), v) <=> ~contains_val(r, v)
<1>1. /\ complement(r) \in Ranges(size)
      /\ r.isempty => ~complement(r).isempty /\ complement(r).left = 0 /\ complement(r).right = 0
      /\ ~r.isempty /\ r.left = r.right => complement(r).isempty
      /\ ~r.isempty /\ r.left # r.right =>
           ~complement(r).isempty /\ complement(r).left = r.right /\ complement(r).right = r.left
  <2>1. 0 \in Ints(size)
    BY Width DEF Ints
  <2> QED
    BY <2>1 DEF complement, is_everything, Ranges
<1> SUFFICES ASSUME NEW v \in Ints(size)
             PROVE  contains_val(complement(r), v) <=> ~contains_val(r, v)
  BY <1>1
<1>2. /\ contains_val(complement(r), v) <=>
           ~complement(r).isempty /\ In(complement(r).left, complement(r).right, v)
      /\ contains_val(r, v) <=> ~r.isempty /\ In(r.left, r.right, v)
  BY <1>1, RangeContains
<1>3. r.left \in Nat /\ r.right \in Nat /\ v \in Nat
  BY DEF Ranges, Ints
<1> QED
  BY <1>1, <1>2, <1>3 DEF In

-----------------------------------------------------------------------------
(* Comparisons. *)

(* The answer of a comparison with val, the other input, in slot slot, being x. *)
Answer(opc, x, val, slot, size) ==
  IF slot = 1 THEN Compare(opc, x, val, size) ELSE Compare(opc, val, x, size)

(* The range with two given ends, taken modulo the width. *)
Made(l, r, mask) == new(Masked(l, mask), Masked(r, mask), mask, 1)

LEMMA MadeContains ==
  ASSUME NEW size \in Sizes, NEW l \in Int, NEW r \in Int
  PROVE  /\ Made(l, r, calc_mask(size)) \in Ranges(size)
         /\ \A v \in Ints(size) : contains_val(Made(l, r, calc_mask(size)), v) <=>
                                    In(l % (2 * Half(size)), r % (2 * Half(size)), v)
<1> DEFINE m == calc_mask(size)
           n == 2 * Half(size)
           made == Made(l, r, m)
<1>1. n \in Nat \ {0} /\ m + 1 = n /\ m = n - 1
  BY Width
<1>2. l % n \in Ints(size) /\ r % n \in Ints(size)
  <2> HIDE DEF n
  <2>1. l % n \in 0 .. n - 1 /\ r % n \in 0 .. n - 1
    BY <1>1, Mod
  <2> QED
    BY <1>1, <2>1 DEF Ints
<1>3. made = [left |-> l % n, right |-> r % n, mask |-> m, step |-> 1, isempty |-> FALSE]
  BY <1>1 DEF Made, new, Masked
<1>4. made \in Ranges(size)
  <2> HIDE DEF n, made
  <2> QED
    BY <1>2, <1>3 DEF Ranges
<1>5. ~made.isempty /\ made.left = l % n /\ made.right = r % n
  BY <1>3
<1> HIDE DEF made
<1>6. \A v \in Ints(size) : contains_val(made, v) <=> In(l % n, r % n, v)
  BY <1>4, <1>5, RangeContains
<1> QED
  BY <1>4, <1>6 DEF made

(* The negative numbers are the upper half. *)
LEMMA SignedValue ==
  ASSUME NEW size \in Sizes, NEW v \in Ints(size)
  PROVE  /\ v < Half(size) => Signed(v, size) = v
         /\ v >= Half(size) => Signed(v, size) = v - 2 * Half(size)
BY Width DEF Signed, signbit_negative, Half, Ints

(* The inputs for which a comparison with a constant is true are an          *)
(* interval, and pull_back_binary computes it, at every boundary.            *)
THEOREM TrueInputsExact ==
  ASSUME NEW size \in Sizes, NEW opc \in ComparisonOps \cup {"IntCarry"},
         NEW val \in Ints(size), NEW slot \in {1, 2}
  PROVE  /\ TrueInputs(opc, val, slot, calc_mask(size)) \in Ranges(size)
         /\ \A x \in Ints(size) : contains_val(TrueInputs(opc, val, slot, calc_mask(size)), x)
                                    <=> Answer(opc, x, val, slot, size)
<1> DEFINE m == calc_mask(size)
           h == Half(size)
           n == 2 * h
           true == TrueInputs(opc, val, slot, m)
           never == [Made(0, 0, m) EXCEPT !.isempty = TRUE]
<1>1. h \in Nat \ {0} /\ n \in Nat \ {0} /\ n = 2 * h /\ m = n - 1 /\ m \div 2 + 1 = h
  BY Width
<1>2. val \in Nat /\ val < n
  BY <1>1 DEF Ints
<1>3. never \in Ranges(size) /\ \A x \in Ints(size) : ~contains_val(never, x)
  <2>1. Made(0, 0, m) \in Ranges(size)
    BY MadeContains
  <2>2. never \in Ranges(size) /\ never.isempty
    BY <2>1 DEF Ranges
  <2> QED
    BY <2>2 DEF contains_val
<1>4. \A x \in Ints(size) : x \in Nat /\ x < n
  BY <1>1 DEF Ints
<1>5. Signed(val, size) = IF val < h THEN val ELSE val - n
  BY <1>1, <1>2, SignedValue
<1>6. \A x \in Ints(size) : Signed(x, size) = IF x < h THEN x ELSE x - n
  BY <1>1, <1>4, SignedValue
<1>7. 2^Bits(size) = n
  BY Width
<1>8. /\ 0 % n = 0 /\ h % n = h /\ val % n = val
      /\ (val + 1) % n = IF val = m THEN 0 ELSE val + 1
      /\ (m - val + 1) % n = IF val = 0 THEN 0 ELSE n - val
  <2> HIDE DEF m, h, n
  <2>1. \A v \in Int : /\ 0 <= v /\ v < n => v % n = v
                       /\ n <= v /\ v < 2 * n => v % n = v - n
    BY <1>1, Mod
  <2>2. /\ 0 \in Int /\ h \in Int /\ val \in Int /\ val + 1 \in Int /\ m - val + 1 \in Int
        /\ h < n /\ val <= m
        /\ 0 <= m - val + 1 /\ (val # 0 => m - val + 1 < n) /\ (val = 0 => m - val + 1 = n)
        /\ (val = m => val + 1 = n) /\ (val # m => val + 1 < n)
    BY <1>1, <1>2
  <2>3. 0 % n = 0 /\ h % n = h /\ val % n = val
    BY <1>1, <1>2, <2>1, <2>2
  <2>4. (val + 1) % n = IF val = m THEN 0 ELSE val + 1
    BY <1>1, <1>2, <2>1, <2>2
  <2>5. (m - val + 1) % n = IF val = 0 THEN 0 ELSE n - val
    BY <1>1, <1>2, <2>1, <2>2
  <2> QED
    BY <2>3, <2>4, <2>5
<1>9. \A l, r \in Int : /\ Made(l, r, m) \in Ranges(size)
                        /\ \A x \in Ints(size) : contains_val(Made(l, r, m), x) <=> In(l % n, r % n, x)
  BY MadeContains
<1>10. h \in Int /\ m \in Int /\ n \in Int /\ val \in Int /\ val + 1 \in Int /\ m - val + 1 \in Int
  BY <1>1, <1>2
<1> SUFFICES /\ true \in Ranges(size)
             /\ \A x \in Ints(size) : contains_val(true, x) <=> Answer(opc, x, val, slot, size)
  OBVIOUS
<1> HIDE DEF m, h, n, true, never
<1>11. CASE opc = "IntEqual"
  <2>1. \A x \in Ints(size) : Answer(opc, x, val, slot, size) <=> x = val
    BY <1>2, <1>4, <1>7, <1>11 DEF Answer, Compare
  <2>2. true = Made(val, val + 1, m)
    BY <1>1, <1>11 DEF true, TrueInputs, Made, never
  <2>3. \A x \in Ints(size) : In(val % n, (val + 1) % n, x) <=> x = val
    BY <1>1, <1>2, <1>4, <1>8 DEF In
  <2> QED
    BY <1>9, <1>10, <2>1, <2>2, <2>3
<1>12. CASE opc = "IntNotequal"
  <2>1. \A x \in Ints(size) : Answer(opc, x, val, slot, size) <=> x # val
    BY <1>2, <1>4, <1>7, <1>12 DEF Answer, Compare
  <2>2. true = Made(val + 1, val, m)
    BY <1>1, <1>12 DEF true, TrueInputs, Made, never
  <2>3. \A x \in Ints(size) : In((val + 1) % n, val % n, x) <=> x # val
    BY <1>1, <1>2, <1>4, <1>8 DEF In
  <2> QED
    BY <1>9, <1>10, <2>1, <2>2, <2>3
<1>13. CASE opc = "IntLess" /\ slot = 1
  <2>1. \A x \in Ints(size) : Answer(opc, x, val, slot, size) <=> x < val
    BY <1>2, <1>4, <1>7, <1>13 DEF Answer, Compare
  <2>2. CASE val = 0
    <3>1. true = never
      BY <1>1, <1>13, <2>2 DEF true, TrueInputs, Made, never
    <3>2. \A x \in Ints(size) : ~(x < val)
      BY <1>1, <1>2, <1>4, <1>8, <2>2
    <3> QED
      BY <1>3, <2>1, <3>1, <3>2
  <2>3. CASE val # 0
    <3>1. true = Made(0, val, m)
      BY <1>1, <1>13, <2>3 DEF true, TrueInputs, Made, never
    <3>2. \A x \in Ints(size) : In(0 % n, val % n, x) <=> x < val
      BY <1>1, <1>2, <1>4, <1>8, <2>3 DEF In
    <3> QED
      BY <1>9, <1>10, <2>1, <3>1, <3>2
  <2> QED
    BY <2>2, <2>3
<1>14. CASE opc = "IntLess" /\ slot = 2
  <2>1. \A x \in Ints(size) : Answer(opc, x, val, slot, size) <=> val < x
    BY <1>2, <1>4, <1>7, <1>14 DEF Answer, Compare
  <2>2. CASE val = m
    <3>1. true = never
      BY <1>1, <1>14, <2>2 DEF true, TrueInputs, Made, never
    <3>2. \A x \in Ints(size) : ~(val < x)
      BY <1>1, <1>2, <1>4, <1>8, <2>2
    <3> QED
      BY <1>3, <2>1, <3>1, <3>2
  <2>3. CASE val # m
    <3>1. true = Made(val + 1, 0, m)
      BY <1>1, <1>14, <2>3 DEF true, TrueInputs, Made, never
    <3>2. \A x \in Ints(size) : In((val + 1) % n, 0 % n, x) <=> val < x
      BY <1>1, <1>2, <1>4, <1>8, <2>3 DEF In
    <3> QED
      BY <1>9, <1>10, <2>1, <3>1, <3>2
  <2> QED
    BY <2>2, <2>3
<1>15. CASE opc = "IntLessequal" /\ slot = 1
  <2>1. \A x \in Ints(size) : Answer(opc, x, val, slot, size) <=> x <= val
    BY <1>2, <1>4, <1>7, <1>15 DEF Answer, Compare
  <2>2. true = Made(0, val + 1, m)
    BY <1>1, <1>15 DEF true, TrueInputs, Made, never
  <2>3. \A x \in Ints(size) : In(0 % n, (val + 1) % n, x) <=> x <= val
    BY <1>1, <1>2, <1>4, <1>8 DEF In
  <2> QED
    BY <1>9, <1>10, <2>1, <2>2, <2>3
<1>16. CASE opc = "IntLessequal" /\ slot = 2
  <2>1. \A x \in Ints(size) : Answer(opc, x, val, slot, size) <=> val <= x
    BY <1>2, <1>4, <1>7, <1>16 DEF Answer, Compare
  <2>2. true = Made(val, 0, m)
    BY <1>1, <1>16 DEF true, TrueInputs, Made, never
  <2>3. \A x \in Ints(size) : In(val % n, 0 % n, x) <=> val <= x
    BY <1>1, <1>2, <1>4, <1>8 DEF In
  <2> QED
    BY <1>9, <1>10, <2>1, <2>2, <2>3
<1>17. CASE opc = "IntSless" /\ slot = 1
  <2>1. \A x \in Ints(size) : Answer(opc, x, val, slot, size) <=> Signed(x, size) < Signed(val, size)
    BY <1>2, <1>4, <1>7, <1>17 DEF Answer, Compare
  <2>2. CASE val = h
    <3>1. true = never
      BY <1>1, <1>17, <2>2 DEF true, TrueInputs, Made, never
    <3>2. \A x \in Ints(size) : ~(Signed(x, size) < Signed(val, size))
      BY <1>1, <1>2, <1>4, <1>8, <1>5, <1>6, <2>2
    <3> QED
      BY <1>3, <2>1, <3>1, <3>2
  <2>3. CASE val # h
    <3>1. true = Made(h, val, m)
      BY <1>1, <1>17, <2>3 DEF true, TrueInputs, Made, never
    <3>2. \A x \in Ints(size) : In(h % n, val % n, x) <=> Signed(x, size) < Signed(val, size)
      BY <1>1, <1>2, <1>4, <1>8, <1>5, <1>6, <2>3 DEF In
    <3> QED
      BY <1>9, <1>10, <2>1, <3>1, <3>2
  <2> QED
    BY <2>2, <2>3
<1>18. CASE opc = "IntSless" /\ slot = 2
  <2>1. \A x \in Ints(size) : Answer(opc, x, val, slot, size) <=> Signed(val, size) < Signed(x, size)
    BY <1>2, <1>4, <1>7, <1>18 DEF Answer, Compare
  <2>2. CASE val = h - 1
    <3>1. true = never
      BY <1>1, <1>18, <2>2 DEF true, TrueInputs, Made, never
    <3>2. \A x \in Ints(size) : ~(Signed(val, size) < Signed(x, size))
      BY <1>1, <1>2, <1>4, <1>8, <1>5, <1>6, <2>2
    <3> QED
      BY <1>3, <2>1, <3>1, <3>2
  <2>3. CASE val # h - 1
    <3>1. true = Made(val + 1, h, m)
      BY <1>1, <1>18, <2>3 DEF true, TrueInputs, Made, never
    <3>2. \A x \in Ints(size) : In((val + 1) % n, h % n, x) <=> Signed(val, size) < Signed(x, size)
      BY <1>1, <1>2, <1>4, <1>8, <1>5, <1>6, <2>3 DEF In
    <3> QED
      BY <1>9, <1>10, <2>1, <3>1, <3>2
  <2> QED
    BY <2>2, <2>3
<1>19. CASE opc = "IntSlessequal" /\ slot = 1
  <2>1. \A x \in Ints(size) : Answer(opc, x, val, slot, size) <=> Signed(x, size) <= Signed(val, size)
    BY <1>2, <1>4, <1>7, <1>19 DEF Answer, Compare
  <2>2. true = Made(h, val + 1, m)
    BY <1>1, <1>19 DEF true, TrueInputs, Made, never
  <2>3. \A x \in Ints(size) : In(h % n, (val + 1) % n, x) <=> Signed(x, size) <= Signed(val, size)
    BY <1>1, <1>2, <1>4, <1>8, <1>5, <1>6 DEF In
  <2> QED
    BY <1>9, <1>10, <2>1, <2>2, <2>3
<1>20. CASE opc = "IntSlessequal" /\ slot = 2
  <2>1. \A x \in Ints(size) : Answer(opc, x, val, slot, size) <=> Signed(val, size) <= Signed(x, size)
    BY <1>2, <1>4, <1>7, <1>20 DEF Answer, Compare
  <2>2. true = Made(val, h, m)
    BY <1>1, <1>20 DEF true, TrueInputs, Made, never
  <2>3. \A x \in Ints(size) : In(val % n, h % n, x) <=> Signed(val, size) <= Signed(x, size)
    BY <1>1, <1>2, <1>4, <1>8, <1>5, <1>6 DEF In
  <2> QED
    BY <1>9, <1>10, <2>1, <2>2, <2>3
<1>21. CASE opc = "IntCarry"
  <2>1. \A x \in Ints(size) : Answer(opc, x, val, slot, size) <=> x + val >= n
    BY <1>2, <1>4, <1>7, <1>21 DEF Answer, Compare
  <2>2. CASE val = 0
    <3>1. true = never
      BY <1>1, <1>21, <2>2 DEF true, TrueInputs, Made, never
    <3>2. \A x \in Ints(size) : ~(x + val >= n)
      BY <1>1, <1>2, <1>4, <1>8, <2>2
    <3> QED
      BY <1>3, <2>1, <3>1, <3>2
  <2>3. CASE val # 0
    <3>1. true = Made(m - val + 1, 0, m)
      BY <1>1, <1>21, <2>3 DEF true, TrueInputs, Made, never
    <3>2. \A x \in Ints(size) : In((m - val + 1) % n, 0 % n, x) <=> x + val >= n
      BY <1>1, <1>2, <1>4, <1>8, <2>3 DEF In
    <3> QED
      BY <1>9, <1>10, <2>1, <3>1, <3>2
  <2> QED
    BY <2>2, <2>3
<1> QED
  BY <1>11, <1>12, <1>13, <1>14, <1>15, <1>16, <1>17, <1>18, <1>19, <1>20, <1>21
  DEF ComparisonOps
-----------------------------------------------------------------------------
(* Two intervals. *)

(* The meaning of the table of encode_range_overlaps, for two intervals that *)
(* are not the whole circle, whether they wrap around or not: where they     *)
(* meet.                                                                     *)
Met(code, l1, r1, l2, r2, v) ==
  /\ code \in {"a", "b", "c", "d", "e", "f", "g"}
  /\ code \in {"a", "f"} => ~(In(l1, r1, v) /\ In(l2, r2, v))
  /\ code = "b" \/ (code = "g" /\ l1 = r2) =>
       (In(l1, r1, v) /\ In(l2, r2, v) <=> l2 # r1 /\ In(l2, r1, v))
  /\ code = "c" => (In(l2, r2, v) => In(l1, r1, v))
  /\ code = "d" => (In(l1, r1, v) => In(l2, r2, v))
  /\ code = "e" \/ (code = "g" /\ l1 # r2 /\ l2 = r1) =>
       (In(l1, r1, v) /\ In(l2, r2, v) <=> l1 # r2 /\ In(l1, r2, v))

LEMMA Meets ==
  ASSUME NEW l1 \in Nat, NEW r1 \in Nat, NEW l2 \in Nat, NEW r2 \in Nat, l1 # r1, l2 # r2,
         NEW v \in Nat
  PROVE  Met(encode_range_overlaps(l1, r1, l2, r2), l1, r1, l2, r2, v)
BY DEF Met, In, ARRANGE, encode_range_overlaps

(* And what they cover together, if that is one interval. *)
Joined(code, l1, r1, l2, r2, v) ==
  /\ code \in {"a", "b", "c", "d", "e", "f", "g"}
  /\ code \in {"a", "f"} /\ r1 = l2 => (In(l1, r1, v) \/ In(l2, r2, v) <=> In(l1, r2, v))
  /\ code \in {"a", "f"} /\ r2 = l1 => (In(l1, r1, v) \/ In(l2, r2, v) <=> In(l2, r1, v))
  /\ code = "b" => (In(l1, r1, v) \/ In(l2, r2, v) <=> In(l1, r2, v))
  /\ code = "c" => (In(l2, r2, v) => In(l1, r1, v))
  /\ code = "d" => (In(l1, r1, v) => In(l2, r2, v))
  /\ code = "e" => (In(l1, r1, v) \/ In(l2, r2, v) <=> In(l2, r1, v))
  /\ code = "g" => In(l1, r1, v) \/ In(l2, r2, v)

LEMMA Joins ==
  ASSUME NEW l1 \in Nat, NEW r1 \in Nat, NEW l2 \in Nat, NEW r2 \in Nat, l1 # r1, l2 # r2,
         NEW v \in Nat
  PROVE  Joined(encode_range_overlaps(l1, r1, l2, r2), l1, r1, l2, r2, v)
BY DEF Joined, In, ARRANGE, encode_range_overlaps

(* With one step and one mask there is nothing to fit. *)
LEMMA Plain ==
  ASSUME NEW size \in Sizes, NEW a \in Ranges(size), NEW b \in Ranges(size), ~a.isempty, ~b.isempty
  PROVE  intersect(a, b) = meet(a, a.left, a.right, b.left, b.right)
<1>1. /\ fitted(a, a.mask, 1, 0) = {<<a.left, a.right>>}
      /\ fitted(b, a.mask, 1, 0) = {<<b.left, b.right>>}
  BY DEF fitted, Ranges
<1>2. /\ a.left % 1 = 0 /\ a.step = 1 /\ b.step = 1 /\ a.mask = b.mask
      /\ ~(a.mask < a.mask) /\ ~(1 < 1)
  BY Width DEF Ranges, Ints
<1>3. [a EXCEPT !.mask = a.mask, !.step = 1] = a
  BY DEF Ranges
<1>4. intersect(a, b) = UNION {meet(a, e[1], e[2], f[1], f[2])
                                 : e \in {<<a.left, a.right>>}, f \in {<<b.left, b.right>>}}
  BY <1>1, <1>2, <1>3 DEF intersect
<1> QED
  BY <1>4

(* A range with other ends. *)
LEMMA Ends ==
  ASSUME NEW size \in Sizes, NEW a \in Ranges(size), NEW l \in Ints(size), NEW r \in Ints(size),
         NEW e \in BOOLEAN,
         NEW c, c = [a EXCEPT !.left = l, !.right = r, !.isempty = e]
  PROVE  /\ c \in Ranges(size)
         /\ \A v \in Ints(size) : contains_val(c, v) <=> ~e /\ In(l, r, v)
<1>1. c \in Ranges(size) /\ c.left = l /\ c.right = r /\ c.isempty = e
  BY DEF Ranges
<1> QED
  BY <1>1, RangeContains

(* What intersect returns is the intersection of its arguments. *)
THEOREM IntersectExact ==
  ASSUME NEW size \in Sizes, NEW a \in Ranges(size), NEW b \in Ranges(size),
         NEW c \in intersect(a, b)
  PROVE  /\ c \in Ranges(size)
         /\ \A v \in Ints(size) : contains_val(c, v) <=> contains_val(a, v) /\ contains_val(b, v)
<1> DEFINE Ok(l, r, e) == c = [a EXCEPT !.left = l, !.right = r, !.isempty = e]
           code == encode_range_overlaps(a.left, a.right, b.left, b.right)
<1>1. /\ a.left \in Ints(size) /\ a.right \in Ints(size) /\ b.left \in Ints(size) /\ b.right \in Ints(size)
      /\ a.left \in Nat /\ a.right \in Nat /\ b.left \in Nat /\ b.right \in Nat
      /\ a.isempty \in BOOLEAN /\ b.isempty \in BOOLEAN
  BY DEF Ranges, Ints
<1>2. \A v \in Ints(size) : /\ contains_val(a, v) <=> ~a.isempty /\ In(a.left, a.right, v)
                            /\ contains_val(b, v) <=> ~b.isempty /\ In(b.left, b.right, v)
                            /\ v \in Nat
  BY RangeContains DEF Ints
<1>3. CASE a.isempty
  <2>1. c = a
    BY <1>3 DEF intersect
  <2> QED
    BY <1>2, <1>3, <2>1
<1>4. CASE ~a.isempty /\ b.isempty
  <2>1. c = [a EXCEPT !.isempty = TRUE]
    BY <1>4 DEF intersect
  <2>2. c \in Ranges(size) /\ c.isempty
    BY <2>1 DEF Ranges
  <2> QED
    BY <1>2, <1>4, <2>2, RangeContains
<1>5. CASE ~a.isempty /\ ~b.isempty
  <2>1. c \in meet(a, a.left, a.right, b.left, b.right)
    BY <1>5, Plain
  <2>2. \A l, r : [a EXCEPT !.left = l, !.right = r] = [a EXCEPT !.left = l, !.right = r, !.isempty = FALSE]
    BY <1>5 DEF Ranges
  <2>3. [a EXCEPT !.isempty = TRUE] = [a EXCEPT !.left = a.left, !.right = a.right, !.isempty = TRUE]
    BY DEF Ranges
  <2>7. \A l, r \in Ints(size) : \A e \in BOOLEAN : Ok(l, r, e) =>
          /\ c \in Ranges(size)
          /\ \A v \in Ints(size) : contains_val(c, v) <=> ~e /\ In(l, r, v)
    BY Ends
  <2>4. CASE a.left = a.right
    <3>1. Ok(b.left, b.right, FALSE)
      BY <2>1, <2>2, <2>4 DEF meet
    <3>2. \A v : In(a.left, a.right, v)
      BY <2>4 DEF In
    <3>3. c \in Ranges(size) /\ \A v \in Ints(size) : contains_val(c, v) <=> In(b.left, b.right, v)
      <4> HIDE DEF Ok
      <4> QED
        BY <1>1, <2>7, <3>1
    <3> QED
      BY <1>2, <1>5, <3>2, <3>3
  <2>5. CASE a.left # a.right /\ b.left = b.right
    <3>1. Ok(a.left, a.right, FALSE)
      BY <2>1, <2>2, <2>5 DEF meet
    <3>2. \A v : In(b.left, b.right, v)
      BY <2>5 DEF In
    <3>3. c \in Ranges(size) /\ \A v \in Ints(size) : contains_val(c, v) <=> In(a.left, a.right, v)
      <4> HIDE DEF Ok
      <4> QED
        BY <1>1, <2>7, <3>1
    <3> QED
      BY <1>2, <1>5, <3>2, <3>3
  <2>6. CASE a.left # a.right /\ b.left # b.right
    <3>1. /\ code \in {"a", "f"} => Ok(a.left, a.right, TRUE)
          /\ code = "b" \/ (code = "g" /\ a.left = b.right) => Ok(b.left, a.right, b.left = a.right)
          /\ code = "c" => Ok(b.left, b.right, FALSE)
          /\ code = "d" => Ok(a.left, a.right, FALSE)
          /\ code = "e" \/ (code = "g" /\ a.left # b.right /\ b.left = a.right) =>
               Ok(a.left, b.right, a.left = b.right)
          /\ ~(code = "g" /\ a.left # b.right /\ b.left # a.right)
      BY <2>1, <2>2, <2>3, <2>6 DEF meet
    <3> HIDE DEF code
    <3>2. \A v \in Ints(size) : Met(code, a.left, a.right, b.left, b.right, v)
      BY <1>1, <1>2, <2>6, Meets DEF code
    <3>4. 0 \in Ints(size) /\ (b.left = a.right) \in BOOLEAN /\ (a.left = b.right) \in BOOLEAN
      BY Width DEF Ints
    <3> HIDE DEF Ok
    <3>5. CASE code \in {"a", "f"}
      BY <1>1, <1>2, <1>5, <3>1, <3>2, <2>7, <3>5 DEF Met
    <3>6. CASE code = "b" \/ (code = "g" /\ a.left = b.right)
      BY <1>1, <1>2, <1>5, <3>1, <3>2, <2>7, <3>4, <3>6 DEF Met
    <3>7. CASE code = "c"
      BY <1>1, <1>2, <1>5, <3>1, <3>2, <2>7, <3>7 DEF Met
    <3>8. CASE code = "d"
      BY <1>1, <1>2, <1>5, <3>1, <3>2, <2>7, <3>8 DEF Met
    <3>9. CASE code = "e" \/ (code = "g" /\ a.left # b.right /\ b.left = a.right)
      BY <1>1, <1>2, <1>5, <3>1, <3>2, <2>7, <3>4, <3>9 DEF Met
    <3> QED
      BY <3>1, <3>2, <3>4, <3>5, <3>6, <3>7, <3>8, <3>9 DEF Met
  <2> QED
    BY <2>4, <2>5, <2>6
<1> QED
  BY <1>1, <1>3, <1>4, <1>5

(* What circle_union returns is the union of its arguments. *)
THEOREM UnionExact ==
  ASSUME NEW size \in Sizes, NEW a \in Ranges(size), NEW b \in Ranges(size),
         NEW c \in circle_union(a, b)
  PROVE  /\ c \in Ranges(size)
         /\ \A v \in Ints(size) : contains_val(c, v) <=> contains_val(a, v) \/ contains_val(b, v)
<1> DEFINE Is(l, r) == c = [a EXCEPT !.left = l, !.right = r, !.step = 1]
           code == encode_range_overlaps(a.left, a.right, b.left, b.right)
<1>1. /\ a.left \in Ints(size) /\ a.right \in Ints(size) /\ b.left \in Ints(size) /\ b.right \in Ints(size)
      /\ a.left \in Nat /\ a.right \in Nat /\ b.left \in Nat /\ b.right \in Nat
      /\ 0 \in Ints(size) /\ a.step = 1 /\ b.step = 1 /\ ~(1 < 1) /\ a.left % 1 = 0 /\ b.left % 1 = 0
      /\ a.mask = b.mask
  BY Width DEF Ranges, Ints
<1>2. \A v \in Ints(size) : /\ contains_val(a, v) <=> ~a.isempty /\ In(a.left, a.right, v)
                            /\ contains_val(b, v) <=> ~b.isempty /\ In(b.left, b.right, v)
                            /\ v \in Nat
  BY RangeContains DEF Ints
<1>3. CASE b.isempty
  <2>1. c = a
    BY <1>3 DEF circle_union
  <2> QED
    BY <1>2, <1>3, <2>1
<1>4. CASE a.isempty /\ ~b.isempty
  <2>1. c = b
    BY <1>4 DEF circle_union
  <2> QED
    BY <1>2, <1>4, <2>1
<1>5. CASE ~a.isempty /\ ~b.isempty
  <2>1. \A l, r \in Ints(size) : Is(l, r) =>
          /\ c \in Ranges(size)
          /\ \A v \in Ints(size) : contains_val(c, v) <=> In(l, r, v)
    <3> SUFFICES ASSUME NEW l \in Ints(size), NEW r \in Ints(size), Is(l, r)
                 PROVE  /\ c \in Ranges(size)
                        /\ \A v \in Ints(size) : contains_val(c, v) <=> In(l, r, v)
      OBVIOUS
    <3>1. c = [a EXCEPT !.left = l, !.right = r, !.isempty = FALSE]
      BY <1>5 DEF Ranges
    <3> QED
      BY <3>1, Ends
  <2>2. CASE a.left = a.right \/ b.left = b.right
    <3>1. Is(0, 0)
      BY <1>1, <1>5, <2>2 DEF circle_union
    <3>2. \A v : In(0, 0, v) /\ (In(a.left, a.right, v) \/ In(b.left, b.right, v))
      BY <2>2 DEF In
    <3> HIDE DEF Is
    <3> QED
      BY <1>1, <1>2, <1>5, <2>1, <3>1, <3>2
  <2>3. CASE a.left # a.right /\ b.left # b.right
    <3>1. /\ code = "g" => Is(0, 0)
          /\ code \in {"a", "f"} => \/ a.right = b.left /\ Is(a.left, b.right)
                                    \/ a.left = b.right /\ Is(b.left, a.right)
          /\ code = "b" => Is(a.left, b.right)
          /\ code = "c" => Is(a.left, a.right)
          /\ code = "d" => Is(b.left, b.right)
          /\ code = "e" => Is(b.left, a.right)
      BY <1>1, <1>5, <2>3 DEF circle_union
    <3> HIDE DEF code
    <3>2. \A v \in Ints(size) : Joined(code, a.left, a.right, b.left, b.right, v)
      BY <1>1, <1>2, <2>3, Joins DEF code
    <3>3. \A v : In(0, 0, v)
      BY DEF In
    <3> HIDE DEF Is
    <3>4. CASE code \in {"a", "f"}
      BY <1>1, <1>2, <1>5, <2>1, <3>1, <3>2, <3>4 DEF Joined
    <3>5. CASE code \in {"b", "e"}
      BY <1>1, <1>2, <1>5, <2>1, <3>1, <3>2, <3>5 DEF Joined
    <3>6. CASE code \in {"c", "d"}
      BY <1>1, <1>2, <1>5, <2>1, <3>1, <3>2, <3>6 DEF Joined
    <3>7. CASE code = "g"
      BY <1>1, <1>2, <1>5, <2>1, <3>1, <3>2, <3>3, <3>7 DEF Joined
    <3> QED
      BY <1>1, <3>2, <3>4, <3>5, <3>6, <3>7 DEF Joined
  <2> QED
    BY <2>2, <2>3
<1>6. a.isempty \in BOOLEAN /\ b.isempty \in BOOLEAN
  BY DEF Ranges
<1> QED
  BY <1>3, <1>4, <1>5, <1>6

-----------------------------------------------------------------------------
(* Pulling back. *)

(* A range of truth values that has at most one of them: pulled back through *)
(* a comparison with a constant it has the inputs whose answer it contains.  *)
THEOREM PullBackComparison ==
  ASSUME NEW size \in Sizes, NEW opc \in ComparisonOps \cup {"IntCarry"},
         NEW val \in Ints(size), NEW slot \in {1, 2},
         NEW outsize \in Sizes, NEW r \in Ranges(outsize), ~BothTruths(r),
         NEW p \in pull_back_binary(r, opc, val, slot, size), NEW x \in Ints(size)
  PROVE  contains_val(p, x) <=> contains_val(r, Bool(Answer(opc, x, val, slot, size)))
<1> DEFINE true == TrueInputs(opc, val, slot, calc_mask(size))
           truth == convert_to_boolean(r)
<1>1. CASE r.isempty
  <2>1. p = r
    BY <1>1 DEF pull_back_binary, ComparisonOps
  <2> QED
    BY <1>1, <2>1 DEF contains_val
<1>2. CASE ~r.isempty
  <2>1. p = IF truth.isempty THEN [true EXCEPT !.isempty = TRUE]
            ELSE IF truth.left = 0 THEN complement(true) ELSE true
    BY <1>2 DEF pull_back_binary, ComparisonOps
  <2>2. /\ truth.isempty <=> ~contains_val(r, 0) /\ ~contains_val(r, 1)
        /\ contains_val(r, 0) => truth.left = 0
        /\ contains_val(r, 1) => truth.left = 1
    BY <1>2 DEF convert_to_boolean, BothTruths
  <2>3. /\ true \in Ranges(size)
        /\ contains_val(true, x) <=> Answer(opc, x, val, slot, size)
    BY TrueInputsExact
  <2>4. contains_val(complement(true), x) <=> ~contains_val(true, x)
    BY <2>3, ComplementExact
  <2>5. ~contains_val([true EXCEPT !.isempty = TRUE], x)
    BY <2>3 DEF contains_val, Ranges
  <2> HIDE DEF true, truth
  <2>6. CASE truth.isempty
    BY <2>1, <2>2, <2>5, <2>6 DEF Bool
  <2>7. CASE ~truth.isempty /\ contains_val(r, 0)
    <3>1. ~contains_val(r, 1) /\ p = complement(true)
      BY <2>1, <2>2, <2>7 DEF BothTruths
    <3> QED
      BY <2>3, <2>4, <2>7, <3>1 DEF Bool
  <2>8. CASE ~truth.isempty /\ ~contains_val(r, 0)
    <3>1. contains_val(r, 1) /\ p = true
      BY <2>1, <2>2, <2>8
    <3> QED
      BY <2>3, <2>8, <3>1 DEF Bool
  <2> QED
    BY <2>6, <2>7, <2>8
<1> QED
  BY <1>1, <1>2

(* Sums and differences of two words are at most one turn off the circle. *)
LEMMA Wraps ==
  ASSUME NEW size \in Sizes, NEW v \in Int
  PROVE  /\ Masked(v, calc_mask(size)) \in Ints(size)
         /\ 0 <= v /\ v < 2 * Half(size) => Masked(v, calc_mask(size)) = v
         /\ 2 * Half(size) <= v /\ v < 4 * Half(size) => Masked(v, calc_mask(size)) = v - 2 * Half(size)
         /\ -2 * Half(size) <= v /\ v < 0 => Masked(v, calc_mask(size)) = v + 2 * Half(size)
<1> DEFINE n == 2 * Half(size)
<1>1. n \in Nat \ {0} /\ calc_mask(size) = n - 1 /\ Masked(v, calc_mask(size)) = v % n
  BY Width DEF Masked
<1>2. Ints(size) = 0 .. n - 1
  BY <1>1 DEF Ints
<1>3. 4 * Half(size) = 2 * n /\ -2 * Half(size) = -n
  BY Width
<1> HIDE DEF n
<1>4. /\ v % n \in 0 .. n - 1
      /\ 0 <= v /\ v < n => v % n = v
      /\ n <= v /\ v < 2 * n => v % n = v - n
      /\ -n <= v /\ v < 0 => v % n = v + n
  BY <1>1, Mod
<1> QED
  BY <1>1, <1>2, <1>3, <1>4 DEF n

(* An interval that is turned by k, or mirrored. *)
LEMMA Turned ==
  ASSUME NEW size \in Sizes, NEW l \in Ints(size), NEW r \in Ints(size), NEW x \in Ints(size),
         NEW k \in Ints(size), NEW m, m = calc_mask(size)
  PROVE  /\ In(Masked(l - k, m), Masked(r - k, m), x) <=> In(l, r, Masked(x + k, m))
         /\ In(Masked(l + k, m), Masked(r + k, m), x) <=> In(l, r, Masked(x - k, m))
<1> DEFINE n == 2 * Half(size)
           Up(v) == IF v + k < n THEN v + k ELSE v + k - n
           Down(v) == IF v < k THEN v - k + n ELSE v - k
<1>1. /\ n \in Nat \ {0} /\ Ints(size) = 0 .. n - 1
      /\ 2 * Half(size) = n /\ 4 * Half(size) = 2 * n /\ -2 * Half(size) = -n
  BY Width DEF Ints
<1>2. \A v \in Ints(size) : Masked(v + k, m) = Up(v) /\ Masked(v - k, m) = Down(v)
  <2> SUFFICES ASSUME NEW v \in Ints(size)
               PROVE  Masked(v + k, m) = Up(v) /\ Masked(v - k, m) = Down(v)
    OBVIOUS
  <2>1. /\ v + k \in Int /\ 0 <= v + k /\ v + k < 4 * Half(size)
        /\ v - k \in Int /\ -2 * Half(size) <= v - k /\ v - k < 2 * Half(size)
        /\ v - k < 0 <=> v < k
    <3>1. v \in 0 .. n - 1 /\ k \in 0 .. n - 1
      BY <1>1
    <3> HIDE DEF n
    <3> QED
      BY <1>1, <3>1
  <2>2. Masked(v + k, m) = Up(v)
    <3>1. CASE v + k < n
      BY <2>1, <3>1, Wraps
    <3>2. CASE ~(v + k < n)
      <4> DEFINE s == v + k
      <4>1. s \in Int /\ 2 * Half(size) <= s /\ s < 4 * Half(size)
        BY <1>1, <2>1, <3>2, Width
      <4> HIDE DEF s
      <4>2. Masked(s, m) = s - 2 * Half(size)
        BY <4>1, Wraps
      <4>3. Up(v) = s - 2 * Half(size)
        BY <1>1, <2>1, <3>2, Width DEF s
      <4> HIDE DEF Up
      <4> QED
        BY <4>2, <4>3 DEF s
    <3> QED
      BY <3>1, <3>2
  <2>3. Masked(v - k, m) = Down(v)
    BY <2>1, Wraps, Width
  <2> QED
    BY <2>2, <2>3
<1>3. /\ In(Down(l), Down(r), x) <=> In(l, r, Up(x))
      /\ In(Up(l), Up(r), x) <=> In(l, r, Down(x))
  <2>1. l \in 0 .. n - 1 /\ r \in 0 .. n - 1 /\ x \in 0 .. n - 1 /\ k \in 0 .. n - 1
    BY <1>1
  <2> HIDE DEF n
  <2>2. In(Down(l), Down(r), x) <=> In(l, r, Up(x))
    BY <1>1, <2>1 DEF In
  <2>3. In(Up(l), Up(r), x) <=> In(l, r, Down(x))
    BY <1>1, <2>1 DEF In
  <2> QED
    BY <2>2, <2>3
<1> QED
  BY <1>2, <1>3

LEMMA Mirrored ==
  ASSUME NEW size \in Sizes, NEW l \in Ints(size), NEW r \in Ints(size), NEW x \in Ints(size),
         NEW m, m = calc_mask(size)
  PROVE  /\ In(Masked(1 - r, m), Masked(1 - l, m), x) <=> In(l, r, Masked(0 - x, m))
         /\ In(Masked(0 - r, m), Masked(0 - l, m), x) <=> In(l, r, m - x)
<1> DEFINE n == 2 * Half(size)
           Neg(v) == IF v = 0 THEN 0 ELSE n - v
           NegUp(v) == IF v = 0 THEN 1 ELSE IF v = 1 THEN 0 ELSE n + 1 - v
<1>1. n \in Nat \ {0, 1} /\ Ints(size) = 0 .. n - 1 /\ m = n - 1
  BY Width DEF Ints
<1>2. \A v \in Ints(size) : Masked(0 - v, m) = Neg(v) /\ Masked(1 - v, m) = NegUp(v)
  <2> SUFFICES ASSUME NEW v \in Ints(size)
               PROVE  Masked(0 - v, m) = Neg(v) /\ Masked(1 - v, m) = NegUp(v)
    OBVIOUS
  <2>1. /\ 0 - v \in Int /\ -2 * Half(size) <= 0 - v /\ 0 - v <= 0
        /\ 1 - v \in Int /\ -2 * Half(size) <= 1 - v /\ 1 - v <= 1
        /\ v = 0 <=> 0 - v = 0
        /\ v = 0 <=> 1 - v = 1
        /\ v = 1 <=> 1 - v = 0
    BY <1>1, Width
  <2>2. Masked(0 - v, m) = Neg(v)
    <3>1. CASE v = 0
      <4>1. 0 - v = 0 /\ 0 < 2 * Half(size)
        BY <1>1, <2>1, <3>1
      <4> QED
        BY <3>1, <4>1, Wraps
    <3>2. CASE v # 0
      <4>1. 0 - v < 0 /\ 0 - v + 2 * Half(size) = n - v
        BY <1>1, <2>1, <3>2
      <4> QED
        BY <2>1, <3>2, <4>1, Wraps
    <3> QED
      BY <3>1, <3>2
  <2>3. Masked(1 - v, m) = NegUp(v)
    BY <2>1, Wraps, Width
  <2> QED
    BY <2>2, <2>3
<1>3. /\ In(NegUp(r), NegUp(l), x) <=> In(l, r, Neg(x))
      /\ In(Neg(r), Neg(l), x) <=> In(l, r, m - x)
  <2>1. l \in 0 .. n - 1 /\ r \in 0 .. n - 1 /\ x \in 0 .. n - 1
    BY <1>1
  <2> HIDE DEF n
  <2>2. In(NegUp(r), NegUp(l), x) <=> In(l, r, Neg(x))
    BY <1>1, <2>1 DEF In
  <2>3. In(Neg(r), Neg(l), x) <=> In(l, r, n - 1 - x)
    BY <1>1, <2>1 DEF In
  <2> QED
    BY <1>1, <2>2, <2>3
<1> QED
  BY <1>2, <1>3

LEMMA Pulled ==
  ASSUME NEW size \in Sizes, NEW r \in Ranges(size), ~r.isempty,
         NEW l \in Ints(size), NEW t \in Ints(size), NEW x \in Ints(size), NEW y \in Ints(size),
         In(l, t, x) <=> In(r.left, r.right, y),
         NEW p, p = [r EXCEPT !.left = l, !.right = t]
  PROVE  contains_val(p, x) <=> contains_val(r, y)
<1>1. p = [r EXCEPT !.left = l, !.right = t, !.isempty = FALSE]
  BY DEF Ranges
<1>2. contains_val(p, x) <=> In(l, t, x)
  BY <1>1, Ends
<1> QED
  BY <1>2, RangeContains

(* Pulled back through an addition, a subtraction or a negation: the inputs  *)
(* whose output the range contains, the carries taken modulo the width.      *)
THEOREM PullBackArithmetic ==
  ASSUME NEW size \in Sizes, NEW r \in Ranges(size), NEW val \in Ints(size), NEW x \in Ints(size)
  PROVE  /\ \A p \in pull_back_binary(r, "IntAdd", val, 1, size) :
              contains_val(p, x) <=> contains_val(r, Masked(x + val, calc_mask(size)))
         /\ \A p \in pull_back_binary(r, "IntSub", val, 1, size) :
              contains_val(p, x) <=> contains_val(r, Masked(x - val, calc_mask(size)))
         /\ \A p \in pull_back_unary(r, "Int2comp", size, size) :
              contains_val(p, x) <=> contains_val(r, Masked(0 - x, calc_mask(size)))
         /\ \A p \in pull_back_unary(r, "IntNegate", size, size) :
              contains_val(p, x) <=> contains_val(r, calc_mask(size) - x)
<1> DEFINE m == calc_mask(size)
<1>1. /\ r.left \in Ints(size) /\ r.right \in Ints(size) /\ r.mask = m /\ r.step = 1
      /\ r.isempty \in BOOLEAN
  BY DEF Ranges
<1>2. r.left \in Int /\ r.right \in Int /\ x \in Int /\ val \in Int
  BY <1>1 DEF Ints
<1>3. m - x \in Ints(size)
  BY Width DEF Ints
<1>4. \A v \in Int : Masked(v, m) \in Ints(size)
  BY Wraps
<1>5. CASE r.isempty
  BY <1>5 DEF pull_back_binary, pull_back_unary, contains_val
<1>6. CASE ~r.isempty
  <2> HIDE DEF m
  <2>1. \A p \in pull_back_binary(r, "IntAdd", val, 1, size) : contains_val(p, x) <=> contains_val(r, Masked(x + val, m))
    <3> DEFINE l == Masked(r.left - val, m)
               t == Masked(r.right - val, m)
               y == Masked(x + val, m)
    <3>1. l \in Ints(size) /\ t \in Ints(size) /\ y \in Ints(size)
      BY <1>2, <1>3, <1>4
    <3>2. In(l, t, x) <=> In(r.left, r.right, y)
      BY <1>1, Turned DEF m
    <3>3. pull_back_binary(r, "IntAdd", val, 1, size) = {[r EXCEPT !.left = l, !.right = t]}
      BY <1>1, <1>2, <1>6 DEF pull_back_binary, ComparisonOps
    <3> HIDE DEF l, t, y
    <3>4. \A p \in pull_back_binary(r, "IntAdd", val, 1, size) : contains_val(p, x) <=> contains_val(r, y)
      BY <1>6, <3>1, <3>2, <3>3, Pulled
    <3> QED
      BY <3>4 DEF y
  <2>2. \A p \in pull_back_binary(r, "IntSub", val, 1, size) : contains_val(p, x) <=> contains_val(r, Masked(x - val, m))
    <3> DEFINE l == Masked(r.left + val, m)
               t == Masked(r.right + val, m)
               y == Masked(x - val, m)
    <3>1. l \in Ints(size) /\ t \in Ints(size) /\ y \in Ints(size)
      BY <1>2, <1>3, <1>4
    <3>2. In(l, t, x) <=> In(r.left, r.right, y)
      BY <1>1, Turned DEF m
    <3>3. pull_back_binary(r, "IntSub", val, 1, size) = {[r EXCEPT !.left = l, !.right = t]}
      BY <1>1, <1>2, <1>6 DEF pull_back_binary, ComparisonOps
    <3> HIDE DEF l, t, y
    <3>4. \A p \in pull_back_binary(r, "IntSub", val, 1, size) : contains_val(p, x) <=> contains_val(r, y)
      BY <1>6, <3>1, <3>2, <3>3, Pulled
    <3> QED
      BY <3>4 DEF y
  <2>3. \A p \in pull_back_unary(r, "Int2comp", size, size) : contains_val(p, x) <=> contains_val(r, Masked(0 - x, m))
    <3> DEFINE l == Masked(0 + r.step - r.right, m)
               t == Masked(0 + r.step - r.left, m)
               y == Masked(0 - x, m)
    <3>5. 0 + r.step - r.right = 1 - r.right /\ 0 + r.step - r.left = 1 - r.left
      BY <1>1, <1>2
    <3>1. l \in Ints(size) /\ t \in Ints(size) /\ y \in Ints(size)
      BY <1>2, <1>3, <1>4, <3>5
    <3>2. In(l, t, x) <=> In(r.left, r.right, y)
      BY <1>1, <3>5, Mirrored DEF m
    <3>3. pull_back_unary(r, "Int2comp", size, size) = {[r EXCEPT !.left = l, !.right = t]}
      BY <1>1, <1>2, <1>6 DEF pull_back_unary
    <3> HIDE DEF l, t, y
    <3>4. \A p \in pull_back_unary(r, "Int2comp", size, size) : contains_val(p, x) <=> contains_val(r, y)
      BY <1>6, <3>1, <3>2, <3>3, Pulled
    <3> QED
      BY <3>4 DEF y
  <2>4. \A p \in pull_back_unary(r, "IntNegate", size, size) : contains_val(p, x) <=> contains_val(r, m - x)
    <3> DEFINE l == Masked(-1 + r.step - r.right, m)
               t == Masked(-1 + r.step - r.left, m)
               y == m - x
    <3>5. -1 + r.step - r.right = 0 - r.right /\ -1 + r.step - r.left = 0 - r.left
      BY <1>1, <1>2
    <3>1. l \in Ints(size) /\ t \in Ints(size) /\ y \in Ints(size)
      BY <1>2, <1>3, <1>4, <3>5
    <3>2. In(l, t, x) <=> In(r.left, r.right, y)
      BY <1>1, <3>5, Mirrored DEF m
    <3>3. pull_back_unary(r, "IntNegate", size, size) = {[r EXCEPT !.left = l, !.right = t]}
      BY <1>1, <1>2, <1>6 DEF pull_back_unary
    <3> HIDE DEF l, t, y
    <3>4. \A p \in pull_back_unary(r, "IntNegate", size, size) : contains_val(p, x) <=> contains_val(r, y)
      BY <1>6, <3>1, <3>2, <3>3, Pulled
    <3> QED
      BY <3>4 DEF y
  <2> QED
    BY <2>1, <2>2, <2>3, <2>4 DEF m
<1> QED
  BY <1>1, <1>5, <1>6

(* The comparison that translate2_op makes of a range is true of its values, *)
(* and of no other integers.                                                 *)
THEOREM TranslateExact ==
  ASSUME NEW size \in Sizes, NEW r \in Ranges(size), NEW t \in translate2_op(r), NEW x \in Ints(size)
  PROVE  contains_val(r, x) <=> Answer(t.op, x, t.c, 3 - t.slot, size)
<1> DEFINE m == calc_mask(size)
           h == Half(size)
           n == 2 * h
           Is(op, c, slot) == t = [op |-> op, c |-> c, slot |-> slot]
<1>1. h \in Nat \ {0} /\ n \in Nat \ {0} /\ n = 2 * h /\ m = n - 1 /\ m \div 2 + 1 = h
  BY Width
<1>2. r.left \in 0 .. m /\ r.right \in 0 .. m /\ x \in 0 .. m /\ r.mask = m /\ r.step = 1
  BY DEF Ranges, Ints
<1>3. ~r.isempty
  BY DEF translate2_op
<1>4. contains_val(r, x) <=> In(r.left, r.right, x)
  BY <1>3, RangeContains
<1>5. /\ Signed(x, size) = IF x < h THEN x ELSE x - n
      /\ Signed(r.left, size) = IF r.left < h THEN r.left ELSE r.left - n
      /\ Signed(r.right, size) = IF r.right < h THEN r.right ELSE r.right - n
  BY <1>1, <1>2, SignedValue DEF Ints
<1>6. /\ Masked(r.left + 1, m) = IF r.left = m THEN 0 ELSE r.left + 1
      /\ Masked(r.right + 1, m) = IF r.right = m THEN 0 ELSE r.right + 1
      /\ r.left # 0 => Masked(r.left - 1, m) = r.left - 1
  <2>1. \A v \in 0 .. m : Masked(v + 1, m) = IF v = m THEN 0 ELSE v + 1
    <3> SUFFICES ASSUME NEW v \in 0 .. m
                 PROVE  Masked(v + 1, m) = IF v = m THEN 0 ELSE v + 1
      OBVIOUS
    <3>1. CASE v = m
      <4>1. n \in Int /\ 2 * Half(size) <= n /\ n < 4 * Half(size) /\ n - 2 * Half(size) = 0 /\ v + 1 = n
        BY <1>1, <3>1
      <4> HIDE DEF n
      <4>2. Masked(n, m) = n - 2 * Half(size)
        BY <4>1, Wraps
      <4> QED
        BY <3>1, <4>1, <4>2
    <3>2. CASE v # m
      <4>1. v + 1 \in Int /\ 0 <= v + 1 /\ v + 1 < 2 * Half(size)
        BY <1>1, <3>2
      <4> QED
        BY <3>2, <4>1, Wraps
    <3> QED
      BY <3>1, <3>2
  <2>2. ASSUME r.left # 0
        PROVE  Masked(r.left - 1, m) = r.left - 1
    <3>1. r.left - 1 \in Int /\ 0 <= r.left - 1 /\ r.left - 1 < 2 * Half(size)
      BY <1>1, <1>2, <2>2
    <3> QED
      BY <3>1, Wraps
  <2> QED
    BY <1>2, <2>1, <2>2
<1>7. \/ r.right = Masked(r.left + 1, m) /\ Is("IntEqual", r.left, 1)
      \/ r.left = Masked(r.right + 1, m) /\ Is("IntNotequal", r.right, 1)
      \/ r.left = 0 /\ r.right # 0 /\ Is("IntLess", r.right, 2)
      \/ r.right = 0 /\ r.left # 0 /\ Is("IntLess", r.left - 1, 1)
      \/ r.left = h /\ r.right # h /\ Is("IntSless", r.right, 2)
      \/ r.right = h /\ r.left # 0 /\ r.left # h /\ Is("IntSless", r.left - 1, 1)
  BY <1>1, <1>2, <1>3, <1>6 DEF translate2_op
<1>8. Signed(r.left - 1, size) = IF r.left - 1 < h THEN r.left - 1 ELSE r.left - 1 - n
  BY <1>1, <1>2, Width DEF Signed, signbit_negative, Half
<1>9. \A opc, c, slot : Is(opc, c, slot) => t.op = opc /\ t.c = c /\ t.slot = slot
  OBVIOUS
<1> HIDE DEF Is, m, h, n
<1>10. CASE r.right = Masked(r.left + 1, m) /\ Is("IntEqual", r.left, 1)
  <2>1. In(r.left, r.right, x) <=> r.left = x
    BY <1>1, <1>2, <1>6, <1>10 DEF In
  <2>2. t.op = "IntEqual" /\ t.c = r.left /\ 3 - t.slot = 2
    BY <1>9, <1>10
  <2> QED
    BY <1>4, <2>1, <2>2 DEF Answer, Compare
<1>11. CASE r.left = Masked(r.right + 1, m) /\ Is("IntNotequal", r.right, 1)
  <2>1. In(r.left, r.right, x) <=> r.right # x
    BY <1>1, <1>2, <1>6, <1>11 DEF In
  <2>2. t.op = "IntNotequal" /\ t.c = r.right /\ 3 - t.slot = 2
    BY <1>9, <1>11
  <2> QED
    BY <1>4, <2>1, <2>2 DEF Answer, Compare
<1>12. CASE r.left = 0 /\ r.right # 0 /\ Is("IntLess", r.right, 2)
  <2>1. In(r.left, r.right, x) <=> x < r.right
    BY <1>1, <1>2, <1>12 DEF In
  <2>2. t.op = "IntLess" /\ t.c = r.right /\ 3 - t.slot = 1
    BY <1>9, <1>12
  <2> QED
    BY <1>4, <2>1, <2>2 DEF Answer, Compare
<1>13. CASE r.right = 0 /\ r.left # 0 /\ Is("IntLess", r.left - 1, 1)
  <2>1. In(r.left, r.right, x) <=> r.left - 1 < x
    BY <1>1, <1>2, <1>13 DEF In
  <2>2. t.op = "IntLess" /\ t.c = r.left - 1 /\ 3 - t.slot = 2
    BY <1>9, <1>13
  <2> QED
    BY <1>4, <2>1, <2>2 DEF Answer, Compare
<1>14. CASE r.left = h /\ r.right # h /\ Is("IntSless", r.right, 2)
  <2>1. In(r.left, r.right, x) <=> Signed(x, size) < Signed(r.right, size)
    BY <1>1, <1>2, <1>5, <1>14 DEF In
  <2>2. t.op = "IntSless" /\ t.c = r.right /\ 3 - t.slot = 1
    BY <1>9, <1>14
  <2> QED
    BY <1>4, <2>1, <2>2 DEF Answer, Compare
<1>15. CASE r.right = h /\ r.left # 0 /\ r.left # h /\ Is("IntSless", r.left - 1, 1)
  <2>1. In(r.left, r.right, x) <=> Signed(r.left - 1, size) < Signed(x, size)
    BY <1>1, <1>2, <1>5, <1>8, <1>15 DEF In
  <2>2. t.op = "IntSless" /\ t.c = r.left - 1 /\ 3 - t.slot = 2
    BY <1>9, <1>15
  <2> QED
    BY <1>4, <2>1, <2>2 DEF Answer, Compare
<1> QED
  BY <1>7, <1>10, <1>11, <1>12, <1>13, <1>14, <1>15

-----------------------------------------------------------------------------
(* Giving up. *)

(* An interval cannot have two points and neither of two that lie between.   *)
LEMMA NoInterval ==
  ASSUME NEW l1 \in Nat, NEW r1 \in Nat, NEW l2 \in Nat, NEW r2 \in Nat, l1 # r1, l2 # r2,
         l1 # r2, l2 # r1, encode_range_overlaps(l1, r1, l2, r2) \in {"a", "f", "g"},
         NEW l \in Nat, NEW r \in Nat, In(l, r, l1), In(l, r, l2), ~In(l, r, r1), ~In(l, r, r2)
  PROVE  FALSE
BY DEF In, ARRANGE, encode_range_overlaps

LEMMA Between ==
  ASSUME NEW l1 \in Nat, NEW r1 \in Nat, NEW l2 \in Nat, NEW r2 \in Nat, l1 # r1, l2 # r2,
         l1 # r2, l2 # r1
  PROVE  /\ In(l1, r1, l1) /\ In(l2, r2, l2) /\ ~In(l1, r1, r1) /\ ~In(l2, r2, r2)
         /\ encode_range_overlaps(l1, r1, l2, r2) = "g" => In(l1, r1, l2) /\ In(l2, r2, l1)
         /\ encode_range_overlaps(l1, r1, l2, r2) \in {"a", "f"} => ~In(l1, r1, r2) /\ ~In(l2, r2, r1)
BY DEF In, ARRANGE, encode_range_overlaps

(* intersect gives up only when the intersection is not one interval. *)
THEOREM IntersectGivesUp ==
  ASSUME NEW size \in Sizes, NEW a \in Ranges(size), NEW b \in Ranges(size), intersect(a, b) = {},
         NEW d \in Ranges(size)
  PROVE  ~ \A v \in Ints(size) : contains_val(d, v) <=> contains_val(a, v) /\ contains_val(b, v)
<1> DEFINE code == encode_range_overlaps(a.left, a.right, b.left, b.right)
<1>1. ~a.isempty /\ ~b.isempty
  <2>1. a.isempty => intersect(a, b) = {a}
    BY DEF intersect
  <2>2. ~a.isempty /\ b.isempty => intersect(a, b) = {[a EXCEPT !.isempty = TRUE]}
    BY DEF intersect
  <2> QED
    BY <2>1, <2>2
<1>2. meet(a, a.left, a.right, b.left, b.right) = {}
  BY <1>1, Plain
<1>3. /\ a.left \in Ints(size) /\ a.right \in Ints(size) /\ b.left \in Ints(size) /\ b.right \in Ints(size)
      /\ d.left \in Ints(size) /\ d.right \in Ints(size)
      /\ Ints(size) \subseteq Nat
  BY DEF Ranges, Ints
<1>4. /\ a.left # a.right /\ b.left # b.right
      /\ code \notin {"a", "b", "c", "d", "e", "f"} /\ ~(code = "g" /\ a.left = b.right)
      /\ ~(code = "g" /\ a.left # b.right /\ b.left = a.right)
  BY <1>2 DEF meet
<1>5. code \in {"a", "b", "c", "d", "e", "f", "g"}
  BY <1>3, <1>4, Meets DEF Met
<1>6. code = "g" /\ a.left # b.right /\ b.left # a.right
  BY <1>4, <1>5
<1> SUFFICES ASSUME \A v \in Ints(size) : contains_val(d, v) <=> contains_val(a, v) /\ contains_val(b, v)
             PROVE  FALSE
  OBVIOUS
<1>7. \A v \in Ints(size) :
        ~d.isempty /\ In(d.left, d.right, v) <=> In(a.left, a.right, v) /\ In(b.left, b.right, v)
  BY <1>1, RangeContains
<1>8. /\ In(a.left, a.right, a.left) /\ In(b.left, b.right, b.left)
      /\ ~In(a.left, a.right, a.right) /\ ~In(b.left, b.right, b.right)
      /\ In(a.left, a.right, b.left) /\ In(b.left, b.right, a.left)
  BY <1>3, <1>4, <1>6, Between
<1>9. /\ In(d.left, d.right, a.left) /\ In(d.left, d.right, b.left)
      /\ ~In(d.left, d.right, a.right) /\ ~In(d.left, d.right, b.right)
  BY <1>3, <1>7, <1>8
<1> QED
  BY <1>3, <1>4, <1>6, <1>9, NoInterval

(* circle_union gives up only when the union is not one interval. *)
THEOREM UnionGivesUp ==
  ASSUME NEW size \in Sizes, NEW a \in Ranges(size), NEW b \in Ranges(size), circle_union(a, b) = {},
         NEW d \in Ranges(size)
  PROVE  ~ \A v \in Ints(size) : contains_val(d, v) <=> contains_val(a, v) \/ contains_val(b, v)
<1> DEFINE code == encode_range_overlaps(a.left, a.right, b.left, b.right)
<1>1. /\ a.left \in Ints(size) /\ a.right \in Ints(size) /\ b.left \in Ints(size) /\ b.right \in Ints(size)
      /\ d.left \in Ints(size) /\ d.right \in Ints(size)
      /\ Ints(size) \subseteq Nat
      /\ a.step = 1 /\ b.step = 1 /\ ~(1 < 1) /\ a.left % 1 = 0 /\ b.left % 1 = 0 /\ a.mask = b.mask
  BY DEF Ranges, Ints
<1>2. ~a.isempty /\ ~b.isempty
  <2>1. b.isempty => circle_union(a, b) = {a}
    BY DEF circle_union
  <2>2. a.isempty /\ ~b.isempty => circle_union(a, b) = {b}
    BY DEF circle_union
  <2> QED
    BY <2>1, <2>2
<1>3. /\ a.left # a.right /\ b.left # b.right
      /\ code \notin {"b", "c", "d", "e", "g"}
      /\ code \in {"a", "f"} => a.right # b.left /\ a.left # b.right
  BY <1>1, <1>2 DEF circle_union
<1>4. code \in {"a", "b", "c", "d", "e", "f", "g"}
  BY <1>1, <1>3, Meets DEF Met
<1>5. code \in {"a", "f"} /\ a.left # b.right /\ b.left # a.right
  BY <1>3, <1>4
<1> SUFFICES ASSUME \A v \in Ints(size) : contains_val(d, v) <=> contains_val(a, v) \/ contains_val(b, v)
             PROVE  FALSE
  OBVIOUS
<1>6. \A v \in Ints(size) :
        ~d.isempty /\ In(d.left, d.right, v) <=> In(a.left, a.right, v) \/ In(b.left, b.right, v)
  BY <1>2, RangeContains
<1>7. /\ In(a.left, a.right, a.left) /\ In(b.left, b.right, b.left)
      /\ ~In(a.left, a.right, a.right) /\ ~In(b.left, b.right, b.right)
      /\ ~In(a.left, a.right, b.right) /\ ~In(b.left, b.right, a.right)
  BY <1>1, <1>3, <1>5, Between
<1>8. /\ In(d.left, d.right, a.left) /\ In(d.left, d.right, b.left)
      /\ ~In(d.left, d.right, a.right) /\ ~In(d.left, d.right, b.right)
  BY <1>1, <1>6, <1>7
<1> QED
  BY <1>1, <1>3, <1>5, <1>8, NoInterval

-----------------------------------------------------------------------------
(* The values of a range, one by one. *)

(* The number of the values of an interval. *)
LEMMA SizeOf ==
  ASSUME NEW size \in Sizes, NEW r \in Ranges(size), ~r.isempty, r.left # r.right
  PROVE  get_size(r) = IF r.left < r.right THEN r.right - r.left
                       ELSE 2 * Half(size) - (r.left - r.right)
<1> DEFINE n == 2 * Half(size)
           w == 2^Bits(WordBytes)
<1>1. n \in Nat \ {0} /\ r.mask = n - 1 /\ r.step = 1 /\ r.left \in 0 .. n - 1 /\ r.right \in 0 .. n - 1
  BY Width DEF Ranges, Ints
<1>2. n <= w /\ w \in Nat \ {0}
  <2>1. WordBytes \in Sizes /\ Bits(size) \in 1 .. Bits(WordBytes)
    BY WidthAssumption DEF Sizes, Bits
  <2>2. w \in Nat \ {0}
    BY <2>1, Width
  <2>3. 2^Bits(size) <= w
    BY <2>1, PowersOfTwo
  <2> QED
    BY <2>2, <2>3, Width
<1> HIDE DEF n, w
<1>3. CASE r.left < r.right
  <2>1. (r.right - r.left) \div r.step = r.right - r.left /\ r.right - r.left # 0
    BY <1>1, <1>3
  <2> QED
    BY <1>1, <1>3, <2>1 DEF get_size
<1>4. CASE ~(r.left < r.right)
  <2> DEFINE s == r.mask - (r.left - r.right) + r.step
  <2>1. s = n - (r.left - r.right) /\ s \in Nat \ {0} /\ s < w
    BY <1>1, <1>2, <1>4
  <2> HIDE DEF s
  <2>2. Word(s) = s % w
    BY DEF Word, w
  <2>3. s % w = s
    BY <1>2, <2>1, Mod
  <2>4. Word(s) \div r.step = s
    BY <1>1, <2>1, <2>2, <2>3
  <2>5. get_size(r) = s
    BY <1>1, <1>4, <2>1, <2>4 DEF get_size, s
  <2> QED
    BY <1>4, <2>1, <2>5 DEF n
<1> QED
  BY <1>3, <1>4

(* The elements of a range that is not everything, counted from its left     *)
(* end, are its values, each of them once.                                   *)
THEOREM EnumeratedExact ==
  ASSUME NEW size \in Sizes, NEW r \in Ranges(size), ~r.isempty, ~is_everything(r)
  PROVE  /\ \A v \in Ints(size) : contains_val(r, v) <=> \E i \in 1 .. get_size(r) : Enumerated(r)[i] = v
         /\ \A i, j \in 1 .. get_size(r) : Enumerated(r)[i] = Enumerated(r)[j] => i = j
<1> DEFINE n == 2 * Half(size)
           count == get_size(r)
           At(i) == IF r.left + i - 1 < n THEN r.left + i - 1 ELSE r.left + i - 1 - n
<1>1. /\ n \in Nat \ {0} /\ calc_mask(size) = n - 1 /\ r.mask = n - 1 /\ r.step = 1
      /\ r.left \in 0 .. n - 1 /\ r.right \in 0 .. n - 1 /\ r.left # r.right
      /\ Ints(size) = 0 .. n - 1
  BY Width DEF Ranges, Ints, is_everything
<1>2. count = IF r.left < r.right THEN r.right - r.left ELSE n - (r.left - r.right)
  BY <1>1, SizeOf
<1>3. count \in 1 .. n - 1
  BY <1>1, <1>2
<1>4. \A i \in 1 .. count : Enumerated(r)[i] = At(i)
  <2> SUFFICES ASSUME NEW i \in 1 .. count
               PROVE  Enumerated(r)[i] = At(i)
    OBVIOUS
  <2> DEFINE s == r.left + (i - 1) * r.step
  <2>1. s \in Int /\ 0 <= s /\ s < 2 * n /\ s = r.left + i - 1
    BY <1>1, <1>3
  <2>2. Enumerated(r)[i] = Masked(s, r.mask) /\ r.mask = calc_mask(size)
    BY <1>1 DEF Enumerated
  <2> HIDE DEF s
  <2>3. CASE s < n
    BY <2>1, <2>2, <2>3, Wraps
  <2>4. CASE ~(s < n)
    <3>1. 2 * Half(size) <= s /\ s < 4 * Half(size)
      BY <1>1, <2>1, <2>4, Width
    <3>2. Masked(s, r.mask) = s - n
      BY <2>1, <2>2, <3>1, Wraps
    <3>3. At(i) = s - n
      BY <1>1, <2>1, <2>4
    <3> QED
      BY <2>2, <3>2, <3>3
  <2> QED
    BY <2>3, <2>4
<1> HIDE DEF n, count
<1>5. ASSUME NEW v \in Ints(size)
      PROVE  contains_val(r, v) <=> \E i \in 1 .. count : At(i) = v
  <2>4. v \in 0 .. n - 1
    BY <1>1
  <2>1. contains_val(r, v) <=> In(r.left, r.right, v)
    BY RangeContains
  <2>2. ASSUME In(r.left, r.right, v)
        PROVE  \E i \in 1 .. count : At(i) = v
    <3> DEFINE k == IF v < r.left THEN v - r.left + n + 1 ELSE v - r.left + 1
    <3>1. k \in 1 .. count
      <4>1. CASE r.left < r.right
        BY <1>1, <1>2, <2>2, <2>4, <4>1 DEF In
      <4>2. CASE r.right < r.left /\ v < r.left
        BY <1>1, <1>2, <2>2, <2>4, <4>2 DEF In
      <4>3. CASE r.right < r.left /\ ~(v < r.left)
        BY <1>1, <1>2, <2>4, <4>3
      <4> QED
        BY <1>1, <4>1, <4>2, <4>3
    <3>2. At(k) = v
      BY <1>1, <2>4
    <3> HIDE DEF k
    <3> QED
      BY <3>1, <3>2
  <2>3. ASSUME NEW i \in 1 .. count, At(i) = v
        PROVE  In(r.left, r.right, v)
    <3>1. CASE r.left < r.right
      BY <1>1, <1>2, <2>3, <2>4, <3>1 DEF In
    <3>2. CASE r.right < r.left
      BY <1>1, <1>2, <2>3, <2>4, <3>2 DEF In
    <3> QED
      BY <1>1, <3>1, <3>2
  <2> QED
    BY <2>1, <2>2, <2>3
<1>6. \A i, j \in 1 .. count : At(i) = At(j) => i = j
  BY <1>1, <1>3
<1> HIDE DEF At
<1> QED
  BY <1>4, <1>5, <1>6 DEF count

==============================================================================
