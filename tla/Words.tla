------------------------------- MODULE Words -------------------------------
(***************************************************************************)
(* Integers of a size in bytes, and the comparisons of two of them.        *)
(* Widths are scaled: a byte has ByteBits bits (8 in the code) and a       *)
(* machine word WordBytes bytes (8 in the code), so that an expression can *)
(* be evaluated for every value of its variables.                          *)
(***************************************************************************)
EXTENDS Integers, FiniteSets, FiniteSetsExt

CONSTANTS ByteBits, WordBytes

Bits(size) == ByteBits * size

ASSUME WidthAssumption == ByteBits \in Nat \ {0} /\ WordBytes \in Nat \ {0}

\* What is used of powers of two in proofs, true of any word.
ASSUME PowersOfTwo ==
  \A n \in 1 .. Bits(WordBytes) :
    2^(n - 1) \in Nat \ {0} /\ 2^n = 2 * 2^(n - 1) /\ 2^n <= 2^Bits(WordBytes)

calc_mask(size) == 2^Bits(size) - 1

WordMask == calc_mask(WordBytes)

signbit_negative(v, size) == v >= 2^(Bits(size) - 1)

\* The signed value of the size low bytes of v.
Signed(v, size) == IF signbit_negative(v, size) THEN v - 2^Bits(size) ELSE v

ComparisonOps ==
  {"IntEqual", "IntNotequal", "IntLess", "IntLessequal", "IntSless", "IntSlessequal"}

Bool(p) == IF p THEN 1 ELSE 0

\* A comparison of two values of the same size.
Compare(opc, a, b, size) ==
  LET sa == Signed(a, size)
      sb == Signed(b, size)
      sum == sa + sb
  IN CASE opc = "IntEqual"      -> a = b
       [] opc = "IntNotequal"   -> a # b
       [] opc = "IntLess"       -> a < b
       [] opc = "IntLessequal"  -> a <= b
       [] opc = "IntSless"      -> sa < sb
       [] opc = "IntSlessequal" -> sa <= sb
       [] opc = "IntCarry"      -> a + b >= 2^Bits(size)
       [] opc = "IntScarry"     -> sum # Signed(sum % 2^Bits(size), size)
       [] opc = "IntSborrow"    -> sa - sb # Signed((sa - sb) % 2^Bits(size), size)
=============================================================================
