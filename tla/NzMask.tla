------------------------------- MODULE NzMask -------------------------------
(***************************************************************************)
(* The non-zero mask of a varnode: a superset of the bits that can be set  *)
(* in its value.  Many rewrite rules are justified by it alone, so a mask  *)
(* that misses a bit makes them wrong.                                     *)
(***************************************************************************)
EXTENDS Pcode

\* Shift the mask up to the top of a word and arithmetically back down.
sign_extend_mask(inmask, sizein, sizeout) ==
  IF sizeout <= sizein THEN BitAnd(inmask, calc_mask(sizeout))
  ELSE Signed(inmask, sizein) % 2^Bits(sizeout)

\* The bits a product can set: the factors' spans of bits add up, less one
\* when a factor is a single bit, above the sum of their low ends.
MultMask(m1, m2, size) ==
  LET l1 == leastsigbit_set(m1)
      l2 == leastsigbit_set(m2)
      span1 == mostsigbit_set(m1) - l1 + 1
      span2 == mostsigbit_set(m2) - l2 + 1
      total == span1 + span2 - (IF span1 = 1 \/ span2 = 1 THEN 1 ELSE 0)
      full == calc_mask(size)
      r == IF total < Bits(size) THEN pcode_right(full, Bits(size) - total) ELSE full
  IN IF m1 = 0 \/ m2 = 0 \/ l1 + l2 >= Bits(size) THEN 0
     ELSE BitAnd(pcode_left(r, l1 + l2), full)

\* mutant: zeros shifted in
SrightZeros(m, sa, size) == pcode_right(m, sa)

\* The sign bit of the mask, if set, is smeared over the vacated positions.
SrightMask(m, sa, size) ==
  LET full == calc_mask(size)
  IN IF m < 2^(Bits(size) - 1) THEN pcode_right(m, sa)
     ELSE BitOr(pcode_right(m, sa), BitXor(pcode_right(full, sa), full))

\* op_nzmask_local: the mask of the output of an operation, from the masks
\* m1 and m2 of its inputs x and y.
op_nzmask_local(opc, size, m1, m2, x, y) ==
  LET full == calc_mask(size)
  IN CASE opc \in BoolOutput          -> 1
       [] opc \in {"Copy", "IntZext"} -> m1
       [] opc = "IntSext"             -> sign_extend_mask(m1, x.size, size)
       [] opc \in {"IntXor", "IntOr"} -> IF m1 = full THEN m1 ELSE BitOr(m1, m2)
       [] opc = "IntAnd"              -> BitAnd(m1, m2)
       [] opc \in {"IntLeft", "IntRight", "IntSright"} /\ ~IsConst(y) -> full
       [] opc = "IntLeft"             -> BitAnd(pcode_left(m1, y.val), full)
       [] opc = "IntRight"            -> pcode_right(m1, y.val)
       [] opc = "IntSright"           -> SrightMask(m1, y.val, size)
       [] opc = "IntDiv"              -> pcode_right(coveringmask(m1),
                                           IF IsConst(y) THEN Max({0, mostsigbit_set(m2)})
                                           ELSE 0)
       [] opc = "IntRem"              -> coveringmask((m2 - 1) % 2^Bits(WordBytes))
       [] opc = "Popcount"            -> BitAnd(coveringmask(popcount(m1)), full)
       [] opc = "Lzcount"             -> BitAnd(coveringmask(Bits(x.size)), full)
       [] opc = "Subpiece"            -> BitAnd(pcode_right(m1, Bits(y.val)), full)
       [] opc = "Piece"               -> BitOr(pcode_left(m1, Bits(y.size)), m2)
       [] opc = "IntMult"             -> MultMask(m1, m2, size)
       [] opc = "IntAdd"              -> LET m == BitOr(m1, m2)
                                             carry == pcode_left(m, 1)
                                         IN IF m1 = full THEN m1
                                            ELSE BitAnd(BitOr(m, carry), full)
       [] OTHER                       -> full

\* calc_nzmask, for the loop-free operations of an expression: inputs before
\* outputs.
RECURSIVE calc_nzmask(_)
calc_nzmask(t) ==
  IF ~IsWritten(t) THEN t
  ELSE LET in == [i \in DOMAIN t.in |-> calc_nzmask(t.in[i])]
           x == in[1]
           y == in[Len(in)]
       IN [t EXCEPT !.in = in, !.nz = op_nzmask_local(t.op, t.size, x.nz, y.nz, x, y)]

\* get_nzmask: the mask last computed.
Nzm(t) == t.nz
=============================================================================
