------------------------------ MODULE MsbA2BLocal -----------------------------
(***************************************************************************)
(* The local arithmetic of MsbA2B::proc (src/unnamed/part_002, 62-105),    *)
(* shared by the kernel model (CheetahNonlinear) and its composition with  *)
(* the comparison protocol (MsbCompare):                                   *)
(*   msb(x0 + x1) = msb(x0) ^ msb(x1) ^ 1{x0 & mask > (mask - x1) & mask}  *)
(* with mask = 2^shft - 1 and shft = nbits - 1.                            *)
(***************************************************************************)
EXTENDS Integers, Bitwise, Z2k

\* nbits_ == 0 ? SizeOf(field) * 8 : nbits_ (also the equality kernels').
MsbBits(nb) == IF nb = 0 THEN K ELSE nb

\* Mutant: the mask drops the "- 1" and keeps only bit shft.
MsbMaskOff(shft) == 2^shft

MsbMask(shft) == 2^shft - 1

\* xadj: rank 0 inputs x0 & mask, rank 1 (mask - x1) & mask, in u2k.
MsbAdjust(p, v, mask) ==
    [i \in DOMAIN v |-> IF p = 0 THEN v[i] & mask
                                 ELSE RSub(mask, v[i]) & mask]

\* _carry_bit[i] ^= (xinp[i] >> shft)
CarryXor(carry, share, shft) == carry ^^ shiftR(share, shft)
==============================================================================
