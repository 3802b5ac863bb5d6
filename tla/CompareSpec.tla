------------------------------ MODULE CompareSpec -----------------------------
(***************************************************************************)
(* What CompareProtocol promises (compare_prot.h): for rank 0's private    *)
(* inputs x[1..B] and rank 1's private y, the two ranks end up with        *)
(* boolean shares of 1{x[j] > y} (or 1{x[j] < y}), and with               *)
(* ComputeWithEq also of 1{x[j] = y}.  One atomic step, eventually taken.  *)
(***************************************************************************)
EXTENDS Naturals

CONSTANTS
    Params,     \* the call parameters: radix, bitwidth, greater_than, ...
    ElemBits    \* the element width in bits, used when bitwidth = 0

VARIABLES prm, x, y, res

NoRes == <<>>

\* The bit count compared: bitwidth, or the whole element when it is 0.
BitsOf(bw) == IF bw = 0 THEN ElemBits ELSE bw

Bit(b) == IF b THEN 1 ELSE 0

\* Compute returns the comparison bit, ComputeWithEq the pair.
Answer(pr, a, b) ==
    LET cmp == Bit(IF pr.gt THEN a > b ELSE a < b)
    IN  IF pr.witheq THEN <<cmp, Bit(a = b)>> ELSE <<cmp>>

Init ==
    /\ prm \in Params
    /\ x \in [1..prm.batch -> 0..(2^BitsOf(prm.bits) - 1)]
    /\ y \in 0..(2^BitsOf(prm.bits) - 1)
    /\ res = NoRes

Compute ==
    /\ res = NoRes
    /\ res' = [j \in 1..prm.batch |-> Answer(prm, x[j], y)]
    /\ UNCHANGED <<prm, x, y>>

Spec == Init /\ [][Compute]_<<prm, x, y, res>> /\ WF_<<prm, x, y, res>>(Compute)
=============================================================================
