-------------------------------- MODULE Z2k ----------------------------------
(***************************************************************************)
(* The ring Z_{2^K} of the Cheetah backend and element-wise arithmetic on  *)
(* flat buffers (the ring_add / ring_sub / ring_mul utilities the kernels  *)
(* of arithmetic.cc call).  A flat NdArrayRef of numel elements is a       *)
(* sequence of ring elements; x.slice({lo},{hi}) is SubSeq and the two     *)
(* memcpy calls that join slices are \o.                                   *)
(***************************************************************************)
EXTENDS Integers, Sequences

CONSTANT K          \* bit width of the field (SizeOf(field) * 8)

ASSUME K \in Nat \ {0}

RingSize == 2^K
Ring == 0..(RingSize - 1)

\* Wrap-around arithmetic of the unsigned ring2k_t elements.
RAdd(a, b) == (a + b) % RingSize
RSub(a, b) == (a - b) % RingSize
RMul(a, b) == (a * b) % RingSize

\* ring_add, ring_sub, ring_mul: element-wise over buffers of equal numel.
VAdd(u, v) == [i \in DOMAIN u |-> RAdd(u[i], v[i])]
VSub(u, v) == [i \in DOMAIN u |-> RSub(u[i], v[i])]
VMul(u, v) == [i \in DOMAIN u |-> RMul(u[i], v[i])]

\* The additive 2-out-of-2 sharing: party 0 holds v0, party 1 v - v0.
ShareOf(v, v0, p) == IF p = 0 THEN v0 ELSE VSub(v, v0)
Reconstruct(s0, s1) == VAdd(s0, s1)
==============================================================================
