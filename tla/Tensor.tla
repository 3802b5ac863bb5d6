------------------------------- MODULE Tensor ---------------------------------
(***************************************************************************)
(* NdArrayRef over Z_2^K as the matrix kernels use it: a record of a shape *)
(* and of its elements, indexed by tuples; the element-wise ring_add and   *)
(* ring_sub; the product x * y by its definition; additive sharing.        *)
(***************************************************************************)
EXTENDS Integers, Sequences, FiniteSets, Functions, Z2k

\* The index tuples of a shape, one coordinate per dimension.
Idx(sh) == {i \in [DOMAIN sh -> UNION {1..sh[d] : d \in DOMAIN sh}] :
               \A d \in DOMAIN sh : i[d] <= sh[d]}
Numel(t) == Cardinality(Idx(t.sh))

\* NdArrayRef(type, shape): a fresh tensor of that shape.
Zeros(sh) == [sh |-> sh, v |-> [i \in Idx(sh) |-> 0]]

TAdd(a, b) == [sh |-> a.sh, v |-> [i \in Idx(a.sh) |-> RAdd(a.v[i], b.v[i])]]
TSub(a, b) == [sh |-> a.sh, v |-> [i \in Idx(a.sh) |-> RSub(a.v[i], b.v[i])]]

\* The product x * y by its definition: over the last index of x and the
\* next-to-last of y, batch by batch when both have a leading batch index.
PlainProduct(a, b) ==
    LET n == Len(a.sh)
        sh == SubSeq(a.sh, 1, n - 1) \o <<b.sh[n]>>
        batch(i) == IF n = 3 THEN <<i[1]>> ELSE <<>>
    IN  [sh |-> sh,
         v |-> [i \in Idx(sh) |->
                  SumFunction([k \in 1..a.sh[n] |->
                                 a.v[SubSeq(i, 1, n - 1) \o <<k>>]
                                   * b.v[batch(i) \o <<k, i[n]>>]]) % RingSize]]

\* Additive sharing of a tensor: rank 0 holds t0, rank 1 holds t - t0.
TShareOf(t, t0, p) == IF p = 0 THEN t0 ELSE TSub(t, t0)
===============================================================================
