--------------------------- MODULE MCCompareProtocol --------------------------
(***************************************************************************)
(* Instances of CompareProtocol for TLC.  A parameter record fixes radix,  *)
(* bitwidth (0: the element width), greater_than, Compute vs ComputeWithEq,*)
(* the batch size B of BatchCompute and the input values enumerated.       *)
(***************************************************************************)
EXTENDS CompareProtocol

Call(r, bw, g, we, b, vs) ==
    [radix |-> r, bits |-> bw, gt |-> g, witheq |-> we, batch |-> b, vals |-> vs]

\* Every input of up to 3 bits, one comparison per call: d = 2 with a
\* one-bit top digit in both directions, and d = 3 (an odd level).
AlgebraParams ==
    {Call(r, bw, g, TRUE, 1, 0..(2^bw - 1)) :
        <<r, bw, g>> \in {<<1, 2, TRUE>>, <<2, 3, TRUE>>, <<2, 3, FALSE>>, <<1, 3, FALSE>>}}

\* Five-bit elements with BatchCompute's B = 2: d = 4 (the full binary
\* tree), d = 5 (odd at two levels), d = 3 and d = 2 with partial top
\* digits; Compute and ComputeWithEq.  The values differ in low, middle
\* and top digits.
StructureParams ==
    {Call(1, 4, TRUE, TRUE, 2, {0, 5, 6, 13}),
     Call(1, 0, FALSE, FALSE, 2, {3, 18, 19}),
     Call(2, 5, TRUE, FALSE, 2, {6, 7, 22}),
     Call(4, 5, FALSE, TRUE, 2, {1, 17, 30})}
=============================================================================
