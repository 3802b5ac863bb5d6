--------------------------- MODULE MCCheetahMatMul ----------------------------
(* Kernel programs and operands for model checking CheetahMatMul.          *)
EXTENDS CheetahMatMul

\* A kernel call: kind, the owner of the private operand, operand shapes.
Op(k, owner, xs, ys) == [k |-> k, owner |-> owner, xs |-> xs, ys |-> ys]

\* A tensor of shape sh with every element c.
Const(sh, c) == [sh |-> sh, v |-> [i \in Idx(sh) |-> c]]

\* A tensor of shape sh whose elements differ with their position.
Fill(sh, c) ==
    [sh |-> sh,
     v |-> [i \in Idx(sh) |->
              (c + 2 * i[1] + 3 * i[2] + IF Len(sh) = 3 THEN 5 * i[3] ELSE 0)
                % RingSize]]

Shared(o) == o.k \in {"MatMulAA", "BatchMatMulAA"}

(* Algebra: every kernel on 1x1 (1x1x1) operands over the whole ring.      *)
S2 == <<1, 1>>
S3 == <<1, 1, 1>>
AlgebraPrograms ==
    { <<Op("MatMulVVS", 0, S2, S2)>>, <<Op("MatMulVVS", 1, S2, S2)>>,
      <<Op("MatMulAV", 0, S2, S2)>>, <<Op("MatMulAV", 1, S2, S2)>>,
      <<Op("MatMulAA", 0, S2, S2)>>,
      <<Op("BatchMatMulAV", 1, S3, S3)>>, <<Op("BatchMatMulAA", 0, S3, S3)>> }

AlgebraInputs(o) ==
    {[x |-> Const(o.xs, a), x0 |-> Const(o.xs, a0),
      y |-> Const(o.ys, b), y0 |-> Const(o.ys, b0)] :
        a \in Ring, a0 \in IF o.k = "MatMulVVS" THEN {0} ELSE Ring,
        b \in Ring, b0 \in IF Shared(o) THEN Ring ELSE {0}}

(* Shapes: non-square operands and batches, one fixed sharing each; the   *)
(* 2-D kernels also on an empty operand.  The first kernel of a program   *)
(* either calls LazyInitKeys (the AA kernels) or leaves the keys to        *)
(* DotOLE's first use (BatchMatMulAV).  Two programs end in a batched call *)
(* on malformed operands: batches that differ, which evaluate() rejects,   *)
(* and 4-D operands, which pass evaluate() and only proc() rejects.        *)
ShapePrograms ==
    { <<Op("MatMulAA", 0, <<2, 1>>, <<1, 2>>),
        Op("BatchMatMulAV", 1, <<2, 1, 2>>, <<2, 2, 1>>),
        Op("MatMulVVS", 1, <<1, 2>>, <<2, 1>>),
        Op("MatMulAV", 1, <<0, 2>>, <<2, 1>>),
        Op("BatchMatMulAV", 0, <<2, 1, 1>>, <<1, 1, 1>>)>>,
      <<Op("BatchMatMulAA", 0, <<2, 1, 2>>, <<2, 2, 1>>),
        Op("MatMulAV", 0, <<1, 2>>, <<2, 2>>),
        Op("MatMulAA", 0, <<1, 2>>, <<2, 0>>),
        Op("MatMulVVS", 0, <<0, 1>>, <<1, 1>>)>>,
      <<Op("BatchMatMulAV", 0, <<2, 1, 1>>, <<2, 1, 2>>),
        Op("MatMulAA", 0, <<1, 2>>, <<2, 1>>),
        Op("BatchMatMulAA", 0, <<1, 1, 1, 1>>, <<1, 1, 1, 1>>)>> }

(* The batched kernels on an operand with no elements: M = 0.              *)
EmptyBatchPrograms ==
    { <<Op("BatchMatMulAA", 0, <<2, 0, 1>>, <<2, 1, 2>>)>>,
      <<Op("BatchMatMulAV", 1, <<2, 0, 1>>, <<2, 1, 2>>)>> }

(* Batched calls on malformed operands with no elements: 4-D operands, and *)
(* 2-D operands, for which evaluate() reads xs[2] past the shape's end.    *)
MalformedPrograms ==
    { <<Op("BatchMatMulAV", 1, <<2, 0, 1, 1>>, <<2, 1, 2, 1>>)>>,
      <<Op("BatchMatMulAA", 0, <<2, 0>>, <<2, 1>>)>> }

FixedInputs(o) ==
    {[x |-> Fill(o.xs, 1), x0 |-> Fill(o.xs, 6),
      y |-> Fill(o.ys, 3), y0 |-> Fill(o.ys, 2)]}
=============================================================================
