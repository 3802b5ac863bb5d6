------------------------------ MODULE MatMulSpec ------------------------------
(***************************************************************************)
(* What the matrix kernels promise the executor (spec.md sections 4, 7 and *)
(* 8): the calls of a program complete one at a time, each with a sharing  *)
(* of the product x * y of its operands, until a call whose operands the   *)
(* product is not defined for, which is fatal and ends the program.  A     *)
(* step of this module is a whole kernel call of both ranks.                *)
(***************************************************************************)
EXTENDS Integers, Sequences, Tensor

CONSTANTS
    Programs,    \* the sequences of kernel calls the executor may issue
    Inputs(_)    \* Inputs(o): the operand records kernel call o may get

VARIABLES
    program,     \* the kernel calls issued
    inp,         \* inp[i]: the operands of call i
    done,        \* the number of calls that have completed
    res,         \* res[i]: the reconstructed result of call i
    status       \* "run", or "abort" once a call was fatal

vars == <<program, inp, done, res, status>>

BatchedKernels == {"BatchMatMulAV", "BatchMatMulAA"}

\* Shape descriptors (spec.md section 4): the inner extents agree, and a
\* batched product takes (B, M, K) and (B, K, N).
Defined(o) ==
    IF o.k \in BatchedKernels
      THEN Len(o.xs) = 3 /\ Len(o.ys) = 3 /\ o.xs[1] = o.ys[1] /\ o.xs[3] = o.ys[2]
      ELSE Len(o.xs) = 2 /\ Len(o.ys) = 2 /\ o.xs[2] = o.ys[1]

Init ==
    /\ program \in Programs
    /\ inp \in {f \in [1..Len(program) ->
                         UNION {Inputs(program[i]) : i \in 1..Len(program)}] :
                  \A i \in 1..Len(program) : f[i] \in Inputs(program[i])}
    /\ done = 0
    /\ res = <<>>
    /\ status = "run"

Pending == status = "run" /\ done < Len(program)

\* The next call returns a sharing of x * y on both ranks.
Compute ==
    /\ Pending /\ Defined(program[done + 1])
    /\ res' = Append(res, PlainProduct(inp[done + 1].x, inp[done + 1].y))
    /\ done' = done + 1
    /\ UNCHANGED <<program, inp, status>>

\* The next call's operands do not conform: the call is fatal.
Fail ==
    /\ Pending /\ ~Defined(program[done + 1])
    /\ status' = "abort"
    /\ UNCHANGED <<program, inp, done, res>>

Next == Compute \/ Fail

Spec == Init /\ [][Next]_vars /\ WF_vars(Next)
===============================================================================
