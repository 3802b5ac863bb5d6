---------------------------- MODULE CheetahMatMul -----------------------------
(***************************************************************************)
(* The matrix kernels of arithmetic.cc (src/unnamed/part_002): MatMulVVS, *)
(* MatMulAA, MatMulAV, BatchMatMulAV and BatchMatMulAA, run by rank 0 and *)
(* rank 1.  Each kernel feeds one operand into CheetahDot's DotOLE (or    *)
(* BatchDotOLE), the homomorphic product of one party's lhs and the other *)
(* party's rhs, and adds its local product.  The AA kernels compute the    *)
(* two cross terms at once: x0 * y1 in a std::launch::async task over the *)
(* duplex link dupx, x1 * y0 in the main thread over the communicator's    *)
(* lctx.  A tensor is a record of its shape and its elements.             *)
(***************************************************************************)
EXTENDS Integers, Sequences, FiniteSets, Functions, Z2k, Tensor

CONSTANTS
    Programs,    \* the sequences of kernel calls the executor may issue
    Inputs(_),   \* Inputs(o): the operand records kernel call o may get
    Masks,       \* the values the mask of a DotOLE output share takes
    ShapeGarbage \* what Shape::operator[] may read past the last extent

Party == {0, 1}
\* lctx of the Communicator, CheetahMulState::duplx(), CheetahDot's own link
Conn == {"conn", "dupx", "dot"}
Thread == {"main", "task"}
Kernels == {"MatMulVVS", "MatMulAA", "MatMulAV", "BatchMatMulAV", "BatchMatMulAA"}

ASSUME /\ Masks \subseteq Ring /\ Masks # {}
       /\ \A prog \in Programs : \A i \in DOMAIN prog : prog[i].k \in Kernels

-----------------------------------------------------------------------------
(* The kernels' local products; tensors are those of module Tensor.       *)

\* ring_mmul of an (M, K) and a (K, N) matrix.
MMul(a, b) ==
    LET sh == <<a.sh[1], b.sh[2]>>
    IN  [sh |-> sh,
         v |-> [i \in Idx(sh) |->
                  SumFunction([k \in 1..a.sh[2] |->
                                 a.v[<<i[1], k>>] * b.v[<<k, i[2]>>]]) % RingSize]]

\* Mutation: every batch multiplied by the rhs slice of batch 0.
BMMulFirstRhs(a, b) ==
    LET sh == <<a.sh[1], a.sh[2], b.sh[3]>>
    IN  [sh |-> sh,
         v |-> [i \in Idx(sh) |->
                  SumFunction([k \in 1..a.sh[3] |->
                                 a.v[<<i[1], i[2], k>>] * b.v[<<1, k, i[3]>>]])
                    % RingSize]]

\* The per-batch ring_mmul of a (B, M, K) and a (B, K, N) tensor.
BMMul(a, b) ==
    LET sh == <<a.sh[1], a.sh[2], b.sh[3]>>
    IN  [sh |-> sh,
         v |-> [i \in Idx(sh) |->
                  SumFunction([k \in 1..a.sh[3] |->
                                 a.v[<<i[1], i[2], k>>] * b.v[<<i[1], k, i[3]>>]])
                    % RingSize]]

-----------------------------------------------------------------------------

VARIABLES
    program,   \* the kernel calls issued to both parties
    inp,       \* inp[i]: the operands of call i and rank 0's shares of them
    op,        \* op[p]: index of the call party p is executing
    pc,        \* pc[p]: "start"; "proc" past a batched kernel's evaluate;
               \* "dot" or "aa" while in DotOLE; "abort" after SPU_ENFORCE failed
    task,      \* task[p]: "none", "run", "wait", "done": the async task
    taskCall,  \* taskCall[p]: the link and DotOLE call of the task
    taskOut,   \* taskOut[p]: what task.get() returns
    req,       \* req[p][c]: the DotOLE calls party p has open on link c
    resp,      \* resp[p][t]: the answers thread t of party p has not read
    out,       \* out[p]: the output tensors party p returned, call by call
    keys,      \* keys[p]: "none" or "ready", CheetahDot's HE keys of party p
    keygen,    \* keygen[p]: how many times party p has generated its keys
    lazy       \* lazy[p][t]: "gen" while thread t, having found no keys on
               \* entering DotOLE, generates them; "idle" otherwise

keyVars == <<keys, keygen, lazy>>
vars == <<program, inp, op, pc, task, taskCall, taskOut, req, resp, out, keyVars>>

Call(p) == program[op[p]]
In(p) == inp[op[p]]
\* This party's view of the operands: its share, or the private value.
X(p) == IF Call(p).k = "MatMulVVS" THEN In(p).x ELSE TShareOf(In(p).x, In(p).x0, p)
Y(p) == IF Call(p).k \in {"MatMulAA", "BatchMatMulAA"}
          THEN TShareOf(In(p).y, In(p).y0, p) ELSE In(p).y
\* A failed SPU_ENFORCE throws, and the executor abandons the program.
Finished(p) == op[p] > Len(program) \/ pc[p] = "abort"
Batched(p) == Call(p).k \in {"BatchMatMulAV", "BatchMatMulAA"}
\* evaluate() has passed its checks and called proc().
Entered(p) == pc[p] = IF Batched(p) THEN "proc" ELSE "start"
Ready(p, k) == ~Finished(p) /\ Entered(p) /\ Call(p).k = k

\* dot_prot->DotOLE / BatchDotOLE(in, conn, dim, is_lhs) from thread t.
Dot(t, batch, dim, lhs, arg) ==
    [thr |-> t, batch |-> batch, dim |-> dim, lhs |-> lhs, arg |-> arg]

\* Shape3D {M, K, N} of x (M, K) * y (K, N); Shape4D {B, M, K, N}.
Dim(p) == IF Batched(p) THEN <<X(p).sh[1], X(p).sh[2], X(p).sh[3], Y(p).sh[3]>>
                        ELSE <<X(p).sh[1], X(p).sh[2], Y(p).sh[2]>>

Post(p, c, r) == req' = [req EXCEPT ![p][c] = @ \cup {r}]

-----------------------------------------------------------------------------
(* CheetahDot's key material, created on first use (spec.md section 5).   *)

\* Mutation: the kernel does not call LazyInitKeys.
SkipLazyInitKeys(p) == UNCHANGED <<keys, keygen>>

\* dot_prot->LazyInitKeys(field), on the main thread before any DotOLE.
LazyInitKeys(p) ==
    /\ keys' = [keys EXCEPT ![p] = "ready"]
    /\ keygen' = [keygen EXCEPT ![p] = @ + (IF keys[p] = "none" THEN 1 ELSE 0)]

\* Thread t enters DotOLE: finding no keys, it will generate them before its
\* exchange.  The check reads keys as the kernel has left them.
DotEnter(p, t) ==
    lazy' = [lazy EXCEPT ![p][t] = IF keys'[p] = "none" THEN "gen" ELSE "idle"]

\* The generation that follows the check: a second thread that checked
\* before the first one finished generates the keys again.
EngineKeyGen(p, t) ==
    /\ lazy[p][t] = "gen"
    /\ keys' = [keys EXCEPT ![p] = "ready"]
    /\ keygen' = [keygen EXCEPT ![p] = @ + 1]
    /\ lazy' = [lazy EXCEPT ![p][t] = "idle"]
    /\ UNCHANGED <<program, inp, op, pc, task, taskCall, taskOut, req, resp, out>>

Answered(p, t) == resp[p][t] # {}
Answer(p, t) == CHOOSE a \in resp[p][t] : TRUE

Return(p, v) ==
    /\ out' = [out EXCEPT ![p] = Append(@, v)]
    /\ op' = [op EXCEPT ![p] = @ + 1]
    /\ pc' = [pc EXCEPT ![p] = "start"]

\* 0 == x.numel() || 0 == y.numel(): NdArrayRef of shape
\* {x.shape()[0], y.shape()[1]}, all kernels alike.
\* Mutation: the second extent taken from y.shape()[0].
EmptyShapeRows(p) == <<X(p).sh[1], Y(p).sh[1]>>

EmptyShape(p) == <<X(p).sh[1], Y(p).sh[2]>>
Empty(p) == Numel(X(p)) = 0 \/ Numel(Y(p)) = 0

ReturnEmpty(p) ==
    /\ Empty(p)
    /\ Return(p, Zeros(EmptyShape(p)))
    /\ UNCHANGED <<program, inp, task, taskCall, taskOut, req, resp, keyVars>>

-----------------------------------------------------------------------------
(* The shape checks of BatchMatMulAV and BatchMatMulAA.                    *)

\* xs[d] of a Shape (0-based d - 1): past the last extent, the read is out
\* of the vector's bounds and yields whatever the build finds there.
ShapeAt(sh, d) == IF d <= Len(sh) THEN {sh[d]} ELSE ShapeGarbage

\* evaluate(): SPU_ENFORCE on equal ndim, xs[0] == ys[0] and xs[2] == ys[1],
\* with a and b the values read for xs[2] and ys[1].
EvalShapeOK(xs, ys, a, b) == Len(xs) = Len(ys) /\ xs[1] = ys[1] /\ a = b

BatchEvaluate(p) ==
    /\ ~Finished(p) /\ pc[p] = "start" /\ Batched(p)
    /\ \E a \in ShapeAt(X(p).sh, 3), b \in ShapeAt(Y(p).sh, 2) :
          pc' = [pc EXCEPT ![p] = IF EvalShapeOK(X(p).sh, Y(p).sh, a, b)
                                    THEN "proc" ELSE "abort"]
    /\ UNCHANGED <<program, inp, op, task, taskCall, taskOut, req, resp, out, keyVars>>

\* proc(), past its empty-operand return: SPU_ENFORCE(x.ndim() == 3 &&
\* y.ndim() == 3), then equal batch and inner extents.
ProcShapeOK(p) ==
    /\ Len(X(p).sh) = 3 /\ Len(Y(p).sh) = 3
    /\ X(p).sh[1] = Y(p).sh[1] /\ X(p).sh[3] = Y(p).sh[2]

\* A batched kernel whose proc() throws before any exchange.
ProcAbort(p) ==
    /\ Batched(p) /\ ~ProcShapeOK(p)
    /\ pc' = [pc EXCEPT ![p] = "abort"]
    /\ UNCHANGED <<program, inp, op, task, taskCall, taskOut, req, resp, out, keyVars>>

\* The checks a non-empty call passes on the way to its first exchange.
ProcChecked(p) == ~Batched(p) \/ ProcShapeOK(p)

-----------------------------------------------------------------------------
(* MatMulVVS, MatMulAV, BatchMatMulAV: one DotOLE from the main thread.    *)
(*   x * y = <x_lhs_owner * y>_0 + <x_lhs_owner * y>_1                     *)
(*   (x0 + x1) * y = <x_other * y>_0 + <x_other * y>_1 + x_owner * y        *)

\* The DotOLE call of a one-exchange kernel: the lhs party feeds x (its
\* private x, or its share), the other the private y, on link c.
DotStart(p, c, lhsParty) ==
    /\ Post(p, c, IF p = lhsParty THEN Dot("main", Batched(p), Dim(p), TRUE, X(p))
                                  ELSE Dot("main", Batched(p), Dim(p), FALSE, Y(p)))
    /\ DotEnter(p, "main")
    /\ pc' = [pc EXCEPT ![p] = "dot"]
    /\ UNCHANGED <<program, inp, op, task, taskCall, taskOut, resp, out>>

\* MatMulVVS: no LazyInitKeys, DotOLE is the keys' first use.
MatMulVVSProc(p) ==
    /\ Ready(p, "MatMulVVS")
    /\ \/ ReturnEmpty(p)
       \/ ~Empty(p) /\ UNCHANGED <<keys, keygen>> /\ DotStart(p, "dot", Call(p).owner)

\* MatMulAV: the lhs of DotOLE is the share of the party that is not the
\* owner of y; the owner adds its local x_owner * y to its answer.
MatMulAVProc(p) ==
    /\ Ready(p, "MatMulAV")
    /\ \/ ReturnEmpty(p)
       \/ ~Empty(p) /\ LazyInitKeys(p) /\ DotStart(p, "dot", 1 - Call(p).owner)

\* BatchMatMulAV: BatchDotOLE over comm->lctx(), without LazyInitKeys.
BatchMatMulAVProc(p) ==
    /\ Ready(p, "BatchMatMulAV")
    /\ \/ ReturnEmpty(p)
       \/ ~Empty(p) /\ ProcAbort(p)
       \/ ~Empty(p) /\ ProcChecked(p) /\ UNCHANGED <<keys, keygen>>
          /\ DotStart(p, "conn", 1 - Call(p).owner)

LocalMMul(p) == IF Batched(p) THEN BMMul(X(p), Y(p)) ELSE MMul(X(p), Y(p))

\* Mutation: the local product added whatever the rank.
OwnerLocalAll(p, ole) ==
    IF Call(p).k \in {"MatMulAV", "BatchMatMulAV"} THEN TAdd(ole, LocalMMul(p)) ELSE ole

\* The AV owner's ring_add_(out, local), per batch for BatchMatMulAV.
OwnerLocal(p, ole) ==
    IF Call(p).k \in {"MatMulAV", "BatchMatMulAV"} /\ p = Call(p).owner
      THEN TAdd(ole, LocalMMul(p))
      ELSE ole

\* Mutation: the answer is not taken out of the thread's inbox.
DotFinishKeeps(p) ==
    /\ pc[p] = "dot" /\ Answered(p, "main")
    /\ Return(p, OwnerLocal(p, Answer(p, "main")))
    /\ UNCHANGED <<program, inp, task, taskCall, taskOut, req, resp, keyVars>>

DotFinish(p) ==
    /\ pc[p] = "dot" /\ Answered(p, "main")
    /\ Return(p, OwnerLocal(p, Answer(p, "main")))
    /\ resp' = [resp EXCEPT ![p]["main"] = {}]
    /\ UNCHANGED <<program, inp, task, taskCall, taskOut, req, keyVars>>

-----------------------------------------------------------------------------
(* MatMulAA and BatchMatMulAA: x0 * y1 in the async task over dupx, x1 * y0 *)
(* in the main thread over lctx, then x_p * y_p + x1y0 + task.get().       *)

\* Mutation: both ranks enter the task's product as the lhs.
TaskDotBothLhs(p) == Dot("task", Batched(p), Dim(p), TRUE, X(p))

\* The task's call: rank 0 is the lhs with x, rank 1 the rhs with y.
TaskDot(p) ==
    IF p = 0 THEN Dot("task", Batched(p), Dim(p), TRUE, X(p))
             ELSE Dot("task", Batched(p), Dim(p), FALSE, Y(p))

\* The main thread's call: rank 0 is the rhs with y, rank 1 the lhs with x.
MainDot(p) ==
    IF p = 0 THEN Dot("main", Batched(p), Dim(p), FALSE, Y(p))
             ELSE Dot("main", Batched(p), Dim(p), TRUE, X(p))

\* Mutation: rank 1 with the two links the other way round.
AALinksSwapped(p) ==
    IF p = 0 THEN [task |-> "dupx", main |-> "conn"]
             ELSE [task |-> "conn", main |-> "dupx"]

\* The task runs over CheetahMulState::duplx(), the main thread over lctx.
AALinks(p) == [task |-> "dupx", main |-> "conn"]

MatMulAAProc(p) ==
    /\ ~Finished(p) /\ Entered(p)
    /\ Call(p).k \in {"MatMulAA", "BatchMatMulAA"}
    /\ \/ ReturnEmpty(p)
       \/ ~Empty(p) /\ ProcAbort(p)
       \/ /\ ~Empty(p) /\ ProcChecked(p)
          /\ LazyInitKeys(p)
          /\ taskCall' = [taskCall EXCEPT ![p] = [c |-> AALinks(p).task, r |-> TaskDot(p)]]
          /\ task' = [task EXCEPT ![p] = "run"]
          /\ Post(p, AALinks(p).main, MainDot(p))
          /\ DotEnter(p, "main")
          /\ pc' = [pc EXCEPT ![p] = "aa"]
          /\ UNCHANGED <<program, inp, op, taskOut, resp, out>>

MatMulAAFinish(p) ==
    /\ pc[p] = "aa" /\ Answered(p, "main") /\ task[p] = "done"
    /\ Return(p, TAdd(TAdd(LocalMMul(p), Answer(p, "main")), taskOut[p]))
    /\ task' = [task EXCEPT ![p] = "none"]
    /\ resp' = [resp EXCEPT ![p]["main"] = {}]
    /\ UNCHANGED <<program, inp, taskCall, taskOut, req, keyVars>>

TaskPost(p) ==
    /\ task[p] = "run"
    /\ Post(p, taskCall[p].c, taskCall[p].r)
    /\ UNCHANGED <<keys, keygen>>
    /\ DotEnter(p, "task")
    /\ task' = [task EXCEPT ![p] = "wait"]
    /\ UNCHANGED <<program, inp, op, pc, taskCall, taskOut, resp, out>>

TaskDone(p) ==
    /\ task[p] = "wait" /\ Answered(p, "task")
    /\ taskOut' = [taskOut EXCEPT ![p] = Answer(p, "task")]
    /\ resp' = [resp EXCEPT ![p]["task"] = {}]
    /\ task' = [task EXCEPT ![p] = "done"]
    /\ UNCHANGED <<program, inp, op, pc, taskCall, req, out, keyVars>>

-----------------------------------------------------------------------------
(* CheetahDot's side of an exchange.                                       *)

\* The operand shapes DotOLE expects of the lhs and the rhs for dim.
LhsShape(r) == IF r.batch THEN <<r.dim[1], r.dim[2], r.dim[3]>> ELSE <<r.dim[1], r.dim[2]>>
RhsShape(r) == IF r.batch THEN <<r.dim[1], r.dim[3], r.dim[4]>> ELSE <<r.dim[2], r.dim[3]>>

\* One party enters as the lhs and the other as the rhs of the same
\* product, each with an operand of the shape that product needs.
Compatible(r0, r1) ==
    /\ r0.batch = r1.batch /\ r0.dim = r1.dim
    /\ r0.lhs # r1.lhs
    /\ \A r \in {r0, r1} : r.arg.sh = IF r.lhs THEN LhsShape(r) ELSE RhsShape(r)

\* DotOLE / BatchDotOLE: additive shares of lhs * rhs; the lhs party's
\* share is a uniform mask.
ServeDot(c) ==
    \E r0 \in req[0][c], r1 \in req[1][c] :
        LET rq == [p \in Party |-> IF p = 0 THEN r0 ELSE r1]
            l == IF r0.lhs THEN r0 ELSE r1
            r == IF r0.lhs THEN r1 ELSE r0
            prod == PlainProduct(l.arg, r.arg)
        IN  /\ Compatible(r0, r1)
            /\ \A p \in Party : lazy[p][rq[p].thr] = "idle"
            /\ \E m \in [Idx(prod.sh) -> Masks] :
                  LET mask == [sh |-> prod.sh, v |-> m]
                  IN  resp' = [p \in Party |->
                                 [resp[p] EXCEPT ![rq[p].thr] = @ \cup
                                    {IF rq[p].lhs THEN mask ELSE TSub(prod, mask)}]]
            /\ req' = [p \in Party |-> [req[p] EXCEPT ![c] = @ \ {rq[p]}]]
            /\ UNCHANGED <<program, inp, op, pc, task, taskCall, taskOut, out, keyVars>>

-----------------------------------------------------------------------------

NoDot == Dot("task", FALSE, <<>>, FALSE, Zeros(<<0, 0>>))

Init ==
    /\ program \in Programs
    /\ inp \in {f \in [1..Len(program) ->
                         UNION {Inputs(program[i]) : i \in 1..Len(program)}] :
                  \A i \in 1..Len(program) : f[i] \in Inputs(program[i])}
    /\ op = [p \in Party |-> 1]
    /\ pc = [p \in Party |-> "start"]
    /\ task = [p \in Party |-> "none"]
    /\ taskCall = [p \in Party |-> [c |-> "dupx", r |-> NoDot]]
    /\ taskOut = [p \in Party |-> Zeros(<<0, 0>>)]
    /\ req = [p \in Party |-> [c \in Conn |-> {}]]
    /\ resp = [p \in Party |-> [t \in Thread |-> {}]]
    /\ out = [p \in Party |-> <<>>]
    /\ keys = [p \in Party |-> "none"]
    /\ keygen = [p \in Party |-> 0]
    /\ lazy = [p \in Party |-> [t \in Thread |-> "idle"]]

MainStep(p) ==
    \/ BatchEvaluate(p)
    \/ MatMulVVSProc(p) \/ MatMulAVProc(p) \/ BatchMatMulAVProc(p) \/ DotFinish(p)
    \/ MatMulAAProc(p) \/ MatMulAAFinish(p) \/ EngineKeyGen(p, "main")

TaskStep(p) == TaskPost(p) \/ TaskDone(p) \/ EngineKeyGen(p, "task")

Terminated == (\A p \in Party : Finished(p)) /\ UNCHANGED vars

Next ==
    \/ \E p \in Party : MainStep(p) \/ TaskStep(p)
    \/ \E c \in Conn : ServeDot(c)
    \/ Terminated

\* Both the main threads and the std::launch::async tasks are OS threads,
\* and the links deliver.
Fairness ==
    /\ \A p \in Party : WF_vars(MainStep(p)) /\ WF_vars(TaskStep(p))
    /\ \A c \in Conn : WF_vars(ServeDot(c))

Spec == Init /\ [][Next]_vars /\ Fairness

-----------------------------------------------------------------------------

TypeOK ==
    /\ op \in [Party -> 1..(Len(program) + 1)]
    /\ pc \in [Party -> {"start", "proc", "dot", "aa", "abort"}]
    /\ task \in [Party -> {"none", "run", "wait", "done"}]
    /\ \A p \in Party : \A t \in Thread : Cardinality(resp[p][t]) <= 1
    /\ \A p \in Party : Len(out[p]) = op[p] - 1
    /\ keys \in [Party -> {"none", "ready"}]
    /\ lazy \in [Party -> [Thread -> {"idle", "gen"}]]

\* The plaintext product and its shape: (M, N), or (B, M, N) when batched.
Product(o, v) == PlainProduct(v.x, v.y)

Both(i) == i <= Len(out[0]) /\ i <= Len(out[1])

(* Once both ranks returned from call i, each returned a tensor of the    *)
(* shape of the product x * y, (M, N) or (B, M, N), in the empty-operand  *)
(* early return as well.                                                  *)
OutputShape ==
    \A i \in 1..Len(program) : \A p \in Party :
        i <= Len(out[p]) => out[p][i].sh = Product(program[i], inp[i]).sh

(* Once both ranks returned from call i, their output shares add up,      *)
(* element by element mod 2^K, to the product of the operands: the two     *)
(* cross terms of the AA kernels, the owner's local term of the AV         *)
(* kernels and the per-batch products land on the right elements.          *)
OutputCorrect ==
    \A i \in 1..Len(program) :
        Both(i) /\ out[0][i].sh = out[1][i].sh =>
            TAdd(out[0][i], out[1][i]) = Product(program[i], inp[i])

(* Whenever both ranks have a DotOLE call open on one link, the calls are *)
(* two halves of one product: one lhs, one rhs, of the same dimensions,   *)
(* each with an operand of the shape they need.                           *)
CallsMatch ==
    \A c \in Conn : \A r0 \in req[0][c], r1 \in req[1][c] : Compatible(r0, r1)

(* The HE keys of a party are generated at most once.  LazyInitKeys is   *)
(* called on the main thread before the AA kernels start their async task, *)
(* so DotOLE's own check-then-generate never runs on two threads at once;  *)
(* a kernel that started the task first would let both threads find no    *)
(* keys and generate two key sets, one of them out of step with the peer. *)
KeysInitOnce == \A p \in Party : keygen[p] <= 1

\* The number of calls both ranks have returned from.
BothReturned == IF Len(out[0]) <= Len(out[1]) THEN Len(out[0]) ELSE Len(out[1])

\* A call of MatMulSpec completes when its second rank returns, with the sum
\* of the two ranks' shares; the program is abandoned once both ranks threw.
Abs == INSTANCE MatMulSpec WITH
           done <- BothReturned,
           res <- [i \in 1..BothReturned |-> TAdd(out[0][i], out[1][i])],
           status <- IF \A p \in Party : pc[p] = "abort" THEN "abort" ELSE "run"

(* The two ranks together implement MatMulSpec: the calls complete in     *)
(* program order, each with shares of x * y, a call on operands that do   *)
(* not conform ends the program on both ranks rather than returning, and  *)
(* every call is eventually completed or failed.  This relates the        *)
(* returns of the two ranks, the shape checks and the exchanges at once.  *)
AbsSpec == Abs!Spec

(* Every kernel call of the program returns on both ranks, up to a call   *)
(* whose shape check throws on both.                                      *)
AllCallsReturn == <>(\A p \in Party : Finished(p))

\* Operand shapes a batched product is defined for, spec.md section 4:
\* (B, M, K) and (B, K, N).
Conforming(o) ==
    Len(o.xs) = 3 /\ Len(o.ys) = 3 /\ o.xs[1] = o.ys[1] /\ o.xs[3] = o.ys[2]

(* spec.md section 7: a shape mismatch is fatal, aborts the call and is   *)
(* never silently coerced; so no rank returns a result from a batched     *)
(* call on operands that are not (B, M, K) x (B, K, N).                   *)
MalformedAborts ==
    \A i \in 1..Len(program) : \A p \in Party :
        program[i].k \in {"BatchMatMulAV", "BatchMatMulAA"} /\ ~Conforming(program[i])
            => i > Len(out[p])

=============================================================================
