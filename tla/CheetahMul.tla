----------------------------- MODULE CheetahMul ------------------------------
(***************************************************************************)
(* The multiplication kernels of arithmetic.cc (src/unnamed/part_002):     *)
(* MulAV, MulAA (its Beaver and direct paths) and SquareA, executed by the *)
(* two parties, rank 0 and rank 1, on additively shared operands.          *)
(*                                                                         *)
(* Each party has a main thread and one std::async task thread.  A         *)
(* sub-protocol call (an OLE of CheetahMul, the communicator's allReduce,  *)
(* the refill of the Beaver cache) is an exchange between the two parties *)
(* on one connection: "conn", the communicator's link, or "dupx", the      *)
(* duplicate link of CheetahMulState::duplx().  A thread posts its call,   *)
(* the exchange completes when the peer's matching call is posted on the  *)
(* same connection, and the thread then takes its answer.                  *)
(*                                                                         *)
(* The executor issues the same program of kernel calls to both parties;   *)
(* a party runs its calls one after another and may run ahead of its peer. *)
(***************************************************************************)
EXTENDS Integers, Sequences, FiniteSets, Z2k

CONSTANTS
    Programs,      \* the sequences of kernel calls the executor may issue
    Inputs(_),     \* Inputs(o): the operand records kernel call o may get
    Masks,         \* the values an OLE mask or a Beaver triple share takes
    OLEBatchSize,  \* CheetahMul::OLEBatchSize()
    SquareSplit,   \* SquareA splits its cross term above this numel (8192)
    BeaverBatch    \* fewest triples one refill of the Beaver cache makes

Party == {0, 1}
Conn == {"conn", "dupx"}
Thread == {"main", "task"}
NoConn == "none"
Kernels == {"MulAV", "MulAA", "SquareA"}

ASSUME /\ Masks \subseteq Ring /\ Masks # {}
       /\ OLEBatchSize \in Nat \ {0}
       /\ SquareSplit \in Nat /\ BeaverBatch \in Nat \ {0}
       /\ \A prog \in Programs : \A i \in DOMAIN prog :
             prog[i].k \in Kernels /\ prog[i].n \in Nat /\ prog[i].owner \in Party

VARIABLES
    program,   \* the kernel calls issued to both parties
    inp,       \* inp[i]: plaintexts x, y and rank 0's shares x0, y0 of call i
    op,        \* op[p]: index of the call party p is executing
    pc,        \* pc[p]: where party p's main thread is in that call
    task,      \* task[p]: state of party p's std::async task
    taskCall,  \* taskCall[p]: connection and call the task was launched with
    taskOut,   \* taskOut[p]: what the task returned (future::get)
    nhalf,     \* nhalf[p]: the split point of SquareA / mulDirectly
    mul1,      \* mul1[p]: the main thread's own OLE answer
    tri,       \* tri[p]: the Beaver triple shares taken from the cache
    req,       \* req[p][c]: calls party p has posted on c, not yet answered
    resp,      \* resp[p][t]: {answer} waiting for thread t of p, or {}
    busy,      \* busy[p][t]: the connection thread t of p is using
    triples,   \* all triples ever generated: triples[j][p] is p's share
    taken,     \* taken[p]: how many triples party p has consumed
    out        \* out[p]: the output shares party p returned, call by call

vars == <<program, inp, op, pc, task, taskCall, taskOut, nhalf, mul1, tri,
          req, resp, busy, triples, taken, out>>
local == <<taskCall, taskOut, nhalf, mul1, tri>>

Call(p) == program[op[p]]
Numel(p) == Call(p).n
\* This party's shares of the operands of its current call.
X(p) == ShareOf(inp[op[p]].x, inp[op[p]].x0, p)
Y(p) == ShareOf(inp[op[p]].y, inp[op[p]].y0, p)
Finished(p) == op[p] > Len(program)
Ready(p, k) == ~Finished(p) /\ pc[p] = "start" /\ Call(p).k = k

Request(t, kind, eval, arg) ==
    [thr |-> t, kind |-> kind, eval |-> eval, arg |-> arg]

\* Thread t of party p starts an exchange on connection c.
Post(p, c, r) ==
    /\ req' = [req EXCEPT ![p][c] = @ \cup {r}]
    /\ busy' = [busy EXCEPT ![p][r.thr] = c]

\* Thread t of party p takes the answer of its exchange.
Answered(p, t) == resp[p][t] # {}
Answer(p, t) == CHOOSE a \in resp[p][t] : TRUE
\* Mutation: the answer is left in place once the thread has read it.
ConsumeKeepsAnswer(p, t) ==
    /\ resp' = resp
    /\ busy' = [busy EXCEPT ![p][t] = NoConn]
Consume(p, t) ==
    /\ resp' = [resp EXCEPT ![p][t] = {}]
    /\ busy' = [busy EXCEPT ![p][t] = NoConn]

\* The kernel returns its output share and the party moves to its next call.
Return(p, v) ==
    /\ out' = [out EXCEPT ![p] = Append(@, v)]
    /\ op' = [op EXCEPT ![p] = @ + 1]
    /\ pc' = [pc EXCEPT ![p] = "start"]

-----------------------------------------------------------------------------
(* MulAV::proc: x shared, y private to its owner.                          *)
(*   (x0 + x1) * y = <x_other * y> + x_owner * y                            *)

MulAVStart(p) ==
    /\ Ready(p, "MulAV")
    /\ IF Numel(p) = 0
         THEN Return(p, <<>>) /\ UNCHANGED <<req, resp, busy>>
         ELSE /\ IF p # Call(p).owner
                   THEN Post(p, "conn", Request("main", "MulOLE", TRUE, X(p)))
                   ELSE Post(p, "conn", Request("main", "MulOLE", FALSE,
                                                inp[op[p]].y))
              /\ pc' = [pc EXCEPT ![p] = "av_ole"]
              /\ UNCHANGED <<op, out, resp>>
    /\ UNCHANGED <<program, inp, task, local, triples, taken>>

MulAVOwnerLocal(p, ole) ==
    IF p = Call(p).owner THEN VAdd(ole, VMul(X(p), inp[op[p]].y)) ELSE ole

MulAVFinish(p) ==
    /\ pc[p] = "av_ole" /\ Answered(p, "main")
    /\ Return(p, MulAVOwnerLocal(p, Answer(p, "main")))
    /\ Consume(p, "main")
    /\ UNCHANGED <<program, inp, task, local, req, triples, taken>>

-----------------------------------------------------------------------------
(* MulAA::proc and MulAA::mulWithBeaver.                                   *)
(*   Z_i = C_i + (X - A) * B_i + (Y - B) * A_i [+ (X - A) * (Y - B) on 0]   *)

UseDirect(p) == Numel(p) >= 2 * OLEBatchSize
Cached(p) == Len(triples) - taken[p]

\* CheetahMulState::TakeCachedBeaver(field, n): the next n triples.
TakeCachedBeaver(p, n) ==
    LET s == SubSeq(triples, taken[p] + 1, taken[p] + n)
    IN  [a |-> [i \in 1..n |-> s[i][p].a],
         b |-> [i \in 1..n |-> s[i][p].b],
         c |-> [i \in 1..n |-> s[i][p].c]]

\* Take the triples and open X - A and Y - B with one allReduce (vmap).
BeaverOpen(p) ==
    LET t == TakeCachedBeaver(p, Numel(p))
    IN  /\ tri' = [tri EXCEPT ![p] = t]
        /\ taken' = [taken EXCEPT ![p] = @ + Numel(p)]
        /\ Post(p, "conn", Request("main", "AllReduce", FALSE,
                                   <<VSub(X(p), t.a), VSub(Y(p), t.b)>>))
        /\ pc' = [pc EXCEPT ![p] = "beaver_open"]

MulAABeaver(p) ==
    /\ Ready(p, "MulAA") /\ ~UseDirect(p)
    /\ \/ /\ Numel(p) = 0
          /\ Return(p, <<>>)
          /\ UNCHANGED <<req, busy, tri, taken>>
       \/ /\ Numel(p) > 0 /\ Cached(p) >= Numel(p)
          /\ BeaverOpen(p)
          /\ UNCHANGED <<op, out>>
       \/ /\ Numel(p) > 0 /\ Cached(p) < Numel(p)
          /\ Post(p, "conn", Request("main", "GenBeaver", FALSE,
                                     IF Numel(p) > BeaverBatch
                                       THEN Numel(p) ELSE BeaverBatch))
          /\ pc' = [pc EXCEPT ![p] = "beaver_gen"]
          /\ UNCHANGED <<op, out, tri, taken>>
    /\ UNCHANGED <<program, inp, task, taskCall, taskOut, nhalf, mul1, resp,
                   triples>>

MulAABeaverRefilled(p) ==
    /\ pc[p] = "beaver_gen" /\ Answered(p, "main")
    /\ resp' = [resp EXCEPT ![p]["main"] = {}]
    /\ BeaverOpen(p)
    /\ UNCHANGED <<program, inp, op, task, taskCall, taskOut, nhalf, mul1,
                   triples, out>>

\* Mutation: the public term (X - A) * (Y - B) added by both ranks.
BeaverShareBothRanks(p, opened, t) ==
    LET xa == opened[1]
        yb == opened[2]
    IN  VAdd(VAdd(VAdd(VMul(xa, t.b), VMul(yb, t.a)), t.c), VMul(xa, yb))

BeaverShare(p, opened, t) ==
    LET xa == opened[1]
        yb == opened[2]
        z  == VAdd(VAdd(VMul(xa, t.b), VMul(yb, t.a)), t.c)
    IN  IF p = 0 THEN VAdd(z, VMul(xa, yb)) ELSE z

MulAABeaverFinish(p) ==
    /\ pc[p] = "beaver_open" /\ Answered(p, "main")
    /\ Return(p, BeaverShare(p, Answer(p, "main"), tri[p]))
    /\ Consume(p, "main")
    /\ UNCHANGED <<program, inp, task, local, req, triples, taken>>

-----------------------------------------------------------------------------
(* MulAA::mulDirectly: the second half on dupx in a std::launch::async     *)
(* task, the first half on conn in the main thread, joined by memcpy.      *)

DirectSplit(n) == n \div 2

MulAADirect(p) ==
    /\ Ready(p, "MulAA") /\ UseDirect(p)
    /\ LET n == Numel(p)
           h == DirectSplit(n)
       IN  /\ nhalf' = [nhalf EXCEPT ![p] = h]
           /\ taskCall' = [taskCall EXCEPT ![p] =
                 [c |-> "dupx",
                  r |-> Request("task", "MulShare", p = 0,
                                <<SubSeq(X(p), h + 1, n), SubSeq(Y(p), h + 1, n)>>)]]
           /\ task' = [task EXCEPT ![p] = "run"]
           /\ Post(p, "conn", Request("main", "MulShare", p # 0,
                                      <<SubSeq(X(p), 1, h), SubSeq(Y(p), 1, h)>>))
    /\ pc' = [pc EXCEPT ![p] = "direct"]
    /\ UNCHANGED <<program, inp, op, taskOut, mul1, tri, resp, triples, taken, out>>

MulAADirectFinish(p) ==
    /\ pc[p] = "direct" /\ Answered(p, "main") /\ task[p] = "done"
    /\ Return(p, Answer(p, "main") \o taskOut[p])
    /\ task' = [task EXCEPT ![p] = "none"]
    /\ Consume(p, "main")
    /\ UNCHANGED <<program, inp, local, req, triples, taken>>

-----------------------------------------------------------------------------
(* SquareA::proc:  (x0 + x1)^2 = x0^2 + 2 * <x0 * x1> + x1^2.              *)
(* The task is std::async with the default policy: the library may run it *)
(* on a new thread or defer it until subtask.get().                        *)

SquareHalf(n) == IF n <= SquareSplit THEN n ELSE n \div 2

\* Mutations: rank 1 with the links the other way round; both on one link.
SquareConnsSwapped(p) ==
    IF p = 0 THEN [task |-> "conn", main |-> "dupx"]
             ELSE [task |-> "dupx", main |-> "conn"]
SquareConnsShared(p) == [task |-> "conn", main |-> "conn"]
\* Mutation: the evaluator flag of the main thread's call hard-coded.
SquareMainEvalFixed(p) == TRUE

\* The task's MulOLE takes mul_prot's own link, the main thread's dupx.
SquareConns(p) == [task |-> "conn", main |-> "dupx"]

\* Evaluator of the main thread's MulOLE on the second half.
SquareMainEval(p) == p = 1

SquareAStart(p) ==
    /\ Ready(p, "SquareA")
    /\ IF Numel(p) = 0
         THEN /\ Return(p, <<>>)
              /\ UNCHANGED <<task, taskCall, nhalf, req, busy>>
         ELSE LET n == Numel(p)
                  h == SquareHalf(n)
              IN  /\ nhalf' = [nhalf EXCEPT ![p] = h]
                  /\ taskCall' = [taskCall EXCEPT ![p] =
                        [c |-> SquareConns(p).task,
                         r |-> Request("task", "MulOLE", p = 0, SubSeq(X(p), 1, h))]]
                  /\ \E policy \in {"run", "deferred"} :
                        task' = [task EXCEPT ![p] = policy]
                  /\ IF h < n
                       THEN /\ Post(p, SquareConns(p).main,
                                    Request("main", "MulOLE", SquareMainEval(p),
                                            SubSeq(X(p), h + 1, n)))
                            /\ pc' = [pc EXCEPT ![p] = "sq_mul1"]
                       ELSE /\ pc' = [pc EXCEPT ![p] = "sq_get"]
                            /\ UNCHANGED <<req, busy>>
                  /\ UNCHANGED <<op, out>>
    /\ UNCHANGED <<program, inp, taskOut, mul1, tri, resp, triples, taken>>

SquareAMul1(p) ==
    /\ pc[p] = "sq_mul1" /\ Answered(p, "main")
    /\ mul1' = [mul1 EXCEPT ![p] = Answer(p, "main")]
    /\ Consume(p, "main")
    /\ pc' = [pc EXCEPT ![p] = "sq_get"]
    /\ UNCHANGED <<program, inp, op, task, taskCall, taskOut, nhalf, tri, req,
                   triples, taken, out>>

\* subtask.get() on a deferred task runs it now, on the main thread.
SquareARunDeferred(p) ==
    /\ pc[p] = "sq_get" /\ task[p] = "deferred"
    /\ task' = [task EXCEPT ![p] = "run"]
    /\ UNCHANGED <<program, inp, op, pc, local, req, resp, busy, triples,
                   taken, out>>

\* Mutation: the two halves copied in the wrong order.
SquareCrossSwapped(p) == IF nhalf[p] < Numel(p) THEN mul1[p] \o taskOut[p]
                                                ELSE taskOut[p]

\* The memcpy of mul0 then mul1 into x0x1.
SquareCross(p) == IF nhalf[p] < Numel(p) THEN taskOut[p] \o mul1[p]
                                         ELSE taskOut[p]

SquareShare(p, x0x1) == VAdd(VAdd(x0x1, x0x1), VMul(X(p), X(p)))

SquareAFinish(p) ==
    /\ pc[p] = "sq_get" /\ task[p] = "done"
    /\ Return(p, SquareShare(p, SquareCross(p)))
    /\ task' = [task EXCEPT ![p] = "none"]
    /\ UNCHANGED <<program, inp, local, req, resp, busy, triples, taken>>

-----------------------------------------------------------------------------
(* The std::async task thread: one exchange, then its result is ready.     *)

TaskPost(p) ==
    /\ task[p] = "run"
    /\ Post(p, taskCall[p].c, taskCall[p].r)
    /\ task' = [task EXCEPT ![p] = "wait"]
    /\ UNCHANGED <<program, inp, op, pc, local, resp, triples, taken, out>>

TaskDone(p) ==
    /\ task[p] = "wait" /\ Answered(p, "task")
    /\ taskOut' = [taskOut EXCEPT ![p] = Answer(p, "task")]
    /\ task' = [task EXCEPT ![p] = "done"]
    /\ Consume(p, "task")
    /\ UNCHANGED <<program, inp, op, pc, taskCall, nhalf, mul1, tri, req,
                   triples, taken, out>>

-----------------------------------------------------------------------------
(* The collaborators' side of an exchange.  A connection pairs one call of *)
(* each party; an exchange that does not match never completes.            *)

Size(r) == CASE r.kind = "MulOLE"    -> Len(r.arg)
             [] r.kind = "GenBeaver" -> r.arg
             [] OTHER                -> Len(r.arg[1])

\* Both parties enter the same sub-protocol on inputs of one length, and the
\* OLE ones with one party the evaluator and the other not.
Compatible(r0, r1) ==
    /\ r0.kind = r1.kind
    /\ r0.kind \in {"MulOLE", "MulShare"} => r0.eval # r1.eval
    /\ Size(r0) = Size(r1)

Deliver(c, rq, ans) ==
    /\ req' = [p \in Party |-> [req[p] EXCEPT ![c] = @ \ {rq[p]}]]
    /\ resp' = [p \in Party |-> [resp[p] EXCEPT ![rq[p].thr] = @ \cup {ans[p]}]]

\* CheetahMul::MulOLE(a, eval) and MulShare(x, y, eval): additive shares of
\* a_eval * a_other, resp. (x0 + x1) * (y0 + y1); the evaluator's share is a
\* uniform mask m.
ServeMul(c) ==
    \E r0 \in req[0][c], r1 \in req[1][c] :
        LET rq == [p \in Party |-> IF p = 0 THEN r0 ELSE r1]
            prod == IF r0.kind = "MulOLE"
                      THEN VMul(r0.arg, r1.arg)
                      ELSE VMul(VAdd(r0.arg[1], r1.arg[1]),
                                VAdd(r0.arg[2], r1.arg[2]))
        IN  /\ r0.kind \in {"MulOLE", "MulShare"}
            /\ Compatible(r0, r1)
            /\ \E m \in [1..Size(r0) -> Masks] :
                  Deliver(c, rq, [p \in Party |->
                                    IF rq[p].eval THEN m ELSE VSub(prod, m)])
            /\ UNCHANGED <<program, inp, op, pc, task, local, busy, triples,
                           taken, out>>

\* Communicator::allReduce(ADD) of the pair (X - A, Y - B).
ServeAllReduce(c) ==
    \E r0 \in req[0][c], r1 \in req[1][c] :
        LET rq == [p \in Party |-> IF p = 0 THEN r0 ELSE r1]
            sum == <<VAdd(r0.arg[1], r1.arg[1]), VAdd(r0.arg[2], r1.arg[2])>>
        IN  /\ r0.kind = "AllReduce"
            /\ Compatible(r0, r1)
            /\ Deliver(c, rq, [p \in Party |-> sum])
            /\ UNCHANGED <<program, inp, op, pc, task, local, busy, triples,
                           taken, out>>

\* The refill of CheetahMulState's Beaver cache: g fresh triples, each
\* party's a, b uniform and c0 + c1 = (a0 + a1) * (b0 + b1).
NewTriples(g, a0, a1, b0, b1, c0) ==
    [i \in 1..g |->
       [p \in Party |->
          [a |-> IF p = 0 THEN a0[i] ELSE a1[i],
           b |-> IF p = 0 THEN b0[i] ELSE b1[i],
           c |-> IF p = 0 THEN c0[i]
                 ELSE RSub(RMul(RAdd(a0[i], a1[i]), RAdd(b0[i], b1[i])), c0[i])]]]

ServeGenBeaver(c) ==
    \E r0 \in req[0][c], r1 \in req[1][c] :
        LET rq == [p \in Party |-> IF p = 0 THEN r0 ELSE r1]
            g == r0.arg
        IN  /\ r0.kind = "GenBeaver"
            /\ Compatible(r0, r1)
            /\ \E a0, a1, b0, b1, c0 \in [1..g -> Masks] :
                  triples' = triples \o NewTriples(g, a0, a1, b0, b1, c0)
            /\ Deliver(c, rq, [p \in Party |-> <<>>])
            /\ UNCHANGED <<program, inp, op, pc, task, local, busy, taken, out>>

-----------------------------------------------------------------------------

NoCall == Request("task", "none", FALSE, <<>>)

Init ==
    /\ program \in Programs
    /\ inp \in {f \in [1..Len(program) ->
                         UNION {Inputs(program[i]) : i \in 1..Len(program)}] :
                  \A i \in 1..Len(program) : f[i] \in Inputs(program[i])}
    /\ op = [p \in Party |-> 1]
    /\ pc = [p \in Party |-> "start"]
    /\ task = [p \in Party |-> "none"]
    /\ taskCall = [p \in Party |-> [c |-> NoConn, r |-> NoCall]]
    /\ taskOut = [p \in Party |-> <<>>]
    /\ nhalf = [p \in Party |-> 0]
    /\ mul1 = [p \in Party |-> <<>>]
    /\ tri = [p \in Party |-> [a |-> <<>>, b |-> <<>>, c |-> <<>>]]
    /\ req = [p \in Party |-> [c \in Conn |-> {}]]
    /\ resp = [p \in Party |-> [t \in Thread |-> {}]]
    /\ busy = [p \in Party |-> [t \in Thread |-> NoConn]]
    /\ triples = <<>>
    /\ taken = [p \in Party |-> 0]
    /\ out = [p \in Party |-> <<>>]

MainStep(p) ==
    \/ MulAVStart(p) \/ MulAVFinish(p)
    \/ MulAABeaver(p) \/ MulAABeaverRefilled(p) \/ MulAABeaverFinish(p)
    \/ MulAADirect(p) \/ MulAADirectFinish(p)
    \/ SquareAStart(p) \/ SquareAMul1(p) \/ SquareARunDeferred(p)
    \/ SquareAFinish(p)

TaskStep(p) == TaskPost(p) \/ TaskDone(p)

Serve(c) == ServeMul(c) \/ ServeAllReduce(c) \/ ServeGenBeaver(c)

\* Both parties returned from every call: the program is over.
Terminated == (\A p \in Party : Finished(p)) /\ UNCHANGED vars

Next ==
    \/ \E p \in Party : MainStep(p) \/ TaskStep(p)
    \/ \E c \in Conn : Serve(c)
    \/ Terminated

\* Threads are OS threads (std::launch::async, or the main thread itself
\* for a deferred task) and the links deliver: none of them stops forever.
Fairness ==
    /\ \A p \in Party : WF_vars(MainStep(p)) /\ WF_vars(TaskStep(p))
    /\ \A c \in Conn : WF_vars(Serve(c))

Spec == Init /\ [][Next]_vars /\ Fairness

-----------------------------------------------------------------------------

TypeOK ==
    /\ op \in [Party -> 1..(Len(program) + 1)]
    /\ task \in [Party -> {"none", "run", "deferred", "wait", "done"}]
    /\ busy \in [Party -> [Thread -> Conn \cup {NoConn}]]
    /\ \A p \in Party : \A c \in Conn : \A r \in req[p][c] :
          r.thr \in Thread /\ r.kind \in {"MulOLE", "MulShare", "AllReduce", "GenBeaver"}
    /\ \A p \in Party : \A t \in Thread : Cardinality(resp[p][t]) <= 1
    /\ taken \in [Party -> 0..Len(triples)]
    /\ out \in [Party -> Seq(Seq(Ring))]

\* The plaintext a kernel call must produce.
Expected(o, v) == IF o.k = "SquareA" THEN VMul(v.x, v.x) ELSE VMul(v.x, v.y)

(* Once both ranks have returned from call i, their output shares add up  *)
(* (mod 2^K) to the plaintext product of the call's operands: the sharing *)
(* algebra of MulAV, mulWithBeaver, mulDirectly and SquareA, with their    *)
(* slicing, concatenation and rank-dependent terms.                        *)
OutputCorrect ==
    \A i \in 1..Len(program) :
        i <= Len(out[0]) /\ i <= Len(out[1]) =>
            Reconstruct(out[0][i], out[1][i]) = Expected(program[i], inp[i])

(* Whenever both ranks have a call waiting on the same connection, the two *)
(* calls are the same sub-protocol on inputs of one length with           *)
(* complementary evaluator roles: the kernels' rank-dependent choices of  *)
(* connection, slice and role line up.                                    *)
CallsMatch ==
    \A c \in Conn : \A r0 \in req[0][c], r1 \in req[1][c] : Compatible(r0, r1)

(* The main thread and the task of a party never use the same connection  *)
(* at once (the duplicate link exists so that they need not).             *)
ConnExclusive ==
    \A p \in Party : busy[p]["main"] = NoConn \/ busy[p]["main"] # busy[p]["task"]

(* Every kernel call of the program eventually returns on both ranks,     *)
(* whichever launch policy std::async picks and however the ranks and    *)
(* their threads interleave.                                               *)
AllCallsReturn == <>(\A p \in Party : Finished(p))

=============================================================================
