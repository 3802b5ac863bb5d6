--------------------------- MODULE CheetahNonlinear ---------------------------
(***************************************************************************)
(* The kernels of arithmetic.cc (src/unnamed/part_002) built on the        *)
(* oblivious-transfer protocols: TruncA, MsbA2B, EqualAP, EqualAA, MulA1B  *)
(* and MulA1BV, executed by rank 0 and rank 1.  Each kernel prepares its  *)
(* input locally, runs one sub-protocol with the peer over the OT link     *)
(* (DispatchUnaryFunc / DispatchBinaryFunc over BasicOTProtocols) and      *)
(* combines the answer locally.  The sub-protocols are their contracts:    *)
(*   CompareProtocol::Compute(inp, true)  XOR shares of 1{inp_0 > inp_1}   *)
(*   EqualProtocol::Compute(inp, nbits)   XOR shares of                     *)
(*                                        1{inp_0 = inp_1 mod 2^nbits}     *)
(*   Multiplexer(a, b)                    additive shares of a * b         *)
(*   PrivateMulxSend / PrivateMulxRecv    additive shares of a * b_owner   *)
(*   TruncateProtocol::Compute            additive shares of x >> s, off   *)
(*                                        by at most one (heuristic mode)  *)
(* Each party reads SPU_BB_SET_IEQUAL_BITS from its own process            *)
(* environment.                                                            *)
(***************************************************************************)
EXTENDS Integers, Sequences, FiniteSets, Bitwise, Z2k, MsbA2BLocal

CONSTANTS
    Programs,    \* the sequences of kernel calls the executor may issue
    Inputs(_),   \* Inputs(o): the operand records kernel call o may get
    Envs,        \* the pairs of process environments the ranks may run in
    Masks        \* the values the mask of an arithmetic share takes

Party == {0, 1}
Kernels == {"TruncA", "MsbA2B", "EqualAP", "EqualAA", "MulA1B", "MulA1BV"}

(* An environment: SPU_BB_SET_IEQUAL_BITS unset, or set to a string that  *)
(* strtol parses completely to val, or one it does not (trailing text).   *)
EnvValue == [set : BOOLEAN, parses : BOOLEAN, val : Int]

ASSUME /\ Masks \subseteq Ring /\ Masks # {}
       /\ Envs \subseteq [Party -> EnvValue]
       /\ \A prog \in Programs : \A i \in DOMAIN prog : prog[i].k \in Kernels

VARIABLES
    program,   \* the kernel calls issued to both parties
    inp,       \* inp[i]: the operands of call i and rank 0's shares of them
    env,       \* env[p]: the process environment of rank p
    op,        \* op[p]: index of the call party p is executing
    pc,        \* pc[p]: "start" or waiting on the sub-protocol
    nbits,     \* nbits[p]: the bit count the current call works on
    req,       \* req[p]: {the sub-protocol call p has posted}, or {}
    resp,      \* resp[p]: {its answer}, or {}
    out        \* out[p]: the output shares party p returned, call by call

vars == <<program, inp, env, op, pc, nbits, req, resp, out>>

Call(p) == program[op[p]]
Numel(p) == Call(p).n
In(p) == inp[op[p]]
X(p) == ShareOf(In(p).x, In(p).x0, p)
Y(p) == ShareOf(In(p).y, In(p).y0, p)
Finished(p) == op[p] > Len(program)
Ready(p, k) == ~Finished(p) /\ pc[p] = "start" /\ Call(p).k = k

Request(kind, role, param, arg) ==
    [kind |-> kind, role |-> role, param |-> param, arg |-> arg]

Post(p, r) ==
    /\ req' = [req EXCEPT ![p] = {r}]
    /\ pc' = [pc EXCEPT ![p] = "wait"]

Answer(p) == CHOOSE a \in resp[p] : TRUE

Return(p, v) ==
    /\ out' = [out EXCEPT ![p] = Append(@, v)]
    /\ op' = [op EXCEPT ![p] = @ + 1]
    /\ pc' = [pc EXCEPT ![p] = "start"]

\* A kernel with numel == 0 returns an empty array of its output type.
ReturnEmpty(p) ==
    /\ Numel(p) = 0
    /\ Return(p, <<>>)
    /\ UNCHANGED <<program, inp, env, req, resp>>

\* The kernel takes the answer of its sub-protocol and returns.
Finish(p, v) ==
    /\ Return(p, v)
    /\ resp' = [resp EXCEPT ![p] = {}]
    /\ UNCHANGED <<program, inp, env, nbits, req>>

Waiting(p, k) == ~Finished(p) /\ pc[p] = "wait" /\ Call(p).k = k /\ resp[p] # {}

-----------------------------------------------------------------------------
(* TruncA::proc: heuristic truncation of a signed fixed-point share.      *)

TruncAStart(p) ==
    /\ Ready(p, "TruncA")
    /\ \/ ReturnEmpty(p) /\ UNCHANGED nbits
       \/ /\ Numel(p) > 0
          /\ Post(p, Request("Truncate", "any", Call(p).bits, X(p)))
          /\ UNCHANGED <<program, inp, env, op, nbits, resp, out>>

TruncAFinish(p) == Waiting(p, "TruncA") /\ Finish(p, Answer(p))

-----------------------------------------------------------------------------
(* MsbA2B::proc.  msb(x0 + x1) = msb(x0) ^ msb(x1) ^ carry, the carry     *)
(* 1{x0 & mask > (mask - x1) & mask} from a Millionaire comparison; the   *)
(* local arithmetic is in MsbA2BLocal.                                     *)

MsbA2BStart(p) ==
    /\ Ready(p, "MsbA2B")
    /\ MsbBits(Call(p).nbits) <= K
    /\ nbits' = [nbits EXCEPT ![p] = MsbBits(Call(p).nbits)]
    /\ \/ ReturnEmpty(p)
       \/ /\ Numel(p) > 0
          /\ LET shft == MsbBits(Call(p).nbits) - 1
             IN  Post(p, Request("Compare", "any", TRUE,
                                 MsbAdjust(p, X(p), MsbMask(shft))))
          /\ UNCHANGED <<program, inp, env, op, resp, out>>

\* Mutant: the carry and the shifted share are added, not XORed.
MsbCombineAdd(p, carry) ==
    [i \in DOMAIN carry |-> carry[i] + shiftR(X(p)[i], nbits[p] - 1)]

\* The carry bit XORed with each share's bit shft.
MsbCombine(p, carry) ==
    [i \in DOMAIN carry |-> CarryXor(carry[i], X(p)[i], nbits[p] - 1)]

MsbA2BFinish(p) == Waiting(p, "MsbA2B") /\ Finish(p, MsbCombine(p, Answer(p)))

-----------------------------------------------------------------------------
(* EqualAP::proc and EqualAA::proc.                                        *)

\* Mutation: the upper clamp one bit short of the element width.
IEqualBitsShort(e) ==
    IF e.set /\ e.parses
      THEN IF e.val < 0 THEN 0 ELSE IF e.val > K - 1 THEN K - 1 ELSE e.val
      ELSE 0

\* iequal_bits: strtol of the variable when it parses to its end, clamped
\* to [0, x.elsize() * 8]; 0 (the whole ring) when unset or not a number.
IEqualBits(e) ==
    IF e.set /\ e.parses
      THEN IF e.val < 0 THEN 0 ELSE IF e.val > K THEN K ELSE e.val
      ELSE 0

\* EqualAA's adjusted input: x0 - y0 on rank 0, y1 - x1 on rank 1.
EqualAdjust(p, x, y) == IF p = 0 THEN VSub(x, y) ELSE VSub(y, x)

\* EqualAA::proc on this party's operands x, y with nbits_ = nb.
EqualAAProc(p, nb, x, y) ==
    /\ MsbBits(nb) <= K
    /\ nbits' = [nbits EXCEPT ![p] = MsbBits(nb)]
    /\ \/ ReturnEmpty(p)
       \/ /\ Numel(p) > 0
          /\ Post(p, Request("Equal", "any", MsbBits(nb), EqualAdjust(p, x, y)))
          /\ UNCHANGED <<program, inp, env, op, resp, out>>

\* The public y is fed as zero on rank 0, so that x0 - 0 = y - x1 iff x = y.
EqualAPRhs(p) == IF p = 0 THEN [i \in DOMAIN In(p).y |-> 0] ELSE In(p).y

EqualAPStart(p) ==
    /\ Ready(p, "EqualAP")
    /\ EqualAAProc(p, IEqualBits(env[p]), X(p), EqualAPRhs(p))

EqualAAStart(p) ==
    /\ Ready(p, "EqualAA")
    /\ EqualAAProc(p, Call(p).nbits, X(p), Y(p))

EqualFinish(p) ==
    /\ Waiting(p, "EqualAP") \/ Waiting(p, "EqualAA")
    /\ Finish(p, Answer(p))

-----------------------------------------------------------------------------
(* MulA1B::proc (b boolean shared) and MulA1BV::proc (b private).         *)

BShareOf(v, v0, p) == IF p = 0 THEN v0 ELSE [i \in DOMAIN v |-> v[i] ^^ v0[i]]

MulA1BStart(p) ==
    /\ Ready(p, "MulA1B")
    /\ \/ ReturnEmpty(p) /\ UNCHANGED nbits
       \/ /\ Numel(p) > 0
          /\ Post(p, Request("Multiplexer", "any", 0,
                             <<X(p), BShareOf(In(p).b, In(p).b0, p)>>))
          /\ UNCHANGED <<program, inp, env, op, nbits, resp, out>>

\* Mutation: the owner looked up on the wrong operand, so no rank is the
\* owner and both send.
MulA1BVRequestAllSend(p) == Request("PrivateMulx", "send", 0, <<X(p), <<>>>>)

\* The non-owner sends its share; the owner receives with its private bit.
MulA1BVRequest(p) ==
    IF p # Call(p).owner
      THEN Request("PrivateMulx", "send", 0, <<X(p), <<>>>>)
      ELSE Request("PrivateMulx", "recv", 0, <<X(p), In(p).b>>)

MulA1BVStart(p) ==
    /\ Ready(p, "MulA1BV")
    /\ \/ ReturnEmpty(p) /\ UNCHANGED nbits
       \/ /\ Numel(p) > 0
          /\ Post(p, MulA1BVRequest(p))
          /\ UNCHANGED <<program, inp, env, op, nbits, resp, out>>

MulA1BFinish(p) ==
    /\ Waiting(p, "MulA1B") \/ Waiting(p, "MulA1BV")
    /\ Finish(p, Answer(p))

-----------------------------------------------------------------------------
(* The sub-protocols, run by both ranks over the OT link.                  *)

Size(r) == IF r.kind \in {"Multiplexer", "PrivateMulx"} THEN Len(r.arg[1])
                                                      ELSE Len(r.arg)

\* Both ranks run the same protocol with the same parameters on inputs of
\* one length; in PrivateMulx one sends and the other receives.
Compatible(r0, r1) ==
    /\ r0.kind = r1.kind
    /\ r0.param = r1.param
    /\ Size(r0) = Size(r1)
    /\ r0.kind = "PrivateMulx" => {r0.role, r1.role} = {"send", "recv"}

Bit(b) == IF b THEN 1 ELSE 0

\* Arithmetic shift right of the K-bit two's complement value v, in Z_2^K.
ASR(v, s) == IF v < 2^(K - 1) THEN v \div 2^s
             ELSE (RingSize - ((RingSize - v - 1) \div 2^s) - 1)

\* The plaintext each protocol answers, element by element.
Result(r0, r1, i) ==
    CASE r0.kind = "Compare" -> Bit(r0.arg[i] > r1.arg[i])
      [] r0.kind = "Equal" -> Bit(RSub(r0.arg[i], r1.arg[i]) % 2^r0.param = 0)
      [] r0.kind = "Multiplexer" ->
            RMul(RAdd(r0.arg[1][i], r1.arg[1][i]), r0.arg[2][i] ^^ r1.arg[2][i])
      [] r0.kind = "PrivateMulx" ->
            LET b == IF r0.role = "recv" THEN r0.arg[2] ELSE r1.arg[2]
            IN  RMul(RAdd(r0.arg[1][i], r1.arg[1][i]), b[i])
      [] OTHER -> ASR(RAdd(r0.arg[i], r1.arg[i]), r0.param)

\* Boolean results are XOR-shared with a random bit, arithmetic ones
\* additively with a mask; the heuristic truncation may be off by one.
Serve ==
    \E r0 \in req[0], r1 \in req[1] :
        LET n == Size(r0)
            boolean == r0.kind \in {"Compare", "Equal"}
        IN  /\ Compatible(r0, r1)
            /\ \E m \in [1..n -> IF boolean THEN {0, 1} ELSE Masks],
                  e \in [1..n -> IF r0.kind = "Truncate" THEN {-1, 0, 1} ELSE {0}] :
                 LET v == [i \in 1..n |-> (Result(r0, r1, i) + e[i]) % RingSize]
                     other == IF boolean THEN [i \in 1..n |-> v[i] ^^ m[i]]
                                         ELSE VSub(v, m)
                 IN  resp' = [p \in Party |-> {IF p = 0 THEN m ELSE other}]
            /\ req' = [p \in Party |-> {}]
            /\ UNCHANGED <<program, inp, env, op, pc, nbits, out>>

-----------------------------------------------------------------------------

Init ==
    /\ program \in Programs
    /\ inp \in {f \in [1..Len(program) ->
                         UNION {Inputs(program[i]) : i \in 1..Len(program)}] :
                  \A i \in 1..Len(program) : f[i] \in Inputs(program[i])}
    /\ env \in Envs
    /\ op = [p \in Party |-> 1]
    /\ pc = [p \in Party |-> "start"]
    /\ nbits = [p \in Party |-> 0]
    /\ req = [p \in Party |-> {}]
    /\ resp = [p \in Party |-> {}]
    /\ out = [p \in Party |-> <<>>]

Step(p) ==
    \/ TruncAStart(p) \/ TruncAFinish(p)
    \/ MsbA2BStart(p) \/ MsbA2BFinish(p)
    \/ EqualAPStart(p) \/ EqualAAStart(p) \/ EqualFinish(p)
    \/ MulA1BStart(p) \/ MulA1BVStart(p) \/ MulA1BFinish(p)

Terminated == (\A p \in Party : Finished(p)) /\ UNCHANGED vars

Next == (\E p \in Party : Step(p)) \/ Serve \/ Terminated

Spec == Init /\ [][Next]_vars

-----------------------------------------------------------------------------

TypeOK ==
    /\ op \in [Party -> 1..(Len(program) + 1)]
    /\ pc \in [Party -> {"start", "wait"}]
    /\ nbits \in [Party -> 0..K]
    /\ \A p \in Party : Cardinality(req[p]) <= 1 /\ Cardinality(resp[p]) <= 1
    /\ out \in [Party -> Seq(Seq(Ring))]

Both(i) == i <= Len(out[0]) /\ i <= Len(out[1])
XorOut(i, j) == out[0][i][j] ^^ out[1][i][j]

(* MsbA2B: once both ranks returned, the low bit of the XOR of their      *)
(* output shares is bit nbits - 1 of x = x0 + x1 mod 2^K, for every share *)
(* split and every nbits_ of the kernel: the carry comparison on the      *)
(* masked, rank-adjusted inputs and the shift of each share agree.        *)
MsbCorrect ==
    \A i \in 1..Len(program) :
        program[i].k = "MsbA2B" /\ Both(i) =>
            \A j \in 1..program[i].n :
                XorOut(i, j) % 2 = shiftR(inp[i].x[j], MsbBits(program[i].nbits) - 1) % 2

(* MsbA2B's output is a boolean share of one bit: the XOR of the two      *)
(* ranks' shares is 0 or 1 (spec: b = b0 XOR b1 for a 1-bit value).       *)
MsbOneBit ==
    \A i \in 1..Len(program) :
        program[i].k = "MsbA2B" /\ Both(i) =>
            \A j \in 1..program[i].n : XorOut(i, j) \in {0, 1}

\* The values SPU_BB_SET_IEQUAL_BITS vouches for (spec.md section 4.2): all
\* of them when it is unset or not a number, those below 2^val otherwise.
Promised(e, v) == ~(e.set /\ e.parses) \/ e.val >= K \/ (e.val >= 0 /\ v < 2^e.val)

\* v is in the range call o may narrow its comparison to: the one the
\* environment of either rank vouches for (EqualAP), or nbits_ (EqualAA).
InRange(o, v) ==
    IF o.k = "EqualAP" THEN \A p \in Party : Promised(env[p], v)
                       ELSE v < 2^MsbBits(o.nbits)

(* EqualAP / EqualAA: once both ranks returned, the XOR of their output   *)
(* shares is 1{x = y} whenever x and y lie in the range the caller        *)
(* vouched for: the rank-dependent difference, rank 0's zero for the      *)
(* public y, and the parse and clamp of SPU_BB_SET_IEQUAL_BITS into the   *)
(* bit count actually compared keep the answer exact, as the narrowing is *)
(* to be a performance hint only.                                         *)
EqualCorrect ==
    \A i \in 1..Len(program) :
        program[i].k \in {"EqualAP", "EqualAA"} /\ Both(i) =>
            \A j \in 1..program[i].n :
                InRange(program[i], inp[i].x[j]) /\ InRange(program[i], inp[i].y[j]) =>
                    XorOut(i, j) = Bit(inp[i].x[j] = inp[i].y[j])

(* Whenever both ranks wait in a sub-protocol, they run the same protocol *)
(* with the same parameters (bit count, shift) on inputs of one length,   *)
(* and in PrivateMulx exactly one of them is the sender.                  *)
CallsMatch == \A r0 \in req[0], r1 \in req[1] : Compatible(r0, r1)

=============================================================================
