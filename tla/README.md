# TLA+ models of the Cheetah arithmetic kernels

This directory models the two-party kernels of OpenBumbleBee's Cheetah backend,
`src/unnamed/part_002` (arithmetic.cc), and checks them with TLC.

## The system

Two processes, rank 0 and rank 1, run the same sequence of kernel calls. Each
holds one share of every secret value:

- an additive share in Z_{2^k}: `x = x0 + x1 mod 2^k`;
- or an XOR share of a bit;
- or, for a private value, either the whole value (the owner) or nothing.

A kernel call prepares its input locally, runs one or two sub-protocols with the
peer, combines the answers locally and returns a share.

| Part | Code | Sub-protocol |
|---|---|---|
| Share × share multiply | `MulAA::proc`, `mulWithBeaver`, `mulDirectly` (252–375) | Beaver triples plus one `allReduce`, or two `MulShare` OLEs run concurrently |
| Share × private | `MulAV::proc` (219–250) | one `MulOLE` |
| Square | `SquareA::proc` (265–302) | two `MulOLE` halves, one in a `std::async` task |
| Truncation | `TruncA::proc` (35–55) | `TruncateProtocol` (heuristic) |
| MSB | `MsbA2B::proc` (62–105) | `CompareProtocol` |
| Equality | `EqualAP`, `EqualAA` (107–164) | `EqualProtocol` |
| Share × bit | `MulA1B`, `MulA1BV` (166–217) | OT `Multiplexer`, `PrivateMulxSend`/`Recv` |
| Matrix products | `MatMulVVS`, `MatMulAA`, `MatMulAV` (377–462) | `DotOLE`; `MatMulAA` runs two at once |
| Batched products | `BatchMatMulAV`, `BatchMatMulAA` (464–599) | `BatchDotOLE`; `BatchMatMulAA` runs two at once |

The collaborators are not under `src/`: the OT protocols, the OLE engines
(`CheetahMul`, `CheetahDot`), the `Communicator` and the Beaver cache. They are
modelled from their contracts in spec.md §4 and §6, and their map entries are
marked `spec_modelled`.

- **Sub-protocol calls.** Each call is an exchange on a link. It completes only
  when both ranks have an open call on that link, and then both ranks receive
  masked shares of the result.
- **Links.** Three link labels are modelled:
  - `conn`: the communicator's `lctx`, or the OLE engine's own link;
  - `dupx`: `CheetahMulState::duplx()`;
  - `dot`: `CheetahDot`'s own link, used by the `DotOLE` overload that takes
    no connection.
- **Threads.** The kernels that run two cross terms at once start a
  `std::async` task. That task is a second thread of the party.

`compare_prot.h` declares `CompareProtocol`, the comparison `MsbA2B` calls.
Its header documents the algorithm (lines 26–38), the roles (48–49, 91), the
batch layout (57–65) and the traversals (75–89). `CompareProtocol` models that
algorithm; the method bodies (`compare_prot.cc`) are not in `src/`.

`part_000` and `part_001` only declare functions (the gelu/silu/exp intrinsics
and the fixed-point HAL API). Neither has code to model (see PROJECT.json,
components).

## Modules

- **`Z2k`**: the ring Z_{2^K}, element-wise `ring_add`/`ring_sub`/`ring_mul`,
  and additive sharing.
- **`CheetahMul`**: `MulAV`, `MulAA` (threshold, Beaver path, direct path) and
  `SquareA`.
  - Per-party state:
    - `op`: the index of the current call;
    - `pc`: the main thread's position;
    - `task`, `taskCall`, `taskOut`: the async task and its result;
    - `nhalf`, `mul1`, `tri`: the kernel's locals.
  - Links: `req[p][c]` holds the calls open on link c, `resp[p][t]` the unread
    answers of thread t, and `busy[p][t]` the link thread t is blocked on.
  - Triple cache: `triples` is the cache both ranks refill together; `taken[p]`
    counts the triples rank p has consumed.
  - Every kernel is split into the actions between its blocking calls, for
    example `SquareAStart → SquareAMul1 → (SquareARunDeferred) → SquareAFinish`.
  - The task thread has `TaskPost` and `TaskDone`.
  - The collaborators are `ServeMul`, `ServeAllReduce` and `ServeGenBeaver`.
  - `SquareA`'s default launch policy is a nondeterministic choice between
    `"run"` (a new thread) and `"deferred"` (the task runs in `get()` on the
    main thread).
- **`CheetahNonlinear`**: the OT-based kernels, each one call of a
  sub-protocol.
  - `env[p]` is the environment of process p. An environment says whether
    `SPU_BB_SET_IEQUAL_BITS` is unset, set to text that `strtol` parses fully,
    or set to text it does not.
  - `IEqualBits` is the parse and clamp of lines 111–119, for values below
    2^31. There, the narrowing of strtol's `long` to `int` in
    `std::max<int>` is the identity; see the hazard at line 117.
  - `Serve` answers each protocol by its contract:
    - Compare: `1{a > b}`;
    - Equal: `1{a = b mod 2^nbits}`;
    - Multiplexer and PrivateMulx: products;
    - Truncate: an arithmetic shift, off by −1, 0 or +1 (the heuristic mode).
  - Boolean answers are XOR-shared and arithmetic answers additively shared.
- **`CheetahMatMul`**: the five matrix kernels.
  - A tensor is a record of its shape and elements.
  - `MMul` and `BMMul` are the kernels' local `ring_mmul` and the per-batch
    slicing loop.
  - `PlainProduct` is the product by definition. The `DotOLE` contract and the
    properties use it, so a bug in the local loop cannot hide in the reference.
  - The CheetahDot key state, per party:
    - `keys[p]`: "none" or "ready";
    - `keygen[p]`: how many times the keys were generated;
    - `lazy[p][t]`: whether thread t, inside a `DotOLE`, is generating them.
  - The batched kernels' shape checks:
    - `BatchEvaluate` is `evaluate()`: the three `SPU_ENFORCE`s on equal ndim,
      batch and inner extent.
    - `ShapeAt` reads `xs[2]` out of bounds for operands of fewer than 3
      dimensions. That read is undefined behaviour and yields any value of
      the constant `ShapeGarbage`.
    - `ProcShapeOK` and `ProcAbort` are `proc()`'s own checks, which come
      after its empty-operand return.
    - A failed check sets `pc` to `"abort"`. The executor then abandons the
      program (spec.md §7), so `Finished` holds.
  - `LazyInitKeys` is the kernel's `dot_prot->LazyInitKeys(field)`. It runs on
    the main thread before the async task is spawned (lines 406, 444, 551).
  - `DotEnter` and `EngineKeyGen` model `DotOLE` creating missing keys
    itself, on whichever thread reaches it (spec.md §5). `MatMulVVS` and
    `BatchMatMulAV` rely on this path. `ServeDot` only pairs calls whose
    threads have finished key generation.
- **`Tensor`**: NdArrayRef as a record of a shape and its elements. It
  holds `Idx`, `Zeros`, `TAdd`, `TSub`, the reference product `PlainProduct`
  and `TShareOf`. `CheetahMatMul` and `MatMulSpec` share it.
- **`MatMulSpec`**: what the matrix kernels promise (spec.md §4, §7, §8).
  - A program's calls complete one atomic step at a time. Each step yields
    the product x * y (`Compute`).
  - A call whose operands do not conform is fatal and ends the program
    (`Fail`).
  - `CheetahMatMul` maps onto it as `Abs`:
    - `done` is the number of calls both ranks have returned;
    - `res[i]` is the sum of the two ranks' shares of call i;
    - `status` is `"abort"` once both ranks threw.
- **`MsbA2BLocal`**: the local steps of `MsbA2B`, shared by the two MSB models:
  - `MsbBits`, `MsbMask` and `MsbAdjust` (lines 65–89);
  - `CarryXor`, the final `carry ^= x >> shft` (line 101).
- **`MsbCompare`**: `MsbA2B` composed with `CompareProtocol` itself, instead of
  the comparison contract that `CheetahNonlinear` uses.
  - `Cmp == INSTANCE CompareProtocol WITH Params <- {MsbCall}, ElemBits <- K`,
    where `MsbCall` is the kernel's call: radix 4 (the constructor default),
    bitwidth 0, greater-than, batch 1.
  - The composed module declares the comparison's variables. It adds the
    kernel's: the secret `ax`, rank 0's share `ax0`, `nbits_`, and each rank's
    `kpc` and `out`.
  - Actions:
    - `MsbStart`: mask and adjust the share, then hand it to the comparison as
      `x` (the sender, rank 0) or `y` (the chooser, rank 1);
    - `MsbCmp`: one step of the comparison;
    - `MsbFinish`: XOR in the share's bit `shft`.
- **`CompareProtocol`**: the millionaires' comparison of `compare_prot.h`.
  - `prm` holds the call's parameters: radix, bitwidth (0 means the element
    width), `greater_than`, `Compute` vs `ComputeWithEq`, and the batch B of
    `BatchCompute`. `x[1..B]` is rank 0's input and `y` is rank 1's.
  - Rank 0 is the OT sender (`is_sender_`). Rank 1 is
    `BatchedChoiceProvider()`.
  - `OTSend`: the sender builds one 1-of-2^radix table per digit. Each message
    holds, for every batch entry, padded bits of `1{x_i > v}` and `1{x_i = v}`.
    The sender keeps the pads as its shares.
  - `OTRecv`: the receiver chooses by its digits `y_i`.
  - `OTDone`: the OTs return, and each rank holds one `[lt, eq]` node per
    digit.
  - `AndStart` and `AndDone`: one level of `TraversalAND`. Pairs (2k−1 low,
    2k high) become `lt_hi ^ (eq_hi & lt_lo)` and `eq_hi & eq_lo`. The ANDs are
    one interactive round, and an odd top node is carried up. One node left is
    the output.
  - `ServeOT` and `ServeAnd` are `BasicOTProtocols` by contract.
- **`CompareSpec`**: what `CompareProtocol` promises. It is one atomic
  `Compute` step that yields `1{x[j] > y}` (or `<`), and with `ComputeWithEq`
  also `1{x[j] = y}`, for each batch entry. `CompareProtocol` instantiates it
  with `res` mapped to the XOR of both ranks' outputs once both have returned.
  `AbsSpec` checks the refinement.
- **`MCCheetahMul`, `MCCheetahNonlinear`, `MCCheetahMatMul`, `MCCompareProtocol`**: the programs and
  operand sets TLC enumerates.
  - `Programs` is a set of call sequences, chosen in `Init`, so a run sums over
    programs instead of multiplying.
  - `Inputs(o)` gives the operands of a call, together with rank 0's shares.

## Runs

| Run | Checks | Shows |
|---|---|---|
| `mul_algebra` | OutputCorrect | every multiply/square path reconstructs the product for all of Z_4, all share splits, masks {1, 2} |
| `mul_flow` | TypeOK, OutputCorrect, CallsMatch, ConnExclusive, AllCallsReturn | programs of several calls: odd splits, a Beaver refill, deferred and async SquareA tasks, empty calls |
| `nonlinear` | TypeOK, MsbCorrect, EqualCorrect, CallsMatch | Z_8, all splits, MsbA2B for nbits_ 0..3, equality for 6 environments both ranks share |
| `nonlinear_env` (violation) | CallsMatch | the ranks' environments differ: EqualProtocol runs with two bit counts |
| `msb_narrow` (violation) | MsbOneBit | MsbA2B with nbits_ = 2 < K returns a share whose XOR is not one bit |
| `matmul_algebra` | OutputCorrect | every matrix kernel, 1×1 operands, all of Z_4 |
| `matmul_shapes` | TypeOK, OutputShape, OutputCorrect, CallsMatch, AllCallsReturn, KeysInitOnce, AbsSpec | non-square and batched operands with B = 2, empty 2-D operands; programs whose first dot product comes from a kernel with and without `LazyInitKeys`; programs that end in a batched call that `evaluate()` rejects (batches differ) or that only `proc()` rejects (4-D) |
| `matmul_emptybatch` (violation) | OutputShape | batched kernels with M = 0 return shape (B, K) |
| `matmul_malformed` (violation) | MalformedAborts | batched kernels on empty 4-D operands, or on empty 2-D operands when the out-of-bounds `xs[2]` read happens to match, return a tensor instead of failing |
| `compare_algebra` | NodeInvariant, AbsSpec | every input of up to 3 bits, every OT pad and AND mask, radix 1 and 2, both directions: the protocol refines `CompareSpec` |
| `msb_compare` | MsbCorrect | `MsbA2B` on the real radix-4 digit tree: K = 8, d = 2, nbits_ 0 and 5, secrets around every carry boundary, all share splits of them |
| `compare_structure` | TypeOK, NodeInvariant, AbsSpec | 5-bit `BatchCompute`, B = 2, d = 2, 3, 4, 5 (full tree, odd levels, partial top digits, bitwidth 0) |

The properties:

- **CallsMatch.** Whenever both ranks have a call open on one link, the two
  calls are halves of one protocol run: the same protocol, the same parameters
  and sizes, and complementary roles (evaluator, lhs/rhs, sender/receiver). A
  role bug on one rank, or a rank-dependent parameter, breaks it.
- **ConnExclusive.** No link carries the task and the main thread of one party
  at once.
- **AllCallsReturn.** Every call returns on both ranks. Under the fairness
  below, this rules out the two ranks blocking on mismatched links.
- **OutputCorrect, MsbCorrect, EqualCorrect.** Once both ranks have returned,
  their shares reconstruct to the value the kernel must compute.
  - For equality, "must" means: whenever x and y lie in the range the
    caller vouched for. For `EqualAP` that is the range
    `SPU_BB_SET_IEQUAL_BITS` spells (spec.md §4.2); for `EqualAA` it is
    `nbits_`.
  - The range is taken from the spec's reading of the variable, not from
    the code's parse and clamp (`IEqualBits`). A clamp that narrows the
    comparison below the promised range therefore violates it.
- **OutputShape.** Every call returns its product's shape.
- **MalformedAborts** (violated). A batched call on operands that are not
  (B, M, K) × (B, K, N) never returns on either rank, as spec.md §7
  requires.
- **NodeInvariant.** Whenever both ranks are at the same tree level, node k of
  every batch entry reconstructs to the comparison and equality of x and y on
  the digits it covers. Those digits are the k-th block of 2^level digits,
  with the top block cut at digit d. Swapping the halves of the identity, or
  losing an odd node, breaks it.
- **TypeOK (in `CompareProtocol`).** Besides the types, it bounds each rank's
  level by ceil(log2 d) and fixes the node count of every level. That is
  the tree's round bound, so no separate property restates it.
- **KeysInitOnce.** Each party generates its HE keys at most once. This holds
  only because `MatMulAA` and `BatchMatMulAA` call `LazyInitKeys` before
  `std::async`. Otherwise both threads would find no keys in `DotOLE`.
- **MsbCorrect (in `MsbCompare`).** The same statement as in
  `CheetahNonlinear`, now checked through the real digit tree. It shows that
  masking the shares, the greater-than direction, and the sender/chooser roles
  fit the comparison's internals.
- **AbsSpec.** `CompareProtocol` implements `CompareSpec`. This covers the
  results of all three entry points and the fact that both ranks return.
  In `matmul_shapes`, `AbsSpec` says that `CheetahMatMul` implements
  `MatMulSpec`:
  - the calls complete in program order on both ranks, with shares of
    x * y;
  - a malformed call ends the program on both ranks;
  - under the fairness below, every call is eventually completed or failed.

Each property of a passing run has a mutant in PROJECT.json that breaks it. The
mutants are bugs a careful edit could introduce:

- a swapped memcpy order;
- the public Beaver term added on both ranks;
- a hard-coded evaluator flag;
- both links swapped on one rank;
- the rhs slice fixed to batch 0;
- a mask without its `- 1`.

### Bounds

- **Ring width.** K = 2 or 3 keeps full enumeration of values and share splits.
- **Batch size and split.** `OLEBatchSize = 1` and `SquareSplit` (8192 in the
  code) of 1 or 2 scale the thresholds down, so both `MulAA` paths and both
  `SquareA` shapes occur with numel ≤ 3.
- **Beaver refill.** `BeaverBatch = 2` makes a refill produce more than one
  call needs, so the next call finds triples in the cache.
- **Matrices.** The shapes have 2 in every dimension somewhere, so a swapped
  index or batch is visible.
- **Shape garbage.** `ShapeGarbage = {1, 2}` holds a value equal to `ys[1]`
  of the 2-D malformed operand and a value that differs from it. This covers
  both outcomes of the out-of-bounds read.
- **Flow inputs.** The fixed inputs give the halves different values.
- **Compare.** The inputs are 3-bit values in every combination, with all pads
  and masks. In the structure run they are 5-bit values that differ in
  their low, middle and top digits. These cover:
  - d = 2, 3, 4, 5: the full tree (4), an odd level (3), odd at two levels
    (5);
  - top digits of 1, 2 and 3 bits where bitwidth is not a multiple of radix;
  - B = 2, so a mixed-up batch index is visible.

  Radix 4 appears with d = 2. `msb_compare` uses it with K = 8, so the top
  digit of every masked operand is a partial one. It takes secrets 0, 1, 15,
  16, 127, 128, 129 and 255: carries out of the low digit, the mask boundary
  2^7 − 1, and the sign bit. Each secret comes with each of the same eight
  values as rank 0's share. nbits_ = 5 exercises a narrow width. The OT pads
  are fixed to 0 there, since `compare_algebra` already ranges over them. The
  AND masks range over {0, 1}. Larger widths only add levels of the same
  shape.

### Fairness

`WF` on each party's main step, on its task step and on each link's service:

- the main thread and the `std::launch::async` tasks are OS threads, and a
  deferred task runs on the main thread;
- spec.md §5 says a stalled network call stalls the kernel, so delivery is
  assumed.

`CompareProtocol` has the same fairness: WF on each rank's step and on
the OT and AND services. This is what the liveness half of `AbsSpec`
(`WF(Compute)`) needs, as the liveness half of `MatMulSpec` (`WF(Next)`)
needs the fairness of `CheetahMatMul`. `MsbCompare` assumes WF on each rank's kernel step,
which includes its comparison step, and on the services.

## Findings

1. **Batched empty-operand shape (code bug).** `BatchMatMulAV::proc` (line 479)
   and `BatchMatMulAA::proc` (line 542) return an array of shape
   `{x.shape()[0], y.shape()[1]}` = (B, K) when an operand is empty. spec.md §8
   asks for the product shape (B, M, N).
4. **Malformed empty batched operands (spec/code divergence).** `proc()`
   returns on an empty operand (lines 478, 541) before its
   `ndim == 3` check, and `evaluate()` never checks ndim = 3. An empty 4-D
   pair passes every check and returns a (B, K) tensor. For an empty 2-D pair,
   `evaluate()` reads `xs[2]` out of bounds, and the rank whose read matches
   `ys[1]` returns too. spec.md §7 says a shape mismatch is fatal and never
   silently coerced.
2. **MsbA2B with a narrow `nbits_` (spec/code divergence).** When `nbits_` is
   below the ring width, `MsbA2B` returns a `BShrTy(field, 1)` whose XOR keeps
   the high bits of the shares (line 101). Only its low bit is the MSB.
3. **`SPU_BB_SET_IEQUAL_BITS` per process (spec gap).** `EqualAP` reads the
   variable from each process's own environment (line 112). Nothing makes the
   ranks agree on it, and a difference desynchronises `EqualProtocol`.

## Not modelled

- Statements that hold by the model's construction are not checked as
  properties:
  - that a `DotOLE` answer finds keys: this follows from the engine model's
    check-then-generate;
  - that a malformed batched call never reaches `BatchDotOLE`: this is
    `proc()`'s own guard;
  - that the comparison's two calls agree on radix, digits and batch: both
    ranks read one parameter record;
  - that `MsbA2B` returns: its own steps cannot block, and the comparison's
    termination is part of `AbsSpec`.
- `OLEBatchSize` is one value for both ranks. It comes from the protocol
  state both ranks build from the same parameters, so the two MulAA paths
  (line 259) cannot differ between ranks.
- The internals of the OT, OLE and HE collaborators, other than the CheetahDot
  key state. This includes their thread safety when `mul_prot` is used from
  two threads (line 356). What `src/` does about that, one connection per
  thread, is checked by ConnExclusive and CallsMatch.
  - In `CheetahMul`, the key race is out of reach: every kernel that spawns a
    task calls `mul_prot->LazyInitKeys` first (lines 276, 345). A lazy-key
    action there would never fire.
  - What is left is whether the engine tolerates two concurrent calls on
    distinct connections. That is inside the engine.
- Inside `CompareProtocol`:
  - the packing of OT messages and shares into words;
  - what the `FullBinaryTree` variants save per level. They compute the same
    pairing and are one action here.
  - sharding the per-digit OTs over threads (spec.md §5), which must not
    change results.

  The bodies are in `compare_prot.cc`, which is not in `src/`.
- The shape checks of the 2-D kernels and `ptype != nullptr`: their
  `evaluate()` is not in `src/`, and the MC modules only give them conforming,
  correctly typed operands.
- A rank whose peer aborted while it waits in an exchange. No run reaches this:
  the non-empty malformed calls abort on both ranks before any exchange.
- The actual 8192 split and ring widths of 32–128 bits: scaled down as above.

## Plan for later sittings

1. Done: `MsbCompare`. `EqualAP`/`EqualAA` could be composed the same way
   once an `EqualProtocol` model exists; its body is not in `src/`.
2. Done for the matrix kernels: `CheetahMatMul` refines `MatMulSpec`
   (`AbsSpec`). The multiply kernels were left out of this. Their calls
   already complete in program order by construction, so `OutputCorrect`
   says what such a refinement would add.
3. A Beaver cache per rank (refill races).
