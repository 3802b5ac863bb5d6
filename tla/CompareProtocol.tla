---------------------------- MODULE CompareProtocol ---------------------------
(***************************************************************************)
(* CompareProtocol (compare_prot.h): the millionaires' comparison of       *)
(* CrypTFlow2 between rank 0, the OT sender holding x[1..B], and rank 1,   *)
(* the choice provider holding y.                                          *)
(*   1. both inputs are cut into d = ceil(bits / radix) digits;            *)
(*   2. one 1-of-2^radix OT per digit gives XOR shares of lt_i and eq_i;   *)
(*   3. the digit pairs are reduced with                                   *)
(*        cmp = cmp_hi ^ (eq_hi & cmp_lo),  eq = eq_hi & eq_lo             *)
(*      level by level (TraversalAND); each level is one round of ANDs.    *)
(* A node is a record [lt, eq] of one party's shares.  Each protocol run   *)
(* with the peer (the OTs, one AND round) is an exchange: a party posts    *)
(* call[p] and blocks until ans[p] arrives.                                *)
(***************************************************************************)
EXTENDS Naturals, Sequences, Bitwise

CONSTANTS
    Params,     \* records [radix, bits, gt, witheq, batch, vals]
    ElemBits,   \* the element width in bits, used when bitwidth = 0
    OTMasks,    \* the sender's random pads for the OT messages, in {0, 1}
    AndMasks    \* the random bits of the AND sub-protocol, in {0, 1}

VARIABLES
    prm,    \* the call's parameters, the same on both ranks
    x,      \* rank 0's batch of private inputs
    y,      \* rank 1's private input
    pc,     \* pc[p]: "ot", "otwait", "and", "andwait" or "done"
    lvl,    \* lvl[p]: the AND rounds rank p has finished
    node,   \* node[p][j]: rank p's shares of the current level for batch j
    call,   \* call[p]: the sub-protocol call rank p has open, or NoCall
    ans     \* ans[p]: the answer delivered to rank p, or NoAns

vars == <<prm, x, y, pc, lvl, node, call, ans>>

Party == {0, 1}
NoCall == [kind |-> "none"]
NoAns == [kind |-> "none"]
Bit(b) == IF b THEN 1 ELSE 0

\* The constructor's REQUIRE 1 <= compare_radix <= 4.
ValidRadix(r) == r \in 1..4

\* bitwidth = 0 (the default) compares the whole element.
BitsOf(bw) == IF bw = 0 THEN ElemBits ELSE bw

\* x = x0 || x1 || ... || xd with 0 <= xi < 2^radix; digit 1 is the lowest.
NumDigits(pr) == (BitsOf(pr.bits) + pr.radix - 1) \div pr.radix
Digit(v, i, r) == (v \div 2^(r * (i - 1))) % 2^r

\* is_sender_: rank 0 sends the OT tables, BatchedChoiceProvider() = 1 chooses.
BatchedChoiceProvider == 1
Sender(p) == p # BatchedChoiceProvider

\* Mutant: the digit tables compare with >= (<=) instead of > (<).
DigitCmpNonStrict(gt, a, b) == IF gt THEN a >= b ELSE a <= b

\* The comparison a digit OT evaluates: 1{xi > v} or 1{xi < v}.
DigitCmp(gt, a, b) == IF gt THEN a > b ELSE a < b

\* The OT message for choice v of digit i carries, for every batch entry j,
\* the padded bits 1{x[j]_i cmp v} ^ r and 1{x[j]_i = v} ^ r'.
OTTable(pr, xs, pad) ==
    [i \in 1..NumDigits(pr) |->
        [v \in 0..(2^pr.radix - 1) |->
            [j \in 1..pr.batch |->
                [lt |-> Bit(DigitCmp(pr.gt, Digit(xs[j], i, pr.radix), v)) ^^ pad[j][i].lt,
                 eq |-> Bit(Digit(xs[j], i, pr.radix) = v) ^^ pad[j][i].eq]]]]

\* The receiver's choices: its own digits y_i.
Choices(pr, v) == [i \in 1..NumDigits(pr) |-> Digit(v, i, pr.radix)]

BitPair == [lt : {0, 1}, eq : {0, 1}]

(***************************************************************************)
(* One level of the tree reduction.  Nodes 2k-1 (low) and 2k (high) are    *)
(* combined; with an odd count the top node is carried up unchanged.       *)
(***************************************************************************)
Pairs(n) == n \div 2

\* Mutant: the identity applied with low and high swapped.
AndOperandsSwapped(ns) ==
    [k \in 1..Pairs(Len(ns)) |->
        [a |-> ns[2 * k - 1].eq, b |-> [lt |-> ns[2 * k].lt, eq |-> ns[2 * k].eq]]]

\* The AND operands of rank p for one batch entry: eq_hi with lt_lo and eq_lo.
AndOperands(ns) ==
    [k \in 1..Pairs(Len(ns)) |->
        [a |-> ns[2 * k].eq, b |-> [lt |-> ns[2 * k - 1].lt, eq |-> ns[2 * k - 1].eq]]]

\* cmp = cmp_hi ^ [eq_hi & cmp_lo], eq = [eq_hi & eq_lo]: the XOR is local.
Combine(hi, z) == [lt |-> hi.lt ^^ z.lt, eq |-> z.eq]

\* Mutant: an odd top node is dropped instead of carried.
LevelUpDropOdd(ns, zs) == [k \in 1..Pairs(Len(ns)) |-> Combine(ns[2 * k], zs[k])]

LevelUp(ns, zs) ==
    LET P == Pairs(Len(ns))
    IN  [k \in 1..(Len(ns) - P) |->
            IF k <= P THEN Combine(ns[2 * k], zs[k]) ELSE ns[k + P]]

(***************************************************************************)
(* Rank p's steps.                                                         *)
(***************************************************************************)

\* The sender pads its OT messages and keeps the pads as its digit shares.
OTSend(p) ==
    /\ pc[p] = "ot" /\ Sender(p)
    /\ \E pad \in [1..prm.batch -> [1..NumDigits(prm) -> [lt : OTMasks, eq : OTMasks]]] :
          /\ call' = [call EXCEPT ![p] = [kind |-> "ot", role |-> "send",
                          radix |-> prm.radix, digits |-> NumDigits(prm),
                          batch |-> prm.batch, tab |-> OTTable(prm, x, pad)]]
          /\ node' = [node EXCEPT ![p] = [j \in 1..prm.batch |->
                          [i \in 1..NumDigits(prm) |-> pad[j][i]]]]
    /\ pc' = [pc EXCEPT ![p] = "otwait"]
    /\ UNCHANGED <<prm, x, y, lvl, ans>>

\* The choice provider selects message y_i of every digit's OT.
OTRecv(p) ==
    /\ pc[p] = "ot" /\ ~Sender(p)
    /\ call' = [call EXCEPT ![p] = [kind |-> "ot", role |-> "recv",
                    radix |-> prm.radix, digits |-> NumDigits(prm),
                    batch |-> prm.batch, choice |-> Choices(prm, y)]]
    /\ pc' = [pc EXCEPT ![p] = "otwait"]
    /\ UNCHANGED <<prm, x, y, lvl, node, ans>>

\* The OTs return: the receiver's digit shares are the messages it chose.
OTDone(p) ==
    /\ pc[p] = "otwait" /\ ans[p] # NoAns
    /\ node' = IF Sender(p) THEN node
               ELSE [node EXCEPT ![p] = [j \in 1..prm.batch |->
                        [i \in 1..NumDigits(prm) |-> ans[p].msg[i][j]]]]
    /\ ans' = [ans EXCEPT ![p] = NoAns]
    /\ pc' = [pc EXCEPT ![p] = "and"]
    /\ UNCHANGED <<prm, x, y, lvl, call>>

\* TraversalAND: one node left is the result; otherwise one round of ANDs.
AndStart(p) ==
    /\ pc[p] = "and"
    /\ IF Len(node[p][1]) = 1
         THEN /\ pc' = [pc EXCEPT ![p] = "done"]
              /\ call' = call
         ELSE /\ call' = [call EXCEPT ![p] = [kind |-> "and", level |-> lvl[p],
                             batch |-> prm.batch, pairs |-> Pairs(Len(node[p][1])),
                             ops |-> [j \in 1..prm.batch |-> AndOperands(node[p][j])]]]
              /\ pc' = [pc EXCEPT ![p] = "andwait"]
    /\ UNCHANGED <<prm, x, y, lvl, node, ans>>

AndDone(p) ==
    /\ pc[p] = "andwait" /\ ans[p] # NoAns
    /\ node' = [node EXCEPT ![p] = [j \in 1..prm.batch |->
                    LevelUp(node[p][j], ans[p].z[j])]]
    /\ lvl' = [lvl EXCEPT ![p] = @ + 1]
    /\ ans' = [ans EXCEPT ![p] = NoAns]
    /\ pc' = [pc EXCEPT ![p] = "and"]
    /\ UNCHANGED <<prm, x, y, call>>

(***************************************************************************)
(* The OT and AND sub-protocols (BasicOTProtocols), by their contracts.    *)
(***************************************************************************)
Both(k) == call[0].kind = k /\ call[1].kind = k

ServeOT ==
    /\ Both("ot")
    /\ \E s \in Party :
          /\ call[s].role = "send" /\ call[1 - s].role = "recv"
          /\ ans' = [p \in Party |->
                IF p = s THEN [kind |-> "ot"]
                ELSE [kind |-> "ot", msg |-> [i \in 1..call[s].digits |->
                        call[s].tab[i][call[p].choice[i]]]]]
    /\ call' = [p \in Party |-> NoCall]
    /\ UNCHANGED <<prm, x, y, pc, lvl, node>>

\* The two ranks get fresh XOR shares of eq_hi & lt_lo and eq_hi & eq_lo.
ServeAnd ==
    /\ Both("and")
    /\ \E m \in [1..call[0].batch -> [1..call[0].pairs -> [lt : AndMasks, eq : AndMasks]]] :
          LET Val(j, k, f) == (call[0].ops[j][k].a ^^ call[1].ops[j][k].a)
                              & (call[0].ops[j][k].b[f] ^^ call[1].ops[j][k].b[f])
          IN  ans' = [p \in Party |-> [kind |-> "and", z |->
                  [j \in 1..call[0].batch |-> [k \in 1..call[0].pairs |->
                      IF p = 0 THEN m[j][k]
                      ELSE [lt |-> Val(j, k, "lt") ^^ m[j][k].lt,
                            eq |-> Val(j, k, "eq") ^^ m[j][k].eq]]]]]
    /\ call' = [p \in Party |-> NoCall]
    /\ UNCHANGED <<prm, x, y, pc, lvl, node>>

Init ==
    /\ prm \in {pr \in Params : ValidRadix(pr.radix) /\ BitsOf(pr.bits) <= ElemBits}
    /\ x \in [1..prm.batch -> prm.vals]
    /\ y \in prm.vals
    /\ pc = [p \in Party |-> "ot"]
    /\ lvl = [p \in Party |-> 0]
    /\ node = [p \in Party |-> [j \in 1..prm.batch |-> <<>>]]
    /\ call = [p \in Party |-> NoCall]
    /\ ans = [p \in Party |-> NoAns]

Step(p) == OTSend(p) \/ OTRecv(p) \/ OTDone(p) \/ AndStart(p) \/ AndDone(p)

Terminated == \A p \in Party : pc[p] = "done"

Next ==
    \/ \E p \in Party : Step(p)
    \/ ServeOT \/ ServeAnd
    \/ Terminated /\ UNCHANGED vars

Spec == Init /\ [][Next]_vars
             /\ \A p \in Party : WF_vars(Step(p))
             /\ WF_vars(ServeOT) /\ WF_vars(ServeAnd)

(***************************************************************************)
(* Properties.                                                             *)
(***************************************************************************)
RECURSIVE CeilLog2(_)
CeilLog2(n) == IF n <= 1 THEN 0 ELSE 1 + CeilLog2((n + 1) \div 2)

\* The number of nodes left after l levels of the reduction of d digits.
NodesAt(d, l) == (d + 2^l - 1) \div 2^l

\* The value of digits lo+1..hi of v.
DigitRange(v, lo, hi, r) == (v \div 2^(r * lo)) % 2^(r * (hi - lo))

\* Type invariant: every share is a bit, and rank p's level has exactly the
\* node count TraversalAND leaves after lvl[p] rounds.
TypeOK ==
    /\ pc \in [Party -> {"ot", "otwait", "and", "andwait", "done"}]
    /\ lvl \in [Party -> 0..CeilLog2(NumDigits(prm))]
    /\ \A p \in Party : \A j \in 1..prm.batch :
          node[p][j] \in Seq(BitPair)
          /\ (pc[p] \in {"and", "andwait", "done"}
                => Len(node[p][j]) = NodesAt(NumDigits(prm), lvl[p]))

\* The reduction's invariant: when both ranks are at the same level of the
\* tree, node k of batch entry j XOR-reconstructs to the comparison and the
\* equality of x[j] and y on the digits node k covers, the block of 2^lvl
\* digits from the bottom, the top block cut at the top digit.  It fails if
\* the recursive identity of compare_prot.h:35 is applied with its halves
\* swapped, if a digit lands in the wrong OT, or if an odd node is dropped.
NodeInvariant ==
    \A l \in 0..CeilLog2(NumDigits(prm)) :
       (\A p \in Party : pc[p] \in {"and", "andwait", "done"} /\ lvl[p] = l)
          => \A j \in 1..prm.batch : \A k \in 1..NodesAt(NumDigits(prm), l) :
               LET lo == (k - 1) * 2^l
                   hi == IF k * 2^l < NumDigits(prm) THEN k * 2^l ELSE NumDigits(prm)
                   a  == DigitRange(x[j], lo, hi, prm.radix)
                   b  == DigitRange(y, lo, hi, prm.radix)
               IN  /\ node[0][j][k].lt ^^ node[1][j][k].lt = Bit(DigitCmp(prm.gt, a, b))
                   /\ node[0][j][k].eq ^^ node[1][j][k].eq = Bit(a = b)

(***************************************************************************)
(* Refinement: once both ranks have returned, their outputs reconstruct to *)
(* what CompareSpec's one atomic Compute step produces.                    *)
(***************************************************************************)
Output(j) ==
    LET cmp == node[0][j][1].lt ^^ node[1][j][1].lt
    IN  IF prm.witheq THEN <<cmp, node[0][j][1].eq ^^ node[1][j][1].eq>> ELSE <<cmp>>

Abs == INSTANCE CompareSpec WITH
          res <- IF Terminated THEN [j \in 1..prm.batch |-> Output(j)] ELSE <<>>

\* CompareProtocol implements CompareSpec: the outputs of Compute and
\* ComputeWithEq are shares of 1{x > y} (1{x < y}) and 1{x = y}, and both
\* ranks eventually return.
AbsSpec == Abs!Spec

=============================================================================
