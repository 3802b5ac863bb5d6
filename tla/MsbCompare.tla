------------------------------ MODULE MsbCompare ------------------------------
(***************************************************************************)
(* MsbA2B::proc (src/unnamed/part_002, 62-105) composed with the           *)
(* comparison it runs, CompareProtocol (compare_prot.h), instead of that   *)
(* protocol's contract.  Each rank masks its share of x (MsbA2BLocal),     *)
(* enters CompareProtocol::Compute(input, greater = true) with the default *)
(* radix 4 and bitwidth 0, and XORs the returned carry share with bit shft *)
(* of its own share.  One element (numel = 1); the empty case and several  *)
(* elements are in CheetahNonlinear.                                       *)
(***************************************************************************)
EXTENDS Integers, Sequences, Bitwise, MsbA2BLocal

CONSTANTS
    OTMasks,    \* CompareProtocol's OT pads
    AndMasks,   \* CompareProtocol's AND masks
    Vals,       \* the values x and rank 0's share x0 may take
    NBits       \* the values of the kernel's nbits_ (0: the field width)

VARIABLES
    prm, x, y, pc, lvl, node, call, ans,   \* CompareProtocol's state
    ax,     \* the shared value x = x0 + x1 mod 2^K
    ax0,    \* rank 0's share x0
    nb,     \* nbits_ of the kernel
    kpc,    \* kpc[p]: "start", "cmp" while in CompareProtocol, "done"
    out     \* out[p]: the boolean share rank p returns

cmpVars == <<prm, x, y, pc, lvl, node, call, ans>>
kernelVars == <<ax, ax0, nb, kpc, out>>
vars == <<cmpVars, kernelVars>>

\* CompareProtocol prot(base_ot): compare_radix defaults to 4.
CompareRadix == 4

\* Mutant: the carry computed with greater = false.
MsbCallLess == [radix |-> CompareRadix, bits |-> 0, gt |-> FALSE, witheq |-> FALSE,
                batch |-> 1, vals |-> Ring]

\* prot.Compute(input, /*greater*/ true): bitwidth 0, one comparison.
MsbCall == [radix |-> CompareRadix, bits |-> 0, gt |-> TRUE, witheq |-> FALSE,
            batch |-> 1, vals |-> Ring]

Cmp == INSTANCE CompareProtocol WITH Params <- {MsbCall}, ElemBits <- K

Share(p) == IF p = 0 THEN ax0 ELSE RSub(ax, ax0)
Shft == MsbBits(nb) - 1

\* The kernel's input to the comparison: xadj[i] of rank p.
Adjusted(p) == MsbAdjust(p, <<Share(p)>>, MsbMask(Shft))[1]

Init ==
    /\ ax \in Vals /\ ax0 \in Vals
    /\ nb \in {n \in NBits : MsbBits(n) <= K}     \* SPU_ENFORCE(nbits <= 8 * SizeOf(field))
    /\ kpc = [p \in Cmp!Party |-> "start"]
    /\ out = [p \in Cmp!Party |-> 0]
    /\ prm = MsbCall
    /\ x = <<0>> /\ y = 0
    /\ pc = [p \in Cmp!Party |-> "ot"]
    /\ lvl = [p \in Cmp!Party |-> 0]
    /\ node = [p \in Cmp!Party |-> [j \in 1..1 |-> <<>>]]
    /\ call = [p \in Cmp!Party |-> Cmp!NoCall]
    /\ ans = [p \in Cmp!Party |-> Cmp!NoAns]

\* Rank p masks its share and hands it to the comparison: the sender's
\* input is x[1], the choice provider's y.
MsbStart(p) ==
    /\ kpc[p] = "start"
    /\ IF Cmp!Sender(p) THEN x' = <<Adjusted(p)>> /\ y' = y
                        ELSE y' = Adjusted(p) /\ x' = x
    /\ kpc' = [kpc EXCEPT ![p] = "cmp"]
    /\ UNCHANGED <<prm, pc, lvl, node, call, ans, ax, ax0, nb, out>>

MsbCmp(p) == kpc[p] = "cmp" /\ Cmp!Step(p) /\ UNCHANGED kernelVars

\* carry_bit ^= xinp >> shft once Compute has returned.
MsbFinish(p) ==
    /\ kpc[p] = "cmp" /\ pc[p] = "done"
    /\ out' = [out EXCEPT ![p] = CarryXor(node[p][1][1].lt, Share(p), Shft)]
    /\ kpc' = [kpc EXCEPT ![p] = "done"]
    /\ UNCHANGED <<cmpVars, ax, ax0, nb>>

MsbStep(p) == MsbStart(p) \/ MsbCmp(p) \/ MsbFinish(p)

Serve == (Cmp!ServeOT \/ Cmp!ServeAnd) /\ UNCHANGED kernelVars

Returned == \A p \in Cmp!Party : kpc[p] = "done"

Next ==
    \/ \E p \in Cmp!Party : MsbStep(p)
    \/ Serve
    \/ Returned /\ UNCHANGED vars

Spec == Init /\ [][Next]_vars
             /\ \A p \in Cmp!Party : WF_vars(MsbStep(p))
             /\ WF_vars(Serve)

-----------------------------------------------------------------------------

(* Once both ranks returned, the low bit of the XOR of their outputs is    *)
(* bit nbits - 1 of x: the masked operands, the greater-than direction and *)
(* the sender/receiver roles of the comparison fit together, for the real  *)
(* digit tree of radix 4 rather than the comparison's contract.            *)
MsbCorrect ==
    Returned => (out[0] ^^ out[1]) % 2 = shiftR(ax, Shft) % 2
==============================================================================
