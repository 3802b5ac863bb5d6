---------------------------- MODULE MCCheetahMul -----------------------------
(***************************************************************************)
(* Model-checking instances of CheetahMul.                                 *)
(***************************************************************************)
EXTENDS CheetahMul

Call1(k, n, owner) == [k |-> k, n |-> n, owner |-> owner]

Vec(n, S) == [1..n -> S]

(* Algebra: one kernel call of one element, every operand and every share  *)
(* of Z_{2^K}; a call of two elements takes the direct path of MulAA.      *)
AlgebraPrograms ==
    { <<Call1("MulAV", 1, 0)>>, <<Call1("MulAV", 1, 1)>>,
      <<Call1("MulAA", 1, 0)>>, <<Call1("SquareA", 1, 0)>>,
      <<Call1("SquareA", 2, 0)>>, <<Call1("MulAA", 2, 0)>> }

AlgebraInputs(o) ==
    IF o.n = 1
      THEN CASE o.k = "SquareA" ->
                  {[x |-> v, x0 |-> s, y |-> v, y0 |-> s] : v, s \in Vec(1, Ring)}
             [] o.k = "MulAV" ->
                  {[x |-> v, x0 |-> s, y |-> w, y0 |-> <<0>>] :
                       v, s, w \in Vec(1, Ring)}
             [] OTHER ->
                  {[x |-> v, x0 |-> s, y |-> w, y0 |-> t] :
                       v, s, w, t \in Vec(1, Ring)}
      \* two elements: distinct plaintexts, each share split of {0, 3}
      ELSE {[x |-> <<1, 2>>, x0 |-> s, y |-> <<3, 1>>, y0 |-> t] :
                s, t \in Vec(2, {0, 3})}

(* Choreography: programs of several calls of several numel, the odd numel *)
(* 3 split by both SquareA and mulDirectly, empty calls, a Beaver call     *)
(* that refills the cache and one served from what is left; one operand    *)
(* record per call, with distinct elements so that a misplaced slice shows.*)
FlowPrograms ==
    { <<Call1("SquareA", 3, 0), Call1("MulAA", 3, 0), Call1("MulAV", 2, 1),
        Call1("MulAA", 0, 0)>>,
      <<Call1("MulAA", 1, 0), Call1("MulAA", 1, 0), Call1("SquareA", 0, 0),
        Call1("MulAV", 0, 0), Call1("SquareA", 1, 0)>> }

FlowInputs(o) ==
    {[x |-> SubSeq(<<1, 2, 3>>, 1, o.n), x0 |-> SubSeq(<<1, 1, 2>>, 1, o.n),
      y |-> SubSeq(<<2, 3, 1>>, 1, o.n), y0 |-> SubSeq(<<1, 1, 2>>, 1, o.n)]}
==============================================================================
