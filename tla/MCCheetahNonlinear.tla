------------------------- MODULE MCCheetahNonlinear --------------------------
(***************************************************************************)
(* Model-checking instances of CheetahNonlinear over Z_8 (K = 3), so that  *)
(* nbits_ = 1, 2 narrows MsbA2B and EqualAA below the ring width.          *)
(***************************************************************************)
EXTENDS CheetahNonlinear

Op(k, n, nb, owner, bits) ==
    [k |-> k, n |-> n, nbits |-> nb, owner |-> owner, bits |-> bits]

Vec1(S) == [1..1 -> S]

\* One call per program, every operand and share split of one element;
\* one program of empty calls.
NonlinearPrograms ==
    {<<Op("MsbA2B", 1, nb, 0, 0)>> : nb \in 0..K}
    \cup {<<Op("EqualAA", 1, nb, 0, 0)>> : nb \in {0, 2}}
    \cup {<<Op("EqualAP", 1, 0, 0, 0)>>, <<Op("MulA1B", 1, 0, 0, 0)>>,
          <<Op("TruncA", 1, 0, 0, 1)>>}
    \cup {<<Op("MulA1BV", 1, 0, owner, 0)>> : owner \in {0, 1}}
    \cup {<<Op("MsbA2B", 0, 0, 0, 0), Op("EqualAP", 0, 0, 0, 0),
            Op("EqualAA", 0, 0, 0, 0), Op("MulA1B", 0, 0, 0, 0),
            Op("MulA1BV", 0, 0, 1, 0), Op("TruncA", 0, 0, 0, 1)>>}

Empty == [x |-> <<>>, x0 |-> <<>>, y |-> <<>>, y0 |-> <<>>, b |-> <<>>, b0 |-> <<>>]

NonlinearInputs(o) ==
    IF o.n = 0 THEN {Empty}
    ELSE CASE o.k = "EqualAA" ->
                {[x |-> v, x0 |-> s, y |-> w, y0 |-> t, b |-> <<>>, b0 |-> <<>>] :
                    v, s, w, t \in Vec1(Ring)}
           [] o.k = "EqualAP" ->
                {[x |-> v, x0 |-> s, y |-> w, y0 |-> w, b |-> <<>>, b0 |-> <<>>] :
                    v, s, w \in Vec1(Ring)}
           [] o.k \in {"MulA1B", "MulA1BV"} ->
                {[x |-> v, x0 |-> s, y |-> <<>>, y0 |-> <<>>, b |-> c, b0 |-> d] :
                    v, s \in Vec1(Ring), c, d \in Vec1({0, 1})}
           [] OTHER ->
                {[x |-> v, x0 |-> s, y |-> <<>>, y0 |-> <<>>, b |-> <<>>, b0 |-> <<>>] :
                    v, s \in Vec1(Ring)}

\* SPU_BB_SET_IEQUAL_BITS unset, set to -1, 0, 2 or 5, or set to text.
EnvChoices ==
    {[set |-> FALSE, parses |-> FALSE, val |-> 0],
     [set |-> TRUE, parses |-> FALSE, val |-> 0]}
    \cup {[set |-> TRUE, parses |-> TRUE, val |-> v] : v \in {-1, 0, 2, 5}}

\* Both ranks started with the same environment.
SameEnvs == {[p \in Party |-> e] : e \in EnvChoices}
\* Each rank with an environment of its own.
AnyEnvs == [Party -> EnvChoices]

EqualAPPrograms == {<<Op("EqualAP", 1, 0, 0, 0)>>}
MsbNarrowPrograms == {<<Op("MsbA2B", 1, 2, 0, 0)>>}
==============================================================================
