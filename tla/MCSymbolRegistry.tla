-------------------------- MODULE MCSymbolRegistry --------------------------
(* Small instances of SymbolRegistry for TLC.                                *)
EXTENDS SymbolRegistry, TLC

CONSTANTS i1, i2, k1, k2, p1, p2, r1, r2

q(k, p) == [s |-> k, c |-> p]

\* Two symbols in one batch: the first entry can fail and abort the second.
BothSymbols == {<<q(k1, p1), q(k2, p1)>>}
\* Two symbols, an empty batch, a quote that is not a number.
Mixed == {<<q(k1, p1), q(k2, p1)>>, <<>>, <<q(k1, NotFinite), q(k1, p1)>>}

RequestSymmetry == Permutations(Requests)
=============================================================================
