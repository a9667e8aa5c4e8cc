----------------------------- MODULE MCWorkQueue -----------------------------
(* Model values and symmetry for the runs of WorkQueue. *)
EXTENDS WorkQueue, TLC

CONSTANTS c1, c2, c3, c4, w1, w2, w3

MCConns == {c1, c2, c3, c4}
MCWorkers == {w1, w2, w3}
MCFragile == {w1}

\* w1 differs from the other workers (it may be unwound); connections are alike.
MCSymmetry == Permutations(MCConns) \cup Permutations(MCWorkers \ MCFragile)
=============================================================================
