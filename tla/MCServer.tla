------------------------------ MODULE MCServer ------------------------------
(* Model values and symmetry for the runs of Server. *)
EXTENDS Server, TLC

CONSTANTS c1, c2, c3, w1, w2

MCConns == {c1, c2, c3}
MCWorkers == {w1, w2}
MCFragile == {w1}

\* A panic of w1 unwinds, one of w2 ends the process; connections are alike.
MCSymmetry == Permutations(MCConns)
=============================================================================
