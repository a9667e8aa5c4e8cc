-------------------------- MODULE MCServerFairness --------------------------
(* Two workers, a panic of one of which unwinds: with two connections the    *)
(* queue is full while the main thread pushes, and a worker has each while   *)
(* it stops.                                                                 *)
EXTENDS ServerFairness

CONSTANTS c1, c2, w1, w2

MCConns == {c1, c2}
MCWorkers == {w1, w2}
MCFragile == {w1}
=============================================================================
