----------------------------- MODULE MCTransfer -----------------------------
(* The runs of Transfer: the configuration files give the small lengths. *)
EXTENDS Transfer
=============================================================================
