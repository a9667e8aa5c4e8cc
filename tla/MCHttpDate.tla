----------------------------- MODULE MCHttpDate -----------------------------
(* Every first of January until the dates have five digits for the year, and *)
(* every day up to 2104 and around the ends of an era and of that bound.      *)
EXTENDS HttpDate

MCFullYears == (1968..2104) \cup (2396..2404) \cup (9996..10001)

MCSeconds == {0, 59, 60, 3599, 3600, 43261, 86399}
=============================================================================
