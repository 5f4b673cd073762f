----------------------------- MODULE MCKeySearch -----------------------------
(* Model values for the small instances of KeySearch.                         *)
EXTENDS KeySearch

CONSTANTS t1, t2, t3
=============================================================================
