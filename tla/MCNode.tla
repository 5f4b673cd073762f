------------------------------- MODULE MCNode -------------------------------
(* Model values for the small instances of Node: one public peer and no      *)
(* other neighbour.                                                          *)
EXTENDS Node

CONSTANT pub
=============================================================================
