---------------------------- MODULE MCAutoPeering ----------------------------
(* Model values for the small instances of AutoPeering: one public peer, one  *)
(* configured Internet peer and one link-local neighbour.                     *)
EXTENDS AutoPeering

CONSTANTS pub, conf, ll
=============================================================================
