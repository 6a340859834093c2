---------------------------- MODULE MCHedgeEngine ----------------------------
(* Small instances of the hedge engine. *)
EXTENDS HedgeEngine

MCExposures == {-2, 0, 1}
==============================================================================
