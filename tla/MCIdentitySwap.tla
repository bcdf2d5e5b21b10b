--------------------------- MODULE MCIdentitySwap ----------------------------
(***************************************************************************)
(* Model checking of IdentitySwap.  The configurations give the constants  *)
(* their values: the messages published, the consumers' prefetch, how many *)
(* faults of which kinds happen, and the swap mode.                        *)
(***************************************************************************)
EXTENDS IdentitySwap
=============================================================================
