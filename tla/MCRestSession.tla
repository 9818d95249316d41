--------------------------- MODULE MCRestSession ---------------------------
(***************************************************************************)
(* Sessions are interchangeable.  Ticks are counted far smaller than the   *)
(* code's seconds; SessionAssumption keeps their order.                    *)
(***************************************************************************)
EXTENDS RestSession, TLC

SessionSymmetry == Permutations(Sessions)
=============================================================================
