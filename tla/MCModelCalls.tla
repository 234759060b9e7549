---------------------------- MODULE MCModelCalls ----------------------------
(***************************************************************************)
(* The instance of ModelCalls for TLC: three calls, enough for one to find *)
(* what two others have left on the wrapper.                               *)
(***************************************************************************)
EXTENDS ModelCalls, TLC

MCSymmetry == Permutations(Calls)
=============================================================================
