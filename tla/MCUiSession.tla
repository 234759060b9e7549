----------------------------- MODULE MCUiSession -----------------------------
(***************************************************************************)
(* An instance of UiSession for TLC: two runs, which two asking events may *)
(* follow at once, and two pauses, of one run or of both.  The runs are    *)
(* interchangeable, and only safety is checked: the symmetry is sound.     *)
(***************************************************************************)
EXTENDS UiSession

MCOutcomes == {"completed", "no_capability"}
MCSymmetry == Permutations(Runs)
=============================================================================
