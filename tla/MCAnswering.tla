----------------------------- MODULE MCAnswering -----------------------------
(***************************************************************************)
(* Instances of Answering for TLC.  A page of two units is one chunk, one  *)
(* of six is three, the last of them shorter.                              *)
(***************************************************************************)
EXTENDS Answering

ShortAndLong == <<2, 6>>
=============================================================================
