---------------------------- MODULE MCActionLoop ----------------------------
(***************************************************************************)
(* Instances of ActionLoop for TLC.  Another version of the code, whose    *)
(* guard knew fewer words, may have stored a step that looks like a        *)
(* payment to this one.                                                    *)
(***************************************************************************)
EXTENDS ActionLoop

MCCredentials == {{"password"}, {"email", "password"}}
MCLegacy ==
  {<<[kind |-> "click", aimed |-> TRUE, pay |-> FALSE, text |-> "none"],
     [kind |-> "type", aimed |-> FALSE, pay |-> TRUE, text |-> "text"],
     [kind |-> "done", aimed |-> FALSE, pay |-> FALSE, text |-> "none"]>>}
=============================================================================
