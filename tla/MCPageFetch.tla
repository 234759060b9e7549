----------------------------- MODULE MCPageFetch -----------------------------
(***************************************************************************)
(* An instance of PageFetch for TLC: two calls, three pages, one domain    *)
(* that they all are on.                                                   *)
(***************************************************************************)
EXTENDS PageFetch

MCCalls == {"run1", "run2"}
MCResults == [c \in MCCalls |-> IF c = "run1" THEN 1..2 ELSE 1..1]
MCDomain == [w \in MCCalls \X (1..2) |-> "site"]
MCPdf == {<<"run1", 2>>}
MCDisallowed == {<<"run2", 1>>}
=============================================================================
