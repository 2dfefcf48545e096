--------------------------- MODULE MCRuleEditors ---------------------------
(* Two items the backend holds, and the name of a third. *)
EXTENDS RuleEditors

CONSTANTS n1, n2, n3

MCNames  == {n1, n2, n3}
MCStored == {n1, n2}
=============================================================================
