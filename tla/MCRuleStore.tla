----------------------------- MODULE MCRuleStore -----------------------------
(* Two clients, two rules that start in the array file, in files of their own, *)
(* in both or in none, and two requests, edits or restarts.                   *)
EXTENDS RuleStore
=============================================================================
