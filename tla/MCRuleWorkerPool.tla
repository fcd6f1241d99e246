--------------------------- MODULE MCRuleWorkerPool ---------------------------
(* RuleWorkerPool on two workers whose channels hold one task each.           *)
EXTENDS RuleWorkerPool
=============================================================================
