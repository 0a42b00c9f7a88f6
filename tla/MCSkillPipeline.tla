--------------------------- MODULE MCSkillPipeline ---------------------------
(***************************************************************************)
(* Every pipeline of at most three steps over seven kinds of step: each    *)
(* strategy with valid parameters, invalid parameters under two of them, a *)
(* name that is not registered, and a strategy that is none. LoginSkill    *)
(* (abort, 3 retries) and PaginationSkill (skip, 1 retry) declare retries  *)
(* that their strategy never grants.                                       *)
(***************************************************************************)
EXTENDS SkillPipeline

Kind(known, valid, strategy, retries) ==
  [known |-> known, valid |-> valid, strategy |-> strategy, maxRetries |-> retries]

MCKinds ==
  { Kind(TRUE, TRUE, "abort", 1), Kind(TRUE, TRUE, "skip", 1), Kind(TRUE, TRUE, "retry", 1),
    Kind(TRUE, FALSE, "abort", 0), Kind(TRUE, FALSE, "retry", 1), Kind(FALSE, TRUE, "skip", 0),
    Kind(TRUE, TRUE, Unreadable, 0) }

MCPipelines == UNION {[1..n -> MCKinds] : n \in 0..3}

=============================================================================
