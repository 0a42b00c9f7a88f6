-------------------------- MODULE MCAgentCoordinator --------------------------
(***************************************************************************)
(* A small office for AgentCoordinator: "download" has no risk keyword,    *)
(* "export" scans as high, "wire" as critical, "move" is a large sum with  *)
(* no keyword. One plan is empty, as an answer without "steps" is; the      *)
(* other asks for a new plan when its first step fails, with a step left   *)
(* to go on with, and skips its last one when that fails.                  *)
(***************************************************************************)
EXTENDS AgentCoordinator

CONSTANTS modelled, plain    \* a task whose planner has a model, one without

MCGoals == {"download", "export", "wire", "move"}
MCKeywords ==
  [g \in MCGoals |-> CASE g = "download" -> "low"
                       [] g = "export" -> "high"
                       [] g = "wire" -> "critical"
                       [] g = "move" -> "amount"]

MCNavGoal == [t \in Tasks |-> IF t = modelled THEN "download" ELSE "wire"]

\* The coordinator with a model works on the framework like the other, or on
\* the planner/executor loop.
MCModes == {{plain}, Tasks}
LoopOnly == {{}}

\* Only the task with a model is run again.
MCRestarts == [t \in Tasks |-> IF t = modelled THEN 1 ELSE 0]

S(goal, strategy, retries) == [goal |-> goal, strategy |-> strategy, retries |-> retries]

MCPlans == { <<>>, << S("export", "replan", 0), S("move", "skip", 0) >> }

\* One plan of two different goals, none of which asks for a replan.
TwoSteps == { << S("export", "abort", 0), S("move", "abort", 0) >> }

=============================================================================
