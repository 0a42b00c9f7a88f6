---------------------------- MODULE SkillPipeline ----------------------------
(***************************************************************************)
(* execute_pipeline of enterprise/skills/executor.py: the steps of a       *)
(* workflow template run in order, each with the error strategy of its     *)
(* skill or of the template, retries under "retry", and an audit callback. *)
(*                                                                         *)
(* One action per await (a call of skill.execute, the audit callback) and  *)
(* one for the synchronous code before and after. A step is reduced to     *)
(* what the executor asks of it: is the skill registered, do its           *)
(* parameters validate, which strategy is in force, how many retries.      *)
(***************************************************************************)
EXTENDS Naturals, Sequences, SequencesExt, FiniteSets

CONSTANTS
  Pipelines     \* the step sequences a template may compile to

Strategies == {"retry", "skip", "abort"}
Statuses == {"completed", "failed", "pending"}   \* pending: any other status
Unreadable == "unreadable"     \* an error_strategy_override that names no strategy
Steps == [known : BOOLEAN, valid : BOOLEAN, strategy : Strategies \cup {Unreadable},
          maxRetries : Nat]

ASSUME PipelineAssumption == Pipelines \subseteq Seq(Steps)

VARIABLES
  steps,        \* the argument
  pc,           \* where the loop stands
  i,            \* index of the current step
  attempt,      \* attempts of the current step that are over
  calls,        \* the calls of skill.execute that answered: step and status
  stepResults,  \* result.step_results
  stepsCompleted, \* result.steps_completed
  success,      \* result.success
  abortedAt,    \* result.aborted_at_step, 0 for None
  audited       \* the steps that the audit callback has recorded

vars == <<steps, pc, i, attempt, calls, stepResults, stepsCompleted, success, abortedAt, audited>>
outcome == <<stepsCompleted, success, abortedAt>>

Init ==
  /\ steps \in Pipelines
  /\ pc = "prepare"
  /\ i = 1
  /\ attempt = 0
  /\ calls = <<>>
  /\ stepResults = <<>>
  /\ stepsCompleted = 0
  /\ success = TRUE
  /\ abortedAt = 0
  /\ audited = <<>>

Step == steps[i]
MaxAttempts == IF Step.strategy = "retry" THEN Step.maxRetries + 1 ELSE 1

Record(status, ran) ==
  stepResults' = Append(stepResults, [step |-> i, status |-> status, ran |-> ran])

Abort ==
  /\ success' = FALSE
  /\ abortedAt' = i
  /\ pc' = "returned"
  /\ UNCHANGED <<i, stepsCompleted>>

\* Variant: the index is advanced by hand and by the loop.
PassOver_Twice ==
  /\ i' = i + 2
  /\ pc' = "prepare"
  /\ UNCHANGED outcome

\* The continue statements: the next step, and nothing counted.
PassOver ==
  /\ i' = i + 1
  /\ pc' = "prepare"
  /\ UNCHANGED outcome

-----------------------------------------------------------------------------
\* The loop is exhausted.
Return ==
  /\ pc = "prepare"
  /\ i > Len(steps)
  /\ pc' = "returned"
  /\ UNCHANGED <<steps, i, attempt, calls, stepResults, outcome, audited>>

\* get_skill found nothing: the pipeline stops whatever the strategy.
UnknownSkill ==
  /\ pc = "prepare"
  /\ i <= Len(steps) /\ ~Step.known
  /\ Record("failed", FALSE)
  /\ Abort
  /\ UNCHANGED <<steps, attempt, calls, audited>>

\* ErrorStrategy(step.error_strategy_override) raises a ValueError, which
\* nothing catches: neither this step nor the ones before have a result.
UnreadableStrategy ==
  /\ pc = "prepare"
  /\ i <= Len(steps) /\ Step.known /\ Step.strategy = Unreadable
  /\ pc' = "raised"
  /\ UNCHANGED <<steps, i, attempt, calls, stepResults, outcome, audited>>

\* validate_params raised: only ABORT stops the pipeline.
InvalidParams ==
  /\ pc = "prepare"
  /\ i <= Len(steps) /\ Step.known /\ Step.strategy # Unreadable /\ ~Step.valid
  /\ Record("failed", FALSE)
  /\ IF Step.strategy = "abort" THEN Abort ELSE PassOver
  /\ UNCHANGED <<steps, attempt, calls, audited>>

Prepare ==
  /\ pc = "prepare"
  /\ i <= Len(steps) /\ Step.known /\ Step.strategy # Unreadable /\ Step.valid
  /\ pc' = "execute"
  /\ attempt' = 0
  /\ UNCHANGED <<steps, i, calls, stepResults, outcome, audited>>

\* Variant: the retry loop is left on failure instead of on completion.
Execute_StopsOnFailureOnly ==
  /\ pc = "execute"
  /\ \E status \in Statuses :
       /\ calls' = Append(calls, [step |-> i, status |-> status])
       /\ attempt' = attempt + 1
       /\ IF status # "failed" /\ attempt + 1 < MaxAttempts
            THEN UNCHANGED <<pc, stepResults>>
            ELSE /\ Record(status, TRUE)
                 /\ pc' = "audit"
  /\ UNCHANGED <<steps, i, outcome, audited>>

\* One attempt; the last one's result is recorded.
Execute ==
  /\ pc = "execute"
  /\ \E status \in Statuses :
       /\ calls' = Append(calls, [step |-> i, status |-> status])
       /\ attempt' = attempt + 1
       /\ IF status # "completed" /\ attempt + 1 < MaxAttempts
            THEN UNCHANGED <<pc, stepResults>>
            ELSE /\ Record(status, TRUE)
                 /\ pc' = "audit"
  /\ UNCHANGED <<steps, i, outcome, audited>>

(***************************************************************************)
(* skill.execute raised. The executor does not catch it, the caller gets   *)
(* no PipelineResult, and the attempt leaves no trace.                     *)
(***************************************************************************)
ExecuteRaises ==
  /\ pc = "execute"
  /\ pc' = "raised"
  /\ UNCHANGED <<steps, i, attempt, calls, stepResults, outcome, audited>>

\* Variant: the callback is given the number of the step, counted from one
\* more than the records are.
Audit_OffByOne ==
  /\ pc = "audit"
  /\ audited' \in {audited, Append(audited, i + 1)}
  /\ pc' = "handle"
  /\ UNCHANGED <<steps, i, attempt, calls, stepResults, outcome>>

\* The audit callback, which may be missing or fail: that is only logged.
Audit ==
  /\ pc = "audit"
  /\ audited' \in {audited, Append(audited, i)}
  /\ pc' = "handle"
  /\ UNCHANGED <<steps, i, attempt, calls, stepResults, outcome>>

\* Variant: RETRY is handled as SKIP once the retries are used up.
HandleFailure_RetryPasses ==
  /\ pc = "handle"
  /\ Last(stepResults).status = "failed"
  /\ IF Step.strategy = "abort" THEN Abort ELSE PassOver
  /\ UNCHANGED <<steps, attempt, calls, stepResults, audited>>

\* A failed step: SKIP passes over it, ABORT and an exhausted RETRY stop.
HandleFailure ==
  /\ pc = "handle"
  /\ Last(stepResults).status = "failed"
  /\ IF Step.strategy = "skip" THEN PassOver ELSE Abort
  /\ UNCHANGED <<steps, attempt, calls, stepResults, audited>>

\* Any other status counts as completed, also the PENDING of a login that waits
\* for somebody to solve the captcha.
CountStep ==
  /\ pc = "handle"
  /\ Last(stepResults).status # "failed"
  /\ stepsCompleted' = stepsCompleted + 1
  /\ i' = i + 1
  /\ pc' = "prepare"
  /\ UNCHANGED <<steps, attempt, calls, stepResults, success, abortedAt, audited>>

Next ==
  \/ Return \/ UnknownSkill \/ UnreadableStrategy \/ InvalidParams \/ Prepare
  \/ Execute \/ ExecuteRaises \/ Audit \/ HandleFailure \/ CountStep

Spec == Init /\ [][Next]_vars

-----------------------------------------------------------------------------
(* Properties.                                                             *)

\* Every variable keeps its type.
TypeOK ==
  /\ steps \in Pipelines
  /\ pc \in {"prepare", "execute", "audit", "handle", "returned", "raised"}
  /\ i \in 1..(Len(steps) + 1) /\ attempt \in Nat
  /\ calls \in Seq([step : Nat, status : Statuses])
  /\ stepResults \in Seq([step : Nat, status : Statuses, ran : BOOLEAN])
  /\ stepsCompleted \in Nat /\ success \in BOOLEAN /\ abortedAt \in Nat
  /\ audited \in Seq(Nat)

(***************************************************************************)
(* What the caller of execute_pipeline may conclude from its result. The   *)
(* records are those of the steps up to the abort, or of all steps, one    *)
(* each and in order. An abort was earned by the step it names, and nothing*)
(* ran after it. A success passed over a failed step only where the        *)
(* strategy says skip or where its parameters were invalid. And            *)
(* steps_completed is the number of records that do not say failed.        *)
(***************************************************************************)
ResultIsHonest ==
  pc = "returned" =>
    LET last == IF success THEN Len(steps) ELSE abortedAt IN
    /\ Len(stepResults) = last
    /\ \A k \in 1..last : stepResults[k].step = k
    /\ \A k \in 1..Len(calls) : calls[k].step <= last
    /\ ~success => /\ stepResults[last].status = "failed"
                   /\ stepResults[last].ran => steps[last].strategy # "skip"
    /\ \A k \in 1..(IF success THEN last ELSE last - 1) :
         stepResults[k].status = "failed" =>
           \/ steps[k].strategy = "skip"
           \/ ~stepResults[k].ran /\ steps[k].strategy = "retry"
    /\ stepsCompleted =
         Cardinality({k \in 1..last : stepResults[k].status # "failed"})

\* A skill works on live banking pages: it is called again only under RETRY,
\* at most max_retries times, and never after an attempt that completed.
RepeatsAreWarranted ==
  \A a, b \in 1..Len(calls) : a < b /\ calls[a].step = calls[b].step =>
    /\ calls[a].status # "completed"
    /\ steps[calls[a].step].strategy = "retry"
    /\ b - a <= steps[calls[a].step].maxRetries

\* The audit trail follows the pipeline: a step appears in it once at most,
\* in order, and only when the step was executed and its outcome recorded.
AuditFollows ==
  /\ \A a, b \in 1..Len(audited) : a < b => audited[a] < audited[b]
  /\ \A a \in 1..Len(audited) :
       \E k \in 1..Len(stepResults) :
         stepResults[k].step = audited[a] /\ stepResults[k].ran

=============================================================================
