--------------------------- MODULE AgentCoordinator ---------------------------
(***************************************************************************)
(* AgentCoordinator.run of enterprise/agent/coordinator.py: a task is      *)
(* planned, executed step by step with retries, and replanned on failure.  *)
(*                                                                         *)
(* There are two ways through it. The planner/executor loop (_execute_plan *)
(* and _handle_failure) skips, aborts or replans after a failed step. The  *)
(* message framework (_run_framework, the default) sends every concern of  *)
(* a step - gating, approval, review, experience - through the whole       *)
(* pipeline of framework/orchestrator.py, whose agents are looked up in    *)
(* one registry shared by all coordinators of the process.                 *)
(*                                                                         *)
(* One action per await: an agent's answer, an attempt of the executor.    *)
(* The review and the experience stage, which decide nothing, are taken    *)
(* together with the return to the coordinator. _execute_plan calls itself *)
(* after a replan: the calls that wait for an inner one are a stack here.  *)
(***************************************************************************)
EXTENDS Naturals, Sequences

CONSTANTS
  Tasks,        \* tasks, each with a coordinator of its own
  Modes,        \* the sets of tasks whose coordinators may have use_framework=True
  WithLLM,      \* the tasks whose planner has an llm_callable
  Goals,        \* texts of goals and steps
  Keywords,     \* Keywords[g]: what the keyword scan makes of text g
  NavGoal,      \* NavGoal[t]: the navigation goal of task t
  LLMPlans,     \* the plans a language model may answer with
  MaxReplans,   \* max_replans
  MaxRestarts   \* MaxRestarts[t]: bound on the resumes of t

Strategies == {"retry", "skip", "abort", "replan"}
Steps == [goal : Goals, strategy : Strategies, retries : Nat]
Frames == [plan : Seq(Steps), base : Nat, pos : Nat \ {0}]
RiskLevels == {"low", "medium", "high", "critical"}

ASSUME CoordinatorAssumption ==
  /\ Modes \subseteq SUBSET Tasks /\ WithLLM \subseteq Tasks
  /\ Keywords \in [Goals -> RiskLevels \cup {"amount"}]
  /\ NavGoal \in [Tasks -> Goals]
  /\ LLMPlans \subseteq Seq(Steps)
  /\ MaxReplans \in Nat /\ MaxRestarts \in [Tasks -> Nat]

VARIABLES
  framework,    \* the tasks whose coordinator has use_framework=True
  pc,           \* pc[t]: what the coordinator of t awaits
  plan,         \* plan[t]: the steps of the current plan
  base,         \* base[t]: the ids of the plan's steps start after this one
  pos,          \* pos[t]: index of the current step
  tries,        \* tries[t]: attempts of the current step that have failed
  results,      \* results[t]: what became of the steps before pos
  outer,        \* outer[t]: the calls of _execute_plan that wait for an inner one
  done,         \* done[t]: completed_subtasks, the ids handed to a resume
  replans,      \* replans[t]: total_replans
  status,       \* status[t]: the status of the CoordinationState
  run,          \* run[t]: what the current pass of the pipeline is for
  ctx,          \* ctx[t]: the context the pipeline accumulates
  performed,    \* performed[t]: the successful attempts, in order
  restarts,     \* restarts[t]: resumes of t so far
  serving,      \* whose agents the registry holds
  records       \* approvals written by the approval agent

loop == <<plan, base, pos, tries, results, outer>>
book == <<done, replans, status, performed, restarts, framework>>
pipe == <<run, ctx, serving, records>>
vars == <<pc, loop, book, pipe>>

Nobody == "nobody"
Blank == "blank"            \* the empty text of the review and experience passes
Ended == {"completed", "failed", "needs_human"}

\* An empty context, for a pass about the given text.
NewContext(text) ==
  [text |-> text, required |-> FALSE, approved |-> FALSE, carriesPlan |-> FALSE]

Init ==
  /\ framework \in Modes
  /\ pc = [t \in Tasks |-> "new"]
  /\ plan = [t \in Tasks |-> <<>>]
  /\ base = [t \in Tasks |-> 0]
  /\ pos = [t \in Tasks |-> 1]
  /\ tries = [t \in Tasks |-> 0]
  /\ results = [t \in Tasks |-> <<>>]
  /\ outer = [t \in Tasks |-> <<>>]
  /\ done = [t \in Tasks |-> {}]
  /\ replans = [t \in Tasks |-> 0]
  /\ status = [t \in Tasks |-> "running"]
  /\ run = [t \in Tasks |-> "none"]
  /\ ctx = [t \in Tasks |-> NewContext(Blank)]
  /\ performed = [t \in Tasks |-> <<>>]
  /\ restarts = [t \in Tasks |-> 0]
  /\ serving = Nobody
  /\ records = {}

-----------------------------------------------------------------------------
(* The planner and the risk detector.                                      *)

\* _create_fallback_plan and the fallback of replan: one step, abort.
FallbackPlan(t) == << [goal |-> NavGoal[t], strategy |-> "abort", retries |-> 3] >>
FallbackReplan(t) == << [goal |-> NavGoal[t], strategy |-> "abort", retries |-> 2] >>

\* create_plan: a model's answer, or the fallback when it cannot be read.
PlansFor(t, planner) ==
  {FallbackPlan(t)} \cup IF planner \in WithLLM THEN LLMPlans ELSE {}

ReplansFor(t) == {FallbackReplan(t)} \cup IF t \in WithLLM THEN LLMPlans ELSE {}

(***************************************************************************)
(* detect_risk. A text without keywords never reaches the model ("amount": *)
(* a large sum and no keyword). Otherwise the model's level stands, up or  *)
(* down; without an answer a medium text counts as high.                   *)
(***************************************************************************)
Detected(text, llm) ==
  LET found == IF text = Blank THEN "low" ELSE Keywords[text] IN
  CASE found = "low" -> {"low"}
    [] found = "amount" -> {"medium"}
    [] OTHER -> IF llm THEN {"medium", "high", "critical"} ELSE {found}

IdOf(t) == base[t] + pos[t]
Step(t) == plan[t][pos[t]]

-----------------------------------------------------------------------------
Goto(t, at) == pc' = [pc EXCEPT ![t] = at]

\* Take up a plan. SubTask draws a new id for every step.
Adopt(t, p) ==
  /\ plan' = [plan EXCEPT ![t] = p]
  /\ base' = [base EXCEPT ![t] = @ + Len(plan[t])]
  /\ pos' = [pos EXCEPT ![t] = 1]
  /\ tries' = [tries EXCEPT ![t] = 0]
  /\ results' = [results EXCEPT ![t] = <<>>]

NextStep(t, result) ==
  /\ pos' = [pos EXCEPT ![t] = @ + 1]
  /\ tries' = [tries EXCEPT ![t] = 0]
  /\ results' = [results EXCEPT ![t] = Append(@, result)]
  /\ UNCHANGED <<plan, base, outer>>

\* The verdict is in the state; the calls that are open return it.
Finish(t, verdict) ==
  /\ status' = [status EXCEPT ![t] = verdict]
  /\ Goto(t, "return")

\* Begin a pass of the pipeline.
Pass(t, what, context) ==
  /\ run' = [run EXCEPT ![t] = what]
  /\ ctx' = [ctx EXCEPT ![t] = context]
  /\ Goto(t, "plan_request")

(***************************************************************************)
(* __init__ and the head of run. _build_orchestrator registers this        *)
(* coordinator's agents over those of any other.                           *)
(***************************************************************************)
Start(t) ==
  /\ pc[t] = "new"
  /\ IF t \in framework
       THEN /\ serving' = t
            /\ Pass(t, "planning", NewContext(NavGoal[t]))
       ELSE Goto(t, "create_plan") /\ UNCHANGED <<serving, run, ctx>>
  /\ UNCHANGED <<loop, book, records>>

-----------------------------------------------------------------------------
(* The planner/executor loop.                                              *)

CreatePlan(t) ==
  /\ pc[t] = "create_plan"
  /\ \E p \in PlansFor(t, t) : Adopt(t, p)
  /\ Goto(t, "step")
  /\ UNCHANGED <<outer, book, pipe>>

\* The example lookup of a planner with a model may raise.
CreatePlanRaises(t) ==
  /\ pc[t] = "create_plan"
  /\ t \in WithLLM
  /\ Finish(t, "failed")
  /\ UNCHANGED <<loop, done, replans, performed, restarts, framework, pipe>>

\* Head of the loop over plan.subtasks: the end, a step already done, or a step.
TakeStep(t) ==
  /\ pc[t] = "step"
  /\ IF pos[t] > Len(plan[t])
       THEN Finish(t, "completed") /\ UNCHANGED <<loop, run, ctx>>
       ELSE /\ UNCHANGED status
            /\ IF t \in framework
                 THEN /\ Pass(t, "gating", NewContext(Step(t).goal))
                      /\ UNCHANGED loop
                 ELSE /\ UNCHANGED <<run, ctx>>
                      /\ IF IdOf(t) \in done[t]
                           THEN NextStep(t, "done") /\ UNCHANGED pc
                           ELSE Goto(t, "attempt") /\ UNCHANGED loop
  /\ UNCHANGED <<done, replans, performed, restarts, framework, serving, records>>

(***************************************************************************)
(* execute_subtask: one call of the handler that succeeds. The loop notes  *)
(* the id and goes on; the framework asks for a review first. The audit    *)
(* callback in between cannot fail the step.                               *)
(***************************************************************************)
AttemptSucceeds(t) ==
  /\ pc[t] = "attempt"
  /\ performed' = [performed EXCEPT ![t] = Append(@, [id |-> IdOf(t), goal |-> Step(t).goal])]
  /\ IF t \in framework
       THEN Pass(t, "review", NewContext(Blank)) /\ UNCHANGED <<loop, done>>
       ELSE /\ done' = [done EXCEPT ![t] = @ \cup {IdOf(t)}]
            /\ NextStep(t, "ok")
            /\ Goto(t, "step")
            /\ UNCHANGED <<run, ctx>>
  /\ UNCHANGED <<replans, status, restarts, framework, serving, records>>

\* A call that fails or raises; range(max_retries + 1) bounds them.
AttemptFails(t) ==
  /\ pc[t] = "attempt"
  /\ IF tries[t] < Step(t).retries
       THEN tries' = [tries EXCEPT ![t] = @ + 1] /\ UNCHANGED pc
       ELSE Goto(t, "failure") /\ UNCHANGED tries
  /\ UNCHANGED <<plan, base, pos, results, outer, book, pipe>>

\* Variant: every failed step is skipped unless it says abort.
SkipFailure_Lenient(t) ==
  /\ pc[t] = "failure"
  /\ Step(t).strategy # "abort"
  /\ NextStep(t, "skipped")
  /\ Goto(t, "step")
  /\ UNCHANGED <<book, pipe>>

SkipFailure(t) ==
  /\ pc[t] = "failure"
  /\ Step(t).strategy = "skip"
  /\ NextStep(t, "skipped")
  /\ Goto(t, "step")
  /\ UNCHANGED <<book, pipe>>

\* "abort", and "retry" once the retries are used up; a framework "replan".
FailTask(t) ==
  /\ pc[t] = "failure"
  /\ \/ Step(t).strategy \in {"abort", "retry"}
     \/ Step(t).strategy = "replan" /\ t \in framework
  /\ Finish(t, "failed")
  /\ UNCHANGED <<loop, done, replans, performed, restarts, framework, pipe>>

Escalate(t) ==
  /\ pc[t] = "failure"
  /\ Step(t).strategy = "replan" /\ t \notin framework
  /\ replans[t] >= MaxReplans
  /\ Finish(t, "needs_human")
  /\ UNCHANGED <<loop, done, replans, performed, restarts, framework, pipe>>

\* Variant: the limit is compared after the fact.
AskReplan_OneMore(t) ==
  /\ pc[t] = "failure"
  /\ Step(t).strategy = "replan" /\ t \notin framework
  /\ replans[t] <= MaxReplans
  /\ replans' = [replans EXCEPT ![t] = @ + 1]
  /\ Goto(t, "replan")
  /\ UNCHANGED <<loop, done, status, performed, restarts, framework, pipe>>

AskReplan(t) ==
  /\ pc[t] = "failure"
  /\ Step(t).strategy = "replan" /\ t \notin framework
  /\ replans[t] < MaxReplans
  /\ replans' = [replans EXCEPT ![t] = @ + 1]
  /\ Goto(t, "replan")
  /\ UNCHANGED <<loop, done, status, performed, restarts, framework, pipe>>

\* Variant: every new plan brings a fresh allowance of replans (and keeps the
\* ids, so that the runs of this variant are finitely many).
Replan_FreshCount(t) ==
  /\ pc[t] = "replan"
  /\ \E p \in ReplansFor(t) : plan' = [plan EXCEPT ![t] = p]
  /\ pos' = [pos EXCEPT ![t] = 1]
  /\ tries' = [tries EXCEPT ![t] = 0]
  /\ results' = [results EXCEPT ![t] = <<>>]
  /\ replans' = [replans EXCEPT ![t] = 0]
  /\ Goto(t, "step")
  /\ UNCHANGED <<base, outer, done, status, performed, restarts, framework, pipe>>

\* replan, and the inner call of _execute_plan on its answer.
Replan(t) ==
  /\ pc[t] = "replan"
  /\ outer' = [outer EXCEPT ![t] = <<[plan |-> plan[t], base |-> base[t], pos |-> pos[t]]>> \o @]
  /\ \E p \in ReplansFor(t) : Adopt(t, p)
  /\ Goto(t, "step")
  /\ UNCHANGED <<book, pipe>>

ReplanRaises(t) ==
  /\ pc[t] = "replan"
  /\ t \in WithLLM
  /\ Finish(t, "needs_human")
  /\ UNCHANGED <<loop, done, replans, performed, restarts, framework, pipe>>

\* Variant: the outer call takes the replan for a step that is over, and goes
\* on with the plan it has replaced.
Return_GoesOn(t) ==
  /\ pc[t] = "return"
  /\ outer[t] # <<>>
  /\ outer' = [outer EXCEPT ![t] = Tail(@)]
  /\ plan' = [plan EXCEPT ![t] = Head(outer[t]).plan]
  /\ base' = [base EXCEPT ![t] = Head(outer[t]).base]
  /\ pos' = [pos EXCEPT ![t] = Head(outer[t]).pos + 1]
  /\ Goto(t, "step")
  /\ UNCHANGED <<tries, results, book, pipe>>

\* A call of _execute_plan returns. "replanned" makes the call around it return
\* at once; the outermost one is run's.
Return(t) ==
  /\ pc[t] = "return"
  /\ IF outer[t] = <<>>
       THEN Goto(t, "ended") /\ UNCHANGED outer
       ELSE outer' = [outer EXCEPT ![t] = Tail(@)] /\ UNCHANGED pc
  /\ UNCHANGED <<plan, base, pos, tries, results, book, pipe>>

-----------------------------------------------------------------------------
(* The framework: every pass runs the pipeline from its first stage, since *)
(* an empty pipeline argument means the default one.                       *)

(***************************************************************************)
(* plan_request, answered by whoever is registered. Only the planning pass *)
(* uses the answer. A planner with a model writes the context as JSON,     *)
(* which a context holding an earlier pass's plan is not.                  *)
(***************************************************************************)
CanPlan(t) == serving \in WithLLM => ~ctx[t].carriesPlan

PlanStage(t) ==
  /\ pc[t] = "plan_request"
  /\ CanPlan(t)
  /\ IF run[t] = "planning"
       THEN \E p \in PlansFor(t, serving) : Adopt(t, p)
       ELSE UNCHANGED <<plan, base, pos, tries, results>>
  /\ Goto(t, "risk_check")
  /\ UNCHANGED <<outer, book, pipe>>

\* A failed required stage fails the pass. Nobody looks at a review pass.
PlanStageFails(t) ==
  /\ pc[t] = "plan_request"
  /\ serving \in WithLLM
  /\ IF run[t] \in {"review", "experience"}
       THEN Goto(t, "returned") /\ UNCHANGED status
       ELSE Finish(t, "failed")
  /\ UNCHANGED <<loop, done, replans, performed, restarts, framework, pipe>>

RiskStage(t) ==
  /\ pc[t] = "risk_check"
  /\ \E level \in Detected(ctx[t].text, serving \in WithLLM) :
       ctx' = [ctx EXCEPT ![t].required = level \in {"high", "critical"}]
  /\ Goto(t, "approval_request")
  /\ UNCHANGED <<loop, book, run, serving, records>>

\* Variant: the approval is reported without a record.
ApprovalStage_NoRecord(t) ==
  /\ pc[t] = "approval_request"
  /\ ctx' = [ctx EXCEPT ![t].approved = ctx[t].approved \/ ctx[t].required]
  /\ Goto(t, "returned")
  /\ UNCHANGED <<loop, book, run, serving, records>>

(***************************************************************************)
(* approval_request runs when approval_required == True. The agent writes  *)
(* an approved record at once. The pass then returns.                      *)
(***************************************************************************)
ApprovalStage(t) ==
  /\ pc[t] = "approval_request"
  /\ IF ctx[t].required
       THEN /\ records' = records \cup {[task |-> t, text |-> ctx[t].text]}
            /\ ctx' = [ctx EXCEPT ![t].approved = TRUE]
       ELSE UNCHANGED <<records, ctx>>
  /\ Goto(t, "returned")
  /\ UNCHANGED <<loop, book, run, serving>>

\* _run_framework, after the pass it asked for has returned.
AfterPass(t) ==
  /\ pc[t] = "returned"
  /\ CASE run[t] = "planning" -> Goto(t, "step") /\ UNCHANGED <<loop, status, run, ctx>>
       [] run[t] = "gating" ->
            /\ UNCHANGED <<loop, status>>
            /\ IF ctx[t].required
                 THEN Pass(t, "approving", [ctx[t] EXCEPT !.carriesPlan = TRUE])
                 ELSE Goto(t, "attempt") /\ UNCHANGED <<run, ctx>>
       [] run[t] = "approving" ->
            /\ UNCHANGED <<loop, run, ctx>>
            /\ IF ctx[t].approved
                 THEN Goto(t, "attempt") /\ UNCHANGED status
                 ELSE Finish(t, "failed")
       [] run[t] = "review" ->
            Pass(t, "experience", NewContext(Blank)) /\ UNCHANGED <<loop, status>>
       [] run[t] = "experience" ->
            NextStep(t, "ok") /\ Goto(t, "step") /\ UNCHANGED <<status, run, ctx>>
  /\ UNCHANGED <<done, replans, performed, restarts, framework, serving, records>>

-----------------------------------------------------------------------------
(***************************************************************************)
(* The owner of a task that did not complete calls run again, with the     *)
(* completed ids of the state that run returned as resume_from.            *)
(***************************************************************************)
Resume(t) ==
  /\ pc[t] = "ended" /\ status[t] # "completed"
  /\ restarts[t] < MaxRestarts[t]
  /\ restarts' = [restarts EXCEPT ![t] = @ + 1]
  /\ replans' = [replans EXCEPT ![t] = 0]
  /\ status' = [status EXCEPT ![t] = "running"]
  /\ Goto(t, "new")
  /\ UNCHANGED <<loop, done, performed, framework, pipe>>

CoordinatorStep(t) ==
  \/ CreatePlan(t) \/ CreatePlanRaises(t) \/ TakeStep(t)
  \/ AttemptSucceeds(t) \/ AttemptFails(t)
  \/ SkipFailure(t) \/ FailTask(t) \/ Escalate(t)
  \/ AskReplan(t) \/ Replan(t) \/ ReplanRaises(t) \/ Return(t)
  \/ PlanStage(t) \/ PlanStageFails(t) \/ RiskStage(t) \/ ApprovalStage(t)
  \/ AfterPass(t)

Next == \E t \in Tasks : Start(t) \/ CoordinatorStep(t) \/ Resume(t)

\* Every awaited agent or handler answers; nobody owes a start or a resume.
Fairness == \A t \in Tasks : WF_vars(CoordinatorStep(t))

Spec == Init /\ [][Next]_vars
FairSpec == Spec /\ Fairness

-----------------------------------------------------------------------------
(* Properties.                                                             *)

\* Every variable keeps its type.
TypeOK ==
  /\ framework \in Modes
  /\ pc \in [Tasks -> {"new", "create_plan", "step", "attempt", "failure", "replan",
                       "plan_request", "risk_check", "approval_request", "returned",
                       "return", "ended"}]
  /\ plan \in [Tasks -> Seq(Steps)]
  /\ base \in [Tasks -> Nat] /\ pos \in [Tasks -> Nat \ {0}] /\ tries \in [Tasks -> Nat]
  /\ results \in [Tasks -> Seq({"ok", "skipped", "done"})]
  /\ outer \in [Tasks -> Seq(Frames)]
  /\ done \in [Tasks -> SUBSET Nat] /\ replans \in [Tasks -> 0..MaxReplans]
  /\ status \in [Tasks -> {"running"} \cup Ended]
  /\ run \in [Tasks -> {"none", "planning", "gating", "approving", "review", "experience"}]
  /\ ctx \in [Tasks -> [text : Goals \cup {Blank}, required : BOOLEAN,
                        approved : BOOLEAN, carriesPlan : BOOLEAN]]
  /\ performed \in [Tasks -> Seq([id : Nat, goal : Goals])]
  /\ restarts \in [Tasks -> Nat]
  /\ serving \in Tasks \cup {Nobody}
  /\ records \subseteq [task : Tasks, text : Goals \cup {Blank}]

\* The framework attempts a step only on the strength of a grading of that
\* step's own text: it asked for no approval, or an approval of this text for
\* this task is on record, although the approving pass grades the text anew
\* and the agents that answer may be another coordinator's.
GateHolds ==
  \A t \in framework : pc[t] = "attempt" =>
    /\ ctx[t].text = Step(t).goal
    /\ \/ [task |-> t, text |-> Step(t).goal] \in records
       \/ run[t] = "gating" /\ ~ctx[t].required

\* A task that reports "completed" accounts for every step of the plan it
\* ended with: the step was performed under its own id, or it failed and the
\* plan said that it may be skipped.
CompletedAccounts ==
  \A t \in Tasks : status[t] = "completed" =>
    /\ Len(results[t]) = Len(plan[t])
    /\ \A i \in 1..Len(plan[t]) :
         CASE results[t][i] = "skipped" -> plan[t][i].strategy = "skip"
           [] results[t][i] = "ok" ->
                \E k \in 1..Len(performed[t]) :
                  performed[t][k] = [id |-> base[t] + i, goal |-> plan[t][i].goal]
           [] OTHER -> base[t] + i \in done[t]

\* A plan that has been replaced is over. Its calls of _execute_plan are still
\* open, in the middle of their loops, while the new plan is carried out, and
\* return one into the other: none of its steps is performed any more. Within
\* a plan the steps are performed in order, each at most once. (That a resumed
\* run draws up a plan of new steps, with the same goals, is ResumeContinues.)
ReplacedPlanIsOver ==
  \A t \in Tasks : \A i, j \in 1..Len(performed[t]) :
    i < j => performed[t][i].id < performed[t][j].id

\* A task that was taken up ends: retries, replans and open calls run out.
EveryTaskEnds == \A t \in Tasks : pc[t] = "create_plan" \/ pc[t] = "plan_request"
                                    ~> pc[t] = "ended"

\* README.md: an interrupted batch "goes on from the last successful subtask".
\* A goal of the plan is therefore performed once.
ResumeContinues ==
  \A t \in Tasks : \A i, j \in 1..Len(performed[t]) :
    i # j => performed[t][i].goal # performed[t][j].goal

=============================================================================
