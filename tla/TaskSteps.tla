------------------------------- MODULE TaskSteps -------------------------------
(***************************************************************************)
(* One task of the agent in skyvern/forge/agent.py: execute_step and the   *)
(* steps it creates, one after the other, until the task has a verdict.    *)
(* Beside it run a client that cancels the task, the cancel of its         *)
(* workflow run, and the background task that withdraws a step created on  *)
(* speculation while the goal was being verified.                          *)
(*                                                                         *)
(* execute_step calls itself for the next step, inside its own try block:  *)
(* the call for step k is the k-th on the stack, and `cur' is the one      *)
(* whose code runs. What is raised before the try block of a call, or by   *)
(* one of its except clauses, is caught by the clauses of the call below,  *)
(* which know the step below. No call goes on to another step after that.  *)
(*                                                                         *)
(* One action per stretch of code between two accesses to the database;    *)
(* what the browser and the language model do is the outcome of a step.    *)
(* update_task reads the row, checks the transition, and writes without    *)
(* looking again. At most MaxFaults awaited calls raise where the code has *)
(* no outcome for it; a call that raises has not written. Left out: a task *)
(* without any goal and one that completes with a download, which end      *)
(* after one step; the status timed_out, which nothing here writes; a      *)
(* process that dies. A task of a workflow has no webhook of its own.      *)
(***************************************************************************)
EXTENDS Naturals, Sequences

CONSTANTS
  Kinds,        \* the kinds of task, see TaskKind
  MaxSteps,     \* max_steps_per_run
  MaxRetries,   \* max_retries_per_step
  MaxFaults     \* bound on calls that raise

(***************************************************************************)
(* Where the task is executed, whether the goal of a step without a        *)
(* decisive action is verified, whether it has a data extraction goal, and *)
(* whether the browser is its own to close (close_browser_on_completion,   *)
(* no session, no address).                                                *)
(***************************************************************************)
TaskKind == [place : {"alone", "workflow"}, verify : {"yes", "no"}, extract : {"yes", "no"},
             browser : {"closes", "keeps"}]

ASSUME StepsAssumption ==
  /\ Kinds \subseteq TaskKind
  /\ MaxSteps \in Nat \ {0}
  /\ MaxRetries \in Nat
  /\ MaxFaults \in Nat

VARIABLES
  kind,       \* the kind of this task
  task,       \* the status in its row
  run,        \* the status of its workflow run
  steps,      \* the rows of its steps, in the order they were created
  cur,        \* the call that is executing, and its step: an index of steps
  next,       \* the step created on speculation, or 0
  clause,     \* the part of execute_step: the prologue, the body of try, an except clause
  pc,         \* where it stands in that part
  goal,       \* what the actions of the completed step say
  update,     \* the update_task call of the executor: what it writes, what it read
  discard,    \* the background task that withdraws the speculative step
  letter,     \* the status in the webhook the executor is about to send
  client,     \* the request that cancels the task
  notice,     \* the status in the webhook that request is about to send
  told,       \* the status in the last webhook
  browser,    \* whether clean_up_task has closed the browser
  starts,     \* steps started while the row said canceled
  raced,      \* whether a status was written over one that was not read
  astray,     \* whether a webhook was not sent, or was overtaken by a write
  faults,     \* calls that have raised
  slipped     \* the parts of the code in which they did

vars == <<kind, task, run, steps, cur, next, clause, pc, goal, update, discard, letter, client,
          notice, told, browser, starts, raced, astray, faults, slipped>>
ledger == <<task, steps, next, goal, raced>>
frame == <<cur, clause>>
mail == <<letter, told, astray>>
ends == <<mail, browser>>
slips == <<faults, slipped>>
others == <<kind, run, discard, client, notice, starts>>

Statuses == {"running", "completed", "failed", "terminated", "canceled"}
Final == Statuses \ {"running"}

NewStep(order, retry) ==
  [order |-> order, retry |-> retry, status |-> "created", last |-> "no"]
NoUpdate == [to |-> "none", read |-> "none"]

Init ==
  /\ kind \in Kinds
  /\ task = "running"
  /\ run = "running"
  /\ steps = <<NewStep(0, 0)>>
  /\ cur = 1
  /\ next = 0
  /\ clause = "prologue"
  /\ pc = "enter"
  /\ goal = "open"
  /\ update = NoUpdate
  /\ discard = "none"
  /\ letter = "none"
  /\ client = "none"
  /\ notice = "none"
  /\ told = "none"
  /\ browser = "open"
  /\ starts = 0
  /\ raced = "no"
  /\ astray = "no"
  /\ faults = 0
  /\ slipped = {}

\* TaskStatus.can_update_to: a cancelled task may still be completed.
CanUpdate(old, new) ==
  \/ old = "running" /\ new \in Final
  \/ old = "canceled" /\ new = "completed"

SetStep(i, s) == steps' = [steps EXCEPT ![i].status = s]
Flagged(i) == [steps EXCEPT ![i].last = "yes"]
Withdrawn(i) == [steps EXCEPT ![i].status = "canceled"]
GivenUp(i) == [steps EXCEPT ![i] = [@ EXCEPT !.status = "canceled", !.last = "yes"]]

\* The call update_task(status) begins.
Updates(status) == update' = [to |-> status, read |-> "none"] /\ pc' = "update"

-----------------------------------------------------------------------------
(* What an exception does to the stack of calls.                           *)

\* The clauses that call fail_task: for any exception, for a page that cannot be
\* scraped, and, without a webhook, for an action that cannot be parsed.
Failing == {"fail", "scrape", "parse"}

\* The innermost call whose try block the exception leaves.
Catcher == IF clause = "body" THEN cur ELSE cur - 1

\* It is handled there; an exception of the first call leaves execute_step.
Raises(handler) ==
  IF Catcher = 0
    THEN pc' = "over" /\ UNCHANGED frame
    ELSE /\ cur' = Catcher
         /\ clause' = handler
         /\ pc' = IF handler \in Failing THEN "fail" ELSE "clean"

\* The clauses for a task that cannot be updated: clean up, send nothing.
Refused == Raises("silent")

-----------------------------------------------------------------------------
(* execute_step up to agent_step.                                          *)

\* The workflow run is cancelled: so are the step and the task, nothing is cleaned up.
RunIsCanceled ==
  /\ pc = "enter" /\ kind.place = "workflow" /\ run = "canceled"
  /\ steps' = GivenUp(cur)
  /\ Updates("canceled")
  /\ UNCHANGED <<others, task, next, goal, raced, frame, ends, slips>>

RunGoesOn ==
  /\ pc = "enter" /\ ~(kind.place = "workflow" /\ run = "canceled")
  /\ pc' = "look"
  /\ UNCHANGED <<others, ledger, frame, update, ends, slips>>

TaskIsCanceled ==
  /\ pc = "look" /\ task = "canceled"
  /\ steps' = GivenUp(cur)
  /\ pc' = "clean"
  /\ UNCHANGED <<others, task, next, goal, raced, frame, update, ends, slips>>

\* Variant: the status of the task is not looked at.
Validate_AnyTask ==
  /\ pc = "look"
  /\ clause' = "body" /\ pc' = "ready"
  /\ UNCHANGED <<others, ledger, cur, update, ends, slips>>

\* Variant: a step that has failed bars the next one, too.
Validate_NoneFailed ==
  /\ pc = "look" /\ task = "running"
  /\ \A i \in DOMAIN steps : steps[i].status \notin {"running", "failed"}
  /\ clause' = "body" /\ pc' = "ready"
  /\ UNCHANGED <<others, ledger, cur, update, ends, slips>>

\* validate_step_execution: a running task, no other step running.
Validate ==
  /\ pc = "look" /\ task = "running"
  /\ \A i \in DOMAIN steps : steps[i].status # "running"
  /\ clause' = "body" /\ pc' = "ready"
  /\ UNCHANGED <<others, ledger, cur, update, ends, slips>>

\* The browser cannot be had or the page cannot be reached.
InitializeFails ==
  /\ pc = "ready"
  /\ \E handler \in {"fail", "scrape"} : Raises(handler)
  /\ UNCHANGED <<others, ledger, update, ends, slips>>

Start ==
  /\ pc = "ready"
  /\ SetStep(cur, "running")
  /\ starts' = IF task = "canceled" THEN starts + 1 ELSE starts
  /\ pc' = "acting"
  /\ UNCHANGED <<kind, run, discard, client, notice, task, next, goal, raced, frame, update,
                 ends, slips>>

-----------------------------------------------------------------------------
(* agent_step.                                                             *)

\* No action, an action that fails, or an exception: the step has failed.
StepFails ==
  /\ pc = "acting"
  /\ SetStep(cur, "failed")
  /\ pc' = "failed"
  /\ UNCHANGED <<others, task, next, goal, raced, frame, update, ends, slips>>

\* The actions were taken; they may include one that completes or terminates.
StepCompletes ==
  /\ pc = "acting"
  /\ SetStep(cur, "completed")
  /\ goal' \in {"open", "achieved", "terminated"}
  /\ pc' = IF goal' = "open" /\ kind.verify = "yes" THEN "verify" ELSE "completed"
  /\ UNCHANGED <<others, task, next, raced, frame, update, ends, slips>>

\* Scraping, parsing or an unknown action: the exception leaves agent_step.
StepRaises ==
  /\ pc = "acting"
  /\ \E handler \in {"scrape", "parse"} : Raises(handler)
  /\ UNCHANGED <<others, ledger, update, ends, slips>>

-----------------------------------------------------------------------------
(* handle_failed_step and handle_completed_step.                           *)

\* The next step is created, and execute_step is called for it.
Calls(order, retry) ==
  /\ steps' = Append(steps, NewStep(order, retry))
  /\ cur' = cur + 1 /\ clause' = "prologue" /\ pc' = "enter"

\* Variant: the first retry beyond the limit is still made.
Retry_OneMore ==
  /\ pc = "failed" /\ steps[cur].retry <= MaxRetries
  /\ Calls(steps[cur].order, steps[cur].retry + 1)
  /\ UNCHANGED <<others, task, next, goal, raced, update, ends, slips>>

\* Variant: a retry takes the next order.
Retry_NextOrder ==
  /\ pc = "failed" /\ steps[cur].retry < MaxRetries /\ steps[cur].order < MaxSteps
  /\ Calls(steps[cur].order + 1, 0)
  /\ UNCHANGED <<others, task, next, goal, raced, update, ends, slips>>

Retry ==
  /\ pc = "failed" /\ steps[cur].retry < MaxRetries
  /\ Calls(steps[cur].order, steps[cur].retry + 1)
  /\ UNCHANGED <<others, task, next, goal, raced, update, ends, slips>>

RetriesExhausted ==
  /\ pc = "failed" /\ steps[cur].retry >= MaxRetries
  /\ Updates("failed")
  /\ UNCHANGED <<others, ledger, frame, ends, slips>>

\* The decisive action of the step gives the verdict.
Decide ==
  /\ pc = "completed" /\ goal # "open"
  /\ steps' = Flagged(cur)
  /\ Updates(IF goal = "achieved" THEN "completed" ELSE "terminated")
  /\ UNCHANGED <<others, task, next, goal, raced, frame, ends, slips>>

AtLimit == steps[cur].order + 1 >= MaxSteps

NextStep ==
  /\ pc = "completed" /\ goal = "open" /\ ~AtLimit
  /\ Calls(steps[cur].order + 1, 0)
  /\ UNCHANGED <<others, task, next, goal, raced, update, ends, slips>>

StepsExhausted ==
  /\ pc = "completed" /\ goal = "open" /\ AtLimit
  /\ steps' = Flagged(cur)
  /\ Updates("failed")
  /\ UNCHANGED <<others, task, next, goal, raced, frame, ends, slips>>

-----------------------------------------------------------------------------
(* _handle_completed_step_with_parallel_verification.                      *)

\* The next step is created before it is known whether there will be one.
Speculate ==
  /\ pc = "verify"
  /\ steps' = Append(steps, NewStep(steps[cur].order + 1, 0))
  /\ next' = Len(steps) + 1
  /\ pc' = "verifying"
  /\ UNCHANGED <<others, task, goal, raced, frame, update, ends, slips>>

\* Variant: the verdict is recorded on the step that was created on speculation.
Verified_OnNext ==
  /\ pc = "verifying"
  /\ goal' \in {"achieved", "terminated"}
  /\ discard' = "pending"
  /\ cur' = next
  /\ pc' = "completed"
  /\ UNCHANGED <<kind, run, client, notice, starts, task, steps, next, raced, clause, update,
                 ends, slips>>

\* The goal is achieved or out of reach: a background task withdraws the next step.
Verified ==
  /\ pc = "verifying"
  /\ goal' \in {"achieved", "terminated"}
  /\ discard' = "pending"
  /\ pc' = "completed"
  /\ UNCHANGED <<kind, run, client, notice, starts, task, steps, next, raced, frame, update,
                 ends, slips>>

NotVerified ==
  /\ pc = "verifying" /\ ~AtLimit
  /\ cur' = next /\ next' = 0
  /\ clause' = "prologue" /\ pc' = "enter"
  /\ UNCHANGED <<others, task, steps, goal, raced, update, ends, slips>>

NotVerifiedAtLimit ==
  /\ pc = "verifying" /\ AtLimit
  /\ steps' = Flagged(cur)
  /\ pc' = "withdraw"
  /\ UNCHANGED <<others, task, next, goal, raced, frame, update, ends, slips>>

\* Variant: the step that was created on speculation stays.
Withdraw_Kept ==
  /\ pc = "withdraw"
  /\ Updates("failed")
  /\ UNCHANGED <<others, ledger, frame, ends, slips>>

\* _cancel_speculative_step.
Withdraw ==
  /\ pc = "withdraw"
  /\ steps' = Withdrawn(next)
  /\ Updates("failed")
  /\ UNCHANGED <<others, task, next, goal, raced, frame, ends, slips>>

\* Variant: the step whose goal was verified is withdrawn.
Discard_Verified ==
  /\ discard = "pending"
  /\ steps' = Withdrawn(cur)
  /\ discard' = "done"
  /\ UNCHANGED <<kind, run, client, notice, starts, task, next, goal, raced, frame, pc, update,
                 ends, slips>>

\* _persist_speculative_metadata_for_discarded_plan.
Discard ==
  /\ discard = "pending"
  /\ steps' = Withdrawn(next)
  /\ discard' = "done"
  /\ UNCHANGED <<kind, run, client, notice, starts, task, next, goal, raced, frame, pc, update,
                 ends, slips>>

-----------------------------------------------------------------------------
(* update_task and fail_task.                                              *)

\* Variant: the transition is not checked.
CheckUpdate_Any ==
  /\ pc = "update"
  /\ update' = [update EXCEPT !.read = task]
  /\ pc' = "write"
  /\ UNCHANGED <<others, ledger, frame, ends, slips>>

CheckUpdate ==
  /\ pc = "update"
  /\ CanUpdate(task, update.to)
  /\ update' = [update EXCEPT !.read = task]
  /\ pc' = "write"
  /\ UNCHANGED <<others, ledger, frame, ends, slips>>

(***************************************************************************)
(* TaskAlreadyCanceled or InvalidTaskStatusTransition. fail_task returns   *)
(* False: the general clause does not clean up then, the others do.        *)
(***************************************************************************)
UpdateRefused ==
  /\ pc = "update"
  /\ ~CanUpdate(task, update.to)
  /\ \/ clause \notin Failing /\ Refused
     \/ clause = "fail" /\ pc' = "over" /\ UNCHANGED frame
     \/ clause \in {"scrape", "parse"} /\ pc' = "clean" /\ UNCHANGED frame
  /\ UNCHANGED <<others, ledger, update, ends, slips>>

\* The goal is achieved but nothing was extracted: validate_update raises.
NothingExtracted ==
  /\ pc = "update" /\ update.to = "completed" /\ kind.extract = "yes"
  /\ CanUpdate(task, update.to)
  /\ Raises("fail")
  /\ UNCHANGED <<others, ledger, update, ends, slips>>

\* A webhook whose status has been read and that has not arrived is out of date.
Overtakes(pending) == astray' = IF pending THEN "yes" ELSE astray

WriteUpdate ==
  /\ pc = "write"
  /\ task' = update.to
  /\ raced' = IF task # update.read THEN "yes" ELSE raced
  /\ Overtakes(client = "posting")
  /\ pc' = IF clause = "prologue" THEN "over" ELSE "clean"
  /\ UNCHANGED <<others, steps, next, goal, frame, update, letter, told, browser, slips>>

\* Variant: where the step has failed already the task is taken for failed.
FailTask_Returns ==
  /\ pc = "fail" /\ steps[cur].status # "completed"
  /\ SetStep(cur, "failed")
  /\ IF steps[cur].status = "failed" THEN pc' = "clean" /\ UNCHANGED update ELSE Updates("failed")
  /\ UNCHANGED <<others, task, next, goal, raced, frame, ends, slips>>

\* Variant: a step that has completed can be failed all the same.
FailTask_Completed ==
  /\ pc = "fail"
  /\ SetStep(cur, "failed")
  /\ Updates("failed")
  /\ UNCHANGED <<others, task, next, goal, raced, frame, ends, slips>>

\* fail_task fails the step, then the task.
FailTask ==
  /\ pc = "fail" /\ steps[cur].status # "completed"
  /\ SetStep(cur, "failed")
  /\ Updates("failed")
  /\ UNCHANGED <<others, task, next, goal, raced, frame, ends, slips>>

\* Variant: fail_task reports that the task could not be failed.
FailTaskRaises_False ==
  /\ pc = "fail" /\ steps[cur].status = "completed"
  /\ pc' = "over"
  /\ UNCHANGED <<others, ledger, frame, update, ends, slips>>

(***************************************************************************)
(* A completed step cannot fail: update_step raises, fail_task takes it    *)
(* for a failure of the database, and the row of the task is not touched.  *)
(***************************************************************************)
FailTaskRaises ==
  /\ pc = "fail" /\ steps[cur].status = "completed"
  /\ pc' = "clean"
  /\ UNCHANGED <<others, ledger, frame, update, ends, slips>>

-----------------------------------------------------------------------------
(* clean_up_task.                                                          *)

\* A task of a workflow run leaves browser and webhook to the run.
CleanUp ==
  /\ pc = "clean"
  /\ browser' = IF kind.place = "alone" /\ kind.browser = "closes" THEN "closed" ELSE browser
  /\ pc' = IF kind.place = "alone" THEN "tell" ELSE "over"
  /\ UNCHANGED <<others, ledger, frame, update, mail, slips>>

\* Two except clauses send no webhook.
TellsNobody ==
  /\ pc = "tell" /\ clause \in {"silent", "parse"}
  /\ pc' = "over"
  /\ UNCHANGED <<others, ledger, frame, update, ends, slips>>

\* Variant: the webhook tells the verdict and does not read the row again.
Tell_Verdict ==
  /\ pc = "tell" /\ clause \notin {"silent", "parse"}
  /\ letter' = IF update.to = "none" THEN task ELSE update.to
  /\ pc' = "post"
  /\ UNCHANGED <<others, ledger, frame, update, told, astray, browser, slips>>

\* execute_task_webhook reads the row again ...
Tell ==
  /\ pc = "tell" /\ clause \notin {"silent", "parse"}
  /\ letter' = task
  /\ pc' = "post"
  /\ UNCHANGED <<others, ledger, frame, update, told, astray, browser, slips>>

\* ... and the webhook is sent some awaits later (the record of it may fail) ...
Post ==
  /\ pc = "post"
  /\ told' = letter /\ letter' = "none"
  /\ pc' = "over"
  /\ UNCHANGED <<others, ledger, frame, update, astray, browser, slips>>

\* ... unless there is no api_key or callback, or it cannot be sent; see FailedToSendWebhook.
PostsNothing ==
  /\ \/ pc = "tell" /\ clause \notin {"silent", "parse"}
     \/ pc = "post"
  /\ letter' = "none" /\ astray' = "yes"
  /\ pc' = "over"
  /\ UNCHANGED <<others, ledger, frame, update, told, browser, slips>>

-----------------------------------------------------------------------------
(* Calls that raise.                                                       *)

Slip(place) ==
  /\ faults < MaxFaults
  /\ faults' = faults + 1
  /\ slipped' = slipped \cup {place}

Place ==
  IF clause \in Failing /\ pc \in {"fail", "update", "write"} THEN "fail_task"
  ELSE IF pc = "clean" THEN "clean_up"
  ELSE IF pc = "tell" THEN "webhook"
  ELSE IF clause = "prologue" THEN "prologue"
  ELSE "body"

(***************************************************************************)
(* An awaited call raises. fail_task takes it for a failure of the         *)
(* database and reports success; elsewhere it is an exception.             *)
(***************************************************************************)
Breaks ==
  /\ pc \in {"enter", "look", "acting", "failed", "completed", "verify", "verifying", "withdraw",
             "update", "write", "fail", "clean", "tell"}
  /\ Slip(Place)
  /\ IF Place = "fail_task" THEN pc' = "clean" /\ UNCHANGED frame ELSE Raises("fail")
  /\ astray' = IF pc \in {"clean", "tell"} \/ pc' = "over" THEN "yes" ELSE astray
  /\ UNCHANGED <<others, ledger, update, letter, told, browser>>

\* The step cannot be marked running; agent_step catches that and marks it failed.
StartBreaks ==
  /\ pc = "ready"
  /\ Slip("body")
  /\ SetStep(cur, "failed")
  /\ pc' = "failed"
  /\ UNCHANGED <<others, task, next, goal, raced, frame, update, ends>>

\* Withdrawing a step is tried once; if that raises the step stays.
WithdrawBreaks ==
  /\ pc = "withdraw"
  /\ Slip("body")
  /\ Updates("failed")
  /\ UNCHANGED <<others, ledger, frame, ends>>

DiscardBreaks ==
  /\ discard = "pending"
  /\ Slip("discard")
  /\ discard' = "raised"
  /\ UNCHANGED <<kind, run, client, notice, starts, ledger, frame, pc, update, ends>>

-----------------------------------------------------------------------------
(* The clients.                                                            *)

\* cancel_task: update_task checks the transition on the row ...
ClientChecks ==
  /\ client = "none"
  /\ client' = IF CanUpdate(task, "canceled") THEN "checked" ELSE "refused"
  /\ UNCHANGED <<kind, run, discard, notice, starts, ledger, frame, pc, update, ends, slips>>

\* ... and writes,
ClientWrites ==
  /\ client = "checked"
  /\ task' = "canceled"
  /\ raced' = IF task # "running" THEN "yes" ELSE raced
  /\ Overtakes(pc = "post")
  /\ client' = "wrote"
  /\ UNCHANGED <<kind, run, discard, notice, starts, steps, next, goal, frame, pc, update,
                 letter, told, browser, slips>>

\* then reads the row for the webhook,
ClientReads ==
  /\ client = "wrote" /\ kind.place = "alone"
  /\ notice' = task
  /\ client' = "posting"
  /\ UNCHANGED <<kind, run, discard, starts, ledger, frame, pc, update, ends, slips>>

\* and sends it.
ClientPosts ==
  /\ client = "posting"
  /\ told' = notice /\ notice' = "none"
  /\ client' = "done"
  /\ UNCHANGED <<kind, run, discard, starts, ledger, frame, pc, update, letter, astray, browser,
                 slips>>

\* The request has nobody to tell, or raises on its way.
ClientBreaks ==
  /\ client \in {"checked", "wrote", "posting"}
  /\ client' = IF client = "checked" THEN "refused" ELSE "done"
  /\ notice' = "none"
  /\ astray' = IF client = "checked" THEN astray ELSE "yes"
  /\ UNCHANGED <<kind, run, discard, starts, ledger, frame, pc, update, letter, told, browser,
                 slips>>

\* The workflow run is cancelled: only its own row is written.
RunCanceled ==
  /\ kind.place = "workflow" /\ run = "running"
  /\ run' = "canceled"
  /\ UNCHANGED <<kind, discard, client, notice, starts, ledger, frame, pc, update, ends, slips>>

-----------------------------------------------------------------------------
Executor ==
  \/ RunIsCanceled \/ RunGoesOn \/ TaskIsCanceled \/ Validate \/ InitializeFails \/ Start
  \/ StepFails \/ StepCompletes \/ StepRaises
  \/ Retry \/ RetriesExhausted \/ Decide \/ NextStep \/ StepsExhausted
  \/ Speculate \/ Verified \/ NotVerified \/ NotVerifiedAtLimit \/ Withdraw
  \/ CheckUpdate \/ UpdateRefused \/ NothingExtracted \/ WriteUpdate
  \/ FailTask \/ FailTaskRaises
  \/ CleanUp \/ TellsNobody \/ Tell \/ Post \/ PostsNothing

Faults == Breaks \/ StartBreaks \/ WithdrawBreaks \/ DiscardBreaks

Client == ClientChecks \/ ClientWrites \/ ClientReads \/ ClientPosts \/ ClientBreaks

Next == Executor \/ Discard \/ Faults \/ Client \/ RunCanceled

(***************************************************************************)
(* The event loop runs the executor and the background task on: the model, *)
(* the browser and the database answer, raise or time out. Nothing is      *)
(* assumed of clients or of calls that raise.                              *)
(***************************************************************************)
Fairness == WF_vars(Executor) /\ WF_vars(Discard)

Spec == Init /\ [][Next]_vars /\ Fairness

-----------------------------------------------------------------------------
(* Properties.                                                             *)

\* Types, of the rows, of the executor and of the requests.
TypeOK ==
  /\ kind \in Kinds
  /\ task \in Statuses
  /\ run \in {"running", "canceled"}
  /\ steps \in Seq([order : 0 .. MaxSteps, retry : 0 .. MaxRetries, last : {"yes", "no"},
                    status : {"created", "running", "failed", "completed", "canceled"}])
  /\ cur \in DOMAIN steps
  /\ next \in 0 .. Len(steps)
  /\ clause \in {"prologue", "body", "silent"} \cup Failing
  /\ pc \in {"enter", "look", "ready", "acting", "failed", "completed", "verify", "verifying",
             "withdraw", "update", "write", "fail", "clean", "tell", "post", "over"}
  /\ goal \in {"open", "achieved", "terminated"}
  /\ update \in [to : Final \cup {"none"}, read : Statuses \cup {"none"}]
  /\ discard \in {"none", "pending", "done", "raised"}
  /\ letter \in Statuses \cup {"none"}
  /\ client \in {"none", "checked", "refused", "wrote", "posting", "done"}
  /\ notice \in Statuses \cup {"none"}
  /\ told \in Statuses \cup {"none"}
  /\ browser \in {"open", "closed"}
  /\ starts \in Nat
  /\ raced \in {"yes", "no"}
  /\ astray \in {"yes", "no"}
  /\ faults \in 0 .. MaxFaults
  /\ slipped \subseteq {"prologue", "body", "fail_task", "clean_up", "webhook", "discard"}

Over == pc = "over"
Started(s) == s.status \notin {"created", "canceled"}
CancelWritten == client \in {"wrote", "posting", "done"}

(***************************************************************************)
(* The ledger of the steps: a retry follows a failed step of its order,    *)
(* the next order a completed one; no two steps share order and retry; a   *)
(* step beyond max_steps_per_run is created at most to be withdrawn.       *)
(***************************************************************************)
StepLedger ==
  /\ \A i, j \in DOMAIN steps :
       i # j => <<steps[i].order, steps[i].retry>> # <<steps[j].order, steps[j].retry>>
  /\ \A i \in DOMAIN steps :
       /\ steps[i].retry > 0 => \E j \in 1 .. i - 1 :
            /\ steps[j].order = steps[i].order /\ steps[j].retry = steps[i].retry - 1
            /\ steps[j].status = "failed"
       /\ steps[i].order > 0 => \E j \in 1 .. i - 1 :
            steps[j].order = steps[i].order - 1 /\ steps[j].status = "completed"
       /\ Started(steps[i]) => steps[i].order < MaxSteps

(***************************************************************************)
(* A cancelled task starts at most one more step: the one whose validation *)
(* had read the row before.                                                *)
(***************************************************************************)
OneMoreStart == starts <= 1

(***************************************************************************)
(* The verdict has its ground: a task that is completed or terminated has  *)
(* a completed step, flagged as the last, after which no step was started. *)
(***************************************************************************)
VerdictHasGround ==
  task \in {"completed", "terminated"} =>
    \E i \in DOMAIN steps :
      /\ steps[i].status = "completed" /\ steps[i].last = "yes"
      /\ \A j \in DOMAIN steps : j > i => ~Started(steps[j])

(***************************************************************************)
(* When execute_step is over, a step that nobody will execute any more is  *)
(* left created only if a call raised; the one that was created on         *)
(* speculation may still be withdrawn.                                     *)
(***************************************************************************)
NoStepLeftCreated ==
  Over /\ discard # "pending" /\ faults = 0 =>
    \A i \in DOMAIN steps : steps[i].status # "created"

(***************************************************************************)
(* A cancel stands when the executor is over, unless the task was          *)
(* completed all the same or the two wrote in the window between check and *)
(* write.                                                                  *)
(***************************************************************************)
CancelStands ==
  Over /\ CancelWritten /\ raced = "no" => task \in {"canceled", "completed"}

(***************************************************************************)
(* When executor and client are done, the last webhook told the status the *)
(* row has, whichever of the two sent it. The exceptions: an action that   *)
(* could not be parsed, after which the code sends none; a webhook that    *)
(* was not sent; and a row written between the read of a webhook and its   *)
(* post.                                                                   *)
(***************************************************************************)
ToldTheTruth ==
  Over /\ kind.place = "alone" /\ client \in {"none", "done", "refused"} =>
    told = task \/ clause = "parse" \/ astray = "yes"

(***************************************************************************)
(* A task leaves a browser that is its own to close open only if a client  *)
(* cancelled it, or if a call raised where nobody cleans up afterwards:    *)
(* before a try block, or in the clean-up until the browser is closed.     *)
(***************************************************************************)
BrowserClosed ==
  Over /\ kind.place = "alone" /\ kind.browser = "closes" /\ browser = "open" =>
    CancelWritten \/ slipped \cap {"prologue", "clean_up"} # {}

(***************************************************************************)
(* The executor leaves a task running only if the step it knew had         *)
(* completed when an exception was caught, if fail_task itself could not   *)
(* write, or if the first call raised before its try block; and without    *)
(* any call that raises, only if the goal was achieved and nothing was     *)
(* extracted.                                                              *)
(***************************************************************************)
LeftRunning ==
  Over /\ task = "running" =>
    /\ \/ steps[cur].status = "completed" /\ clause = "fail"
       \/ "fail_task" \in slipped
       \/ "prologue" \in slipped /\ cur = 1
    /\ slipped = {} => goal = "achieved" /\ kind.extract = "yes"

(***************************************************************************)
(* Whatever executor, clients and background task do, the tables keep what *)
(* TaskPromise says of them: the ledger of the steps grows at its end, no  *)
(* row changes once it is settled, nothing is begun after a last step, and *)
(* each verdict of the agent is borne out by a row.                        *)
(***************************************************************************)
Promise == INSTANCE TaskPromise WITH rows <- steps, verdict <- task
PromiseKept == Promise!Spec

(***************************************************************************)
(* agent.py, on an unexpected exception in execute_step: "Got an           *)
(* unexpected exception in step, marking task as failed".                  *)
(***************************************************************************)
EndsFinal == Over /\ clause = "fail" => task \in Final

\* execute_step comes to its end, whatever clients do.
ExecutorEnds == <>Over

\* A step that was withdrawn from the task is cancelled some time, or the call raised.
DiscardIsDone ==
  discard = "pending" ~>
    discard = "raised" \/ (next \in DOMAIN steps /\ steps[next].status = "canceled")

=============================================================================
