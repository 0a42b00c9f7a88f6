# Formal models of the financial agent

TLA+ modules, TLC configurations and TLAPS proofs for the parts of this
repository that carry its own control logic: `enterprise/` (approvals, the
agent coordinator, banking skills) and, of the upstream engine under
`skyvern/`, the workflow run, the task with its steps, and the life of a
persistent browser session.

Contents: [the system](#the-system) · [modules](#modules-and-the-code-they-model) ·
[what the checks show](#what-the-checks-show) · [bounds](#bounds) ·
[fairness](#fairness) · [proofs](#proofs) · [disagreements](#disagreements-found) ·
[left out](#what-is-left-out) · [plan](#plan)

## The system

The program drives a browser over bank pages on behalf of an organisation. A
task has a goal in words; a planner splits it into steps; every step is graded
for risk, and a risky one waits for a person; skills act on the page. It is a
single asyncio process over PostgreSQL and Redis. Nothing in it runs in
parallel, but every `await` is a point where another coroutine may run, a call
may raise, a task may be cancelled, or the process may be killed. That is where
the hard behaviour is, and it is the grain of the modules: **one action is one
stretch of code between two awaits**.

### Components

| component | state it keeps | operations | talks to | hard behaviour | what makes it correct |
|---|---|---|---|---|---|
| **Approval gate** `enterprise/approval/{pubsub,routes,routing,models}.py` | table row; `_approval_store` of the process; Redis client and subscription; the waiting coroutine's `decision` and deadline | create and wait; poll; approve; reject | coordinator (caller), approvers (HTTP), Redis, database | two writers of one verdict; a channel that keeps nothing; deadline against a late message; row committed an hour before it is finished; kill while waiting | one verdict per request, the same everywhere, given by somebody entitled; every wait ends |
| **Roles** `enterprise/auth/{schemas,enums,dependencies}.py` | frozen claims of a token: a role per department, cross-organisation flag | highest role, role in a department, `is_any_approver` | gate, routes, dashboards | the roles of one person in several departments | authority is judged in the department that the risk level routes to |
| **Risk detection** `enterprise/approval/risk_*.py` | none | keyword scan, amount, model | coordinator | a model may lower what keywords found | an unanswered doubt counts as high |
| **Agent coordination** `enterprise/agent/**` | `CoordinationState` (status, completed ids, replans), plan, message context, process-wide registry | plan, execute, retry, skip, abort, replan, resume; five pipeline stages per pass | planner and executor, risk and approval agents, reviewer, experience store | registry shared by all tasks; grading done twice; nested replan; resume by ids that are drawn anew | a completed task accounts for every step; a replaced plan is over; nothing ungraded is attempted; the loop ends |
| **Skill pipeline** `enterprise/skills/{base,executor}.py` | step index, attempt, results, `success`, `aborted_at` | validate, execute with retries, audit, abort or go on | skills (Playwright), audit callback | three error strategies crossed with five statuses; a skill that raises takes the result with it | the result says what happened; a step is repeated only when that is warranted |
| **Persistent browser sessions** `skyvern/webeye/{default_persistent_sessions_manager,cdp_ports}.py` | rows; `_browser_sessions`; `_allocated_ports`; browsers | create/launch, begin, get/set browser, renew, close, release, sweep | workflow runs, close endpoint, trigger block, database | launch, close, renewal and runs interleave without a lock; a failed launch cleans up half; cancellation in mid-close; kill | browsers do not share ports; a running session has its browser; occupation ends with its run |
| Browser manager `skyvern/webeye/real_browser_manager.py` | `pages`: run → browser | get or create, clean up | sessions manager, runs | overwrites an entry it did not see | a run keeps the browser it was given |
| **Workflow runs** `skyvern/forge/sdk/workflow/service.py`, cancel and continue in `skyvern/forge/sdk/routes/agent_protocol.py` | status in the row, position in the blocks, `pre_finally_status` | execute, finally block, trigger, cancel, continue, clean up | blocks, clients (HTTP), browser sessions, webhook | engine and endpoints overwrite one another's status; the finally block borrows `running`; a human block waits for hours; a child runs inline | a failure or a cancel that the engine saw is not undone; the last webhook told the row's status, unless it was overtaken; the engine ends |
| **Workflow blocks** `skyvern/forge/sdk/workflow/models/block.py` | — (the row of the block) | execute, pause, wait, trigger, loop | run, task agent, child runs | what a result means inside a loop, in the finally block, under `continue_on_failure` | a failure is passed over only where the definition says so |
| **Task agent** `skyvern/forge/agent.py` | task row, step rows, speculative step, browser | validate, act, retry, next step, verify beside a speculative step, fail, clean up, cancel | browser, model, workflow block, webhook | check and write of a status are apart; nobody awaits the withdrawal of a speculative step; a call that calls itself within its own `try`; exceptions from any of some thirty awaits | steps form a ledger; a verdict has a row behind it; what is left running, open or untold is so for one of a few named reasons |
| Model calls `enterprise/llm/{resilient_caller,model_router}.py` | attempt counter, hints | retry with hints, give up to a person | task agent | delays indexed by attempt | ends; hints only after a parse error |
| Task states, intervention `enterprise/llm/{task_states,human_intervention}.py` | status, stuck index | stuck, resolve, skip, abort | operators | two operators on one task; table never consulted | only listed transitions |
| Action cache `enterprise/llm/action_cache.py` | entries with expiry, counters | get, store, invalidate | task agent | stale decision, shared key | a hit is not expired and belongs to the tenant |
| Notification `enterprise/notification/*` | retry queue | dispatch, enqueue | gate, Redis | one user's failure starves the rest | everybody is tried once |
| Permission and tenant `enterprise/auth/permission.py`, `enterprise/tenant/*` | context variable | resolve, filter | every query | unset tenant means no filter | nobody sees another tenant |
| Audit `enterprise/audit/*` | rows | log, swallow failure | everything | an operation without a record | — |
| Dashboard, RAG, evaluation, templates, skills' page scripts, SDK/CLI, frontend, migrations | lists, caches, files | read, format | — | none of protocol | — |

`PROJECT.json` lists every one of these with its status, and the hazards at the
line where they bite, those too that no property covers, with the reason.

### How the modelled parts meet

```
 AgentCoordinator --risk level--> approval agent ....> ApprovalGate <--HTTP-- approvers
     |  (framework pipeline)        (auto-approves)       |   ^
     v                                                    v   | Redis Pub/Sub
 executor ....> SkillPipeline                           table, _approval_store
     |
     v
 WorkflowRun --begin/release--> BrowserSessions <--close-- endpoint, trigger block
   ^ |  ^                             ^-- renewal task of the run
   | |  '--cancel, continue-- clients
   | '--task block--> TaskSteps <--cancel-- client, cancel of the run
   '--trigger block (a run executes another one inline)
```

The dotted lines are not calls of the present code: `create_approval_and_wait`,
`execute_pipeline` and `AgentCoordinator` have no caller in the repository but
its tests, and the framework's approval agent writes an approved record itself
and never asks a person. The models keep to what is there and are therefore
separate; `ApprovalGate` is composed of `EnterpriseRbac` (its authority checks) and
checked against `ApprovalPromise`, as `TaskSteps` is against `TaskPromise`. `WorkflowRun` composes a run with the run it
triggers. A run and a task meet at two points only: a task block ends as its task
does, which `Act` allows in every way `TaskSteps` can end, and the task reads the
status of its run before each step (`RunCanceled`).

## Modules and the code they model

`PROJECT.json`'s `map` gives the lines of every definition. In a module, a
definition named `X_Something` after a comment `Variant:` is a plausible bug of
`X`; it is not part of any specification, and replacing `X` by it makes the
property it was written for fail.

### EnterpriseRbac, ApprovalPromise, ApprovalGate

`EnterpriseRbac` has the operators of `schemas.py`, `dependencies.py`, `routing.py`:
`GetHighestRole`, `GetRoleInDepartment`, `IsAnyApprover`, `UserCanApprove`,
`RequiresApproval`, `ApproverDepartment`. `Context[u]` is the token of user `u`.

`ApprovalGate` has the coroutine of `create_approval_and_wait` with
`wait_for_decision` inside it as a program counter (`pc[r]`):

```
idle -Create-> committed -Subscribe-> poll <-> reading -Receive-> leaving -> deciding -> returned
                                       '---(deadline)------------^
```

| variable | code |
|---|---|
| `row[r]` | status and approver of the committed `ApprovalRequestModel` |
| `entry[r]` | the same request in `_approval_store`, which the endpoints read and write |
| `chan[r]` | messages that reached `r`'s subscription and were not read yet |
| `expired[r]` | `remaining <= 0` would hold now |
| `dec[r]` | the local variable `decision`; a timeout is Python's `None` |
| `calls` | endpoint calls that settled their entry and have yet to publish |

`MayDecide` is the chain of 403/404/409 checks in source order; `Decide` is one
action because the code has no await between the check and the write; `Publish`
is apart from it because it does. Without a Redis client (`redis`, chosen once)
the endpoint settles its entry and publishes nothing. `ReadNothing` is a second without a message
or `wait_for` cutting the read at the deadline. `AwaitRaises`,
`PublishRaises` and `Crash` are the failures; no code repairs a row or resumes a
wait afterwards, and neither does the model. `Mirror` is external: what fills
`_approval_store` from the table is not in the repository, so a committed
pending request may appear in the store at any time while it is waited for.

`ApprovalPromise` is what a bank would be told: opened once, settled at most once,
by an entitled person, or timed out. `Entitled` is written from the meaning of
the roles and not from the order of checks, so `PromiseKept` compares the two.

### AgentCoordinator

Both ways through `AgentCoordinator.run`. The planner/executor loop
(`_execute_plan`, `_handle_failure`): `CreatePlan`, `TakeStep`, `AttemptSucceeds`,
`AttemptFails`, `SkipFailure`, `FailTask`, `Escalate`, `AskReplan`, `Replan`. The
framework (`_run_framework`, the default): every concern of a step is a pass
(`run[t]`: planning, gating, approving, review, experience) through the pipeline
of `orchestrator.py`, stage by stage (`PlanStage`, `RiskStage`, `ApprovalStage`,
`AfterPass`), because an empty pipeline argument selects the default one. `serving`
is the process-wide registry: the coordinator built last answers for all.

`base[t] + pos[t]` is the id of a step: `SubTask` draws a new id for each, so the
ids of one plan never occur in another. `_execute_plan` calls itself after a replan:
`outer[t]` is the stack of the calls that wait for an inner one, each with its plan and
the step it was at, and `Return` takes the stack down once the innermost call is over. A
task is run again (`Resume`) only after `run` has returned, because that is when its
caller gets the ids; a run that is interrupted hands nobody anything. What a model answers is a
choice from `LLMPlans` and from the risk levels `Detected` allows. The
review and experience stages change no state of the run, and are taken together
with the return of their pass.

### SkillPipeline

`execute_pipeline`: `UnknownSkill`, `InvalidParams`, `Prepare`, `Execute` (one
attempt), `ExecuteRaises`, `Audit`, `HandleFailure`, `CountStep`, `Return`. A step is what
the executor asks of it: whether it is registered, whether its parameters
validate, its strategy (or an override that names none, `UnreadableStrategy`) and its
retries. `calls` (every execution and its
status) is a history variable, `audited` the ids the callback received.

### WorkflowRun

`execute_workflow` and what its blocks do to the row of the run:

```
queued -Begin-> context -StartBlocks-> refresh -Refresh-> begin -BeginBlock-> (block) -BlockEnds-> refresh
                    '-ContextFails-----.   '--(canceled, or the end)--> collect <--(a result that stops)--'
                                       v                                   |
                                    cleanup <-Finalize-- finalize <-BeginFinally-- closing   (by way of the finally block)
                                       '-ReadsForWebhook-> posting -Posts/PostsNothing-> over or raised
```

| variable | code |
|---|---|
| `status[r]`, `by[r]` | status of the run's row, and who wrote it last (history) |
| `at[r]` | index of the block; in a loop the index of the value and of the inner block |
| `pre[r]` | `pre_finally_status` |
| `returned[r]` | status of the `WorkflowRun` that `execute_workflow` returns, which a trigger block reads |
| `letter[r]`, `told[r]` | status in the webhook the engine has read the row for; status in the last webhook that was sent |
| `cancel[r]`, `cont[r]` | a request between two of its awaits; `children` are those it read and has yet to mark, `letter` the status in its webhook |
| `blamed`, `stomped`, `rejected`, `after` | history: failures found by the engine; runs a late continue overwrote; cancels a human block took for an answer; blocks begun since the cancel |
| `astray` | history: runs of which a webhook was not sent, or was on its way when the row was written |

`Write` is `_update_workflow_run_status`, which compares nothing; the model therefore
lets each writer overwrite whatever is there. A human block is `Pause` – `MailSent` –
`HumanAnswers`/`HumanIsLate`; a trigger block `Trigger` – `ChildIsOver`, between which the
child goes through the whole engine; a loop is `Loop` and `InnerEnds`, with
`next_loop_on_failure` and `continue_on_failure`. What raises is of two kinds. Inside a block
it becomes the block's result (`BlockFails`: a template, the mail, a read while the human is
waited for, the values or the graph of a loop) or fails the run (`BlockBreaks`). In
`execute_workflow` itself it skips what follows up to the clean-up and leaves the row as it is
(`Raises`, `CleanUpRaises`). The webhook reads the row (`ReadsForWebhook`,
`CancelReadsForWebhook`) and is sent some awaits later (`Posts`, `CancelPosts`), if it is sent.

### TaskSteps

`execute_step` calls itself for every step it creates, inside its own `try`. The calls are a
stack, one per row of `steps`: `cur` is the one whose code runs, `clause` the part of it (the
prologue before `try`, the body, or an `except` clause: `fail` for any exception, `scrape`,
`parse`, `silent` for a task that cannot be updated), and `pc` the place in that part: `enter`
and `look` (run and task cancelled? may the step be executed?) – `ready` – `acting` – `failed`
or `completed` (or `verify`, `verifying`, `withdraw`) – the call for the next step, or `update`
– `write` – `clean` – `tell` – `post` – `over`. `Raises` says who catches: the `try` of the
call that runs, or, from the prologue and from an `except` clause, the call below, which then
fails or cleans up with the step *it* knows. A call that has caught something makes no other.

`Breaks` is an awaited call that raises at any place of the prologue, the body, the `except`
clauses and the clean-up; `fail_task` alone swallows it and reports success.

| variable | code |
|---|---|
| `task`, `run` | status in the rows of the task and of its workflow run |
| `steps` | rows of the steps: order, retry index, status, `is_last` |
| `cur`, `next` | the step executed, and the one created on speculation |
| `update` | the pending `update_task`: what it writes, the status it checked |
| `discard` | the background task of `_persist_speculative_metadata_for_discarded_plan` |
| `client`, `browser` | the cancelling call; whether `clean_up_task` closed the browser |
| `letter`, `notice`, `told` | status in the webhook the executor, the client has read the row for; status in the last one sent |
| `kind` | alone or in a workflow; verified or not; with a data extraction goal or not; with a browser of its own to close or not (`close_browser_on_completion`, session, address) |
| `raced`, `starts` | history: a write over a status it had not read; steps started while the row said canceled |
| `astray`, `slipped` | history: a webhook that was not sent or was overtaken by a write; the parts of the code in which a call raised |

`TaskPromise` is what whoever reads the tables of steps and tasks may rely on: rows are
added at the end, one at a time, after a failed or a completed one; a row is begun once and
settled once; after a row flagged as the last nothing is begun; "completed" and "terminated"
come with a flagged completed row, "failed" with a failed row or with a flagged row at the
limit. A failed row may be followed by a created one: that is what is left when the call for a
retry raises in its prologue and the call below fails the task with the step it knew. Only a cancel may
come at any time, over a verdict too. `TaskSteps!Promise` takes `steps` for the rows and
`task` for the verdict.

### BrowserSessions

| variable | code |
|---|---|
| `row[s]` | `status`, `completed_at`, `browser_address` (as its port), `runnable_id` |
| `entry[s]` | `_browser_sessions[s]`: browser and port (a run's own browser has none) |
| `allocated` | `_allocated_ports` |
| `port[s]` | the local variable `cdp_port` of the launch |
| `up` | browsers running; a browser is named after the session or run that started it |
| `launch[s]`, `close[x]`, `run[r]` | where `create_session`, a `close_session` call, a run stand |
| `misfreed` | history: ports freed while another launch was about to bind them |

A launch is `Create` (row, port) – `Register` – `SetAddress` – `MarkRunning`, with
`CreateWithoutPort` when the range is used up and `LaunchFails`/`CloseLaunched` for the
`except BaseException` clause. A close is `BeginClose` – `Unregister` – `QuitBrowser` –
`CloseRow` – `Archive`; it reads the entry once and keeps it over the export, as the
code does. A run is `Begin` – `GetBrowser`/`CreateBrowser` – `Leave` – `Release`, beside
its renewal task, which may find at any time that it has to close the session
(`RenewalCloses`) and is cancelled by `Leave` wherever it stands; `Cancel` is the
release that cancelling a run does at once.

Taken together: the commit of the new row with the allocation of its port (the
row is not visible to anybody who has its id before), and the awaits between
allocation and registration (Playwright start, context, first page). Left open: how much
time a renewal finds left.

## What the checks show

Each configuration is run with `tlc -config <file>.cfg <module>`.

### Runs that pass

**approval_gate** (`ApprovalGate.cfg`, 224 912 states). Two requests, five kinds of
user, with and without a Redis client, one raised call or kill.

- `NoSplitVerdict` – row and store never hold different verdicts on one request.
- `ApprovedByAuthority` – what the task acts on was decided by somebody entitled
  to, though the decision goes through store, message and local variable and the
  waiter checks nothing.
- `SettledOnce` – neither of two racing approvers changes the other's verdict.
- `PromiseKept` – the gate implements `ApprovalPromise` (verdict ← row).
- `EveryWaitEnds` – a wait ends, however polls, messages and deadline interleave.
- `GivesUpLate` – no request is written off as timed out, and no delivered decision thrown
  away unread, before the deadline of its wait, unless the wait fails. It may be thrown away
  *after* the deadline although it was delivered before: `wait_for_decision` looks at the
  clock first (`pubsub.py:146`).

**coordinator** (`Coordinator.cfg`, 222 626). Two tasks, one with a language model and
run again at most once; both on the framework, sharing the registry, or one of them in
the planner/executor loop.

- `GateHolds` – a step is attempted only after *its own* text was graded harmless or
  an approval of it was recorded for *this* task, although the other coordinator's
  agents may have answered and the text is graded twice.
- `CompletedAccounts` – a task that says "completed" has, for every step of the plan it
  ended with, a success under that step's id or a permission to skip it, on both paths.
- `ReplacedPlanIsOver` – once a plan was replaced none of its steps is performed, though the
  call of `_execute_plan` that works on it is still open; within a plan each step is performed
  at most once and in order. (Across a resume steps *are* repeated: `coordinator_resume`.)
- `EveryTaskEnds` – retries and replans run out.

**skill_pipeline** (`SkillPipeline.cfg`, 62 738). Every pipeline of at most three steps.

- `ResultIsHonest` – records, `steps_completed`, `success` and `aborted_at` agree with one
  another and with the strategies.
- `RepeatsAreWarranted` – a live page is acted on again only under `retry`, within
  `max_retries`, and never after the step completed.
- `AuditFollows` – the trail names recorded steps that ran, each once, in order.

**browser_sessions** (`BrowserSessions.cfg`, 846 461). A run with its renewal task and a client on one
session, two sessions that compete for the one port, one raised call or kill.

- `PortsApart` – two browsers share a port only after a port was freed twice: by two
  overlapping closes of one session, or by the close of a session whose failed launch had
  already given its port back. Both really happen; the property says nothing else does.
- `RunningHasBrowser` – an open session listed as running has a live registered browser, but
  between the two halves of a close (or of one that was cut). Nothing is said of closed rows
  and of browsers that were replaced: those the code does lose (`hazards` in `PROJECT.json`).
- `OccupantIsActive` – an open session is marked as occupied only by a run at work, or by
  one whose clean-up failed.

**workflow_runs** (`WorkflowRuns.cfg`, 477 468). Nine assignments of workflows to a run and
the run it triggers: each kind of block first, last, in a loop and as finally block, with and
without the failure options; each run cancelled and continued at any moment, two such requests in all,
any call of the engine or of a request raising.

- `BlameHolds` – a failure the engine found is not "completed" at the end.
- `SeenCancelStands` – nor is a cancel undone that the engine saw between two blocks.
- `EngineHasTheLastWord` – unless somebody wrote later, the row holds what the engine
  returned; the `running` borrowed for the finally block is always given back.
- `ToldTheTruth` – at rest, the last webhook told the status the row has. It is the engine's or
  the cancel's, whichever came last; that the two cannot leave a stale one behind holds only
  because each reads the row again after its own last write.
- `CancelStopsSoon` – after a cancel, no more than the block at hand is executed (a loop with
  all its values, because it never reads the row).
- `ChildCompletedFirst` – success of a run that must trigger another implies that one's.
- `EngineEnds` – a run that has begun is over some time, whatever clients do.

The first four name their exceptions: a continue that was read in time and written late; a
cancel from the parent, which tells nobody; an engine that raised before it had a verdict, of
which a workflow with nothing but a finally block is one case; a webhook that was not sent; a
row written between the read of a webhook and its post. These really happen. That nothing
else does is said of the calls and writes that are modelled.

**task_steps** (`TaskSteps.cfg`, 712 523). One task of three steps with one retry each,
alone or in a workflow, verified or not, with two calls that raise anywhere and a cancel at
any moment.

- `StepLedger` – retries follow failed steps and orders completed ones; none collide; a step
  beyond the limit exists at most to be withdrawn.
- `OneMoreStart` – a cancelled task starts at most one more step.
- `VerdictHasGround` – a completed or terminated task has a completed last step, and no later
  step was started, although one had been created on speculation.
- `NoStepLeftCreated`, `DiscardIsDone` – without a call that raises, every created step is used
  or withdrawn; a withdrawal in the background is done some time, or raised.
- `CancelStands` – a cancel is overwritten only by success or in the window of `update_task`.
- `ToldTheTruth` – on all the ways out the last webhook told the row's status, but for three
  cases: a row written between the read of a webhook and its post, a webhook that was not
  sent, an action that could not be parsed (after which the code sends none).
- `BrowserClosed` – a browser that is the task's to close stays open only after a client's
  cancel, or if a call raised before a `try` (nobody cleans up) or in the clean-up before
  the browser was closed.
- `LeftRunning` – a task is left running only by an exception caught with a completed step in
  hand, by a `fail_task` that could not write, or by a first call that raised in its prologue;
  without a call that raises, only because nothing was extracted (see `task_left_running`).
- `ExecutorEnds` – steps and retries run out.
- `PromiseKept` – a task implements `TaskPromise` (rows ← steps, verdict ← task): settled rows
  stay, nothing is begun after a last step, and a verdict of the agent, a failure too, is
  borne out by a row at the moment it is written, through whatever calls an exception went.

Every property has at least one mutant of the code's definitions that violates it under
the same configuration (`mutants` in `PROJECT.json`).

### Runs that fail, on purpose

Six runs check one sentence each of a document, comment or test, and show how the
code departs from it; see [Disagreements](#disagreements-found).

`CHECK_DEADLOCK FALSE` is set everywhere because these systems may stop: tasks return,
pipelines end, sessions close.

## Bounds

| bound | value | why it is enough |
|---|---|---|
| `Requests` | 2 | requests share nothing but the process; two are needed for a kill to meet both, and for the promise to interleave |
| `Users` | 5 | one per way through the checks: both roles in two departments, plain approver, cross-organisation approver, a viewer stopped at the door, a foreign administrator |
| `MaxMishaps` | 1 (0 where a run is about the fault-free program) | one fault at any of the awaits, followed by any behaviour; the proofs hold for every value |
| plans | the empty one, one of two steps (skip, replan), the fallbacks (abort, with retries) | every strategy fails somewhere; the safety properties are proved for all plans |
| `MaxReplans` | 1 (the default is 3) | below and at the limit both occur; the code only compares with it |
| `MaxRestarts` | 1, for the task with a model | a resume of a resume reads the same list of ids; the safety properties are proved for any number |
| workflows | 9 assignments, at most three blocks and two values of a loop | a block before, at and after the one that stops; the proofs hold for any definition |
| runs, requests | a parent and its child; `MaxRequests` = 2 of one cancel and one continue each | two requests meet each other and the engine; a further cancel writes what the first wrote, a further continue needs another pause; the proofs hold for any number |
| `MaxSteps`, `MaxRetries`, `MaxFaults` | 3, 1, 2 | first, middle and last step, a retry below and at its limit; a second exception while the first is handled one call below; the proofs hold for any values |
| pipelines | all of ≤ 3 steps over 7 kinds | a step before, at and after the one that fails; the proofs hold for any length |
| sessions, ports | 3 and 1 | the port is always contended; the third session can take a port freed wrongly by the first while the second is launching |
| runs on a session | 1, with its renewal task and a client | three closers and users of one entry; two runs give over five million states; the proofs hold for any number |

Symmetry is used only in `BrowserSessions.cfg`, for the sessions nobody was given; it has
no liveness property.

## Fairness

`ApprovalGate`: weak fairness of every step of a waiting coroutine (`WaitStep`) and of
time passing its deadline (`Expire`). asyncio resumes a coroutine whose await has
completed, and `asyncio.wait_for` is what bounds each read. Nobody owes a decision, a publish, a
fault or a kill. `AgentCoordinator`: weak fairness of a coordinator's next step, that is
every awaited planner, agent and handler answers in the end (a handler that hangs
for ever is outside the program); nobody owes a start or a resume. `WorkflowRun`: weak
fairness of the engine of each run; its blocks answer because tasks have bounded steps and
a human block compares its timeout in every round of its poll. Nobody owes a cancel, a
continue, or a call that raises (`Clients`, `Faults`). `TaskSteps`: weak fairness of the executor and of the background task that
withdraws a step, both coroutines whose awaits are bounded by timeouts of Playwright,
model and database calls; nothing is owed by the client, and no call owes an exception.
`SkillPipeline` and `BrowserSessions` state safety only and no
fairness.

## Proofs

`tlapm <module>.tla`; all obligations are proved by SMT, Zenon and, for the temporal
steps, LS4. Each theorem holds for every value of the constants that the module's
named `ASSUME` allows, and TLC evaluates that assumption in the runs.

| theorem | states |
|---|---|
| `ApprovalGateProofs!TypeCorrect` | `TypeOK` |
| `ApprovalGateProofs!VerdictsAgree` | `NoSplitVerdict` |
| `ApprovalGateProofs!AuthorityHolds` | `ApprovedByAuthority` |
| `ApprovalGateProofs!VerdictIsFinal` | `SettledOnce` |
| `ApprovalGateProofs!GateKeepsPromise` | `PromiseKept`: the refinement |
| `ApprovalGateProofs!VerdictInOnePlace` | a verdict under way is in one place: a call, the channel or the waiter |
| `ApprovalGateProofs!GivesUpLateAlways` | `GivesUpLate` |
| `SkillPipelineProofs!PipelineTypes` | `TypeOK` |
| `SkillPipelineProofs!HonestResult` | `ResultIsHonest`, for pipelines of any length |
| `SkillPipelineProofs!RepeatsWarranted` | `RepeatsAreWarranted` |
| `SkillPipelineProofs!TrailFollows` | `AuditFollows` |
| `AgentCoordinatorProofs!TypesHold` | `TypeOK` |
| `AgentCoordinatorProofs!GateHoldsAlways` | `GateHolds` |
| `AgentCoordinatorProofs!CompletedAccountsAlways` | `CompletedAccounts`, for plans of any length |
| `AgentCoordinatorProofs!ReplacedPlanIsOverAlways` | `ReplacedPlanIsOver`, for any depth of calls and any number of replans |
| `WorkflowRunProofs!TypesHold` | `TypeOK` |
| `WorkflowRunProofs!BlameHoldsAlways` | `BlameHolds` |
| `WorkflowRunProofs!SeenCancelStandsAlways` | `SeenCancelStands` |
| `WorkflowRunProofs!EngineHasTheLastWordAlways` | `EngineHasTheLastWord` |
| `WorkflowRunProofs!ToldTheTruthAlways` | `ToldTheTruth`, for any runs, parents and definitions |
| `WorkflowProgressProofs!CancelStopsSoonAlways` | `CancelStopsSoon`, for loops of any size |
| `WorkflowProgressProofs!ChildCompletedFirstAlways` | `ChildCompletedFirst`, for any tree of runs |
| `TaskStepsProofs!TypesHold` | `TypeOK`, with the bounds on order and retry |
| `TaskStepsProofs!StepLedgerAlways` | `StepLedger`, for any limits |
| `TaskStepsProofs!OneMoreStartAlways` | `OneMoreStart` |
| `TaskStepsProofs!VerdictHasGroundAlways` | `VerdictHasGround` |
| `TaskStepsProofs!NoStepLeftCreatedAlways` | `NoStepLeftCreated` |
| `TaskStepsProofs!CancelStandsAlways` | `CancelStands` |
| `TaskStepsProofs!ToldTheTruthAlways` | `ToldTheTruth` |
| `TaskStepsProofs!BrowserClosedAlways` | `BrowserClosed` |
| `TaskStepsProofs!LeftRunningAlways` | `LeftRunning`, for any number of faults |
| `TaskStepsProofs!TaskKeepsPromise` | `PromiseKept`: the refinement, for any limits |
| `BrowserSessionsProofs!SessionsTypes` | `TypeOK` |
| `BrowserSessionsProofs!PortsStayApart` | `PortsApart`, for any sessions, closers and port range |
| `BrowserLivesProofs!RunningIsAlive` | `RunningHasBrowser`, in a local installation |
| `BrowserLivesProofs!OccupiedIsActive` | `OccupantIsActive`, in a local installation, for any number of runs on a session |

**The gate.** `NoSplitVerdict` is not inductive: the row is written from a local
variable that was read from a channel that was filled from a call that settled an
entry. `IInv` follows that chain: an entry holds only verdicts of entitled people
(`EntryByAuthority`); a call carries its entry's verdict (`CallsCarryEntry`); so does a
message (`ChannelCarriesEntry`) and the coroutine's variable (`DecisionFromEntry`); and
the row is what the place of the coroutine says (`RowFollowsWait`). A kill wipes store and
calls at once, so every link holds vacuously again. The refinement then needs
only that `CommitOutcome` writes a timeout or a verdict of an entitled person over a
pending row. `GivesUpLate` is about where a verdict is on its way: `OnePlace` says
that there is one call per request, that it comes before the message and the message before
the decision, and that a coroutine leaves its subscription only after the
deadline or with a decision in hand. So a publication never meets a full channel, what
unsubscribing drops is dropped after the deadline or has been read, and "timed out" is
written after the deadline only.

**The pipeline.** `IInv` ties the number of records to the index of the loop (one per
earlier step before the audit, one more from then on), identifies the calls of the
current step as the last `attempt` calls, and keeps the trail behind the
records; `CountInv` adds that `steps_completed` is the cardinality of the records that do
not say failed, which needs the finite-set theorems.

**The ports.** `PortsApart` needs two facts about times when nobody shares anything
yet. A launch keeps its port in `_allocated_ports` until its browser listens, unless
somebody freed it (`LaunchHoldsPort`); from then on the bind keeps others away. And a session
that has not registered has neither a browser nor an entry or a close with a port
(`FreshHasNothing`), so no close can free what its own launch is about to bind. Lemmas `QuietStep`
and `FreeStep` do the work once; every action is an instance of one of them, but for
`Create`, `Register` and `Crash`.

**The browsers.** `RunningHasBrowser` and `OccupantIsActive` assume `Local`: only there
does a restart close the rows that a killed process left open
(`cleanup_stale_sessions`); elsewhere such a row goes on saying "running" and
"occupied", and the two are false. The first needs to know whose the browsers are.
`Owned` says that an entry, or what a close keeps of one, names the browser of that
session or of a run on it; `UnstartedUnnamed` that a browser that has not been started is
named nowhere, so none is registered twice; `QuitUnregistered` that what a close is about
to quit is not registered any more. So a quit never kills a registered browser
(`RegisteredAlive`), and an open, launched row lacks an entry only while a close stands
in between (`OpenHasEntry`). The second is nearly inductive: a step keeps the occupants
(`OccupancyKept`), or is the `Begin` or `Release` of one run, or is a kill, after which no
row is open. A new row must start unoccupied, which is `UnwrittenIsFree`. TLC finds
the whole `LInv` to hold on the instance of `browser_sessions`; the proof covers several
runs on one session, which that instance does not.

**The coordinators.** They share only the registry and the growing set of approvals, so
`IInv` is stated of one task (`TaskInv`) and a step of one task leaves it to the others
(`OtherTasks`). `Counts` ties the length of `results` to `pos`; `Accounts` extends
`CompletedAccounts` to every step before the current one, and, during the review and
experience passes of a step, to that step; `Ids` bounds the ids performed by the current
step (`Behind` says where strictly), so that `Append` keeps them ascending. For
`ReplacedPlanIsOver` the calls still open are no part of the invariant: what counts is that
`Return` gives up a frame without taking its plan up again (`ReturnKeeps`), so that no id of a
plan that was left can come after one of a later plan. `Gate` follows the text
and the record through gating, approving and the attempt. The registry `serving` occurs
in none of them: that is the proof that it does not matter who answers. `AdoptKeeps`,
`AdvanceKeeps` and `StillKeeps` do the work for plans taken up, steps left behind, and the rest.

**The workflow runs.** That the engine's verdict stands is not inductive, since clients may
write between any two of its statements. `Placed` says where the engine is in the
workflow for each `pc`; `Judged` that "completed" is only written at the end and that a
blamed run, left alone by a late continue, keeps a bad status from `collect` on; `SeenCancel`
the same for a cancel that was collected; `LastWord` what the row may hold from the moment
the status is collected until it is finalized, when finalizing writes nothing; `Told` that,
unless a run is `astray`, a webhook on its way has the status of the row, and that when the
last one sent is out of date whoever wrote since will send another.
`WorkflowProgressProofs` adds how far the engine gets (`Walk`): every place of the engine
belongs to a block of a certain kind (`AtWork`), a trigger block that may not fail is left
behind only with a child that completed (`Passed`), without one the verdict is a bad one
(`Earned`), and after a cancel the blocks executed are the turns of the current loop that
have begun (`Spent`), which fit into its weight, values times blocks (`TurnsFit`, the one
place with a product of two unknowns).

**The tasks.** Three groups of facts, kept apart. `Requests` is about the row of the task, its
two writers, the webhooks and the browser, and does not look into the steps; each action's
effect on it is a lemma over scalars (`ExecutorRequests`, `FaultsRequests`, `OthersRequests`).
`Rows` is about the ledger alone, whoever runs: rows ascend (`Ascending`), each follows from
an earlier one (`Grounded`), all but the last have failed or completed (`Settled`), no started
one is beyond the limit (`Within`) or behind a flagged one (`Barred`). `Execution` ties the
call that runs to the rows: the status of its step for each `pc` (`Position`), that nothing is
flagged and nothing decided while a step is in hand (`Undecided`), that what is about to be
written is borne out (`Verdicts`), who still owes something to a created row (`Owed`), and why
a task without a verdict may be left (`Left`).

Recursion is what makes this hard: an exception puts the executor back at a step it left long
ago. `CaughtStands` is the lemma about it: the step of a call further down that catches is not
the last row, so by `Settled` it has failed or completed, and its clauses can begin, flag or
withdraw nothing but what the promise allows. `Settled` is the strengthening that the invariant
needs beyond what any property says, and the reason that `Grounded` survives. Each group of
actions (`MovesKeep`, `SettlesKeep`, `AddsKeep`, ...) then proves `Preserved`: the invariant
and, with it, that the step is one of `TaskPromise` or leaves its tables alone (`Kept`), so
that `TaskKeepsPromise` costs no second pass over the actions.

**Only model-checked.** Every invariant and every action property of the runs that pass is
a theorem. Liveness (`EveryWaitEnds`, `EveryTaskEnds`, `EngineEnds`, `ExecutorEnds`,
`DiscardIsDone`) is not: it rests on fairness and ENABLED, which the proof system does not
reason about. Induction over data and RECURSIVE operators are out of its reach too; none of
the modules needs them.

## Disagreements found

| run | what the code does | what is said of it |
|---|---|---|
| `approval_granted_unheard` | the row is committed before the wait subscribes; an approval published in between is answered "Approval granted" and never heard | `docs/interview_qa.md:39` |
| `approval_four_eyes` | an operator who is approver in compliance approves his own critical operation | `docs/interview_qa.md:155` |
| `coordinator_resume` | ids are drawn anew, so a resumed task repeats its completed steps | `README.md:55`, `tests/unit/test_agent.py:457` |
| `session_closed_address` | outside `ENV=local` a closed session keeps its unique address, and the next launch on its port is refused | `skyvern/forge/sdk/db/agent_db.py:5345` |
| `workflow_rejection` | a rejected human block inside a loop counts as done, and the loop goes on with its next block | `skyvern/forge/sdk/workflow/models/block.py:3849` |
| `task_left_running` | an exception after a step was completed leaves the task `running` for ever, because the step refuses to fail first | `skyvern/forge/agent.py:851` |

Met on the way and not stated as runs:

- A decision that Redis delivered before the deadline is dropped if it lies unread when the
  deadline passes: the loop compares the clock before it reads (`enterprise/approval/pubsub.py:146`).
- The call for a retry may raise in its prologue; the call below then fails the task with its
  own, failed step, and the retry's row stays `created` (`skyvern/forge/agent.py:383`, `:676`, `:855`).
- Webhooks read the row and are sent many awaits later (`service.py:3621` and `:3914`,
  `agent.py:3466` and `:3490`), so the last one may carry a status that was overwritten meanwhile.
- In the default mode a failing `replan` step fails the task; there is no `needs_human`
  (`README.md:55`, `tests/unit/test_agent.py:368`).
- With a language model the pass after an approval fails in its planning stage, because the
  context cannot be written as JSON, so the approved step never runs
  (`enterprise/agent/coordinator.py:142`, `planner.py:161`; `README.md:41`).
- Invalid parameters under `retry`, and a step still pending, count towards the success of a
  pipeline (`enterprise/skills/executor.py:103`, `:144`; `base.py:24-25`, `docs/interview_qa.md:87`).
- What `execute_workflow` raises between its first mark and its finalizing leaves the run
  `running` (`service.py:913`, `:971`, `:1008`, `:1228`, and "No blocks found" at `:1248` for a
  workflow with nothing but a finally block), although `_finalize_workflow_run_status` is
  "called unconditionally".
- A parent cancelled while it awaits its child finds the trigger block failed and writes
  `failed` over `canceled`; `mark_workflow_run_as_running` overwrites the cancel of a
  queued run; a pause overwrites a cancel that came just before it.
- A client's cancel of a task of its own leaves the browser open on some ways out, and so does
  an exception before a `try` or in `clean_up_task` (`agent.py:3360`); an action that cannot be
  parsed sends no webhook.
- `begin_session` accepts a closed session although `routes/browser_sessions.py:129` says it
  cannot be used again; after a failed launch "session will have no browser"
  (`default_persistent_sessions_manager.py:373`) while the entry with the dead browser stays;
  an unset tenant leaves a query unfiltered.

## What is left out

- **Data**: prompts, page content, keyword tables, amounts, templates, statistics.
  They are choices from small sets, where a property can tell them apart.
- **Legacy mode without the framework** has no risk check at all; nothing promises one
  there, so `GateHolds` speaks of the framework.
- **`configure_store`** replaces the store's dictionary; only tests call it, so there is
  one dictionary.
- **Graceful shutdown** of the sessions manager is a loop of closes over what is
  registered; kills are modelled, an orderly shutdown is not.
- **Renewal arithmetic** (ten minutes, two hours) is an open choice.
- **Browser sharing between parent and child runs**, two runs on one session, and the pages
  of a task: `WorkflowRun` has parents and children, `BrowserSessions` has one run.
- **What blocks do**: pages, prompts, scripts and their cache, downloads, the conditional
  and wait blocks, directed-graph definitions, timed-out tasks of the second engine. A
  block's outcome is a choice among the results its code can return, an exception included.
- **Loops within loops**: the block of a loop is a leaf. The limits of a loop (100 values, 50
  blocks a value) and of the trigger depth (10) are never reached.
- **What `agent_step` does**: scraping, prompting, acting. Its outcome is the status of
  the step and what its actions say of the goal.
- **Tasks without a goal, and those that end with a download**, which take one step; the status
  `timed_out` of a task, which nothing in the modelled code writes; the clause for a step that
  another executor runs, since a task has one executor.
- **Interrupting a coordinator**: `AgentCoordinator.run` hands out its state only when it
  returns, so a run that is interrupted leaves nothing to resume from.
- **A killed process**, for runs and tasks: nothing in the repository resumes or ends them
  afterwards, so no property could say more than that the rows stay as they are.
- **Code nobody calls**: the retry caller with its hints, task states and human intervention,
  the action cache and the notification dispatcher of `enterprise/` have no caller in the
  repository but tests, and keep no state that two of their operations contend for. A
  model would be about invented callers.
- **Permission resolution and tenant filter**: pure functions of a token and a context variable
  that belongs to one request.
- **Audit, dashboard, RAG, evaluation, templates, SDK, CLI, frontend, migrations**:
  no protocol among their operations, or pure input and output.

## Plan

What would come next, in order:

1. `BrowserSessions` with two runs on one session (a run keeps the browser it was given; a
   release does not evict another run), with a smaller launch so that it stays within TLC's reach.
2. An abstract promise of a workflow run to who started it, as `TaskPromise` is of a task,
   and the proof that `WorkflowRun` keeps it.
3. The task block of `WorkflowRun` refined by `TaskSteps`: a cancelled run reaches its task
   only through the row of the run, so a task may go on for one step.
4. The library code of `enterprise/` named above, once something calls it.
