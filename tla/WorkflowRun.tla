------------------------------ MODULE WorkflowRun ------------------------------
(***************************************************************************)
(* The workflow engine of skyvern/forge/sdk/workflow/service.py: it takes  *)
(* the blocks of a workflow one by one and then its finally block, while   *)
(* clients cancel or continue the run. The two sides share nothing but the *)
(* row of the run, whose status each of them writes without looking at     *)
(* what it overwrites.                                                     *)
(*                                                                         *)
(* One action per stretch of code between two accesses to the row; what a  *)
(* block does is its outcome. A run may trigger another one, which the     *)
(* same engine executes inline. Blocks follow one another as in a version  *)
(* 1 definition; a cached script of a block is one more way to reach its   *)
(* outcome. Each run is cancelled and continued by at most one request     *)
(* (MaxRequests in all) and by the cancel of its parent. A loop inside a   *)
(* loop is left out; the limits of a loop (100 values, 50 blocks a value)  *)
(* and of the trigger depth (10) are not reached; the status timed_out,    *)
(* which only the second task engine writes, is left out.                  *)
(*                                                                         *)
(* A call that raises has not written. What a block raises becomes its     *)
(* result or fails the run; what execute_workflow raises itself leaves the *)
(* row as it is.                                                           *)
(***************************************************************************)
EXTENDS Naturals, Sequences, FiniteSets

CONSTANTS
  Runs,       \* workflow runs
  Parent,     \* Parent[r]: the run whose block triggers r, or NoRun
  NoRun,
  Plans,      \* the assignments of workflow definitions to the runs
  MaxRequests \* bound: requests of clients, to cancel or to continue

Results == {"completed", "failed", "terminated", "timed_out", "canceled"}
Kinds == {"task", "code", "human", "trigger", "loop"}

(***************************************************************************)
(* A block: `tolerant' is continue_on_failure, `moveOn'                    *)
(* next_loop_on_failure; `body' is executed once for each of `values'.     *)
(***************************************************************************)
Leaf == [kind : Kinds \ {"loop"}, tolerant : BOOLEAN, moveOn : BOOLEAN,
         values : {0}, body : {<<>>}]
Block == [kind : Kinds, tolerant : BOOLEAN, moveOn : BOOLEAN,
          values : Nat, body : Seq(Leaf)]
Workflow == [blocks : Seq(Block), finally : Seq(Block)]

ASSUME RunsAssumption ==
  /\ NoRun \notin Runs
  /\ Parent \in [Runs -> Runs \cup {NoRun}]
  /\ Plans \subseteq [Runs -> Workflow]
  /\ MaxRequests \in Nat

VARIABLES
  workflow,   \* workflow[r]: its definition
  status,     \* status[r]: the row of r
  pc,         \* pc[r]: where the engine stands with r
  at,         \* at[r]: the block, and in a loop the value and the inner block
  pre,        \* pre[r]: pre_finally_status
  returned,   \* returned[r]: the verdict of execute_workflow, "none" before it has one
  letter,     \* letter[r]: the status in the webhook the engine is about to send
  told,       \* told[r]: the status of the last webhook
  cancel,     \* cancel[r]: the request that cancels r, the children it still has to mark,
              \* and the status in its webhook
  cont,       \* cont[r]: the request that continues r
  by,         \* who wrote the status last
  blamed,     \* runs that the engine found to have failed
  stomped,    \* runs that a continue overwrote when they were no longer paused
  rejected,   \* runs whose human block found them cancelled while it waited
  astray,     \* runs of which a webhook was not sent, or was overtaken by a write
  after       \* after[r]: blocks executed since the row says canceled

vars == <<workflow, status, pc, at, pre, returned, letter, told, cancel, cont,
          by, blamed, stomped, rejected, astray, after>>
row == <<status, by, after, astray>>
webhook == <<letter, told>>
clients == <<cancel, cont, stomped, rejected>>

Statuses == {"absent", "created", "running", "paused", "completed", "failed",
             "terminated", "canceled"}
Bad == {"failed", "terminated"}
Live == {"running", "created", "paused"}

NoCancel == [stage |-> "none", children |-> {}, letter |-> "none"]
Settled == [NoCancel EXCEPT !.stage = "done"]
Start == [block |-> 1, value |-> 0, inner |-> 0]

Init ==
  /\ workflow \in Plans
  /\ status = [r \in Runs |-> IF Parent[r] = NoRun THEN "created" ELSE "absent"]
  /\ pc = [r \in Runs |-> IF Parent[r] = NoRun THEN "queued" ELSE "none"]
  /\ at = [r \in Runs |-> Start]
  /\ pre = [r \in Runs |-> "none"]
  /\ returned = [r \in Runs |-> "none"]
  /\ letter = [r \in Runs |-> "none"]
  /\ told = [r \in Runs |-> "none"]
  /\ cancel = [r \in Runs |-> NoCancel]
  /\ cont = [r \in Runs |-> "none"]
  /\ by = [r \in Runs |-> "nobody"]
  /\ blamed = {}
  /\ stomped = {}
  /\ rejected = {}
  /\ astray = {}
  /\ after = [r \in Runs |-> 0]

\* _update_workflow_run_status: whatever the row says is overwritten.
Write(r, s, who) ==
  /\ status' = [status EXCEPT ![r] = s]
  /\ by' = [by EXCEPT ![r] = who]
  /\ after' = [after EXCEPT ![r] = IF s = "canceled" THEN @ ELSE 0]
  /\ astray' = astray \cup
       {x \in {r} : pc[x] = "posting" \/ cancel[x].stage = "posting"}

Goto(r, l) == pc' = [pc EXCEPT ![r] = l]

Sequence(r) == workflow[r].blocks \o workflow[r].finally
Outer(r) == Sequence(r)[at[r].block]
InLoop(r) == at[r].value > 0
Current(r) == IF InLoop(r) THEN Outer(r).body[at[r].inner] ELSE Outer(r)
InFinally(r) == at[r].block > Len(workflow[r].blocks)

\* execute_workflow has returned or raised.
Over(r) == pc[r] \in {"over", "raised"}

-----------------------------------------------------------------------------
(* execute_workflow, up to its blocks.                                     *)

Begin(r) ==
  /\ pc[r] = "queued"
  /\ Write(r, "running", "engine")
  /\ Goto(r, "context")
  /\ UNCHANGED <<workflow, at, pre, returned, webhook, clients, blamed>>

\* The context of the run or its browser session cannot be had.
ContextFails(r) ==
  /\ pc[r] = "context"
  /\ Write(r, "failed", "engine")
  /\ returned' = [returned EXCEPT ![r] = "failed"]
  /\ blamed' = blamed \cup {r}
  /\ Goto(r, "cleanup")
  /\ UNCHANGED <<workflow, at, pre, webhook, clients>>

\* Without a block beside the finally block the engine raises, and the row stays.
StartBlocks(r) ==
  /\ pc[r] = "context"
  /\ Write(r, "running", "engine")
  /\ Goto(r, IF workflow[r].blocks = <<>> THEN "cleanup" ELSE "refresh")
  /\ UNCHANGED <<workflow, at, pre, returned, webhook, clients, blamed>>

(***************************************************************************)
(* A call of execute_workflow raises. Before its try nothing follows;      *)
(* inside it the finally clause cleans up. Nobody marks the run.           *)
(***************************************************************************)
Raises(r) ==
  \/ /\ pc[r] \in {"queued", "context"}
     /\ Goto(r, "raised")
     /\ astray' = astray \cup {r}
     /\ UNCHANGED <<workflow, status, by, after, at, pre, returned, webhook, clients, blamed>>
  \/ /\ pc[r] \in {"context", "collect", "closing", "finalize"}
     /\ Goto(r, "cleanup")
     /\ UNCHANGED <<workflow, row, at, pre, returned, webhook, clients, blamed>>

\* Variant: the loop does not look at the row between two blocks.
Refresh_Never(r) ==
  /\ pc[r] = "refresh"
  /\ Goto(r, IF InFinally(r) THEN "collect" ELSE "begin")
  /\ UNCHANGED <<workflow, row, at, pre, returned, webhook, clients, blamed>>

Refresh(r) ==
  /\ pc[r] = "refresh"
  /\ Goto(r, IF InFinally(r) \/ status[r] = "canceled" THEN "collect" ELSE "begin")
  /\ UNCHANGED <<workflow, row, at, pre, returned, webhook, clients, blamed>>

-----------------------------------------------------------------------------
(* How a block ends.                                                       *)

GoesOn(b, result) == result = "completed" \/ (b.tolerant /\ result # "canceled")

\* Variant: the status of the block becomes that of the run.
Verdict_AsIs(result) == result

Verdict(result) == IF result = "timed_out" THEN "failed" ELSE result

\* The result of the finally block is ignored; see _handle_block_result_status.
BlockEnds(r, result) ==
  \/ /\ InFinally(r)
     /\ Goto(r, "finalize")
     /\ UNCHANGED <<row, at, blamed>>
  \/ /\ ~InFinally(r)
     /\ GoesOn(Outer(r), result)
     /\ at' = [at EXCEPT ![r] = [Start EXCEPT !.block = at[r].block + 1]]
     /\ Goto(r, "refresh")
     /\ UNCHANGED <<row, blamed>>
  \/ /\ ~InFinally(r)
     /\ ~GoesOn(Outer(r), result)
     /\ Write(r, Verdict(result), "engine")
     /\ blamed' = IF result = "canceled" THEN blamed ELSE blamed \cup {r}
     /\ Goto(r, "collect")
     /\ UNCHANGED at

\* LoopBlockExecutedResult: the last block executed decides.
LoopResult(b, result) ==
  CASE result = "completed" -> "completed"
    [] result = "canceled" -> "canceled"
    [] b.tolerant -> "completed"
    [] result = "terminated" -> "terminated"
    [] OTHER -> "failed"

(***************************************************************************)
(* execute_loop_helper: the row is not read between the blocks of a loop.  *)
(* A failure leaves the loop, unless the block is tolerant or the loop     *)
(* goes on with the next value; a cancelled block always leaves it.        *)
(***************************************************************************)
InnerEnds(r, result) ==
  LET b == Current(r)
      leaves == /\ ~GoesOn(b, result)
                /\ result = "canceled" \/ ~(b.moveOn \/ Outer(r).moveOn)
      next == GoesOn(b, result) /\ at[r].inner < Len(Outer(r).body)
  IN
  \/ /\ next
     /\ at' = [at EXCEPT ![r].inner = @ + 1]
     /\ Goto(r, "begin")
     /\ UNCHANGED <<row, blamed>>
  \/ /\ ~next /\ ~leaves /\ at[r].value < Outer(r).values
     /\ at' = [at EXCEPT ![r].value = @ + 1, ![r].inner = 1]
     /\ Goto(r, "begin")
     /\ UNCHANGED <<row, blamed>>
  \/ /\ ~next
     /\ leaves \/ at[r].value = Outer(r).values
     /\ BlockEnds(r, LoopResult(b, result))

Ends(r, result) == IF InLoop(r) THEN InnerEnds(r, result) ELSE BlockEnds(r, result)

-----------------------------------------------------------------------------
(* The blocks.                                                             *)

Waits == [task |-> "acting", code |-> "acting", human |-> "pausing",
          trigger |-> "triggering", loop |-> "looping"]

BeginBlock(r) ==
  /\ pc[r] = "begin"
  /\ Goto(r, Waits[Current(r).kind])
  /\ after' = [after EXCEPT ![r] =
       IF status[r] = "canceled" /\ Current(r).kind # "loop" THEN @ + 1 ELSE @]
  /\ UNCHANGED <<workflow, status, by, astray, at, pre, returned, webhook, clients, blamed>>

\* An exception around the block fails the run, whatever continue_on_failure says.
BlockBreaks(r) ==
  /\ pc[r] = "begin" /\ ~InLoop(r)
  /\ IF InFinally(r)
       THEN Goto(r, "finalize") /\ UNCHANGED <<row, blamed>>
       ELSE /\ Write(r, "failed", "engine")
            /\ blamed' = blamed \cup {r}
            /\ Goto(r, "collect")
  /\ UNCHANGED <<workflow, at, pre, returned, webhook, clients>>

(***************************************************************************)
(* A task block ends as its task did, which clients may cancel too; a      *)
(* block without a task completes or fails, cancelled run or not.          *)
(***************************************************************************)
Act(r) ==
  /\ pc[r] = "acting"
  /\ \E result \in IF Current(r).kind = "task" THEN Results ELSE {"completed", "failed"} :
       Ends(r, result)
  /\ UNCHANGED <<workflow, pre, returned, webhook, clients>>

\* The human interaction block writes its pause over a cancel, too.
Pause(r) ==
  /\ pc[r] = "pausing"
  /\ Write(r, "paused", "engine")
  /\ Goto(r, "mailing")
  /\ UNCHANGED <<workflow, at, pre, returned, webhook, clients, blamed>>

MailSent(r) ==
  /\ pc[r] = "mailing"
  /\ Goto(r, "waiting")
  /\ UNCHANGED <<workflow, row, at, pre, returned, webhook, clients, blamed>>

\* Variant: the timeout is looked at once the row has changed.
HumanIsLate_Answered(r) ==
  /\ pc[r] = "waiting"
  /\ status[r] # "paused"
  /\ Ends(r, "timed_out")
  /\ UNCHANGED <<workflow, pre, returned, webhook, clients>>

\* The timeout is looked at before the row is.
HumanIsLate(r) ==
  /\ pc[r] = "waiting"
  /\ Ends(r, "timed_out")
  /\ UNCHANGED <<workflow, pre, returned, webhook, clients>>

\* Any status but paused counts as the human's consent.
HumanAnswers(r) ==
  /\ pc[r] = "waiting"
  /\ status[r] # "paused"
  /\ Ends(r, "completed")
  /\ rejected' = rejected \cup {x \in {r} : status[x] = "canceled"}
  /\ UNCHANGED <<workflow, pre, returned, webhook, cancel, cont, stomped>>

\* setup_workflow_run creates the run that is then executed inline.
Trigger(r) ==
  /\ pc[r] = "triggering"
  /\ \E c \in Runs :
       /\ Parent[c] = r /\ status[c] = "absent"
       /\ status' = [status EXCEPT ![c] = "created"]
       /\ pc' = [pc EXCEPT ![r] = "awaiting", ![c] = "queued"]
  /\ UNCHANGED <<workflow, by, after, astray, at, pre, returned, webhook, clients, blamed>>

\* Variant: the block succeeds when the child is over.
ChildResult_Over(c) == "completed"

ChildResult(c) ==
  IF pc[c] = "over" /\ returned[c] = "completed" THEN "completed" ELSE "failed"

\* The block fails, too, when its own last steps raise.
ChildIsOver(r) ==
  /\ pc[r] = "awaiting"
  /\ \E c \in Runs :
       /\ Parent[c] = r /\ Over(c)
       /\ Ends(r, ChildResult(c)) \/ Ends(r, "failed")
  /\ UNCHANGED <<workflow, pre, returned, webhook, clients>>

\* A loop over no values completes or terminates, as complete_if_empty says;
\* one over values that has no blocks terminates.
EmptyLoopResults(b) ==
  IF b.values = 0 THEN {"completed", "terminated"} ELSE {"terminated"}

Loop(r) ==
  /\ pc[r] = "looping"
  /\ IF Outer(r).values = 0 \/ Outer(r).body = <<>>
       THEN \E result \in EmptyLoopResults(Outer(r)) : BlockEnds(r, result)
       ELSE /\ at' = [at EXCEPT ![r].value = 1, ![r].inner = 1]
            /\ Goto(r, "begin")
            /\ UNCHANGED <<row, blamed>>
  /\ UNCHANGED <<workflow, pre, returned, webhook, clients>>

(***************************************************************************)
(* execute_safe makes a failed result of what a block raises: a template,  *)
(* the mail, a read of the row while the human is waited for, the set-up   *)
(* of a triggered run, the values of a loop. The row stays, paused too.    *)
(* What is raised between two blocks of a loop fails the loop.             *)
(***************************************************************************)
BlockFails(r) ==
  /\ \/ pc[r] \in {"pausing", "mailing", "waiting", "triggering", "looping"} /\ Ends(r, "failed")
     \/ pc[r] = "begin" /\ InLoop(r) /\ BlockEnds(r, "failed")
  /\ UNCHANGED <<workflow, pre, returned, webhook, clients>>

-----------------------------------------------------------------------------
(* execute_workflow, after its blocks.                                     *)

Collect(r) ==
  /\ pc[r] = "collect"
  /\ pre' = [pre EXCEPT ![r] = status[r]]
  /\ at' = [at EXCEPT ![r] = [Start EXCEPT !.block = Len(workflow[r].blocks) + 1]]
  /\ Goto(r, "closing")
  /\ UNCHANGED <<workflow, row, returned, webhook, clients, blamed>>

HasFinally(r) == workflow[r].finally # <<>> /\ pre[r] # "canceled"

\* For the front end a run that is over runs again while its finally block does.
BorrowsRunning(r) == HasFinally(r) /\ pre[r] \in Bad

\* Variant: the status is collected again once running has been borrowed.
BeginFinally_Recollects(r) ==
  /\ pc[r] = "closing"
  /\ IF BorrowsRunning(r) THEN Write(r, "running", "engine") ELSE UNCHANGED row
  /\ pre' = [pre EXCEPT ![r] = status'[r]]
  /\ Goto(r, IF HasFinally(r) THEN "begin" ELSE "finalize")
  /\ UNCHANGED <<workflow, at, returned, webhook, clients, blamed>>

BeginFinally(r) ==
  /\ pc[r] = "closing"
  /\ IF BorrowsRunning(r) THEN Write(r, "running", "engine") ELSE UNCHANGED row
  /\ Goto(r, IF HasFinally(r) THEN "begin" ELSE "finalize")
  /\ UNCHANGED <<workflow, at, pre, returned, webhook, clients, blamed>>

\* Variant: the status from before the finally block is not restored.
Finalize_NotRestored(r) ==
  /\ pc[r] = "finalize"
  /\ LET s == IF pre[r] \in Bad \cup {"canceled"} THEN pre[r] ELSE "completed" IN
       /\ IF s = "completed" THEN Write(r, s, "engine") ELSE UNCHANGED row
       /\ returned' = [returned EXCEPT ![r] = s]
  /\ Goto(r, "cleanup")
  /\ UNCHANGED <<workflow, at, pre, webhook, clients, blamed>>

\* Variant: a cancelled run is not among those that keep their status.
Finalize_Completes(r) ==
  /\ pc[r] = "finalize"
  /\ LET s == IF pre[r] \in Bad THEN pre[r] ELSE "completed" IN
       /\ IF pre[r] \in Bad /\ ~BorrowsRunning(r) THEN UNCHANGED row ELSE Write(r, s, "engine")
       /\ returned' = [returned EXCEPT ![r] = s]
  /\ Goto(r, "cleanup")
  /\ UNCHANGED <<workflow, at, pre, webhook, clients, blamed>>

\* _finalize_workflow_run_status; `workflow_run.status' is the engine's own copy.
Finalize(r) ==
  /\ pc[r] = "finalize"
  /\ LET s == IF pre[r] \in Bad \cup {"canceled"} THEN pre[r] ELSE "completed" IN
       /\ IF s = "completed" \/ BorrowsRunning(r) THEN Write(r, s, "engine") ELSE UNCHANGED row
       /\ returned' = [returned EXCEPT ![r] = s]
  /\ Goto(r, "cleanup")
  /\ UNCHANGED <<workflow, at, pre, webhook, clients, blamed>>

\* Variant: the webhook carries the status the engine decided.
ReadsForWebhook_OwnCopy(r) ==
  /\ pc[r] = "cleanup"
  /\ letter' = [letter EXCEPT ![r] = IF returned[r] = "none" THEN status[r] ELSE returned[r]]
  /\ Goto(r, "posting")
  /\ UNCHANGED <<workflow, row, at, pre, returned, told, clients, blamed>>

\* clean_up_workflow: the webhook reads the row again ...
ReadsForWebhook(r) ==
  /\ pc[r] = "cleanup"
  /\ letter' = [letter EXCEPT ![r] = status[r]]
  /\ Goto(r, "posting")
  /\ UNCHANGED <<workflow, row, at, pre, returned, told, clients, blamed>>

\* What execute_workflow raised before it had a verdict is raised again.
Leaves(r) == Goto(r, IF returned[r] = "none" THEN "raised" ELSE "over")

\* ... and is sent some awaits later (the record of it may fail) ...
Posts(r) ==
  /\ pc[r] = "posting"
  /\ Parent[r] = NoRun
  /\ told' = [told EXCEPT ![r] = letter[r]]
  /\ letter' = [letter EXCEPT ![r] = "none"]
  /\ Leaves(r) \/ Goto(r, "raised")
  /\ UNCHANGED <<workflow, row, at, pre, returned, clients, blamed>>

\* ... unless the run has no callback, or no api_key: a triggered run has none.
PostsNothing(r) ==
  /\ pc[r] = "posting"
  /\ letter' = [letter EXCEPT ![r] = "none"]
  /\ astray' = astray \cup {r}
  /\ Leaves(r)
  /\ UNCHANGED <<workflow, status, by, after, at, pre, returned, told, clients, blamed>>

\* The clean-up raises, before the webhook or because it cannot be sent.
CleanUpRaises(r) ==
  /\ pc[r] \in {"cleanup", "posting"}
  /\ letter' = [letter EXCEPT ![r] = "none"]
  /\ astray' = astray \cup {r}
  /\ Goto(r, "raised")
  /\ UNCHANGED <<workflow, status, by, after, at, pre, returned, told, clients, blamed>>

-----------------------------------------------------------------------------
(* The endpoints.                                                          *)

MayRequest ==
  Cardinality({r \in Runs : cancel[r].stage # "none"})
    + Cardinality({r \in Runs : cont[r] # "none"}) < MaxRequests

\* _cancel_workflow_run reads which of the children are under way ...
CancelReads(r) ==
  /\ cancel[r].stage = "none" /\ MayRequest
  /\ status[r] # "absent"
  /\ cancel' = [cancel EXCEPT ![r].stage = "marking",
       ![r].children = {c \in Runs : Parent[c] = r /\ status[c] \in Live}]
  /\ UNCHANGED <<workflow, row, pc, at, pre, returned, webhook, cont, stomped, rejected, blamed>>

\* ... marks them, whatever has become of them ...
CancelChild(r) ==
  /\ cancel[r].stage = "marking"
  /\ \E c \in cancel[r].children :
       /\ Write(c, "canceled", "parent")
       /\ cancel' = [cancel EXCEPT ![r].children = @ \ {c}]
  /\ UNCHANGED <<workflow, pc, at, pre, returned, webhook, cont, stomped, rejected, blamed>>

\* ... then marks the run itself, reads it for the webhook and sends that.
CancelSelf(r) ==
  /\ cancel[r].stage = "marking"
  /\ cancel[r].children = {}
  /\ Write(r, "canceled", "cancel")
  /\ cancel' = [cancel EXCEPT ![r].stage = "telling"]
  /\ UNCHANGED <<workflow, pc, at, pre, returned, webhook, cont, stomped, rejected, blamed>>

CancelReadsForWebhook(r) ==
  /\ cancel[r].stage = "telling"
  /\ cancel' = [cancel EXCEPT ![r].stage = "posting", ![r].letter = status[r]]
  /\ UNCHANGED <<workflow, row, pc, at, pre, returned, webhook, cont, stomped, rejected, blamed>>

CancelPosts(r) ==
  /\ cancel[r].stage = "posting"
  /\ told' = [told EXCEPT ![r] = cancel[r].letter]
  /\ cancel' = [cancel EXCEPT ![r] = Settled]
  /\ UNCHANGED <<workflow, row, pc, at, pre, returned, letter, cont, stomped, rejected, blamed>>

\* The request raises on its way, or has no api_key or callback to send to.
CancelBreaks(r) ==
  /\ cancel[r].stage \in {"marking", "telling", "posting"}
  /\ astray' = astray \cup {x \in {r} : cancel[x].stage # "marking"}
  /\ cancel' = [cancel EXCEPT ![r] = Settled]
  /\ UNCHANGED <<workflow, status, by, after, pc, at, pre, returned, webhook, cont, stomped,
                 rejected, blamed>>

\* _continue_workflow_run finds the run paused, then marks it running.
ContinueReads(r) ==
  /\ cont[r] = "none" /\ MayRequest
  /\ status[r] = "paused"
  /\ cont' = [cont EXCEPT ![r] = "found"]
  /\ UNCHANGED <<workflow, row, pc, at, pre, returned, webhook, cancel, stomped, rejected, blamed>>

ContinueWrites(r) ==
  /\ cont[r] = "found"
  /\ Write(r, "running", "continue")
  /\ stomped' = stomped \cup {x \in {r} : status[x] # "paused"}
  /\ cont' = [cont EXCEPT ![r] = "done"]
  /\ UNCHANGED <<workflow, pc, at, pre, returned, webhook, cancel, rejected, blamed>>

-----------------------------------------------------------------------------
Engine(r) ==
  \/ Begin(r) \/ StartBlocks(r) \/ Refresh(r) \/ BeginBlock(r) \/ Act(r)
  \/ Pause(r) \/ MailSent(r) \/ HumanIsLate(r) \/ HumanAnswers(r)
  \/ Trigger(r) \/ ChildIsOver(r) \/ Loop(r)
  \/ Collect(r) \/ BeginFinally(r) \/ Finalize(r)
  \/ ReadsForWebhook(r) \/ Posts(r) \/ PostsNothing(r)

Faults(r) ==
  \/ ContextFails(r) \/ Raises(r) \/ BlockBreaks(r) \/ BlockFails(r) \/ CleanUpRaises(r)

Clients(r) ==
  \/ CancelReads(r) \/ CancelChild(r) \/ CancelSelf(r)
  \/ CancelReadsForWebhook(r) \/ CancelPosts(r) \/ CancelBreaks(r)
  \/ ContinueReads(r) \/ ContinueWrites(r)

Next == \E r \in Runs : Engine(r) \/ Faults(r) \/ Clients(r)

(***************************************************************************)
(* The event loop runs the engine on; a block answers, a task because its  *)
(* steps are bounded, a human block because of its timeout. No fairness is *)
(* assumed of clients or of faults.                                        *)
(***************************************************************************)
Fairness == \A r \in Runs : WF_vars(Engine(r))

Spec == Init /\ [][Next]_vars /\ Fairness

-----------------------------------------------------------------------------
(* Properties.                                                             *)

\* Types, of the row, of the engine's variables and of the clients' requests.
TypeOK ==
  /\ workflow \in Plans
  /\ status \in [Runs -> Statuses]
  /\ pc \in [Runs -> {"none", "queued", "context", "refresh", "begin", "acting", "pausing",
                      "mailing", "waiting", "triggering", "awaiting", "looping", "collect",
                      "closing", "finalize", "cleanup", "posting", "over", "raised"}]
  /\ at \in [Runs -> [block : Nat, value : Nat, inner : Nat]]
  /\ pre \in [Runs -> Statuses \cup {"none"}]
  /\ returned \in [Runs -> {"none", "completed", "failed", "terminated", "canceled"}]
  /\ letter \in [Runs -> Statuses \cup {"none"}]
  /\ told \in [Runs -> Statuses \cup {"none"}]
  /\ cancel \in [Runs -> [stage : {"none", "marking", "telling", "posting", "done"},
                         children : SUBSET Runs, letter : Statuses \cup {"none"}]]
  /\ cont \in [Runs -> {"none", "found", "done"}]
  /\ by \in [Runs -> {"nobody", "engine", "cancel", "continue", "parent"}]
  /\ blamed \subseteq Runs
  /\ stomped \subseteq Runs
  /\ rejected \subseteq Runs
  /\ astray \subseteq Runs
  /\ after \in [Runs -> Nat]

(***************************************************************************)
(* A run that the engine found to have failed is not completed at the end, *)
(* unless a continue that had read the row in time wrote it too late: the  *)
(* finally block, borrowed status and all, does not change the verdict.    *)
(***************************************************************************)
BlameHolds == \A r \in blamed :
  Over(r) /\ status[r] = "completed" => r \in stomped

(***************************************************************************)
(* A cancel that the engine has seen between two blocks stands at the end. *)
(* Only a late continue changes it.                                        *)
(***************************************************************************)
SeenCancelStands == \A r \in Runs :
  Over(r) /\ pre[r] = "canceled" => status[r] = "canceled" \/ r \in stomped

(***************************************************************************)
(* If nobody has written after the engine, the row of a run that is over   *)
(* holds what execute_workflow returned: completed or the status collected *)
(* before the finally block, never the running it borrowed. The exception  *)
(* is a run of which the engine raised before it had a verdict.            *)
(***************************************************************************)
EngineHasTheLastWord == \A r \in Runs :
  Over(r) /\ by[r] = "engine" => status[r] = returned[r] \/ returned[r] = "none"

(***************************************************************************)
(* When a run is over and its cancel is settled, the last webhook told the *)
(* status the row has, whichever of the engine's and the cancel's came     *)
(* last. The exceptions: a continue and the cancel of the parent, which    *)
(* send none; a webhook that was not sent; and a row written between the   *)
(* read of a webhook and its post.                                         *)
(***************************************************************************)
ToldTheTruth == \A r \in Runs :
  /\ Over(r)
  /\ cancel[r].stage \in {"none", "done"}
  /\ told[r] # status[r]
  => by[r] \in {"continue", "parent"} \/ r \in astray

\* The executions of blocks that one block of the sequence stands for.
Weight(b) == IF b.kind = "loop" THEN b.values * Len(b.body) ELSE 1

(***************************************************************************)
(* While the row says canceled the engine executes no more than the block  *)
(* it is at, or was about to begin: a loop with all its values, or one.    *)
(***************************************************************************)
CancelStopsSoon == \A r \in Runs :
  status[r] = "canceled" =>
    \/ after[r] = 0
    \/ \E i \in DOMAIN Sequence(r) : after[r] <= Weight(Sequence(r)[i])

\* The blocks of r that trigger another run and may not fail.
MustComplete(r) ==
  {i \in DOMAIN workflow[r].blocks : workflow[r].blocks[i].kind = "trigger"
                                    /\ ~workflow[r].blocks[i].tolerant}

(***************************************************************************)
(* A run that is completed although it had to trigger another one had that *)
(* one completed first, with its engine gone, unless a late continue made  *)
(* up for a failure.                                                       *)
(***************************************************************************)
ChildCompletedFirst == \A r \in Runs :
  Over(r) /\ status[r] = "completed" /\ MustComplete(r) # {} =>
    \/ r \in stomped
    \/ \E c \in Runs : Parent[c] = r /\ pc[c] = "over" /\ returned[c] = "completed"

(***************************************************************************)
(* HumanInteractionBlock: if the human chooses negatively, the workflow is *)
(* terminated. The front end rejects by cancelling the run.                *)
(***************************************************************************)
RejectionStops == \A r \in rejected : status[r] = "canceled" => after[r] = 0

\* A run whose engine has begun is over some time, whatever clients do.
EngineEnds == \A r \in Runs : pc[r] = "context" ~> Over(r)

=============================================================================
