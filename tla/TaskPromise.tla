------------------------------ MODULE TaskPromise ------------------------------
(***************************************************************************)
(* What the tables of steps and tasks promise about one task to those who  *)
(* read them while it is executed: the status endpoint, the web interface, *)
(* the caller of a workflow. The rows of the steps are a ledger that grows *)
(* at its end, as long as no row is flagged as the last; a row is begun    *)
(* once, settled once, and stays; and a verdict of the agent refers to     *)
(* rows that bear it out. Nothing is said of the executor, of its          *)
(* verification beside a speculative step, or of how often calls fail.     *)
(***************************************************************************)
EXTENDS Naturals, Sequences

CONSTANTS MaxSteps, MaxRetries

VARIABLES
  rows,       \* the rows of the steps, in the order they were created
  verdict     \* the status in the row of the task

NewRow(order, retry) ==
  [order |-> order, retry |-> retry, status |-> "created", last |-> "no"]

Tip == rows[Len(rows)]
WithTip(status) == [rows EXCEPT ![Len(rows)].status = status]
Flagged(i) == [rows EXCEPT ![i].last = "yes"]

\* The agent has not given its verdict, or a cancel has overwritten it.
Undecided == verdict \in {"running", "canceled"}

\* No step has been declared the last one.
Unclosed == \A i \in DOMAIN rows : rows[i].last = "no"

Init == rows = <<NewRow(0, 0)>> /\ verdict = "running"

\* A failed row is retried, a completed one followed by the next order.
Follow ==
  /\ Undecided /\ Unclosed
  /\ \/ /\ Tip.status = "failed" /\ Tip.retry < MaxRetries
        /\ rows' = Append(rows, NewRow(Tip.order, Tip.retry + 1))
     \/ /\ Tip.status = "completed" /\ Tip.order < MaxSteps
        /\ rows' = Append(rows, NewRow(Tip.order + 1, 0))
  /\ UNCHANGED verdict

Begin ==
  /\ Undecided /\ Unclosed
  /\ Tip.status = "created" /\ Tip.order < MaxSteps
  /\ rows' = WithTip("running")
  /\ UNCHANGED verdict

\* A step may fail before it was begun, but not complete.
Finish ==
  /\ Undecided /\ Unclosed
  /\ \/ Tip.status = "running" /\ rows' = WithTip("completed")
     \/ Tip.status \in {"created", "running"} /\ rows' = WithTip("failed")
  /\ UNCHANGED verdict

\* The row behind a completed one is not needed after all.
Withdraw ==
  /\ Tip.status = "created"
  /\ \E i \in DOMAIN rows : i + 1 = Len(rows) /\ rows[i].status = "completed"
  /\ rows' = WithTip("canceled")
  /\ UNCHANGED verdict

\* A completed row is declared the last one, after which none was begun.
Close ==
  /\ Undecided /\ Unclosed
  /\ \E i \in DOMAIN rows :
       /\ rows[i].status = "completed"
       /\ \A j \in DOMAIN rows : j > i => rows[j].status \in {"created", "canceled"}
       /\ rows' = Flagged(i)
  /\ UNCHANGED verdict

\* The step that would have been begun is given up for a cancel.
Abandon ==
  /\ Undecided /\ Unclosed
  /\ Tip.status = "created"
  /\ rows' = [rows EXCEPT ![Len(rows)] = [@ EXCEPT !.status = "canceled", !.last = "yes"]]
  /\ UNCHANGED verdict

\* A cancel, of a client or of the workflow run, may overwrite a verdict that it has not seen.
Cancel == verdict' = "canceled" /\ UNCHANGED rows

\* A row bears out that the goal was decided.
Decided == \E i \in DOMAIN rows : rows[i].status = "completed" /\ rows[i].last = "yes"

\* A row bears out that the task has failed: it failed, or was the last at the limit.
Exhausted == \E i \in DOMAIN rows :
  \/ rows[i].status = "failed"
  \/ rows[i].status = "completed" /\ rows[i].last = "yes" /\ rows[i].order + 1 >= MaxSteps

Conclude ==
  /\ Undecided
  /\ \/ Decided /\ verdict' \in {"completed", "terminated"}
     \/ Exhausted /\ verdict' = "failed"
  /\ UNCHANGED rows

Next == Follow \/ Begin \/ Finish \/ Withdraw \/ Close \/ Abandon \/ Cancel \/ Conclude

Spec == Init /\ [][Next]_<<rows, verdict>>

=============================================================================
