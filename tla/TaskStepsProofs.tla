---------------------------- MODULE TaskStepsProofs ----------------------------
(***************************************************************************)
(* Proofs about TaskSteps, for any limits and any kinds of task. What the  *)
(* executor, the clients and the webhooks have done so far fits the row of *)
(* the task (Requests); the rows of the steps ascend, and all but the last *)
(* one are settled (Rows); and every place of the executor fits the step   *)
(* it is at, whether it is at work on the last row or on its way back      *)
(* through the calls below an exception (Execution).                       *)
(***************************************************************************)
EXTENDS TaskSteps, SequenceTheorems, TLAPS

StepStatuses == {"created", "running", "failed", "completed", "canceled"}
Row == [order : 0 .. MaxSteps, retry : 0 .. MaxRetries, last : {"yes", "no"},
        status : StepStatuses]

\* Everything but the rows, and the call as a number.
Scalars ==
  /\ kind \in Kinds
  /\ task \in Statuses
  /\ run \in {"running", "canceled"}
  /\ clause \in {"prologue", "body", "silent"} \cup Failing
  /\ pc \in {"enter", "look", "ready", "acting", "failed", "completed", "verify", "verifying",
             "withdraw", "update", "write", "fail", "clean", "tell", "post", "over"}
  /\ goal \in {"open", "achieved", "terminated"}
  /\ update \in [to : Final \cup {"none"}, read : Statuses \cup {"none"}]
  /\ discard \in {"none", "pending", "done", "raised"}
  /\ letter \in Statuses \cup {"none"}
  /\ client \in {"none", "checked", "refused", "wrote", "posting", "done"}
  /\ notice \in Statuses \cup {"none"}
  /\ told \in Statuses \cup {"none"}
  /\ browser \in {"open", "closed"}
  /\ starts \in Nat
  /\ raced \in {"yes", "no"}
  /\ astray \in {"yes", "no"}
  /\ faults \in 0 .. MaxFaults
  /\ slipped \subseteq {"prologue", "body", "fail_task", "clean_up", "webhook", "discard"}

Typed == Scalars /\ cur \in Nat \ {0}

-----------------------------------------------------------------------------
(* Where an exception leads.                                               *)

\* It leaves the first call, or is handled by this call or by one below.
Caught(handler) ==
  \/ pc' = "over" /\ clause' = clause /\ cur' = cur /\ cur = 1 /\ clause # "body"
  \/ /\ clause' = handler
     /\ handler \in Failing => pc' = "fail"
     /\ handler \notin Failing => pc' = "clean"
     /\ cur' \in 1 .. cur
     /\ clause = "body" => cur' = cur
     /\ clause # "body" => cur' < cur

LEMMA RaisesIsCaught ==
  ASSUME NEW handler, Raises(handler), cur \in Nat \ {0}
  PROVE  Caught(handler)
  <1>1. CASE clause = "body"
    BY <1>1 DEF Raises, Catcher, Caught, frame
  <1>2. CASE clause # "body" /\ cur = 1
    BY <1>2 DEF Raises, Catcher, Caught, frame
  <1>3. CASE clause # "body" /\ cur # 1
    BY <1>3 DEF Raises, Catcher, Caught, frame
  <1> QED
    BY <1>1, <1>2, <1>3

(***************************************************************************)
(* A call that raises: within fail_task it goes on to clean up, elsewhere  *)
(* it is an exception. What was to be told goes astray.                    *)
(***************************************************************************)
Slipped ==
  /\ pc \notin {"ready", "post", "over"}
  /\ faults' = faults + 1
  /\ \/ /\ clause \in Failing /\ pc \in {"fail", "update", "write"}
        /\ slipped' = slipped \cup {"fail_task"}
        /\ pc' = "clean" /\ clause' = clause /\ cur' = cur
     \/ /\ ~(clause \in Failing /\ pc \in {"fail", "update", "write"})
        /\ \E place \in {"clean_up", "webhook", "prologue", "body"} :
             /\ slipped' = slipped \cup {place}
             /\ pc = "clean" => place = "clean_up"
             /\ pc \notin {"clean", "tell"} /\ clause = "prologue" => place = "prologue"
        /\ Caught("fail")
  /\ astray' = IF pc \in {"clean", "tell"} \/ pc' = "over" THEN "yes" ELSE astray
  /\ UNCHANGED <<others, ledger, update, letter, told, browser>>

LEMMA BreaksSlips ==
  ASSUME Breaks, cur \in Nat \ {0}
  PROVE  Slipped /\ faults < MaxFaults
  <1>1. CASE Place = "fail_task"
    <2>1. clause \in Failing /\ pc \in {"fail", "update", "write"}
      BY <1>1 DEF Place
    <2> QED
      BY <1>1, <2>1 DEF Breaks, Slip, Slipped, frame
  <1>2. CASE Place # "fail_task"
    <2>1. ~(clause \in Failing /\ pc \in {"fail", "update", "write"})
      BY <1>2 DEF Place
    <2>4. /\ Place \in {"clean_up", "webhook", "prologue", "body"}
          /\ pc = "clean" => Place = "clean_up"
          /\ pc \notin {"clean", "tell"} /\ clause = "prologue" => Place = "prologue"
      BY <2>1 DEF Place
    <2>2. Raises("fail")
      BY <1>2 DEF Breaks
    <2>3. Caught("fail")
      BY <2>2, RaisesIsCaught
    <2> QED
      BY <2>1, <2>3, <2>4 DEF Breaks, Slip, Slipped
  <1> QED
    BY <1>1, <1>2

-----------------------------------------------------------------------------
(* The row of the task and those who write and tell it.                    *)

\* Where the executor may stand in each part, and what a call of update_task is about.
Placed ==
  /\ pc \in {"enter", "look"} => clause = "prologue"
  /\ pc \in {"ready", "acting", "failed", "completed", "verify", "verifying", "withdraw"} =>
       clause = "body"
  /\ pc = "fail" => clause \in Failing
  /\ clause = "silent" => pc \in {"clean", "tell", "over"} /\ task # "running"
  /\ pc \in {"update", "write"} =>
       /\ update.to \in Final
       /\ clause = "prologue" => update.to = "canceled" /\ kind.place = "workflow"
       /\ clause \in Failing => update.to = "failed"
       /\ update.to = "completed" => goal = "achieved"
  /\ pc = "write" => CanUpdate(update.read, update.to)

\* The client's cancel.
Cancelling ==
  /\ CancelWritten => task # "running"
  /\ CancelWritten /\ raced = "no" => task \in {"canceled", "completed"}

\* A step that was started on a cancelled task is the last one.
Starting == starts = 0 \/ (starts = 1 /\ task # "running" /\ pc # "ready")

\* What is on its way is the status of the row, and so is what the client has told.
Told == told = task \/ astray = "yes"
Silent == pc \notin {"clean", "tell", "post", "over"} \/ clause = "silent"
Telling ==
  /\ pc = "post" => letter = task \/ astray = "yes"
  /\ client = "posting" => notice = task \/ astray = "yes"
  /\ client = "done" /\ Silent => Told
  /\ kind.place = "alone" /\ task # "running" /\ Silent => CancelWritten \/ astray = "yes"
  /\ Over /\ kind.place = "alone" /\ client \notin {"wrote", "posting"} =>
       Told \/ clause = "parse"

\* A browser to close is closed before anything is told.
Own == kind.place = "alone" /\ kind.browser = "closes"
Excused == CancelWritten \/ slipped \cap {"prologue", "clean_up"} # {}
Closing ==
  /\ Own /\ pc \in {"tell", "post"} => browser = "closed"
  /\ Own /\ browser = "open" /\ task # "running" /\ pc # "clean" => Excused

Requests ==
  /\ Placed /\ Cancelling /\ Starting /\ Telling /\ Closing
  /\ ToldTheTruth /\ BrowserClosed

LEMMA KindIsTyped == ASSUME Scalars PROVE kind \in TaskKind
  BY StepsAssumption DEF Scalars

LEMMA ExecutorRequests ==
  ASSUME Typed, Requests, Executor
  PROVE  Requests'
  <1>0. /\ kind \in TaskKind /\ cur \in Nat \ {0} /\ task \in Statuses /\ starts \in Nat
        /\ clause \in {"prologue", "body", "silent"} \cup Failing
        /\ update \in [to : Final \cup {"none"}, read : Statuses \cup {"none"}]
        /\ browser \in {"open", "closed"}
    BY KindIsTyped DEF Typed, Scalars
  <1> USE DEF Requests, Placed, Cancelling, Starting, Telling, Told, Silent, Own, Excused, Closing,
              ToldTheTruth, BrowserClosed, CancelWritten, Over, Statuses, Final, TaskKind, Failing,
              others, ledger, frame, mail, ends, slips
  <1>1. CASE RunIsCanceled \/ RunGoesOn
    BY <1>1 DEF RunIsCanceled, RunGoesOn, Updates
  <1>2. CASE TaskIsCanceled
    BY <1>2 DEF TaskIsCanceled
  <1>3. CASE Validate
    BY <1>3 DEF Validate
  <1>4. CASE InitializeFails
    <2>1. PICK handler \in {"fail", "scrape"} : Raises(handler)
      BY <1>4 DEF InitializeFails
    <2>2. clause' = handler /\ pc' = "fail"
      BY <1>0, <1>4, <2>1, RaisesIsCaught DEF InitializeFails, Caught
    <2> QED
      BY <1>4, <2>2 DEF InitializeFails
  <1>5. CASE Start
    BY <1>0, <1>5 DEF Start
  <1>6. CASE StepFails \/ StepCompletes
    BY <1>6 DEF StepFails, StepCompletes
  <1>7. CASE StepRaises
    <2>1. PICK handler \in {"scrape", "parse"} : Raises(handler)
      BY <1>7 DEF StepRaises
    <2>2. clause' = handler /\ pc' = "fail"
      BY <1>0, <1>7, <2>1, RaisesIsCaught DEF StepRaises, Caught
    <2> QED
      BY <1>7, <2>2 DEF StepRaises
  <1>8. CASE Retry \/ NextStep
    BY <1>8 DEF Retry, NextStep, Calls
  <1>9. CASE RetriesExhausted \/ StepsExhausted
    BY <1>9 DEF RetriesExhausted, StepsExhausted, Updates
  <1>10. CASE Decide
    BY <1>10 DEF Decide, Updates
  <1>11. CASE Speculate \/ Verified \/ NotVerifiedAtLimit
    BY <1>11 DEF Speculate, Verified, NotVerifiedAtLimit
  <1>12. CASE NotVerified
    BY <1>12 DEF NotVerified
  <1>13. CASE Withdraw
    BY <1>13 DEF Withdraw, Updates
  <1>14. CASE CheckUpdate
    BY <1>0, <1>14 DEF CheckUpdate
  <1>15. CASE UpdateRefused
    <2>1. task # "running" /\ pc = "update"
      BY <1>15 DEF UpdateRefused, CanUpdate
    <2>2. CASE clause \notin Failing
      <3>1. Caught("silent")
        BY <1>0, <1>15, <2>2, RaisesIsCaught DEF UpdateRefused, Refused
      <3> QED
        BY <1>15, <2>1, <2>2, <3>1 DEF UpdateRefused, Caught
    <2>3. CASE clause \in Failing
      BY <1>15, <2>1, <2>3 DEF UpdateRefused
    <2> QED
      BY <2>2, <2>3
  <1>16. CASE NothingExtracted
    <2>1. clause = "body"
      BY <1>0, <1>16 DEF NothingExtracted
    <2>2. clause' = "fail" /\ pc' = "fail"
      BY <1>0, <1>16, <2>1, RaisesIsCaught DEF NothingExtracted, Caught
    <2> QED
      BY <1>16, <2>1, <2>2 DEF NothingExtracted
  <1>17. CASE WriteUpdate
    BY <1>0, <1>17 DEF WriteUpdate, Overtakes, CanUpdate
  <1>18. CASE FailTask \/ FailTaskRaises
    BY <1>18 DEF FailTask, FailTaskRaises, Updates
  <1>19. CASE CleanUp
    BY <1>0, <1>19 DEF CleanUp
  <1>20. CASE TellsNobody \/ Tell
    <2>1. CASE TellsNobody
      BY <1>0, <2>1 DEF TellsNobody
    <2>2. CASE Tell
      BY <1>0, <2>2 DEF Tell
    <2> QED
      BY <1>20, <2>1, <2>2
  <1>21. CASE Post \/ PostsNothing
    BY <1>21 DEF Post, PostsNothing
  <1> QED
    BY <1>1, <1>2, <1>3, <1>4, <1>5, <1>6, <1>7, <1>8, <1>9, <1>10, <1>11, <1>12, <1>13, <1>14,
       <1>15, <1>16, <1>17, <1>18, <1>19, <1>20, <1>21 DEF Executor

LEMMA FaultsRequests ==
  ASSUME Typed, Requests, Faults
  PROVE  Requests'
  <1>0. /\ kind \in TaskKind /\ cur \in Nat \ {0} /\ task \in Statuses
        /\ clause \in {"prologue", "body", "silent"} \cup Failing
        /\ pc \in {"enter", "look", "ready", "acting", "failed", "completed", "verify", "verifying",
                   "withdraw", "update", "write", "fail", "clean", "tell", "post", "over"}
        /\ slipped \subseteq {"prologue", "body", "fail_task", "clean_up", "webhook", "discard"}
    BY KindIsTyped DEF Typed, Scalars
  <1> USE DEF Requests, Placed, Cancelling, Starting, Telling, Told, Silent, Own, Excused, Closing,
              ToldTheTruth, BrowserClosed, CancelWritten, Over, Statuses, Final, TaskKind, Failing,
              others, ledger, frame, mail, ends, slips
  <1>1. CASE Breaks
    <2>0. Slipped
      BY <1>0, <1>1, BreaksSlips
    <2>1. CASE clause \in Failing /\ pc \in {"fail", "update", "write"}
      BY <1>0, <2>0, <2>1 DEF Slipped
    <2>2. CASE ~(clause \in Failing /\ pc \in {"fail", "update", "write"})
      <3>1. Caught("fail") /\ slipped \subseteq slipped' /\ (pc = "clean" => "clean_up" \in slipped')
            /\ (clause = "prologue" /\ pc \notin {"clean", "tell"} => "prologue" \in slipped')
        BY <1>0, <2>0, <2>2 DEF Slipped
      <3>2. /\ pc \notin {"ready", "post", "over"}
            /\ astray' = IF pc \in {"clean", "tell"} \/ pc' = "over" THEN "yes" ELSE astray
            /\ UNCHANGED <<others, ledger, update, letter, told, browser>>
        BY <2>0 DEF Slipped
      <3>3. Excused => Excused'
        BY <3>1, <3>2
      <3>4. Placed' /\ Cancelling' /\ Starting' /\ Telling'
        BY <1>0, <3>1, <3>2 DEF Caught
      <3>5. Closing'
        BY <1>0, <3>1, <3>2, <3>3 DEF Caught
      <3>6. pc' = "over" => astray' = "yes"
        BY <3>2
      <3>7. ToldTheTruth'
        BY <3>6
      <3>8. BrowserClosed'
        <4> SUFFICES ASSUME pc' = "over", Own, browser = "open" PROVE Excused'
          BY <3>2
        <4>1. pc = "clean" => Excused'
          BY <3>1
        <4>2. clause = "prologue" /\ pc \notin {"clean", "tell"} => Excused'
          BY <3>1
        <4>3. pc # "tell"
          OBVIOUS
        <4>4. clause # "body"
          BY <3>1 DEF Caught
        <4> QED
          BY <1>0, <2>2, <3>2, <4>1, <4>2, <4>3, <4>4
      <3> QED
        BY <3>4, <3>5, <3>7, <3>8
    <2> QED
      BY <2>1, <2>2
  <1>2. CASE StartBreaks
    BY <1>0, <1>2 DEF StartBreaks, Slip
  <1>3. CASE WithdrawBreaks
    BY <1>0, <1>3 DEF WithdrawBreaks, Slip, Updates
  <1>4. CASE DiscardBreaks
    BY <1>0, <1>4 DEF DiscardBreaks, Slip
  <1> QED
    BY <1>1, <1>2, <1>3, <1>4 DEF Faults

LEMMA OthersRequests ==
  ASSUME Typed, Requests, Client \/ Discard \/ RunCanceled
  PROVE  Requests'
  <1>0. kind \in TaskKind /\ task \in Statuses
    BY KindIsTyped DEF Typed, Scalars
  <1> USE DEF Requests, Placed, Cancelling, Starting, Telling, Told, Silent, Own, Excused, Closing,
              ToldTheTruth, BrowserClosed, CancelWritten, Over, Statuses, Final, TaskKind, Failing,
              others, ledger, frame, mail, ends, slips
  <1>1. CASE ClientChecks
    BY <1>1 DEF ClientChecks
  <1>2. CASE ClientWrites
    BY <1>0, <1>2 DEF ClientWrites, Overtakes
  <1>3. CASE ClientReads
    BY <1>3 DEF ClientReads
  <1>4. CASE ClientPosts
    BY <1>4 DEF ClientPosts
  <1>5. CASE ClientBreaks
    BY <1>0, <1>5 DEF ClientBreaks
  <1>6. CASE Discard \/ RunCanceled
    BY <1>6 DEF Discard, RunCanceled
  <1> QED
    BY <1>1, <1>2, <1>3, <1>4, <1>5, <1>6 DEF Client

-----------------------------------------------------------------------------
(* The rows of the steps.                                                  *)

\* Row i gets a status and perhaps the flag; the others stay as they are.
Marked(old, new, i, s) ==
  /\ new \in Seq(Row) /\ Len(new) = Len(old)
  /\ \A j \in 1 .. Len(old) :
       /\ new[j].order = old[j].order /\ new[j].retry = old[j].retry
       /\ j # i => new[j].status = old[j].status /\ new[j].last = old[j].last
  /\ new[i].status = s

\* A row is added behind the others.
Added(o, n) ==
  /\ steps' \in Seq(Row) /\ Len(steps') = Len(steps) + 1
  /\ \A j \in 1 .. Len(steps) : steps'[j] = steps[j]
  /\ steps'[Len(steps) + 1] = NewStep(o, n)

LEMMA WriteMarks ==
  ASSUME NEW old \in Seq(Row), NEW i \in 1 .. Len(old), NEW e \in Row,
         e.order = old[i].order, e.retry = old[i].retry
  PROVE  Marked(old, [old EXCEPT ![i] = e], i, e.status) /\ [old EXCEPT ![i] = e][i].last = e.last
  <1> DEFINE new == [old EXCEPT ![i] = e]
  <1>1. /\ new \in Seq(Row) /\ Len(new) = Len(old)
        /\ \A j \in 1 .. Len(old) : new[j] = IF j = i THEN e ELSE old[j]
    BY ExceptSeq
  <1> HIDE DEF new
  <1>2. Marked(old, new, i, e.status) /\ new[i].last = e.last
    BY <1>1 DEF Marked
  <1> QED
    BY <1>2 DEF new

LEMMA StatusMarks ==
  ASSUME NEW old \in Seq(Row), NEW new, NEW i \in 1 .. Len(old), NEW s \in StepStatuses,
         new = [old EXCEPT ![i].status = s]
  PROVE  Marked(old, new, i, s) /\ new[i].last = old[i].last
  <1> DEFINE e == [old[i] EXCEPT !.status = s]
  <1>1. old[i] \in Row
    BY ElementOfSeq
  <1>2. e \in Row /\ e.order = old[i].order /\ e.retry = old[i].retry
    BY <1>1 DEF Row, StepStatuses
  <1>3. e.status = s /\ e.last = old[i].last
    BY <1>1 DEF Row
  <1>4. new = [old EXCEPT ![i] = e]
    OBVIOUS
  <1> HIDE DEF e
  <1> QED
    <2>1. Marked(old, [old EXCEPT ![i] = e], i, e.status) /\ [old EXCEPT ![i] = e][i].last = e.last
      BY <1>2, WriteMarks
    <2> QED
      BY <1>3, <1>4, <2>1

LEMMA FlagMarks ==
  ASSUME NEW old \in Seq(Row), NEW new, NEW i \in 1 .. Len(old),
         new = [old EXCEPT ![i].last = "yes"]
  PROVE  Marked(old, new, i, old[i].status) /\ new[i].last = "yes"
  <1> DEFINE e == [old[i] EXCEPT !.last = "yes"]
  <1>1. old[i] \in Row
    BY ElementOfSeq
  <1>2. e \in Row /\ e.order = old[i].order /\ e.retry = old[i].retry
    BY <1>1 DEF Row, StepStatuses
  <1>3. e.status = old[i].status /\ e.last = "yes"
    BY <1>1 DEF Row
  <1>4. new = [old EXCEPT ![i] = e]
    OBVIOUS
  <1> HIDE DEF e
  <1> QED
    <2>1. Marked(old, [old EXCEPT ![i] = e], i, e.status) /\ [old EXCEPT ![i] = e][i].last = e.last
      BY <1>2, WriteMarks
    <2> QED
      BY <1>3, <1>4, <2>1

\* A step that finds its task or its run cancelled gets both.
LEMMA CancelMarks ==
  ASSUME NEW old \in Seq(Row), NEW new, NEW i \in 1 .. Len(old),
         new = [old EXCEPT ![i] = [@ EXCEPT !.status = "canceled", !.last = "yes"]]
  PROVE  Marked(old, new, i, "canceled")
  <1> DEFINE e == [old[i] EXCEPT !.status = "canceled", !.last = "yes"]
  <1>1. old[i] \in Row
    BY ElementOfSeq
  <1>2. e \in Row /\ e.order = old[i].order /\ e.retry = old[i].retry
    BY <1>1 DEF Row, StepStatuses
  <1>3. e.status = "canceled" /\ e.last = "yes"
    BY <1>1 DEF Row
  <1>4. new = [old EXCEPT ![i] = e]
    OBVIOUS
  <1> HIDE DEF e
  <1> QED
    <2>1. Marked(old, [old EXCEPT ![i] = e], i, e.status) /\ [old EXCEPT ![i] = e][i].last = e.last
      BY <1>2, WriteMarks
    <2> QED
      BY <1>3, <1>4, <2>1

LEMMA AppendAdds ==
  ASSUME steps \in Seq(Row), NEW o \in 0 .. MaxSteps, NEW n \in 0 .. MaxRetries,
         steps' = Append(steps, NewStep(o, n))
  PROVE  Added(o, n)
  <1>1. NewStep(o, n) \in Row
    BY DEF NewStep, Row, StepStatuses
  <1> QED
    BY <1>1, AppendProperties DEF Added

-----------------------------------------------------------------------------
(* The ledger of the steps.                                                *)

\* Steps are created in the order of their order and, within one order, of their retry.
Ascending == \A i, j \in 1 .. Len(steps) : i < j =>
  \/ steps[i].order < steps[j].order
  \/ steps[i].order = steps[j].order /\ steps[i].retry < steps[j].retry

\* What a step follows from.
Grounded == \A i \in 1 .. Len(steps) :
  /\ steps[i].retry > 0 => \E j \in 1 .. Len(steps) :
       /\ j < i /\ steps[j].order = steps[i].order /\ steps[j].retry = steps[i].retry - 1
       /\ steps[j].status = "failed"
  /\ steps[i].order > 0 => \E j \in 1 .. Len(steps) :
       j < i /\ steps[j].order = steps[i].order - 1 /\ steps[j].status = "completed"

\* Whatever becomes of the calls, all steps but the last one have failed or completed,
\* those that were started are within the limit, and none was behind a step that is flagged.
Settled == \A i \in 1 .. Len(steps) : i < Len(steps) => steps[i].status \in {"failed", "completed"}
Within == \A i \in 1 .. Len(steps) : Started(steps[i]) => steps[i].order < MaxSteps
Barred == \A i, j \in 1 .. Len(steps) : steps[i].last = "yes" /\ i < j => ~Started(steps[j])

Rows == Ascending /\ Grounded /\ Settled /\ Within /\ Barred

\* No step is the last one; the one before the last row has completed; the rows bear out
\* a good verdict; they bear out a bad one.
Unflagged == \A i \in 1 .. Len(steps) : steps[i].last = "no"
Trailing == \A i \in 1 .. Len(steps) : i + 1 = Len(steps) => steps[i].status = "completed"
Ground == \E i \in 1 .. Len(steps) : steps[i].status = "completed" /\ steps[i].last = "yes"
Spent == \E i \in 1 .. Len(steps) :
  \/ steps[i].status = "failed"
  \/ steps[i].status = "completed" /\ steps[i].last = "yes" /\ steps[i].order + 1 >= MaxSteps

\* The rows in the words of the library.
LEMMA RowTypes ==
  ASSUME steps \in Seq(Row)
  PROVE  /\ Len(steps) \in Nat /\ DOMAIN steps = 1 .. Len(steps)
         /\ \A i \in 1 .. Len(steps) :
              /\ steps[i] \in Row /\ steps[i].status \in StepStatuses
              /\ steps[i].last \in {"yes", "no"}
              /\ steps[i].order \in Nat /\ steps[i].retry \in Nat
              /\ steps[i].order \in 0 .. MaxSteps /\ steps[i].retry \in 0 .. MaxRetries
  <1>1. \A i \in 1 .. Len(steps) : steps[i] \in Row
    BY ElementOfSeq
  <1>2. Len(steps) \in Nat /\ DOMAIN steps = 1 .. Len(steps)
    BY LenProperties
  <1> QED
    BY <1>1, <1>2, StepsAssumption DEF Row

\* What the rows bear out they bear out for good: steps that have failed or completed stay so.
LEMMA MarkedRows ==
  ASSUME steps \in Seq(Row), Rows, NEW i \in 1 .. Len(steps), NEW s \in StepStatuses,
         Marked(steps, steps', i, s),
         s = steps[i].status \/ (i = Len(steps) /\ steps[i].status \notin {"failed", "completed"}),
         s \in {"created", "canceled"} \/ steps[i].order < MaxSteps,
         \/ steps'[i].last = steps[i].last /\ (s = "canceled" \/ Unflagged)
         \/ Unflagged /\ \A j \in 1 .. Len(steps) : j > i => ~Started(steps[j])
  PROVE  Rows' /\ steps' \in Seq(Row) /\ Len(steps') = Len(steps)
  <1>1. Len(steps') = Len(steps) /\ steps' \in Seq(Row) /\ Len(steps) \in Nat
    BY RowTypes DEF Marked
  <1>2. /\ \A j \in 1 .. Len(steps) :
             /\ steps'[j].order = steps[j].order /\ steps'[j].retry = steps[j].retry
             /\ j # i => steps'[j].status = steps[j].status /\ steps'[j].last = steps[j].last
        /\ steps'[i].status = s
    BY DEF Marked
  <1>3. \A j \in 1 .. Len(steps) :
          steps[j].status \in {"failed", "completed"} => steps'[j].status = steps[j].status
    BY <1>2
  <1>4. Ascending'
    BY <1>1, <1>2 DEF Rows, Ascending
  <1>5. Grounded'
    <2>0. SUFFICES ASSUME NEW k \in 1 .. Len(steps)
          PROVE  /\ steps'[k].retry > 0 => \E j \in 1 .. Len(steps) :
                      /\ j < k /\ steps'[j].order = steps'[k].order
                      /\ steps'[j].retry = steps'[k].retry - 1
                      /\ steps'[j].status = "failed"
                 /\ steps'[k].order > 0 => \E j \in 1 .. Len(steps) :
                      j < k /\ steps'[j].order = steps'[k].order - 1
                      /\ steps'[j].status = "completed"
      BY <1>1 DEF Grounded
    <2>1. Grounded
      BY DEF Rows
    <2>2. ASSUME steps[k].retry > 0
          PROVE  \E j \in 1 .. Len(steps) :
                   /\ j < k /\ steps'[j].order = steps[k].order
                   /\ steps'[j].retry = steps[k].retry - 1 /\ steps'[j].status = "failed"
      <3>1. PICK j \in 1 .. Len(steps) :
              /\ j < k /\ steps[j].order = steps[k].order
              /\ steps[j].retry = steps[k].retry - 1 /\ steps[j].status = "failed"
        BY <2>1, <2>2 DEF Grounded
      <3> QED
        BY <1>2, <1>3, <3>1
    <2>3. ASSUME steps[k].order > 0
          PROVE  \E j \in 1 .. Len(steps) :
                   j < k /\ steps'[j].order = steps[k].order - 1 /\ steps'[j].status = "completed"
      <3>1. PICK j \in 1 .. Len(steps) :
              j < k /\ steps[j].order = steps[k].order - 1 /\ steps[j].status = "completed"
        BY <2>1, <2>3 DEF Grounded
      <3> QED
        BY <1>2, <1>3, <3>1
    <2>4. steps'[k].order = steps[k].order /\ steps'[k].retry = steps[k].retry
      BY <1>2
    <2> QED
      BY <2>2, <2>3, <2>4
  <1>6. Settled'
    <2> SUFFICES ASSUME NEW j \in 1 .. Len(steps), j < Len(steps)
                 PROVE  steps'[j].status \in {"failed", "completed"}
      BY <1>1 DEF Settled
    <2> QED
      BY <1>3 DEF Rows, Settled
  <1>7. Within'
    <2> SUFFICES ASSUME NEW j \in 1 .. Len(steps), Started(steps'[j])
                 PROVE  steps'[j].order < MaxSteps
      BY <1>1 DEF Within
    <2> QED
      BY <1>2 DEF Rows, Within, Started
  <1>8. Barred'
    <2> SUFFICES ASSUME NEW j \in 1 .. Len(steps), NEW k \in 1 .. Len(steps),
                        steps'[j].last = "yes", j < k
                 PROVE  ~Started(steps'[k])
      BY <1>1 DEF Barred
    <2>1. CASE steps'[i].last = steps[i].last
      <3>1. steps[j].last = "yes"
        BY <1>2, <2>1
      <3>2. s = "canceled"
        BY <2>1, <3>1 DEF Unflagged
      <3>3. ~Started(steps[k])
        BY <3>1 DEF Rows, Barred
      <3> QED
        BY <1>2, <3>2, <3>3 DEF Started
    <2>2. CASE steps'[i].last # steps[i].last
      <3>1. Unflagged /\ \A l \in 1 .. Len(steps) : l > i => ~Started(steps[l])
        BY <2>2
      <3>2. j = i
        BY <1>2, <3>1 DEF Unflagged
      <3>3. k # i /\ k > i
        BY <1>1, <3>2
      <3> QED
        BY <1>2, <3>1, <3>3 DEF Started
    <2> QED
      BY <2>1, <2>2
  <1> QED
    BY <1>1, <1>4, <1>5, <1>6, <1>7, <1>8 DEF Rows

LEMMA AddedRows ==
  ASSUME steps \in Seq(Row), Rows, NEW o \in 0 .. MaxSteps, NEW n \in 0 .. MaxRetries, Added(o, n),
         Len(steps) >= 1, Unflagged,
         \/ /\ o = steps[Len(steps)].order /\ n = steps[Len(steps)].retry + 1
            /\ steps[Len(steps)].status = "failed"
         \/ /\ o = steps[Len(steps)].order + 1 /\ n = 0
            /\ steps[Len(steps)].status = "completed"
  PROVE  Rows' /\ Unflagged'
  <1> DEFINE l == Len(steps)
  <1>1. /\ Len(steps') = l + 1 /\ l \in Nat /\ l \in 1 .. l
        /\ \A j \in 1 .. l : steps'[j] = steps[j] /\ steps[j].order \in Nat /\ steps[j].retry \in Nat
    BY RowTypes DEF Added, Row
  <1>2. steps'[l + 1].order = o /\ steps'[l + 1].retry = n /\ steps'[l + 1].status = "created"
    BY DEF Added, NewStep
  <1>3. \A j \in 1 .. l + 1 : j \in 1 .. l \/ j = l + 1
    BY <1>1
  <1>4. \A i, j \in 1 .. l : i < j =>
          \/ steps[i].order < steps[j].order
          \/ steps[i].order = steps[j].order /\ steps[i].retry < steps[j].retry
    BY DEF Rows, Ascending
  <1>5. \A i \in 1 .. l :
          /\ steps[i].retry > 0 => \E j \in 1 .. l :
               /\ j < i /\ steps[j].order = steps[i].order /\ steps[j].retry = steps[i].retry - 1
               /\ steps[j].status = "failed"
          /\ steps[i].order > 0 => \E j \in 1 .. l :
               j < i /\ steps[j].order = steps[i].order - 1 /\ steps[j].status = "completed"
    BY DEF Rows, Grounded
  <1>7. /\ \/ o = steps[l].order /\ n = steps[l].retry + 1 /\ steps[l].status = "failed"
           \/ o = steps[l].order + 1 /\ n = 0 /\ steps[l].status = "completed"
        /\ steps[l].order \in Nat /\ steps[l].retry \in Nat /\ l \in 1 .. l
    BY <1>1
  <1> HIDE DEF l
  <1>8. Ascending'
    <2> SUFFICES ASSUME NEW i \in 1 .. l + 1, NEW j \in 1 .. l + 1, i < j
                 PROVE  \/ steps'[i].order < steps'[j].order
                        \/ steps'[i].order = steps'[j].order /\ steps'[i].retry < steps'[j].retry
      BY <1>1 DEF Ascending
    <2>1. i \in 1 .. l
      BY <1>1
    <2>2. CASE j \in 1 .. l
      BY <1>1, <1>4, <2>1, <2>2
    <2>3. CASE j = l + 1
      <3>1. steps[l].order <= o /\ (steps[l].order = o => steps[l].retry < n)
        BY <1>7
      <3>2. i = l \/ (i < l /\ i \in 1 .. l)
        BY <1>1, <2>1
      <3>3. \/ steps[i].order < steps[l].order
            \/ steps[i].order = steps[l].order /\ steps[i].retry <= steps[l].retry
        BY <1>1, <1>4, <1>7, <3>2
      <3>4. steps'[i] = steps[i] /\ steps[i].order \in Nat /\ steps[i].retry \in Nat
        BY <1>1, <2>1
      <3>5. steps[i].order < o \/ (steps[i].order = o /\ steps[i].retry < n)
        <4> DEFINE oi == steps[i].order
                   ri == steps[i].retry
                   ol == steps[l].order
                   rl == steps[l].retry
        <4>1. /\ oi \in Nat /\ ri \in Nat /\ ol \in Nat /\ rl \in Nat /\ o \in Nat /\ n \in Nat
              /\ ol <= o /\ (ol = o => rl < n)
              /\ oi < ol \/ (oi = ol /\ ri <= rl)
          <5>1. o \in Nat /\ n \in Nat
            BY StepsAssumption
          <5> QED
            BY <1>7, <3>1, <3>3, <3>4, <5>1
        <4> HIDE DEF oi, ri, ol, rl
        <4>2. oi < o \/ (oi = o /\ ri < n)
          BY <4>1
        <4> QED
          BY <4>2 DEF oi, ri
      <3> QED
        BY <1>2, <2>3, <3>4, <3>5
    <2> QED
      BY <1>3, <2>2, <2>3
  <1>9. Grounded'
    <2> SUFFICES ASSUME NEW i \in 1 .. l + 1
                 PROVE  /\ steps'[i].retry > 0 => \E j \in 1 .. l + 1 :
                             /\ j < i /\ steps'[j].order = steps'[i].order
                             /\ steps'[j].retry = steps'[i].retry - 1
                             /\ steps'[j].status = "failed"
                        /\ steps'[i].order > 0 => \E j \in 1 .. l + 1 :
                             j < i /\ steps'[j].order = steps'[i].order - 1
                             /\ steps'[j].status = "completed"
      BY <1>1 DEF Grounded
    <2>0. \A j \in 1 .. l : j \in 1 .. l + 1
      BY <1>1
    <2>1. CASE i \in 1 .. l
      <3>1. steps'[i] = steps[i]
        BY <1>1, <2>1
      <3>2. steps[i].retry > 0 => \E j \in 1 .. l + 1 :
              /\ j < i /\ steps'[j].order = steps[i].order
              /\ steps'[j].retry = steps[i].retry - 1 /\ steps'[j].status = "failed"
        <4> SUFFICES ASSUME steps[i].retry > 0
                     PROVE  \E j \in 1 .. l + 1 :
                              /\ j < i /\ steps'[j].order = steps[i].order
                              /\ steps'[j].retry = steps[i].retry - 1 /\ steps'[j].status = "failed"
          OBVIOUS
        <4>1. PICK j \in 1 .. l :
                /\ j < i /\ steps[j].order = steps[i].order
                /\ steps[j].retry = steps[i].retry - 1 /\ steps[j].status = "failed"
          BY <1>5, <2>1
        <4>2. j \in 1 .. l + 1 /\ steps'[j] = steps[j]
          BY <1>1, <2>0
        <4> QED
          BY <4>1, <4>2
      <3>3. steps[i].order > 0 => \E j \in 1 .. l + 1 :
              j < i /\ steps'[j].order = steps[i].order - 1 /\ steps'[j].status = "completed"
        <4> SUFFICES ASSUME steps[i].order > 0
                     PROVE  \E j \in 1 .. l + 1 :
                       j < i /\ steps'[j].order = steps[i].order - 1 /\ steps'[j].status = "completed"
          OBVIOUS
        <4>1. PICK j \in 1 .. l :
                j < i /\ steps[j].order = steps[i].order - 1 /\ steps[j].status = "completed"
          BY <1>5, <2>1
        <4>2. j \in 1 .. l + 1 /\ steps'[j] = steps[j]
          BY <1>1, <2>0
        <4> QED
          BY <4>1, <4>2
      <3> QED
        BY <3>1, <3>2, <3>3
    <2>2. CASE i = l + 1
      <3>1. l \in 1 .. l + 1 /\ l < l + 1 /\ steps'[l] = steps[l]
        BY <1>1
      <3>2. CASE o = steps[l].order /\ n = steps[l].retry + 1 /\ steps[l].status = "failed"
        <4>1. n - 1 = steps[l].retry
          BY <1>7, <3>2
        <4>2. o > 0 => \E j \in 1 .. l : j < l /\ steps[j].order = o - 1
                                          /\ steps[j].status = "completed"
          BY <1>5, <1>7, <3>2
        <4>3. o > 0 => \E j \in 1 .. l + 1 : j < i /\ steps'[j].order = o - 1
                                              /\ steps'[j].status = "completed"
          BY <1>1, <2>0, <2>2, <4>2
        <4> QED
          BY <1>2, <2>2, <3>1, <3>2, <4>1, <4>3
      <3>3. CASE o = steps[l].order + 1 /\ n = 0 /\ steps[l].status = "completed"
        <4>1. o - 1 = steps[l].order
          BY <1>7, <3>3
        <4> QED
          BY <1>2, <2>2, <3>1, <3>3, <4>1
      <3> QED
        BY <1>7, <3>2, <3>3
    <2> QED
      BY <1>3, <2>1, <2>2
  <1>10. Settled'
    BY <1>1, <1>3, <1>7 DEF Rows, Settled, l
  <1>11. Within'
    BY <1>1, <1>2, <1>3 DEF Rows, Within, Started, l
  <1>12. Unflagged'
    BY <1>1, <1>3 DEF Unflagged, Added, NewStep, l
  <1>13. Barred'
    BY <1>12 DEF Unflagged, Barred
  <1> QED
    BY <1>8, <1>9, <1>10, <1>11, <1>12, <1>13 DEF Rows

-----------------------------------------------------------------------------
(* Everything but the rows keeps its type.                                 *)

LEMMA ExecutorScalars ==
  ASSUME Typed, Placed, Executor
  PROVE  Scalars'
  <1>0. Scalars /\ cur \in Nat \ {0}
    BY DEF Typed
  <1> USE DEF Scalars, others, ledger, frame, mail, ends, slips
  <1>1. CASE RunIsCanceled
    BY <1>0, <1>1 DEF RunIsCanceled, Updates, Final, Statuses
  <1>2. CASE RunGoesOn
    BY <1>0, <1>2 DEF RunGoesOn
  <1>3. CASE TaskIsCanceled
    BY <1>0, <1>3 DEF TaskIsCanceled
  <1>4. CASE Validate
    BY <1>0, <1>4 DEF Validate
  <1>5. CASE InitializeFails
    <2>1. PICK handler \in Failing : Raises(handler)
      BY <1>5 DEF InitializeFails, Failing
    <2>2. Caught(handler)
      BY <1>0, <2>1, RaisesIsCaught
    <2> QED
      BY <1>0, <1>5, <2>2 DEF InitializeFails, Caught
  <1>6. CASE Start
    BY <1>0, <1>6 DEF Start
  <1>7. CASE StepFails
    BY <1>0, <1>7 DEF StepFails
  <1>8. CASE StepCompletes
    BY <1>0, <1>8 DEF StepCompletes
  <1>9. CASE StepRaises
    <2>1. PICK handler \in Failing : Raises(handler)
      BY <1>9 DEF StepRaises, Failing
    <2>2. Caught(handler)
      BY <1>0, <2>1, RaisesIsCaught
    <2> QED
      BY <1>0, <1>9, <2>2 DEF StepRaises, Caught
  <1>10. CASE Retry
    BY <1>0, <1>10 DEF Retry, Calls
  <1>11. CASE RetriesExhausted
    BY <1>0, <1>11 DEF RetriesExhausted, Updates, Final, Statuses
  <1>12. CASE Decide
    BY <1>0, <1>12 DEF Decide, Updates, Final, Statuses
  <1>13. CASE NextStep
    BY <1>0, <1>13 DEF NextStep, Calls
  <1>14. CASE StepsExhausted
    BY <1>0, <1>14 DEF StepsExhausted, Updates, Final, Statuses
  <1>15. CASE Speculate
    BY <1>0, <1>15 DEF Speculate
  <1>16. CASE Verified
    BY <1>0, <1>16 DEF Verified
  <1>17. CASE NotVerified
    BY <1>0, <1>17 DEF NotVerified
  <1>18. CASE NotVerifiedAtLimit
    BY <1>0, <1>18 DEF NotVerifiedAtLimit
  <1>19. CASE Withdraw
    BY <1>0, <1>19 DEF Withdraw, Updates, Final, Statuses
  <1>20. CASE CheckUpdate
    BY <1>0, <1>20 DEF CheckUpdate
  <1>21. CASE UpdateRefused
    <2>1. CASE clause \notin Failing
      <3>1. Caught("silent")
        BY <1>0, <1>21, <2>1, RaisesIsCaught DEF UpdateRefused, Refused
      <3> QED
        BY <1>0, <1>21, <3>1 DEF UpdateRefused, Caught
    <2>2. CASE clause \in Failing
      BY <1>0, <1>21, <2>2 DEF UpdateRefused
    <2> QED
      BY <2>1, <2>2
  <1>22. CASE NothingExtracted
    <2>1. Caught("fail")
      BY <1>0, <1>22, RaisesIsCaught DEF NothingExtracted
    <2> QED
      BY <1>0, <1>22, <2>1 DEF NothingExtracted, Caught, Failing
  <1>23. CASE WriteUpdate
    BY <1>0, <1>23 DEF WriteUpdate, Overtakes, Placed, Final
  <1>24. CASE FailTask
    BY <1>0, <1>24 DEF FailTask, Updates, Final, Statuses
  <1>25. CASE FailTaskRaises
    BY <1>0, <1>25 DEF FailTaskRaises
  <1>26. CASE CleanUp
    BY <1>0, <1>26 DEF CleanUp
  <1>27. CASE TellsNobody
    BY <1>0, <1>27 DEF TellsNobody
  <1>28. CASE Tell
    BY <1>0, <1>28 DEF Tell
  <1>29. CASE Post
    BY <1>0, <1>29 DEF Post
  <1>30. CASE PostsNothing
    BY <1>0, <1>30 DEF PostsNothing
  <1> QED
    BY <1>1, <1>2, <1>3, <1>4, <1>5, <1>6, <1>7, <1>8, <1>9, <1>10, <1>11, <1>12, <1>13,
       <1>14, <1>15, <1>16, <1>17, <1>18, <1>19, <1>20, <1>21, <1>22, <1>23, <1>24, <1>25,
       <1>26, <1>27, <1>28, <1>29, <1>30
    DEF Executor

LEMMA OthersScalars ==
  ASSUME Typed, Faults \/ Client \/ Discard \/ RunCanceled
  PROVE  Scalars'
  <1>0. Scalars /\ cur \in Nat \ {0}
    BY DEF Typed
  <1>1. ASSUME faults < MaxFaults PROVE faults + 1 \in 0 .. MaxFaults
    BY <1>0, <1>1, StepsAssumption DEF Scalars
  <1> USE DEF Scalars, others, ledger, frame, mail, ends, slips
  <1>2. CASE Breaks
    <2>1. Slipped /\ faults < MaxFaults
      BY <1>0, <1>2, BreaksSlips
    <2>2. faults' \in 0 .. MaxFaults
      BY <1>1, <2>1 DEF Slipped
    <2>3. slipped' \subseteq {"prologue", "body", "fail_task", "clean_up", "webhook", "discard"}
      BY <1>0, <2>1 DEF Slipped
    <2>4. clause' \in {"prologue", "body", "silent"} \cup Failing /\ pc' \in {"fail", "clean", "over"}
      BY <1>0, <2>1 DEF Slipped, Caught, Failing
    <2>5. UNCHANGED <<others, ledger, update, letter, told, browser>> /\ astray' \in {"yes", astray}
      BY <2>1 DEF Slipped
    <2> QED
      BY <1>0, <2>2, <2>3, <2>4, <2>5
  <1>3. CASE StartBreaks
    BY <1>0, <1>1, <1>3 DEF StartBreaks, Slip
  <1>4. CASE WithdrawBreaks
    BY <1>0, <1>1, <1>4 DEF WithdrawBreaks, Slip, Updates, Final, Statuses
  <1>5. CASE DiscardBreaks
    BY <1>0, <1>1, <1>5 DEF DiscardBreaks, Slip
  <1>6. CASE ClientChecks
    BY <1>0, <1>6 DEF ClientChecks
  <1>7. CASE ClientWrites
    BY <1>0, <1>7 DEF ClientWrites, Overtakes, Statuses
  <1>8. CASE ClientReads
    BY <1>0, <1>8 DEF ClientReads
  <1>9. CASE ClientPosts
    BY <1>0, <1>9 DEF ClientPosts
  <1>10. CASE ClientBreaks
    BY <1>0, <1>10 DEF ClientBreaks
  <1>11. CASE Discard
    BY <1>0, <1>11 DEF Discard
  <1>12. CASE RunCanceled
    BY <1>0, <1>12 DEF RunCanceled
  <1> QED
    BY <1>2, <1>3, <1>4, <1>5, <1>6, <1>7, <1>8, <1>9, <1>10, <1>11, <1>12 DEF Faults, Client

-----------------------------------------------------------------------------
(* The executor and the step it is at.                                     *)

AtHand == cur \in 1 .. Len(steps) /\ steps[cur].order < MaxSteps

\* The executor has a step in hand that it may settle, or follow by another one.
Working == {"enter", "look", "ready", "acting", "failed", "completed", "verify", "verifying"}
InHand == pc \in Working \/ (pc = "fail" /\ steps[cur].status \in {"created", "running"})

\* Where the executor stands and the step at hand, the goal, the step made on speculation.
Position ==
  /\ pc \in {"enter", "look", "ready"} => steps[cur].status = "created"
  /\ pc = "acting" => steps[cur].status = "running"
  /\ pc = "failed" => steps[cur].status = "failed"
  /\ pc \in {"completed", "verify", "verifying", "withdraw"} => steps[cur].status = "completed"
  /\ pc \in {"enter", "look", "ready", "acting", "failed", "verify"} => cur = Len(steps)
  /\ pc = "completed" => cur = Len(steps) \/ (discard # "none" /\ next = cur + 1)
  /\ pc = "verifying" => steps[Len(steps)].order = steps[cur].order + 1
  /\ pc \in {"verifying", "withdraw"} =>
       /\ next = Len(steps) /\ next = cur + 1 /\ steps[next].status = "created"
  /\ pc = "withdraw" => AtLimit /\ steps[cur].last = "yes"
  /\ goal # "open" => pc \notin Working \ {"completed"} /\ pc # "withdraw"
  /\ clause # "prologue" => steps[cur].status # "canceled"
  /\ clause = "body" /\ pc \in {"update", "write", "clean", "tell", "post"} =>
       steps[cur].status \in {"failed", "completed"}
  /\ discard # "none" => goal # "open" /\ next = Len(steps) /\ cur < next /\ Trailing
  /\ discard # "none" => ~Started(steps[next])
  /\ discard = "pending" => steps[next].status = "created"

\* As long as there may be other steps none is the last one, and the agent gave no verdict.
Undecided ==
  /\ InHand => Unflagged
  /\ task \in {"completed", "terminated", "failed"} =>
       ~InHand /\ pc \notin {"withdraw", "write"}

\* The rows bear out the verdict that is given, or about to be.
Verdicts ==
  /\ pc \in {"update", "write"} /\ update.to \in {"completed", "terminated"} => Ground
  /\ pc \in {"update", "write"} /\ update.to = "failed" => Spent
  /\ task \in {"completed", "terminated"} => Ground

\* Who still owes something to a step that is created, as long as no call has raised.
Owed == faults = 0 /\ steps[Len(steps)].status = "created" =>
  \/ cur = Len(steps) /\ pc \in {"enter", "look", "ready", "fail"}
  \/ next = Len(steps) /\ (pc \in {"verifying", "withdraw"} \/ discard = "pending")

\* Why a task without a verdict is cleaned up.
Left ==
  /\ task = "running" /\ pc \in {"clean", "tell", "post", "over"} =>
       \/ steps[cur].status = "completed" /\ clause = "fail"
       \/ "fail_task" \in slipped
       \/ pc = "over" /\ "prologue" \in slipped /\ cur = 1
  /\ pc = "fail" /\ clause \in {"scrape", "parse"} => steps[cur].status # "completed"
  /\ clause = "fail" /\ steps[cur].status = "completed" /\ slipped = {} =>
       goal = "achieved" /\ kind.extract = "yes"

Standing == AtHand /\ Position /\ Undecided /\ Verdicts
Execution == Standing /\ Owed /\ Left

IInv == TypeOK /\ Requests /\ Rows /\ Execution

LEMMA Types ==
  ASSUME TypeOK
  PROVE  /\ Typed /\ steps \in Seq(Row) /\ next \in 0 .. Len(steps)
         /\ cur \in 1 .. Len(steps) /\ Len(steps) \in Nat /\ Len(steps) \in 1 .. Len(steps)
         /\ DOMAIN steps = 1 .. Len(steps)
         /\ steps[cur].status \in StepStatuses /\ steps[Len(steps)].status \in StepStatuses
  <1>1. steps \in Seq(Row)
    BY DEF TypeOK, Row, StepStatuses
  <1>2. cur \in 1 .. Len(steps) /\ Len(steps) \in Nat
    BY <1>1, RowTypes DEF TypeOK
  <1>3. Len(steps) \in 1 .. Len(steps) /\ cur \in Nat \ {0}
    BY <1>2
  <1>4. Scalars
    BY DEF TypeOK, Scalars
  <1> QED
    BY <1>1, <1>2, <1>3, <1>4, RowTypes DEF Typed, TypeOK

\* The rows stay, and with them what they bear out.
LEMMA SameRows ==
  ASSUME UNCHANGED steps
  PROVE  /\ Unflagged' <=> Unflagged
         /\ Trailing' <=> Trailing
         /\ Ground' <=> Ground
         /\ Spent' <=> Spent
         /\ Rows' <=> Rows
  BY DEF Unflagged, Trailing, Ground, Spent, Rows, Ascending, Grounded, Settled, Within, Barred

\* An exception leads to a step that is settled, or leaves the step at hand as it is.
LEMMA CaughtStands ==
  ASSUME IInv, NEW handler \in {"fail", "scrape", "parse", "silent"}, Caught(handler),
         pc \notin {"post", "over"}, UNCHANGED <<steps, task, next, goal, discard>>
  PROVE  /\ Standing' /\ cur' \in 1 .. Len(steps) /\ pc' \in {"fail", "clean", "over"}
         /\ pc' = "fail" => clause' = handler
  <1>1. TypeOK /\ Requests /\ Rows /\ AtHand /\ Position /\ Undecided /\ Verdicts
    BY DEF IInv, Execution, Standing
  <1>2. /\ steps \in Seq(Row) /\ cur \in 1 .. Len(steps) /\ Len(steps) \in Nat
        /\ next \in 0 .. Len(steps) /\ steps[cur].status \in StepStatuses
        /\ pc \in {"enter", "look", "ready", "acting", "failed", "completed", "verify", "verifying",
                   "withdraw", "update", "write", "fail", "clean", "tell", "post", "over"}
    BY <1>1, Types DEF Typed, Scalars
  <1>3. cur' \in 1 .. cur /\ cur' \in 1 .. Len(steps) /\ cur' <= cur
    BY <1>2 DEF Caught
  <1>4. cur' < cur => steps[cur'].status \in {"failed", "completed"}
    BY <1>1, <1>2, <1>3 DEF Rows, Settled
  <1>5. steps[cur'].order < MaxSteps
    <2>1. CASE cur' < cur
      BY <1>1, <1>3, <1>4, <2>1 DEF Rows, Within, Started
    <2>2. CASE cur' = cur
      BY <1>1, <2>2 DEF AtHand
    <2> QED
      BY <1>2, <1>3, <2>1, <2>2
  <1>6. /\ pc' \in {"fail", "clean", "over"}
        /\ pc' = "fail" => clause' = handler
        /\ clause' # "body"
        /\ pc' # "over" => clause' # "prologue"
        /\ pc' # "over" => cur' < cur \/ (cur' = cur /\ clause = "body")
        /\ pc' = "over" => cur' = cur /\ clause' = clause
    BY DEF Caught, Failing
  <1>7. pc' # "over" /\ steps[cur'].status \in {"created", "running"} => InHand
    <2> SUFFICES ASSUME pc' # "over", steps[cur'].status \in {"created", "running"}
                 PROVE  InHand
      OBVIOUS
    <2>1. cur' = cur /\ clause = "body"
      BY <1>4, <1>6
    <2>2. pc \notin {"withdraw", "update", "write", "clean", "tell", "post", "fail"}
      BY <1>1, <2>1 DEF Position, Requests, Placed, Failing
    <2> QED
      BY <1>2, <2>2 DEF InHand, Working
  <1>8. InHand' => InHand
    BY <1>6, <1>7 DEF InHand, Working
  <1>9. AtHand'
    BY <1>3, <1>5 DEF AtHand
  <1>10. Position'
    <2>1. clause' # "prologue" => steps[cur'].status # "canceled"
      BY <1>1, <1>4, <1>6 DEF Position
    <2>2. Trailing' <=> Trailing
      BY SameRows
    <2>3. discard' # "none" => goal' # "open" /\ next' = Len(steps') /\ cur' < next' /\ Trailing'
      BY <1>1, <1>2, <1>3, <2>2 DEF Position
    <2>4. /\ discard' = "pending" => steps'[next'].status = "created"
          /\ discard' # "none" => ~Started(steps'[next'])
      BY <1>1 DEF Position
    <2> QED
      BY <1>6, <2>1, <2>3, <2>4 DEF Position, Working
  <1>11. Undecided'
    BY <1>1, <1>6, <1>8, SameRows DEF Undecided
  <1>12. Verdicts'
    BY <1>1, <1>6, SameRows DEF Verdicts
  <1> QED
    BY <1>3, <1>6, <1>9, <1>10, <1>11, <1>12 DEF Standing

-----------------------------------------------------------------------------
(* The steps of executor and clients, by what they do to the rows.         *)

\* Exceptions that no call raised: a page, an action, a refused update, nothing extracted.
Excepts ==
  \/ InitializeFails \/ StepRaises \/ NothingExtracted
  \/ UpdateRefused /\ clause \notin Failing

LEMMA ExceptsKeep ==
  ASSUME IInv, Excepts
  PROVE  Execution' /\ UNCHANGED <<steps, task, next>> /\ cur' \in 1 .. Len(steps)
  <1>1. TypeOK /\ Placed /\ Rows /\ AtHand /\ Position /\ Owed /\ Left
    BY DEF IInv, Execution, Standing, Requests
  <1>2. cur \in 1 .. Len(steps) /\ cur \in Nat \ {0}
    BY <1>1, Types DEF Typed
  <1>3. /\ UNCHANGED <<steps, task, next, goal, discard, faults, slipped, kind>>
        /\ pc \in {"ready", "acting", "update"}
    BY DEF Excepts, InitializeFails, StepRaises, NothingExtracted, UpdateRefused,
           others, ledger, slips
  <1>4. PICK handler \in {"fail", "scrape", "parse", "silent"} :
          /\ Raises(handler)
          /\ InitializeFails => handler \in {"fail", "scrape"}
          /\ StepRaises => handler \in {"scrape", "parse"}
          /\ NothingExtracted => handler = "fail"
          /\ UpdateRefused /\ clause \notin Failing => handler = "silent"
    <2>1. CASE InitializeFails
      BY <2>1 DEF InitializeFails, StepRaises, NothingExtracted, UpdateRefused
    <2>2. CASE StepRaises
      BY <2>2 DEF InitializeFails, StepRaises, NothingExtracted, UpdateRefused
    <2>3. CASE NothingExtracted
      BY <2>3 DEF InitializeFails, StepRaises, NothingExtracted, UpdateRefused
    <2>4. CASE UpdateRefused /\ clause \notin Failing
      BY <2>4 DEF InitializeFails, StepRaises, NothingExtracted, UpdateRefused, Refused, Failing
    <2> QED
      BY <2>1, <2>2, <2>3, <2>4 DEF Excepts
  <1>5. Caught(handler)
    BY <1>2, <1>4, RaisesIsCaught
  <1>6. Standing' /\ cur' \in 1 .. Len(steps)
    BY <1>3, <1>5, CaughtStands
  <1>7. CASE InitializeFails
    <2>1. pc = "ready" /\ clause = "body" /\ steps[cur].status = "created" /\ cur = Len(steps)
      BY <1>1, <1>7 DEF InitializeFails, Placed, Position
    <2>2. pc' = "fail" /\ cur' = cur
      BY <1>4, <1>5, <1>7, <2>1 DEF Caught, Failing
    <2> QED
      BY <1>3, <1>6, <2>1, <2>2 DEF Execution, Owed, Left
  <1>8. CASE StepRaises
    <2>1. pc = "acting" /\ clause = "body" /\ steps[cur].status = "running" /\ cur = Len(steps)
      BY <1>1, <1>8 DEF StepRaises, Placed, Position
    <2>2. pc' = "fail" /\ cur' = cur
      BY <1>4, <1>5, <1>8, <2>1 DEF Caught, Failing
    <2> QED
      BY <1>3, <1>6, <2>1, <2>2 DEF Execution, Owed, Left
  <1>9. CASE NothingExtracted
    <2>1. /\ pc = "update" /\ clause = "body" /\ goal = "achieved" /\ kind.extract = "yes"
          /\ handler = "fail"
      <3>1. clause \notin {"prologue", "silent"} \cup Failing
        BY <1>1, <1>9 DEF NothingExtracted, Placed
      <3> QED
        BY <1>1, <1>4, <1>9, <3>1, Types DEF NothingExtracted, Placed, Typed, Scalars
    <2>2. pc' = "fail" /\ cur' = cur /\ clause' = "fail"
      BY <1>5, <2>1 DEF Caught, Failing
    <2> QED
      BY <1>1, <1>3, <1>6, <2>1, <2>2 DEF Execution, Owed, Left
  <1>10. CASE UpdateRefused /\ clause \notin Failing
    <2>1. task # "running" /\ pc = "update" /\ handler = "silent"
      BY <1>1, <1>4, <1>10 DEF UpdateRefused, CanUpdate, Placed
    <2>2. pc' \in {"clean", "over"} /\ clause' # "fail"
      BY <1>5, <1>10, <2>1 DEF Caught, Failing
    <2> QED
      BY <1>1, <1>3, <1>6, <2>1, <2>2 DEF Execution, Owed, Left
  <1> QED
    BY <1>3, <1>6, <1>7, <1>8, <1>9, <1>10 DEF Excepts

LEMMA BreaksKeeps ==
  ASSUME IInv, Breaks
  PROVE  Execution' /\ UNCHANGED <<steps, task, next>> /\ cur' \in 1 .. Len(steps)
  <1>1. TypeOK /\ Placed /\ Rows /\ Standing /\ Left /\ Typed
    BY Types DEF IInv, Execution, Requests
  <1>2. cur \in 1 .. Len(steps) /\ cur \in Nat \ {0} /\ faults \in Nat
        /\ clause \in {"prologue", "body", "silent"} \cup Failing
        /\ pc \in {"enter", "look", "ready", "acting", "failed", "completed", "verify", "verifying",
                   "withdraw", "update", "write", "fail", "clean", "tell", "post", "over"}
    BY <1>1, Types, StepsAssumption DEF Typed, Scalars
  <1>3. Slipped
    BY <1>2, BreaksSlips
  <1>4. /\ UNCHANGED <<steps, task, next, goal, discard, kind, update>>
        /\ faults' # 0 /\ slipped' # {} /\ slipped \subseteq slipped'
        /\ pc \notin {"post", "over"}
    <2>1. UNCHANGED <<steps, task, next, goal, discard, kind, update>> /\ pc \notin {"post", "over"}
      BY <1>3 DEF Slipped, others, ledger
    <2>2. faults' # 0
      BY <1>2, <1>3 DEF Slipped
    <2>3. slipped' # {} /\ slipped \subseteq slipped'
      BY <1>3 DEF Slipped
    <2> QED
      BY <2>1, <2>2, <2>3
  <1>5. Owed'
    BY <1>4 DEF Owed
  <1>6. CASE clause \in Failing /\ pc \in {"fail", "update", "write"}
    <2>1. pc' = "clean" /\ clause' = clause /\ cur' = cur /\ "fail_task" \in slipped'
      BY <1>3, <1>6 DEF Slipped
    <2>2. clause \notin {"prologue", "body"}
      BY <1>6 DEF Failing
    <2>3. AtHand' /\ Position'
      BY <1>1, <1>4, <2>1, <2>2, SameRows DEF Standing, AtHand, Position, Working
    <2>4. Undecided' /\ Verdicts'
      BY <1>1, <1>4, <2>1, SameRows DEF Standing, Undecided, InHand, Working, Verdicts
    <2>5. Left'
      BY <1>4, <2>1 DEF Left
    <2> QED
      BY <1>2, <1>4, <1>5, <2>1, <2>3, <2>4, <2>5 DEF Execution, Standing
  <1>7. CASE ~(clause \in Failing /\ pc \in {"fail", "update", "write"})
    <2>1. /\ Caught("fail")
          /\ pc \notin {"clean", "tell"} /\ clause = "prologue" => "prologue" \in slipped'
      BY <1>3, <1>7 DEF Slipped
    <2>2. Standing' /\ cur' \in 1 .. Len(steps)
      BY <1>4, <2>1, CaughtStands
    <2>3. \/ pc' = "fail" /\ clause' = "fail"
          \/ pc' = "over" /\ clause' = clause /\ cur' = cur /\ cur = 1 /\ clause # "body"
      BY <2>1 DEF Caught, Failing
    <2>4. Left'
      <3>1. CASE pc' = "fail" /\ clause' = "fail"
        BY <1>4, <3>1 DEF Left
      <3>2. CASE pc' = "over" /\ clause' = clause /\ cur' = cur /\ cur = 1 /\ clause # "body"
        <4>1. CASE pc \in {"clean", "tell"}
          BY <1>1, <1>4, <3>2, <4>1 DEF Left
        <4>2. CASE pc \notin {"clean", "tell"}
          <5>1. clause = "prologue"
            BY <1>1, <1>2, <1>4, <1>7, <3>2, <4>2 DEF Placed
          <5> QED
            BY <1>4, <2>1, <3>2, <4>2, <5>1 DEF Left
        <4> QED
          BY <4>1, <4>2
      <3> QED
        BY <2>3, <3>1, <3>2
    <2> QED
      BY <1>4, <1>5, <2>2, <2>4 DEF Execution
  <1> QED
    BY <1>6, <1>7

\* Steps that leave rows and calls alone.
Moves ==
  \/ RunGoesOn \/ Validate \/ RetriesExhausted \/ Verified \/ CheckUpdate
  \/ UpdateRefused /\ clause \in Failing
  \/ WriteUpdate \/ FailTaskRaises \/ CleanUp \/ TellsNobody \/ Tell \/ Post \/ PostsNothing
  \/ WithdrawBreaks \/ DiscardBreaks
  \/ Client \/ RunCanceled

LEMMA MovesLeaveRows == ASSUME Moves PROVE UNCHANGED <<steps, cur, next>>
  <1> USE DEF others, ledger, frame
  <1>1. CASE RunGoesOn \/ Validate \/ RetriesExhausted \/ Verified \/ CheckUpdate
    BY <1>1 DEF RunGoesOn, Validate, RetriesExhausted, Verified, CheckUpdate
  <1>2. CASE (UpdateRefused /\ clause \in Failing) \/ WriteUpdate \/ FailTaskRaises
    BY <1>2 DEF UpdateRefused, WriteUpdate, FailTaskRaises
  <1>3. CASE CleanUp \/ TellsNobody \/ Tell \/ Post \/ PostsNothing
    BY <1>3 DEF CleanUp, TellsNobody, Tell, Post, PostsNothing
  <1>4. CASE WithdrawBreaks \/ DiscardBreaks
    BY <1>4 DEF WithdrawBreaks, DiscardBreaks
  <1>5. CASE Client \/ RunCanceled
    BY <1>5 DEF Client, ClientChecks, ClientWrites, ClientReads, ClientPosts, ClientBreaks,
                RunCanceled
  <1> QED
    BY <1>1, <1>2, <1>3, <1>4, <1>5 DEF Moves

LEMMA MovesKeep ==
  ASSUME IInv, Moves
  PROVE  Execution'
  <1>0. TypeOK /\ Placed /\ Typed /\ Rows /\ AtHand /\ Position /\ Undecided /\ Verdicts /\ Owed /\ Left
    BY Types DEF IInv, Execution, Standing, Requests
  <1>1. UNCHANGED <<steps, cur, next>>
    BY MovesLeaveRows
  <1>2. /\ Unflagged' <=> Unflagged
        /\ Trailing' <=> Trailing
        /\ Ground' <=> Ground
        /\ Spent' <=> Spent
    BY <1>1, SameRows
  <1>3. /\ cur \in 1 .. Len(steps) /\ Len(steps) \in Nat /\ faults \in Nat
        /\ update \in [to : Final \cup {"none"}, read : Statuses \cup {"none"}]
        /\ task \in Statuses
    BY <1>0, Types, StepsAssumption DEF Typed, Scalars
  <1>4. AtHand'
    BY <1>0, <1>1 DEF AtHand
  <1> USE DEF Position, Undecided, Verdicts, Owed, Left, InHand, Working, AtLimit, others, ledger,
              frame, slips, ends, mail
  <1>5. CASE RunGoesOn \/ Validate
    BY <1>0, <1>1, <1>2, <1>4, <1>5 DEF RunGoesOn, Validate, Execution, Standing
  <1>6. CASE RetriesExhausted
    <2>1. Spent
      BY <1>0, <1>3, <1>6 DEF RetriesExhausted, Spent
    <2> QED
      BY <1>0, <1>1, <1>2, <1>4, <1>6, <2>1 DEF RetriesExhausted, Updates, Placed, Execution, Standing
  <1>7. CASE Verified
    <2>1. Trailing
      BY <1>0, <1>3, <1>7 DEF Verified, Trailing
    <2>2. cur < next /\ ~Started(steps[next])
      BY <1>0, <1>3, <1>7 DEF Verified, Started
    <2> QED
      BY <1>0, <1>1, <1>2, <1>4, <1>7, <2>1, <2>2 DEF Verified, Placed, Execution, Standing
  <1>8. CASE CheckUpdate
    <2>1. task \in {"running", "canceled"} /\ update'.to = update.to
      BY <1>3, <1>8 DEF CheckUpdate, CanUpdate
    <2> QED
      BY <1>0, <1>1, <1>2, <1>4, <1>8, <2>1 DEF CheckUpdate, Execution, Standing
  <1>9. CASE UpdateRefused /\ clause \in Failing
    <2>1. task # "running" /\ pc' \in {"over", "clean"} /\ clause' = clause
      BY <1>0, <1>9 DEF UpdateRefused, CanUpdate, Placed, Failing
    <2> QED
      BY <1>0, <1>1, <1>2, <1>4, <1>9, <2>1 DEF UpdateRefused, Execution, Standing, Failing
  <1>10. CASE WriteUpdate
    <2>1. task' = update.to /\ update.to \in Final /\ pc = "write" /\ pc' \in {"over", "clean"}
      BY <1>0, <1>10 DEF WriteUpdate, Placed
    <2> QED
      BY <1>0, <1>1, <1>2, <1>4, <1>10, <2>1 DEF WriteUpdate, Execution, Standing, Final
  <1>11. CASE FailTaskRaises
    <2>1. clause = "fail"
      BY <1>0, <1>11 DEF FailTaskRaises, Placed, Failing
    <2> QED
      BY <1>0, <1>1, <1>2, <1>4, <1>11, <2>1 DEF FailTaskRaises, Execution, Standing
  <1>12. CASE CleanUp \/ TellsNobody
    BY <1>0, <1>1, <1>2, <1>4, <1>12 DEF CleanUp, TellsNobody, Execution, Standing
  <1>13. CASE Tell \/ Post \/ PostsNothing
    BY <1>0, <1>1, <1>2, <1>4, <1>13 DEF Tell, Post, PostsNothing, Execution, Standing
  <1>14. CASE WithdrawBreaks
    <2>1. Spent
      BY <1>0, <1>3, <1>14 DEF WithdrawBreaks, Spent
    <2>2. faults' # 0 /\ slipped' # {} /\ slipped \subseteq slipped'
      BY <1>3, <1>14 DEF WithdrawBreaks, Slip
    <2> QED
      BY <1>0, <1>1, <1>2, <1>4, <1>14, <2>1, <2>2
      DEF WithdrawBreaks, Updates, Placed, Execution, Standing
  <1>15. CASE DiscardBreaks
    <2>1. faults' # 0 /\ slipped' # {} /\ slipped \subseteq slipped'
      BY <1>3, <1>15 DEF DiscardBreaks, Slip
    <2> QED
      BY <1>0, <1>1, <1>2, <1>4, <1>15, <2>1 DEF DiscardBreaks, Execution, Standing
  <1>16. CASE Client \/ RunCanceled
    <2>1. /\ UNCHANGED <<clause, pc, goal, update, discard, faults, slipped, kind>>
          /\ task' \in {task, "canceled"}
      BY <1>16 DEF Client, ClientChecks, ClientWrites, ClientReads, ClientPosts, ClientBreaks,
                   RunCanceled
    <2> QED
      BY <1>0, <1>1, <1>2, <1>4, <2>1 DEF Execution, Standing
  <1> QED
    BY <1>5, <1>6, <1>7, <1>8, <1>9, <1>10, <1>11, <1>12, <1>13, <1>14, <1>15, <1>16 DEF Moves

Kept == Promise!Next \/ UNCHANGED <<steps, task>>
StepTypes == steps \in Seq(Row) /\ cur \in 1 .. Len(steps) /\ next \in 0 .. Len(steps)
Preserved == Execution' /\ Rows' /\ StepTypes' /\ Kept

\* A step in hand is still undecided in the words of the promise.
LEMMA InHandPromise ==
  ASSUME IInv, InHand
  PROVE  /\ Unflagged /\ task \in {"running", "canceled"}
         /\ Promise!Undecided /\ Promise!Unclosed
  <1>1. TypeOK /\ Undecided
    BY DEF IInv, Execution, Standing
  <1>2. DOMAIN steps = 1 .. Len(steps) /\ task \in Statuses
    BY <1>1, Types DEF Typed, Scalars
  <1> QED
    BY <1>1, <1>2 DEF Undecided, Statuses, Unflagged, Promise!Undecided, Promise!Unclosed

\* The step at hand is settled.
Settles == Start \/ StepFails \/ StepCompletes \/ StartBreaks \/ FailTask

LEMMA SettlesKeep ==
  ASSUME IInv, Settles
  PROVE  Preserved
  <1>0. TypeOK /\ Placed /\ Rows /\ AtHand /\ Position /\ Undecided /\ Verdicts /\ Owed /\ Left
    BY DEF IInv, Execution, Standing, Requests
  <1>1. /\ Typed /\ steps \in Seq(Row) /\ cur \in 1 .. Len(steps) /\ Len(steps) \in Nat
        /\ next \in 0 .. Len(steps) /\ steps[cur].status \in StepStatuses /\ faults \in Nat
        /\ Len(steps) \in 1 .. Len(steps) /\ steps[cur] \in Row
    BY <1>0, Types, RowTypes, StepsAssumption DEF Typed, Scalars
  <1>2. /\ UNCHANGED <<task, next, discard, cur, clause, kind>>
        /\ faults' # 0 \/ (faults' = faults /\ slipped' = slipped)
    <2>1. CASE Start \/ StepFails \/ StepCompletes \/ FailTask
      BY <2>1 DEF Start, StepFails, StepCompletes, FailTask, others, frame, slips
    <2>2. CASE StartBreaks
      BY <1>1, <2>2 DEF StartBreaks, Slip, others, frame
    <2> QED
      BY <2>1, <2>2 DEF Settles
  <1>3. PICK s \in {"running", "failed", "completed"} :
          /\ SetStep(cur, s)
          /\ \/ s = "running" /\ pc = "ready" /\ pc' = "acting" /\ goal' = goal
             \/ s = "failed" /\ pc \in {"ready", "acting"} /\ pc' = "failed" /\ goal' = goal
             \/ s = "completed" /\ pc = "acting" /\ pc' = "verify" /\ goal' = "open"
             \/ s = "completed" /\ pc = "acting" /\ pc' = "completed"
             \/ /\ s = "failed" /\ pc = "fail" /\ pc' = "update" /\ goal' = goal
                /\ update'.to = "failed" /\ steps[cur].status # "completed"
    <2>1. CASE Start
      BY <2>1 DEF Start
    <2>2. CASE StepFails
      BY <2>2 DEF StepFails
    <2>3. CASE StepCompletes
      BY <2>3 DEF StepCompletes
    <2>4. CASE StartBreaks
      BY <2>4 DEF StartBreaks
    <2>5. CASE FailTask
      BY <2>5 DEF FailTask, Updates
    <2> QED
      BY <2>1, <2>2, <2>3, <2>4, <2>5 DEF Settles
  <1>4. Marked(steps, steps', cur, s) /\ steps'[cur].last = steps[cur].last
    BY <1>1, <1>3, StatusMarks DEF SetStep, StepStatuses
  <1>5. steps[cur].status # "canceled"
    BY <1>0, <1>1, <1>3 DEF Position, Placed, Failing
  <1>6. CASE steps[cur].status = "failed"
    <2>1. pc = "fail" /\ s = "failed" /\ pc' = "update" /\ update'.to = "failed" /\ goal' = goal
      BY <1>0, <1>3, <1>6 DEF Position
    <2>2. steps' = steps
      <3>1. [steps[cur] EXCEPT !.status = "failed"] = steps[cur]
        BY <1>1, <1>6 DEF Row
      <3>2. steps' = [steps EXCEPT ![cur] = [steps[cur] EXCEPT !.status = "failed"]]
        BY <1>3, <2>1 DEF SetStep
      <3> QED
        BY <1>1, <3>1, <3>2
    <2>3. Spent
      BY <1>1, <1>6 DEF Spent
    <2>4. clause \in Failing
      BY <1>0, <2>1 DEF Placed
    <2>5. AtHand' /\ Position'
      BY <1>0, <1>2, <1>6, <2>1, <2>2, <2>4, SameRows DEF AtHand, Position, Working, Failing
    <2>6. Undecided' /\ Verdicts'
      BY <1>0, <1>2, <2>1, <2>2, <2>3, SameRows DEF Undecided, InHand, Working, Verdicts
    <2>7. Owed'
      BY <1>0, <1>2, <1>6, <2>1, <2>2 DEF Owed
    <2>8. Left'
      BY <1>0, <1>2, <1>6, <2>1, <2>2 DEF Left
    <2> QED
      BY <1>0, <1>1, <1>2, <2>2, <2>5, <2>6, <2>7, <2>8, SameRows
      DEF Execution, Standing, Preserved, StepTypes, Kept
  <1>7. CASE steps[cur].status # "failed"
    <2>1. InHand /\ steps[cur].status \in {"created", "running"}
      BY <1>0, <1>1, <1>3, <1>5, <1>7 DEF Position, InHand, Working, StepStatuses
    <2>2. cur = Len(steps)
      BY <1>0, <1>1, <2>1 DEF Rows, Settled
    <2>3. discard = "none"
      BY <1>0, <1>1, <2>2 DEF Position
    <2>4. Unflagged /\ task \in {"running", "canceled"} /\ Promise!Undecided /\ Promise!Unclosed
      BY <2>1, InHandPromise
    <2>5. steps[cur].order < MaxSteps
      BY <1>0 DEF AtHand
    <2>6. Rows' /\ steps' \in Seq(Row) /\ Len(steps') = Len(steps)
      BY <1>0, <1>1, <1>4, <2>1, <2>2, <2>4, <2>5, MarkedRows DEF StepStatuses
    <2>7. /\ steps'[cur].status = s /\ steps'[cur].order = steps[cur].order
          /\ \A i \in 1 .. Len(steps) : steps'[i].last = "no"
      BY <1>1, <1>4, <2>4 DEF Marked, Unflagged
    <2>8. clause # "prologue" /\ (pc' = "update" => clause \in Failing)
      BY <1>0, <1>3 DEF Placed, Failing
    <2>9. AtHand'
      BY <1>1, <1>2, <2>5, <2>6, <2>7 DEF AtHand
    <2>10. Position'
      BY <1>0, <1>2, <1>3, <2>2, <2>3, <2>6, <2>7, <2>8 DEF Position, Working, Failing
    <2>11. Unflagged'
      BY <2>6, <2>7 DEF Unflagged
    <2>12. Undecided'
      BY <1>2, <1>3, <2>4, <2>11 DEF Undecided
    <2>13. Verdicts'
      <3>1. s = "failed" => Spent'
        BY <1>1, <2>6, <2>7 DEF Spent
      <3> QED
        BY <1>2, <1>3, <2>4, <3>1 DEF Verdicts
    <2>14. Owed'
      BY <1>2, <2>2, <2>6, <2>7 DEF Owed
    <2>15. Left'
      BY <1>0, <1>2, <1>3, <2>7, <2>8 DEF Left, Placed
    <2>16. Kept
      <3>1. Promise!Tip = steps[cur] /\ steps' = Promise!WithTip(s) /\ task' = task
        BY <1>2, <1>3, <2>2 DEF SetStep, Promise!Tip, Promise!WithTip
      <3>2. CASE s = "running"
        <4>1. steps[cur].status = "created"
          BY <1>0, <1>3, <3>2 DEF Position
        <4> QED
          BY <2>4, <2>5, <3>1, <3>2, <4>1 DEF Promise!Begin, Promise!Next, Kept
      <3>3. CASE s = "completed"
        <4>1. steps[cur].status = "running"
          BY <1>0, <1>3, <3>3 DEF Position
        <4> QED
          BY <2>4, <3>1, <3>3, <4>1 DEF Promise!Finish, Promise!Next, Kept
      <3>4. CASE s = "failed"
        BY <2>1, <2>4, <3>1, <3>4 DEF Promise!Finish, Promise!Next, Kept
      <3> QED
        BY <1>3, <3>2, <3>3, <3>4
    <2>17. StepTypes'
      BY <1>1, <1>2, <2>6 DEF StepTypes
    <2> QED
      BY <2>6, <2>9, <2>10, <2>12, <2>13, <2>14, <2>15, <2>16, <2>17
      DEF Execution, Standing, Preserved
  <1> QED
    BY <1>6, <1>7

\* The step at hand is given up for a cancel.
LEMMA GivesUpKeeps ==
  ASSUME IInv, RunIsCanceled \/ TaskIsCanceled
  PROVE  Preserved
  <1>0. TypeOK /\ Placed /\ Rows /\ AtHand /\ Position /\ Undecided /\ Verdicts /\ Owed /\ Left
    BY DEF IInv, Execution, Standing, Requests
  <1>1. /\ steps \in Seq(Row) /\ cur \in 1 .. Len(steps) /\ Len(steps) \in Nat
        /\ next \in 0 .. Len(steps)
    BY <1>0, Types
  <1>2. /\ UNCHANGED <<task, next, discard, cur, clause, kind, goal, faults, slipped>>
        /\ pc \in {"enter", "look"}
        /\ steps' = [steps EXCEPT ![cur] = [@ EXCEPT !.status = "canceled", !.last = "yes"]]
        /\ \/ pc' = "update" /\ update'.to = "canceled"
           \/ pc' = "clean" /\ task = "canceled"
    <2>1. CASE RunIsCanceled
      BY <2>1 DEF RunIsCanceled, GivenUp, Updates, others, frame, slips
    <2>2. CASE TaskIsCanceled
      BY <2>2 DEF TaskIsCanceled, GivenUp, others, frame, slips
    <2> QED
      BY <2>1, <2>2
  <1>3. clause = "prologue" /\ steps[cur].status = "created" /\ cur = Len(steps) /\ discard = "none"
    BY <1>0, <1>1, <1>2 DEF Placed, Position
  <1>4. InHand
    BY <1>2 DEF InHand, Working
  <1>5. Unflagged /\ task \in {"running", "canceled"} /\ Promise!Undecided /\ Promise!Unclosed
    BY <1>4, InHandPromise
  <1>6. Marked(steps, steps', cur, "canceled")
    BY <1>1, <1>2, CancelMarks
  <1>7. \A j \in 1 .. Len(steps) : j > cur => ~Started(steps[j])
    BY <1>1, <1>3
  <1>8. Rows' /\ steps' \in Seq(Row) /\ Len(steps') = Len(steps)
    BY <1>0, <1>1, <1>3, <1>5, <1>6, <1>7, MarkedRows DEF StepStatuses
  <1>9. steps'[cur].status = "canceled" /\ steps'[cur].order = steps[cur].order
    BY <1>1, <1>6 DEF Marked
  <1>10. AtHand'
    BY <1>0, <1>1, <1>2, <1>8, <1>9 DEF AtHand
  <1>11. Position'
    BY <1>0, <1>2, <1>3, <1>8, <1>9 DEF Position, Working
  <1>12. Undecided' /\ Verdicts'
    BY <1>2, <1>5 DEF Undecided, Verdicts, InHand, Working
  <1>13. Owed'
    BY <1>2, <1>3, <1>8, <1>9 DEF Owed
  <1>14. Left'
    BY <1>2, <1>3 DEF Left
  <1>15. Kept
    <2>1. Promise!Abandon
      BY <1>2, <1>3, <1>5 DEF Promise!Abandon, Promise!Tip
    <2> QED
      BY <2>1 DEF Promise!Next, Kept
  <1>16. StepTypes'
    BY <1>1, <1>2, <1>8 DEF StepTypes
  <1> QED
    BY <1>8, <1>10, <1>11, <1>12, <1>13, <1>14, <1>15, <1>16 DEF Execution, Standing, Preserved

\* The step at hand is declared the last one.
Closes == Decide \/ StepsExhausted \/ NotVerifiedAtLimit

LEMMA ClosesKeep ==
  ASSUME IInv, Closes
  PROVE  Preserved
  <1>0. TypeOK /\ Placed /\ Rows /\ AtHand /\ Position /\ Undecided /\ Verdicts /\ Owed /\ Left
    BY DEF IInv, Execution, Standing, Requests
  <1>1. /\ steps \in Seq(Row) /\ cur \in 1 .. Len(steps) /\ Len(steps) \in Nat
        /\ next \in 0 .. Len(steps) /\ DOMAIN steps = 1 .. Len(steps)
    BY <1>0, Types
  <1>2. /\ UNCHANGED <<task, next, discard, cur, clause, kind, goal, faults, slipped>>
        /\ steps' = Flagged(cur) /\ pc \in {"completed", "verifying"}
        /\ pc = "verifying" => pc' = "withdraw"
        /\ \/ pc' = "update" /\ update'.to \in {"completed", "terminated"} /\ goal # "open"
           \/ pc' = "update" /\ update'.to = "failed" /\ AtLimit
           \/ pc' = "withdraw" /\ pc = "verifying" /\ AtLimit
    <2>1. CASE Decide
      BY <2>1 DEF Decide, Updates, others, frame, slips
    <2>2. CASE StepsExhausted
      BY <2>2 DEF StepsExhausted, Updates, others, frame, slips
    <2>3. CASE NotVerifiedAtLimit
      BY <2>3 DEF NotVerifiedAtLimit, others, frame, slips
    <2> QED
      BY <2>1, <2>2, <2>3 DEF Closes
  <1>3. clause = "body" /\ steps[cur].status = "completed" /\ InHand
    BY <1>0, <1>2 DEF Placed, Position, InHand, Working
  <1>4. Unflagged /\ task \in {"running", "canceled"} /\ Promise!Undecided /\ Promise!Unclosed
    BY <1>3, InHandPromise
  <1>5. \A j \in 1 .. Len(steps) : j > cur => steps[j].status \in {"created", "canceled"}
    <2>1. cur = Len(steps) \/ (next = cur + 1 /\ next = Len(steps) /\ ~Started(steps[next]))
      BY <1>0, <1>1, <1>2 DEF Position, Started
    <2>2. CASE cur = Len(steps)
      BY <1>1, <2>2
    <2>3. CASE next = cur + 1 /\ next = Len(steps) /\ ~Started(steps[next])
      <3>1. \A j \in 1 .. Len(steps) : j > cur => j = next
        BY <1>1, <2>3
      <3>2. steps[next].status \in {"created", "canceled"}
        BY <2>3 DEF Started
      <3> QED
        BY <3>1, <3>2
    <2> QED
      BY <2>1, <2>2, <2>3
  <1>6. Marked(steps, steps', cur, "completed") /\ steps'[cur].last = "yes"
    BY <1>1, <1>2, <1>3, FlagMarks DEF Flagged
  <1>7. \A j \in 1 .. Len(steps) : j > cur => ~Started(steps[j])
    BY <1>5 DEF Started
  <1>8. Rows' /\ steps' \in Seq(Row) /\ Len(steps') = Len(steps)
    <2>1. steps[cur].order < MaxSteps
      BY <1>0 DEF AtHand
    <2> QED
      BY <1>0, <1>1, <1>3, <1>4, <1>6, <1>7, <2>1, MarkedRows DEF StepStatuses
  <1>9. \A j \in 1 .. Len(steps) :
          steps'[j].status = steps[j].status /\ steps'[j].order = steps[j].order
    BY <1>1, <1>3, <1>6 DEF Marked
  <1>10. /\ Trailing' <=> Trailing
         /\ AtLimit' <=> AtLimit
    BY <1>1, <1>2, <1>8, <1>9 DEF Trailing, AtLimit
  <1>11. Ground' /\ (AtLimit => Spent')
    BY <1>1, <1>3, <1>6, <1>8, <1>9 DEF Ground, Spent, AtLimit
  <1>12. next \in 1 .. Len(steps) => (Started(steps'[next]) <=> Started(steps[next]))
    BY <1>9 DEF Started
  <1>13. AtHand'
    BY <1>0, <1>1, <1>2, <1>8, <1>9 DEF AtHand
  <1>14. Position'
    <2>1. pc' \in {"update", "withdraw"} /\ (pc' = "withdraw" => pc = "verifying" /\ AtLimit)
      BY <1>2
    <2>2. discard # "none" \/ pc = "verifying" => next \in 1 .. Len(steps) /\ cur < next
      <3>1. discard # "none" => next = Len(steps) /\ cur < next
        BY <1>0 DEF Position
      <3>2. pc = "verifying" => next = Len(steps) /\ next = cur + 1
        BY <1>0 DEF Position
      <3>3. next = cur + 1 => cur < next
        BY <1>1
      <3>4. Len(steps) \in 1 .. Len(steps)
        BY <1>0, Types
      <3> QED
        BY <3>1, <3>2, <3>3, <3>4
    <2>3. goal # "open" => pc # "verifying"
      BY <1>0 DEF Position, Working
    <2> QED
      BY <1>0, <1>1, <1>2, <1>3, <1>6, <1>8, <1>9, <1>10, <1>12, <2>1, <2>2, <2>3
      DEF Position, Working
  <1>15. Undecided' /\ Verdicts'
    BY <1>2, <1>4, <1>11 DEF Undecided, Verdicts, InHand, Working
  <1>16. Owed'
    <2>1. Len(steps) \in 1 .. Len(steps)
      BY <1>1
    <2> QED
      BY <1>0, <1>2, <1>3, <1>8, <1>9, <2>1 DEF Owed
  <1>17. Left'
    BY <1>2, <1>3 DEF Left
  <1>18. Kept
    <2>1. cur \in DOMAIN steps /\ steps' = Promise!Flagged(cur)
      BY <1>1, <1>2 DEF Flagged, Promise!Flagged
    <2>2. Promise!Close
      BY <1>1, <1>2, <1>3, <1>4, <1>5, <2>1 DEF Promise!Close
    <2> QED
      BY <2>2 DEF Promise!Next, Kept
  <1>19. StepTypes'
    BY <1>1, <1>2, <1>8 DEF StepTypes
  <1> QED
    BY <1>8, <1>13, <1>14, <1>15, <1>16, <1>17, <1>18, <1>19
    DEF Execution, Standing, Preserved

\* The step made on speculation is withdrawn, by the executor or beside it.
LEMMA WithdrawsKeep ==
  ASSUME IInv, Withdraw \/ Discard
  PROVE  Preserved
  <1>0. TypeOK /\ Placed /\ Rows /\ AtHand /\ Position /\ Undecided /\ Verdicts /\ Owed /\ Left
    BY DEF IInv, Execution, Standing, Requests
  <1>1. /\ steps \in Seq(Row) /\ cur \in 1 .. Len(steps) /\ Len(steps) \in Nat
        /\ next \in 0 .. Len(steps) /\ DOMAIN steps = 1 .. Len(steps)
        /\ \A i \in 1 .. Len(steps) : steps[i].order \in Nat
    BY <1>0, Types, RowTypes
  <1>2. /\ UNCHANGED <<task, next, cur, clause, kind, goal, faults, slipped>>
        /\ steps' = Withdrawn(next)
        /\ \/ pc = "withdraw" /\ pc' = "update" /\ update'.to = "failed" /\ discard' = discard
           \/ discard = "pending" /\ discard' = "done" /\ pc' = pc /\ update' = update
    <2>1. CASE Withdraw
      BY <2>1 DEF Withdraw, Updates, others, frame, slips
    <2>2. CASE Discard
      BY <2>2 DEF Discard, ledger, frame, slips
    <2> QED
      BY <2>1, <2>2
  <1>3. /\ next = Len(steps) /\ next \in 1 .. Len(steps) /\ cur < next /\ Trailing
        /\ steps[next].status = "created"
    <2>1. CASE pc = "withdraw"
      <3>1. next = Len(steps) /\ next = cur + 1 /\ steps[next].status = "created"
            /\ steps[cur].status = "completed"
        BY <1>0, <2>1 DEF Position
      <3> QED
        BY <1>1, <3>1 DEF Trailing
    <2>2. CASE discard = "pending"
      BY <1>0, <1>1, <2>2 DEF Position
    <2> QED
      BY <1>2, <2>1, <2>2
  <1>4. Marked(steps, steps', next, "canceled") /\ steps'[next].last = steps[next].last
    <2>1. steps' = [steps EXCEPT ![next].status = "canceled"]
      BY <1>2 DEF Withdrawn
    <2>2. steps \in Seq(Row) /\ next \in 1 .. Len(steps) /\ "canceled" \in StepStatuses
      BY <1>1, <1>3 DEF StepStatuses
    <2> QED
      BY ONLY <2>1, <2>2, StatusMarks
  <1>5. Rows' /\ steps' \in Seq(Row) /\ Len(steps') = Len(steps)
    BY <1>0, <1>1, <1>3, <1>4, MarkedRows DEF StepStatuses
  <1>6. /\ \A j \in 1 .. Len(steps) :
             /\ j # next => steps'[j].status = steps[j].status
             /\ steps'[j].last = steps[j].last /\ steps'[j].order = steps[j].order
        /\ steps'[next].status = "canceled"
    BY <1>1, <1>4 DEF Marked
  <1>7. /\ Unflagged' <=> Unflagged
        /\ Trailing'
        /\ Ground => Ground'
        /\ Spent => Spent'
    <2>1. Unflagged' <=> Unflagged
      BY <1>5, <1>6 DEF Unflagged
    <2>2. Trailing'
      <3>1. \A i \in 1 .. Len(steps) : i + 1 = Len(steps) => i # next
        BY <1>1, <1>3
      <3> QED
        BY <1>3, <1>5, <1>6, <3>1 DEF Trailing
    <2>3. \A i \in 1 .. Len(steps) :
            steps[i].status \in {"failed", "completed"} => steps'[i].status = steps[i].status
      BY <1>3, <1>6
    <2>4. Ground => Ground'
      BY <1>5, <1>6, <2>3 DEF Ground
    <2>5. Spent => Spent'
      BY <1>5, <1>6, <2>3 DEF Spent
    <2> QED
      BY <2>1, <2>2, <2>4, <2>5
  <1>8. cur # next /\ steps'[cur].status = steps[cur].status /\ steps'[cur].order = steps[cur].order
        /\ steps'[cur].last = steps[cur].last
    <2>1. cur \in 1 .. Len(steps) /\ cur # next
      BY <1>1, <1>3
    <2> QED
      BY <1>6, <2>1
  <1>9. AtHand'
    BY <1>0, <1>1, <1>2, <1>5, <1>8 DEF AtHand
  <1>10. ASSUME pc = "withdraw", pc' = "update", update'.to = "failed", discard' = discard
         PROVE  Position' /\ Undecided' /\ Verdicts' /\ Left'
    <2>1. steps[cur].status = "completed" /\ steps[cur].last = "yes" /\ AtLimit /\ goal = "open"
          /\ clause = "body"
      BY <1>0, <1>10 DEF Position, Placed
    <2>2. Spent
      BY <1>1, <2>1 DEF Spent, AtLimit
    <2>3. discard = "none"
      BY <1>0, <2>1 DEF Position
    <2>4. Position'
      BY <1>0, <1>2, <1>8, <1>10, <2>1, <2>3 DEF Position, Working
    <2>5. Undecided' /\ Verdicts'
      BY <1>0, <1>2, <1>7, <1>10, <2>2 DEF Undecided, Verdicts, InHand, Working
    <2>6. Left'
      BY <1>2, <1>10, <2>1 DEF Left
    <2> QED
      BY <2>4, <2>5, <2>6
  <1>11. ASSUME discard = "pending", discard' = "done", pc' = pc, update' = update
         PROVE  Position' /\ Undecided' /\ Verdicts' /\ Left'
    <2>1. goal # "open" /\ pc \notin Working \ {"completed"} /\ pc # "withdraw"
      BY <1>0, <1>11 DEF Position
    <2>2. Position'
      <3>1. ~Started(steps'[next])
        BY <1>6 DEF Started
      <3> QED
        BY <1>0, <1>2, <1>3, <1>5, <1>7, <1>8, <1>11, <2>1, <3>1 DEF Position, Working
    <2>3. Undecided' /\ Verdicts'
      BY <1>0, <1>2, <1>7, <1>8, <1>11 DEF Undecided, Verdicts, InHand, Working
    <2>4. Left'
      BY <1>0, <1>2, <1>8, <1>11 DEF Left
    <2> QED
      BY <2>2, <2>3, <2>4
  <1>12. Owed'
    BY <1>3, <1>5, <1>6 DEF Owed
  <1>13. Kept
    <2>1. \E i \in DOMAIN steps : i + 1 = Len(steps) /\ steps[i].status = "completed"
      <3> DEFINE i == Len(steps) - 1
      <3>1. i \in 1 .. Len(steps) /\ i + 1 = Len(steps)
        BY <1>1, <1>3
      <3> QED
        BY <1>1, <1>3, <3>1 DEF Trailing
    <2>2. Promise!Withdraw
      BY <1>2, <1>3, <2>1 DEF Withdrawn, Promise!Withdraw, Promise!WithTip, Promise!Tip
    <2> QED
      BY <2>2 DEF Promise!Next, Kept
  <1>14. StepTypes'
    BY <1>1, <1>2, <1>5 DEF StepTypes
  <1> QED
    BY <1>2, <1>5, <1>9, <1>10, <1>11, <1>12, <1>13, <1>14 DEF Execution, Standing, Preserved

\* The next row: a retry, the next step, or one made on speculation.
LEMMA AddsKeep ==
  ASSUME IInv, Retry \/ NextStep \/ Speculate
  PROVE  Preserved
  <1>0. TypeOK /\ Placed /\ Rows /\ AtHand /\ Position /\ Undecided /\ Verdicts /\ Owed /\ Left
    BY DEF IInv, Execution, Standing, Requests
  <1>1. /\ steps \in Seq(Row) /\ cur \in 1 .. Len(steps) /\ Len(steps) \in Nat
        /\ next \in 0 .. Len(steps) /\ Len(steps) \in 1 .. Len(steps)
        /\ steps[cur].order \in 0 .. MaxSteps /\ steps[cur].retry \in 0 .. MaxRetries
        /\ steps[cur].order < MaxSteps
    BY <1>0, Types, RowTypes DEF AtHand
  <1>2. /\ UNCHANGED <<task, discard, kind, goal, faults, slipped, update>>
        /\ pc \in {"failed", "completed", "verify"}
        /\ goal = "open"
    BY <1>0 DEF Retry, NextStep, Speculate, Calls, others, slips, Position, Working
  <1>3. cur = Len(steps) /\ discard = "none" /\ InHand /\ clause = "body"
    BY <1>0, <1>2 DEF Position, InHand, Working, Placed
  <1>4. Unflagged /\ task \in {"running", "canceled"} /\ Promise!Undecided /\ Promise!Unclosed
    BY <1>3, InHandPromise
  <1>5. PICK o \in 0 .. MaxSteps, n \in 0 .. MaxRetries :
          /\ steps' = Append(steps, NewStep(o, n))
          /\ \/ /\ o = steps[cur].order /\ n = steps[cur].retry + 1
                /\ steps[cur].status = "failed" /\ steps[cur].retry < MaxRetries
             \/ /\ o = steps[cur].order + 1 /\ n = 0
                /\ steps[cur].status = "completed" /\ steps[cur].order < MaxSteps
          /\ Retry \/ NextStep => o < MaxSteps
          /\ Speculate => o = steps[cur].order + 1
    <2> DEFINE oc == steps[cur].order
               rc == steps[cur].retry
    <2>1. oc \in 0 .. MaxSteps /\ rc \in 0 .. MaxRetries /\ oc < MaxSteps
      BY <1>1
    <2>2. CASE Retry
      <3>1. /\ rc < MaxRetries /\ steps[cur].status = "failed" /\ pc = "failed"
            /\ steps' = Append(steps, NewStep(oc, rc + 1))
        BY <1>0, <2>2 DEF Retry, Calls, Position
      <3>2. ~Speculate
        BY <3>1 DEF Speculate
      <3> HIDE DEF oc, rc
      <3>3. rc + 1 \in 0 .. MaxRetries
        BY <2>1, <3>1, StepsAssumption
      <3> QED
        BY <2>1, <3>1, <3>2, <3>3 DEF oc, rc
    <2>3. CASE NextStep
      <3>1. /\ steps[cur].status = "completed" /\ steps' = Append(steps, NewStep(oc + 1, 0))
            /\ ~(oc + 1 >= MaxSteps)
        BY <1>0, <2>3 DEF NextStep, Calls, Position, AtLimit
      <3> HIDE DEF oc, rc
      <3>2. oc + 1 \in 0 .. MaxSteps /\ 0 \in 0 .. MaxRetries /\ oc + 1 < MaxSteps
        BY <2>1, <3>1, StepsAssumption
      <3> QED
        BY <2>1, <3>1, <3>2 DEF oc
    <2>4. CASE Speculate
      <3>1. /\ steps[cur].status = "completed" /\ steps' = Append(steps, NewStep(oc + 1, 0))
            /\ pc = "verify"
        BY <1>0, <2>4 DEF Speculate, Position
      <3>2. ~Retry /\ ~NextStep
        BY <3>1 DEF Retry, NextStep
      <3> HIDE DEF oc, rc
      <3>3. oc + 1 \in 0 .. MaxSteps /\ 0 \in 0 .. MaxRetries
        BY <2>1, StepsAssumption
      <3> QED
        BY <2>1, <3>1, <3>2, <3>3 DEF oc
    <2> QED
      BY <2>2, <2>3, <2>4
  <1>6. Added(o, n)
    BY <1>1, <1>5, AppendAdds
  <1>7. Rows' /\ Unflagged'
    BY <1>0, <1>1, <1>3, <1>4, <1>5, <1>6, AddedRows
  <1>8. /\ steps' \in Seq(Row) /\ Len(steps') = Len(steps) + 1
        /\ \A j \in 1 .. Len(steps) : steps'[j] = steps[j]
        /\ steps'[Len(steps) + 1].status = "created" /\ steps'[Len(steps) + 1].order = o
    BY <1>6 DEF Added, NewStep
  <1>9. Kept
    <2>1. Promise!Tip = steps[cur]
      BY <1>3 DEF Promise!Tip
    <2>2. Promise!Follow
      BY <1>2, <1>4, <1>5, <2>1 DEF Promise!Follow, Promise!NewRow, NewStep
    <2> QED
      BY <2>2 DEF Promise!Next, Kept
  <1>10. Undecided' /\ Verdicts'
    <2>1. pc' \in {"enter", "verifying"}
      BY DEF Retry, NextStep, Speculate, Calls
    <2> QED
      BY <1>2, <1>4, <1>7, <2>1 DEF Undecided, Verdicts
  <1>11. CASE Retry \/ NextStep
    <2>1. cur' = Len(steps) + 1 /\ next' = next /\ pc' = "enter" /\ clause' = "prologue"
      BY <1>3, <1>11 DEF Retry, NextStep, Calls
    <2>2. AtHand' /\ StepTypes'
      BY <1>1, <1>5, <1>8, <1>11, <2>1 DEF AtHand, StepTypes
    <2>3. Position'
      BY <1>2, <1>3, <1>8, <2>1 DEF Position, Working
    <2>4. Owed' /\ Left'
      BY <1>8, <2>1 DEF Owed, Left
    <2> QED
      BY <1>7, <1>9, <1>10, <2>2, <2>3, <2>4 DEF Execution, Standing, Preserved
  <1>12. CASE Speculate
    <2>1. cur' = cur /\ next' = Len(steps) + 1 /\ pc' = "verifying" /\ clause' = clause
      BY <1>12 DEF Speculate, frame
    <2>2. steps'[cur] = steps[cur] /\ steps[cur].status = "completed"
      BY <1>0, <1>1, <1>8, <1>12 DEF Speculate, Position
    <2>3. AtHand' /\ StepTypes'
      BY <1>1, <1>8, <2>1, <2>2 DEF AtHand, StepTypes
    <2>4. Position'
      BY <1>2, <1>3, <1>5, <1>8, <1>12, <2>1, <2>2 DEF Position, Working
    <2>5. Owed' /\ Left'
      BY <1>3, <1>8, <2>1 DEF Owed, Left
    <2> QED
      BY <1>7, <1>9, <1>10, <2>3, <2>4, <2>5 DEF Execution, Standing, Preserved
  <1> QED
    BY <1>11, <1>12

\* The step made on speculation is taken up.
LEMMA NotVerifiedKeeps ==
  ASSUME IInv, NotVerified
  PROVE  Preserved
  <1>0. TypeOK /\ Placed /\ Rows /\ AtHand /\ Position /\ Undecided /\ Verdicts /\ Owed /\ Left
    BY DEF IInv, Execution, Standing, Requests
  <1>1. /\ steps \in Seq(Row) /\ cur \in 1 .. Len(steps) /\ Len(steps) \in Nat
        /\ next \in 0 .. Len(steps) /\ steps[cur].order \in 0 .. MaxSteps
        /\ 0 \in 0 .. Len(steps)
    BY <1>0, Types, RowTypes
  <1>2. /\ UNCHANGED <<steps, task, discard, kind, goal, faults, slipped, update>>
        /\ pc = "verifying" /\ ~AtLimit /\ cur' = next /\ next' = 0
        /\ clause' = "prologue" /\ pc' = "enter"
    BY DEF NotVerified, others, slips
  <1>3. /\ next = Len(steps) /\ next \in 1 .. Len(steps) /\ goal = "open" /\ discard = "none"
        /\ steps[next].status = "created" /\ steps[next].order = steps[cur].order + 1
    BY <1>0, <1>1, <1>2 DEF Position, Working
  <1>4. steps[next].order < MaxSteps
    <2> DEFINE oc == steps[cur].order
    <2>1. oc \in 0 .. MaxSteps /\ ~(oc + 1 >= MaxSteps) /\ steps[next].order = oc + 1
      BY <1>1, <1>2, <1>3 DEF AtLimit
    <2> HIDE DEF oc
    <2> QED
      BY <2>1, StepsAssumption
  <1>5. InHand
    BY <1>2 DEF InHand, Working
  <1>6. Unflagged /\ task \in {"running", "canceled"}
    BY <1>5, InHandPromise
  <1>7. Rows' /\ Unflagged'
    BY <1>0, <1>2, <1>6, SameRows
  <1>8. AtHand' /\ StepTypes'
    BY <1>1, <1>2, <1>3, <1>4 DEF AtHand, StepTypes
  <1>9. Position'
    BY <1>2, <1>3 DEF Position, Working
  <1>10. Undecided' /\ Verdicts' /\ Owed' /\ Left'
    BY <1>2, <1>3, <1>6, <1>7 DEF Undecided, Verdicts, Owed, Left
  <1> QED
    BY <1>2, <1>7, <1>8, <1>9, <1>10 DEF Execution, Standing, Preserved, Kept

-----------------------------------------------------------------------------
(* The theorems.                                                           *)

LEMMA InitIInv == Init => IInv
  <1> SUFFICES ASSUME Init PROVE IInv
    OBVIOUS
  <1>1. /\ NewStep(0, 0) \in Row /\ NewStep(0, 0).order = 0 /\ NewStep(0, 0).retry = 0
        /\ NewStep(0, 0).status = "created" /\ NewStep(0, 0).last = "no"
    BY StepsAssumption DEF NewStep, Row, StepStatuses
  <1>2. steps \in Seq(Row) /\ Len(steps) = 1 /\ steps[1] = NewStep(0, 0)
    BY <1>1 DEF Init
  <1>3. TypeOK
    <2>1. DOMAIN steps = 1 .. 1
      BY <1>2, LenProperties
    <2> QED
      BY <1>2, <2>1, StepsAssumption DEF Init, TypeOK, NoUpdate, Statuses, Final, Row, StepStatuses
  <1>4. Requests
    BY StepsAssumption DEF Init, Requests, Placed, Cancelling, Starting, Telling, Silent, Closing,
       ToldTheTruth, BrowserClosed, NoUpdate, CancelWritten, Over
  <1>5. Rows /\ Unflagged
    BY <1>1, <1>2 DEF Rows, Ascending, Grounded, Settled, Within, Barred, Started, Unflagged
  <1>6. Execution
    <2>1. AtHand
      BY <1>1, <1>2, StepsAssumption DEF Init, AtHand
    <2>2. Position
      BY <1>1, <1>2 DEF Init, Position, Working
    <2>3. Undecided /\ Verdicts /\ Owed /\ Left
      BY <1>1, <1>2, <1>5 DEF Init, Undecided, InHand, Working, Verdicts, Owed, Left
    <2> QED
      BY <2>1, <2>2, <2>3 DEF Execution, Standing
  <1> QED
    BY <1>3, <1>4, <1>5, <1>6 DEF IInv

\* No step but a few touches the rows; the others may write the row of the task.
LEMMA NextPreserves ==
  ASSUME IInv, Next
  PROVE  Preserved
  <1>0. TypeOK /\ Placed /\ Rows /\ Verdicts /\ Undecided
    BY DEF IInv, Execution, Standing, Requests
  <1>1. /\ steps \in Seq(Row) /\ cur \in 1 .. Len(steps) /\ next \in 0 .. Len(steps)
        /\ DOMAIN steps = 1 .. Len(steps) /\ task \in Statuses
    BY <1>0, Types DEF Typed, Scalars
  <1>2. CASE Excepts
    BY <1>0, <1>1, <1>2, ExceptsKeep, SameRows DEF Preserved, StepTypes, Kept
  <1>3. CASE Breaks
    BY <1>0, <1>1, <1>3, BreaksKeeps, SameRows DEF Preserved, StepTypes, Kept
  <1>4. CASE Moves
    <2>1. Execution' /\ UNCHANGED <<steps, cur, next>>
      BY <1>4, MovesKeep, MovesLeaveRows
    <2>2. Rows' /\ StepTypes'
      BY <1>0, <1>1, <2>1, SameRows DEF StepTypes
    <2>3. Kept
      <3>1. CASE WriteUpdate
        <4>1. task' = update.to /\ update.to \in Final /\ pc = "write" /\ task \in {"running", "canceled"}
          BY <1>0, <1>1, <3>1 DEF WriteUpdate, Placed, Undecided, Statuses
        <4>2. CASE update.to \in {"completed", "terminated"}
          <5>1. Promise!Decided
            BY <1>0, <1>1, <4>1, <4>2 DEF Verdicts, Ground, Promise!Decided
          <5> QED
            BY <2>1, <4>1, <4>2, <5>1 DEF Promise!Conclude, Promise!Undecided, Promise!Next, Kept
        <4>3. CASE update.to = "failed"
          <5>1. Promise!Exhausted
            BY <1>0, <1>1, <4>1, <4>3 DEF Verdicts, Spent, Promise!Exhausted
          <5> QED
            BY <2>1, <4>1, <4>3, <5>1 DEF Promise!Conclude, Promise!Undecided, Promise!Next, Kept
        <4>4. CASE update.to = "canceled"
          BY <2>1, <4>1, <4>4 DEF Promise!Cancel, Promise!Next, Kept
        <4> QED
          BY <4>1, <4>2, <4>3, <4>4 DEF Final, Statuses
      <3>2. CASE Client
        <4>1. task' \in {task, "canceled"}
          BY <3>2 DEF Client, ClientChecks, ClientWrites, ClientReads, ClientPosts, ClientBreaks, ledger
        <4> QED
          BY <2>1, <4>1 DEF Promise!Cancel, Promise!Next, Kept
      <3>3. CASE RunGoesOn \/ Validate \/ RetriesExhausted \/ Verified \/ CheckUpdate
        BY <2>1, <3>3 DEF RunGoesOn, Validate, RetriesExhausted, Verified, CheckUpdate, ledger, Kept
      <3>4. CASE UpdateRefused \/ FailTaskRaises \/ CleanUp \/ TellsNobody
        BY <2>1, <3>4 DEF UpdateRefused, FailTaskRaises, CleanUp, TellsNobody, ledger, Kept
      <3>5. CASE Tell \/ Post \/ PostsNothing
        BY <2>1, <3>5 DEF Tell, Post, PostsNothing, ledger, Kept
      <3>6. CASE WithdrawBreaks \/ DiscardBreaks \/ RunCanceled
        BY <2>1, <3>6 DEF WithdrawBreaks, DiscardBreaks, RunCanceled, ledger, Kept
      <3> QED
        BY <1>4, <3>1, <3>2, <3>3, <3>4, <3>5, <3>6 DEF Moves
    <2> QED
      BY <2>1, <2>2, <2>3 DEF Preserved
  <1>5. CASE Settles \/ RunIsCanceled \/ TaskIsCanceled
    BY <1>5, SettlesKeep, GivesUpKeeps
  <1>6. CASE Closes \/ Withdraw \/ Discard
    BY <1>6, ClosesKeep, WithdrawsKeep
  <1>7. CASE Retry \/ NextStep \/ Speculate \/ NotVerified
    BY <1>7, AddsKeep, NotVerifiedKeeps
  <1> QED
    BY <1>2, <1>3, <1>4, <1>5, <1>6, <1>7
    DEF Next, Executor, Faults, Excepts, Moves, Settles, Closes

LEMMA NextIInv == IInv /\ [Next]_vars => IInv' /\ [Promise!Next]_<<steps, task>>
  <1> SUFFICES ASSUME IInv, [Next]_vars PROVE IInv' /\ [Promise!Next]_<<steps, task>>
    OBVIOUS
  <1>1. CASE Next
    <2>1. Typed /\ Requests /\ Placed
      BY Types DEF IInv, Requests
    <2>2. Requests'
      BY <1>1, <2>1, ExecutorRequests, FaultsRequests, OthersRequests DEF Next
    <2>3. Scalars'
      BY <1>1, <2>1, ExecutorScalars, OthersScalars DEF Next
    <2>4. Preserved
      BY <1>1, NextPreserves
    <2>5. TypeOK'
      <3>1. StepTypes' /\ DOMAIN steps' = 1 .. Len(steps')
        BY <2>4, LenProperties DEF Preserved, StepTypes
      <3> QED
        BY <2>3, <3>1 DEF TypeOK, Scalars, StepTypes, Row, StepStatuses
    <2> QED
      BY <2>2, <2>4, <2>5 DEF IInv, Preserved, Kept
  <1>2. CASE UNCHANGED vars
    <2>1. Rows' /\ UNCHANGED <<steps, task>>
      BY <1>2, SameRows DEF vars, IInv
    <2>2. TypeOK'
      BY <1>2 DEF vars, IInv, TypeOK
    <2>3. Requests'
      BY <1>2 DEF vars, IInv, Requests, Placed, Cancelling, Starting, Telling, Told, Silent, Own,
                  Excused, Closing, ToldTheTruth, BrowserClosed, CancelWritten, Over
    <2>4. Standing'
      BY <1>2, SameRows DEF vars, IInv, Execution, Standing, AtHand, Position, Undecided, InHand,
                            Verdicts, AtLimit
    <2>5. Owed' /\ Left'
      BY <1>2 DEF vars, IInv, Execution, Owed, Left
    <2> QED
      BY <2>1, <2>2, <2>3, <2>4, <2>5 DEF IInv, Execution
  <1> QED
    BY <1>1, <1>2

(***************************************************************************)
(* The invariant holds in every behaviour: the calls of execute_step, the  *)
(* rows of the steps, the row of the task and the webhooks fit together,   *)
(* whatever clients do and wherever calls raise.                           *)
(***************************************************************************)
THEOREM Invariant == Spec => []IInv
  BY InitIInv, NextIInv, PTL DEF Spec

\* Rows, executor and requests keep their types.
THEOREM TypesHold == Spec => []TypeOK
  BY Invariant, PTL DEF IInv

(***************************************************************************)
(* The ledger: no two steps of a task share order and retry, each follows  *)
(* from a failed or a completed one, none is executed beyond the limit.    *)
(***************************************************************************)
THEOREM StepLedgerAlways == Spec => []StepLedger
  <1>1. ASSUME IInv PROVE StepLedger
    <2>0. Rows /\ TypeOK /\ steps \in Seq(Row)
      BY <1>1, Types DEF IInv
    <2>1. DOMAIN steps = 1 .. Len(steps) /\ Len(steps) \in Nat
          /\ \A i \in 1 .. Len(steps) :
               steps[i].order \in Nat /\ steps[i].retry \in Nat /\ steps[i].status \in StepStatuses
      BY <2>0, Types, RowTypes
    <2>2. ASSUME NEW i \in 1 .. Len(steps), NEW j \in 1 .. Len(steps), i # j
          PROVE  <<steps[i].order, steps[i].retry>> # <<steps[j].order, steps[j].retry>>
      <3>1. i < j \/ j < i
        BY <2>1, <2>2
      <3>2. \/ steps[i].order < steps[j].order \/ steps[j].order < steps[i].order
            \/ steps[i].retry < steps[j].retry \/ steps[j].retry < steps[i].retry
        BY <2>0, <3>1 DEF Rows, Ascending
      <3>3. steps[i].order # steps[j].order \/ steps[i].retry # steps[j].retry
        BY <2>1, <3>2
      <3> QED
        BY <3>3
    <2>3. ASSUME NEW i \in 1 .. Len(steps)
          PROVE  /\ steps[i].retry > 0 => \E j \in 1 .. i - 1 :
                      /\ steps[j].order = steps[i].order /\ steps[j].retry = steps[i].retry - 1
                      /\ steps[j].status = "failed"
                 /\ steps[i].order > 0 => \E j \in 1 .. i - 1 :
                      steps[j].order = steps[i].order - 1 /\ steps[j].status = "completed"
      <3>1. \A j \in 1 .. Len(steps) : j < i => j \in 1 .. i - 1
        BY <2>1
      <3> QED
        BY <2>0, <3>1 DEF Rows, Grounded
    <2>4. \A i \in 1 .. Len(steps) : Started(steps[i]) => steps[i].order < MaxSteps
      BY <2>0 DEF Rows, Within
    <2> QED
      BY <2>1, <2>2, <2>3, <2>4 DEF StepLedger
  <1> QED
    BY <1>1, Invariant, PTL

\* A cancelled task starts one more step at most, over all retries and interleavings.
THEOREM OneMoreStartAlways == Spec => []OneMoreStart
  <1>1. IInv => OneMoreStart
    BY DEF IInv, Requests, Starting, OneMoreStart
  <1> QED
    BY <1>1, Invariant, PTL

(***************************************************************************)
(* A completed or terminated task has a completed last step, and none was  *)
(* begun after it: also when an exception during the clean-up has led back *)
(* to an earlier call.                                                     *)
(***************************************************************************)
THEOREM VerdictHasGroundAlways == Spec => []VerdictHasGround
  <1>1. ASSUME IInv PROVE VerdictHasGround
    <2>1. DOMAIN steps = 1 .. Len(steps) /\ Len(steps) \in Nat /\ Barred /\ Verdicts
      BY <1>1, Types DEF IInv, Rows, Execution, Standing
    <2> QED
      BY <2>1 DEF Barred, Verdicts, Ground, VerdictHasGround
  <1> QED
    BY <1>1, Invariant, PTL

\* Nothing is left created by an execution in which no call raised.
THEOREM NoStepLeftCreatedAlways == Spec => []NoStepLeftCreated
  <1>1. ASSUME IInv PROVE NoStepLeftCreated
    <2> SUFFICES ASSUME Over, discard # "pending", faults = 0, NEW i \in DOMAIN steps,
                        steps[i].status = "created"
                 PROVE  FALSE
      BY DEF NoStepLeftCreated
    <2>1. DOMAIN steps = 1 .. Len(steps) /\ Len(steps) \in Nat /\ Settled /\ Owed
      BY <1>1, Types DEF IInv, Rows, Execution
    <2>2. i = Len(steps)
      BY <2>1 DEF Settled
    <2> QED
      BY <2>1, <2>2 DEF Owed, Over
  <1> QED
    BY <1>1, Invariant, PTL

\* A cancel that nobody raced stands, or the task was completed after it.
THEOREM CancelStandsAlways == Spec => []CancelStands
  <1>1. IInv => CancelStands
    BY DEF IInv, Requests, Cancelling, CancelStands
  <1> QED
    BY <1>1, Invariant, PTL

(***************************************************************************)
(* The last webhook told the status of the row, although executor and      *)
(* client read the row some awaits before they send; the exceptions are a  *)
(* row written in between, a webhook that was not sent, and an action that *)
(* could not be parsed.                                                    *)
(***************************************************************************)
THEOREM ToldTheTruthAlways == Spec => []ToldTheTruth
  <1>1. IInv => ToldTheTruth
    BY DEF IInv, Requests
  <1> QED
    BY <1>1, Invariant, PTL

(***************************************************************************)
(* A browser to close is closed, wherever calls raise but before a try     *)
(* block and in the clean-up itself, unless a client cancelled the task.   *)
(***************************************************************************)
THEOREM BrowserClosedAlways == Spec => []BrowserClosed
  <1>1. IInv => BrowserClosed
    BY DEF IInv, Requests
  <1> QED
    BY <1>1, Invariant, PTL

(***************************************************************************)
(* A task that execute_step leaves running: the step it knew had completed *)
(* when an exception was caught, fail_task could not write, or the first   *)
(* call raised before its try block.                                       *)
(***************************************************************************)
THEOREM LeftRunningAlways == Spec => []LeftRunning
  <1>1. IInv => LeftRunning
    BY DEF IInv, Execution, Left, Over, LeftRunning
  <1> QED
    BY <1>1, Invariant, PTL

(***************************************************************************)
(* A task implements TaskPromise with its steps as the rows: in whatever   *)
(* order executor, background task, client and run write, and back through *)
(* whichever calls an exception leads, the ledger grows at its end,        *)
(* settled rows stay, nothing is begun after a last step, and every        *)
(* verdict of the agent is borne out by a row.                             *)
(***************************************************************************)
THEOREM TaskKeepsPromise == Spec => PromiseKept
  <1>1. Init => Promise!Init
    BY DEF Init, NewStep, Promise!Init, Promise!NewRow
  <1>2. IInv /\ [Next]_vars => [Promise!Next]_<<steps, task>>
    BY NextIInv
  <1> QED
    BY <1>1, <1>2, Invariant, PTL DEF Spec, PromiseKept, Promise!Spec

=============================================================================
