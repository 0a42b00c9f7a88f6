------------------------ MODULE AgentCoordinatorProofs ------------------------
(***************************************************************************)
(* Proofs about AgentCoordinator, for any tasks, plans, limits and any     *)
(* number of resumes. The coordinators share only the registry of    *)
(* agents and the approval records, which grow; so the invariant speaks of *)
(* one task at a time (TaskInv), and a step of one task leaves it to the   *)
(* others (OtherTasks).                                                    *)
(***************************************************************************)
EXTENDS AgentCoordinator, SequenceTheorems, TLAPS

Pcs == {"new", "create_plan", "step", "attempt", "failure", "replan",
        "plan_request", "risk_check", "approval_request", "returned", "return", "ended"}
Runs == {"none", "planning", "gating", "approving", "review", "experience"}
Context == [text : Goals \cup {Blank}, required : BOOLEAN, approved : BOOLEAN,
            carriesPlan : BOOLEAN]
Marks == {"ok", "skipped", "done"}
Act == [id : Nat, goal : Goals]

Pipe == {"plan_request", "risk_check", "approval_request", "returned"}

\* The passes of the pipeline that are about the current step.
Before(t) == pc[t] \in Pipe /\ run[t] \in {"gating", "approving"}
After(t) == pc[t] \in Pipe /\ run[t] \in {"review", "experience"}

\* Where the task stands in its plan.
Counts(t) ==
  /\ Len(results[t]) = pos[t] - 1
  /\ pos[t] <= Len(plan[t]) + 1
  /\ pc[t] \in {"attempt", "failure"} \/ Before(t) \/ After(t) => pos[t] <= Len(plan[t])
  /\ pc[t] \in Pipe => run[t] # "none"
  /\ status[t] = "completed" => pc[t] \in {"return", "ended"} /\ pos[t] = Len(plan[t]) + 1

\* What became of the steps before the current one.
Accounted(t, i) ==
  CASE results[t][i] = "skipped" -> plan[t][i].strategy = "skip"
    [] results[t][i] = "ok" ->
         \E k \in 1..Len(performed[t]) :
           performed[t][k] = [id |-> base[t] + i, goal |-> plan[t][i].goal]
    [] OTHER -> base[t] + i \in done[t]

Accounts(t) ==
  /\ \A i \in 1..Len(results[t]) : Accounted(t, i)
  /\ After(t) => \E k \in 1..Len(performed[t]) :
       performed[t][k] = [id |-> base[t] + pos[t], goal |-> plan[t][pos[t]].goal]

\* The task is at a step that it has not performed yet.
Behind(t) ==
  \/ pc[t] \in {"step", "attempt", "failure"} \/ Before(t)
  \/ pc[t] \in Pipe \ {"plan_request"} /\ run[t] = "planning"

\* The ids of what was performed stay behind the current step.
Ids(t) ==
  /\ \A i, j \in 1..Len(performed[t]) : i < j => performed[t][i].id < performed[t][j].id
  /\ \A k \in 1..Len(performed[t]) :
       /\ performed[t][k].id <= base[t] + Len(plan[t])
       /\ After(t) => performed[t][k].id <= base[t] + pos[t]
       /\ Behind(t) => performed[t][k].id < base[t] + pos[t]

\* The grading of a step, and the record it is attempted on.
Recorded(t) == [task |-> t, text |-> Step(t).goal] \in records
Gate(t) ==
  t \in framework =>
    /\ Before(t) \/ pc[t] = "attempt" => ctx[t].text = Step(t).goal
    /\ pc[t] = "attempt" => run[t] \in {"gating", "approving"}
    /\ (Before(t) \/ pc[t] = "attempt") /\ run[t] = "approving" => Recorded(t)
    /\ pc[t] \in {"returned", "attempt"} /\ run[t] = "gating" /\ ctx[t].required => Recorded(t)

TaskInv(t) == Counts(t) /\ Accounts(t) /\ Ids(t) /\ Gate(t)

IInv == TypeOK /\ \A t \in Tasks : TaskInv(t)

-----------------------------------------------------------------------------
(* Types.                                                                  *)

LEMMA Types ==
  ASSUME TypeOK, NEW t \in Tasks
  PROVE  /\ plan[t] \in Seq(Steps) /\ Len(plan[t]) \in Nat
         /\ results[t] \in Seq(Marks) /\ Len(results[t]) \in Nat
         /\ performed[t] \in Seq(Act) /\ Len(performed[t]) \in Nat
         /\ base[t] \in Nat /\ pos[t] \in Nat /\ pos[t] >= 1
         /\ \A k \in 1..Len(performed[t]) : performed[t][k].id \in Nat
         /\ \A k \in 1..Len(plan[t]) : plan[t][k] \in Steps
  <1>1. plan[t] \in Seq(Steps) /\ results[t] \in Seq(Marks) /\ performed[t] \in Seq(Act)
    BY DEF TypeOK, Marks, Act
  <1>2. \A k \in 1..Len(performed[t]) : performed[t][k] \in Act
    BY <1>1, ElementOfSeq
  <1>3. \A k \in 1..Len(plan[t]) : plan[t][k] \in Steps
    BY <1>1, ElementOfSeq
  <1>4. Len(plan[t]) \in Nat /\ Len(results[t]) \in Nat /\ Len(performed[t]) \in Nat
    BY <1>1, LenProperties
  <1>5. base[t] \in Nat /\ pos[t] \in Nat /\ pos[t] >= 1
    BY DEF TypeOK
  <1> QED
    BY <1>1, <1>2, <1>3, <1>4, <1>5 DEF Act

LEMMA ContextType ==
  ASSUME NEW c \in Context, NEW b \in BOOLEAN
  PROVE  /\ [c EXCEPT !.required = b] \in Context /\ [c EXCEPT !.required = b].text = c.text
         /\ [c EXCEPT !.approved = b] \in Context /\ [c EXCEPT !.approved = b].text = c.text
         /\ [c EXCEPT !.approved = b].required = c.required
         /\ [c EXCEPT !.carriesPlan = b] \in Context /\ [c EXCEPT !.carriesPlan = b].text = c.text
  BY DEF Context

\* What a step of one task leaves to the others.
Only(t) ==
  /\ framework' = framework /\ records \subseteq records'
  /\ \A x \in Tasks : x # t =>
       /\ pc'[x] = pc[x] /\ plan'[x] = plan[x] /\ base'[x] = base[x] /\ pos'[x] = pos[x]
       /\ results'[x] = results[x] /\ done'[x] = done[x] /\ status'[x] = status[x]
       /\ run'[x] = run[x] /\ ctx'[x] = ctx[x] /\ performed'[x] = performed[x]

LEMMA OtherTasks ==
  ASSUME IInv, NEW t \in Tasks, Only(t), TaskInv(t)', TypeOK'
  PROVE  IInv'
  <1> SUFFICES ASSUME NEW x \in Tasks, x # t PROVE TaskInv(x)'
    BY DEF IInv
  <1>0. TaskInv(x)
    BY DEF IInv
  <1>1. Before(x)' = Before(x) /\ After(x)' = After(x) /\ Step(x)' = Step(x)
    BY DEF Only, Before, After, Step
  <1>6. Behind(x)' = Behind(x)
    BY <1>1 DEF Only, Behind
  <1>2. Counts(x)'
    BY <1>0, <1>1 DEF Only, TaskInv, Counts
  <1>3. Accounts(x)'
    BY <1>0, <1>1 DEF Only, TaskInv, Accounts, Accounted
  <1>4. Ids(x)'
    BY <1>0, <1>1, <1>6 DEF Only, TaskInv, Ids
  <1>5. Gate(x)'
    BY <1>0, <1>1 DEF Only, TaskInv, Gate, Recorded
  <1> QED
    BY <1>2, <1>3, <1>4, <1>5 DEF TaskInv

-----------------------------------------------------------------------------
(* The building blocks of the actions.                                     *)

LEMMA GotoFacts ==
  ASSUME TypeOK, NEW t \in Tasks, NEW l \in Pcs, Goto(t, l)
  PROVE  pc' \in [Tasks -> Pcs] /\ pc'[t] = l /\ \A x \in Tasks : x # t => pc'[x] = pc[x]
  BY DEF TypeOK, Goto, Pcs

LEMMA PassFacts ==
  ASSUME TypeOK, NEW t \in Tasks, NEW what \in Runs, NEW c \in Context, Pass(t, what, c)
  PROVE  /\ pc' \in [Tasks -> Pcs] /\ run' \in [Tasks -> Runs] /\ ctx' \in [Tasks -> Context]
         /\ pc'[t] = "plan_request" /\ run'[t] = what /\ ctx'[t] = c
         /\ \A x \in Tasks : x # t => pc'[x] = pc[x] /\ run'[x] = run[x] /\ ctx'[x] = ctx[x]
  <1>1. Goto(t, "plan_request") /\ run' = [run EXCEPT ![t] = what] /\ ctx' = [ctx EXCEPT ![t] = c]
    BY DEF Pass
  <1>2. run \in [Tasks -> Runs] /\ ctx \in [Tasks -> Context]
    BY DEF TypeOK, Runs, Context
  <1> QED
    BY <1>1, <1>2, GotoFacts DEF Pcs

LEMMA FinishFacts ==
  ASSUME TypeOK, NEW t \in Tasks, NEW v \in Ended, Finish(t, v)
  PROVE  /\ pc' \in [Tasks -> Pcs] /\ status' \in [Tasks -> {"running"} \cup Ended]
         /\ pc'[t] = "return" /\ status'[t] = v
         /\ \A x \in Tasks : x # t => pc'[x] = pc[x] /\ status'[x] = status[x]
  <1>1. Goto(t, "return") /\ status' = [status EXCEPT ![t] = v]
    BY DEF Finish
  <1> QED
    BY <1>1, GotoFacts DEF Pcs, TypeOK

LEMMA AdoptFacts ==
  ASSUME TypeOK, NEW t \in Tasks, NEW p \in Seq(Steps), Adopt(t, p)
  PROVE  /\ plan' \in [Tasks -> Seq(Steps)] /\ base' \in [Tasks -> Nat]
         /\ pos' \in [Tasks -> Nat \ {0}] /\ tries' \in [Tasks -> Nat]
         /\ results' \in [Tasks -> Seq(Marks)]
         /\ plan'[t] = p /\ base'[t] = base[t] + Len(plan[t]) /\ pos'[t] = 1 /\ results'[t] = <<>>
         /\ \A x \in Tasks : x # t => /\ plan'[x] = plan[x] /\ base'[x] = base[x]
                                     /\ pos'[x] = pos[x] /\ results'[x] = results[x]
  <1>1. Len(plan[t]) \in Nat
    BY Types
  <1>2. <<>> \in Seq(Marks)
    BY EmptySeq
  <1>3. base[t] + Len(plan[t]) \in Nat
    <2> DEFINE b == base[t]
               m == Len(plan[t])
    <2>1. b \in Nat /\ m \in Nat
      BY Types
    <2> HIDE DEF b, m
    <2>2. b + m \in Nat
      BY <2>1
    <2> QED
      BY <2>2 DEF b, m
  <1> QED
    BY <1>2, <1>3 DEF TypeOK, Adopt, Marks

LEMMA NextStepFacts ==
  ASSUME TypeOK, NEW t \in Tasks, NEW r \in Marks, NextStep(t, r)
  PROVE  /\ plan' = plan /\ base' = base /\ outer' = outer
         /\ pos' \in [Tasks -> Nat \ {0}] /\ tries' \in [Tasks -> Nat]
         /\ results' \in [Tasks -> Seq(Marks)]
         /\ pos'[t] = pos[t] + 1 /\ results'[t] = Append(results[t], r)
         /\ Len(results'[t]) = Len(results[t]) + 1 /\ results'[t][Len(results[t]) + 1] = r
         /\ \A i \in 1..Len(results[t]) : results'[t][i] = results[t][i]
         /\ \A x \in Tasks : x # t => pos'[x] = pos[x] /\ results'[x] = results[x]
  <1>1. results[t] \in Seq(Marks)
    BY Types
  <1>2. /\ Append(results[t], r) \in Seq(Marks)
        /\ Len(Append(results[t], r)) = Len(results[t]) + 1
        /\ Append(results[t], r)[Len(results[t]) + 1] = r
        /\ \A i \in 1..Len(results[t]) : Append(results[t], r)[i] = results[t][i]
    BY <1>1, AppendProperties
  <1> DEFINE new == Append(results[t], r)
  <1>3. results' = [results EXCEPT ![t] = new]
    BY DEF NextStep
  <1>4. results \in [Tasks -> Seq(Marks)]
    BY DEF TypeOK, Marks
  <1>5. pos' = [pos EXCEPT ![t] = pos[t] + 1] /\ tries' = [tries EXCEPT ![t] = 0]
        /\ plan' = plan /\ base' = base /\ outer' = outer
    BY DEF NextStep
  <1> HIDE DEF new
  <1>6. results' \in [Tasks -> Seq(Marks)] /\ results'[t] = new
        /\ \A x \in Tasks : x # t => results'[x] = results[x]
    BY <1>2, <1>3, <1>4 DEF new
  <1>7. /\ pos' \in [Tasks -> Nat \ {0}] /\ tries' \in [Tasks -> Nat] /\ pos'[t] = pos[t] + 1
        /\ \A x \in Tasks : x # t => pos'[x] = pos[x]
    BY <1>5 DEF TypeOK
  <1> QED
    BY <1>2, <1>5, <1>6, <1>7 DEF new

-----------------------------------------------------------------------------
(* Steps that leave the plan, its results and what was performed alone.    *)

Still(t) == UNCHANGED <<plan, base, pos, results, done, performed, framework>>

LEMMA StillKeeps ==
  ASSUME IInv, NEW t \in Tasks, TypeOK', Only(t), Still(t),
         After(t)' => After(t), Behind(t)' => Behind(t),
         pc'[t] \in Pipe => run'[t] # "none",
         pc'[t] \in {"attempt", "failure"} \/ Before(t)' \/ After(t)' => pos[t] <= Len(plan[t]),
         status'[t] = "completed" => pc'[t] \in {"return", "ended"} /\ pos[t] = Len(plan[t]) + 1,
         Gate(t)'
  PROVE  IInv'
  <1>0. TaskInv(t)
    BY DEF IInv
  <1>1. Counts(t)'
    BY <1>0 DEF TaskInv, Counts, Still
  <1>2. Accounts(t)'
    BY <1>0 DEF TaskInv, Accounts, Accounted, Still
  <1>3. Ids(t)'
    BY <1>0 DEF TaskInv, Ids, Still
  <1> QED
    BY <1>1, <1>2, <1>3, OtherTasks DEF TaskInv

\* The four ways to an end that is not a success.
LEMMA EndsKeep ==
  ASSUME IInv, NEW t \in Tasks,
         CreatePlanRaises(t) \/ FailTask(t) \/ Escalate(t) \/ ReplanRaises(t)
  PROVE  IInv'
  <1>0. TypeOK
    BY DEF IInv
  <1>1. PICK v \in {"failed", "needs_human"} : Finish(t, v)
    BY DEF CreatePlanRaises, FailTask, Escalate, ReplanRaises
  <1>2. UNCHANGED <<loop, done, replans, performed, restarts, framework, pipe>>
    BY DEF CreatePlanRaises, FailTask, Escalate, ReplanRaises
  <1>3. /\ pc' \in [Tasks -> Pcs] /\ status' \in [Tasks -> {"running"} \cup Ended]
        /\ pc'[t] = "return" /\ status'[t] = v
        /\ \A x \in Tasks : x # t => pc'[x] = pc[x] /\ status'[x] = status[x]
    BY <1>0, <1>1, FinishFacts DEF Ended
  <1>4. TypeOK'
    BY <1>0, <1>2, <1>3 DEF TypeOK, Pcs, loop, pipe
  <1>5. Only(t) /\ Still(t)
    BY <1>2, <1>3 DEF Only, Still, loop, pipe
  <1>6. ~Before(t)' /\ ~After(t)' /\ ~Behind(t)'
    BY <1>3 DEF Before, After, Behind, Pipe
  <1>7. Gate(t)'
    BY <1>3, <1>6 DEF Gate
  <1> QED
    BY <1>3, <1>4, <1>5, <1>6, <1>7, StillKeeps DEF Pipe

\* Steps that only move the task on.
LEMMA MovesKeep ==
  ASSUME IInv, NEW t \in Tasks, AttemptFails(t) \/ AskReplan(t)
  PROVE  IInv'
  <1>0. TypeOK /\ TaskInv(t)
    BY DEF IInv
  <1>1. /\ pc' \in [Tasks -> Pcs]
        /\ \/ pc[t] = "attempt" /\ pc'[t] \in {"attempt", "failure"}
           \/ pc'[t] = "replan" /\ pc[t] = "failure"
        /\ \A x \in Tasks : x # t => pc'[x] = pc[x]
    <2>1. CASE AttemptFails(t)
      BY <1>0, <2>1, GotoFacts DEF AttemptFails, Pcs, TypeOK
    <2>2. CASE AskReplan(t)
      BY <1>0, <2>2, GotoFacts DEF AskReplan, Pcs
    <2> QED
      BY <2>1, <2>2
  <1>2. UNCHANGED <<plan, base, pos, results, outer, done, status, performed, framework, pipe>>
    BY DEF AttemptFails, AskReplan, loop, book
  <1>3. tries' \in [Tasks -> Nat] /\ replans' \in [Tasks -> 0..MaxReplans]
        /\ restarts' \in [Tasks -> Nat]
    <2>1. CASE AttemptFails(t)
      <3>1. (tries' = [tries EXCEPT ![t] = tries[t] + 1] \/ tries' = tries)
            /\ UNCHANGED <<replans, restarts>>
        BY <2>1 DEF AttemptFails, book
      <3>2. tries \in [Tasks -> Nat] /\ replans \in [Tasks -> 0..MaxReplans]
            /\ restarts \in [Tasks -> Nat]
        BY <1>0 DEF TypeOK
      <3> QED
        BY <3>1, <3>2
    <2>2. CASE AskReplan(t)
      <3>1. replans' = [replans EXCEPT ![t] = replans[t] + 1] /\ replans[t] < MaxReplans
            /\ UNCHANGED <<tries, restarts>>
        BY <2>2 DEF AskReplan, loop
      <3>2. replans[t] + 1 \in 0..MaxReplans
        BY <1>0, <3>1, CoordinatorAssumption DEF TypeOK
      <3> QED
        BY <1>0, <3>1, <3>2 DEF TypeOK
    <2> QED
      BY <2>1, <2>2
  <1>4. TypeOK'
    BY <1>0, <1>1, <1>2, <1>3 DEF TypeOK, Pcs, pipe
  <1>5. Only(t) /\ Still(t)
    BY <1>1, <1>2 DEF Only, Still, pipe
  <1>6. ~Before(t)' /\ ~After(t)' /\ pc'[t] \notin Pipe
    BY <1>1 DEF Before, After, Pipe
  <1>7. Behind(t)' => Behind(t)
    BY <1>1, <1>6 DEF Behind
  <1>8. Step(t)' = Step(t)
    BY <1>2 DEF Step
  <1>9. Gate(t)'
    BY <1>0, <1>1, <1>2, <1>6, <1>8 DEF TaskInv, Gate, Recorded, pipe
  <1>10. pc'[t] \in {"attempt", "failure"} => pos[t] <= Len(plan[t])
    BY <1>0, <1>1 DEF TaskInv, Counts
  <1>11. status'[t] # "completed"
    BY <1>0, <1>1, <1>2 DEF TaskInv, Counts
  <1> QED
    BY <1>4, <1>5, <1>6, <1>7, <1>9, <1>10, <1>11, StillKeeps

\* An open call returns, or the last of them did.
LEMMA ReturnKeeps ==
  ASSUME IInv, NEW t \in Tasks, Return(t)
  PROVE  IInv'
  <1>0. /\ TypeOK /\ TaskInv(t) /\ pc[t] = "return"
        /\ UNCHANGED <<plan, base, pos, tries, results, book, pipe>>
    BY DEF IInv, Return
  <1>1. /\ pc' \in [Tasks -> Pcs] /\ pc'[t] \in {"return", "ended"}
        /\ \A x \in Tasks : x # t => pc'[x] = pc[x]
    <2>1. CASE outer[t] = <<>>
      BY <1>0, <2>1, GotoFacts DEF Return, Pcs
    <2>2. CASE outer[t] # <<>>
      BY <1>0, <2>2 DEF Return, TypeOK, Pcs
    <2> QED
      BY <2>1, <2>2
  <1>2. outer' \in [Tasks -> Seq(Frames)]
    <2>1. outer \in [Tasks -> Seq(Frames)]
      BY <1>0 DEF TypeOK
    <2>2. outer[t] # <<>> => Tail(outer[t]) \in Seq(Frames)
      BY <2>1, HeadTailProperties
    <2> QED
      BY <2>1, <2>2 DEF Return
  <1>3. TypeOK'
    BY <1>0, <1>1, <1>2 DEF TypeOK, Pcs, book, pipe
  <1>4. Only(t) /\ Still(t)
    BY <1>0, <1>1 DEF Only, Still, book, pipe
  <1>5. ~Before(t)' /\ ~After(t)' /\ ~Behind(t)' /\ pc'[t] \notin Pipe \cup {"attempt", "failure"}
    BY <1>1 DEF Before, After, Behind, Pipe
  <1>6. Gate(t)'
    BY <1>5 DEF Gate, Pipe
  <1>7. status'[t] = "completed" => pos[t] = Len(plan[t]) + 1
    BY <1>0 DEF TaskInv, Counts, book
  <1> QED
    BY <1>1, <1>3, <1>4, <1>5, <1>6, <1>7, StillKeeps

\* A task that did not complete is run again.
LEMMA ResumeKeeps ==
  ASSUME IInv, NEW t \in Tasks, Resume(t)
  PROVE  IInv'
  <1>0. /\ TypeOK /\ Goto(t, "new")
        /\ UNCHANGED <<loop, done, performed, framework, pipe>>
    BY DEF IInv, Resume
  <1>1. pc' \in [Tasks -> Pcs] /\ pc'[t] = "new" /\ \A x \in Tasks : x # t => pc'[x] = pc[x]
    BY <1>0, GotoFacts DEF Pcs
  <1>2. /\ status' \in [Tasks -> {"running"} \cup Ended] /\ status'[t] = "running"
        /\ \A x \in Tasks : x # t => status'[x] = status[x]
    BY <1>0 DEF Resume, TypeOK
  <1>3. replans' \in [Tasks -> 0..MaxReplans] /\ restarts' \in [Tasks -> Nat]
    <2>1. replans' = [replans EXCEPT ![t] = 0] /\ restarts' = [restarts EXCEPT ![t] = restarts[t] + 1]
      BY DEF Resume
    <2>2. replans \in [Tasks -> 0..MaxReplans] /\ restarts \in [Tasks -> Nat]
      BY <1>0 DEF TypeOK
    <2>3. MaxReplans \in Nat
      BY CoordinatorAssumption
    <2>4. 0 \in 0..MaxReplans
      BY <2>3
    <2> QED
      BY <2>1, <2>2, <2>4
  <1>4. TypeOK'
    BY <1>0, <1>1, <1>2, <1>3 DEF TypeOK, Pcs, loop, pipe
  <1>5. Only(t) /\ Still(t)
    BY <1>0, <1>1, <1>2 DEF Only, Still, loop, pipe
  <1>6. ~Before(t)' /\ ~After(t)' /\ ~Behind(t)' /\ pc'[t] \notin Pipe \cup {"attempt", "failure"}
    BY <1>1 DEF Before, After, Behind, Pipe
  <1>7. Gate(t)'
    BY <1>6 DEF Gate, Pipe
  <1> QED
    BY <1>2, <1>4, <1>5, <1>6, <1>7, StillKeeps

\* A coordinator begins: its agents are registered, or it plans by itself.
LEMMA StartKeeps ==
  ASSUME IInv, NEW t \in Tasks, Start(t)
  PROVE  IInv'
  <1>0. TypeOK /\ TaskInv(t) /\ pc[t] = "new" /\ UNCHANGED <<loop, book, records>>
    BY DEF IInv, Start
  <1>1. NewContext(NavGoal[t]) \in Context
    BY CoordinatorAssumption DEF NewContext, Context
  <1>2. /\ pc' \in [Tasks -> Pcs] /\ run' \in [Tasks -> Runs] /\ ctx' \in [Tasks -> Context]
        /\ serving' \in Tasks \cup {Nobody}
        /\ \/ pc'[t] = "plan_request" /\ run'[t] = "planning"
           \/ pc'[t] = "create_plan"
        /\ \A x \in Tasks : x # t => pc'[x] = pc[x] /\ run'[x] = run[x] /\ ctx'[x] = ctx[x]
    <2>1. CASE t \in framework
      BY <1>0, <1>1, <2>1, PassFacts DEF Start, Runs
    <2>2. CASE t \notin framework
      <3>1. Goto(t, "create_plan") /\ UNCHANGED <<serving, run, ctx>>
        BY <2>2 DEF Start
      <3> QED
        BY <1>0, <3>1, GotoFacts DEF TypeOK, Pcs, Runs, Context
    <2> QED
      BY <2>1, <2>2
  <1>3. TypeOK'
    BY <1>0, <1>2 DEF TypeOK, Pcs, Runs, Context, loop, book
  <1>4. Only(t) /\ Still(t)
    BY <1>0, <1>2 DEF Only, Still, loop, book
  <1>5. ~Before(t)' /\ ~After(t)' /\ ~Behind(t)' /\ pc'[t] \notin {"attempt", "failure", "returned"}
    BY <1>2 DEF Before, After, Behind, Pipe
  <1>6. Gate(t)'
    BY <1>5 DEF Gate
  <1>7. status'[t] # "completed"
    BY <1>0 DEF TaskInv, Counts, book
  <1>8. pc'[t] \in Pipe => run'[t] # "none"
    BY <1>2 DEF Pipe
  <1> QED
    BY <1>3, <1>4, <1>5, <1>6, <1>7, <1>8, StillKeeps

-----------------------------------------------------------------------------
(* Steps that take up a plan or move on to the next step of one.           *)

LEMMA StepType ==
  ASSUME TypeOK, NEW t \in Tasks, pos[t] <= Len(plan[t])
  PROVE  Step(t) \in Steps /\ Step(t) = plan[t][pos[t]] /\ Step(t).goal \in Goals
         /\ IdOf(t) = base[t] + pos[t] /\ IdOf(t) \in Nat
  <1>1. pos[t] \in 1..Len(plan[t])
    BY Types
  <1>2. Step(t) = plan[t][pos[t]] /\ Step(t) \in Steps
    BY <1>1, Types DEF Step
  <1>3. IdOf(t) = base[t] + pos[t] /\ IdOf(t) \in Nat
    BY Types DEF IdOf
  <1> QED
    BY <1>2, <1>3 DEF Steps

\* Every plan that may be answered is a sequence of steps.
LEMMA PlanTypes ==
  ASSUME NEW t \in Tasks
  PROVE  /\ \A planner : PlansFor(t, planner) \subseteq Seq(Steps)
         /\ ReplansFor(t) \subseteq Seq(Steps)
  <1>1. NavGoal[t] \in Goals /\ LLMPlans \subseteq Seq(Steps)
    BY CoordinatorAssumption
  <1>2. [goal |-> NavGoal[t], strategy |-> "abort", retries |-> 3] \in Steps
        /\ [goal |-> NavGoal[t], strategy |-> "abort", retries |-> 2] \in Steps
    BY <1>1 DEF Steps, Strategies
  <1>3. FallbackPlan(t) \in Seq(Steps) /\ FallbackReplan(t) \in Seq(Steps)
    BY <1>2 DEF FallbackPlan, FallbackReplan
  <1> QED
    BY <1>1, <1>3 DEF PlansFor, ReplansFor

LEMMA AdoptKeeps ==
  ASSUME IInv, NEW t \in Tasks, NEW p \in Seq(Steps), Adopt(t, p),
         TypeOK', Only(t), UNCHANGED <<done, performed, status, run>>,
         pc[t] \notin {"return", "ended"}, pc'[t] = "step" \/ (pc'[t] = "risk_check" /\ run[t] = "planning")
  PROVE  IInv'
  <1>0. TypeOK /\ TaskInv(t)
    BY DEF IInv
  <1>1. plan'[t] = p /\ base'[t] = base[t] + Len(plan[t]) /\ pos'[t] = 1 /\ results'[t] = <<>>
    BY <1>0, AdoptFacts
  <1>2. Len(p) \in Nat /\ Len(results'[t]) = 0
    BY <1>1, LenProperties, EmptySeq
  <1>3. ~Before(t)' /\ ~After(t)'
    BY DEF Before, After, Pipe
  <1>4. Counts(t)'
    <2>1. Len(plan'[t]) \in Nat /\ Len(results'[t]) = pos'[t] - 1 /\ pos'[t] <= Len(plan'[t]) + 1
      BY <1>1, <1>2
    <2>2. pc'[t] \notin {"attempt", "failure", "return", "ended"} /\ status'[t] # "completed"
      BY <1>0 DEF TaskInv, Counts
    <2>3. pc'[t] \in Pipe => run'[t] # "none"
      BY DEF Pipe
    <2> QED
      BY <1>3, <2>1, <2>2, <2>3 DEF Counts
  <1>5. Accounts(t)'
    BY <1>2, <1>3 DEF Accounts
  <1>6. Ids(t)'
    <2>1. \A k \in 1..Len(performed[t]) : performed[t][k].id <= base'[t]
      BY <1>0, <1>1 DEF TaskInv, Ids
    <2>2. \A k \in 1..Len(performed[t]) :
            performed[t][k].id \in Nat /\ base'[t] \in Nat
      BY <1>0, <1>1, Types
    <2>3. \A k \in 1..Len(performed[t]) :
            performed[t][k].id <= base'[t] + Len(p) /\ performed[t][k].id < base'[t] + 1
      BY <1>2, <2>1, <2>2
    <2> QED
      BY <1>0, <1>1, <1>3, <2>3 DEF TaskInv, Ids
  <1>7. Gate(t)'
    BY <1>3 DEF Gate
  <1> QED
    BY <1>4, <1>5, <1>6, <1>7, OtherTasks DEF TaskInv

\* What a successful attempt adds to the record of what was performed.
LEMMA PerformFacts ==
  ASSUME IInv, NEW t \in Tasks, AttemptSucceeds(t)
  PROVE  /\ pos[t] <= Len(plan[t])
         /\ performed' \in [Tasks -> Seq(Act)]
         /\ \A x \in Tasks : x # t => performed'[x] = performed[x]
         /\ Len(performed'[t]) = Len(performed[t]) + 1
         /\ performed'[t][Len(performed[t]) + 1] = [id |-> base[t] + pos[t], goal |-> plan[t][pos[t]].goal]
         /\ \A k \in 1..Len(performed[t]) : performed'[t][k] = performed[t][k]
         /\ \A i, j \in 1..Len(performed'[t]) : i < j => performed'[t][i].id < performed'[t][j].id
         /\ \A k \in 1..Len(performed'[t]) : performed'[t][k].id <= base[t] + pos[t]
  <1>0. TypeOK /\ TaskInv(t) /\ pc[t] = "attempt"
    BY DEF IInv, AttemptSucceeds
  <1>1. pos[t] <= Len(plan[t])
    BY <1>0 DEF TaskInv, Counts
  <1> DEFINE new == [id |-> base[t] + pos[t], goal |-> plan[t][pos[t]].goal]
  <1>2. IdOf(t) = base[t] + pos[t] /\ Step(t).goal = plan[t][pos[t]].goal
        /\ IdOf(t) \in Nat /\ Step(t).goal \in Goals
    BY <1>0, <1>1, StepType
  <1>3. new \in Act /\ new.id = base[t] + pos[t] /\ new.id \in Nat
    BY <1>2 DEF Act
  <1>4. performed' = [performed EXCEPT ![t] = Append(performed[t], new)]
    BY <1>2 DEF AttemptSucceeds
  <1> HIDE DEF new
  <1>5. performed[t] \in Seq(Act) /\ Len(performed[t]) \in Nat
    BY <1>0, Types
  <1> DEFINE app == Append(performed[t], new)
             n == Len(performed[t])
  <1>6. /\ app \in Seq(Act) /\ Len(app) = n + 1 /\ app[n + 1] = new
        /\ \A k \in 1..n : app[k] = performed[t][k]
    BY <1>3, <1>5, AppendProperties
  <1>7. performed \in [Tasks -> Seq(Act)]
    BY <1>0 DEF TypeOK, Act
  <1>8. \A k \in 1..n : performed[t][k].id < new.id /\ performed[t][k].id \in Nat
    BY <1>0, <1>3, Types DEF TaskInv, Ids, Behind
  <1>9. \A i, j \in 1..n : i < j => performed[t][i].id < performed[t][j].id
    BY <1>0 DEF TaskInv, Ids
  <1>10. performed' = [performed EXCEPT ![t] = app]
    BY <1>4
  <1>14. n \in Nat
    BY <1>5
  <1> HIDE DEF app, n
  <1>11. performed' \in [Tasks -> Seq(Act)] /\ performed'[t] = app
         /\ \A x \in Tasks : x # t => performed'[x] = performed[x]
    BY <1>6, <1>7, <1>10
  <1>12. \A i, j \in 1..Len(app) : i < j => app[i].id < app[j].id
    <2> SUFFICES ASSUME NEW i \in 1..Len(app), NEW j \in 1..Len(app), i < j
                 PROVE  app[i].id < app[j].id
      OBVIOUS
    <2>1. i \in 1..n /\ (j \in 1..n \/ j = n + 1)
      BY <1>6, <1>14
    <2> QED
      BY <2>1, <1>6, <1>8, <1>9
  <1>13. \A k \in 1..Len(app) : app[k].id <= base[t] + pos[t]
    <2> SUFFICES ASSUME NEW k \in 1..Len(app) PROVE app[k].id <= base[t] + pos[t]
      OBVIOUS
    <2>1. k \in 1..n \/ k = n + 1
      BY <1>6, <1>14
    <2>2. (app[k].id < new.id /\ app[k].id \in Nat) \/ app[k] = new
      BY <2>1, <1>6, <1>8
    <2> QED
      BY <2>2, <1>3
  <1> QED
    BY <1>1, <1>6, <1>11, <1>12, <1>13 DEF new, n

\* The current step is over, with a result that accounts for it.
LEMMA AdvanceKeeps ==
  ASSUME IInv, NEW t \in Tasks, NEW r \in Marks, NextStep(t, r),
         TypeOK', Only(t), pc'[t] = "step", status'[t] # "completed",
         pos[t] <= Len(plan[t]), done[t] \subseteq done'[t],
         Len(performed'[t]) \in Nat, Len(performed[t]) <= Len(performed'[t]),
         \A k \in 1..Len(performed[t]) : performed'[t][k] = performed[t][k],
         \A i, j \in 1..Len(performed'[t]) : i < j => performed'[t][i].id < performed'[t][j].id,
         \A k \in 1..Len(performed'[t]) : performed'[t][k].id <= base[t] + pos[t],
         \/ r = "skipped" /\ plan[t][pos[t]].strategy = "skip"
         \/ r = "ok" /\ \E k \in 1..Len(performed'[t]) :
              performed'[t][k] = [id |-> base[t] + pos[t], goal |-> plan[t][pos[t]].goal]
         \/ r = "done" /\ base[t] + pos[t] \in done'[t]
  PROVE  IInv'
  <1>0. TypeOK /\ TaskInv(t)
    BY DEF IInv
  <1> DEFINE n == Len(results[t])
  <1>1. /\ plan' = plan /\ base' = base /\ pos'[t] = pos[t] + 1
        /\ Len(results'[t]) = n + 1 /\ results'[t][n + 1] = r
        /\ \A i \in 1..n : results'[t][i] = results[t][i]
    BY <1>0, NextStepFacts
  <1>2. n \in Nat /\ n = pos[t] - 1 /\ pos[t] \in Nat /\ base[t] \in Nat /\ Len(plan[t]) \in Nat
        /\ Len(performed[t]) \in Nat
    BY <1>0, Types DEF TaskInv, Counts
  <1>3. \A i \in 1..n : Accounted(t, i)
    BY <1>0 DEF TaskInv, Accounts
  <1> HIDE DEF n
  <1>4. ~Before(t)' /\ ~After(t)'
    BY DEF Before, After, Pipe
  <1>5. Counts(t)'
    <2> DEFINE last == Len(plan[t])
               here == pos[t]
    <2>1. last \in Nat /\ here \in Nat /\ n \in Nat /\ n = here - 1 /\ here <= last
      BY <1>2
    <2>2. Len(plan'[t]) = last /\ pos'[t] = here + 1 /\ Len(results'[t]) = n + 1
      BY <1>1
    <2> HIDE DEF last, here
    <2>3. Len(results'[t]) = pos'[t] - 1 /\ pos'[t] <= Len(plan'[t]) + 1
      BY <2>1, <2>2
    <2> QED
      BY <2>3, <1>4 DEF Counts, Pipe
  <1>6. \A i \in 1..n + 1 : Accounted(t, i)'
    <2>1. ASSUME NEW i \in 1..n PROVE Accounted(t, i)'
      <3>1. Accounted(t, i) /\ results'[t][i] = results[t][i]
        BY <1>1, <1>3
      <3>2. \A k \in 1..Len(performed[t]) :
              k \in 1..Len(performed'[t]) /\ performed'[t][k] = performed[t][k]
        BY <1>2
      <3>3. CASE results[t][i] = "skipped"
        BY <1>1, <3>1, <3>3 DEF Accounted
      <3>4. CASE results[t][i] = "ok"
        BY <1>1, <3>1, <3>2, <3>4 DEF Accounted
      <3>5. CASE results[t][i] \notin {"skipped", "ok"}
        BY <1>1, <3>1, <3>5 DEF Accounted
      <3> QED
        BY <3>3, <3>4, <3>5
    <2>2. ASSUME NEW i \in 1..n + 1, i = pos[t] PROVE Accounted(t, i)'
      <3>1. results'[t][i] = r
        BY <1>1, <1>2, <2>2
      <3>2. CASE r = "skipped"
        BY <1>1, <2>2, <3>1, <3>2 DEF Accounted
      <3>3. CASE r = "ok"
        BY <1>1, <2>2, <3>1, <3>3 DEF Accounted
      <3>4. CASE r = "done"
        BY <1>1, <2>2, <3>1, <3>4 DEF Accounted
      <3> QED
        BY <3>2, <3>3, <3>4
    <2>3. \A i \in 1..n + 1 : i \in 1..n \/ i = pos[t]
      BY <1>2
    <2> QED
      BY <2>1, <2>2, <2>3
  <1>7. Accounts(t)'
    BY <1>1, <1>4, <1>6 DEF Accounts
  <1>8. Ids(t)'
    <2>1. \A k \in 1..Len(performed'[t]) : performed'[t][k].id \in Nat
      <3>1. performed'[t] \in Seq(Act)
        BY DEF TypeOK, Act
      <3>2. \A k \in 1..Len(performed'[t]) : performed'[t][k] \in Act
        BY <3>1, ElementOfSeq
      <3> QED
        BY <3>2 DEF Act
    <2>2. \A k \in 1..Len(performed'[t]) :
            /\ performed'[t][k].id <= base[t] + Len(plan[t])
            /\ performed'[t][k].id < base[t] + (pos[t] + 1)
      <3> SUFFICES ASSUME NEW k \in 1..Len(performed'[t])
                   PROVE  /\ performed'[t][k].id <= base[t] + Len(plan[t])
                          /\ performed'[t][k].id < base[t] + (pos[t] + 1)
        OBVIOUS
      <3> DEFINE d == performed'[t][k].id
                 last == Len(plan[t])
      <3>1. d \in Nat /\ d <= base[t] + pos[t] /\ pos[t] <= last /\ last \in Nat
        BY <1>2, <2>1
      <3> HIDE DEF d, last
      <3>2. d <= base[t] + last /\ d < base[t] + (pos[t] + 1)
        BY <1>2, <3>1
      <3> QED
        BY <3>2 DEF d, last
    <2> QED
      BY <1>1, <1>4, <2>2 DEF Ids
  <1>9. Gate(t)'
    BY <1>4 DEF Gate
  <1> QED
    BY <1>5, <1>7, <1>8, <1>9, OtherTasks DEF TaskInv

-----------------------------------------------------------------------------
(* The actions that change the plan, the position or what was performed.   *)

LEMMA PlansKeep ==
  ASSUME IInv, NEW t \in Tasks,
         CreatePlan(t) \/ Replan(t) \/ (PlanStage(t) /\ run[t] = "planning")
  PROVE  IInv'
  <1>0. TypeOK
    BY DEF IInv
  <1>1. PICK p \in Seq(Steps) : Adopt(t, p)
    BY PlanTypes DEF CreatePlan, Replan, PlanStage
  <1>2. UNCHANGED <<done, replans, status, performed, restarts, framework, run, ctx, serving, records>>
    BY DEF CreatePlan, Replan, PlanStage, book, pipe
  <1>3. /\ pc' \in [Tasks -> Pcs] /\ \A x \in Tasks : x # t => pc'[x] = pc[x]
        /\ pc[t] \notin {"return", "ended"}
        /\ pc'[t] = "step" \/ (pc'[t] = "risk_check" /\ run[t] = "planning")
    <2>1. CASE CreatePlan(t) \/ Replan(t)
      BY <1>0, <2>1, GotoFacts DEF CreatePlan, Replan, Pcs
    <2>2. CASE PlanStage(t) /\ run[t] = "planning"
      BY <1>0, <2>2, GotoFacts DEF PlanStage, Pcs
    <2> QED
      BY <2>1, <2>2
  <1>4. /\ plan' \in [Tasks -> Seq(Steps)] /\ base' \in [Tasks -> Nat]
        /\ pos' \in [Tasks -> Nat \ {0}] /\ tries' \in [Tasks -> Nat]
        /\ results' \in [Tasks -> Seq(Marks)]
        /\ \A x \in Tasks : x # t => /\ plan'[x] = plan[x] /\ base'[x] = base[x]
                                    /\ pos'[x] = pos[x] /\ results'[x] = results[x]
    BY <1>0, <1>1, AdoptFacts
  <1>7. outer' \in [Tasks -> Seq(Frames)]
    <2>1. outer \in [Tasks -> Seq(Frames)]
      BY <1>0 DEF TypeOK
    <2>2. CASE CreatePlan(t) \/ PlanStage(t)
      BY <2>1, <2>2 DEF CreatePlan, PlanStage
    <2>3. CASE Replan(t)
      <3> DEFINE frame == [plan |-> plan[t], base |-> base[t], pos |-> pos[t]]
                 stack == <<frame>> \o outer[t]
      <3>1. frame \in Frames
        BY <1>0 DEF TypeOK, Frames
      <3>2. outer' = [outer EXCEPT ![t] = stack]
        BY <2>3 DEF Replan
      <3> HIDE DEF frame
      <3>3. stack \in Seq(Frames)
        BY <2>1, <3>1, ConcatProperties
      <3> QED
        BY <2>1, <3>2, <3>3
    <2> QED
      BY <2>2, <2>3
  <1>5. TypeOK'
    BY <1>0, <1>2, <1>3, <1>4, <1>7 DEF TypeOK, Pcs, Marks
  <1>6. Only(t)
    BY <1>2, <1>3, <1>4 DEF Only
  <1> QED
    BY <1>1, <1>2, <1>3, <1>5, <1>6, AdoptKeeps

\* Moving on without a new attempt: the task is skipped or already done.
LEMMA PassesOverKeeps ==
  ASSUME IInv, NEW t \in Tasks, NEW r \in {"skipped", "done"}, NextStep(t, r),
         UNCHANGED <<done, replans, status, performed, restarts, framework, pipe>>,
         pc[t] \in {"step", "failure"}, pos[t] <= Len(plan[t]),
         pc' \in [Tasks -> Pcs], pc'[t] = "step", \A x \in Tasks : x # t => pc'[x] = pc[x],
         \/ r = "skipped" /\ plan[t][pos[t]].strategy = "skip"
         \/ r = "done" /\ base[t] + pos[t] \in done[t]
  PROVE  IInv'
  <1>0. TypeOK /\ TaskInv(t) /\ r \in Marks
    BY DEF IInv, Marks
  <1>1. /\ plan' = plan /\ base' = base /\ outer' = outer
        /\ pos' \in [Tasks -> Nat \ {0}] /\ tries' \in [Tasks -> Nat]
        /\ results' \in [Tasks -> Seq(Marks)]
        /\ \A x \in Tasks : x # t => pos'[x] = pos[x] /\ results'[x] = results[x]
    BY <1>0, NextStepFacts
  <1>2. TypeOK'
    BY <1>0, <1>1 DEF TypeOK, Pcs, Marks, pipe
  <1>3. Only(t)
    BY <1>1 DEF Only, pipe
  <1>4. status'[t] # "completed"
    BY <1>0 DEF TaskInv, Counts
  <1>5. Len(performed[t]) \in Nat
    BY <1>0, Types
  <1>6. \A k \in 1..Len(performed[t]) : performed[t][k].id <= base[t] + pos[t]
    <2>1. \A k \in 1..Len(performed[t]) : performed[t][k].id < base[t] + pos[t]
      BY <1>0 DEF TaskInv, Ids, Behind
    <2>2. \A k \in 1..Len(performed[t]) : performed[t][k].id \in Nat
      BY <1>0, Types
    <2>3. base[t] + pos[t] \in Nat
      BY <1>0, Types
    <2> QED
      BY <2>1, <2>2, <2>3
  <1>7. \A i, j \in 1..Len(performed[t]) : i < j => performed[t][i].id < performed[t][j].id
    BY <1>0 DEF TaskInv, Ids
  <1>8. performed' = performed /\ done' = done /\ Len(performed[t]) <= Len(performed[t])
    BY <1>5
  <1> QED
    BY <1>0, <1>2, <1>3, <1>4, <1>5, <1>6, <1>7, <1>8, AdvanceKeeps

LEMMA SkipKeeps ==
  ASSUME IInv, NEW t \in Tasks, SkipFailure(t)
  PROVE  IInv'
  <1>0. TypeOK /\ TaskInv(t) /\ pc[t] = "failure" /\ UNCHANGED <<book, pipe>>
    BY DEF IInv, SkipFailure
  <1>1. pos[t] <= Len(plan[t]) /\ plan[t][pos[t]].strategy = "skip"
    BY <1>0 DEF TaskInv, Counts, SkipFailure, Step
  <1>2. pc' \in [Tasks -> Pcs] /\ pc'[t] = "step" /\ \A x \in Tasks : x # t => pc'[x] = pc[x]
    BY <1>0, GotoFacts DEF SkipFailure, Pcs
  <1> QED
    BY <1>0, <1>1, <1>2, PassesOverKeeps DEF SkipFailure, book

LEMMA TakeKeeps ==
  ASSUME IInv, NEW t \in Tasks, TakeStep(t)
  PROVE  IInv'
  <1>0. /\ TypeOK /\ TaskInv(t) /\ pc[t] = "step"
        /\ UNCHANGED <<done, replans, performed, restarts, framework, serving, records>>
    BY DEF IInv, TakeStep
  <1>1. /\ Len(plan[t]) \in Nat /\ pos[t] \in Nat /\ pos[t] <= Len(plan[t]) + 1
        /\ status[t] # "completed" /\ Behind(t)
    BY <1>0, Types DEF TaskInv, Counts, Behind
  <1>2. CASE pos[t] > Len(plan[t])
    <2>1. Finish(t, "completed") /\ UNCHANGED <<loop, run, ctx>>
      BY <1>2 DEF TakeStep
    <2>2. /\ pc' \in [Tasks -> Pcs] /\ status' \in [Tasks -> {"running"} \cup Ended]
          /\ pc'[t] = "return" /\ status'[t] = "completed"
          /\ \A x \in Tasks : x # t => pc'[x] = pc[x] /\ status'[x] = status[x]
      BY <1>0, <2>1, FinishFacts DEF Ended
    <2>3. TypeOK'
      BY <1>0, <2>1, <2>2 DEF TypeOK, Pcs, loop
    <2>4. Only(t) /\ Still(t)
      BY <1>0, <2>1, <2>2 DEF Only, Still, loop
    <2>5. ~Before(t)' /\ ~After(t)' /\ ~Behind(t)' /\ Gate(t)'
      BY <2>2 DEF Before, After, Behind, Pipe, Gate
    <2>6. pos[t] = Len(plan[t]) + 1
      BY <1>1, <1>2
    <2> QED
      BY <2>2, <2>3, <2>4, <2>5, <2>6, StillKeeps DEF Pipe
  <1>3. CASE pos[t] <= Len(plan[t]) /\ t \in framework
    <2>1. Pass(t, "gating", NewContext(Step(t).goal)) /\ UNCHANGED <<loop, status>>
      BY <1>1, <1>3 DEF TakeStep
    <2>2. NewContext(Step(t).goal) \in Context /\ NewContext(Step(t).goal).text = Step(t).goal
      BY <1>0, <1>3, StepType DEF NewContext, Context
    <2>3. /\ pc' \in [Tasks -> Pcs] /\ run' \in [Tasks -> Runs] /\ ctx' \in [Tasks -> Context]
          /\ pc'[t] = "plan_request" /\ run'[t] = "gating" /\ ctx'[t].text = Step(t).goal
          /\ \A x \in Tasks : x # t => pc'[x] = pc[x] /\ run'[x] = run[x] /\ ctx'[x] = ctx[x]
      BY <1>0, <2>1, <2>2, PassFacts DEF Runs
    <2>4. TypeOK'
      BY <1>0, <2>1, <2>3 DEF TypeOK, Pcs, Runs, Context, loop
    <2>5. Only(t) /\ Still(t) /\ status' = status
      BY <1>0, <2>1, <2>3 DEF Only, Still, loop
    <2>6. ~After(t)' /\ Step(t)' = Step(t)
      BY <2>3, <2>5 DEF After, Still, Step
    <2>7. Gate(t)'
      BY <2>3, <2>6 DEF Gate
    <2> QED
      BY <1>1, <1>3, <2>3, <2>4, <2>5, <2>6, <2>7, StillKeeps
  <1>4. CASE pos[t] <= Len(plan[t]) /\ t \notin framework /\ IdOf(t) \in done[t]
    <2>1. NextStep(t, "done") /\ UNCHANGED <<pc, status, run, ctx>>
      BY <1>1, <1>4 DEF TakeStep
    <2>2. base[t] + pos[t] \in done[t] /\ pc \in [Tasks -> Pcs]
      BY <1>0, <1>4 DEF IdOf, TypeOK, Pcs
    <2> QED
      BY <1>0, <1>4, <2>1, <2>2, PassesOverKeeps DEF pipe
  <1>5. CASE pos[t] <= Len(plan[t]) /\ t \notin framework /\ IdOf(t) \notin done[t]
    <2>1. Goto(t, "attempt") /\ UNCHANGED <<loop, status, run, ctx>>
      BY <1>1, <1>5 DEF TakeStep
    <2>2. pc' \in [Tasks -> Pcs] /\ pc'[t] = "attempt" /\ \A x \in Tasks : x # t => pc'[x] = pc[x]
      BY <1>0, <2>1, GotoFacts DEF Pcs
    <2>3. TypeOK'
      BY <1>0, <2>1, <2>2 DEF TypeOK, Pcs, loop
    <2>4. Only(t) /\ Still(t)
      BY <1>0, <2>1, <2>2 DEF Only, Still, loop
    <2>5. ~After(t)' /\ pc'[t] \notin Pipe
      BY <2>2 DEF After, Pipe
    <2>6. Gate(t)'
      BY <1>0, <1>5 DEF Gate
    <2> QED
      BY <1>1, <1>5, <2>1, <2>2, <2>3, <2>4, <2>5, <2>6, StillKeeps
  <1> QED
    BY <1>1, <1>2, <1>3, <1>4, <1>5

LEMMA AttemptKeeps ==
  ASSUME IInv, NEW t \in Tasks, AttemptSucceeds(t)
  PROVE  IInv'
  <1>0. /\ TypeOK /\ TaskInv(t) /\ pc[t] = "attempt"
        /\ UNCHANGED <<replans, status, restarts, framework, serving, records>>
    BY DEF IInv, AttemptSucceeds
  <1>1. /\ pos[t] <= Len(plan[t])
        /\ performed' \in [Tasks -> Seq(Act)]
        /\ \A x \in Tasks : x # t => performed'[x] = performed[x]
        /\ Len(performed'[t]) = Len(performed[t]) + 1
        /\ performed'[t][Len(performed[t]) + 1] = [id |-> base[t] + pos[t], goal |-> plan[t][pos[t]].goal]
        /\ \A k \in 1..Len(performed[t]) : performed'[t][k] = performed[t][k]
        /\ \A i, j \in 1..Len(performed'[t]) : i < j => performed'[t][i].id < performed'[t][j].id
        /\ \A k \in 1..Len(performed'[t]) : performed'[t][k].id <= base[t] + pos[t]
    BY PerformFacts
  <1>2. Len(performed[t]) \in Nat /\ Len(plan[t]) \in Nat /\ base[t] \in Nat /\ pos[t] \in Nat
    BY <1>0, Types
  <1>3. Len(performed'[t]) \in Nat /\ Len(performed[t]) <= Len(performed'[t])
        /\ Len(performed[t]) + 1 \in 1..Len(performed'[t])
    BY <1>1, <1>2
  <1>4. \E k \in 1..Len(performed'[t]) :
          performed'[t][k] = [id |-> base[t] + pos[t], goal |-> plan[t][pos[t]].goal]
    BY <1>1, <1>3
  <1>5. CASE t \in framework
    <2>1. Pass(t, "review", NewContext(Blank)) /\ UNCHANGED <<loop, done>>
      BY <1>5 DEF AttemptSucceeds
    <2>2. NewContext(Blank) \in Context
      BY DEF NewContext, Context
    <2>3. /\ pc' \in [Tasks -> Pcs] /\ run' \in [Tasks -> Runs] /\ ctx' \in [Tasks -> Context]
          /\ pc'[t] = "plan_request" /\ run'[t] = "review"
          /\ \A x \in Tasks : x # t => pc'[x] = pc[x] /\ run'[x] = run[x] /\ ctx'[x] = ctx[x]
      BY <1>0, <2>1, <2>2, PassFacts DEF Runs
    <2>4. TypeOK'
      BY <1>0, <1>1, <2>1, <2>3 DEF TypeOK, Pcs, Runs, Context, loop, Act
    <2>5. Only(t)
      BY <1>0, <1>1, <2>1, <2>3 DEF Only, loop
    <2>6. ~Before(t)' /\ ~Behind(t)' /\ pc'[t] \notin {"attempt", "failure", "returned"}
          /\ run'[t] # "none"
      BY <2>3 DEF Before, Behind
    <2>7. UNCHANGED <<plan, base, pos, results, done>>
      BY <2>1 DEF loop
    <2>8. Counts(t)'
      BY <1>0, <1>1, <2>6, <2>7 DEF TaskInv, Counts
    <2>9. Accounts(t)'
      <3>1. ASSUME NEW i \in 1..Len(results[t]) PROVE Accounted(t, i)'
        <4>1. Accounted(t, i)
          BY <1>0 DEF TaskInv, Accounts
        <4>2. \A k \in 1..Len(performed[t]) :
                k \in 1..Len(performed'[t]) /\ performed'[t][k] = performed[t][k]
          BY <1>1, <1>2, <1>3
        <4> QED
          BY <2>7, <4>1, <4>2 DEF Accounted
      <3> QED
        BY <1>4, <2>7, <3>1 DEF Accounts
    <2>10. Ids(t)'
      <3>1. \A k \in 1..Len(performed'[t]) : performed'[t][k] \in Act
        BY <1>1, ElementOfSeq
      <3>2. \A k \in 1..Len(performed'[t]) : performed'[t][k].id <= base[t] + Len(plan[t])
        <4> SUFFICES ASSUME NEW k \in 1..Len(performed'[t])
                     PROVE  performed'[t][k].id <= base[t] + Len(plan[t])
          OBVIOUS
        <4> DEFINE d == performed'[t][k].id
                   last == Len(plan[t])
        <4>1. d \in Nat /\ d <= base[t] + pos[t] /\ pos[t] <= last /\ last \in Nat
          BY <1>1, <1>2, <3>1 DEF Act
        <4> HIDE DEF d, last
        <4>2. d <= base[t] + last
          BY <1>2, <4>1
        <4> QED
          BY <4>2 DEF d, last
      <3> QED
        BY <1>1, <2>6, <2>7, <3>2 DEF Ids
    <2>11. Gate(t)'
      BY <2>6 DEF Gate
    <2> QED
      BY <2>4, <2>5, <2>8, <2>9, <2>10, <2>11, OtherTasks DEF TaskInv
  <1>6. CASE t \notin framework
    <2>1. /\ done' = [done EXCEPT ![t] = done[t] \cup {IdOf(t)}]
          /\ NextStep(t, "ok") /\ Goto(t, "step") /\ UNCHANGED <<run, ctx>>
      BY <1>6 DEF AttemptSucceeds
    <2>2. pc' \in [Tasks -> Pcs] /\ pc'[t] = "step" /\ \A x \in Tasks : x # t => pc'[x] = pc[x]
      BY <1>0, <2>1, GotoFacts DEF Pcs
    <2>3. /\ plan' = plan /\ base' = base /\ outer' = outer
          /\ pos' \in [Tasks -> Nat \ {0}] /\ tries' \in [Tasks -> Nat]
          /\ results' \in [Tasks -> Seq(Marks)]
          /\ \A x \in Tasks : x # t => pos'[x] = pos[x] /\ results'[x] = results[x]
      BY <1>0, <2>1, NextStepFacts DEF Marks
    <2>4. /\ done' \in [Tasks -> SUBSET Nat] /\ done[t] \subseteq done'[t]
          /\ \A x \in Tasks : x # t => done'[x] = done[x]
      <3>1. done \in [Tasks -> SUBSET Nat]
        BY <1>0 DEF TypeOK
      <3>2. IdOf(t) \in Nat
        BY <1>0, <1>1, StepType
      <3>3. done[t] \cup {IdOf(t)} \in SUBSET Nat
        BY <3>1, <3>2
      <3> QED
        BY <2>1, <3>1, <3>3
    <2>5. TypeOK'
      BY <1>0, <1>1, <2>1, <2>2, <2>3, <2>4 DEF TypeOK, Pcs, Marks, Act
    <2>6. Only(t)
      BY <1>0, <1>1, <2>1, <2>2, <2>3, <2>4 DEF Only
    <2>7. status'[t] # "completed"
      BY <1>0 DEF TaskInv, Counts
    <2>8. "ok" \in Marks
      BY DEF Marks
    <2> QED
      BY <1>1, <1>3, <1>4, <2>1, <2>2, <2>4, <2>5, <2>6, <2>7, <2>8, AdvanceKeeps
  <1> QED
    BY <1>5, <1>6

-----------------------------------------------------------------------------
(* The stages of the pipeline.                                             *)

LEMMA StagesKeep ==
  ASSUME IInv, NEW t \in Tasks,
         \/ PlanStage(t) /\ run[t] # "planning"
         \/ PlanStageFails(t) \/ RiskStage(t) \/ ApprovalStage(t)
  PROVE  IInv'
  <1>0. TypeOK /\ TaskInv(t)
    BY DEF IInv
  <1>1. CASE PlanStage(t) /\ run[t] # "planning"
    <2>1. pc[t] = "plan_request" /\ Goto(t, "risk_check") /\ UNCHANGED <<loop, book, pipe>>
      BY <1>1 DEF PlanStage, loop
    <2>2. pc' \in [Tasks -> Pcs] /\ pc'[t] = "risk_check" /\ \A x \in Tasks : x # t => pc'[x] = pc[x]
      BY <1>0, <2>1, GotoFacts DEF Pcs
    <2>3. TypeOK'
      BY <1>0, <2>1, <2>2 DEF TypeOK, Pcs, loop, book, pipe
    <2>4. Only(t) /\ Still(t)
      BY <2>1, <2>2 DEF Only, Still, loop, book, pipe
    <2>5. Before(t)' = Before(t) /\ After(t)' = After(t) /\ Step(t)' = Step(t)
          /\ (Behind(t)' => Behind(t))
      BY <1>1, <2>1, <2>2 DEF Before, After, Behind, Pipe, Step, loop, pipe
    <2>6. Gate(t)'
      BY <1>0, <2>1, <2>2, <2>5 DEF TaskInv, Gate, Recorded, pipe, book
    <2>7. /\ pc'[t] \in Pipe => run'[t] # "none"
          /\ pc'[t] \in {"attempt", "failure"} \/ Before(t)' \/ After(t)' => pos[t] <= Len(plan[t])
          /\ status'[t] # "completed"
      BY <1>0, <2>1, <2>2, <2>5 DEF TaskInv, Counts, Pipe, pipe, book
    <2> QED
      BY <2>3, <2>4, <2>5, <2>6, <2>7, StillKeeps
  <1>2. CASE PlanStageFails(t) /\ run[t] \in {"review", "experience"}
    <2>1. pc[t] = "plan_request" /\ Goto(t, "returned") /\ UNCHANGED <<loop, book, pipe>>
      BY <1>2 DEF PlanStageFails, book
    <2>2. pc' \in [Tasks -> Pcs] /\ pc'[t] = "returned" /\ \A x \in Tasks : x # t => pc'[x] = pc[x]
      BY <1>0, <2>1, GotoFacts DEF Pcs
    <2>3. TypeOK'
      BY <1>0, <2>1, <2>2 DEF TypeOK, Pcs, loop, book, pipe
    <2>4. Only(t) /\ Still(t)
      BY <2>1, <2>2 DEF Only, Still, loop, book, pipe
    <2>5. ~Before(t)' /\ After(t)' = After(t) /\ ~Behind(t)' /\ run'[t] = run[t]
      BY <1>2, <2>1, <2>2 DEF Before, After, Behind, Pipe, pipe
    <2>6. Gate(t)'
      BY <1>2, <2>2, <2>5 DEF Gate
    <2>7. /\ pc'[t] \in Pipe => run'[t] # "none"
          /\ pc'[t] \in {"attempt", "failure"} \/ Before(t)' \/ After(t)' => pos[t] <= Len(plan[t])
          /\ status'[t] # "completed"
      BY <1>0, <1>2, <2>1, <2>2, <2>5 DEF TaskInv, Counts, Pipe, pipe, book
    <2> QED
      BY <2>3, <2>4, <2>5, <2>6, <2>7, StillKeeps
  <1>3. CASE PlanStageFails(t) /\ run[t] \notin {"review", "experience"}
    <2>1. Finish(t, "failed")
          /\ UNCHANGED <<loop, done, replans, performed, restarts, framework, pipe>>
      BY <1>3 DEF PlanStageFails
    <2>2. /\ pc' \in [Tasks -> Pcs] /\ status' \in [Tasks -> {"running"} \cup Ended]
          /\ pc'[t] = "return" /\ status'[t] = "failed"
          /\ \A x \in Tasks : x # t => pc'[x] = pc[x] /\ status'[x] = status[x]
      BY <1>0, <2>1, FinishFacts DEF Ended
    <2>3. TypeOK'
      BY <1>0, <2>1, <2>2 DEF TypeOK, Pcs, loop, pipe
    <2>4. Only(t) /\ Still(t)
      BY <2>1, <2>2 DEF Only, Still, loop, pipe
    <2>5. ~Before(t)' /\ ~After(t)' /\ ~Behind(t)' /\ Gate(t)'
      BY <2>2 DEF Before, After, Behind, Pipe, Gate
    <2> QED
      BY <2>2, <2>3, <2>4, <2>5, StillKeeps DEF Pipe
  <1>4. CASE RiskStage(t)
    <2>0. PICK level : ctx' = [ctx EXCEPT ![t].required = level \in {"high", "critical"}]
      BY <1>4 DEF RiskStage
    <2> DEFINE b == level \in {"high", "critical"}
    <2>1. b \in BOOLEAN /\ ctx' = [ctx EXCEPT ![t] = [ctx[t] EXCEPT !.required = b]]
      BY <2>0
    <2> HIDE DEF b
    <2>2. ctx \in [Tasks -> Context] /\ ctx[t] \in Context
      BY <1>0 DEF TypeOK, Context
    <2>3. [ctx[t] EXCEPT !.required = b] \in Context
          /\ [ctx[t] EXCEPT !.required = b].text = ctx[t].text
      BY <2>1, <2>2, ContextType
    <2>4. /\ ctx' \in [Tasks -> Context] /\ ctx'[t].text = ctx[t].text
          /\ \A x \in Tasks : x # t => ctx'[x] = ctx[x]
      BY <2>1, <2>2, <2>3
    <2>5. pc[t] = "risk_check" /\ Goto(t, "approval_request")
          /\ UNCHANGED <<loop, book, run, serving, records>>
      BY <1>4 DEF RiskStage
    <2>6. pc' \in [Tasks -> Pcs] /\ pc'[t] = "approval_request"
          /\ \A x \in Tasks : x # t => pc'[x] = pc[x]
      BY <1>0, <2>5, GotoFacts DEF Pcs
    <2>7. TypeOK'
      BY <1>0, <2>4, <2>5, <2>6 DEF TypeOK, Pcs, Context, loop, book
    <2>8. Only(t) /\ Still(t)
      BY <2>4, <2>5, <2>6 DEF Only, Still, loop, book
    <2>9. Before(t)' = Before(t) /\ After(t)' = After(t) /\ Step(t)' = Step(t)
          /\ (Behind(t)' => Behind(t))
      BY <2>5, <2>6 DEF Before, After, Behind, Pipe, Step, loop
    <2>10. Gate(t)'
      BY <1>0, <2>4, <2>5, <2>6, <2>9 DEF TaskInv, Gate, Recorded, book
    <2>11. /\ pc'[t] \in Pipe => run'[t] # "none"
           /\ pc'[t] \in {"attempt", "failure"} \/ Before(t)' \/ After(t)' => pos[t] <= Len(plan[t])
           /\ status'[t] # "completed"
      BY <1>0, <2>5, <2>6, <2>9 DEF TaskInv, Counts, Pipe, book
    <2> QED
      BY <2>7, <2>8, <2>9, <2>10, <2>11, StillKeeps
  <1>5. CASE ApprovalStage(t)
    <2>1. pc[t] = "approval_request" /\ Goto(t, "returned")
          /\ UNCHANGED <<loop, book, run, serving>>
      BY <1>5 DEF ApprovalStage
    <2>2. ctx \in [Tasks -> Context] /\ ctx[t] \in Context
      BY <1>0 DEF TypeOK, Context
    <2>3. /\ ctx' \in [Tasks -> Context] /\ ctx'[t].text = ctx[t].text
          /\ ctx'[t].required = ctx[t].required
          /\ \A x \in Tasks : x # t => ctx'[x] = ctx[x]
      <3>1. CASE ctx[t].required
        <4>1. ctx' = [ctx EXCEPT ![t] = [ctx[t] EXCEPT !.approved = TRUE]]
          BY <1>5, <3>1 DEF ApprovalStage
        <4>2. [ctx[t] EXCEPT !.approved = TRUE] \in Context
              /\ [ctx[t] EXCEPT !.approved = TRUE].text = ctx[t].text
              /\ [ctx[t] EXCEPT !.approved = TRUE].required = ctx[t].required
          BY <2>2, ContextType
        <4> QED
          BY <2>2, <4>1, <4>2
      <3>2. CASE ~ctx[t].required
        BY <1>5, <2>2, <3>2 DEF ApprovalStage
      <3> QED
        BY <3>1, <3>2
    <2>4. /\ records' \subseteq [task : Tasks, text : Goals \cup {Blank}]
          /\ records \subseteq records'
          /\ ctx[t].required => [task |-> t, text |-> ctx[t].text] \in records'
      <3>1. records \subseteq [task : Tasks, text : Goals \cup {Blank}]
        BY <1>0 DEF TypeOK
      <3>2. [task |-> t, text |-> ctx[t].text] \in [task : Tasks, text : Goals \cup {Blank}]
        BY <2>2 DEF Context
      <3> QED
        BY <1>5, <3>1, <3>2 DEF ApprovalStage
    <2>5. pc' \in [Tasks -> Pcs] /\ pc'[t] = "returned" /\ \A x \in Tasks : x # t => pc'[x] = pc[x]
      BY <1>0, <2>1, GotoFacts DEF Pcs
    <2>6. TypeOK'
      BY <1>0, <2>1, <2>3, <2>4, <2>5 DEF TypeOK, Pcs, Context, loop, book
    <2>7. Only(t) /\ Still(t)
      BY <2>1, <2>3, <2>4, <2>5 DEF Only, Still, loop, book
    <2>8. Before(t)' = Before(t) /\ After(t)' = After(t) /\ Step(t)' = Step(t)
          /\ (Behind(t)' => Behind(t))
      BY <2>1, <2>5 DEF Before, After, Behind, Pipe, Step, loop
    <2>9. Gate(t)'
      <3>1. CASE t \notin framework
        BY <2>1, <3>1 DEF Gate, book
      <3>2. CASE t \in framework
        <4>1. Before(t) => ctx'[t].text = Step(t).goal
          BY <1>0, <2>3, <3>2 DEF TaskInv, Gate
        <4>2. Before(t) /\ run[t] = "approving" => Recorded(t)'
          BY <1>0, <2>4, <2>8, <3>2 DEF TaskInv, Gate, Recorded
        <4>3. run[t] = "gating" /\ ctx'[t].required => Recorded(t)'
          <5> SUFFICES ASSUME run[t] = "gating", ctx'[t].required PROVE Recorded(t)'
            OBVIOUS
          <5>1. Before(t)
            BY <2>1 DEF Before, Pipe
          <5>2. [task |-> t, text |-> Step(t).goal] \in records'
            BY <2>3, <2>4, <4>1, <5>1
          <5> QED
            BY <2>8, <5>2 DEF Recorded
        <4> QED
          BY <2>1, <2>5, <2>8, <4>1, <4>2, <4>3 DEF Gate
      <3> QED
        BY <3>1, <3>2
    <2>10. /\ pc'[t] \in Pipe => run'[t] # "none"
           /\ pc'[t] \in {"attempt", "failure"} \/ Before(t)' \/ After(t)' => pos[t] <= Len(plan[t])
           /\ status'[t] # "completed"
      BY <1>0, <2>1, <2>5, <2>8 DEF TaskInv, Counts, Pipe, book
    <2> QED
      BY <2>6, <2>7, <2>8, <2>9, <2>10, StillKeeps
  <1> QED
    BY <1>1, <1>2, <1>3, <1>4, <1>5

\* The task goes on after a pass of the pipeline.
LEMMA ReturnsKeep ==
  ASSUME IInv, NEW t \in Tasks, AfterPass(t)
  PROVE  IInv'
  <1>0. /\ TypeOK /\ TaskInv(t) /\ pc[t] = "returned" /\ pc[t] \in Pipe
        /\ UNCHANGED <<done, replans, performed, restarts, framework, serving, records>>
    BY DEF IInv, AfterPass, Pipe
  <1>1. status[t] # "completed" /\ run[t] \in Runs \ {"none"} /\ ctx[t] \in Context
    BY <1>0 DEF TaskInv, Counts, TypeOK, Runs, Context
  <1>2. CASE run[t] = "planning"
    <2>1. Goto(t, "step") /\ UNCHANGED <<loop, status, run, ctx>>
      BY <1>2 DEF AfterPass
    <2>2. pc' \in [Tasks -> Pcs] /\ pc'[t] = "step" /\ \A x \in Tasks : x # t => pc'[x] = pc[x]
      BY <1>0, <2>1, GotoFacts DEF Pcs
    <2>3. TypeOK'
      BY <1>0, <2>1, <2>2 DEF TypeOK, Pcs, loop
    <2>4. Only(t) /\ Still(t)
      BY <1>0, <2>1, <2>2 DEF Only, Still, loop
    <2>5. ~Before(t)' /\ ~After(t)' /\ Behind(t) /\ Gate(t)'
      BY <1>0, <1>2, <2>2 DEF Before, After, Behind, Pipe, Gate
    <2> QED
      BY <1>1, <2>1, <2>2, <2>3, <2>4, <2>5, StillKeeps DEF Pipe
  <1>3. CASE run[t] = "gating" /\ ctx[t].required
    <2> DEFINE c == [ctx[t] EXCEPT !.carriesPlan = TRUE]
    <2>1. Pass(t, "approving", c) /\ UNCHANGED <<loop, status>>
      BY <1>3 DEF AfterPass
    <2>2. c \in Context /\ c.text = ctx[t].text
      BY <1>1, ContextType
    <2> HIDE DEF c
    <2>3. /\ pc' \in [Tasks -> Pcs] /\ run' \in [Tasks -> Runs] /\ ctx' \in [Tasks -> Context]
          /\ pc'[t] = "plan_request" /\ run'[t] = "approving" /\ ctx'[t].text = ctx[t].text
          /\ \A x \in Tasks : x # t => pc'[x] = pc[x] /\ run'[x] = run[x] /\ ctx'[x] = ctx[x]
      BY <1>0, <2>1, <2>2, PassFacts DEF Runs
    <2>4. TypeOK'
      BY <1>0, <2>1, <2>3 DEF TypeOK, Pcs, Runs, Context, loop
    <2>5. Only(t) /\ Still(t)
      BY <1>0, <2>1, <2>3 DEF Only, Still, loop
    <2>6. Before(t) /\ ~After(t)' /\ Behind(t) /\ Step(t)' = Step(t)
      BY <1>0, <1>3, <2>3, <2>5 DEF Before, After, Behind, Still, Step
    <2>7. Gate(t)'
      BY <1>0, <1>3, <2>3, <2>6 DEF TaskInv, Gate, Recorded
    <2>8. pos[t] <= Len(plan[t])
      BY <1>0, <2>6 DEF TaskInv, Counts
    <2> QED
      BY <1>1, <2>1, <2>3, <2>4, <2>5, <2>6, <2>7, <2>8, StillKeeps
  <1>4. CASE \/ run[t] = "gating" /\ ~ctx[t].required
             \/ run[t] = "approving" /\ ctx[t].approved
    <2>1. Goto(t, "attempt") /\ UNCHANGED <<loop, status, run, ctx>>
      BY <1>4 DEF AfterPass
    <2>2. pc' \in [Tasks -> Pcs] /\ pc'[t] = "attempt" /\ \A x \in Tasks : x # t => pc'[x] = pc[x]
      BY <1>0, <2>1, GotoFacts DEF Pcs
    <2>3. TypeOK'
      BY <1>0, <2>1, <2>2 DEF TypeOK, Pcs, loop
    <2>4. Only(t) /\ Still(t)
      BY <1>0, <2>1, <2>2 DEF Only, Still, loop
    <2>5. Before(t) /\ ~Before(t)' /\ ~After(t)' /\ Behind(t) /\ Step(t)' = Step(t)
      BY <1>0, <1>4, <2>2, <2>4 DEF Before, After, Behind, Pipe, Still, Step
    <2>6. Gate(t)'
      BY <1>0, <1>4, <2>1, <2>2, <2>5 DEF TaskInv, Gate, Recorded
    <2>7. pos[t] <= Len(plan[t])
      BY <1>0, <2>5 DEF TaskInv, Counts
    <2> QED
      BY <1>1, <2>1, <2>2, <2>3, <2>4, <2>5, <2>6, <2>7, StillKeeps DEF Pipe
  <1>5. CASE run[t] = "approving" /\ ~ctx[t].approved
    <2>1. Finish(t, "failed") /\ UNCHANGED <<loop, run, ctx>>
      BY <1>5 DEF AfterPass
    <2>2. /\ pc' \in [Tasks -> Pcs] /\ status' \in [Tasks -> {"running"} \cup Ended]
          /\ pc'[t] = "return" /\ status'[t] = "failed"
          /\ \A x \in Tasks : x # t => pc'[x] = pc[x] /\ status'[x] = status[x]
      BY <1>0, <2>1, FinishFacts DEF Ended
    <2>3. TypeOK'
      BY <1>0, <2>1, <2>2 DEF TypeOK, Pcs, loop
    <2>4. Only(t) /\ Still(t)
      BY <1>0, <2>1, <2>2 DEF Only, Still, loop
    <2>5. ~Before(t)' /\ ~After(t)' /\ ~Behind(t)' /\ Gate(t)'
      BY <2>2 DEF Before, After, Behind, Pipe, Gate
    <2> QED
      BY <2>2, <2>3, <2>4, <2>5, StillKeeps DEF Pipe
  <1>6. CASE run[t] = "review"
    <2>1. Pass(t, "experience", NewContext(Blank)) /\ UNCHANGED <<loop, status>>
      BY <1>6 DEF AfterPass
    <2>2. NewContext(Blank) \in Context
      BY DEF NewContext, Context
    <2>3. /\ pc' \in [Tasks -> Pcs] /\ run' \in [Tasks -> Runs] /\ ctx' \in [Tasks -> Context]
          /\ pc'[t] = "plan_request" /\ run'[t] = "experience"
          /\ \A x \in Tasks : x # t => pc'[x] = pc[x] /\ run'[x] = run[x] /\ ctx'[x] = ctx[x]
      BY <1>0, <2>1, <2>2, PassFacts DEF Runs
    <2>4. TypeOK'
      BY <1>0, <2>1, <2>3 DEF TypeOK, Pcs, Runs, Context, loop
    <2>5. Only(t) /\ Still(t)
      BY <1>0, <2>1, <2>3 DEF Only, Still, loop
    <2>6. After(t) /\ ~Before(t)' /\ ~Behind(t)' /\ Gate(t)'
      BY <1>0, <1>6, <2>3 DEF Before, After, Behind, Gate
    <2>7. pos[t] <= Len(plan[t])
      BY <1>0, <2>6 DEF TaskInv, Counts
    <2> QED
      BY <1>1, <2>1, <2>3, <2>4, <2>5, <2>6, <2>7, StillKeeps
  <1>7. CASE run[t] = "experience"
    <2>1. NextStep(t, "ok") /\ Goto(t, "step") /\ UNCHANGED <<status, run, ctx>>
      BY <1>7 DEF AfterPass
    <2>2. pc' \in [Tasks -> Pcs] /\ pc'[t] = "step" /\ \A x \in Tasks : x # t => pc'[x] = pc[x]
      BY <1>0, <2>1, GotoFacts DEF Pcs
    <2>3. /\ plan' = plan /\ base' = base /\ outer' = outer
          /\ pos' \in [Tasks -> Nat \ {0}] /\ tries' \in [Tasks -> Nat]
          /\ results' \in [Tasks -> Seq(Marks)]
          /\ \A x \in Tasks : x # t => pos'[x] = pos[x] /\ results'[x] = results[x]
      BY <1>0, <2>1, NextStepFacts DEF Marks
    <2>4. TypeOK'
      BY <1>0, <2>1, <2>2, <2>3 DEF TypeOK, Pcs, Marks
    <2>5. Only(t)
      BY <1>0, <2>1, <2>2, <2>3 DEF Only
    <2>6. After(t)
      BY <1>0, <1>7 DEF After
    <2>7. /\ pos[t] <= Len(plan[t])
          /\ \E k \in 1..Len(performed[t]) :
               performed[t][k] = [id |-> base[t] + pos[t], goal |-> plan[t][pos[t]].goal]
          /\ \A k \in 1..Len(performed[t]) : performed[t][k].id <= base[t] + pos[t]
          /\ \A i, j \in 1..Len(performed[t]) : i < j => performed[t][i].id < performed[t][j].id
      BY <1>0, <2>6 DEF TaskInv, Counts, Accounts, Ids
    <2>8. Len(performed[t]) \in Nat /\ "ok" \in Marks
      BY <1>0, Types DEF Marks
    <2>9. performed' = performed /\ done' = done /\ status' = status
          /\ Len(performed[t]) <= Len(performed[t])
      BY <1>0, <2>1, <2>8
    <2> QED
      BY <1>1, <2>1, <2>2, <2>4, <2>5, <2>7, <2>8, <2>9, AdvanceKeeps
  <1> QED
    BY <1>1, <1>2, <1>3, <1>4, <1>5, <1>6, <1>7 DEF Runs

-----------------------------------------------------------------------------
(* The inductive invariant.                                                *)

LEMMA InitHolds ==
  ASSUME Init
  PROVE  IInv
  <1>1. NewContext(Blank) \in Context
    BY DEF NewContext, Context
  <1>2. <<>> \in Seq(Steps) /\ <<>> \in Seq(Marks) /\ <<>> \in Seq(Act) /\ <<>> \in Seq(Frames)
    BY EmptySeq
  <1>3. MaxReplans \in Nat
    BY CoordinatorAssumption
  <1>4. TypeOK
    BY <1>1, <1>2, <1>3 DEF Init, TypeOK, Context, Marks, Act
  <1>5. ASSUME NEW t \in Tasks PROVE TaskInv(t)
    <2>1. /\ pc[t] = "new" /\ status[t] = "running" /\ pos[t] = 1 /\ base[t] = 0
          /\ Len(plan[t]) = 0 /\ Len(results[t]) = 0 /\ Len(performed[t]) = 0
      BY EmptySeq DEF Init
    <2>2. ~Before(t) /\ ~After(t)
      BY <2>1 DEF Before, After, Pipe
    <2>3. Counts(t)
      BY <2>1, <2>2 DEF Counts, Pipe
    <2>4. Accounts(t) /\ Ids(t)
      BY <2>1, <2>2 DEF Accounts, Ids
    <2>5. Gate(t)
      BY <2>1, <2>2 DEF Gate
    <2> QED
      BY <2>3, <2>4, <2>5 DEF TaskInv
  <1> QED
    BY <1>4, <1>5 DEF IInv

LEMMA NextKeeps ==
  ASSUME IInv, [Next]_vars
  PROVE  IInv'
  <1>1. CASE Next
    <2>1. PICK t \in Tasks : Start(t) \/ CoordinatorStep(t) \/ Resume(t)
      BY <1>1 DEF Next
    <2>2. CASE Start(t)
      BY <2>2, StartKeeps
    <2>3. CASE AttemptFails(t) \/ AskReplan(t)
      BY <2>3, MovesKeep
    <2>11. CASE Return(t)
      BY <2>11, ReturnKeeps
    <2>12. CASE Resume(t)
      BY <2>12, ResumeKeeps
    <2>4. CASE CreatePlanRaises(t) \/ FailTask(t) \/ Escalate(t) \/ ReplanRaises(t)
      BY <2>4, EndsKeep
    <2>5. CASE CreatePlan(t) \/ Replan(t) \/ (PlanStage(t) /\ run[t] = "planning")
      BY <2>5, PlansKeep
    <2>6. CASE \/ PlanStage(t) /\ run[t] # "planning"
               \/ PlanStageFails(t) \/ RiskStage(t) \/ ApprovalStage(t)
      BY <2>6, StagesKeep
    <2>7. CASE TakeStep(t)
      BY <2>7, TakeKeeps
    <2>8. CASE AttemptSucceeds(t)
      BY <2>8, AttemptKeeps
    <2>9. CASE SkipFailure(t)
      BY <2>9, SkipKeeps
    <2>10. CASE AfterPass(t)
      BY <2>10, ReturnsKeep
    <2> QED
      BY <2>1, <2>2, <2>3, <2>4, <2>5, <2>6, <2>7, <2>8, <2>9, <2>10, <2>11, <2>12 DEF CoordinatorStep
  <1>2. CASE UNCHANGED vars
    <2>1. TypeOK'
      BY <1>2 DEF IInv, TypeOK, vars, loop, book, pipe
    <2>2. ASSUME NEW t \in Tasks PROVE Only(t) /\ TaskInv(t)'
      <3>1. TaskInv(t)
        BY DEF IInv
      <3>2. UNCHANGED <<pc, plan, base, pos, results, done, status, run, ctx, performed,
                        framework, records>>
        BY <1>2 DEF vars, loop, book, pipe
      <3>3. Only(t)
        BY <3>2 DEF Only
      <3>4. Before(t)' = Before(t) /\ After(t)' = After(t) /\ Step(t)' = Step(t)
        BY <3>2 DEF Before, After, Step
      <3>5. Behind(t)' = Behind(t)
        BY <3>2, <3>4 DEF Behind
      <3>6. Counts(t)'
        BY <3>1, <3>2, <3>4 DEF TaskInv, Counts
      <3>7. Accounts(t)'
        BY <3>1, <3>2, <3>4 DEF TaskInv, Accounts, Accounted
      <3>8. Ids(t)'
        BY <3>1, <3>2, <3>4, <3>5 DEF TaskInv, Ids
      <3>9. Gate(t)'
        BY <3>1, <3>2, <3>4 DEF TaskInv, Gate, Recorded
      <3> QED
        BY <3>3, <3>6, <3>7, <3>8, <3>9 DEF TaskInv
    <2> QED
      BY <2>1, <2>2 DEF IInv
  <1> QED
    BY <1>1, <1>2

\* The invariant of the coordinators: every task keeps count of its plan, can
\* account for what it did and is gated by the grading of its own step.
THEOREM Invariant == Spec => []IInv
  <1>1. Init => IInv
    BY InitHolds
  <1>2. IInv /\ [Next]_vars => IInv'
    BY NextKeeps
  <1> QED
    BY <1>1, <1>2, PTL DEF Spec

-----------------------------------------------------------------------------
\* Every variable keeps its type.
THEOREM TypesHold == Spec => []TypeOK
  <1>1. IInv => TypeOK
    BY DEF IInv
  <1> QED
    BY <1>1, Invariant, PTL

\* The framework attempts a step only on a grading of that step's own text,
\* with the approval on record when the grading asked for one, whichever
\* coordinator's agents answered and however the second grading came out.
THEOREM GateHoldsAlways == Spec => []GateHolds
  <1>1. IInv => GateHolds
    <2> SUFFICES ASSUME IInv, NEW t \in framework, pc[t] = "attempt"
                 PROVE  /\ ctx[t].text = Step(t).goal
                        /\ \/ [task |-> t, text |-> Step(t).goal] \in records
                           \/ run[t] = "gating" /\ ~ctx[t].required
      BY DEF GateHolds
    <2>1. t \in Tasks
      BY CoordinatorAssumption DEF IInv, TypeOK
    <2>2. Gate(t)
      BY <2>1 DEF IInv, TaskInv
    <2> QED
      BY <2>2 DEF Gate, Recorded
  <1> QED
    BY <1>1, Invariant, PTL

\* A completed task accounts for every step of the plan it ended with.
THEOREM CompletedAccountsAlways == Spec => []CompletedAccounts
  <1>1. IInv => CompletedAccounts
    <2> SUFFICES ASSUME IInv, NEW t \in Tasks, status[t] = "completed"
                 PROVE  /\ Len(results[t]) = Len(plan[t])
                        /\ \A i \in 1..Len(plan[t]) : Accounted(t, i)
      BY DEF CompletedAccounts, Accounted
    <2>1. Counts(t) /\ Accounts(t) /\ TypeOK
      BY DEF IInv, TaskInv
    <2>2. pos[t] = Len(plan[t]) + 1 /\ Len(results[t]) = pos[t] - 1 /\ Len(plan[t]) \in Nat
      BY <2>1, Types DEF Counts
    <2>3. Len(results[t]) = Len(plan[t])
      BY <2>2
    <2> QED
      BY <2>1, <2>3 DEF Accounts
  <1> QED
    BY <1>1, Invariant, PTL

\* The open calls of a replaced plan perform none of its steps any more, and
\* within a plan the steps are performed in order, each at most once.
THEOREM ReplacedPlanIsOverAlways == Spec => []ReplacedPlanIsOver
  <1>1. IInv => ReplacedPlanIsOver
    BY DEF IInv, TaskInv, Ids, ReplacedPlanIsOver
  <1> QED
    BY <1>1, Invariant, PTL

=============================================================================
