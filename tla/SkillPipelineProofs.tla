------------------------- MODULE SkillPipelineProofs -------------------------
(***************************************************************************)
(* Proofs about SkillPipeline, for every set of pipelines and every number *)
(* of retries. The invariant ties the results gathered so far to the index *)
(* of the loop: before the audit there is one record for each step before  *)
(* the current one, from the audit on there is one more, and the attempts  *)
(* of the current step are the last ones in calls.                         *)
(***************************************************************************)
EXTENDS SkillPipeline, FiniteSetTheorems, TLAPS

Running == {"execute", "audit", "handle"}

\* The records, and what is known of those the loop has passed.
RecordsInv ==
  /\ \A k \in 1..Len(stepResults) : stepResults[k].step = k
  /\ pc \in {"prepare", "execute", "raised"} => Len(stepResults) = i - 1
  /\ pc \in {"audit", "handle"} => Len(stepResults) = i /\ stepResults[i].ran
  /\ pc \in Running => i <= Len(steps)
  /\ \A k \in 1..Len(stepResults) :
       k < i /\ stepResults[k].status = "failed" =>
         \/ steps[k].strategy = "skip"
         \/ ~stepResults[k].ran /\ steps[k].strategy = "retry"

\* How the loop is left.
LeftInv ==
  /\ pc # "returned" => success /\ abortedAt = 0
  /\ pc = "returned" /\ success => i = Len(steps) + 1 /\ Len(stepResults) = Len(steps)
  /\ pc = "returned" /\ ~success =>
       /\ abortedAt = i /\ i <= Len(steps) /\ Len(stepResults) = i
       /\ stepResults[i].status = "failed"
       /\ stepResults[i].ran => steps[i].strategy # "skip"

\* The calls, and those of the current step among them.
CallsInv ==
  /\ \A k \in 1..Len(calls) : calls[k].step \in 1..Len(steps) /\ calls[k].step <= i
  /\ pc = "prepare" => \A k \in 1..Len(calls) : calls[k].step < i
  /\ pc \in Running =>
       /\ attempt <= Len(calls)
       /\ \A k \in 1..Len(calls) : calls[k].step = i => k > Len(calls) - attempt
  /\ pc = "execute" =>
       /\ attempt < MaxAttempts
       /\ \A k \in 1..Len(calls) : calls[k].step = i => calls[k].status # "completed"

\* The audit trail stays behind the records.
TrailInv ==
  /\ \A a \in 1..Len(audited) : audited[a] \in 1..Len(stepResults)
  /\ \A a \in 1..Len(audited) : audited[a] <= i
  /\ pc \in {"prepare", "execute", "audit"} => \A a \in 1..Len(audited) : audited[a] < i

IInv == TypeOK /\ RecordsInv /\ LeftInv /\ CallsInv /\ RepeatsAreWarranted
          /\ TrailInv /\ AuditFollows

\* steps_completed counts the records so far that do not say failed, but for
\* one that is yet to be handled.
Good(q, n) == {k \in 1..n : q[k].status # "failed"}
CountInv ==
  LET handled == IF pc \in {"audit", "handle"} THEN i - 1 ELSE Len(stepResults) IN
  stepsCompleted = Cardinality(Good(stepResults, handled))

-----------------------------------------------------------------------------
\* Every pipeline is a sequence of steps, so the current one is a record.
LEMMA StepsAreSteps ==
  ASSUME TypeOK
  PROVE  /\ steps \in Seq(Steps)
         /\ i \in Nat /\ i >= 1
         /\ Len(steps) \in Nat
         /\ i <= Len(steps) => Step \in Steps
  <1>1. steps \in Seq(Steps)
    BY PipelineAssumption DEF TypeOK
  <1>2. Len(steps) \in Nat
    BY <1>1
  <1>3. i \in Nat /\ i >= 1
    BY <1>2 DEF TypeOK
  <1>4. ASSUME i <= Len(steps) PROVE steps[i] \in Steps
    BY <1>1, <1>2, <1>3, <1>4
  <1> QED
    BY <1>1, <1>2, <1>3, <1>4 DEF Step

\* What the loop adds to a sequence goes behind what it holds.
LEMMA AppendFacts ==
  ASSUME NEW S, NEW q \in Seq(S), NEW e \in S
  PROVE  /\ Append(q, e) \in Seq(S)
         /\ Len(Append(q, e)) = Len(q) + 1
         /\ \A k \in 1..Len(q) : Append(q, e)[k] = q[k]
         /\ Append(q, e)[Len(q) + 1] = e
  OBVIOUS

LEMMA InitIInv == Init => IInv
  <1> SUFFICES ASSUME Init PROVE IInv
    OBVIOUS
  <1>1. TypeOK
    BY PipelineAssumption DEF Init, TypeOK
  <1>2. RecordsInv /\ LeftInv /\ CallsInv
    BY DEF Init, RecordsInv, LeftInv, CallsInv, Running
  <1>3. RepeatsAreWarranted /\ TrailInv /\ AuditFollows
    BY DEF Init, RepeatsAreWarranted, TrailInv, AuditFollows
  <1> QED
    BY <1>1, <1>2, <1>3 DEF IInv

\* The loop ends.
LEMMA ReturnIInv == IInv /\ Return => IInv'
  <1> SUFFICES ASSUME IInv, Return PROVE IInv'
    OBVIOUS
  <1> USE DEF IInv, Return, outcome
  <1>0. steps \in Seq(Steps) /\ i \in Nat /\ i >= 1 /\ Len(steps) \in Nat
    BY StepsAreSteps
  <1>1. TypeOK'
    BY DEF TypeOK
  <1>2. RecordsInv'
    BY <1>0 DEF RecordsInv, Running
  <1>3. LeftInv'
    BY <1>0 DEF LeftInv, RecordsInv, TypeOK
  <1>4. CallsInv'
    BY DEF CallsInv, Running, Step, MaxAttempts
  <1>5. RepeatsAreWarranted' /\ TrailInv' /\ AuditFollows'
    BY DEF RepeatsAreWarranted, TrailInv, AuditFollows
  <1> QED
    BY <1>1, <1>2, <1>3, <1>4, <1>5

\* A step whose skill is unknown or whose parameters are invalid.
LEMMA RefuseIInv == IInv /\ (UnknownSkill \/ InvalidParams) => IInv'
  <1> SUFFICES ASSUME IInv, UnknownSkill \/ InvalidParams PROVE IInv'
    OBVIOUS
  <1> DEFINE r == [step |-> i, status |-> "failed", ran |-> FALSE]
  <1>0. steps \in Seq(Steps) /\ i \in Nat /\ i >= 1 /\ Len(steps) \in Nat /\ Step \in Steps
    BY StepsAreSteps DEF IInv, UnknownSkill, InvalidParams
  <1>1. /\ pc = "prepare" /\ i <= Len(steps)
        /\ stepResults' = Append(stepResults, r)
        /\ UNCHANGED <<steps, attempt, calls, audited>>
        /\ stepsCompleted' = stepsCompleted
        /\ \/ /\ success' = FALSE /\ abortedAt' = i /\ pc' = "returned" /\ i' = i
           \/ /\ i' = i + 1 /\ pc' = "prepare" /\ success' = success /\ abortedAt' = abortedAt
              /\ Step.strategy \notin {"abort", Unreadable}
    BY DEF UnknownSkill, InvalidParams, Record, Abort, PassOver, outcome
  <1>2. stepResults \in Seq([step : Nat, status : Statuses, ran : BOOLEAN])
        /\ r \in [step : Nat, status : Statuses, ran : BOOLEAN]
    BY <1>0 DEF IInv, TypeOK, Statuses
  <1>3. /\ stepResults' \in Seq([step : Nat, status : Statuses, ran : BOOLEAN])
        /\ Len(stepResults') = Len(stepResults) + 1
        /\ \A k \in 1..Len(stepResults) : stepResults'[k] = stepResults[k]
        /\ stepResults'[Len(stepResults) + 1] = r
    BY <1>1, <1>2, AppendFacts
  <1>4. Len(stepResults) = i - 1
    BY <1>1 DEF IInv, RecordsInv
  <1>5. TypeOK'
    <2>1. TypeOK
      BY DEF IInv
    <2>2. i' \in 1..(Len(steps') + 1) /\ abortedAt' \in Nat
      BY <1>0, <1>1, <2>1 DEF TypeOK
    <2>3. success' \in BOOLEAN
      BY <1>1, <2>1, Zenon DEF TypeOK
    <2> QED
      BY <1>1, <1>3, <2>1, <2>2, <2>3 DEF TypeOK
  <1>6. Step.strategy \notin {"abort", Unreadable} => Step.strategy = "skip" \/ Step.strategy = "retry"
    BY <1>0 DEF Steps, Strategies
  <1>7. RecordsInv'
    BY <1>0, <1>1, <1>3, <1>4, <1>6 DEF IInv, RecordsInv, Running, Step
  <1>8. LeftInv'
    <2>1. CASE pc' = "returned" /\ success' = FALSE /\ abortedAt' = i /\ i' = i
      BY <1>0, <1>1, <1>3, <1>4, <2>1 DEF LeftInv
    <2>2. CASE pc' = "prepare" /\ success' = success /\ abortedAt' = abortedAt
      BY <1>1, <2>2 DEF IInv, LeftInv
    <2> QED
      BY <1>1, <2>1, <2>2
  <1>9. CallsInv'
    <2>1. \A k \in 1..Len(calls) : calls[k].step \in 1..Len(steps) /\ calls[k].step < i
      BY <1>1 DEF IInv, CallsInv
    <2>2. (pc' = "returned" /\ i' = i) \/ (pc' = "prepare" /\ i' = i + 1)
      BY <1>1
    <2> QED
      BY <1>0, <1>1, <2>1, <2>2 DEF CallsInv, Running
  <1>10. RepeatsAreWarranted'
    BY <1>1 DEF IInv, RepeatsAreWarranted
  <1>11. TrailInv'
    BY <1>0, <1>1, <1>3, <1>4 DEF IInv, TrailInv, TypeOK
  <1>12. AuditFollows'
    BY <1>1, <1>3 DEF IInv, AuditFollows, TypeOK
  <1> QED
    BY <1>5, <1>7, <1>8, <1>9, <1>10, <1>11, <1>12 DEF IInv

\* A step is set up for its first attempt.
LEMMA PrepareIInv == IInv /\ Prepare => IInv'
  <1> SUFFICES ASSUME IInv, Prepare PROVE IInv'
    OBVIOUS
  <1> USE DEF IInv, Prepare, outcome
  <1>0. steps \in Seq(Steps) /\ i \in Nat /\ i >= 1 /\ Len(steps) \in Nat /\ Step \in Steps
    BY StepsAreSteps
  <1>1. TypeOK'
    BY DEF TypeOK
  <1>2. RecordsInv'
    BY DEF RecordsInv, Running
  <1>3. LeftInv'
    BY DEF LeftInv
  <1>4. MaxAttempts \in Nat /\ MaxAttempts >= 1
    BY <1>0 DEF MaxAttempts, Steps
  <1>5. MaxAttempts' = MaxAttempts
    BY DEF MaxAttempts, Step
  <1>6. CallsInv'
    BY <1>0, <1>4, <1>5 DEF CallsInv, Running, TypeOK
  <1>7. RepeatsAreWarranted' /\ TrailInv' /\ AuditFollows'
    BY DEF RepeatsAreWarranted, TrailInv, AuditFollows
  <1> QED
    BY <1>1, <1>2, <1>3, <1>6, <1>7

\* One attempt, the last of its step or not.
LEMMA ExecuteIInv == IInv /\ Execute => IInv'
  <1> SUFFICES ASSUME IInv, NEW status \in Statuses, pc = "execute",
                      calls' = Append(calls, [step |-> i, status |-> status]),
                      attempt' = attempt + 1,
                      IF status # "completed" /\ attempt + 1 < MaxAttempts
                        THEN UNCHANGED <<pc, stepResults>>
                        ELSE Record(status, TRUE) /\ pc' = "audit",
                      UNCHANGED <<steps, i, outcome, audited>>
               PROVE  IInv'
    BY DEF Execute
  <1> DEFINE c == [step |-> i, status |-> status]
             r == [step |-> i, status |-> status, ran |-> TRUE]
  <1>0. steps \in Seq(Steps) /\ i \in Nat /\ i >= 1 /\ Len(steps) \in Nat /\ i <= Len(steps)
        /\ Step \in Steps /\ attempt \in Nat
    BY StepsAreSteps DEF IInv, RecordsInv, Running, TypeOK
  <1>1. UNCHANGED <<steps, i, stepsCompleted, success, abortedAt, audited>>
    BY DEF outcome
  <1>2. calls \in Seq([step : Nat, status : Statuses]) /\ c \in [step : Nat, status : Statuses]
    BY <1>0 DEF IInv, TypeOK
  <1>3. /\ calls' \in Seq([step : Nat, status : Statuses])
        /\ Len(calls') = Len(calls) + 1
        /\ \A k \in 1..Len(calls) : calls'[k] = calls[k]
        /\ calls'[Len(calls) + 1] = c
    BY <1>2, AppendFacts
  <1>4. stepResults \in Seq([step : Nat, status : Statuses, ran : BOOLEAN])
        /\ r \in [step : Nat, status : Statuses, ran : BOOLEAN]
    BY <1>0 DEF IInv, TypeOK
  <1>5. /\ Append(stepResults, r) \in Seq([step : Nat, status : Statuses, ran : BOOLEAN])
        /\ Len(Append(stepResults, r)) = Len(stepResults) + 1
        /\ \A k \in 1..Len(stepResults) : Append(stepResults, r)[k] = stepResults[k]
        /\ Append(stepResults, r)[Len(stepResults) + 1] = r
    BY <1>4, AppendFacts
  <1>6. \/ /\ pc' = "execute" /\ stepResults' = stepResults
           /\ status # "completed" /\ attempt + 1 < MaxAttempts
        \/ pc' = "audit" /\ stepResults' = Append(stepResults, r)
    BY DEF Record
  <1>7. Len(stepResults) = i - 1 /\ Len(calls) \in Nat
    BY <1>2 DEF IInv, RecordsInv
  <1>8. attempt < MaxAttempts /\ MaxAttempts \in Nat /\ MaxAttempts' = MaxAttempts
    BY <1>0, <1>1 DEF IInv, CallsInv, MaxAttempts, Steps, Step
  <1>9. TypeOK'
    <2>1. stepResults' \in Seq([step : Nat, status : Statuses, ran : BOOLEAN])
      BY <1>4, <1>5, <1>6
    <2>2. attempt' \in Nat
      BY <1>0
    <2>3. pc' \in {"execute", "audit"}
      BY <1>6
    <2> QED
      BY <1>1, <1>3, <2>1, <2>2, <2>3 DEF IInv, TypeOK
  <1>10. RecordsInv'
    <2>1. CASE pc' = "execute" /\ stepResults' = stepResults
      BY <1>0, <1>1, <2>1 DEF IInv, RecordsInv, Running
    <2>2. CASE pc' = "audit" /\ stepResults' = Append(stepResults, r)
      BY <1>0, <1>1, <1>5, <1>7, <2>2 DEF IInv, RecordsInv, Running
    <2> QED
      BY <1>6, <2>1, <2>2
  <1>11. LeftInv'
    BY <1>1, <1>6 DEF IInv, LeftInv
  <1>12. CallsInv'
    <2>1. \A k \in 1..Len(calls') :
            \/ k \in 1..Len(calls) /\ calls'[k] = calls[k]
            \/ k = Len(calls) + 1 /\ calls'[k] = c
      BY <1>3, <1>7
    <2>2. \A k \in 1..Len(calls') : calls'[k].step \in 1..Len(steps) /\ calls'[k].step <= i
      BY <1>0, <2>1 DEF IInv, CallsInv
    <2>3. attempt' <= Len(calls')
      BY <1>0, <1>3, <1>7 DEF IInv, CallsInv, Running
    <2>4. \A k \in 1..Len(calls') : calls'[k].step = i => k > Len(calls') - attempt'
      BY <1>0, <1>3, <1>7, <2>1 DEF IInv, CallsInv, Running
    <2>5. pc' = "execute" => /\ attempt' < MaxAttempts'
                             /\ \A k \in 1..Len(calls') :
                                  calls'[k].step = i => calls'[k].status # "completed"
      BY <1>6, <1>8, <2>1 DEF IInv, CallsInv
    <2> QED
      BY <1>1, <1>6, <2>2, <2>3, <2>4, <2>5 DEF CallsInv
  <1>13. RepeatsAreWarranted'
    <2> SUFFICES ASSUME NEW a \in 1..Len(calls'), NEW b \in 1..Len(calls'),
                        a < b, calls'[a].step = calls'[b].step
                 PROVE  /\ calls'[a].status # "completed"
                        /\ steps[calls'[a].step].strategy = "retry"
                        /\ b - a <= steps[calls'[a].step].maxRetries
      BY <1>1 DEF RepeatsAreWarranted
    <2>1. CASE b \in 1..Len(calls)
      <3>1. a \in 1..Len(calls) /\ calls'[a] = calls[a] /\ calls'[b] = calls[b]
        BY <1>3, <1>7, <2>1
      <3>2. a < b /\ calls[a].step = calls[b].step
        BY <3>1
      <3>3. RepeatsAreWarranted
        BY DEF IInv
      <3> QED
        BY <2>1, <3>1, <3>2, <3>3 DEF RepeatsAreWarranted
    <2>2. CASE b = Len(calls) + 1
      <3>1. a \in 1..Len(calls) /\ calls'[a] = calls[a] /\ calls[a].step = i
        BY <1>3, <1>7, <2>2
      <3>2. a > Len(calls) - attempt /\ calls[a].status # "completed"
        BY <3>1 DEF IInv, CallsInv, Running
      <3>3. MaxAttempts > 1
        BY <1>0, <1>7, <1>8, <3>1, <3>2
      <3>4. Step.strategy = "retry" /\ MaxAttempts = Step.maxRetries + 1 /\ Step.maxRetries \in Nat
        BY <1>0, <3>3 DEF MaxAttempts, Steps
      <3>5. b - a <= Step.maxRetries
        BY <1>0, <1>7, <1>8, <2>2, <3>1, <3>2, <3>4
      <3> QED
        BY <3>1, <3>2, <3>4, <3>5 DEF Step
    <2> QED
      BY <1>3, <1>7, <2>1, <2>2
  <1>14. TrailInv'
    BY <1>0, <1>1, <1>5, <1>6, <1>7 DEF IInv, TrailInv, TypeOK
  <1>15. AuditFollows'
    <2>1. CASE stepResults' = stepResults
      BY <1>1, <2>1 DEF IInv, AuditFollows
    <2>2. CASE stepResults' = Append(stepResults, r)
      <3>1. \A k \in 1..Len(stepResults) :
              k \in 1..Len(stepResults') /\ stepResults'[k] = stepResults[k]
        BY <1>5, <1>7, <2>2
      <3> QED
        BY <1>1, <3>1 DEF IInv, AuditFollows
    <2> QED
      BY <1>6, <2>1, <2>2
  <1> QED
    BY <1>9, <1>10, <1>11, <1>12, <1>13, <1>14, <1>15 DEF IInv

\* An exception leaves everything as it was.
LEMMA RaiseIInv == IInv /\ (ExecuteRaises \/ UnreadableStrategy) => IInv'
  <1> SUFFICES ASSUME IInv, ExecuteRaises \/ UnreadableStrategy PROVE IInv'
    OBVIOUS
  <1>0. pc \in {"execute", "prepare"} /\ pc' = "raised"
        /\ UNCHANGED <<steps, i, attempt, calls, stepResults, stepsCompleted, success, abortedAt,
                      audited>>
    BY DEF ExecuteRaises, UnreadableStrategy, outcome
  <1>1. TypeOK' /\ LeftInv'
    BY <1>0 DEF IInv, TypeOK, LeftInv
  <1>2. RecordsInv'
    BY <1>0 DEF IInv, RecordsInv, Running
  <1>3. CallsInv'
    BY <1>0 DEF IInv, CallsInv, Running
  <1>4. RepeatsAreWarranted' /\ TrailInv' /\ AuditFollows'
    BY <1>0 DEF IInv, RepeatsAreWarranted, TrailInv, AuditFollows
  <1> QED
    BY <1>1, <1>2, <1>3, <1>4 DEF IInv

\* The callback records the current step or nothing.
LEMMA AuditIInv == IInv /\ Audit => IInv'
  <1> SUFFICES ASSUME IInv, Audit PROVE IInv'
    OBVIOUS
  <1>0. i \in Nat /\ i >= 1 /\ Len(stepResults) = i /\ stepResults[i].ran
    BY StepsAreSteps DEF IInv, RecordsInv, Audit
  <1>1. /\ pc = "audit" /\ pc' = "handle"
        /\ UNCHANGED <<steps, i, attempt, calls, stepResults, stepsCompleted, success, abortedAt>>
    BY DEF Audit, outcome
  <1>2. audited \in Seq(Nat) /\ Len(audited) \in Nat
    BY DEF IInv, TypeOK
  <1>3. /\ Append(audited, i) \in Seq(Nat)
        /\ Len(Append(audited, i)) = Len(audited) + 1
        /\ \A k \in 1..Len(audited) : Append(audited, i)[k] = audited[k]
        /\ Append(audited, i)[Len(audited) + 1] = i
    BY <1>0, <1>2, AppendFacts
  <1>4. audited' = audited \/ audited' = Append(audited, i)
    BY DEF Audit
  <1>5. TypeOK'
    BY <1>1, <1>2, <1>3, <1>4 DEF IInv, TypeOK
  <1>6. RecordsInv' /\ LeftInv'
    BY <1>1 DEF IInv, RecordsInv, LeftInv, Running
  <1>7. CallsInv'
    BY <1>1 DEF IInv, CallsInv, Running
  <1>8. RepeatsAreWarranted'
    BY <1>1 DEF IInv, RepeatsAreWarranted
  <1>9. TrailInv' /\ AuditFollows'
    <2>1. CASE audited' = audited
      BY <1>1, <2>1 DEF IInv, TrailInv, AuditFollows
    <2>2. CASE audited' = Append(audited, i)
      <3>1. \A a \in 1..Len(audited') :
              \/ a \in 1..Len(audited) /\ audited'[a] = audited[a]
              \/ a = Len(audited) + 1 /\ audited'[a] = i
        BY <1>2, <1>3, <2>2
      <3>2. \A a \in 1..Len(audited) : audited[a] < i /\ audited[a] \in 1..Len(stepResults)
        BY <1>1 DEF IInv, TrailInv
      <3>3. TrailInv'
        BY <1>0, <1>1, <3>1, <3>2 DEF TrailInv
      <3>4. \A a, b \in 1..Len(audited') : a < b => audited'[a] < audited'[b]
        <4> SUFFICES ASSUME NEW a \in 1..Len(audited'), NEW b \in 1..Len(audited'), a < b
                     PROVE  audited'[a] < audited'[b]
          OBVIOUS
        <4>1. \A x, y \in 1..Len(audited) : x < y => audited[x] < audited[y]
          BY DEF IInv, AuditFollows
        <4>2. a \in 1..Len(audited) /\ audited'[a] = audited[a]
          BY <1>2, <1>3, <2>2
        <4> QED
          BY <3>1, <3>2, <4>1, <4>2
      <3>5. stepResults[i].step = i
        BY <1>0 DEF IInv, RecordsInv
      <3>6. \A a \in 1..Len(audited') :
              \E k \in 1..Len(stepResults) : stepResults[k].step = audited'[a] /\ stepResults[k].ran
        <4> SUFFICES ASSUME NEW a \in 1..Len(audited')
                     PROVE  \E k \in 1..Len(stepResults) :
                              stepResults[k].step = audited'[a] /\ stepResults[k].ran
          OBVIOUS
        <4>1. CASE a = Len(audited) + 1 /\ audited'[a] = i
          <5>1. i \in 1..Len(stepResults)
            BY <1>0
          <5> QED
            BY <1>0, <3>5, <4>1, <5>1
        <4>2. CASE a \in 1..Len(audited) /\ audited'[a] = audited[a]
          <5>1. \E k \in 1..Len(stepResults) :
                  stepResults[k].step = audited[a] /\ stepResults[k].ran
            BY <4>2 DEF IInv, AuditFollows
          <5> QED
            BY <4>2, <5>1
        <4> QED
          BY <3>1, <4>1, <4>2
      <3> QED
        BY <1>1, <3>3, <3>4, <3>6 DEF AuditFollows
    <2> QED
      BY <1>4, <2>1, <2>2
  <1> QED
    BY <1>5, <1>6, <1>7, <1>8, <1>9 DEF IInv

\* The outcome of a step that was executed.
LEMMA HandleIInv == IInv /\ (HandleFailure \/ CountStep) => IInv'
  <1> SUFFICES ASSUME IInv, HandleFailure \/ CountStep PROVE IInv'
    OBVIOUS
  <1>0. steps \in Seq(Steps) /\ i \in Nat /\ i >= 1 /\ Len(steps) \in Nat /\ i <= Len(steps)
        /\ Step \in Steps
    BY StepsAreSteps DEF IInv, RecordsInv, Running, HandleFailure, CountStep
  <1>1. /\ pc = "handle" /\ Len(stepResults) = i /\ stepResults[i].ran
        /\ \A k \in 1..Len(stepResults) : stepResults[k].step = k
    BY DEF IInv, RecordsInv, HandleFailure, CountStep
  <1>2. stepResults \in Seq([step : Nat, status : Statuses, ran : BOOLEAN])
        /\ Last(stepResults) = stepResults[i]
    BY <1>1 DEF IInv, TypeOK, Last
  <1>3. /\ UNCHANGED <<steps, attempt, calls, stepResults, audited>>
        /\ \/ /\ success' = FALSE /\ abortedAt' = i /\ pc' = "returned" /\ i' = i
              /\ stepsCompleted' = stepsCompleted
              /\ stepResults[i].status = "failed" /\ Step.strategy # "skip"
           \/ /\ i' = i + 1 /\ pc' = "prepare" /\ success' = success /\ abortedAt' = abortedAt
              /\ stepsCompleted' \in {stepsCompleted, stepsCompleted + 1}
              /\ stepResults[i].status = "failed" => Step.strategy = "skip"
    BY <1>2 DEF HandleFailure, CountStep, Abort, PassOver, outcome
  <1>4. TypeOK'
    <2>1. i' \in 1..(Len(steps') + 1) /\ abortedAt' \in Nat /\ stepsCompleted' \in Nat
      BY <1>0, <1>3 DEF IInv, TypeOK
    <2>2. success' \in BOOLEAN
      BY <1>3, Zenon DEF IInv, TypeOK
    <2>3. pc' \in {"returned", "prepare"}
      BY <1>3
    <2> QED
      BY <1>3, <2>1, <2>2, <2>3 DEF IInv, TypeOK
  <1>5. RecordsInv'
    BY <1>0, <1>1, <1>3 DEF IInv, RecordsInv, Running, Step
  <1>6. LeftInv'
    <2>1. CASE pc' = "returned" /\ success' = FALSE /\ abortedAt' = i /\ i' = i
      BY <1>0, <1>1, <1>3, <2>1 DEF LeftInv, Step
    <2>2. CASE pc' = "prepare" /\ success' = success /\ abortedAt' = abortedAt
      BY <1>1, <2>2 DEF IInv, LeftInv
    <2> QED
      BY <1>3, <2>1, <2>2
  <1>7. CallsInv'
    <2>1. \A k \in 1..Len(calls) : calls[k].step \in 1..Len(steps) /\ calls[k].step <= i
      BY DEF IInv, CallsInv
    <2>2. (pc' = "returned" /\ i' = i) \/ (pc' = "prepare" /\ i' = i + 1)
      BY <1>3
    <2> QED
      BY <1>0, <1>3, <2>1, <2>2 DEF CallsInv, Running
  <1>8. RepeatsAreWarranted' /\ AuditFollows'
    BY <1>3 DEF IInv, RepeatsAreWarranted, AuditFollows
  <1>9. TrailInv'
    <2>1. \A a \in 1..Len(audited) : audited[a] \in 1..Len(stepResults) /\ audited[a] <= i
      BY DEF IInv, TrailInv
    <2>2. (pc' = "returned" /\ i' = i) \/ (pc' = "prepare" /\ i' = i + 1)
      BY <1>3
    <2> QED
      BY <1>0, <1>1, <1>3, <2>1, <2>2 DEF TrailInv
  <1> QED
    BY <1>4, <1>5, <1>6, <1>7, <1>8, <1>9 DEF IInv

\* The inductive invariant holds in every state of the pipeline.
THEOREM PipelineInvariant == Spec => []IInv
  <1>1. IInv /\ [Next]_vars => IInv'
    <2> SUFFICES ASSUME IInv, [Next]_vars PROVE IInv'
      OBVIOUS
    <2>1. CASE Next
      BY <2>1, ReturnIInv, RefuseIInv, PrepareIInv, ExecuteIInv, RaiseIInv, AuditIInv, HandleIInv
         DEF Next
    <2>2. CASE UNCHANGED vars
      <3>1. TypeOK' /\ RecordsInv' /\ LeftInv'
        BY <2>2 DEF IInv, vars, TypeOK, RecordsInv, LeftInv, Running
      <3>2. CallsInv'
        BY <2>2 DEF IInv, vars, CallsInv, Running, MaxAttempts, Step
      <3>3. RepeatsAreWarranted' /\ TrailInv' /\ AuditFollows'
        BY <2>2 DEF IInv, vars, RepeatsAreWarranted, TrailInv, AuditFollows
      <3> QED
        BY <3>1, <3>2, <3>3 DEF IInv
    <2> QED
      BY <2>1, <2>2
  <1> QED
    BY InitIInv, <1>1, PTL DEF Spec

\* Every variable keeps its type.
THEOREM PipelineTypes == Spec => []TypeOK
  BY PipelineInvariant, PTL DEF IInv

\* A skill is called again only under RETRY, at most max_retries times, and
\* never after an attempt that completed.
THEOREM RepeatsWarranted == Spec => []RepeatsAreWarranted
  BY PipelineInvariant, PTL DEF IInv

\* The audit trail names executed steps, each once at most and in order.
THEOREM TrailFollows == Spec => []AuditFollows
  BY PipelineInvariant, PTL DEF IInv

-----------------------------------------------------------------------------
(* The count of completed steps, and with it the whole result.             *)

LEMMA GoodGrows ==
  ASSUME NEW q, NEW n \in Nat
  PROVE  /\ IsFiniteSet(Good(q, n))
         /\ q[n + 1].status = "failed" => Good(q, n + 1) = Good(q, n)
         /\ q[n + 1].status # "failed" =>
              Cardinality(Good(q, n + 1)) = Cardinality(Good(q, n)) + 1
  <1>1. IsFiniteSet(1..n)
    BY FS_Interval
  <1>2. IsFiniteSet(Good(q, n))
    BY <1>1, FS_Subset DEF Good
  <1>3. ASSUME q[n + 1].status = "failed" PROVE Good(q, n + 1) = Good(q, n)
    BY <1>3 DEF Good
  <1>4. ASSUME q[n + 1].status # "failed"
        PROVE  Cardinality(Good(q, n + 1)) = Cardinality(Good(q, n)) + 1
    <2>1. Good(q, n + 1) = Good(q, n) \cup {n + 1} /\ n + 1 \notin Good(q, n)
      BY <1>4 DEF Good
    <2> QED
      BY <1>2, <2>1, FS_AddElement
  <1> QED
    BY <1>2, <1>3, <1>4

LEMMA CountHolds == IInv /\ CountInv /\ Next => CountInv'
  <1> SUFFICES ASSUME IInv, CountInv, Next PROVE CountInv'
    OBVIOUS
  <1>0. i \in Nat /\ i >= 1 /\ Len(stepResults) \in Nat
        /\ stepResults \in Seq([step : Nat, status : Statuses, ran : BOOLEAN])
    BY StepsAreSteps DEF IInv, TypeOK
  <1>1. CASE Return \/ Prepare \/ ExecuteRaises \/ UnreadableStrategy
    BY <1>1 DEF Return, Prepare, ExecuteRaises, UnreadableStrategy, CountInv, outcome
  <1>2. CASE UnknownSkill \/ InvalidParams
    <2>1. /\ pc = "prepare" /\ pc' \in {"prepare", "returned"}
          /\ stepResults' = Append(stepResults, [step |-> i, status |-> "failed", ran |-> FALSE])
          /\ stepsCompleted' = stepsCompleted
      BY <1>2 DEF UnknownSkill, InvalidParams, Record, Abort, PassOver, outcome
    <2>2. /\ Len(stepResults') = Len(stepResults) + 1
          /\ \A k \in 1..Len(stepResults) : stepResults'[k] = stepResults[k]
          /\ stepResults'[Len(stepResults) + 1].status = "failed"
      BY <1>0, <2>1
    <2>3. Good(stepResults', Len(stepResults)) = Good(stepResults, Len(stepResults))
      BY <2>2 DEF Good
    <2>4. Good(stepResults', Len(stepResults')) = Good(stepResults', Len(stepResults))
      BY <1>0, <2>2, GoodGrows
    <2> QED
      BY <2>1, <2>3, <2>4 DEF CountInv
  <1>3. CASE Execute
    <2>1. Len(stepResults) = i - 1 /\ pc = "execute" /\ UNCHANGED <<i, stepsCompleted>>
      BY <1>3 DEF Execute, outcome, IInv, RecordsInv
    <2>2. stepsCompleted = Cardinality(Good(stepResults, i - 1))
      BY <2>1 DEF CountInv
    <2>3. CASE pc' = pc /\ stepResults' = stepResults
      BY <2>1, <2>2, <2>3 DEF CountInv
    <2>4. ASSUME NEW status \in Statuses,
                 stepResults' = Append(stepResults, [step |-> i, status |-> status, ran |-> TRUE]),
                 pc' = "audit"
          PROVE  CountInv'
      <3>1. \A k \in 1..(i - 1) : stepResults'[k] = stepResults[k]
        BY <1>0, <2>1, <2>4
      <3>2. Good(stepResults', i - 1) = Good(stepResults, i - 1)
        BY <3>1 DEF Good
      <3> QED
        BY <2>1, <2>2, <2>4, <3>2 DEF CountInv
    <2> QED
      BY <1>3, <2>3, <2>4 DEF Execute, Record
  <1>4. CASE Audit
    BY <1>4 DEF Audit, CountInv, outcome
  <1>5. CASE HandleFailure \/ CountStep
    <2>1. Len(stepResults) = i /\ pc = "handle" /\ stepResults' = stepResults
          /\ Last(stepResults) = stepResults[i] /\ pc' \in {"prepare", "returned"}
      BY <1>5 DEF HandleFailure, CountStep, IInv, RecordsInv, Last, Abort, PassOver
    <2>2. stepsCompleted = Cardinality(Good(stepResults, i - 1))
      BY <2>1 DEF CountInv
    <2>3. i - 1 \in Nat /\ (i - 1) + 1 = i
      BY <1>0
    <2>4. /\ stepResults[i].status = "failed" =>
               Good(stepResults, i) = Good(stepResults, i - 1)
          /\ stepResults[i].status # "failed" =>
               Cardinality(Good(stepResults, i)) = Cardinality(Good(stepResults, i - 1)) + 1
      BY <2>3, GoodGrows
    <2>5. \/ stepResults[i].status = "failed" /\ stepsCompleted' = stepsCompleted
          \/ stepResults[i].status # "failed" /\ stepsCompleted' = stepsCompleted + 1
      BY <1>5, <2>1 DEF HandleFailure, CountStep, Abort, PassOver, outcome
    <2>6. stepsCompleted' = Cardinality(Good(stepResults, i))
      BY <2>2, <2>4, <2>5
    <2> QED
      BY <2>1, <2>6 DEF CountInv
  <1> QED
    BY <1>1, <1>2, <1>3, <1>4, <1>5 DEF Next

\* The result a caller reads accounts for every step: who was passed over and
\* why, who stopped the pipeline, how many were completed.
THEOREM HonestResult == Spec => []ResultIsHonest
  <1>1. Init => CountInv
    <2>1. Good(<<>>, 0) = {}
      BY DEF Good
    <2> QED
      BY <2>1, FS_EmptySet DEF Init, CountInv
  <1>2. IInv /\ CountInv /\ [Next]_vars => CountInv'
    <2>1. ASSUME CountInv, UNCHANGED vars PROVE CountInv'
      BY <2>1 DEF CountInv, vars
    <2> QED
      BY <2>1, CountHolds
  <1>3. IInv /\ CountInv => ResultIsHonest
    <2> SUFFICES ASSUME IInv, CountInv, pc = "returned" PROVE ResultIsHonest
      BY DEF ResultIsHonest
    <2> DEFINE last == IF success THEN Len(steps) ELSE abortedAt
    <2>0. i \in Nat /\ i >= 1 /\ Len(steps) \in Nat /\ success \in BOOLEAN
      BY StepsAreSteps DEF IInv, TypeOK
    <2>1. Len(stepResults) = last /\ last \in Nat
      BY <2>0 DEF IInv, LeftInv
    <2>2. (success /\ i = last + 1) \/ (~success /\ i = last)
      BY <2>0 DEF IInv, LeftInv
    <2>3. \A k \in 1..last : stepResults[k].step = k
      BY <2>1 DEF IInv, RecordsInv
    <2>4. \A k \in 1..Len(calls) : calls[k].step <= last
      BY <2>0, <2>1, <2>2 DEF IInv, CallsInv
    <2>5. ~success => /\ stepResults[last].status = "failed"
                      /\ stepResults[last].ran => steps[last].strategy # "skip"
      BY DEF IInv, LeftInv
    <2>6. \A k \in 1..(IF success THEN last ELSE last - 1) :
            stepResults[k].status = "failed" =>
              \/ steps[k].strategy = "skip"
              \/ ~stepResults[k].ran /\ steps[k].strategy = "retry"
      <3>1. \A k \in 1..(IF success THEN last ELSE last - 1) : k \in 1..Len(stepResults) /\ k < i
        BY <2>1, <2>2
      <3> QED
        BY <3>1 DEF IInv, RecordsInv
    <2>7. stepsCompleted = Cardinality({k \in 1..last : stepResults[k].status # "failed"})
      BY <2>1 DEF CountInv, Good
    <2> QED
      BY <2>1, <2>3, <2>4, <2>5, <2>6, <2>7 DEF ResultIsHonest
  <1> QED
    BY PipelineInvariant, <1>1, <1>2, <1>3, PTL DEF Spec

=============================================================================
