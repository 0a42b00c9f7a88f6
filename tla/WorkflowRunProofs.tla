--------------------------- MODULE WorkflowRunProofs ---------------------------
(***************************************************************************)
(* Proofs about WorkflowRun, for any runs, any tree of parents and any     *)
(* workflows. What the engine promises about its verdict is not inductive: *)
(* it needs where the engine stands (Placed), that only the end of a run   *)
(* writes completed (Judged), and what the row may hold between the        *)
(* moment the status is collected and the moment it is finalized           *)
(* (LastWord). What a webhook tells needs what it has read (Told).         *)
(***************************************************************************)
EXTENDS WorkflowRun, SequenceTheorems, TLAPS

BlockPcs == {"begin", "acting", "pausing", "mailing", "waiting", "triggering", "awaiting",
             "looping"}
Early == {"none", "queued", "context", "refresh", "collect"}
Closing == {"closing", "finalize"}
Ended == {"cleanup", "posting", "over", "raised"}
Kept == Bad \cup {"canceled"}
Outside == {"none", "queued", "context", "refresh", "closing"}

\* Where the engine stands, where it is in the workflow and what it collected agree.
Placed(r) ==
  /\ at[r].block > 0
  /\ pc[r] \in Outside => ~InLoop(r)
  /\ pc[r] \in Early => pre[r] = "none"
  /\ pc[r] \in Closing => pre[r] # "none"
  /\ pre[r] # "none" => at[r].block = Len(workflow[r].blocks) + 1
  /\ pc[r] \in BlockPcs =>
       /\ pre[r] = "none" => at[r].block <= Len(workflow[r].blocks)
       /\ pre[r] # "none" => HasFinally(r)
       /\ InLoop(r) => at[r].inner \in 1 .. Len(Outer(r).body)

\* A run has an engine once it has a row; a blamed run has left its blocks with a
\* bad status, and keeps it.
Judged(r) ==
  /\ status[r] = "absent" => pc[r] = "none"
  /\ status[r] = "completed" => pc[r] \in Ended
  /\ r \in blamed /\ pre[r] = "none" => pc[r] \in Ended \cup {"collect"}
  /\ r \in blamed /\ r \notin stomped =>
       /\ pc[r] = "collect" => status[r] \in Kept
       /\ pre[r] # "none" => pre[r] \in Kept
       /\ status[r] # "completed"

\* A cancel that was collected is still there.
SeenCancel(r) ==
  pre[r] = "canceled" =>
    /\ pc[r] \in Closing \cup Ended
    /\ status[r] = "canceled" \/ r \in stomped

\* What the row may hold if finalizing leaves it alone.
LastWord(r) ==
  /\ pc[r] \notin Ended => returned[r] = "none"
  /\ pc[r] \in Ended /\ by[r] = "engine" => status[r] = returned[r] \/ returned[r] = "none"
  /\ pc[r] \in Closing /\ pre[r] \in Kept /\ ~BorrowsRunning(r) /\ by[r] = "engine" =>
       status[r] = pre[r]

\* A webhook on its way has the status of the row; what was told at the end still
\* holds, or the one who wrote since will tell.
Told(r) ==
  /\ status[r] = "absent" => cancel[r].stage = "none"
  /\ r \notin astray =>
       /\ pc[r] = "posting" => letter[r] = status[r]
       /\ cancel[r].stage = "posting" => cancel[r].letter = status[r]
       /\ /\ Over(r)
          /\ by[r] \notin {"continue", "parent"}
          /\ cancel[r].stage \notin {"telling", "posting"}
          => told[r] = status[r]

RunInv(r) == Placed(r) /\ Judged(r) /\ SeenCancel(r) /\ LastWord(r) /\ Told(r)

IInv == TypeOK /\ \A r \in Runs : RunInv(r)

-----------------------------------------------------------------------------
(* The blocks of a workflow.                                               *)

\* The blocks and the finally block of a run, one after the other, are blocks.
LEMMA SequenceType ==
  ASSUME TypeOK, NEW r \in Runs
  PROVE  /\ workflow[r] \in Workflow
         /\ Len(workflow[r].blocks) \in Nat
         /\ Len(workflow[r].finally) \in Nat
         /\ Sequence(r) \in Seq(Block)
         /\ Len(Sequence(r)) = Len(workflow[r].blocks) + Len(workflow[r].finally)
  <1>1. workflow[r] \in Workflow
    BY RunsAssumption DEF TypeOK
  <1>2. workflow[r].blocks \in Seq(Block) /\ workflow[r].finally \in Seq(Block)
    BY <1>1 DEF Workflow
  <1>3. Sequence(r) \in Seq(Block)
    BY <1>2, ConcatProperties DEF Sequence
  <1>4. Len(Sequence(r)) = Len(workflow[r].blocks) + Len(workflow[r].finally)
    BY <1>2, ConcatProperties DEF Sequence
  <1> QED
    BY <1>1, <1>2, <1>3, <1>4, LenProperties

\* At a block, the engine is at one of the blocks of the run.
LEMMA CurrentType ==
  ASSUME TypeOK, NEW r \in Runs, Placed(r), pc[r] \in BlockPcs
  PROVE  /\ Outer(r) \in Block
         /\ Current(r).kind \in Kinds
  <1> DEFINE b == at[r].block
             m == Len(workflow[r].blocks)
             n == Len(workflow[r].finally)
             l == Len(Sequence(r))
  <1>1. b \in 1 .. l
    <2>1. b \in Nat
      BY DEF TypeOK
    <2>2. b > 0
      BY DEF Placed
    <2>3. m \in Nat /\ n \in Nat /\ l = m + n
      BY SequenceType
    <2>4. b <= m + n
      <3>1. CASE pre[r] = "none"
        <4>1. b <= m
          BY <3>1 DEF Placed
        <4> HIDE DEF b, m, n
        <4> QED
          BY <2>1, <2>3, <4>1
      <3>2. CASE pre[r] # "none"
        <4>1. workflow[r].finally # <<>> /\ workflow[r].finally \in Seq(Block)
          BY <3>2, SequenceType DEF Placed, HasFinally, Workflow
        <4>2. n > 0
          BY <4>1, EmptySeq
        <4>3. b = m + 1
          BY <3>2 DEF Placed
        <4> HIDE DEF b, m, n
        <4> QED
          BY <2>1, <2>3, <4>2, <4>3
      <3> QED
        BY <3>1, <3>2
    <2> HIDE DEF b, m, n, l
    <2> QED
      BY <2>1, <2>2, <2>3, <2>4
  <1>2. Outer(r) \in Block
    BY <1>1, SequenceType, ElementOfSeq DEF Outer
  <1>3. CASE InLoop(r)
    <2>1. Outer(r).body \in Seq(Leaf) /\ at[r].inner \in 1 .. Len(Outer(r).body)
      BY <1>2, <1>3 DEF Block, Placed
    <2>2. Outer(r).body[at[r].inner] \in Leaf
      BY <2>1, ElementOfSeq
    <2> QED
      BY <1>2, <1>3, <2>2 DEF Current, Leaf
  <1>4. CASE ~InLoop(r)
    BY <1>2, <1>4 DEF Current, Block
  <1> QED
    BY <1>2, <1>3, <1>4

-----------------------------------------------------------------------------
(* The building blocks of the actions.                                     *)

Pcs == {"none", "queued", "context", "refresh", "begin", "acting", "pausing", "mailing",
        "waiting", "triggering", "awaiting", "looping", "collect", "closing", "finalize",
        "cleanup", "posting", "over", "raised"}
Writers == {"nobody", "engine", "cancel", "continue", "parent"}
Spots == [block : Nat, value : Nat, inner : Nat]

\* A write of a row changes that row only.
LEMMA WriteRow ==
  ASSUME TypeOK, NEW r \in Runs, NEW s \in Statuses, NEW who \in Writers, Write(r, s, who)
  PROVE  /\ status' \in [Runs -> Statuses] /\ by' \in [Runs -> Writers]
         /\ after' \in [Runs -> Nat]
         /\ status'[r] = s /\ by'[r] = who
         /\ \A x \in Runs : x # r => status'[x] = status[x] /\ by'[x] = by[x]
         /\ astray' \subseteq Runs /\ astray \subseteq astray'
         /\ \A x \in Runs : x # r => (x \in astray' <=> x \in astray)
         /\ pc[r] = "posting" \/ cancel[r].stage = "posting" => r \in astray'
  BY DEF TypeOK, Write, Writers

LEMMA GotoPc ==
  ASSUME TypeOK, NEW r \in Runs, NEW l \in Pcs, Goto(r, l)
  PROVE  /\ pc' \in [Runs -> Pcs] /\ pc'[r] = l
         /\ \A x \in Runs : x # r => pc'[x] = pc[x]
  BY DEF TypeOK, Goto, Pcs

Stages == {"none", "marking", "telling", "posting", "done"}
Requests == [stage : Stages, children : SUBSET Runs, letter : Statuses \cup {"none"}]

\* The request that cancels a run goes on, and its webhook may read the row ...
LEMMA RequestGoesOn ==
  ASSUME TypeOK, NEW r \in Runs, NEW l \in Stages, NEW s \in Statuses \cup {"none"},
         \/ cancel' = [cancel EXCEPT ![r].stage = l] /\ s = cancel[r].letter
         \/ cancel' = [cancel EXCEPT ![r].stage = l, ![r].letter = s]
  PROVE  /\ cancel' \in [Runs -> Requests]
         /\ cancel'[r].stage = l /\ cancel'[r].letter = s
         /\ \A x \in Runs : x # r => cancel'[x] = cancel[x]
  <1>1. cancel \in [Runs -> Requests] /\ cancel[r] \in Requests
    BY DEF TypeOK, Requests, Stages
  <1> DEFINE q == [cancel[r] EXCEPT !.stage = l, !.letter = s]
  <1>2. q \in Requests /\ q.stage = l /\ q.letter = s
    BY <1>1 DEF Requests
  <1>3. cancel' = [cancel EXCEPT ![r] = q]
    <2>1. CASE cancel' = [cancel EXCEPT ![r].stage = l] /\ s = cancel[r].letter
      <3>1. [cancel[r] EXCEPT !.stage = l] = q
        BY <1>1, <2>1 DEF Requests
      <3> QED
        BY <2>1, <3>1
    <2> QED
      BY <2>1
  <1> HIDE DEF q
  <1> QED
    BY <1>1, <1>2, <1>3

\* ... it drops one of the children, with the rest as it was.
LEMMA RequestDrops ==
  ASSUME TypeOK, NEW r \in Runs, NEW D \in SUBSET Runs,
         cancel' = [cancel EXCEPT ![r].children = D]
  PROVE  /\ cancel' \in [Runs -> Requests]
         /\ \A x \in Runs : cancel'[x].stage = cancel[x].stage /\ cancel'[x].letter = cancel[x].letter
  <1>1. cancel \in [Runs -> Requests] /\ cancel[r] \in Requests
    BY DEF TypeOK, Requests, Stages
  <1> DEFINE q == [cancel[r] EXCEPT !.children = D]
  <1>2. q \in Requests /\ q.stage = cancel[r].stage /\ q.letter = cancel[r].letter
    BY <1>1 DEF Requests
  <1>3. cancel' = [cancel EXCEPT ![r] = q]
    OBVIOUS
  <1> HIDE DEF q
  <1> QED
    BY <1>1, <1>2, <1>3

\* What a step that is about run r leaves alone in the others.
Quiet(r) ==
  /\ workflow' = workflow
  /\ \A x \in Runs : x # r =>
       /\ status'[x] = status[x] /\ by'[x] = by[x] /\ pc'[x] = pc[x] /\ at'[x] = at[x]
       /\ pre'[x] = pre[x] /\ returned'[x] = returned[x]
       /\ told'[x] = told[x] /\ letter'[x] = letter[x] /\ (x \in astray' <=> x \in astray)
       /\ cancel'[x].stage = cancel[x].stage /\ cancel'[x].letter = cancel[x].letter
       /\ (x \in blamed' <=> x \in blamed) /\ (x \in stomped' <=> x \in stomped)

LEMMA OtherRuns ==
  ASSUME IInv, NEW r \in Runs, Quiet(r), RunInv(r)'
  PROVE  \A x \in Runs : RunInv(x)'
  <1> SUFFICES ASSUME NEW x \in Runs, x # r PROVE RunInv(x)'
    OBVIOUS
  <1>0. RunInv(x)
    BY DEF IInv
  <1>1. Outer(x)' = Outer(x) /\ InLoop(x)' = InLoop(x) /\ HasFinally(x)' = HasFinally(x)
        /\ BorrowsRunning(x)' = BorrowsRunning(x)
    BY DEF Quiet, Outer, Sequence, InLoop, HasFinally, BorrowsRunning
  <1>2. Placed(x)'
    BY <1>0, <1>1 DEF Quiet, RunInv, Placed
  <1>3. Judged(x)'
    BY <1>0 DEF Quiet, RunInv, Judged
  <1>4. SeenCancel(x)'
    BY <1>0 DEF Quiet, RunInv, SeenCancel
  <1>5. LastWord(x)'
    BY <1>0, <1>1 DEF Quiet, RunInv, LastWord
  <1>6. Told(x)'
    BY <1>0 DEF Quiet, RunInv, Told, Over
  <1> QED
    BY <1>2, <1>3, <1>4, <1>5, <1>6 DEF RunInv

\* Until the engine reads the row for its webhook, only that of a request counts.
LEMMA NotYetTold ==
  ASSUME NEW r \in Runs, Told(r), cancel' = cancel, pc'[r] \notin {"posting", "over", "raised"},
         status'[r] = "absent" => status[r] = "absent",
         r \in astray => r \in astray',
         status'[r] = status[r] \/ (cancel[r].stage = "posting" => r \in astray')
  PROVE  Told(r)'
  BY DEF Told, Over

-----------------------------------------------------------------------------
(* How a block ends.                                                       *)

\* The variables that the end of a block may change keep their types.
EndTypes ==
  /\ status' \in [Runs -> Statuses] /\ by' \in [Runs -> Writers] /\ after' \in [Runs -> Nat]
  /\ pc' \in [Runs -> Pcs] /\ at' \in [Runs -> Spots] /\ blamed' \subseteq Runs
  /\ astray' \subseteq Runs

\* What the end of a block leaves alone whichever way it goes.
EndFrame(r) ==
  /\ UNCHANGED <<workflow, pre, returned, webhook, cancel, stomped>>
  /\ pc[r] \in BlockPcs

LEMMA BlockEndsKeeps ==
  ASSUME IInv, NEW r \in Runs, NEW result \in Results, EndFrame(r), BlockEnds(r, result)
  PROVE  EndTypes /\ Quiet(r) /\ RunInv(r)'
  <1>0. TypeOK /\ RunInv(r)
    BY DEF IInv
  <1>1. Len(workflow[r].blocks) \in Nat
    BY <1>0, SequenceType
  <1>2. CASE InFinally(r)
    <2>1. pc' \in [Runs -> Pcs] /\ pc'[r] = "finalize"
          /\ (\A x \in Runs : x # r => pc'[x] = pc[x])
          /\ UNCHANGED <<row, at, blamed>>
      BY <1>0, <1>2, GotoPc DEF BlockEnds, Pcs
    <2>2. pre[r] # "none"
      BY <1>0, <1>1, <1>2 DEF EndFrame, InFinally, RunInv, Placed, TypeOK
    <2>3. HasFinally(r) /\ HasFinally(r)' /\ (BorrowsRunning(r)' <=> pre[r] \in Bad)
      BY <1>0, <2>2 DEF EndFrame, RunInv, Placed, BorrowsRunning, HasFinally
    <2>4. EndTypes /\ Quiet(r)
      BY <1>0, <2>1 DEF EndTypes, Quiet, EndFrame, TypeOK, row, webhook, Writers, Spots
    <2>5. Placed(r)'
      BY <1>0, <2>1, <2>2 DEF RunInv, Placed, EndFrame, Early, Closing, BlockPcs, Outside
    <2>6. Judged(r)'
      BY <1>0, <2>1, <2>2 DEF RunInv, Judged, EndFrame, row, BlockPcs, Ended
    <2>7. SeenCancel(r)'
      BY <1>0, <2>1 DEF RunInv, SeenCancel, EndFrame, row, BlockPcs, Closing, Ended
    <2>8. LastWord(r)'
      BY <1>0, <2>1, <2>3 DEF RunInv, LastWord, EndFrame, HasFinally, Kept, Ended, BlockPcs
    <2>9. Told(r)'
      BY <1>0, <2>1, NotYetTold DEF RunInv, EndFrame, row
    <2> QED
      BY <2>4, <2>5, <2>6, <2>7, <2>8, <2>9 DEF RunInv
  <1>3. ASSUME ~InFinally(r) PROVE pre[r] = "none" /\ r \notin blamed
    <2>1. pre[r] = "none"
      BY <1>0, <1>1, <1>3 DEF EndFrame, InFinally, RunInv, Placed, TypeOK
    <2> QED
      BY <1>0, <2>1 DEF RunInv, Judged, EndFrame, BlockPcs, Ended
  <1>4. CASE ~InFinally(r) /\ GoesOn(Outer(r), result)
    <2>1. /\ at' = [at EXCEPT ![r] = [Start EXCEPT !.block = at[r].block + 1]]
          /\ Goto(r, "refresh") /\ UNCHANGED <<row, blamed>>
      BY <1>4 DEF BlockEnds
    <2>2. pc' \in [Runs -> Pcs] /\ pc'[r] = "refresh"
          /\ (\A x \in Runs : x # r => pc'[x] = pc[x])
      BY <1>0, <2>1, GotoPc DEF Pcs
    <2>3. at' \in [Runs -> Spots] /\ at'[r].block > 0 /\ at'[r].value = 0
          /\ (\A x \in Runs : x # r => at'[x] = at[x])
      <3>1. at \in [Runs -> Spots] /\ at[r].block \in Nat
        BY <1>0 DEF TypeOK, Spots
      <3> DEFINE spot == [Start EXCEPT !.block = at[r].block + 1]
      <3>2. spot \in Spots /\ spot.block > 0 /\ spot.value = 0
        <4> DEFINE n == at[r].block + 1
        <4>1. n \in Nat /\ n > 0
          BY <3>1
        <4> HIDE DEF n
        <4>2. /\ [Start EXCEPT !.block = n] \in Spots
              /\ [Start EXCEPT !.block = n].block = n /\ [Start EXCEPT !.block = n].value = 0
          BY <4>1 DEF Start, Spots
        <4> QED
          BY <4>1, <4>2 DEF n
      <3>3. at' = [at EXCEPT ![r] = spot]
        BY <2>1
      <3> HIDE DEF spot
      <3> QED
        BY <3>1, <3>2, <3>3
    <2>4. EndTypes /\ Quiet(r)
      BY <1>0, <2>1, <2>2, <2>3 DEF EndTypes, Quiet, EndFrame, TypeOK, row, webhook, Writers
    <2>5. Placed(r)'
      BY <1>3, <1>4, <2>2, <2>3 DEF Placed, EndFrame, InLoop, Early, Closing, BlockPcs, Outside
    <2>6. Judged(r)'
      BY <1>0, <1>3, <1>4, <2>1, <2>2 DEF RunInv, Judged, EndFrame, row, BlockPcs, Ended
    <2>7. SeenCancel(r)' /\ LastWord(r)'
      BY <1>0, <1>3, <1>4, <2>2 DEF RunInv, SeenCancel, LastWord, EndFrame, Ended, Closing, BlockPcs
    <2>8. Told(r)'
      BY <1>0, <2>1, <2>2, NotYetTold DEF RunInv, EndFrame, row
    <2> QED
      BY <2>4, <2>5, <2>6, <2>7, <2>8 DEF RunInv
  <1>5. CASE ~InFinally(r) /\ ~GoesOn(Outer(r), result)
    <2>1. /\ Write(r, Verdict(result), "engine") /\ Goto(r, "collect") /\ UNCHANGED at
          /\ blamed' = IF result = "canceled" THEN blamed ELSE blamed \cup {r}
      BY <1>5 DEF BlockEnds
    <2>2. Verdict(result) \in Kept
      BY <1>5 DEF GoesOn, Verdict, Results, Kept, Bad
    <2>3. /\ status' \in [Runs -> Statuses] /\ by' \in [Runs -> Writers]
          /\ after' \in [Runs -> Nat] /\ status'[r] \in Kept
          /\ \A x \in Runs : x # r => status'[x] = status[x] /\ by'[x] = by[x]
          /\ astray' \subseteq Runs /\ astray \subseteq astray'
          /\ \A x \in Runs : x # r => (x \in astray' <=> x \in astray)
          /\ cancel[r].stage = "posting" => r \in astray'
      BY <1>0, <2>1, <2>2, WriteRow DEF Kept, Bad, Statuses, Writers
    <2>4. pc' \in [Runs -> Pcs] /\ pc'[r] = "collect"
          /\ (\A x \in Runs : x # r => pc'[x] = pc[x])
      BY <1>0, <2>1, GotoPc DEF Pcs
    <2>5. EndTypes /\ Quiet(r)
      BY <1>0, <2>1, <2>3, <2>4 DEF EndTypes, Quiet, EndFrame, TypeOK, webhook, Spots
    <2>6. Placed(r)'
      BY <1>0, <1>3, <1>5, <2>1, <2>4 DEF RunInv, Placed, EndFrame, Early, Closing, BlockPcs, Outside
    <2>7. Judged(r)'
      BY <1>3, <1>5, <2>3, <2>4 DEF Judged, EndFrame, Ended, Kept, Bad
    <2>8. SeenCancel(r)' /\ LastWord(r)'
      BY <1>0, <1>3, <1>5, <2>4 DEF RunInv, SeenCancel, LastWord, EndFrame, Ended, Closing, BlockPcs
    <2>9. Told(r)'
      BY <1>0, <2>3, <2>4, NotYetTold DEF RunInv, EndFrame, Kept, Bad
    <2> QED
      BY <2>5, <2>6, <2>7, <2>8, <2>9 DEF RunInv
  <1> QED
    BY <1>2, <1>4, <1>5

\* An inner block of a loop leads to the next one or ends the loop.
LEMMA EndsKeeps ==
  ASSUME IInv, NEW r \in Runs, NEW result \in Results, EndFrame(r), Ends(r, result)
  PROVE  EndTypes /\ Quiet(r) /\ RunInv(r)'
  <1>0. TypeOK /\ RunInv(r)
    BY DEF IInv
  <1>1. CASE ~InLoop(r)
    BY <1>1, BlockEndsKeeps DEF Ends
  <1>2. CASE InLoop(r) /\ BlockEnds(r, LoopResult(Current(r), result))
    <2>1. LoopResult(Current(r), result) \in Results
      BY DEF LoopResult, Results
    <2> QED
      BY <1>2, <2>1, BlockEndsKeeps
  <1>3. ASSUME InLoop(r), NEW v \in Nat, NEW i \in 1 .. Len(Outer(r).body),
               at' = [at EXCEPT ![r].value = v, ![r].inner = i],
               Goto(r, "begin"), UNCHANGED <<row, blamed>>
        PROVE  EndTypes /\ Quiet(r) /\ RunInv(r)'
    <2>1. pc' \in [Runs -> Pcs] /\ pc'[r] = "begin"
          /\ (\A x \in Runs : x # r => pc'[x] = pc[x])
      BY <1>0, <1>3, GotoPc DEF Pcs
    <2>2. at' = [at EXCEPT ![r] = [@ EXCEPT !.value = v, !.inner = i]]
      BY <1>0, <1>3 DEF TypeOK
    <2>3. at' \in [Runs -> Spots] /\ at'[r].block = at[r].block /\ at'[r].inner = i
          /\ (\A x \in Runs : x # r => at'[x] = at[x])
      <3>1. at \in [Runs -> Spots] /\ at[r] \in Spots /\ i \in Nat
        BY <1>0 DEF TypeOK, Spots
      <3> DEFINE spot == [at[r] EXCEPT !.value = v, !.inner = i]
      <3>2. spot \in Spots /\ spot.block = at[r].block /\ spot.inner = i
        BY <3>1 DEF Spots
      <3>3. at' = [at EXCEPT ![r] = spot]
        BY <2>2
      <3> HIDE DEF spot
      <3> QED
        BY <3>1, <3>2, <3>3
    <2>4. Outer(r)' = Outer(r)
      BY <2>3 DEF Outer, Sequence, EndFrame
    <2>5. EndTypes /\ Quiet(r)
      BY <1>0, <1>3, <2>1, <2>3 DEF EndTypes, Quiet, EndFrame, TypeOK, row, webhook, Writers
    <2>6. Placed(r)'
      BY <1>0, <2>1, <2>3, <2>4 DEF RunInv, Placed, EndFrame, HasFinally, Early, Closing, BlockPcs, Outside
    <2>7. Judged(r)'
      BY <1>0, <1>3, <2>1 DEF RunInv, Judged, EndFrame, row, BlockPcs, Ended
    <2>8. SeenCancel(r)' /\ LastWord(r)'
      BY <1>0, <2>1 DEF RunInv, SeenCancel, LastWord, EndFrame, Ended, Closing, BlockPcs
    <2>9. Told(r)'
      BY <1>0, <1>3, <2>1, NotYetTold DEF RunInv, EndFrame, row
    <2> QED
      BY <2>5, <2>6, <2>7, <2>8, <2>9 DEF RunInv
  <1>4. at[r].value \in Nat /\ at[r].inner \in Nat /\ at \in [Runs -> Spots]
    BY <1>0 DEF TypeOK, Spots
  <1>5. Len(Outer(r).body) \in Nat
    BY <1>0, CurrentType, LenProperties DEF RunInv, EndFrame, Block
  <1>6. CASE /\ InLoop(r) /\ at[r].inner < Len(Outer(r).body)
             /\ at' = [at EXCEPT ![r].inner = @ + 1] /\ Goto(r, "begin") /\ UNCHANGED <<row, blamed>>
    <2>1. at' = [at EXCEPT ![r].value = at[r].value, ![r].inner = at[r].inner + 1]
      BY <1>4, <1>6 DEF Spots
    <2>2. at[r].inner + 1 \in 1 .. Len(Outer(r).body)
      BY <1>4, <1>5, <1>6
    <2> QED
      BY <1>3, <1>4, <1>6, <2>1, <2>2
  <1>7. CASE /\ InLoop(r)
             /\ at' = [at EXCEPT ![r].value = @ + 1, ![r].inner = 1] /\ Goto(r, "begin")
             /\ UNCHANGED <<row, blamed>>
    <2>1. 1 \in 1 .. Len(Outer(r).body)
      BY <1>0, <1>5, <1>7 DEF RunInv, Placed, EndFrame
    <2>2. at' = [at EXCEPT ![r].value = at[r].value + 1, ![r].inner = 1]
      BY <1>4, <1>7
    <2>3. at[r].value + 1 \in Nat
      BY <1>4
    <2> QED
      BY <1>3, <1>7, <2>1, <2>2, <2>3
  <1> QED
    BY <1>1, <1>2, <1>6, <1>7 DEF Ends, InnerEnds

\* A block that ends, in any of the actions that end one, keeps the invariant.
LEMMA EndingKeeps ==
  ASSUME IInv, NEW r \in Runs, NEW result \in Results, pc[r] \in BlockPcs, Ends(r, result),
         UNCHANGED <<workflow, pre, returned, webhook, cancel, cont, stomped>>,
         rejected' \subseteq Runs
  PROVE  IInv'
  <1>1. EndTypes /\ Quiet(r) /\ RunInv(r)'
    BY EndsKeeps DEF EndFrame
  <1>2. TypeOK'
    BY <1>1 DEF IInv, TypeOK, EndTypes, webhook, Pcs, Spots, Writers
  <1> QED
    BY <1>1, <1>2, OtherRuns DEF IInv

-----------------------------------------------------------------------------
(* The engine, action by action.                                           *)

LEMMA BeginKeeps ==
  ASSUME IInv, NEW r \in Runs, Begin(r) \/ StartBlocks(r)
  PROVE  IInv'
  <1>0. TypeOK /\ RunInv(r)
    BY DEF IInv
  <1>1. Write(r, "running", "engine") /\ pc[r] \in {"queued", "context"}
        /\ UNCHANGED <<workflow, at, pre, returned, webhook, clients, blamed>>
    BY DEF Begin, StartBlocks
  <1>2. /\ status' \in [Runs -> Statuses] /\ by' \in [Runs -> Writers] /\ after' \in [Runs -> Nat]
        /\ status'[r] = "running"
        /\ \A x \in Runs : x # r => status'[x] = status[x] /\ by'[x] = by[x]
        /\ astray' \subseteq Runs /\ astray \subseteq astray'
        /\ \A x \in Runs : x # r => (x \in astray' <=> x \in astray)
        /\ cancel[r].stage = "posting" => r \in astray'
    BY <1>0, <1>1, WriteRow DEF Statuses, Writers
  <1>3. /\ pc' \in [Runs -> Pcs] /\ pc'[r] \in {"context", "refresh", "cleanup"}
        /\ \A x \in Runs : x # r => pc'[x] = pc[x]
    BY <1>0, GotoPc DEF Begin, StartBlocks, Pcs
  <1>4. TypeOK'
    BY <1>0, <1>1, <1>2, <1>3 DEF TypeOK, Pcs, Writers, clients, webhook
  <1>5. Quiet(r)
    BY <1>1, <1>2, <1>3 DEF Quiet, clients, webhook
  <1>6. Placed(r)'
    BY <1>0, <1>1, <1>3 DEF RunInv, Placed, InLoop, Early, Closing, BlockPcs, Outside
  <1>7. Judged(r)' /\ SeenCancel(r)'
    BY <1>0, <1>1, <1>2, <1>3 DEF RunInv, Placed, Judged, SeenCancel, Early, Ended, clients
  <1>8. LastWord(r)'
    BY <1>0, <1>1, <1>2, <1>3 DEF RunInv, LastWord, Ended, Closing
  <1>9. Told(r)'
    BY <1>0, <1>1, <1>2, <1>3, NotYetTold DEF RunInv, clients
  <1> QED
    BY <1>4, <1>5, <1>6, <1>7, <1>8, <1>9, OtherRuns DEF IInv, RunInv

LEMMA ContextFailsKeeps ==
  ASSUME IInv, NEW r \in Runs, ContextFails(r)
  PROVE  IInv'
  <1>0. TypeOK /\ RunInv(r) /\ pc[r] = "context"
        /\ UNCHANGED <<workflow, at, pre, webhook, clients>>
    BY DEF IInv, ContextFails
  <1>1. /\ status' \in [Runs -> Statuses] /\ by' \in [Runs -> Writers] /\ after' \in [Runs -> Nat]
        /\ status'[r] = "failed"
        /\ \A x \in Runs : x # r => status'[x] = status[x] /\ by'[x] = by[x]
        /\ astray' \subseteq Runs /\ astray \subseteq astray'
        /\ \A x \in Runs : x # r => (x \in astray' <=> x \in astray)
        /\ cancel[r].stage = "posting" => r \in astray'
    BY <1>0, WriteRow DEF ContextFails, Statuses, Writers
  <1>2. /\ pc' \in [Runs -> Pcs] /\ pc'[r] = "cleanup"
        /\ \A x \in Runs : x # r => pc'[x] = pc[x]
    BY <1>0, GotoPc DEF ContextFails, Pcs
  <1>3. TypeOK'
    BY <1>0, <1>1, <1>2 DEF ContextFails, TypeOK, Pcs, Writers, clients, webhook
  <1>4. Quiet(r)
    BY <1>0, <1>1, <1>2 DEF ContextFails, Quiet, TypeOK, clients, webhook
  <1>5. Placed(r)'
    BY <1>0, <1>2 DEF RunInv, Placed, Early, Closing, BlockPcs, Outside
  <1>6. Judged(r)' /\ SeenCancel(r)'
    BY <1>0, <1>1, <1>2
    DEF ContextFails, RunInv, Placed, Judged, SeenCancel, Early, Ended, Kept, Bad, clients
  <1>7. returned'[r] = "failed"
    BY <1>0 DEF ContextFails, TypeOK
  <1>8. LastWord(r)'
    BY <1>1, <1>2, <1>7 DEF LastWord, Ended, Closing
  <1>9. Told(r)'
    BY <1>0, <1>1, <1>2, NotYetTold DEF RunInv, clients
  <1> QED
    BY <1>3, <1>4, <1>5, <1>6, <1>8, <1>9, OtherRuns DEF IInv, RunInv

\* What execute_workflow raises leaves the row as it is.
LEMMA RaisesKeeps ==
  ASSUME IInv, NEW r \in Runs, Raises(r)
  PROVE  IInv'
  <1>0. TypeOK /\ RunInv(r)
        /\ UNCHANGED <<workflow, status, by, after, at, pre, returned, webhook, clients, blamed>>
    BY DEF IInv, Raises, row
  <1>1. /\ pc' \in [Runs -> Pcs]
        /\ \/ pc[r] \in {"queued", "context"} /\ pc'[r] = "raised" /\ r \in astray'
           \/ pc[r] \in {"context", "collect", "closing", "finalize"} /\ pc'[r] = "cleanup"
              /\ astray' = astray
        /\ \A x \in Runs : x # r => pc'[x] = pc[x]
    BY <1>0, GotoPc DEF Raises, Pcs, row
  <1>2. astray' \subseteq Runs /\ (\A x \in Runs : x # r => (x \in astray' <=> x \in astray))
    BY <1>0 DEF Raises, TypeOK, row
  <1>3. TypeOK'
    BY <1>0, <1>1, <1>2 DEF TypeOK, Pcs, clients, webhook
  <1>4. Quiet(r)
    BY <1>0, <1>1, <1>2 DEF Quiet, clients, webhook
  <1>5. Placed(r)'
    BY <1>0, <1>1 DEF RunInv, Placed, Early, Closing, BlockPcs, Outside
  <1>6. Judged(r)' /\ SeenCancel(r)'
    BY <1>0, <1>1
    DEF RunInv, Placed, Judged, SeenCancel, Early, Closing, Ended, clients
  <1>7. LastWord(r)'
    BY <1>0, <1>1 DEF RunInv, LastWord, Ended, Closing
  <1>8. Told(r)'
    BY <1>0, <1>1 DEF RunInv, Told, Over, clients
  <1> QED
    BY <1>3, <1>4, <1>5, <1>6, <1>7, <1>8, OtherRuns DEF IInv, RunInv

\* Steps of the engine that only move it on.
LEMMA MovesKeep ==
  ASSUME IInv, NEW r \in Runs, Refresh(r) \/ MailSent(r) \/ BeginBlock(r)
  PROVE  IInv'
  <1>0. TypeOK /\ RunInv(r)
    BY DEF IInv
  <1>1. UNCHANGED <<workflow, status, by, astray, at, pre, returned, webhook, clients, blamed>>
    BY DEF Refresh, MailSent, BeginBlock, row
  <1>2. after' \in [Runs -> Nat]
    BY <1>0 DEF Refresh, MailSent, BeginBlock, row, TypeOK
  <1>3. /\ pc' \in [Runs -> Pcs] /\ pc'[r] \in BlockPcs \cup {"collect"}
        /\ \A x \in Runs : x # r => pc'[x] = pc[x]
        /\ pc[r] = "refresh" \/ (pc[r] \in BlockPcs /\ pc'[r] \in BlockPcs)
        /\ pc[r] = "refresh" /\ pc'[r] \in BlockPcs => ~InFinally(r) /\ pc'[r] = "begin"
    <2>1. CASE Refresh(r)
      BY <1>0, <2>1, GotoPc DEF Refresh, Pcs, BlockPcs
    <2>2. CASE MailSent(r)
      BY <1>0, <2>2, GotoPc DEF MailSent, Pcs, BlockPcs
    <2>3. CASE BeginBlock(r)
      <3>1. Current(r).kind \in Kinds
        BY <1>0, <2>3, CurrentType DEF BeginBlock, RunInv, BlockPcs
      <3>2. Waits[Current(r).kind] \in BlockPcs
        BY <3>1 DEF Kinds, Waits, BlockPcs
      <3>3. Waits[Current(r).kind] \in Pcs
        BY <3>2 DEF BlockPcs, Pcs
      <3> QED
        BY <1>0, <2>3, <3>2, <3>3, GotoPc DEF BeginBlock, BlockPcs
    <2> QED
      BY <2>1, <2>2, <2>3
  <1>4. TypeOK'
    BY <1>0, <1>1, <1>2, <1>3 DEF TypeOK, Pcs, clients, webhook
  <1>5. Quiet(r)
    BY <1>1, <1>3 DEF Quiet, clients, webhook
  <1>6. Outer(r)' = Outer(r) /\ InLoop(r)' = InLoop(r) /\ HasFinally(r)' = HasFinally(r)
    BY <1>1 DEF Outer, Sequence, InLoop, HasFinally
  <1>7. Placed(r)'
    <2>1. CASE pc[r] = "refresh"
      <3>1. pre[r] = "none" /\ pre'[r] = "none" /\ at' = at /\ workflow' = workflow
            /\ at[r].block > 0 /\ ~InLoop(r)
        BY <1>0, <1>1, <2>1 DEF RunInv, Placed, Early, Outside
      <3>2. pc'[r] \in BlockPcs => at[r].block <= Len(workflow[r].blocks)
        <4> DEFINE b == at[r].block
                   m == Len(workflow[r].blocks)
        <4>1. b \in Nat /\ m \in Nat
          BY <1>0, SequenceType DEF TypeOK
        <4>2. pc'[r] \in BlockPcs => ~(b > m)
          BY <1>3, <2>1 DEF InFinally
        <4> HIDE DEF b, m
        <4>3. pc'[r] \in BlockPcs => b <= m
          BY <4>1, <4>2
        <4> QED
          BY <4>3 DEF b, m
      <3> QED
        BY <1>3, <1>6, <2>1, <3>1, <3>2 DEF Placed, Early, Closing, BlockPcs, Outside
    <2>2. CASE pc[r] # "refresh"
      <3>1. pc[r] \in BlockPcs /\ pc'[r] \in BlockPcs
        BY <1>3, <2>2
      <3> QED
        BY <1>0, <1>1, <1>6, <3>1 DEF RunInv, Placed, Early, Closing, BlockPcs, Outside
    <2> QED
      BY <2>1, <2>2
  <1>8. Judged(r)'
    <2>1. pc[r] = "refresh" => pre[r] = "none"
      BY <1>0 DEF RunInv, Placed, Early
    <2> QED
      BY <1>0, <1>1, <1>3, <2>1 DEF RunInv, Judged, Ended, BlockPcs, clients
  <1>9. SeenCancel(r)'
    BY <1>0, <1>1, <1>3 DEF RunInv, SeenCancel, Placed, Early, Closing, Ended, BlockPcs
  <1>10. LastWord(r)'
    BY <1>0, <1>1, <1>3 DEF RunInv, LastWord, Closing, Ended, BlockPcs
  <1>11. Told(r)'
    BY <1>0, <1>1, <1>3, NotYetTold DEF RunInv, BlockPcs, clients
  <1> QED
    BY <1>4, <1>5, <1>7, <1>8, <1>9, <1>10, <1>11, OtherRuns DEF IInv, RunInv

LEMMA BlockBreaksKeeps ==
  ASSUME IInv, NEW r \in Runs, BlockBreaks(r)
  PROVE  IInv'
  <1>0. TypeOK /\ RunInv(r) /\ pc[r] = "begin" /\ pc[r] \in BlockPcs
    BY DEF IInv, BlockBreaks, BlockPcs
  <1>1. CASE InFinally(r)
    <2>1. BlockEnds(r, "failed")
      BY <1>1 DEF BlockBreaks, BlockEnds
    <2>2. EndFrame(r)
      BY <1>0 DEF EndFrame, BlockBreaks, clients
    <2> QED
      BY <1>0, <2>1, <2>2, EndingKeeps DEF BlockBreaks, Ends, Results, clients, IInv, TypeOK
  <1>2. CASE ~InFinally(r)
    <2>1. /\ Write(r, "failed", "engine") /\ Goto(r, "collect") /\ blamed' = blamed \cup {r}
          /\ UNCHANGED <<workflow, at, pre, returned, webhook, clients>>
      BY <1>2 DEF BlockBreaks
    <2>2. /\ status' \in [Runs -> Statuses] /\ by' \in [Runs -> Writers]
          /\ after' \in [Runs -> Nat] /\ status'[r] = "failed"
          /\ \A x \in Runs : x # r => status'[x] = status[x] /\ by'[x] = by[x]
          /\ astray' \subseteq Runs /\ astray \subseteq astray'
          /\ \A x \in Runs : x # r => (x \in astray' <=> x \in astray)
          /\ cancel[r].stage = "posting" => r \in astray'
      BY <1>0, <2>1, WriteRow DEF Statuses, Writers
    <2>3. pc' \in [Runs -> Pcs] /\ pc'[r] = "collect"
          /\ (\A x \in Runs : x # r => pc'[x] = pc[x])
      BY <1>0, <2>1, GotoPc DEF Pcs
    <2>4. TypeOK'
      BY <1>0, <2>1, <2>2, <2>3 DEF TypeOK, Pcs, Writers, clients, webhook
    <2>5. Quiet(r)
      BY <2>1, <2>2, <2>3 DEF Quiet, clients, webhook
    <2>6. pre[r] = "none"
      <3> DEFINE b == at[r].block
                 m == Len(workflow[r].blocks)
      <3>1. b \in Nat /\ m \in Nat /\ ~(b > m) /\ (pre[r] # "none" => b = m + 1)
        BY <1>0, <1>2, SequenceType DEF TypeOK, InFinally, RunInv, Placed
      <3> HIDE DEF b, m
      <3> QED
        BY <3>1
    <2>7. Placed(r)'
      BY <1>0, <2>1, <2>3, <2>6 DEF RunInv, Placed, Early, Closing, BlockPcs, Outside
    <2>8. Judged(r)'
      BY <2>1, <2>2, <2>3, <2>6 DEF Judged, Ended, Kept, Bad
    <2>9. SeenCancel(r)' /\ LastWord(r)'
      BY <1>0, <2>1, <2>3, <2>6 DEF RunInv, SeenCancel, LastWord, Closing, Ended
    <2>10. Told(r)'
      BY <1>0, <2>1, <2>2, <2>3, NotYetTold DEF RunInv, clients
    <2> QED
      BY <2>4, <2>5, <2>7, <2>8, <2>9, <2>10, OtherRuns DEF IInv, RunInv
  <1> QED
    BY <1>1, <1>2

\* The blocks that end.
LEMMA OutcomesKeep ==
  ASSUME IInv, NEW r \in Runs,
         Act(r) \/ HumanIsLate(r) \/ HumanAnswers(r) \/ ChildIsOver(r)
         \/ (BlockFails(r) /\ pc[r] # "begin")
  PROVE  IInv'
  <1>1. PICK result \in Results : Ends(r, result)
    <2>1. CASE Act(r)
      BY <2>1 DEF Act, Results
    <2>2. CASE ChildIsOver(r)
      BY <2>2 DEF ChildIsOver, ChildResult, Results
    <2> QED
      BY <2>1, <2>2 DEF BlockFails, HumanIsLate, HumanAnswers, Results
  <1>2. pc[r] \in BlockPcs
    BY DEF Act, BlockFails, HumanIsLate, HumanAnswers, ChildIsOver, BlockPcs
  <1>3. UNCHANGED <<workflow, pre, returned, webhook, cancel, cont, stomped>>
    BY DEF Act, BlockFails, HumanIsLate, HumanAnswers, ChildIsOver, clients
  <1>4. rejected' \subseteq Runs
    BY DEF Act, BlockFails, HumanIsLate, HumanAnswers, ChildIsOver, clients, IInv, TypeOK
  <1> QED
    BY <1>1, <1>2, <1>3, <1>4, EndingKeeps

\* A block that ends the loop it is in, or is a loop itself.
LEMMA OuterEndKeeps ==
  ASSUME IInv, NEW r \in Runs, NEW result \in Results, pc[r] \in BlockPcs, BlockEnds(r, result),
         UNCHANGED <<workflow, pre, returned, webhook, clients>>
  PROVE  IInv'
  <1>1. EndTypes /\ Quiet(r) /\ RunInv(r)'
    BY BlockEndsKeeps DEF EndFrame, clients
  <1>2. TypeOK'
    BY <1>1 DEF IInv, TypeOK, EndTypes, Pcs, Spots, Writers, clients, webhook
  <1> QED
    BY <1>1, <1>2, OtherRuns DEF IInv

LEMMA BlockFailsKeeps ==
  ASSUME IInv, NEW r \in Runs, BlockFails(r)
  PROVE  IInv'
  <1>1. CASE pc[r] = "begin"
    <2>1. BlockEnds(r, "failed") /\ UNCHANGED <<workflow, pre, returned, webhook, clients>>
      BY <1>1 DEF BlockFails
    <2> QED
      BY <1>1, <2>1, OuterEndKeeps DEF Results, BlockPcs
  <1>2. CASE pc[r] # "begin"
    BY <1>2, OutcomesKeep
  <1> QED
    BY <1>1, <1>2

LEMMA LoopKeeps ==
  ASSUME IInv, NEW r \in Runs, Loop(r)
  PROVE  IInv'
  <1>0. TypeOK /\ RunInv(r) /\ pc[r] = "looping" /\ pc[r] \in BlockPcs
        /\ UNCHANGED <<workflow, pre, returned, webhook, clients>>
    BY DEF IInv, Loop, BlockPcs
  <1>1. CASE Outer(r).values = 0 \/ Outer(r).body = <<>>
    <2>1. PICK result \in {"completed", "terminated"} : BlockEnds(r, result)
      BY <1>1 DEF Loop, EmptyLoopResults
    <2> QED
      BY <1>0, <2>1, OuterEndKeeps DEF Results
  <1>2. CASE ~(Outer(r).values = 0 \/ Outer(r).body = <<>>)
    <2>1. /\ at' = [at EXCEPT ![r].value = 1, ![r].inner = 1]
          /\ Goto(r, "begin") /\ UNCHANGED <<row, blamed>>
      BY <1>2 DEF Loop
    <2>2. 1 \in 1 .. Len(Outer(r).body)
      <3> DEFINE body == Outer(r).body
      <3>1. body \in Seq(Leaf) /\ body # <<>>
        BY <1>0, <1>2, CurrentType DEF RunInv, Block
      <3> HIDE DEF body
      <3>2. Len(body) \in Nat /\ Len(body) > 0
        BY <3>1, EmptySeq, LenProperties
      <3>3. 1 \in 1 .. Len(body)
        BY <3>2
      <3> QED
        BY <3>3 DEF body
    <2>3. pc' \in [Runs -> Pcs] /\ pc'[r] = "begin"
          /\ (\A x \in Runs : x # r => pc'[x] = pc[x])
      BY <1>0, <2>1, GotoPc DEF Pcs
    <2>4. at' \in [Runs -> Spots] /\ at'[r].block = at[r].block /\ at'[r].inner = 1
          /\ (\A x \in Runs : x # r => at'[x] = at[x])
      <3>1. at \in [Runs -> Spots] /\ at[r] \in Spots
        BY <1>0 DEF TypeOK, Spots
      <3> DEFINE spot == [at[r] EXCEPT !.value = 1, !.inner = 1]
      <3>2. spot \in Spots /\ spot.block = at[r].block /\ spot.inner = 1
        BY <3>1 DEF Spots
      <3>3. at' = [at EXCEPT ![r] = spot]
        BY <2>1, <3>1
      <3> HIDE DEF spot
      <3> QED
        BY <3>1, <3>2, <3>3
    <2>5. TypeOK'
      BY <1>0, <2>1, <2>3, <2>4 DEF TypeOK, Pcs, Spots, clients, webhook, row
    <2>6. Quiet(r)
      BY <1>0, <2>1, <2>3, <2>4 DEF Quiet, clients, webhook, row
    <2>7. Outer(r)' = Outer(r) /\ HasFinally(r)' = HasFinally(r)
      BY <1>0, <2>4 DEF Outer, Sequence, HasFinally
    <2>8. Placed(r)'
      BY <1>0, <2>2, <2>3, <2>4, <2>7
      DEF RunInv, Placed, Early, Closing, BlockPcs, Outside
    <2>9. Judged(r)' /\ SeenCancel(r)'
      BY <1>0, <2>1, <2>3
      DEF RunInv, Judged, SeenCancel, Closing, Ended, BlockPcs, clients, row
    <2>10. LastWord(r)'
      BY <1>0, <2>3 DEF RunInv, LastWord, Closing, Ended
    <2>11. Told(r)'
      BY <1>0, <2>1, <2>3, NotYetTold DEF RunInv, clients, row
    <2> QED
      BY <2>5, <2>6, <2>8, <2>9, <2>10, <2>11, OtherRuns DEF IInv, RunInv
  <1> QED
    BY <1>1, <1>2

LEMMA PauseKeeps ==
  ASSUME IInv, NEW r \in Runs, Pause(r)
  PROVE  IInv'
  <1>0. TypeOK /\ RunInv(r) /\ pc[r] = "pausing"
        /\ UNCHANGED <<workflow, at, pre, returned, webhook, clients, blamed>>
    BY DEF IInv, Pause
  <1>1. /\ status' \in [Runs -> Statuses] /\ by' \in [Runs -> Writers] /\ after' \in [Runs -> Nat]
        /\ status'[r] = "paused"
        /\ \A x \in Runs : x # r => status'[x] = status[x] /\ by'[x] = by[x]
        /\ astray' \subseteq Runs /\ astray \subseteq astray'
        /\ \A x \in Runs : x # r => (x \in astray' <=> x \in astray)
        /\ cancel[r].stage = "posting" => r \in astray'
    BY <1>0, WriteRow DEF Pause, Statuses, Writers
  <1>2. /\ pc' \in [Runs -> Pcs] /\ pc'[r] = "mailing"
        /\ \A x \in Runs : x # r => pc'[x] = pc[x]
    BY <1>0, GotoPc DEF Pause, Pcs
  <1>3. TypeOK' /\ Quiet(r)
    BY <1>0, <1>1, <1>2 DEF Quiet, TypeOK, Pcs, Writers, clients, webhook
  <1>4. Outer(r)' = Outer(r) /\ InLoop(r)' = InLoop(r) /\ HasFinally(r)' = HasFinally(r)
    BY <1>0 DEF Outer, Sequence, InLoop, HasFinally
  <1>5. Placed(r)'
    BY <1>0, <1>2, <1>4 DEF RunInv, Placed, Early, Closing, BlockPcs, Outside
  <1>6. Judged(r)' /\ SeenCancel(r)' /\ LastWord(r)'
    BY <1>0, <1>1, <1>2
    DEF RunInv, Judged, SeenCancel, LastWord, Closing, Ended, clients
  <1>7. Told(r)'
    BY <1>0, <1>1, <1>2, NotYetTold DEF RunInv, clients
  <1> QED
    BY <1>3, <1>5, <1>6, <1>7, OtherRuns DEF IInv, RunInv

\* The child gets its row and its place in the queue.
LEMMA TriggerKeeps ==
  ASSUME IInv, NEW r \in Runs, Trigger(r)
  PROVE  IInv'
  <1>1. PICK c \in Runs :
          /\ status[c] = "absent"
          /\ status' = [status EXCEPT ![c] = "created"]
          /\ pc' = [pc EXCEPT ![r] = "awaiting", ![c] = "queued"]
    BY DEF Trigger
  <1>2. pc[r] = "triggering" /\ UNCHANGED <<workflow, by, after, astray, at, pre, returned,
                                             webhook, clients, blamed>>
    BY DEF Trigger
  <1>3. pc[c] = "none" /\ c # r
    BY <1>1, <1>2 DEF IInv, RunInv, Judged
  <1>4. TypeOK'
    BY <1>1, <1>2 DEF IInv, TypeOK, Statuses, clients, webhook
  <1>5. /\ pc'[r] = "awaiting" /\ pc'[c] = "queued"
        /\ \A x \in Runs : x # r /\ x # c => pc'[x] = pc[x]
    BY <1>1, <1>3 DEF IInv, TypeOK
  <1>6. status'[c] = "created" /\ \A x \in Runs : x # c => status'[x] = status[x]
    BY <1>1 DEF IInv, TypeOK
  <1>7. \A x \in Runs : Outer(x)' = Outer(x) /\ InLoop(x)' = InLoop(x)
                        /\ HasFinally(x)' = HasFinally(x) /\ BorrowsRunning(x)' = BorrowsRunning(x)
    BY <1>2 DEF Outer, Sequence, InLoop, HasFinally, BorrowsRunning
  <1> SUFFICES ASSUME NEW x \in Runs PROVE RunInv(x)'
    BY <1>4 DEF IInv
  <1>8. RunInv(x)
    BY DEF IInv
  <1>9. Placed(x)'
    BY <1>2, <1>3, <1>5, <1>7, <1>8 DEF RunInv, Placed, Early, Closing, BlockPcs, Outside
  <1>10. Judged(x)'
    <2>1. x = c => pre[x] = "none" /\ x \notin blamed
      BY <1>3, <1>8 DEF RunInv, Placed, Judged, Early, Ended
    <2> QED
      BY <1>2, <1>3, <1>5, <1>6, <1>8, <2>1 DEF RunInv, Judged, Ended, clients
  <1>11. SeenCancel(x)'
    BY <1>2, <1>3, <1>5, <1>6, <1>8 DEF RunInv, SeenCancel, Closing, Ended, clients
  <1>12. LastWord(x)'
    BY <1>2, <1>3, <1>5, <1>6, <1>7, <1>8 DEF RunInv, LastWord, Closing, Ended, clients
  <1>13. Told(x)'
    BY <1>1, <1>2, <1>3, <1>5, <1>6, <1>8 DEF RunInv, Told, Over, clients, webhook
  <1> QED
    BY <1>9, <1>10, <1>11, <1>12, <1>13 DEF RunInv

LEMMA CollectKeeps ==
  ASSUME IInv, NEW r \in Runs, Collect(r)
  PROVE  IInv'
  <1>0. TypeOK /\ RunInv(r) /\ pc[r] = "collect" /\ pre' = [pre EXCEPT ![r] = status[r]]
        /\ UNCHANGED <<workflow, row, returned, webhook, clients, blamed>>
    BY DEF IInv, Collect
  <1>1. /\ pc' \in [Runs -> Pcs] /\ pc'[r] = "closing"
        /\ \A x \in Runs : x # r => pc'[x] = pc[x]
    BY <1>0, GotoPc DEF Collect, Pcs
  <1>2. at' \in [Runs -> Spots] /\ at'[r].block = Len(workflow[r].blocks) + 1 /\ at'[r].value = 0
        /\ at'[r].block > 0 /\ (\A x \in Runs : x # r => at'[x] = at[x])
    <2> DEFINE n == Len(workflow[r].blocks) + 1
               spot == [Start EXCEPT !.block = n]
    <2>1. n \in Nat /\ n > 0
      BY <1>0, SequenceType
    <2>2. at' = [at EXCEPT ![r] = spot]
      BY DEF Collect
    <2> HIDE DEF n
    <2>3. spot \in Spots /\ spot.block = n /\ spot.value = 0
      BY <2>1 DEF Start, Spots
    <2>4. at \in [Runs -> Spots]
      BY <1>0 DEF TypeOK, Spots
    <2> HIDE DEF spot
    <2>5. at' \in [Runs -> Spots] /\ at'[r] = spot /\ (\A x \in Runs : x # r => at'[x] = at[x])
      BY <2>2, <2>3, <2>4
    <2> QED
      BY <2>1, <2>3, <2>5 DEF n
  <1>3. pre'[r] = status[r] /\ status[r] # "none" /\ status[r] # "completed"
        /\ \A x \in Runs : x # r => pre'[x] = pre[x]
    BY <1>0 DEF TypeOK, RunInv, Judged, Ended, Statuses
  <1>4. TypeOK' /\ Quiet(r)
    <2>1. TypeOK'
      BY <1>0, <1>1, <1>2 DEF TypeOK, Pcs, Spots, clients, webhook, row
    <2> QED
      BY <1>0, <1>1, <1>2, <1>3, <2>1 DEF Quiet, clients, webhook, row
  <1>5. Placed(r)'
    BY <1>0, <1>1, <1>2, <1>3 DEF Placed, InLoop, Early, Closing, BlockPcs, Outside
  <1>6. Judged(r)' /\ SeenCancel(r)' /\ LastWord(r)'
    BY <1>0, <1>1, <1>3
    DEF RunInv, Judged, SeenCancel, LastWord, Closing, Ended, Kept, Bad, clients, row
  <1>7. Told(r)'
    BY <1>0, <1>1, NotYetTold DEF RunInv, clients, row
  <1> QED
    BY <1>4, <1>5, <1>6, <1>7, OtherRuns DEF IInv, RunInv

LEMMA BeginFinallyKeeps ==
  ASSUME IInv, NEW r \in Runs, BeginFinally(r)
  PROVE  IInv'
  <1>0. TypeOK /\ RunInv(r) /\ pc[r] = "closing"
        /\ UNCHANGED <<workflow, at, pre, returned, webhook, clients, blamed>>
    BY DEF IInv, BeginFinally
  <1>1. /\ pc' \in [Runs -> Pcs] /\ pc'[r] = (IF HasFinally(r) THEN "begin" ELSE "finalize")
        /\ \A x \in Runs : x # r => pc'[x] = pc[x]
    BY <1>0, GotoPc DEF BeginFinally, Pcs
  <1>2. /\ status' \in [Runs -> Statuses] /\ by' \in [Runs -> Writers] /\ after' \in [Runs -> Nat]
        /\ \A x \in Runs : x # r => status'[x] = status[x] /\ by'[x] = by[x]
        /\ IF BorrowsRunning(r) THEN status'[r] = "running"
                                ELSE status'[r] = status[r] /\ by'[r] = by[r]
        /\ astray' \subseteq Runs /\ astray \subseteq astray'
        /\ \A x \in Runs : x # r => (x \in astray' <=> x \in astray)
        /\ status'[r] = status[r] \/ (cancel[r].stage = "posting" => r \in astray')
    <2>1. CASE BorrowsRunning(r)
      BY <1>0, <2>1, WriteRow DEF BeginFinally, Statuses, Writers
    <2>2. CASE ~BorrowsRunning(r)
      BY <1>0, <2>2 DEF BeginFinally, TypeOK, Writers, row
    <2> QED
      BY <2>1, <2>2
  <1>3. TypeOK' /\ Quiet(r)
    BY <1>0, <1>1, <1>2 DEF Quiet, TypeOK, Pcs, Writers, clients, webhook
  <1>4. InLoop(r)' = InLoop(r) /\ HasFinally(r)' = HasFinally(r)
        /\ BorrowsRunning(r)' = BorrowsRunning(r)
    BY <1>0 DEF InLoop, HasFinally, BorrowsRunning
  <1>5. Placed(r)'
    BY <1>0, <1>1, <1>4 DEF RunInv, Placed, Early, Closing, BlockPcs, Outside
  <1>6. Judged(r)'
    BY <1>0, <1>1, <1>2 DEF RunInv, Judged, Placed, Closing, Ended, Kept, Bad, clients
  <1>7. SeenCancel(r)'
    BY <1>0, <1>1, <1>2
    DEF RunInv, SeenCancel, Closing, Ended, HasFinally, BorrowsRunning, clients
  <1>8. LastWord(r)'
    BY <1>0, <1>1, <1>2, <1>4 DEF RunInv, LastWord, Closing, Ended, clients
  <1>9. Told(r)'
    BY <1>0, <1>1, <1>2, NotYetTold DEF RunInv, clients
  <1> QED
    BY <1>3, <1>5, <1>6, <1>7, <1>8, <1>9, OtherRuns DEF IInv, RunInv

LEMMA FinalizeKeeps ==
  ASSUME IInv, NEW r \in Runs, Finalize(r)
  PROVE  IInv'
  <1> DEFINE s == IF pre[r] \in Kept THEN pre[r] ELSE "completed"
  <1>0. TypeOK /\ RunInv(r) /\ pc[r] = "finalize"
        /\ UNCHANGED <<workflow, at, pre, webhook, clients, blamed>>
    BY DEF IInv, Finalize
  <1>1. /\ pc' \in [Runs -> Pcs] /\ pc'[r] = "cleanup"
        /\ \A x \in Runs : x # r => pc'[x] = pc[x]
    BY <1>0, GotoPc DEF Finalize, Pcs
  <1>2. s \in {"completed", "failed", "terminated", "canceled"}
    BY DEF Kept, Bad
  <1>3. /\ returned' = [returned EXCEPT ![r] = s]
        /\ IF s = "completed" \/ BorrowsRunning(r) THEN Write(r, s, "engine") ELSE UNCHANGED row
    BY DEF Finalize, Kept
  <1>4. s = "completed" => pre[r] \notin Kept
    BY DEF Kept, Bad
  <1>5. pre[r] \in Kept => s = pre[r]
    OBVIOUS
  <1>6. s = "canceled" => ~BorrowsRunning(r)
    BY <1>5, <1>2 DEF BorrowsRunning, HasFinally, Bad
  <1>7. s # "completed" => pre[r] \in Kept
    OBVIOUS
  <1> HIDE DEF s
  <1>8. /\ status' \in [Runs -> Statuses] /\ by' \in [Runs -> Writers] /\ after' \in [Runs -> Nat]
        /\ \A x \in Runs : x # r => status'[x] = status[x] /\ by'[x] = by[x]
        /\ IF s = "completed" \/ BorrowsRunning(r)
             THEN status'[r] = s
             ELSE status'[r] = status[r] /\ by'[r] = by[r]
        /\ astray' \subseteq Runs /\ astray \subseteq astray'
        /\ \A x \in Runs : x # r => (x \in astray' <=> x \in astray)
        /\ status'[r] = status[r] \/ (cancel[r].stage = "posting" => r \in astray')
    <2>1. CASE s = "completed" \/ BorrowsRunning(r)
      BY <1>0, <1>2, <1>3, <2>1, WriteRow DEF Statuses, Writers
    <2>2. CASE ~(s = "completed" \/ BorrowsRunning(r))
      BY <1>0, <1>3, <2>2 DEF TypeOK, Writers, row
    <2> QED
      BY <2>1, <2>2
  <1>9. returned'[r] = s /\ \A x \in Runs : x # r => returned'[x] = returned[x]
    BY <1>0, <1>3 DEF TypeOK
  <1>10. TypeOK' /\ Quiet(r)
    <2>1. TypeOK'
      BY <1>0, <1>1, <1>2, <1>3, <1>8 DEF TypeOK, Pcs, Writers, clients, webhook
    <2> QED
      BY <1>0, <1>1, <1>8, <1>9, <2>1 DEF Quiet, clients, webhook
  <1>11. Placed(r)'
    BY <1>0, <1>1 DEF RunInv, Placed, Early, Closing, BlockPcs, Outside
  <1>12. Judged(r)'
    BY <1>0, <1>1, <1>2, <1>4, <1>5, <1>7, <1>8
    DEF RunInv, Judged, Placed, Closing, Ended, clients
  <1>13. SeenCancel(r)'
    BY <1>0, <1>1, <1>4, <1>5, <1>6, <1>8
    DEF RunInv, SeenCancel, Closing, Ended, Kept, clients
  <1>14. LastWord(r)'
    BY <1>0, <1>1, <1>2, <1>5, <1>7, <1>8, <1>9
    DEF RunInv, LastWord, Closing, Ended, Kept
  <1>15. Told(r)'
    BY <1>0, <1>1, <1>2, <1>8, NotYetTold DEF RunInv, clients
  <1> QED
    BY <1>10, <1>11, <1>12, <1>13, <1>14, <1>15, OtherRuns DEF IInv, RunInv

\* The engine's webhook: read, posted, not posted, or the clean-up raises.
LEMMA WebhookKeeps ==
  ASSUME IInv, NEW r \in Runs,
         ReadsForWebhook(r) \/ Posts(r) \/ PostsNothing(r) \/ CleanUpRaises(r)
  PROVE  IInv'
  <1>0. TypeOK /\ RunInv(r) /\ pc[r] \in {"cleanup", "posting"}
        /\ UNCHANGED <<workflow, status, by, after, at, pre, returned, clients, blamed>>
    BY DEF IInv, ReadsForWebhook, Posts, PostsNothing, CleanUpRaises, row
  <1>1. /\ pc' \in [Runs -> Pcs] /\ pc'[r] \in {"posting", "over", "raised"}
        /\ \A x \in Runs : x # r => pc'[x] = pc[x]
    <2>1. CASE ReadsForWebhook(r)
      BY <1>0, <2>1, GotoPc DEF ReadsForWebhook, Pcs
    <2>2. CASE Posts(r)
      BY <1>0, <2>2, GotoPc DEF Posts, Leaves, Pcs
    <2>3. CASE PostsNothing(r)
      BY <1>0, <2>3, GotoPc DEF PostsNothing, Leaves, Pcs
    <2>4. CASE CleanUpRaises(r)
      BY <1>0, <2>4, GotoPc DEF CleanUpRaises, Pcs
    <2> QED
      BY <2>1, <2>2, <2>3, <2>4
  <1>2. /\ letter' \in [Runs -> Statuses \cup {"none"}] /\ told' \in [Runs -> Statuses \cup {"none"}]
        /\ astray' \subseteq Runs
        /\ \A x \in Runs : x # r =>
             letter'[x] = letter[x] /\ told'[x] = told[x] /\ (x \in astray' <=> x \in astray)
    <2>1. /\ letter \in [Runs -> Statuses \cup {"none"}] /\ told \in [Runs -> Statuses \cup {"none"}]
          /\ status[r] \in Statuses /\ astray \subseteq Runs
      BY <1>0 DEF TypeOK
    <2>2. CASE ReadsForWebhook(r)
      BY <2>1, <2>2 DEF ReadsForWebhook, row
    <2>3. CASE Posts(r)
      BY <2>1, <2>3 DEF Posts, row
    <2>4. CASE PostsNothing(r)
      BY <2>1, <2>4 DEF PostsNothing
    <2>5. CASE CleanUpRaises(r)
      BY <2>1, <2>5 DEF CleanUpRaises
    <2> QED
      BY <2>2, <2>3, <2>4, <2>5
  <1>3. TypeOK' /\ Quiet(r)
    <2>1. TypeOK'
      BY <1>0, <1>1, <1>2 DEF TypeOK, Pcs, clients
    <2> QED
      BY <1>0, <1>1, <1>2, <2>1 DEF Quiet, clients
  <1>4. Placed(r)'
    BY <1>0, <1>1 DEF RunInv, Placed, Early, Closing, BlockPcs, Outside
  <1>5. Judged(r)' /\ SeenCancel(r)' /\ LastWord(r)'
    BY <1>0, <1>1 DEF RunInv, Judged, SeenCancel, LastWord, Closing, Ended, clients
  <1>6. Told(r)'
    <2>1. CASE ReadsForWebhook(r)
      <3>1. pc'[r] = "posting" /\ letter'[r] = status[r] /\ astray' = astray
        BY <1>0, <2>1, GotoPc DEF ReadsForWebhook, TypeOK, Pcs, row
      <3> QED
        BY <1>0, <3>1 DEF RunInv, Told, Over, clients
    <2>2. CASE Posts(r)
      <3>1. pc[r] = "posting" /\ pc'[r] # "posting" /\ told'[r] = letter[r] /\ astray' = astray
        <4>1. pc'[r] # "posting"
          BY <1>0, <2>2, GotoPc DEF Posts, Leaves, Pcs
        <4> QED
          BY <1>0, <2>2, <4>1 DEF Posts, TypeOK, row
      <3> QED
        BY <1>0, <3>1 DEF RunInv, Told, clients
    <2>3. CASE PostsNothing(r) \/ CleanUpRaises(r)
      <3>1. r \in astray'
        BY <2>3 DEF PostsNothing, CleanUpRaises
      <3> QED
        BY <1>0, <3>1 DEF RunInv, Told, clients
    <2> QED
      BY <2>1, <2>2, <2>3
  <1> QED
    BY <1>3, <1>4, <1>5, <1>6, OtherRuns DEF IInv, RunInv

-----------------------------------------------------------------------------
(* The endpoints.                                                          *)

\* A cancel may hit a run wherever its engine stands.
LEMMA CancelHits ==
  ASSUME IInv, NEW x \in Runs,
         UNCHANGED <<workflow, pc, at, pre, returned, webhook, stomped, blamed>>,
         status'[x] = "canceled",
         x \in astray => x \in astray',
         pc[x] = "posting" \/ cancel[x].stage = "posting" => x \in astray',
         \/ by'[x] = "parent" /\ cancel'[x].stage = cancel[x].stage
         \/ by'[x] = "cancel" /\ cancel'[x].stage = "telling"
  PROVE  RunInv(x)'
  <1>0. TypeOK /\ RunInv(x)
    BY DEF IInv
  <1>1. Outer(x)' = Outer(x) /\ InLoop(x)' = InLoop(x) /\ HasFinally(x)' = HasFinally(x)
    BY DEF Outer, Sequence, InLoop, HasFinally
  <1>2. Placed(x)'
    BY <1>0, <1>1 DEF RunInv, Placed
  <1>3. Judged(x)' /\ SeenCancel(x)'
    BY <1>0 DEF RunInv, Judged, SeenCancel, Kept
  <1>4. LastWord(x)'
    BY <1>0 DEF RunInv, LastWord
  <1>5. Told(x)'
    BY <1>0 DEF RunInv, Told, Over
  <1> QED
    BY <1>2, <1>3, <1>4, <1>5 DEF RunInv

\* A request that neither writes the row nor the engine's variables.
LEMMA RequestKeeps ==
  ASSUME IInv, NEW r \in Runs, Told(r)',
         cancel' \in [Runs -> Requests], \A x \in Runs : x # r => cancel'[x] = cancel[x],
         told' \in [Runs -> Statuses \cup {"none"}], \A x \in Runs : x # r => told'[x] = told[x],
         astray' \subseteq Runs, \A x \in Runs : x # r => (x \in astray' <=> x \in astray),
         UNCHANGED <<workflow, status, by, after, pc, at, pre, returned, letter, cont, stomped,
                     rejected, blamed>>
  PROVE  IInv'
  <1>0. TypeOK /\ RunInv(r)
    BY DEF IInv
  <1>1. TypeOK' /\ Quiet(r)
    BY <1>0 DEF Quiet, TypeOK, Requests, Stages
  <1>2. Outer(r)' = Outer(r) /\ InLoop(r)' = InLoop(r) /\ HasFinally(r)' = HasFinally(r)
        /\ BorrowsRunning(r)' = BorrowsRunning(r)
    BY DEF Outer, Sequence, InLoop, HasFinally, BorrowsRunning
  <1>3. Placed(r)' /\ Judged(r)' /\ SeenCancel(r)' /\ LastWord(r)'
    BY <1>0, <1>2 DEF RunInv, Placed, Judged, SeenCancel, LastWord
  <1> QED
    BY <1>1, <1>3, OtherRuns DEF IInv, RunInv

LEMMA CancelReadsKeeps ==
  ASSUME IInv, NEW r \in Runs, CancelReads(r)
  PROVE  IInv'
  <1> DEFINE D == {c \in Runs : Parent[c] = r /\ status[c] \in Live}
             q == [cancel[r] EXCEPT !.stage = "marking", !.children = D]
  <1>0. TypeOK /\ RunInv(r) /\ cancel[r].stage = "none" /\ status[r] # "absent"
        /\ UNCHANGED <<workflow, row, pc, at, pre, returned, webhook, cont, stomped, rejected, blamed>>
    BY DEF IInv, CancelReads
  <1>1. cancel \in [Runs -> Requests] /\ cancel[r] \in Requests
    BY <1>0 DEF TypeOK, Requests, Stages
  <1>2. cancel' = [cancel EXCEPT ![r] = q]
    BY DEF CancelReads
  <1>3. q \in Requests /\ q.stage = "marking"
    <2> HIDE DEF D
    <2>1. D \subseteq Runs
      BY DEF D
    <2> QED
      BY <1>1, <2>1 DEF Requests, Stages
  <1> HIDE DEF q
  <1>4. cancel' \in [Runs -> Requests] /\ cancel'[r].stage = "marking"
        /\ \A x \in Runs : x # r => cancel'[x] = cancel[x]
    BY <1>1, <1>2, <1>3
  <1>5. Told(r)'
    BY <1>0, <1>4 DEF RunInv, Told, Over, row, webhook
  <1> QED
    BY <1>0, <1>4, <1>5, RequestKeeps DEF TypeOK, row, webhook

\* The webhook of the request, and its end.
LEMMA CancelTellsKeep ==
  ASSUME IInv, NEW r \in Runs, CancelReadsForWebhook(r) \/ CancelPosts(r) \/ CancelBreaks(r)
  PROVE  IInv'
  <1>0. TypeOK /\ RunInv(r) /\ cancel[r].stage \in {"marking", "telling", "posting"}
        /\ UNCHANGED <<workflow, status, by, after, pc, at, pre, returned, letter, cont, stomped,
                       rejected, blamed>>
    BY DEF IInv, CancelReadsForWebhook, CancelPosts, CancelBreaks, row, webhook
  <1>1. cancel \in [Runs -> Requests] /\ Settled \in Requests /\ Settled.stage = "done"
    BY <1>0 DEF TypeOK, Requests, Stages, Settled, NoCancel
  <1>2. CASE CancelReadsForWebhook(r)
    <2>1. cancel' \in [Runs -> Requests] /\ cancel'[r].stage = "posting"
          /\ cancel'[r].letter = status[r]
          /\ \A x \in Runs : x # r => cancel'[x] = cancel[x]
      <3>1. status[r] \in Statuses \cup {"none"} /\ "posting" \in Stages
            /\ cancel' = [cancel EXCEPT ![r].stage = "posting", ![r].letter = status[r]]
        BY <1>0, <1>2 DEF CancelReadsForWebhook, TypeOK, Stages
      <3> QED
        BY <1>0, <3>1, RequestGoesOn
    <2>2. UNCHANGED <<told, astray>>
      BY <1>2 DEF CancelReadsForWebhook, row, webhook
    <2>3. Told(r)'
      BY <1>0, <2>1, <2>2 DEF RunInv, Told, Over
    <2> QED
      BY <1>0, <2>1, <2>2, <2>3, RequestKeeps DEF TypeOK
  <1>3. CASE CancelPosts(r)
    <2>1. cancel' \in [Runs -> Requests] /\ cancel'[r].stage = "done"
          /\ \A x \in Runs : x # r => cancel'[x] = cancel[x]
      BY <1>1, <1>3 DEF CancelPosts
    <2>2. /\ told' \in [Runs -> Statuses \cup {"none"}] /\ told'[r] = cancel[r].letter
          /\ \A x \in Runs : x # r => told'[x] = told[x]
      BY <1>0, <1>3 DEF CancelPosts, TypeOK
    <2>3. UNCHANGED astray /\ cancel[r].stage = "posting"
      BY <1>3 DEF CancelPosts, row
    <2>4. Told(r)'
      BY <1>0, <2>1, <2>2, <2>3 DEF RunInv, Told, Over
    <2> QED
      BY <1>0, <2>1, <2>2, <2>3, <2>4, RequestKeeps DEF TypeOK
  <1>4. CASE CancelBreaks(r)
    <2>1. cancel' \in [Runs -> Requests] /\ cancel'[r].stage = "done"
          /\ \A x \in Runs : x # r => cancel'[x] = cancel[x]
      BY <1>1, <1>4 DEF CancelBreaks
    <2>2. /\ UNCHANGED told /\ astray' \subseteq Runs
          /\ \A x \in Runs : x # r => (x \in astray' <=> x \in astray)
          /\ r \in astray => r \in astray'
          /\ cancel[r].stage # "marking" => r \in astray'
      BY <1>0, <1>4 DEF CancelBreaks, TypeOK, webhook
    <2>3. Told(r)'
      BY <1>0, <2>1, <2>2 DEF RunInv, Told, Over
    <2> QED
      BY <1>0, <2>1, <2>2, <2>3, RequestKeeps DEF TypeOK
  <1> QED
    BY <1>2, <1>3, <1>4

LEMMA CancelWritesKeep ==
  ASSUME IInv, NEW r \in Runs, CancelChild(r) \/ CancelSelf(r)
  PROVE  IInv'
  <1>0. TypeOK
        /\ UNCHANGED <<workflow, pc, at, pre, returned, webhook, cont, stomped, rejected, blamed>>
    BY DEF IInv, CancelChild, CancelSelf
  <1>1. PICK c \in Runs, who \in {"parent", "cancel"} :
          /\ Write(c, "canceled", who)
          /\ who = "cancel" => c = r /\ cancel' = [cancel EXCEPT ![r].stage = "telling"]
          /\ who = "parent" => cancel' = [cancel EXCEPT ![r].children = @ \ {c}]
    <2>1. CASE CancelChild(r)
      <3>1. cancel[r].children \subseteq Runs
        BY <1>0 DEF TypeOK
      <3> QED
        BY <2>1, <3>1 DEF CancelChild
    <2>2. CASE CancelSelf(r)
      BY <2>2 DEF CancelSelf
    <2> QED
      BY <2>1, <2>2
  <1>2. /\ status' \in [Runs -> Statuses] /\ by' \in [Runs -> Writers] /\ after' \in [Runs -> Nat]
        /\ status'[c] = "canceled" /\ by'[c] = who
        /\ \A x \in Runs : x # c => status'[x] = status[x] /\ by'[x] = by[x]
        /\ astray' \subseteq Runs /\ astray \subseteq astray'
        /\ \A x \in Runs : x # c => (x \in astray' <=> x \in astray)
        /\ pc[c] = "posting" \/ cancel[c].stage = "posting" => c \in astray'
    BY <1>0, <1>1, WriteRow DEF Statuses, Writers
  <1>3. cancel \in [Runs -> Requests] /\ cancel[r] \in Requests /\ cancel[r].letter \in Statuses \cup {"none"}
    BY <1>0 DEF TypeOK, Requests, Stages
  <1>4. CASE who = "cancel"
    <2>1. cancel' \in [Runs -> Requests] /\ cancel'[r].stage = "telling" /\ c = r
          /\ \A x \in Runs : x # r => cancel'[x] = cancel[x]
      <3>1. "telling" \in Stages
        BY DEF Stages
      <3> QED
        BY <1>0, <1>1, <1>3, <1>4, <3>1, RequestGoesOn
    <2>2. TypeOK'
      BY <1>0, <1>2, <2>1 DEF TypeOK, Writers, Requests, Stages, webhook
    <2>3. Quiet(c)
      BY <1>0, <1>2, <2>1 DEF Quiet, webhook
    <2>4. RunInv(c)'
      BY <1>0, <1>2, <1>4, <2>1, CancelHits
    <2> QED
      BY <2>2, <2>3, <2>4, OtherRuns DEF IInv
  <1>5. CASE who = "parent"
    <2>1. /\ cancel' \in [Runs -> Requests]
          /\ \A x \in Runs : cancel'[x].stage = cancel[x].stage /\ cancel'[x].letter = cancel[x].letter
      <3>1. cancel[r].children \ {c} \in SUBSET Runs
        BY <1>3 DEF Requests
      <3>2. cancel' = [cancel EXCEPT ![r].children = cancel[r].children \ {c}]
        BY <1>1, <1>3, <1>5
      <3> QED
        BY <1>0, <3>1, <3>2, RequestDrops
    <2>2. TypeOK'
      BY <1>0, <1>2, <2>1 DEF TypeOK, Writers, Requests, Stages, webhook
    <2>3. Quiet(c)
      BY <1>0, <1>2, <2>1 DEF Quiet, webhook
    <2>4. RunInv(c)'
      BY <1>0, <1>2, <1>5, <2>1, CancelHits
    <2> QED
      BY <2>2, <2>3, <2>4, OtherRuns DEF IInv
  <1> QED
    BY <1>4, <1>5

LEMMA ContinueKeeps ==
  ASSUME IInv, NEW r \in Runs, ContinueReads(r) \/ ContinueWrites(r)
  PROVE  IInv'
  <1>0. TypeOK /\ RunInv(r)
        /\ UNCHANGED <<workflow, pc, at, pre, returned, webhook, cancel, rejected, blamed>>
    BY DEF IInv, ContinueReads, ContinueWrites
  <1>1. cont' \in [Runs -> {"none", "found", "done"}]
    BY <1>0 DEF TypeOK, ContinueReads, ContinueWrites
  <1>2. Outer(r)' = Outer(r) /\ InLoop(r)' = InLoop(r) /\ HasFinally(r)' = HasFinally(r)
        /\ BorrowsRunning(r)' = BorrowsRunning(r)
    BY <1>0 DEF Outer, Sequence, InLoop, HasFinally, BorrowsRunning
  <1>3. Placed(r)'
    BY <1>0, <1>2 DEF RunInv, Placed
  <1>4. CASE ContinueReads(r)
    <2>1. UNCHANGED <<row, stomped>>
      BY <1>4 DEF ContinueReads
    <2>2. TypeOK' /\ Quiet(r)
      BY <1>0, <1>1, <2>1 DEF Quiet, TypeOK, row, webhook
    <2>3. RunInv(r)'
      BY <1>0, <1>2, <1>3, <2>1
      DEF RunInv, Judged, SeenCancel, LastWord, Told, Over, row, webhook
    <2> QED
      BY <2>2, <2>3, OtherRuns DEF IInv
  <1>5. CASE ContinueWrites(r)
    <2>1. /\ Write(r, "running", "continue")
          /\ stomped' = stomped \cup {x \in {r} : status[x] # "paused"}
      BY <1>5 DEF ContinueWrites
    <2>2. /\ status' \in [Runs -> Statuses] /\ by' \in [Runs -> Writers]
          /\ after' \in [Runs -> Nat] /\ status'[r] = "running" /\ by'[r] = "continue"
          /\ \A x \in Runs : x # r => status'[x] = status[x] /\ by'[x] = by[x]
          /\ astray' \subseteq Runs /\ astray \subseteq astray'
          /\ \A x \in Runs : x # r => (x \in astray' <=> x \in astray)
          /\ pc[r] = "posting" \/ cancel[r].stage = "posting" => r \in astray'
      BY <1>0, <2>1, WriteRow DEF Statuses, Writers
    <2>3. (r \in stomped' <=> r \in stomped \/ status[r] # "paused") /\ stomped' \subseteq Runs
          /\ \A x \in Runs : x # r => (x \in stomped' <=> x \in stomped)
      BY <1>0, <2>1 DEF TypeOK
    <2>4. TypeOK' /\ Quiet(r)
      BY <1>0, <1>1, <2>2, <2>3 DEF Quiet, TypeOK, Writers, webhook
    <2>5. Judged(r)'
      BY <1>0, <2>2, <2>3 DEF RunInv, Judged, Kept, Bad
    <2>6. SeenCancel(r)'
      BY <1>0, <2>2, <2>3 DEF RunInv, SeenCancel
    <2>7. LastWord(r)'
      BY <1>0, <1>2, <2>2, <2>3 DEF RunInv, LastWord, Ended, Closing
    <2>8. Told(r)'
      BY <1>0, <2>2 DEF RunInv, Told, Over, webhook
    <2> QED
      BY <1>3, <2>4, <2>5, <2>6, <2>7, <2>8, OtherRuns DEF IInv, RunInv
  <1> QED
    BY <1>4, <1>5

-----------------------------------------------------------------------------
(* The theorems.                                                           *)

LEMMA InitIInv == Init => IInv
  <1> SUFFICES ASSUME Init PROVE IInv
    OBVIOUS
  <1>1. TypeOK
    <2>1. at \in [Runs -> Spots]
      BY DEF Init, Start, Spots
    <2>2. cancel \in [Runs -> Requests]
      BY DEF Init, NoCancel, Requests, Stages
    <2> QED
      BY <2>1, <2>2 DEF Init, TypeOK, Spots, Requests, Stages, Statuses
  <1>2. ASSUME NEW r \in Runs PROVE RunInv(r)
    <2>1. pc[r] \in {"none", "queued"} /\ pre[r] = "none" /\ at[r].block = 1 /\ at[r].value = 0
          /\ status[r] \in {"absent", "created"} /\ (status[r] = "absent" => pc[r] = "none")
          /\ r \notin blamed /\ returned[r] = "none" /\ cancel[r].stage = "none"
      BY DEF Init, Start, NoCancel
    <2> QED
      BY <2>1 DEF RunInv, Placed, Judged, SeenCancel, LastWord, Told, Over, InLoop, Early, Closing,
                  Ended, BlockPcs, Outside
  <1> QED
    BY <1>1, <1>2 DEF IInv

LEMMA StutterIInv == IInv /\ UNCHANGED vars => IInv'
  <1> SUFFICES ASSUME IInv, UNCHANGED vars PROVE IInv'
    OBVIOUS
  <1>1. TypeOK'
    BY DEF IInv, TypeOK, vars
  <1>2. ASSUME NEW r \in Runs PROVE RunInv(r)'
    <2>1. RunInv(r)
      BY DEF IInv
    <2>2. Outer(r)' = Outer(r) /\ InLoop(r)' = InLoop(r) /\ HasFinally(r)' = HasFinally(r)
          /\ BorrowsRunning(r)' = BorrowsRunning(r)
      BY DEF vars, Outer, Sequence, InLoop, HasFinally, BorrowsRunning
    <2> QED
      BY <2>1, <2>2 DEF vars, RunInv, Placed, Judged, SeenCancel, LastWord, Told, Over
  <1> QED
    BY <1>1, <1>2 DEF IInv

LEMMA NextIInv == IInv /\ [Next]_vars => IInv'
  <1> SUFFICES ASSUME IInv, [Next]_vars PROVE IInv'
    OBVIOUS
  <1>1. ASSUME NEW r \in Runs, Engine(r) PROVE IInv'
    BY <1>1, BeginKeeps, MovesKeep, OutcomesKeep, LoopKeeps, PauseKeeps, TriggerKeeps, CollectKeeps,
       BeginFinallyKeeps, FinalizeKeeps, WebhookKeeps
    DEF Engine
  <1>2. ASSUME NEW r \in Runs, Faults(r) PROVE IInv'
    BY <1>2, ContextFailsKeeps, RaisesKeeps, BlockBreaksKeeps, BlockFailsKeeps, WebhookKeeps
    DEF Faults
  <1>3. ASSUME NEW r \in Runs, Clients(r) PROVE IInv'
    BY <1>3, CancelReadsKeeps, CancelWritesKeep, CancelTellsKeep, ContinueKeeps DEF Clients
  <1> QED
    BY <1>1, <1>2, <1>3, StutterIInv DEF Next

(***************************************************************************)
(* In every run of the engine the invariant holds: where the engine of     *)
(* workflow/service.py stands, what it collected and what the row says     *)
(* agree, whatever the endpoints write in between.                         *)
(***************************************************************************)
THEOREM Invariant == Spec => []IInv
  BY InitIInv, NextIInv, PTL DEF Spec

\* The row and the variables of the engine and of the endpoints keep their types.
THEOREM TypesHold == Spec => []TypeOK
  BY Invariant, PTL DEF IInv

(***************************************************************************)
(* A run that the engine found to have failed (a block that failed or      *)
(* broke, a context that could not be had) never ends completed, unless a  *)
(* continue wrote over a status that was no longer paused.                 *)
(***************************************************************************)
THEOREM BlameHoldsAlways == Spec => []BlameHolds
  <1>1. IInv => BlameHolds
    BY DEF IInv, TypeOK, RunInv, Judged, BlameHolds
  <1> QED
    BY <1>1, Invariant, PTL

(***************************************************************************)
(* A cancel that was in the row when the engine collected its status is    *)
(* there at the end: finally block, finalization and clean-up keep it.     *)
(***************************************************************************)
THEOREM SeenCancelStandsAlways == Spec => []SeenCancelStands
  <1>1. IInv => SeenCancelStands
    BY DEF IInv, RunInv, SeenCancel, SeenCancelStands
  <1> QED
    BY <1>1, Invariant, PTL

(***************************************************************************)
(* When the engine wrote last, the row holds what execute_workflow         *)
(* returned: the running that _execute_finally_block borrows is restored,  *)
(* unless the engine raised before it had a verdict.                       *)
(***************************************************************************)
THEOREM EngineHasTheLastWordAlways == Spec => []EngineHasTheLastWord
  <1>1. IInv => EngineHasTheLastWord
    BY DEF IInv, RunInv, LastWord, EngineHasTheLastWord, Over, Ended
  <1> QED
    BY <1>1, Invariant, PTL

(***************************************************************************)
(* When a run is over and nobody is cancelling it, its last webhook told   *)
(* the status in its row, whichever of the engine's and the cancel's came  *)
(* last, unless a webhook was not sent or a write overtook one, or the     *)
(* last to write was a continue or the parent's cancel.                    *)
(***************************************************************************)
THEOREM ToldTheTruthAlways == Spec => []ToldTheTruth
  <1>1. IInv => ToldTheTruth
    BY DEF IInv, RunInv, Told, ToldTheTruth, Over
  <1> QED
    BY <1>1, Invariant, PTL

=============================================================================
