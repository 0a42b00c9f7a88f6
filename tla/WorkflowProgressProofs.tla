------------------------- MODULE WorkflowProgressProofs -------------------------
(***************************************************************************)
(* How far the engine of WorkflowRun gets, for any runs, any tree of       *)
(* parents and any workflows: no further than a trigger block whose run    *)
(* did not complete, and, once the row says canceled, no further than the  *)
(* block it is at. Neither is inductive. The first needs which block each  *)
(* place of the engine belongs to (AtWork), that the trigger blocks behind *)
(* the engine have their child (Passed) and that without it the verdict is *)
(* not completed (Earned); the second counts the blocks of a loop that     *)
(* have begun (Spent).                                                     *)
(***************************************************************************)
EXTENDS WorkflowRunProofs

\* The place of the engine is one of the block it is at, and only loops have turns.
AtWork(r) ==
  /\ InLoop(r) => Outer(r).kind = "loop"
  /\ pc[r] = "acting" => Current(r).kind \in {"task", "code"}
  /\ pc[r] \in {"pausing", "mailing", "waiting"} => Current(r).kind = "human"
  /\ pc[r] \in {"triggering", "awaiting"} => Current(r).kind = "trigger"
  /\ pc[r] = "looping" => Current(r).kind = "loop"

ChildDone(r) == \E c \in Runs : Parent[c] = r /\ pc[c] = "over" /\ returned[c] = "completed"

\* A trigger block that may not fail is left behind with a child that completed ...
Passed(r) ==
  pre[r] = "none" /\ (\E i \in MustComplete(r) : i < at[r].block) => ChildDone(r)

\* ... and without one the engine leaves its blocks with a bad status.
Earned(r) ==
  MustComplete(r) # {} /\ ~ChildDone(r) /\ r \notin stomped =>
    /\ pc[r] = "collect" => status[r] \in Kept
    /\ pre[r] # "none" => pre[r] \in Kept
    /\ status[r] # "completed"

\* The blocks that the block of the sequence has executed before the current one.
Turns(r) == IF InLoop(r) THEN (at[r].value - 1) * Len(Outer(r).body) + (at[r].inner - 1) ELSE 0
Begun(r) == IF pc[r] \in {"begin", "looping"} THEN 0 ELSE 1

Few(r) == after[r] = 0 \/ \E i \in DOMAIN Sequence(r) : after[r] <= Weight(Sequence(r)[i])

\* After a cancel, only blocks of the block the engine was at have been executed.
Spent(r) ==
  /\ status[r] # "canceled" => after[r] = 0
  /\ pc[r] = "closing" /\ pre[r] # "canceled" => after[r] = 0
  /\ InLoop(r) => at[r].value <= Outer(r).values
  /\ pc[r] \in BlockPcs => after[r] <= Turns(r) + Begun(r)
  /\ pc[r] \notin BlockPcs => Few(r)

Walk(r) == AtWork(r) /\ Passed(r) /\ Earned(r) /\ Spent(r)

WInv == \A r \in Runs : Walk(r)

-----------------------------------------------------------------------------
(* Blocks, turns and weights.                                              *)

\* The turns of a loop that have begun fit into its values.
LEMMA TurnsFit ==
  ASSUME NEW n \in Nat, NEW l \in Nat, NEW v \in 1 .. n, NEW i \in 1 .. l
  PROVE  /\ (v - 1) * l + (i - 1) \in Nat
         /\ (v - 1) * l + (i - 1) + 1 <= n * l
         /\ (v - 1) * l + (l - 1) + 1 = ((v + 1) - 1) * l + (1 - 1)
  <1> DEFINE u == v - 1
             d == n - v
  <1>1. u \in Nat /\ d \in Nat /\ v = u + 1 /\ n = u + 1 + d
    OBVIOUS
  <1> HIDE DEF u, d
  <1>2. u * l \in Nat /\ d * l \in Nat
    BY <1>1
  <1>3. n * l = u * l + l + d * l
    BY <1>1
  <1>4. (v - 1) * l = u * l /\ ((v + 1) - 1) * l = u * l + l
    BY <1>1
  <1> QED
    BY <1>2, <1>3, <1>4

\* The block the engine is at, the blocks inside it, and its place in the workflow.
LEMMA AtBlock ==
  ASSUME IInv, NEW r \in Runs, pc[r] \in BlockPcs
  PROVE  /\ at[r].block \in DOMAIN Sequence(r)
         /\ Outer(r) \in Block
         /\ Len(Outer(r).body) \in Nat /\ Outer(r).values \in Nat
         /\ InLoop(r) => Current(r).kind # "loop" /\ at[r].inner \in 1 .. Len(Outer(r).body)
  <1>1. TypeOK /\ Placed(r)
    BY DEF IInv, RunInv
  <1>2. Outer(r) \in Block
    BY <1>1, CurrentType
  <1>3. Len(Outer(r).body) \in Nat /\ Outer(r).values \in Nat /\ Outer(r).body \in Seq(Leaf)
    BY <1>2, LenProperties DEF Block
  <1>4. InLoop(r) => Current(r).kind # "loop" /\ at[r].inner \in 1 .. Len(Outer(r).body)
    <2> SUFFICES ASSUME InLoop(r)
                 PROVE  Current(r).kind # "loop" /\ at[r].inner \in 1 .. Len(Outer(r).body)
      OBVIOUS
    <2>1. at[r].inner \in 1 .. Len(Outer(r).body)
      BY <1>1 DEF Placed
    <2>2. Outer(r).body[at[r].inner] \in Leaf
      BY <1>3, <2>1, ElementOfSeq
    <2> QED
      BY <2>1, <2>2 DEF Current, Leaf
  <1>5. at[r].block \in DOMAIN Sequence(r)
    <2> DEFINE b == at[r].block
               m == Len(workflow[r].blocks)
               n == Len(workflow[r].finally)
               l == Len(Sequence(r))
    <2>1. b \in Nat /\ b > 0 /\ m \in Nat /\ n \in Nat /\ l = m + n
      BY <1>1, SequenceType DEF TypeOK, Placed
    <2>2. pre[r] = "none" => b <= m
      BY <1>1 DEF Placed
    <2>3. pre[r] # "none" => b = m + 1 /\ n > 0
      BY <1>1, SequenceType, EmptySeq, LenProperties DEF Placed, HasFinally, Workflow
    <2>4. DOMAIN Sequence(r) = 1 .. l
      BY <1>1, SequenceType
    <2> HIDE DEF b, m, n, l
    <2>5. b \in 1 .. l
      BY <2>1, <2>2, <2>3
    <2> QED
      BY <2>4, <2>5 DEF b
  <1> QED
    BY <1>2, <1>3, <1>4, <1>5

\* Wherever the engine is, what it executed after a cancel is the work of one block.
LEMMA TurnsFitWeight ==
  ASSUME IInv, NEW r \in Runs, AtWork(r), Spent(r)
  PROVE  /\ Few(r)
         /\ pc[r] \in BlockPcs => Turns(r) \in Nat
  <1> SUFFICES ASSUME pc[r] \in BlockPcs PROVE Few(r) /\ Turns(r) \in Nat
    BY DEF Spent
  <1> DEFINE v == at[r].value
             i == at[r].inner
             l == Len(Outer(r).body)
             n == Outer(r).values
             w == Weight(Outer(r))
  <1>1. v \in Nat /\ i \in Nat /\ l \in Nat /\ n \in Nat /\ after[r] \in Nat
    BY AtBlock DEF IInv, TypeOK
  <1>2. after[r] <= Turns(r) + Begun(r)
    BY DEF Spent
  <1>3. CASE InLoop(r)
    <2>1. v > 0 /\ v <= n /\ i \in 1 .. l /\ w = n * l
      BY <1>3, AtBlock DEF AtWork, Spent, InLoop, Weight
    <2>2. Turns(r) = (v - 1) * l + (i - 1)
      BY <1>3 DEF Turns
    <2>3. Begun(r) \in {0, 1}
      BY DEF Begun
    <2> DEFINE t == (v - 1) * l + (i - 1)
    <2> HIDE DEF v, i, l, n, w
    <2>4. v \in 1 .. n
      BY <1>1, <2>1
    <2>5. t \in Nat /\ t + 1 <= n * l
      BY <1>1, <2>1, <2>4, TurnsFit
    <2> HIDE DEF t
    <2>6. n * l \in Nat
      BY <1>1
    <2>7. after[r] <= w
      <3> DEFINE p == n * l
      <3>1. p \in Nat /\ t + 1 <= p /\ w = p
        BY <2>1, <2>5, <2>6
      <3> HIDE DEF p
      <3> QED
        BY <1>1, <1>2, <2>2, <2>3, <2>5, <3>1 DEF t
    <2> QED
      BY <2>2, <2>5, <2>7, AtBlock DEF Few, Outer, w, t
  <1>4. CASE ~InLoop(r)
    <2>1. Turns(r) = 0 /\ Current(r) = Outer(r)
      BY <1>4 DEF Turns, Current
    <2>2. pc[r] \in {"begin", "looping"} => after[r] = 0
      BY <1>1, <1>2, <2>1 DEF Begun
    <2>3. pc[r] \notin {"begin", "looping"} => after[r] <= 1 /\ Outer(r).kind # "loop"
      BY <1>1, <1>2, <2>1 DEF Begun, AtWork, BlockPcs
    <2>4. pc[r] \notin {"begin", "looping"} => after[r] <= w
      BY <2>3 DEF Weight
    <2> QED
      BY <2>1, <2>2, <2>4, AtBlock DEF Few, Outer
  <1> QED
    BY <1>3, <1>4

-----------------------------------------------------------------------------
(* What a step about one run changes.                                      *)

OnlyRun(r) ==
  /\ workflow' = workflow
  /\ \A x \in Runs : x # r =>
       /\ status'[x] = status[x] /\ pc'[x] = pc[x] /\ at'[x] = at[x]
       /\ pre'[x] = pre[x] /\ after'[x] = after[x]
       /\ (x \in stomped' <=> x \in stomped)
  /\ \A x \in Runs : pc[x] = "over" => pc'[x] = "over" /\ returned'[x] = returned[x]

\* A child that completed stays so.
LEMMA ChildStays ==
  ASSUME NEW r \in Runs, ChildDone(r),
         \A x \in Runs : pc[x] = "over" => pc'[x] = "over" /\ returned'[x] = returned[x]
  PROVE  ChildDone(r)'
  BY DEF ChildDone

\* What the workflow and the place in it determine stays with them.
LEMMA SpotStays ==
  ASSUME NEW r \in Runs, workflow' = workflow, at'[r] = at[r]
  PROVE  /\ Outer(r)' = Outer(r) /\ InLoop(r)' = InLoop(r) /\ Current(r)' = Current(r)
         /\ Turns(r)' = Turns(r)
  BY DEF Outer, Sequence, InLoop, Current, Turns

LEMMA FlowStays ==
  ASSUME NEW r \in Runs, workflow' = workflow
  PROVE  /\ Sequence(r)' = Sequence(r)
         /\ MustComplete(r)' = MustComplete(r)
         /\ Few(r) /\ after'[r] \in {0, after[r]} => Few(r)'
  BY DEF Sequence, MustComplete, Few

LEMMA OtherWalks ==
  ASSUME WInv, NEW r \in Runs, OnlyRun(r), Walk(r)'
  PROVE  WInv'
  <1> SUFFICES ASSUME NEW x \in Runs, x # r PROVE Walk(x)'
    BY DEF WInv
  <1>1. Walk(x) /\ workflow' = workflow /\ status'[x] = status[x] /\ pc'[x] = pc[x]
        /\ at'[x] = at[x] /\ pre'[x] = pre[x] /\ after'[x] = after[x]
        /\ (x \in stomped' <=> x \in stomped)
    BY DEF WInv, OnlyRun
  <1>2. /\ Outer(x)' = Outer(x) /\ InLoop(x)' = InLoop(x) /\ Current(x)' = Current(x)
        /\ Turns(x)' = Turns(x)
    BY <1>1, SpotStays
  <1>3. MustComplete(x)' = MustComplete(x) /\ (Few(x) => Few(x)')
    BY <1>1, FlowStays
  <1>4. ChildDone(x) => ChildDone(x)'
    BY ChildStays DEF OnlyRun
  <1>5. AtWork(x)'
    BY <1>1, <1>2 DEF Walk, AtWork
  <1>6. Passed(x)' /\ Earned(x)'
    BY <1>1, <1>3, <1>4 DEF Walk, Passed, Earned
  <1>7. Spent(x)'
    BY <1>1, <1>2, <1>3 DEF Walk, Spent, Begun
  <1> QED
    BY <1>5, <1>6, <1>7 DEF Walk

\* A write counts afresh unless it says canceled.
LEMMA WriteCounts ==
  ASSUME TypeOK, NEW r \in Runs, NEW s \in Statuses, NEW who \in Writers, Write(r, s, who)
  PROVE  /\ status'[r] = s
         /\ after'[r] = (IF s = "canceled" THEN after[r] ELSE 0)
         /\ \A x \in Runs : x # r => status'[x] = status[x] /\ after'[x] = after[x]
  BY DEF TypeOK, Write

-----------------------------------------------------------------------------
(* How a block ends.                                                       *)

LEMMA FirstPart ==
  ASSUME NEW S, NEW s \in Seq(S), NEW t \in Seq(S), NEW i \in 1 .. Len(s)
  PROVE  (s \o t)[i] = s[i]
  BY ConcatProperties

LEMMA MustCompleteType ==
  ASSUME IInv, NEW r \in Runs, NEW i \in MustComplete(r)
  PROVE  i \in Nat /\ i > 0 /\ i <= Len(workflow[r].blocks)
  <1>1. workflow[r].blocks \in Seq(Block)
    BY SequenceType DEF IInv, Workflow
  <1>2. i \in DOMAIN workflow[r].blocks
    BY DEF MustComplete
  <1> QED
    BY <1>1, <1>2

\* A block at which the engine stands, as MustComplete sees it.
LEMMA OuterIsBlock ==
  ASSUME IInv, NEW r \in Runs, pc[r] \in BlockPcs, ~InFinally(r)
  PROVE  pre[r] = "none" /\ Outer(r) = workflow[r].blocks[at[r].block]
  <1> DEFINE b == at[r].block
             m == Len(workflow[r].blocks)
  <1>1. TypeOK /\ Placed(r)
    BY DEF IInv, RunInv
  <1>2. b \in Nat /\ m \in Nat /\ b > 0 /\ ~(b > m) /\ (pre[r] # "none" => b = m + 1)
    BY <1>1, SequenceType DEF TypeOK, InFinally, Placed
  <1>3. workflow[r].blocks \in Seq(Block) /\ workflow[r].finally \in Seq(Block)
    BY <1>1, SequenceType DEF Workflow
  <1> HIDE DEF b, m
  <1>4. b \in 1 .. m /\ pre[r] = "none"
    BY <1>2
  <1>5. Sequence(r)[b] = workflow[r].blocks[b]
    BY <1>3, <1>4, FirstPart DEF Sequence, m
  <1> QED
    BY <1>4, <1>5 DEF Outer, b

\* Only a trigger block with a completed child passes for one that completed.
LEMMA BlockEndsWalks ==
  ASSUME IInv, WInv, NEW r \in Runs, NEW result \in Results, EndFrame(r), BlockEnds(r, result),
         Outer(r).kind = "trigger" /\ result = "completed" => ChildDone(r)
  PROVE  WInv'
  <1>0. TypeOK /\ RunInv(r) /\ Walk(r) /\ Few(r) /\ pc[r] \in BlockPcs /\ pc[r] # "over"
        /\ UNCHANGED <<workflow, pre, returned, stomped>>
    BY TurnsFitWeight DEF IInv, WInv, Walk, EndFrame, BlockPcs
  <1>1. /\ MustComplete(r)' = MustComplete(r)
        /\ after'[r] \in {0, after[r]} => Few(r)'
    BY <1>0, FlowStays
  <1>2. CASE InFinally(r)
    <2>1. pc'[r] = "finalize" /\ (\A x \in Runs : x # r => pc'[x] = pc[x])
          /\ UNCHANGED <<status, after, at>>
      BY <1>0, <1>2, GotoPc DEF BlockEnds, Pcs, row
    <2>2. OnlyRun(r)
      BY <1>0, <2>1 DEF OnlyRun
    <2>3. ChildDone(r) => ChildDone(r)'
      BY <2>2, ChildStays DEF OnlyRun
    <2>4. Outer(r)' = Outer(r) /\ InLoop(r)' = InLoop(r)
      BY <1>0, <2>1, SpotStays
    <2>5. AtWork(r)' /\ Passed(r)' /\ Earned(r)'
      BY <1>0, <1>1, <2>1, <2>3, <2>4 DEF Walk, AtWork, Passed, Earned
    <2>6. Spent(r)'
      BY <1>0, <1>1, <2>1, <2>4 DEF Walk, Spent, BlockPcs
    <2> QED
      BY <2>2, <2>5, <2>6, OtherWalks DEF Walk
  <1>3. CASE ~InFinally(r) /\ GoesOn(Outer(r), result)
    <2>1. /\ at' = [at EXCEPT ![r] = [Start EXCEPT !.block = at[r].block + 1]]
          /\ Goto(r, "refresh") /\ UNCHANGED <<status, after>>
      BY <1>3 DEF BlockEnds, row
    <2>2. pc'[r] = "refresh" /\ (\A x \in Runs : x # r => pc'[x] = pc[x])
      BY <1>0, <2>1, GotoPc DEF Pcs
    <2>3. at'[r].block = at[r].block + 1 /\ at'[r].value = 0
          /\ (\A x \in Runs : x # r => at'[x] = at[x])
      BY <1>0, <2>1 DEF TypeOK, Start
    <2>4. OnlyRun(r)
      BY <1>0, <2>1, <2>2, <2>3 DEF OnlyRun
    <2>5. ChildDone(r) => ChildDone(r)'
      BY <2>4, ChildStays DEF OnlyRun
    <2>6. AtWork(r)' /\ Earned(r)'
      BY <1>0, <1>1, <2>1, <2>2, <2>3, <2>5 DEF Walk, AtWork, Earned, InLoop
    <2>7. Passed(r)'
      <3> SUFFICES ASSUME NEW i \in MustComplete(r), i < at[r].block + 1, pre[r] = "none"
                   PROVE  ChildDone(r)
        BY <1>0, <1>1, <2>3, <2>5 DEF Passed
      <3>1. i \in Nat /\ at[r].block \in Nat
        BY <1>0, MustCompleteType DEF TypeOK
      <3>2. CASE i < at[r].block
        BY <1>0, <3>2 DEF Walk, Passed
      <3>3. CASE i = at[r].block
        <4>1. Outer(r).kind = "trigger" /\ ~Outer(r).tolerant
          BY <1>0, <1>3, <3>3, OuterIsBlock DEF MustComplete
        <4> QED
          BY <1>3, <4>1 DEF GoesOn
      <3> QED
        BY <3>1, <3>2, <3>3
    <2>8. Spent(r)'
      BY <1>0, <1>1, <2>1, <2>2, <2>3 DEF Walk, Spent, BlockPcs, InLoop
    <2> QED
      BY <2>4, <2>6, <2>7, <2>8, OtherWalks DEF Walk
  <1>4. CASE ~InFinally(r) /\ ~GoesOn(Outer(r), result)
    <2>1. Write(r, Verdict(result), "engine") /\ Goto(r, "collect") /\ UNCHANGED at
      BY <1>4 DEF BlockEnds
    <2>2. Verdict(result) \in Kept /\ Verdict(result) \in Statuses
      BY <1>4 DEF GoesOn, Verdict, Results, Kept, Bad, Statuses
    <2>3. pc'[r] = "collect" /\ (\A x \in Runs : x # r => pc'[x] = pc[x])
      BY <1>0, <2>1, GotoPc DEF Pcs
    <2>4. /\ status'[r] = Verdict(result)
          /\ after'[r] = (IF Verdict(result) = "canceled" THEN after[r] ELSE 0)
          /\ \A x \in Runs : x # r => status'[x] = status[x] /\ after'[x] = after[x]
      BY <1>0, <2>1, <2>2, WriteCounts DEF Writers
    <2>5. OnlyRun(r)
      BY <1>0, <2>1, <2>3, <2>4 DEF OnlyRun
    <2>6. ChildDone(r) => ChildDone(r)'
      BY <2>5, ChildStays DEF OnlyRun
    <2>7. Outer(r)' = Outer(r) /\ InLoop(r)' = InLoop(r)
      BY <1>0, <2>1, SpotStays
    <2>8. AtWork(r)' /\ Passed(r)'
      BY <1>0, <1>1, <2>1, <2>3, <2>6, <2>7 DEF Walk, AtWork, Passed
    <2>9. Earned(r)'
      BY <1>0, <1>1, <2>2, <2>3, <2>4, <2>6 DEF Walk, Earned, Kept, Bad
    <2>10. Spent(r)'
      BY <1>0, <1>1, <2>1, <2>3, <2>4, <2>7 DEF Walk, Spent, BlockPcs
    <2> QED
      BY <2>5, <2>8, <2>9, <2>10, OtherWalks DEF Walk
  <1> QED
    BY <1>2, <1>3, <1>4 DEF BlockEnds

\* The next block of a loop, or its first: the turns before it are those counted.
LEMMA NextTurnWalks ==
  ASSUME IInv, WInv, NEW r \in Runs, NEW v \in Nat, NEW i \in Nat,
         UNCHANGED <<workflow, pre, returned, stomped, status, after>>,
         pc[r] \in BlockPcs, Goto(r, "begin"),
         at' = [at EXCEPT ![r].value = v, ![r].inner = i],
         v > 0, v <= Outer(r).values, Outer(r).kind = "loop",
         after[r] <= (v - 1) * Len(Outer(r).body) + (i - 1)
  PROVE  WInv'
  <1>0. TypeOK /\ Walk(r) /\ pc[r] # "over"
    BY DEF IInv, WInv, BlockPcs
  <1>1. pc'[r] = "begin" /\ (\A x \in Runs : x # r => pc'[x] = pc[x])
    BY <1>0, GotoPc DEF Pcs
  <1>2. /\ at'[r].block = at[r].block /\ at'[r].value = v /\ at'[r].inner = i
        /\ \A x \in Runs : x # r => at'[x] = at[x]
    BY <1>0 DEF TypeOK
  <1>3. OnlyRun(r)
    BY <1>0, <1>1, <1>2 DEF OnlyRun
  <1>4. Outer(r)' = Outer(r) /\ InLoop(r)'
    BY <1>2 DEF Outer, Sequence, InLoop
  <1>5. MustComplete(r)' = MustComplete(r)
    BY FlowStays
  <1>6. ChildDone(r) => ChildDone(r)'
    BY <1>3, ChildStays DEF OnlyRun
  <1>7. AtWork(r)' /\ Passed(r)' /\ Earned(r)'
    BY <1>0, <1>1, <1>2, <1>4, <1>5, <1>6 DEF Walk, AtWork, Passed, Earned
  <1>8. Turns(r)' = (v - 1) * Len(Outer(r).body) + (i - 1) /\ Begun(r)' = 0
    BY <1>1, <1>2, <1>4 DEF Turns, Begun
  <1>9. after'[r] <= Turns(r)' + Begun(r)'
    <2> DEFINE t == (v - 1) * Len(Outer(r).body) + (i - 1)
    <2>1. t \in Int /\ after[r] \in Nat /\ after[r] <= t
      <3>1. Len(Outer(r).body) \in Nat
        BY AtBlock
      <3> QED
        BY <1>0, <3>1 DEF TypeOK
    <2> HIDE DEF t
    <2>2. after[r] <= t + 0
      BY <2>1
    <2> QED
      BY <1>8, <2>2 DEF t
  <1>10. Spent(r)'
    BY <1>0, <1>1, <1>2, <1>4, <1>9 DEF Walk, Spent, BlockPcs
  <1> QED
    BY <1>3, <1>7, <1>10, OtherWalks DEF Walk

\* A block of the sequence or of a loop ends.
LEMMA EndsWalks ==
  ASSUME IInv, WInv, NEW r \in Runs, NEW result \in Results, EndFrame(r), Ends(r, result),
         pc[r] \notin {"begin", "looping"},
         ~InLoop(r) /\ Outer(r).kind = "trigger" /\ result = "completed" => ChildDone(r)
  PROVE  WInv'
  <1>0. TypeOK /\ RunInv(r) /\ Walk(r) /\ pc[r] \in BlockPcs
        /\ UNCHANGED <<workflow, pre, returned, stomped>>
    BY DEF IInv, WInv, EndFrame
  <1>1. CASE ~InLoop(r)
    BY <1>1, BlockEndsWalks DEF Ends
  <1> SUFFICES ASSUME InLoop(r) PROVE WInv'
    BY <1>1
  <1>2. Outer(r).kind = "loop"
    BY <1>0 DEF Walk, AtWork
  <1> DEFINE v == at[r].value
             i == at[r].inner
             l == Len(Outer(r).body)
             n == Outer(r).values
  <1>3. v \in Nat /\ v > 0 /\ v <= n /\ i \in 1 .. l /\ l \in Nat /\ n \in Nat
    BY <1>0, AtBlock DEF TypeOK, InLoop, Walk, Spent
  <1>4. (v - 1) * l + (i - 1) \in Nat /\ (v - 1) * l + (l - 1) + 1 = ((v + 1) - 1) * l + (1 - 1)
    <2> HIDE DEF v, i, l, n
    <2> QED
      BY <1>3, TurnsFit
  <1>5. after[r] \in Nat /\ after[r] <= (v - 1) * l + (i - 1) + 1
    BY <1>0 DEF TypeOK, Walk, Spent, Turns, Begun
  <1>6. CASE /\ at' = [at EXCEPT ![r].inner = @ + 1]
             /\ Goto(r, "begin") /\ UNCHANGED <<row, blamed>>
    <2>1. at' = [at EXCEPT ![r].value = v, ![r].inner = i + 1]
      BY <1>0, <1>6 DEF TypeOK
    <2>2. i + 1 \in Nat /\ (i + 1) - 1 = (i - 1) + 1
      BY <1>3
    <2>3. after[r] <= (v - 1) * l + ((i + 1) - 1)
      <3> DEFINE u == (v - 1) * l
      <3>1. u \in Int
        <4> HIDE DEF v, l
        <4> QED
          BY <1>3
      <3>2. i \in Nat
        BY <1>3
      <3> HIDE DEF u, i
      <3> QED
        BY <1>5, <3>1, <3>2 DEF u
    <2> QED
      BY <1>0, <1>2, <1>3, <1>6, <2>1, <2>2, <2>3, NextTurnWalks DEF row
  <1>7. CASE /\ v < n /\ at' = [at EXCEPT ![r].value = @ + 1, ![r].inner = 1]
             /\ Goto(r, "begin") /\ UNCHANGED <<row, blamed>>
    <2>1. at' = [at EXCEPT ![r].value = v + 1, ![r].inner = 1]
      BY <1>0, <1>7 DEF TypeOK
    <2>2. v + 1 \in Nat /\ v + 1 > 0 /\ v + 1 <= n
      <3> HIDE DEF v, n
      <3> QED
        BY <1>3, <1>7
    <2>3. after[r] <= ((v + 1) - 1) * l + (1 - 1)
      <3> DEFINE u == (v - 1) * l
                 t == ((v + 1) - 1) * l + (1 - 1)
      <3>1. u \in Int /\ t \in Int
        <4> HIDE DEF v, l
        <4> QED
          BY <1>3
      <3>2. u + (l - 1) + 1 = t
        BY <1>4
      <3> HIDE DEF u, t, l, i
      <3>3. after[r] <= u + (i - 1) + 1
        BY <1>5 DEF u
      <3>4. after[r] <= t
        BY <1>3, <1>5, <3>1, <3>2, <3>3
      <3> QED
        BY <3>4 DEF t
    <2> DEFINE w == v + 1
    <2>4. at' = [at EXCEPT ![r].value = w, ![r].inner = 1]
      BY <2>1
    <2>5. w \in Nat /\ w > 0 /\ w <= n
      BY <2>2
    <2>6. after[r] <= (w - 1) * l + (1 - 1)
      BY <2>3
    <2>7. 1 \in Nat /\ Goto(r, "begin") /\ UNCHANGED <<status, after>>
      BY <1>7 DEF row
    <2> HIDE DEF w
    <2> QED
      BY <1>0, <1>2, <2>4, <2>5, <2>6, <2>7, NextTurnWalks
  <1>8. CASE BlockEnds(r, LoopResult(Current(r), result))
    <2>1. LoopResult(Current(r), result) \in Results
      BY DEF LoopResult, Results
    <2> QED
      BY <1>2, <1>8, <2>1, BlockEndsWalks
  <1> QED
    BY <1>6, <1>7, <1>8 DEF Ends, InnerEnds

-----------------------------------------------------------------------------
(* The engine, action by action.                                           *)

\* The actions in which a block ends; a trigger block completes with its child.
LEMMA OutcomesWalk ==
  ASSUME IInv, WInv, NEW r \in Runs,
         Act(r) \/ HumanIsLate(r) \/ HumanAnswers(r) \/ ChildIsOver(r)
  PROVE  WInv'
  <1>1. Walk(r)
    BY DEF WInv
  <1>2. PICK result \in Results :
          Ends(r, result) /\ (pc[r] = "awaiting" /\ result = "completed" => ChildDone(r))
    <2>1. CASE Act(r)
      BY <2>1 DEF Act, Results
    <2>2. CASE ChildIsOver(r)
      <3>1. PICK c \in Runs : Parent[c] = r /\ (Ends(r, ChildResult(c)) \/ Ends(r, "failed"))
        BY <2>2 DEF ChildIsOver
      <3>2. ChildResult(c) \in {"completed", "failed"}
            /\ (ChildResult(c) = "completed" => ChildDone(r))
        BY <3>1 DEF ChildResult, ChildDone
      <3> QED
        BY <3>1, <3>2 DEF Results
    <2>3. CASE HumanIsLate(r) \/ HumanAnswers(r)
      BY <2>3 DEF HumanIsLate, HumanAnswers, Results
    <2> QED
      BY <2>1, <2>2, <2>3
  <1>3. EndFrame(r) /\ pc[r] \in {"acting", "waiting", "awaiting"}
    BY DEF Act, HumanIsLate, HumanAnswers, ChildIsOver, EndFrame, BlockPcs, clients
  <1>4. ~InLoop(r) /\ Outer(r).kind = "trigger" => pc[r] = "awaiting"
    BY <1>1, <1>3 DEF Walk, AtWork, Current
  <1> QED
    BY <1>2, <1>3, <1>4, EndsWalks

\* What a block raises is its failure, and never a completed child.
LEMMA BlockFailsWalks ==
  ASSUME IInv, WInv, NEW r \in Runs, BlockFails(r)
  PROVE  WInv'
  <1>1. Walk(r) /\ EndFrame(r) /\ "failed" \in Results /\ "failed" # "completed"
    BY DEF WInv, BlockFails, EndFrame, BlockPcs, clients, Results
  <1>2. CASE pc[r] \in {"pausing", "mailing", "waiting", "triggering"}
    <2>1. Ends(r, "failed")
      BY <1>2 DEF BlockFails
    <2> QED
      BY <1>1, <1>2, <2>1, EndsWalks
  <1>3. CASE pc[r] = "looping"
    <2>1. Ends(r, "failed")
      BY <1>3 DEF BlockFails
    <2>2. ~InLoop(r)
      BY <1>1, <1>3, AtBlock DEF Walk, AtWork, EndFrame
    <2>3. BlockEnds(r, "failed")
      BY <2>1, <2>2 DEF Ends
    <2> QED
      BY <1>1, <2>3, BlockEndsWalks
  <1>4. CASE pc[r] = "begin"
    <2>1. BlockEnds(r, "failed")
      BY <1>4 DEF BlockFails
    <2> QED
      BY <1>1, <2>1, BlockEndsWalks
  <1> QED
    BY <1>2, <1>3, <1>4 DEF BlockFails

LEMMA LoopWalks ==
  ASSUME IInv, WInv, NEW r \in Runs, Loop(r)
  PROVE  WInv'
  <1>1. TypeOK /\ Walk(r) /\ pc[r] = "looping" /\ pc[r] \in BlockPcs
        /\ UNCHANGED <<workflow, pre, returned, webhook, cancel, stomped>>
    BY DEF IInv, WInv, Loop, BlockPcs, clients
  <1>2. ~InLoop(r) /\ Outer(r).kind = "loop"
    BY <1>1, AtBlock DEF Walk, AtWork, Current
  <1>3. CASE Outer(r).values = 0 \/ Outer(r).body = <<>>
    <2>1. PICK result \in {"completed", "terminated"} : BlockEnds(r, result)
      BY <1>3 DEF Loop, EmptyLoopResults
    <2> QED
      BY <1>1, <1>2, <2>1, BlockEndsWalks DEF EndFrame, Results
  <1>4. CASE ~(Outer(r).values = 0 \/ Outer(r).body = <<>>)
    <2>1. /\ at' = [at EXCEPT ![r].value = 1, ![r].inner = 1]
          /\ Goto(r, "begin") /\ UNCHANGED <<status, after>>
      BY <1>4 DEF Loop, row
    <2>2. after[r] = 0
      BY <1>1, <1>2 DEF Walk, Spent, Turns, Begun, TypeOK
    <2> DEFINE l == Len(Outer(r).body)
    <2>3. l \in Nat /\ Outer(r).values \in Nat
      BY <1>1, AtBlock
    <2>4. 1 <= Outer(r).values
      BY <1>4, <2>3
    <2>5. after[r] <= (1 - 1) * l + (1 - 1)
      <3> HIDE DEF l
      <3> QED
        BY <2>2, <2>3
    <2>6. 1 \in Nat /\ 1 > 0
      OBVIOUS
    <2> QED
      BY <1>1, <1>2, <2>1, <2>4, <2>5, <2>6, NextTurnWalks
  <1> QED
    BY <1>3, <1>4

\* Before the blocks the row is written anew.
LEMMA PreparesWalk ==
  ASSUME IInv, WInv, NEW r \in Runs, Begin(r) \/ ContextFails(r) \/ StartBlocks(r)
  PROVE  WInv'
  <1>0. TypeOK /\ Placed(r) /\ Walk(r) /\ pc[r] \in {"queued", "context"}
        /\ UNCHANGED <<workflow, at, pre, stomped>>
    BY DEF IInv, RunInv, WInv, Begin, ContextFails, StartBlocks, clients
  <1>1. PICK s \in {"running", "failed"} : Write(r, s, "engine")
    BY DEF Begin, ContextFails, StartBlocks
  <1>2. status'[r] = s /\ after'[r] = 0
        /\ \A x \in Runs : x # r => status'[x] = status[x] /\ after'[x] = after[x]
    BY <1>0, <1>1, WriteCounts DEF Statuses, Writers
  <1>3. pc'[r] \in {"context", "refresh", "cleanup"} /\ \A x \in Runs : x # r => pc'[x] = pc[x]
    BY <1>0, GotoPc DEF Begin, ContextFails, StartBlocks, Pcs
  <1>4. \A x \in Runs : x # r => returned'[x] = returned[x]
    BY <1>0 DEF Begin, ContextFails, StartBlocks, TypeOK
  <1>5. OnlyRun(r)
    BY <1>0, <1>2, <1>3, <1>4 DEF OnlyRun
  <1>6. pre[r] = "none" /\ ~InLoop(r) /\ ~InLoop(r)'
    BY <1>0 DEF Placed, Early, Outside, InLoop
  <1>7. ChildDone(r) => ChildDone(r)'
    BY <1>5, ChildStays DEF OnlyRun
  <1>8. MustComplete(r)' = MustComplete(r) /\ Few(r)'
    BY <1>0, <1>2, FlowStays DEF Few
  <1>9. AtWork(r)' /\ Passed(r)'
    BY <1>0, <1>3, <1>6, <1>7, <1>8 DEF Walk, AtWork, Passed
  <1>10. Earned(r)' /\ Spent(r)'
    BY <1>0, <1>2, <1>3, <1>6, <1>7, <1>8 DEF Earned, Spent, BlockPcs
  <1> QED
    BY <1>5, <1>9, <1>10, OtherWalks DEF Walk

\* Between two blocks a cancel is seen, and nothing has been executed since otherwise.
LEMMA RefreshWalks ==
  ASSUME IInv, WInv, NEW r \in Runs, Refresh(r)
  PROVE  WInv'
  <1>0. TypeOK /\ Placed(r) /\ Walk(r) /\ pc[r] = "refresh"
        /\ UNCHANGED <<workflow, status, after, at, pre, returned, stomped>>
    BY DEF IInv, RunInv, WInv, Refresh, row, clients
  <1>1. /\ pc'[r] \in {"collect", "begin"}
        /\ pc'[r] = "collect" => InFinally(r) \/ status[r] = "canceled"
        /\ pc'[r] = "begin" => status[r] # "canceled"
        /\ \A x \in Runs : x # r => pc'[x] = pc[x]
    BY <1>0, GotoPc DEF Refresh, Pcs
  <1>2. OnlyRun(r)
    BY <1>0, <1>1 DEF OnlyRun
  <1>3. pre[r] = "none" /\ ~InLoop(r)
    BY <1>0 DEF Placed, Early, Outside
  <1>4. ChildDone(r) => ChildDone(r)'
    BY <1>2, ChildStays DEF OnlyRun
  <1>5. /\ Outer(r)' = Outer(r) /\ InLoop(r)' = InLoop(r) /\ Turns(r)' = Turns(r)
        /\ MustComplete(r)' = MustComplete(r) /\ Few(r)'
    BY <1>0, SpotStays, FlowStays, TurnsFitWeight DEF Walk
  <1>6. InFinally(r) /\ MustComplete(r) # {} => ChildDone(r)
    <2> SUFFICES ASSUME InFinally(r), NEW i \in MustComplete(r) PROVE ChildDone(r)
      OBVIOUS
    <2>1. i < at[r].block
      <3> DEFINE b == at[r].block
                 m == Len(workflow[r].blocks)
      <3>1. b \in Nat /\ m \in Nat /\ b > m /\ i \in Nat /\ i <= m
        BY <1>0, SequenceType, MustCompleteType DEF TypeOK, InFinally
      <3> HIDE DEF b, m
      <3>2. i < b
        BY <3>1
      <3> QED
        BY <3>2 DEF b
    <2> QED
      BY <1>0, <1>3, <2>1 DEF Walk, Passed
  <1>7. AtWork(r)' /\ Passed(r)'
    BY <1>0, <1>1, <1>3, <1>4, <1>5 DEF Walk, AtWork, Passed
  <1>8. Earned(r)'
    BY <1>0, <1>1, <1>3, <1>4, <1>5, <1>6 DEF Walk, Earned, Kept
  <1>9. Spent(r)'
    BY <1>0, <1>1, <1>3, <1>5 DEF Walk, Spent, Turns, Begun, BlockPcs
  <1> QED
    BY <1>2, <1>7, <1>8, <1>9, OtherWalks DEF Walk

\* The one step that counts.
LEMMA BeginBlockWalks ==
  ASSUME IInv, WInv, NEW r \in Runs, BeginBlock(r)
  PROVE  WInv'
  <1>0. TypeOK /\ Placed(r) /\ Walk(r) /\ pc[r] = "begin" /\ pc[r] \in BlockPcs
        /\ UNCHANGED <<workflow, status, at, pre, returned, stomped>>
    BY DEF IInv, RunInv, WInv, BeginBlock, BlockPcs, clients
  <1> DEFINE k == Current(r).kind
  <1>1. k \in Kinds
    BY <1>0, CurrentType
  <1>2. Waits[k] \in Pcs
    BY <1>1 DEF Kinds, Waits, Pcs
  <1>3. pc'[r] = Waits[k] /\ \A x \in Runs : x # r => pc'[x] = pc[x]
    BY <1>0, <1>2, GotoPc DEF BeginBlock
  <1>4. /\ after'[r] = (IF status[r] = "canceled" /\ k # "loop" THEN after[r] + 1 ELSE after[r])
        /\ \A x \in Runs : x # r => after'[x] = after[x]
    BY <1>0 DEF BeginBlock, TypeOK
  <1>5. OnlyRun(r)
    BY <1>0, <1>3, <1>4 DEF OnlyRun
  <1>6. ChildDone(r) => ChildDone(r)'
    BY <1>5, ChildStays DEF OnlyRun
  <1>7. /\ Outer(r)' = Outer(r) /\ InLoop(r)' = InLoop(r) /\ Current(r)' = Current(r)
        /\ Turns(r)' = Turns(r) /\ MustComplete(r)' = MustComplete(r)
    BY <1>0, SpotStays, FlowStays
  <1>8. Turns(r) \in Nat /\ after[r] \in Nat /\ after[r] <= Turns(r)
    BY <1>0, TurnsFitWeight DEF Walk, Spent, Begun, TypeOK
  <1> HIDE DEF k
  <1>9. /\ pc'[r] \in {"acting", "pausing", "triggering", "looping"}
        /\ pc'[r] = "acting" <=> k \in {"task", "code"}
        /\ pc'[r] = "pausing" <=> k = "human"
        /\ pc'[r] = "triggering" <=> k = "trigger"
        /\ pc'[r] = "looping" <=> k = "loop"
    BY <1>1, <1>3 DEF Kinds, Waits
  <1>10. AtWork(r)'
    BY <1>0, <1>7, <1>9 DEF Walk, AtWork, k
  <1>11. Passed(r)' /\ Earned(r)'
    BY <1>0, <1>6, <1>7, <1>9 DEF Walk, Passed, Earned
  <1>12. after'[r] <= Turns(r) + Begun(r)'
    BY <1>4, <1>8, <1>9 DEF Begun
  <1>13. Spent(r)'
    BY <1>0, <1>4, <1>7, <1>9, <1>12 DEF Walk, Spent, BlockPcs
  <1> QED
    BY <1>5, <1>10, <1>11, <1>13, OtherWalks DEF Walk

LEMMA BlockBreaksWalks ==
  ASSUME IInv, WInv, NEW r \in Runs, BlockBreaks(r)
  PROVE  WInv'
  <1>0. TypeOK /\ Walk(r) /\ pc[r] = "begin" /\ pc[r] \in BlockPcs /\ EndFrame(r)
        /\ UNCHANGED <<workflow, at, pre, returned, stomped>>
    BY DEF IInv, WInv, BlockBreaks, BlockPcs, EndFrame, clients
  <1>1. CASE InFinally(r)
    <2>1. BlockEnds(r, "failed") /\ "failed" \in Results
      BY <1>1 DEF BlockBreaks, BlockEnds, Results
    <2> QED
      BY <1>0, <2>1, BlockEndsWalks
  <1>2. CASE ~InFinally(r)
    <2>1. Write(r, "failed", "engine") /\ Goto(r, "collect")
      BY <1>2 DEF BlockBreaks
    <2>2. status'[r] = "failed" /\ after'[r] = 0
          /\ \A x \in Runs : x # r => status'[x] = status[x] /\ after'[x] = after[x]
      BY <1>0, <2>1, WriteCounts DEF Statuses, Writers
    <2>3. pc'[r] = "collect" /\ (\A x \in Runs : x # r => pc'[x] = pc[x])
      BY <1>0, <2>1, GotoPc DEF Pcs
    <2>4. OnlyRun(r)
      BY <1>0, <2>2, <2>3 DEF OnlyRun
    <2>5. ChildDone(r) => ChildDone(r)'
      BY <2>4, ChildStays DEF OnlyRun
    <2>6. /\ Outer(r)' = Outer(r) /\ InLoop(r)' = InLoop(r)
          /\ MustComplete(r)' = MustComplete(r) /\ Few(r)'
      BY <1>0, <2>2, SpotStays, FlowStays DEF Few
    <2>7. AtWork(r)' /\ Passed(r)'
      BY <1>0, <2>3, <2>5, <2>6 DEF Walk, AtWork, Passed
    <2>8. Earned(r)'
      BY <1>0, <2>2, <2>3, <2>5, <2>6 DEF Walk, Earned, Kept, Bad
    <2>9. Spent(r)'
      BY <1>0, <2>2, <2>3, <2>6 DEF Walk, Spent, BlockPcs
    <2> QED
      BY <2>4, <2>7, <2>8, <2>9, OtherWalks DEF Walk
  <1> QED
    BY <1>1, <1>2

\* The human block stays the same block while it pauses and mails.
LEMMA HumanWalks ==
  ASSUME IInv, WInv, NEW r \in Runs, Pause(r) \/ MailSent(r)
  PROVE  WInv'
  <1>0. TypeOK /\ Walk(r) /\ pc[r] \in {"pausing", "mailing"} /\ pc[r] \in BlockPcs
        /\ UNCHANGED <<workflow, at, pre, returned, stomped>>
    BY DEF IInv, WInv, Pause, MailSent, BlockPcs, clients
  <1>1. pc'[r] \in {"mailing", "waiting"} /\ (\A x \in Runs : x # r => pc'[x] = pc[x])
    BY <1>0, GotoPc DEF Pause, MailSent, Pcs
  <1>2. /\ \/ status'[r] = status[r] /\ after'[r] = after[r]
           \/ status'[r] = "paused" /\ after'[r] = 0
        /\ \A x \in Runs : x # r => status'[x] = status[x] /\ after'[x] = after[x]
    <2>1. CASE Pause(r)
      BY <1>0, <2>1, WriteCounts DEF Pause, Statuses, Writers
    <2>2. CASE MailSent(r)
      BY <2>2 DEF MailSent, row
    <2> QED
      BY <2>1, <2>2
  <1>3. OnlyRun(r)
    BY <1>0, <1>1, <1>2 DEF OnlyRun
  <1>4. ChildDone(r) => ChildDone(r)'
    BY <1>3, ChildStays DEF OnlyRun
  <1>5. /\ Outer(r)' = Outer(r) /\ InLoop(r)' = InLoop(r) /\ Current(r)' = Current(r)
        /\ Turns(r)' = Turns(r) /\ MustComplete(r)' = MustComplete(r)
    BY <1>0, SpotStays, FlowStays
  <1>6. Turns(r) \in Nat /\ after[r] \in Nat /\ after[r] <= Turns(r) + 1
    BY <1>0, TurnsFitWeight DEF Walk, Spent, Begun, TypeOK
  <1>7. AtWork(r)' /\ Passed(r)'
    BY <1>0, <1>1, <1>4, <1>5 DEF Walk, AtWork, Passed
  <1>8. Earned(r)'
    BY <1>0, <1>1, <1>2, <1>4, <1>5 DEF Walk, Earned
  <1>9. Spent(r)'
    BY <1>0, <1>1, <1>2, <1>5, <1>6 DEF Walk, Spent, Begun, BlockPcs
  <1> QED
    BY <1>3, <1>7, <1>8, <1>9, OtherWalks DEF Walk

\* The run that is triggered has not begun, and nothing counted for it.
LEMMA TriggerWalks ==
  ASSUME IInv, WInv, NEW r \in Runs, Trigger(r)
  PROVE  WInv'
  <1>1. PICK c \in Runs :
          /\ status[c] = "absent"
          /\ status' = [status EXCEPT ![c] = "created"]
          /\ pc' = [pc EXCEPT ![r] = "awaiting", ![c] = "queued"]
    BY DEF Trigger
  <1>2. TypeOK /\ pc[r] = "triggering"
        /\ UNCHANGED <<workflow, after, at, pre, returned, stomped>>
    BY DEF IInv, Trigger, clients
  <1>3. pc[c] = "none" /\ c # r
    BY <1>1, <1>2 DEF IInv, RunInv, Judged
  <1>4. /\ pc'[r] = "awaiting" /\ pc'[c] = "queued" /\ status'[c] = "created"
        /\ \A x \in Runs : x # r /\ x # c => pc'[x] = pc[x]
        /\ \A x \in Runs : x # c => status'[x] = status[x]
    BY <1>1, <1>2, <1>3 DEF TypeOK
  <1> SUFFICES ASSUME NEW x \in Runs PROVE Walk(x)'
    BY DEF WInv
  <1>5. Walk(x)
    BY DEF WInv
  <1>6. ChildDone(x) => ChildDone(x)'
    BY <1>2, <1>3, <1>4, ChildStays
  <1>7. /\ Outer(x)' = Outer(x) /\ InLoop(x)' = InLoop(x) /\ Current(x)' = Current(x)
        /\ Turns(x)' = Turns(x) /\ MustComplete(x)' = MustComplete(x)
        /\ Few(x)'
    BY <1>2, <1>5, SpotStays, FlowStays, TurnsFitWeight DEF Walk
  <1>8. AtWork(x)' /\ Passed(x)'
    BY <1>2, <1>3, <1>4, <1>5, <1>6, <1>7 DEF Walk, AtWork, Passed
  <1>9. Earned(x)'
    BY <1>2, <1>3, <1>4, <1>5, <1>6, <1>7 DEF Walk, Earned
  <1>10. Spent(x)'
    BY <1>1, <1>2, <1>3, <1>4, <1>5, <1>7 DEF Walk, Spent, Begun, BlockPcs
  <1> QED
    BY <1>8, <1>9, <1>10 DEF Walk

\* What is collected is no better than the row.
LEMMA CollectWalks ==
  ASSUME IInv, WInv, NEW r \in Runs, Collect(r)
  PROVE  WInv'
  <1>0. TypeOK /\ Placed(r) /\ Walk(r) /\ pc[r] = "collect"
        /\ UNCHANGED <<workflow, status, after, returned, stomped>>
    BY DEF IInv, RunInv, WInv, Collect, row, clients
  <1>1. pc'[r] = "closing" /\ (\A x \in Runs : x # r => pc'[x] = pc[x])
    BY <1>0, GotoPc DEF Collect, Pcs
  <1>2. at'[r].value = 0 /\ (\A x \in Runs : x # r => at'[x] = at[x])
    BY <1>0 DEF Collect, TypeOK, Start
  <1>3. pre'[r] = status[r] /\ status[r] # "none" /\ (\A x \in Runs : x # r => pre'[x] = pre[x])
    BY <1>0 DEF Collect, TypeOK, Statuses
  <1>4. OnlyRun(r)
    BY <1>0, <1>1, <1>2, <1>3 DEF OnlyRun
  <1>5. ChildDone(r) => ChildDone(r)'
    BY <1>4, ChildStays DEF OnlyRun
  <1>6. MustComplete(r)' = MustComplete(r) /\ Few(r)'
    BY <1>0, FlowStays, TurnsFitWeight DEF Walk
  <1>7. AtWork(r)' /\ Passed(r)'
    BY <1>1, <1>2, <1>3 DEF AtWork, Passed, InLoop
  <1>8. Earned(r)'
    BY <1>0, <1>1, <1>3, <1>5, <1>6 DEF Walk, Earned
  <1>9. Spent(r)'
    BY <1>0, <1>1, <1>2, <1>3, <1>6 DEF Walk, Spent, InLoop, BlockPcs
  <1> QED
    BY <1>4, <1>7, <1>8, <1>9, OtherWalks DEF Walk

\* The finally block is begun only if no cancel was collected.
LEMMA BeginFinallyWalks ==
  ASSUME IInv, WInv, NEW r \in Runs, BeginFinally(r)
  PROVE  WInv'
  <1>0. TypeOK /\ Placed(r) /\ Walk(r) /\ pc[r] = "closing"
        /\ UNCHANGED <<workflow, at, pre, returned, stomped>>
    BY DEF IInv, RunInv, WInv, BeginFinally, clients
  <1>1. /\ pc'[r] \in {"begin", "finalize"}
        /\ pc'[r] = "begin" => pre[r] # "canceled"
        /\ \A x \in Runs : x # r => pc'[x] = pc[x]
    BY <1>0, GotoPc DEF BeginFinally, HasFinally, Pcs
  <1>2. /\ \/ status'[r] = status[r] /\ after'[r] = after[r]
           \/ status'[r] = "running" /\ after'[r] = 0
        /\ \A x \in Runs : x # r => status'[x] = status[x] /\ after'[x] = after[x]
    <2>1. CASE BorrowsRunning(r)
      BY <1>0, <2>1, WriteCounts DEF BeginFinally, Statuses, Writers
    <2>2. CASE ~BorrowsRunning(r)
      BY <2>2 DEF BeginFinally, row
    <2> QED
      BY <2>1, <2>2
  <1>3. OnlyRun(r)
    BY <1>0, <1>1, <1>2 DEF OnlyRun
  <1>4. ChildDone(r) => ChildDone(r)'
    BY <1>3, ChildStays DEF OnlyRun
  <1>5. ~InLoop(r) /\ ~InLoop(r)' /\ pre[r] # "none"
    BY <1>0 DEF Placed, Outside, Closing, InLoop
  <1>6. MustComplete(r)' = MustComplete(r) /\ Few(r)'
    BY <1>0, <1>2, FlowStays, TurnsFitWeight DEF Walk
  <1>7. AtWork(r)' /\ Passed(r)'
    BY <1>0, <1>1, <1>5 DEF AtWork, Passed
  <1>8. Earned(r)'
    BY <1>0, <1>1, <1>2, <1>4, <1>6 DEF Walk, Earned
  <1>9. Spent(r)'
    BY <1>0, <1>1, <1>2, <1>5, <1>6 DEF Walk, Spent, Turns, Begun, BlockPcs
  <1> QED
    BY <1>3, <1>7, <1>8, <1>9, OtherWalks DEF Walk

\* Finalizing completes a run only if what was collected was not bad.
LEMMA FinalizeWalks ==
  ASSUME IInv, WInv, NEW r \in Runs, Finalize(r)
  PROVE  WInv'
  <1> DEFINE s == IF pre[r] \in Kept THEN pre[r] ELSE "completed"
  <1>0. TypeOK /\ Walk(r) /\ pc[r] = "finalize"
        /\ UNCHANGED <<workflow, at, pre, stomped>>
    BY DEF IInv, WInv, Finalize, clients
  <1>1. pc'[r] = "cleanup" /\ (\A x \in Runs : x # r => pc'[x] = pc[x])
    BY <1>0, GotoPc DEF Finalize, Pcs
  <1>2. /\ s \in {"completed", "failed", "terminated", "canceled"}
        /\ pre[r] \in Kept => s # "completed"
    BY DEF Kept, Bad
  <1>3. /\ returned' = [returned EXCEPT ![r] = s]
        /\ IF s = "completed" \/ BorrowsRunning(r) THEN Write(r, s, "engine") ELSE UNCHANGED row
    BY DEF Finalize, Kept
  <1> HIDE DEF s
  <1>4. /\ \/ status'[r] = status[r] /\ after'[r] = after[r]
           \/ status'[r] = s /\ after'[r] = (IF s = "canceled" THEN after[r] ELSE 0)
        /\ \A x \in Runs : x # r => status'[x] = status[x] /\ after'[x] = after[x]
    <2>1. CASE s = "completed" \/ BorrowsRunning(r)
      BY <1>0, <1>2, <1>3, <2>1, WriteCounts DEF Statuses, Writers
    <2>2. CASE ~(s = "completed" \/ BorrowsRunning(r))
      BY <1>3, <2>2 DEF row
    <2> QED
      BY <2>1, <2>2
  <1>5. \A x \in Runs : x # r => returned'[x] = returned[x]
    BY <1>0, <1>3 DEF TypeOK
  <1>6. OnlyRun(r)
    BY <1>0, <1>1, <1>4, <1>5 DEF OnlyRun
  <1>7. ChildDone(r) => ChildDone(r)'
    BY <1>6, ChildStays DEF OnlyRun
  <1>8. Outer(r)' = Outer(r) /\ InLoop(r)' = InLoop(r) /\ MustComplete(r)' = MustComplete(r)
    BY <1>0, SpotStays, FlowStays
  <1>9. Few(r)'
    BY <1>0, <1>4, FlowStays, TurnsFitWeight DEF Walk
  <1>10. pre[r] # "none"
    BY <1>0 DEF IInv, RunInv, Placed, Closing
  <1>11. AtWork(r)' /\ Passed(r)'
    BY <1>0, <1>1, <1>8, <1>10 DEF Walk, AtWork, Passed
  <1>12. Earned(r)'
    BY <1>0, <1>1, <1>2, <1>4, <1>7, <1>8, <1>10 DEF Walk, Earned
  <1>13. Spent(r)'
    BY <1>0, <1>1, <1>4, <1>8, <1>9 DEF Walk, Spent, BlockPcs
  <1> QED
    BY <1>6, <1>11, <1>12, <1>13, OtherWalks DEF Walk

\* A run that raises, or is cleaned up, is left as it is until it is over.
LEMMA LeavingWalks ==
  ASSUME IInv, WInv, NEW r \in Runs,
         \/ Raises(r) \/ ReadsForWebhook(r) \/ Posts(r) \/ PostsNothing(r) \/ CleanUpRaises(r)
  PROVE  WInv'
  <1>0. TypeOK /\ Walk(r) /\ pc[r] \notin BlockPcs /\ pc[r] # "over"
        /\ UNCHANGED <<workflow, status, after, at, pre, returned, stomped>>
    BY DEF IInv, WInv, Raises, ReadsForWebhook, Posts, PostsNothing, CleanUpRaises, row, clients,
           BlockPcs
  <1>1. \E l \in {"cleanup", "posting", "over", "raised"} : Goto(r, l)
    BY DEF Raises, ReadsForWebhook, Posts, PostsNothing, CleanUpRaises, Leaves
  <1>2. pc'[r] \in {"cleanup", "posting", "over", "raised"}
        /\ (\A x \in Runs : x # r => pc'[x] = pc[x])
    BY <1>0, <1>1, GotoPc DEF Pcs
  <1>3. OnlyRun(r)
    BY <1>0, <1>2 DEF OnlyRun
  <1>4. ChildDone(r) => ChildDone(r)'
    BY <1>3, ChildStays DEF OnlyRun
  <1>5. /\ Outer(r)' = Outer(r) /\ InLoop(r)' = InLoop(r)
        /\ MustComplete(r)' = MustComplete(r) /\ Few(r)'
    BY <1>0, SpotStays, FlowStays, TurnsFitWeight DEF Walk
  <1>6. AtWork(r)' /\ Passed(r)' /\ Earned(r)'
    BY <1>0, <1>2, <1>4, <1>5 DEF Walk, AtWork, Passed, Earned
  <1>7. Spent(r)'
    BY <1>0, <1>2, <1>5 DEF Walk, Spent, BlockPcs
  <1> QED
    BY <1>3, <1>6, <1>7, OtherWalks DEF Walk

-----------------------------------------------------------------------------
(* The endpoints.                                                          *)

\* A cancel keeps the count, a continue starts it anew and is late unless it found a pause.
LEMMA ClientsWalk ==
  ASSUME IInv, WInv, NEW q \in Runs, Clients(q)
  PROVE  WInv'
  <1>0. TypeOK /\ UNCHANGED <<workflow, pc, at, pre, returned>>
    BY DEF IInv, Clients, CancelReads, CancelChild, CancelSelf, CancelReadsForWebhook, CancelPosts,
           CancelBreaks, ContinueReads, ContinueWrites
  <1>1. PICK r \in Runs :
          /\ \/ status'[r] = status[r] /\ after'[r] = after[r] /\ stomped' = stomped
             \/ status'[r] = "canceled" /\ after'[r] = after[r] /\ stomped' = stomped
             \/ /\ status'[r] = "running" /\ after'[r] = 0
                /\ r \in stomped' <=> r \in stomped \/ status[r] # "paused"
          /\ \A x \in Runs : x # r =>
               /\ status'[x] = status[x] /\ after'[x] = after[x]
               /\ (x \in stomped' <=> x \in stomped)
    <2>1. CASE CancelReads(q) \/ CancelReadsForWebhook(q) \/ CancelPosts(q) \/ ContinueReads(q)
      BY <2>1 DEF CancelReads, CancelReadsForWebhook, CancelPosts, ContinueReads, row
    <2>5. CASE CancelBreaks(q)
      BY <2>5 DEF CancelBreaks
    <2>2. CASE CancelChild(q)
      <3>1. cancel[q].children \subseteq Runs
        BY <1>0 DEF TypeOK
      <3>2. PICK c \in Runs : Write(c, "canceled", "parent")
        BY <2>2, <3>1 DEF CancelChild
      <3>3. status'[c] = "canceled" /\ after'[c] = after[c] /\ stomped' = stomped
            /\ \A x \in Runs : x # c => status'[x] = status[x] /\ after'[x] = after[x]
        BY <1>0, <2>2, <3>2, WriteCounts DEF CancelChild, Statuses, Writers
      <3> QED
        BY <3>3
    <2>3. CASE CancelSelf(q)
      <3>1. status'[q] = "canceled" /\ after'[q] = after[q] /\ stomped' = stomped
            /\ \A x \in Runs : x # q => status'[x] = status[x] /\ after'[x] = after[x]
        BY <1>0, <2>3, WriteCounts DEF CancelSelf, Statuses, Writers
      <3> QED
        BY <3>1
    <2>4. CASE ContinueWrites(q)
      <3>1. status'[q] = "running" /\ after'[q] = 0
            /\ \A x \in Runs : x # q => status'[x] = status[x] /\ after'[x] = after[x]
        BY <1>0, <2>4, WriteCounts DEF ContinueWrites, Statuses, Writers
      <3>2. stomped' = stomped \cup {x \in {q} : status[x] # "paused"}
        BY <2>4 DEF ContinueWrites
      <3> QED
        BY <3>1, <3>2
    <2> QED
      BY <2>1, <2>2, <2>3, <2>4, <2>5 DEF Clients
  <1>2. Walk(r) /\ OnlyRun(r)
    BY <1>0, <1>1 DEF WInv, OnlyRun
  <1>3. ChildDone(r) => ChildDone(r)'
    BY <1>2, ChildStays DEF OnlyRun
  <1>4. /\ Outer(r)' = Outer(r) /\ InLoop(r)' = InLoop(r) /\ Current(r)' = Current(r)
        /\ Turns(r)' = Turns(r) /\ MustComplete(r)' = MustComplete(r) /\ Few(r)'
    BY <1>0, <1>1, <1>2, SpotStays, FlowStays, TurnsFitWeight DEF Walk
  <1>5. AtWork(r)' /\ Passed(r)'
    BY <1>0, <1>2, <1>3, <1>4 DEF Walk, AtWork, Passed
  <1>6. Earned(r)'
    BY <1>0, <1>1, <1>2, <1>3, <1>4 DEF Walk, Earned, Kept, Bad
  <1>7. pc[r] \in BlockPcs => 0 <= Turns(r) + Begun(r)
    BY <1>2, TurnsFitWeight DEF Walk, Begun
  <1>8. Spent(r)'
    BY <1>0, <1>1, <1>2, <1>4, <1>7 DEF Walk, Spent, Begun
  <1> QED
    BY <1>2, <1>5, <1>6, <1>8, OtherWalks DEF Walk

-----------------------------------------------------------------------------
(* The theorems.                                                           *)

LEMMA InitWInv == Init => WInv
  <1> SUFFICES ASSUME Init, NEW r \in Runs PROVE Walk(r)
    BY DEF WInv
  <1>1. /\ pc[r] \in {"none", "queued"} /\ pre[r] = "none" /\ after[r] = 0
        /\ at[r].block = 1 /\ at[r].value = 0 /\ status[r] \in {"absent", "created"}
    BY DEF Init, Start
  <1>2. IInv
    BY InitIInv
  <1>3. \A i \in MustComplete(r) : ~(i < at[r].block)
    <2> SUFFICES ASSUME NEW i \in MustComplete(r) PROVE ~(i < at[r].block)
      OBVIOUS
    <2>1. i \in Nat /\ i > 0
      BY <1>2, MustCompleteType
    <2> QED
      BY <1>1, <2>1
  <1> QED
    BY <1>1, <1>3 DEF Walk, AtWork, Passed, Earned, Spent, Few, InLoop, BlockPcs

LEMMA StutterWInv == WInv /\ UNCHANGED vars => WInv'
  <1> SUFFICES ASSUME WInv, UNCHANGED vars, NEW r \in Runs PROVE Walk(r)'
    BY DEF WInv
  <1>1. Walk(r) /\ UNCHANGED <<workflow, status, pc, at, pre, returned, stomped, after>>
    BY DEF WInv, vars
  <1>2. /\ Outer(r)' = Outer(r) /\ InLoop(r)' = InLoop(r) /\ Current(r)' = Current(r)
        /\ Turns(r)' = Turns(r) /\ MustComplete(r)' = MustComplete(r) /\ (Few(r) => Few(r)')
    BY <1>1, SpotStays, FlowStays
  <1>3. ChildDone(r)' <=> ChildDone(r)
    BY <1>1 DEF ChildDone
  <1> QED
    BY <1>1, <1>2, <1>3 DEF Walk, AtWork, Passed, Earned, Spent, Begun

(***************************************************************************)
(* In every run of the engine of workflow/service.py a place in the        *)
(* workflow is accounted for: the block it belongs to, the trigger blocks  *)
(* behind it, and the blocks executed since the last cancel.               *)
(***************************************************************************)
THEOREM Progress == Spec => []WInv
  <1>1. IInv /\ WInv /\ [Next]_vars => WInv'
    <2> SUFFICES ASSUME IInv, WInv, [Next]_vars PROVE WInv'
      OBVIOUS
    <2>1. ASSUME NEW r \in Runs, Engine(r) PROVE WInv'
      BY <2>1, PreparesWalk, RefreshWalks, BeginBlockWalks, OutcomesWalk, HumanWalks,
         TriggerWalks, LoopWalks, CollectWalks, BeginFinallyWalks, FinalizeWalks, LeavingWalks
      DEF Engine
    <2>3. ASSUME NEW r \in Runs, Faults(r) PROVE WInv'
      BY <2>3, PreparesWalk, LeavingWalks, BlockBreaksWalks, BlockFailsWalks DEF Faults
    <2>2. ASSUME NEW r \in Runs, Clients(r) PROVE WInv'
      BY <2>2, ClientsWalk
    <2> QED
      BY <2>1, <2>2, <2>3, StutterWInv DEF Next
  <1> QED
    BY <1>1, InitWInv, Invariant, PTL DEF Spec

(***************************************************************************)
(* While the row says canceled the engine executes no more blocks than the *)
(* one it is at stands for: a loop does not look at the row, but the       *)
(* sequence does before its next block, and the finally block is skipped.  *)
(***************************************************************************)
THEOREM CancelStopsSoonAlways == Spec => []CancelStopsSoon
  <1>1. IInv /\ WInv => CancelStopsSoon
    BY TurnsFitWeight DEF WInv, Walk, Few, CancelStopsSoon
  <1> QED
    BY <1>1, Invariant, Progress, PTL

(***************************************************************************)
(* A run is completed only after the run that one of its blocks had to     *)
(* trigger: the engine leaves that block for the next one only when the    *)
(* other engine has returned completed.                                    *)
(***************************************************************************)
THEOREM ChildCompletedFirstAlways == Spec => []ChildCompletedFirst
  <1>1. WInv => ChildCompletedFirst
    BY DEF WInv, Walk, Earned, ChildDone, ChildCompletedFirst
  <1> QED
    BY <1>1, Progress, PTL

=============================================================================
