-------------------------- MODULE ApprovalGateProofs --------------------------
(***************************************************************************)
(* The approval gate is correct for any users, contexts, requests and any  *)
(* number of mishaps.                                                      *)
(*                                                                         *)
(* The inductive invariant follows a decision along its way: an approver's *)
(* entry, the call that has yet to publish it, the subscription, the       *)
(* local variable of the waiter, the row. Each copy equals the entry as    *)
(* long as the entry exists, and the entry was made by somebody allowed.   *)
(* A crash deletes the entry, but with it every copy that could still be   *)
(* acted on.                                                               *)
(***************************************************************************)
EXTENDS ApprovalGate, TLAPS

EntryByAuthority ==
  \A r \in Requests : Settled(entry[r]) => Allowed(entry[r].by, r)

CallsCarryEntry ==
  \A c \in calls : entry[c.req] = [status |-> c.status, by |-> c.by]

ChannelCarriesEntry ==
  \A r \in Requests : \A i \in 1..Len(chan[r]) : chan[r][i] = entry[r]

\* Only a wait that is over can outlive the entry it was settled by.
DecisionFromEntry ==
  \A r \in Requests : Settled(dec[r]) =>
    /\ Allowed(dec[r].by, r)
    /\ pc[r] # "idle"
    /\ \/ entry[r] = dec[r]
       \/ entry[r] = NoEntry /\ pc[r] \in Ended

RowFollowsWait ==
  \A r \in Requests :
    /\ pc[r] = "idle" => row[r] = NoRow
    /\ pc[r] \in Waiting => row[r] = Pending
    /\ pc[r] = "returned" => row[r] = dec[r]
    /\ pc[r] \in {"failed", "killed"} => row[r] = Pending

IInv ==
  /\ TypeOK
  /\ EntryByAuthority
  /\ CallsCarryEntry
  /\ ChannelCarriesEntry
  /\ DecisionFromEntry
  /\ RowFollowsWait

-----------------------------------------------------------------------------
\* Every variable stays in its type.
THEOREM TypeCorrect == Spec => []TypeOK
<1>1. Init => TypeOK
  BY GateAssumption
     DEF Init, TypeOK, Outcomes, NoDecision, NoRow, NoEntry, Pending, Decisions
<1>2. TypeOK /\ [Next]_vars => TypeOK'
  <2> SUFFICES ASSUME TypeOK, [Next]_vars PROVE TypeOK'
    OBVIOUS
  <2> USE DEF TypeOK, Waiting, Ended, Goto, task, db
  <2>1. ASSUME NEW r \in Requests, Create(r) PROVE TypeOK'
    BY <2>1 DEF Create, Pending
  <2>2. ASSUME NEW r \in Requests, WaitStep(r) PROVE TypeOK'
    <3>1. CASE Subscribe(r) BY <3>1 DEF Subscribe
    <3>2. CASE CheckDeadline(r) BY <3>2 DEF CheckDeadline
    <3>3. CASE Receive(r)
      <4>1. Head(chan[r]) \in Decisions /\ Tail(chan[r]) \in Seq(Decisions)
        BY <3>3 DEF Receive
      <4>2. QED BY <3>3, <4>1 DEF Receive, Outcomes
    <3>4. CASE ReadNothing(r) BY <3>4 DEF ReadNothing
    <3>5. CASE Unsubscribe(r) BY <3>5 DEF Unsubscribe
    <3>6. CASE CommitOutcome(r) BY <3>6 DEF CommitOutcome
    <3>7. QED BY <2>2, <3>1, <3>2, <3>3, <3>4, <3>5, <3>6 DEF WaitStep
  <2>3. ASSUME NEW r \in Requests, Expire(r) PROVE TypeOK'
    BY <2>3 DEF Expire
  <2>4. ASSUME NEW r \in Requests, AwaitRaises(r) PROVE TypeOK'
    BY <2>4, GateAssumption DEF AwaitRaises
  <2>5. ASSUME NEW r \in Requests, Mirror(r) PROVE TypeOK'
    BY <2>5 DEF Mirror, Pending
  <2>6. ASSUME NEW r \in Requests, NEW u \in Users, Settle(u, r) PROVE TypeOK'
    <3>1. PICK status \in Verdicts : Decide(u, r, status)
      BY <2>6 DEF Settle
    <3>2. /\ [status |-> status, by |-> u] \in Decisions
          /\ [req |-> r, status |-> status, by |-> u]
               \in [req : Requests, status : Verdicts, by : Users]
      BY DEF Decisions
    <3>3. QED BY <3>1, <3>2 DEF Decide
  <2>7. ASSUME NEW c \in calls, Publish(c) PROVE TypeOK'
    <3>1. [status |-> c.status, by |-> c.by] \in Decisions /\ c.req \in Requests
      BY DEF Decisions
    <3>2. Append(chan[c.req], [status |-> c.status, by |-> c.by]) \in Seq(Decisions)
      BY <3>1
    <3>3. QED BY <2>7, <3>1, <3>2 DEF Publish
  <2>8. ASSUME NEW c \in calls, PublishRaises(c) PROVE TypeOK'
    BY <2>8, GateAssumption DEF PublishRaises
  <2>9. CASE Crash
    BY <2>9, GateAssumption DEF Crash
  <2>10. CASE UNCHANGED vars
    BY <2>10 DEF vars
  <2>11. QED
    BY <2>1, <2>2, <2>3, <2>4, <2>5, <2>6, <2>7, <2>8, <2>9, <2>10
       DEF Next, TaskStep
<1>3. QED BY <1>1, <1>2, PTL DEF Spec

-----------------------------------------------------------------------------
\* What the constant records are not: their statuses tell them apart.
LEMMA Statuses ==
  /\ ~Settled(NoRow) /\ ~Settled(Pending) /\ ~Settled(NoDecision)
  /\ NoRow # Pending /\ NoDecision # NoRow /\ NoDecision # Pending
  /\ NoEntry = NoRow
BY DEF Settled, Verdicts, NoRow, Pending, NoDecision, NoEntry

LEMMA InitIInv == Init => IInv
<1> SUFFICES ASSUME Init PROVE IInv
  OBVIOUS
<1>1. TypeOK
  BY GateAssumption
     DEF Init, TypeOK, Outcomes, NoDecision, NoRow, NoEntry, Pending, Decisions
<1>2. QED
  BY <1>1, Statuses
     DEF Init, IInv, EntryByAuthority, CallsCarryEntry, ChannelCarriesEntry,
         DecisionFromEntry, RowFollowsWait, Waiting

\* A step of the waiting coroutine moves copies of the entry, never makes one.
LEMMA WaitStepIInv ==
  ASSUME IInv, TypeOK', NEW r \in Requests, TaskStep(r)
  PROVE  IInv'
<1> USE DEF IInv, Goto, task, db, Allowed
<1>1. CASE Create(r)
  BY <1>1, Statuses
     DEF Create, TypeOK, EntryByAuthority, CallsCarryEntry, ChannelCarriesEntry,
         DecisionFromEntry, RowFollowsWait, Waiting, Ended
<1>2. CASE Subscribe(r)
  BY <1>2
     DEF Subscribe, TypeOK, EntryByAuthority, CallsCarryEntry,
         ChannelCarriesEntry, DecisionFromEntry, RowFollowsWait, Waiting, Ended
<1>3. CASE CheckDeadline(r)
  BY <1>3
     DEF CheckDeadline, TypeOK, EntryByAuthority, CallsCarryEntry,
         ChannelCarriesEntry, DecisionFromEntry, RowFollowsWait, Waiting, Ended
<1>4. CASE Receive(r)
  <2>1. Head(chan[r]) = entry[r] /\ Head(chan[r]) \in Decisions
    BY <1>4 DEF Receive, TypeOK, ChannelCarriesEntry
  <2>2. dec'[r] = entry[r] /\ Allowed(entry[r].by, r)
    BY <1>4, <2>1 DEF Receive, TypeOK, EntryByAuthority, Decisions, Settled
  <2>3. ChannelCarriesEntry'
    <3>1. ASSUME NEW q \in Requests, NEW i \in 1..Len(chan'[q])
          PROVE  chan'[q][i] = entry[q]
      <4>1. CASE q = r
        <5>1. chan'[r] = Tail(chan[r]) /\ chan[r] \in Seq(Decisions)
          BY <1>4 DEF Receive, TypeOK
        <5>2. i + 1 \in 1..Len(chan[r]) /\ chan'[r][i] = chan[r][i + 1]
          <6>1. chan[r] # <<>>
            BY <1>4 DEF Receive
          <6>2. Len(Tail(chan[r])) = Len(chan[r]) - 1
            BY <5>1, <6>1
          <6>3. i \in 1..Len(Tail(chan[r]))
            BY <5>1, <4>1
          <6>4. QED BY <5>1, <4>1, <6>1, <6>2, <6>3
        <5>3. QED BY <5>2, <4>1 DEF ChannelCarriesEntry
      <4>2. CASE q # r
        BY <4>2, <1>4 DEF Receive, TypeOK, ChannelCarriesEntry
      <4>3. QED BY <4>1, <4>2
    <3>2. QED BY <3>1, <1>4 DEF ChannelCarriesEntry, Receive
  <2>4. QED
    BY <1>4, <2>2, <2>3
       DEF Receive, TypeOK, EntryByAuthority, CallsCarryEntry,
           DecisionFromEntry, RowFollowsWait, Waiting, Ended
<1>5. CASE ReadNothing(r)
  BY <1>5
     DEF ReadNothing, TypeOK, EntryByAuthority, CallsCarryEntry,
         ChannelCarriesEntry, DecisionFromEntry, RowFollowsWait, Waiting, Ended
<1>6. CASE Unsubscribe(r)
  BY <1>6
     DEF Unsubscribe, TypeOK, EntryByAuthority, CallsCarryEntry,
         ChannelCarriesEntry, DecisionFromEntry, RowFollowsWait, Waiting, Ended
<1>7. CASE CommitOutcome(r)
  BY <1>7
     DEF CommitOutcome, TypeOK, EntryByAuthority, CallsCarryEntry,
         ChannelCarriesEntry, DecisionFromEntry, RowFollowsWait, Waiting, Ended
<1>8. CASE Expire(r)
  BY <1>8
     DEF Expire, TypeOK, EntryByAuthority, CallsCarryEntry,
         ChannelCarriesEntry, DecisionFromEntry, RowFollowsWait, Waiting, Ended
<1>9. CASE AwaitRaises(r)
  BY <1>9
     DEF AwaitRaises, TypeOK, EntryByAuthority, CallsCarryEntry,
         ChannelCarriesEntry, DecisionFromEntry, RowFollowsWait, Waiting, Ended
<1>10. QED
  BY <1>1, <1>2, <1>3, <1>4, <1>5, <1>6, <1>7, <1>8, <1>9 DEF TaskStep, WaitStep

\* A call or a message in flight means that the entry is settled.
LEMMA CallsAreSettled ==
  ASSUME IInv PROVE \A c \in calls : Settled(entry[c.req])
<1>1. ASSUME NEW c \in calls PROVE Settled(entry[c.req])
  <2>1. entry[c.req] = [status |-> c.status, by |-> c.by] /\ c.status \in Verdicts
    BY DEF IInv, TypeOK, CallsCarryEntry
  <2>2. entry[c.req].status = c.status
    BY <2>1
  <2>3. QED BY <2>1, <2>2 DEF Settled
<1>2. QED BY <1>1

LEMMA MessagesAreSettled ==
  ASSUME IInv, NEW r \in Requests, chan[r] # <<>> PROVE Settled(entry[r])
<1>1. chan[r] \in Seq(Decisions)
  BY DEF IInv, TypeOK
<1>2. 1 \in 1..Len(chan[r]) /\ chan[r][1] \in Decisions
  BY <1>1
<1>3. entry[r] \in Decisions
  BY <1>2 DEF IInv, ChannelCarriesEntry
<1>4. QED BY <1>3 DEF Decisions, Settled

LEMMA DecisionsAreSettled ==
  ASSUME IInv, NEW r \in Requests, Settled(dec[r]), pc[r] \in Waiting
  PROVE  Settled(entry[r])
<1>1. entry[r] = dec[r]
  BY DEF IInv, DecisionFromEntry, Waiting, Ended
<1>2. QED BY <1>1

\* A request enters the store once, and is settled there once, by authority.
LEMMA StoreStepIInv ==
  ASSUME IInv, TypeOK', NEW r \in Requests,
         Mirror(r) \/ \E u \in Users : Settle(u, r)
  PROVE  IInv'
<1> USE DEF IInv, task, db, Allowed
<1>1. CASE Mirror(r)
  <2>1. /\ entry[r] = NoEntry /\ pc[r] \in Waiting
        /\ entry' = [entry EXCEPT ![r] = Pending]
        /\ UNCHANGED <<pc, expired, dec, chan, asked, row, calls>>
    BY <1>1 DEF Mirror
  <2>2. EntryByAuthority'
    BY <2>1, Statuses DEF EntryByAuthority, TypeOK
  <2>3. \A c \in calls : c.req # r
    BY <2>1, CallsAreSettled, Statuses
  <2>4. CallsCarryEntry'
    BY <2>1, <2>3 DEF CallsCarryEntry, TypeOK
  <2>5. chan[r] = <<>>
    BY <2>1, MessagesAreSettled, Statuses
  <2>6. ChannelCarriesEntry'
    BY <2>1, <2>5 DEF ChannelCarriesEntry, TypeOK
  <2>7. ~Settled(dec[r])
    BY <2>1, DecisionsAreSettled, Statuses
  <2>8. DecisionFromEntry'
    BY <2>1, <2>7 DEF DecisionFromEntry, TypeOK, Settled
  <2>9. RowFollowsWait'
    BY <2>1 DEF RowFollowsWait
  <2>10. QED BY <2>2, <2>4, <2>6, <2>8, <2>9
<1>2. CASE \E u \in Users : Settle(u, r)
  <2>1. PICK u \in Users, status \in Verdicts : Decide(u, r, status)
    BY <1>2 DEF Settle
  <2>2. /\ MayDecide(u, r) /\ entry[r] = Pending
        /\ entry' = [entry EXCEPT ![r] = [status |-> status, by |-> u]]
        /\ calls' \subseteq calls \cup {[req |-> r, status |-> status, by |-> u]}
        /\ UNCHANGED <<pc, expired, dec, chan, asked, row>>
    BY <2>1 DEF Decide, MayDecide
  <2>3. EntryByAuthority'
    BY <2>2 DEF EntryByAuthority, MayDecide, TypeOK
  \* No copy of a verdict of r exists yet: it would equal the pending entry.
  <2>4. \A c \in calls : c.req # r
    BY <2>2, CallsAreSettled, Statuses
  <2>5. CallsCarryEntry'
    <3>1. ASSUME NEW c \in calls'
          PROVE  entry'[c.req] = [status |-> c.status, by |-> c.by]
      <4>1. CASE c \in calls
        <5>1. entry[c.req] = [status |-> c.status, by |-> c.by] /\ c.req # r
          BY <4>1, <2>4 DEF CallsCarryEntry
        <5>2. entry'[c.req] = entry[c.req]
          BY <5>1, <4>1, <2>2 DEF TypeOK
        <5>3. QED BY <5>1, <5>2
      <4>2. CASE c = [req |-> r, status |-> status, by |-> u]
        <5>1. c.req = r /\ c.status = status /\ c.by = u
          BY <4>2
        <5>2. entry'[r] = [status |-> status, by |-> u]
          BY <2>2 DEF TypeOK
        <5>3. QED BY <5>1, <5>2
      <4>3. QED BY <4>1, <4>2, <2>2
    <3>2. QED BY <3>1 DEF CallsCarryEntry
  <2>6. chan[r] = <<>>
    BY <2>2, MessagesAreSettled, Statuses
  <2>7. ChannelCarriesEntry'
    BY <2>2, <2>6 DEF ChannelCarriesEntry, TypeOK
  <2>8. ~Settled(dec[r])
    <3>1. ASSUME Settled(dec[r]) PROVE FALSE
      <4>1. entry[r] = dec[r] \/ entry[r] = NoEntry
        BY <3>1 DEF DecisionFromEntry
      <4>2. Pending # NoEntry /\ ~Settled(Pending)
        BY Statuses
      <4>3. QED BY <2>2, <3>1, <4>1, <4>2
    <3>2. QED BY <3>1
  <2>9. DecisionFromEntry'
    BY <2>2, <2>8 DEF DecisionFromEntry, TypeOK, Settled
  <2>10. RowFollowsWait'
    BY <2>2 DEF RowFollowsWait, TypeOK
  <2>11. QED BY <2>3, <2>5, <2>7, <2>9, <2>10
<1>3. QED BY <1>1, <1>2

\* Publishing hands on the copy the call carries, or loses it.
LEMMA PublishStepIInv ==
  ASSUME IInv, TypeOK', NEW c \in calls, Publish(c) \/ PublishRaises(c)
  PROVE  IInv'
<1> USE DEF IInv, task, db, Allowed
<1>1. CASE Publish(c)
  <2> DEFINE m == [status |-> c.status, by |-> c.by]
  <2>1. entry[c.req] = m /\ c.req \in Requests /\ m \in Decisions
    BY DEF CallsCarryEntry, TypeOK, Decisions
  <2>2. ChannelCarriesEntry'
    <3>1. ASSUME NEW q \in Requests, NEW i \in 1..Len(chan'[q])
          PROVE  chan'[q][i] = entry[q]
      <4>1. CASE q = c.req /\ pc[q] \in Subscribed
        <5>1. chan'[q] = Append(chan[q], m) /\ chan[q] \in Seq(Decisions)
          BY <4>1, <1>1, <2>1 DEF Publish, TypeOK
        <5>2. CASE i = Len(chan[q]) + 1
          BY <5>1, <5>2, <2>1, <4>1
        <5>3. CASE i # Len(chan[q]) + 1
          <6>1. Len(Append(chan[q], m)) = Len(chan[q]) + 1
            BY <5>1, <2>1
          <6>2. i \in 1..Len(chan[q])
            BY <5>1, <5>3, <6>1
          <6>3. chan'[q][i] = chan[q][i]
            BY <5>1, <6>2, <2>1
          <6>4. QED BY <6>2, <6>3 DEF ChannelCarriesEntry
        <5>4. QED BY <5>2, <5>3
      <4>2. CASE ~(q = c.req /\ pc[q] \in Subscribed)
        <5>1. chan'[q] = chan[q]
          BY <4>2, <1>1, <2>1 DEF Publish, TypeOK
        <5>2. QED BY <5>1 DEF ChannelCarriesEntry
      <4>3. QED BY <4>1, <4>2
    <3>2. entry' = entry
      BY <1>1 DEF Publish
    <3>3. QED BY <3>1, <3>2 DEF ChannelCarriesEntry
  <2>3. QED
    BY <1>1, <2>2
       DEF Publish, EntryByAuthority, CallsCarryEntry, DecisionFromEntry,
           RowFollowsWait, Waiting, Ended
<1>2. CASE PublishRaises(c)
  BY <1>2
     DEF PublishRaises, EntryByAuthority, CallsCarryEntry, ChannelCarriesEntry,
         DecisionFromEntry, RowFollowsWait, Waiting, Ended
<1>3. QED BY <1>1, <1>2

\* A crash deletes the entry together with everything still on its way.
LEMMA CrashIInv ==
  ASSUME IInv, TypeOK', Crash
  PROVE  IInv'
<1> USE DEF IInv, db, Allowed
<1>1. EntryByAuthority' /\ CallsCarryEntry' /\ ChannelCarriesEntry'
  BY Statuses DEF Crash, EntryByAuthority, CallsCarryEntry, ChannelCarriesEntry
<1>2. DecisionFromEntry'
  BY Statuses DEF Crash, DecisionFromEntry, TypeOK, Waiting, Ended, Settled,
                  NoDecision, Verdicts
<1>3. RowFollowsWait'
  BY DEF Crash, RowFollowsWait, TypeOK, Waiting, Ended
<1>4. QED BY <1>1, <1>2, <1>3

-----------------------------------------------------------------------------
THEOREM Inductive == Spec => []IInv
<1>1. Init => IInv
  BY InitIInv
<1>2. IInv /\ TypeOK' /\ [Next]_vars => IInv'
  <2> SUFFICES ASSUME IInv, TypeOK', [Next]_vars PROVE IInv'
    OBVIOUS
  <2>1. CASE \E r \in Requests : TaskStep(r)
    BY <2>1, WaitStepIInv
  <2>2. CASE \E r \in Requests : Mirror(r)
    BY <2>2, StoreStepIInv
  <2>3. CASE \E r \in Requests : \E u \in Users : Settle(u, r)
    BY <2>3, StoreStepIInv
  <2>4. CASE \E c \in calls : Publish(c) \/ PublishRaises(c)
    BY <2>4, PublishStepIInv
  <2>5. CASE Crash
    BY <2>5, CrashIInv
  <2>6. CASE UNCHANGED vars
    BY <2>6 DEF vars, IInv, EntryByAuthority, CallsCarryEntry,
                ChannelCarriesEntry, DecisionFromEntry, RowFollowsWait, Allowed
  <2>7. QED BY <2>1, <2>2, <2>3, <2>4, <2>5, <2>6 DEF Next
<1>3. QED BY <1>1, <1>2, TypeCorrect, PTL DEF Spec

(***************************************************************************)
(* The table and the store never hold opposite verdicts about a request.   *)
(* The row equals the local decision, and that equals the entry while the  *)
(* entry exists.                                                           *)
(***************************************************************************)
THEOREM VerdictsAgree == Spec => []NoSplitVerdict
<1>1. IInv => NoSplitVerdict
  <2> SUFFICES ASSUME IInv, NEW r \in Requests, Settled(row[r]), Settled(entry[r])
               PROVE  row[r] = entry[r]
    BY DEF NoSplitVerdict
  <2>1. pc[r] = "returned" /\ row[r] = dec[r]
    BY Statuses DEF IInv, RowFollowsWait, TypeOK, Waiting, Ended
  <2>2. entry[r] = dec[r] \/ entry[r] = NoEntry
    BY <2>1 DEF IInv, DecisionFromEntry
  <2>3. QED BY <2>1, <2>2, Statuses
<1>2. QED BY <1>1, Inductive, PTL

(***************************************************************************)
(* A task goes ahead only on the word of somebody allowed to give it.      *)
(***************************************************************************)
THEOREM AuthorityHolds == Spec => []ApprovedByAuthority
<1>1. IInv => ApprovedByAuthority
  BY DEF IInv, DecisionFromEntry, ApprovedByAuthority
<1>2. QED BY <1>1, Inductive, PTL

(***************************************************************************)
(* A request is settled once, in the table and in the store.               *)
(***************************************************************************)
THEOREM VerdictIsFinal == Spec => SettledOnce
<1> DEFINE Once ==
      \A r \in Requests :
        /\ row[r] \notin {NoRow, Pending} => row'[r] = row[r]
        /\ Settled(entry[r]) => entry'[r] = entry[r] \/ crashes' # crashes
<1>1. IInv /\ [Next]_vars => [Once]_vars
  <2> SUFFICES ASSUME IInv, Next, NEW q \in Requests
               PROVE  /\ row[q] \notin {NoRow, Pending} => row'[q] = row[q]
                      /\ \/ Settled(entry[q]) => entry'[q] = entry[q]
                         \/ crashes' # crashes
    OBVIOUS
  <2> USE DEF task, db
  <2>1. ASSUME NEW r \in Requests, TaskStep(r)
        PROVE  /\ row[q] \notin {NoRow, Pending} => row'[q] = row[q]
               /\ entry' = entry
    <3>1. CASE Create(r)
      BY <3>1 DEF Create, IInv, TypeOK, RowFollowsWait
    <3>2. CASE CommitOutcome(r)
      BY <3>2 DEF CommitOutcome, IInv, TypeOK, RowFollowsWait, Waiting
    <3>3. CASE UNCHANGED <<row, entry>>
      BY <3>3
    <3>4. QED
      BY <2>1, <3>1, <3>2, <3>3
         DEF TaskStep, WaitStep, Subscribe, CheckDeadline, Receive, ReadNothing,
             Unsubscribe, Expire, AwaitRaises
  <2>2. ASSUME NEW r \in Requests, Mirror(r) \/ \E u \in Users : Settle(u, r)
        PROVE  /\ row' = row
               /\ Settled(entry[q]) => entry'[q] = entry[q]
    <3>1. ~Settled(entry[r])
      BY <2>2, Statuses DEF Mirror, Settle, Decide, MayDecide
    <3>2. CASE q = r
      BY <3>1, <3>2, <2>2 DEF Mirror, Settle, Decide
    <3>3. CASE q # r
      BY <3>3, <2>2 DEF Mirror, Settle, Decide, IInv, TypeOK
    <3>4. QED BY <3>2, <3>3
  <2>3. ASSUME NEW c \in calls, Publish(c) \/ PublishRaises(c)
        PROVE  UNCHANGED <<row, entry>>
    BY <2>3 DEF Publish, PublishRaises
  <2>4. CASE Crash
    BY <2>4 DEF Crash, IInv, TypeOK
  <2>5. QED BY <2>1, <2>2, <2>3, <2>4 DEF Next
<1>2. QED BY <1>1, Inductive, PTL DEF Spec, SettledOnce

(***************************************************************************)
(* The handlers' two checks admit exactly people the promise entitles.     *)
(***************************************************************************)
LEMMA AllowedIsEntitled ==
  ASSUME NEW u \in Users, NEW r \in Requests, asked[r] \in Asks, Allowed(u, r)
  PROVE  Promise!Entitled(u, asked[r])
BY RbacAssumption
   DEF Allowed, Promise!Entitled, IsAnyApprover, UserCanApprove, IsOrgAdmin,
       HoldsAny, GetRoleInDepartment, ApproverDepartment, Asks, UserContext

(***************************************************************************)
(* The gate implements ApprovalPromise, with the row as the verdict: only  *)
(* creation and the final commit change it.                                *)
(***************************************************************************)
THEOREM GateKeepsPromise == Spec => PromiseKept
<1>1. Init => Promise!Init
  <2> SUFFICES ASSUME Init PROVE Promise!Init
    OBVIOUS
  <2>1. \A ask \in Asks : ask \in Promise!Asks /\ ask.level \in {"high", "critical"}
    <3> SUFFICES ASSUME NEW ask \in Asks
                 PROVE  ask \in Promise!Asks /\ ask.level \in {"high", "critical"}
      OBVIOUS
    <3>1. /\ ask \in [org : Orgs, dept : Depts, level : RiskLevels, requester : Users]
          /\ RequiresApproval(ask.level)
      BY DEF Asks
    <3>2. ask.level \in {"high", "critical"}
      BY <3>1 DEF RequiresApproval, RiskLevels
    <3>3. QED BY <3>1, <3>2 DEF Promise!Asks, Promise!RiskLevels, RiskLevels
  <2>2. asked \in [Requests -> {ask \in Promise!Asks : ask.level \in {"high", "critical"}}]
    BY <2>1 DEF Init
  <2>3. QED BY <2>2 DEF Init, Promise!Init, Promise!Unopened, NoRow
<1>2. IInv /\ [Next]_vars => [Promise!Next]_<<row, asked>>
  <2> SUFFICES ASSUME IInv, Next PROVE Promise!Next \/ UNCHANGED <<row, asked>>
    BY DEF vars
  <2> USE DEF task, db
  <2>1. ASSUME NEW r \in Requests, Create(r) PROVE Promise!Open(r)
    BY <2>1 DEF Create, Promise!Open, Promise!Unopened, Promise!Undecided,
                IInv, RowFollowsWait, NoRow, Pending
  <2>2. ASSUME NEW r \in Requests, CommitOutcome(r)
        PROVE  Promise!Lapse(r) \/ \E u \in Users : Promise!Settle(r, u)
    <3>1. row[r] = Promise!Undecided /\ row' = [row EXCEPT ![r] = dec[r]]
          /\ UNCHANGED asked
      BY <2>2 DEF CommitOutcome, IInv, RowFollowsWait, Waiting, Pending,
                  Promise!Undecided
    <3>2. CASE dec[r] = NoDecision
      BY <3>1, <3>2 DEF Promise!Lapse, Promise!TimedOut, NoDecision
    <3>3. CASE dec[r] \in Decisions
      <4>1. /\ dec[r].by \in Users /\ dec[r].status \in {"approved", "rejected"}
            /\ dec[r] = [status |-> dec[r].status, by |-> dec[r].by]
        BY <3>3 DEF Decisions, Verdicts
      <4>2. Promise!Entitled(dec[r].by, asked[r])
        BY <4>1, AllowedIsEntitled DEF IInv, TypeOK, DecisionFromEntry, Settled,
                                       Verdicts
      <4>3. Promise!Settle(r, dec[r].by)
        BY <3>1, <4>1, <4>2 DEF Promise!Settle
      <4>4. QED BY <4>1, <4>3
    <3>4. QED BY <3>2, <3>3 DEF IInv, TypeOK, Outcomes
  <2>3. ASSUME NEW r \in Requests, TaskStep(r), ~Create(r), ~CommitOutcome(r)
        PROVE  UNCHANGED <<row, asked>>
    BY <2>3 DEF TaskStep, WaitStep, Subscribe, CheckDeadline, Receive,
                ReadNothing, Unsubscribe, Expire, AwaitRaises
  <2>4. ASSUME NEW r \in Requests, Mirror(r) \/ \E u \in Users : Settle(u, r)
        PROVE  UNCHANGED <<row, asked>>
    BY <2>4 DEF Mirror, Settle, Decide
  <2>5. ASSUME NEW c \in calls, Publish(c) \/ PublishRaises(c)
        PROVE  UNCHANGED <<row, asked>>
    BY <2>5 DEF Publish, PublishRaises
  <2>6. CASE Crash
    BY <2>6 DEF Crash
  <2>7. QED BY <2>1, <2>2, <2>3, <2>4, <2>5, <2>6 DEF Next, Promise!Next
<1>3. QED BY <1>1, <1>2, Inductive, PTL DEF Spec, PromiseKept, Promise!Spec

-----------------------------------------------------------------------------
(***************************************************************************)
(* A verdict is in one place at a time: a call, then a message, then the   *)
(* local variable. The subscription is given up for a verdict or because   *)
(* of the deadline, and a message is held by a subscriber only.            *)
(***************************************************************************)
OneCall == \A c, d \in calls : c.req = d.req => c = d

CallComesFirst == \A c \in calls : chan[c.req] = <<>> /\ ~Settled(dec[c.req])

MessageIsNews ==
  \A r \in Requests : chan[r] # <<>> =>
    Tail(chan[r]) = <<>> /\ pc[r] \in Subscribed /\ ~Settled(dec[r])

LeavesForAReason ==
  \A r \in Requests : pc[r] \in {"leaving", "deciding"} => expired[r] \/ Settled(dec[r])

OnePlace == OneCall /\ CallComesFirst /\ MessageIsNews /\ LeavesForAReason

LEMMA WaitStepOnePlace ==
  ASSUME IInv, OnePlace, NEW r \in Requests, TaskStep(r)
  PROVE  OnePlace'
<1> USE DEF IInv, Goto, task, db, OnePlace, OneCall, CallComesFirst, MessageIsNews, LeavesForAReason
<1>1. CASE Create(r)
  BY <1>1 DEF Create, TypeOK, Subscribed
<1>2. CASE Subscribe(r)
  BY <1>2 DEF Subscribe, TypeOK, Subscribed
<1>3. CASE CheckDeadline(r)
  BY <1>3 DEF CheckDeadline, TypeOK, Subscribed
<1>4. CASE Receive(r)
  <2>1. chan[r] # <<>> /\ chan[r] \in Seq(Decisions) /\ Tail(chan[r]) = <<>>
    BY <1>4 DEF Receive, TypeOK
  <2>2. Settled(Head(chan[r]))
    <3>1. Head(chan[r]) \in Decisions
      BY <2>1
    <3>2. QED BY <3>1 DEF Settled, Decisions
  <2>3. /\ chan'[r] = <<>> /\ Settled(dec[r])' /\ pc'[r] = "leaving"
        /\ \A q \in Requests : q # r =>
             chan'[q] = chan[q] /\ dec'[q] = dec[q] /\ pc'[q] = pc[q]
        /\ UNCHANGED <<calls, expired>>
    BY <1>4, <2>1, <2>2 DEF Receive, TypeOK, Settled
  <2>4. \A c \in calls : c.req # r
    BY <2>1
  <2>5. OneCall' /\ LeavesForAReason'
    BY <2>3 DEF Settled
  <2>6. CallComesFirst'
    BY <2>3, <2>4 DEF TypeOK, Settled
  <2>7. MessageIsNews'
    BY <2>3 DEF Settled
  <2>8. QED BY <2>5, <2>6, <2>7
<1>5. CASE ReadNothing(r)
  BY <1>5 DEF ReadNothing, TypeOK, Subscribed
<1>6. CASE Unsubscribe(r)
  <2>1. /\ pc[r] = "leaving" /\ chan'[r] = <<>> /\ pc'[r] = "deciding"
        /\ \A q \in Requests : q # r => chan'[q] = chan[q] /\ pc'[q] = pc[q]
        /\ UNCHANGED <<calls, expired, dec>>
    BY <1>6 DEF Unsubscribe, TypeOK
  <2>2. CallComesFirst'
    BY <2>1 DEF TypeOK, Settled
  <2>3. QED BY <2>1, <2>2 DEF Settled
<1>7. CASE CommitOutcome(r)
  BY <1>7 DEF CommitOutcome, TypeOK, Subscribed
<1>8. CASE Expire(r)
  BY <1>8 DEF Expire, TypeOK, Subscribed
<1>9. CASE AwaitRaises(r)
  BY <1>9 DEF AwaitRaises, TypeOK, Subscribed
<1>10. QED
  BY <1>1, <1>2, <1>3, <1>4, <1>5, <1>6, <1>7, <1>8, <1>9 DEF TaskStep, WaitStep

\* The decision that settles a request is the first and the last of its calls.
LEMMA StoreStepOnePlace ==
  ASSUME IInv, OnePlace, NEW r \in Requests, Mirror(r) \/ \E u \in Users : Settle(u, r)
  PROVE  OnePlace'
<1> USE DEF task, db, OnePlace, OneCall, CallComesFirst, MessageIsNews, LeavesForAReason
<1>1. CASE Mirror(r)
  BY <1>1 DEF Mirror, Settled
<1>2. CASE \E u \in Users : Settle(u, r)
  <2>1. PICK u \in Users, status \in Verdicts : Decide(u, r, status)
    BY <1>2 DEF Settle
  <2> DEFINE new == [req |-> r, status |-> status, by |-> u]
  <2>2. /\ entry[r] = Pending /\ calls' \subseteq calls \cup {new} /\ new.req = r
        /\ UNCHANGED <<pc, expired, dec, chan>>
    BY <2>1 DEF Decide, MayDecide
  <2> HIDE DEF new
  <2>3. \A c \in calls : c.req # r
    BY <2>2, CallsAreSettled, Statuses
  <2>4. chan[r] = <<>>
    BY <2>2, MessagesAreSettled, Statuses
  <2>5. ~Settled(dec[r])
    <3>1. ASSUME Settled(dec[r]) PROVE FALSE
      <4>1. entry[r] = dec[r] \/ entry[r] = NoEntry
        BY <3>1 DEF IInv, DecisionFromEntry
      <4>2. QED BY <2>2, <3>1, <4>1, Statuses
    <3>2. QED BY <3>1
  <2>6. OneCall'
    BY <2>2, <2>3
  <2>7. CallComesFirst'
    BY <2>2, <2>4, <2>5 DEF Settled
  <2>8. MessageIsNews' /\ LeavesForAReason'
    BY <2>2 DEF Settled
  <2>9. QED BY <2>6, <2>7, <2>8
<1>3. QED BY <1>1, <1>2

\* Publishing turns the one call into the one message.
LEMMA PublishStepOnePlace ==
  ASSUME IInv, OnePlace, NEW c \in calls, Publish(c) \/ PublishRaises(c)
  PROVE  OnePlace'
<1> USE DEF task, db, OnePlace, OneCall, CallComesFirst, MessageIsNews, LeavesForAReason
<1>1. /\ calls' = calls \ {c} /\ UNCHANGED <<pc, expired, dec>>
      /\ \A d \in calls' : d.req # c.req
  BY DEF Publish, PublishRaises
<1>2. c.req \in Requests /\ chan[c.req] = <<>> /\ ~Settled(dec[c.req])
  BY DEF IInv, TypeOK
<1>3. \A q \in Requests : q # c.req => chan'[q] = chan[q]
  BY <1>2 DEF Publish, PublishRaises, IInv, TypeOK
<1>4. chan'[c.req] # <<>> => Tail(chan'[c.req]) = <<>> /\ pc[c.req] \in Subscribed
  <2> DEFINE m == [status |-> c.status, by |-> c.by]
  <2>1. CASE Publish(c) /\ pc[c.req] \in Subscribed
    <3>1. chan'[c.req] = Append(<<>>, m)
      BY <1>2, <2>1 DEF Publish, IInv, TypeOK
    <3>2. Tail(Append(<<>>, m)) = <<>>
      OBVIOUS
    <3>3. QED BY <2>1, <3>1, <3>2
  <2>2. CASE ~(Publish(c) /\ pc[c.req] \in Subscribed)
    BY <1>2, <2>2 DEF Publish, PublishRaises
  <2>3. QED BY <2>1, <2>2
<1>5. OneCall' /\ LeavesForAReason'
  BY <1>1 DEF Settled
<1>6. CallComesFirst'
  BY <1>1, <1>3 DEF Settled, IInv, TypeOK
<1>7. MessageIsNews'
  BY <1>1, <1>2, <1>3, <1>4 DEF Settled
<1>8. QED BY <1>5, <1>6, <1>7

\* However calls, messages and waits interleave, a verdict has one copy to act on.
THEOREM VerdictInOnePlace == Spec => []OnePlace
<1>1. Init => OnePlace
  BY DEF Init, OnePlace, OneCall, CallComesFirst, MessageIsNews, LeavesForAReason
<1>2. IInv /\ OnePlace /\ [Next]_vars => OnePlace'
  <2> SUFFICES ASSUME IInv, OnePlace, [Next]_vars PROVE OnePlace'
    OBVIOUS
  <2>1. CASE \E r \in Requests : TaskStep(r)
    BY <2>1, WaitStepOnePlace
  <2>2. CASE \E r \in Requests : Mirror(r) \/ \E u \in Users : Settle(u, r)
    BY <2>2, StoreStepOnePlace
  <2>3. CASE \E c \in calls : Publish(c) \/ PublishRaises(c)
    BY <2>3, PublishStepOnePlace
  <2>4. CASE Crash
    BY <2>4 DEF Crash, OnePlace, OneCall, CallComesFirst, MessageIsNews, LeavesForAReason,
                IInv, TypeOK, Waiting
  <2>5. CASE UNCHANGED vars
    BY <2>5 DEF vars, OnePlace, OneCall, CallComesFirst, MessageIsNews, LeavesForAReason, Settled
  <2>6. QED BY <2>1, <2>2, <2>3, <2>4, <2>5 DEF Next
<1>3. QED BY <1>1, <1>2, Inductive, PTL DEF Spec

(***************************************************************************)
(* A wait gives up no earlier than it must: no request is written off as   *)
(* timed out, and no decision is thrown out of a subscription, before the  *)
(* deadline of the wait, unless the wait fails.                            *)
(***************************************************************************)
THEOREM GivesUpLateAlways == Spec => GivesUpLate
<1> DEFINE Late(r) ==
      /\ row[r] = Pending /\ row'[r] = NoDecision => expired[r]
      /\ chan[r] # <<>> /\ chan'[r] # chan[r] =>
           dec'[r] = Head(chan[r]) \/ expired[r] \/ pc'[r] \in {"failed", "killed"}
<1>1. IInv /\ OnePlace /\ [Next]_vars => [\A r \in Requests : Late(r)]_vars
  <2> SUFFICES ASSUME IInv, OnePlace, Next, NEW q \in Requests PROVE Late(q)
    OBVIOUS
  <2>1. ASSUME row[q] = Pending, row'[q] = NoDecision PROVE expired[q]
    <3>1. row'[q] # row[q] /\ row[q] \notin {NoRow, NoDecision}
      BY <2>1 DEF Pending, NoDecision, NoRow
    <3>2. ASSUME NEW r \in Requests, TaskStep(r) PROVE r = q /\ CommitOutcome(r)
      BY <2>1, <3>1, <3>2
         DEF TaskStep, WaitStep, Create, Subscribe, CheckDeadline, Receive, ReadNothing,
             Unsubscribe, CommitOutcome, Expire, AwaitRaises, db, IInv, TypeOK
    <3>3. CommitOutcome(q)
      <4>1. ASSUME NEW r \in Requests, Mirror(r) \/ \E u \in Users : Settle(u, r)
            PROVE  row' = row
        BY <4>1 DEF Mirror, Settle, Decide, db
      <4>2. ASSUME NEW c \in calls, Publish(c) \/ PublishRaises(c) PROVE row' = row
        BY <4>2 DEF Publish, PublishRaises, db
      <4>3. Crash => row' = row
        BY DEF Crash, db
      <4> QED
        BY <3>1, <3>2, <4>1, <4>2, <4>3 DEF Next
    <3>4. dec[q] = NoDecision /\ pc[q] = "deciding"
      BY <2>1, <3>3 DEF CommitOutcome, IInv, TypeOK
    <3>5. ~Settled(dec[q])
      BY <3>4 DEF NoDecision, Settled, Verdicts
    <3> QED
      BY <3>4, <3>5 DEF OnePlace, LeavesForAReason
  <2>2. ASSUME chan[q] # <<>>, chan'[q] # chan[q], ~expired[q]
        PROVE  dec'[q] = Head(chan[q]) \/ pc'[q] \in {"failed", "killed"}
    <3>1. pc[q] \in Subscribed /\ ~Settled(dec[q]) /\ pc[q] # "leaving"
      BY <2>2 DEF OnePlace, MessageIsNews, LeavesForAReason
    <3>2. ASSUME NEW r \in Requests, TaskStep(r)
          PROVE  dec'[q] = Head(chan[q]) \/ pc'[q] = "failed"
      <4>1. CASE Receive(r) /\ r = q
        BY <4>1 DEF Receive, IInv, TypeOK
      <4>2. CASE AwaitRaises(r) /\ r = q
        BY <4>2 DEF AwaitRaises, Goto, IInv, TypeOK
      <4>3. CASE r # q \/ ~(Receive(r) \/ AwaitRaises(r))
        BY <2>2, <3>1, <3>2, <4>3
           DEF TaskStep, WaitStep, Create, Subscribe, CheckDeadline, Receive, ReadNothing,
               Unsubscribe, CommitOutcome, Expire, AwaitRaises, IInv, TypeOK
      <4> QED
        BY <4>1, <4>2, <4>3
    <3>3. ASSUME NEW r \in Requests, Mirror(r) \/ \E u \in Users : Settle(u, r)
          PROVE  FALSE
      BY <2>2, <3>3 DEF Mirror, Settle, Decide
    <3>4. ASSUME NEW c \in calls, Publish(c) \/ PublishRaises(c)
          PROVE  FALSE
      <4>1. c.req # q /\ c.req \in Requests
        BY <2>2 DEF OnePlace, CallComesFirst, IInv, TypeOK
      <4> QED
        BY <2>2, <3>4, <4>1 DEF Publish, PublishRaises, IInv, TypeOK
    <3>5. CASE Crash
      BY <3>1, <3>5 DEF Crash, Subscribed, Waiting
    <3> QED
      BY <3>2, <3>3, <3>4, <3>5 DEF Next
  <2> QED
    BY <2>1, <2>2
<1>2. QED BY <1>1, Inductive, VerdictInOnePlace, PTL DEF Spec, GivesUpLate

=============================================================================
