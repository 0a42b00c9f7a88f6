----------------------------- MODULE ApprovalGate -----------------------------
(***************************************************************************)
(* The human approval gate of enterprise/approval.                         *)
(*                                                                         *)
(* A task that is about to run a risky operation calls                     *)
(* create_approval_and_wait (pubsub.py): it commits a row, subscribes to   *)
(* the Redis channel of that request, polls the subscription until a       *)
(* decision arrives or the deadline passes, writes the outcome to the row  *)
(* and returns it. Approvers call approve_request / reject_request         *)
(* (routes.py), which settle an entry of the in-process store and then     *)
(* publish the decision. Redis Pub/Sub keeps nothing: a decision published *)
(* while nobody is subscribed is gone.                                     *)
(*                                                                         *)
(* One action per stretch of code between two awaits. A redis or database  *)
(* call may raise and the process may be killed, at most MaxMishaps times  *)
(* in a behaviour.                                                         *)
(***************************************************************************)
EXTENDS EnterpriseRbac, Naturals, Sequences

CONSTANTS
  Requests,     \* approval requests, each with the coroutine that waits on it
  MaxMishaps    \* bound on redis / database calls that raise and on kills

ASSUME GateAssumption == MaxMishaps \in Nat

VARIABLES
  pc,           \* pc[r]: where the coroutine of request r stands
  expired,      \* expired[r]: the deadline of r's wait has passed
  chan,         \* chan[r]: messages delivered to r's subscription, unread
  dec,          \* dec[r]: the local variable "decision" of the coroutine
  asked,        \* asked[r]: what r is about, copied to the row and the entry
  row,          \* row[r]: status and approver of the committed row
  entry,        \* entry[r]: status and approver in _approval_store
  redis,        \* whether configure_store gave the routes a Redis client
  calls,        \* decisions whose HTTP call has yet to publish them
  faults,       \* calls that have raised
  crashes       \* kills of the process

task == <<pc, expired, dec>>
db == <<asked, row, redis>>
vars == <<pc, expired, chan, dec, asked, row, entry, redis, calls, faults, crashes>>

(***************************************************************************)
(* What a task may put to the gate: an operator of the department asks, at *)
(* a level that route_approval sends to somebody.                          *)
(***************************************************************************)
Asks ==
  {ask \in [org : Orgs, dept : Depts, level : RiskLevels, requester : Users] :
     /\ RequiresApproval(ask.level)
     /\ Context[ask.requester].org = ask.org
     /\ GetRoleInDepartment(ask.requester, ask.dept) = "operator"}

Verdicts == {"approved", "rejected"}
Decisions == [status : Verdicts, by : Users]

NoDecision == [status |-> "timeout", by |-> "nobody"]   \* Python's None
NoRow == [status |-> "none", by |-> "nobody"]
NoEntry == NoRow
Pending == [status |-> "pending", by |-> "nobody"]

\* The awaits of create_approval_and_wait, in the order they are reached.
Waiting == {"committed", "poll", "reading", "leaving", "deciding"}
Ended == {"returned", "failed", "killed"}
Subscribed == {"poll", "reading", "leaving"}

Init ==
  /\ pc = [r \in Requests |-> "idle"]
  /\ expired = [r \in Requests |-> FALSE]
  /\ chan = [r \in Requests |-> <<>>]
  /\ dec = [r \in Requests |-> NoDecision]
  /\ asked \in [Requests -> Asks]
  /\ row = [r \in Requests |-> NoRow]
  /\ entry = [r \in Requests |-> NoEntry]
  /\ redis \in BOOLEAN
  /\ calls = {}
  /\ faults = 0
  /\ crashes = 0

-----------------------------------------------------------------------------
(* The waiting task.                                                       *)

Goto(r, at) == pc' = [pc EXCEPT ![r] = at]

\* build_approval_request, add and commit.
Create(r) ==
  /\ pc[r] = "idle"
  /\ row' = [row EXCEPT ![r] = Pending]
  /\ Goto(r, "committed")
  /\ UNCHANGED <<expired, chan, dec, asked, entry, redis, calls, faults, crashes>>

\* refresh, pubsub() and subscribe: the deadline is counted from here.
Subscribe(r) ==
  /\ pc[r] = "committed"
  /\ Goto(r, "poll")
  /\ UNCHANGED <<expired, chan, dec, db, entry, calls, faults, crashes>>

\* Time passes the deadline of a running wait.
Expire(r) ==
  /\ pc[r] \in {"poll", "reading"}
  /\ ~expired[r]
  /\ expired' = [expired EXCEPT ![r] = TRUE]
  /\ UNCHANGED <<pc, chan, dec, db, entry, calls, faults, crashes>>

\* Variant: the loop never looks at its deadline.
CheckDeadline_Never(r) ==
  /\ pc[r] = "poll"
  /\ Goto(r, "reading")
  /\ UNCHANGED <<expired, chan, dec, db, entry, calls, faults, crashes>>

\* Head of the loop: remaining <= 0 gives up, without looking at the channel.
CheckDeadline(r) ==
  /\ pc[r] = "poll"
  /\ Goto(r, IF expired[r] THEN "leaving" ELSE "reading")
  /\ UNCHANGED <<expired, chan, dec, db, entry, calls, faults, crashes>>

\* get_message returned a decision.
Receive(r) ==
  /\ pc[r] = "reading"
  /\ chan[r] # <<>>
  /\ dec' = [dec EXCEPT ![r] = Head(chan[r])]
  /\ chan' = [chan EXCEPT ![r] = Tail(chan[r])]
  /\ Goto(r, "leaving")
  /\ UNCHANGED <<expired, db, entry, calls, faults, crashes>>

\* Variant: an empty read is taken for a timeout.
ReadNothing_GivesUp(r) ==
  /\ pc[r] = "reading"
  /\ chan[r] = <<>> \/ expired[r]
  /\ Goto(r, "leaving")
  /\ UNCHANGED <<expired, chan, dec, db, entry, calls, faults, crashes>>

(***************************************************************************)
(* get_message gave None after its second, or wait_for cancelled it. With  *)
(* a message waiting, only the deadline itself cuts the read short.        *)
(***************************************************************************)
ReadNothing(r) ==
  /\ pc[r] = "reading"
  /\ chan[r] = <<>> \/ expired[r]
  /\ Goto(r, "poll")
  /\ UNCHANGED <<expired, chan, dec, db, entry, calls, faults, crashes>>

\* The finally clause: unsubscribe and close.
Unsubscribe(r) ==
  /\ pc[r] = "leaving"
  /\ chan' = [chan EXCEPT ![r] = <<>>]
  /\ Goto(r, "deciding")
  /\ UNCHANGED <<expired, dec, db, entry, calls, faults, crashes>>

\* The outcome is written over the row, committed, and returned to the task.
CommitOutcome(r) ==
  /\ pc[r] = "deciding"
  /\ row' = [row EXCEPT ![r] = dec[r]]
  /\ Goto(r, "returned")
  /\ UNCHANGED <<expired, chan, dec, asked, entry, redis, calls, faults, crashes>>

(***************************************************************************)
(* Any awaited call raises: the exception leaves the coroutine (through    *)
(* the finally clause once subscribed). Nothing repairs the row.           *)
(***************************************************************************)
AwaitRaises(r) ==
  /\ pc[r] \in Waiting
  /\ faults + crashes < MaxMishaps
  /\ faults' = faults + 1
  /\ chan' = [chan EXCEPT ![r] = <<>>]
  /\ Goto(r, "failed")
  /\ UNCHANGED <<expired, dec, db, entry, calls, crashes>>

-----------------------------------------------------------------------------
(* The approval endpoints.                                                 *)

(***************************************************************************)
(* External: whatever feeds _approval_store puts a committed request into  *)
(* it as pending (configure_store hands the routes a dictionary; the code  *)
(* that fills it from the table is not in the repository).                 *)
(***************************************************************************)
Mirror(r) ==
  /\ row[r] = Pending
  /\ pc[r] \in Waiting
  /\ entry[r] = NoEntry
  /\ entry' = [entry EXCEPT ![r] = Pending]
  /\ UNCHANGED <<task, chan, db, calls, faults, crashes>>

\* Variant: no 409 for a request that is already settled.
MayDecide_Again(u, r) ==
  /\ IsAnyApprover(u)
  /\ entry[r] # NoEntry
  /\ Context[u].org = asked[r].org
  /\ UserCanApprove(u, ApproverDepartment(asked[r].level, asked[r].dept))

\* Variant: any approver of the organisation will do.
MayDecide_AnyDepartment(u, r) ==
  /\ IsAnyApprover(u)
  /\ Context[u].org = asked[r].org
  /\ entry[r] = Pending

\* The checks approve_request and reject_request make before they write.
MayDecide(u, r) ==
  /\ IsAnyApprover(u)
  /\ entry[r] # NoEntry
  /\ Context[u].org = asked[r].org
  /\ UserCanApprove(u, ApproverDepartment(asked[r].level, asked[r].dept))
  /\ entry[r] = Pending

\* Variant: the approver is recorded and the status is not.
Decide_StatusKept(u, r, status) ==
  /\ MayDecide(u, r)
  /\ entry' = [entry EXCEPT ![r].by = u]
  /\ calls' = IF redis THEN calls \cup {[req |-> r, status |-> status, by |-> u]} ELSE calls
  /\ UNCHANGED <<task, chan, db, faults, crashes>>

(***************************************************************************)
(* approve_request (status "approved") and reject_request ("rejected").    *)
(* Without a Redis client they settle the entry and answer all the same.   *)
(***************************************************************************)
Decide(u, r, status) ==
  /\ MayDecide(u, r)
  /\ entry' = [entry EXCEPT ![r] = [status |-> status, by |-> u]]
  /\ calls' = IF redis THEN calls \cup {[req |-> r, status |-> status, by |-> u]} ELSE calls
  /\ UNCHANGED <<task, chan, db, faults, crashes>>

\* publish: whoever is subscribed gets the decision; then the call answers.
Publish(c) ==
  /\ calls' = calls \ {c}
  /\ chan' = IF pc[c.req] \in Subscribed
               THEN [chan EXCEPT ![c.req] =
                       Append(@, [status |-> c.status, by |-> c.by])]
               ELSE chan
  /\ UNCHANGED <<task, db, entry, faults, crashes>>

\* publish raises: the call answers 500 and the entry stays decided.
PublishRaises(c) ==
  /\ faults + crashes < MaxMishaps
  /\ faults' = faults + 1
  /\ calls' = calls \ {c}
  /\ UNCHANGED <<task, chan, db, entry, crashes>>

-----------------------------------------------------------------------------
(***************************************************************************)
(* The process is killed: coroutines, calls, subscriptions and the store   *)
(* go; rows stay. Nothing resumes a wait or reloads the store.             *)
(***************************************************************************)
Crash ==
  /\ faults + crashes < MaxMishaps
  /\ crashes' = crashes + 1
  /\ pc' = [r \in Requests |-> IF pc[r] \in Waiting THEN "killed" ELSE pc[r]]
  /\ chan' = [r \in Requests |-> <<>>]
  /\ entry' = [r \in Requests |-> NoEntry]
  /\ calls' = {}
  /\ UNCHANGED <<expired, dec, db, faults>>

WaitStep(r) ==
  \/ Subscribe(r) \/ CheckDeadline(r) \/ Receive(r) \/ ReadNothing(r)
  \/ Unsubscribe(r) \/ CommitOutcome(r)

TaskStep(r) == Create(r) \/ WaitStep(r) \/ Expire(r) \/ AwaitRaises(r)

Settle(u, r) == \E status \in Verdicts : Decide(u, r, status)

Next ==
  \/ \E r \in Requests : TaskStep(r) \/ Mirror(r) \/ \E u \in Users : Settle(u, r)
  \/ \E c \in calls : Publish(c) \/ PublishRaises(c)
  \/ Crash

(***************************************************************************)
(* The event loop keeps running a coroutine whose await has completed, and *)
(* time passes. Receive is owed to a reader with a message. Nobody owes a  *)
(* decision, and nothing owes a fault.                                     *)
(***************************************************************************)
Fairness ==
  \A r \in Requests : WF_vars(WaitStep(r)) /\ WF_vars(Expire(r))

Spec == Init /\ [][Next]_vars
FairSpec == Spec /\ Fairness

-----------------------------------------------------------------------------
(* Properties.                                                             *)

Outcomes == Decisions \cup {NoDecision}

TypeOK ==
  /\ pc \in [Requests -> {"idle"} \cup Waiting \cup Ended]
  /\ expired \in [Requests -> BOOLEAN]
  /\ chan \in [Requests -> Seq(Decisions)]
  /\ dec \in [Requests -> Outcomes]
  /\ asked \in [Requests -> Asks]
  /\ row \in [Requests -> Outcomes \cup {NoRow, Pending}]
  /\ entry \in [Requests -> Decisions \cup {NoEntry, Pending}]
  /\ redis \in BOOLEAN
  /\ calls \subseteq [req : Requests, status : Verdicts, by : Users]
  /\ faults \in Nat /\ crashes \in Nat
  /\ faults + crashes <= MaxMishaps

Settled(x) == x.status \in Verdicts

(***************************************************************************)
(* The table and the store never hold opposite verdicts, or verdicts of    *)
(* different people, about one request: what the task acts on is what an   *)
(* approver was told. (create_approval_and_wait writes the row from a      *)
(* message, approve_request the entry, and nothing compares them.)         *)
(***************************************************************************)
NoSplitVerdict ==
  \A r \in Requests :
    Settled(row[r]) /\ Settled(entry[r]) => row[r] = entry[r]

(***************************************************************************)
(* A task that goes ahead does so on the word of somebody who was allowed  *)
(* to give it: same organisation, and the role the risk level routes to.   *)
(* The decision travels through the store, a message and a local variable, *)
(* and the waiter checks nothing of what it receives.                      *)
(***************************************************************************)
Allowed(u, r) ==
  /\ IsAnyApprover(u)
  /\ Context[u].org = asked[r].org
  /\ UserCanApprove(u, ApproverDepartment(asked[r].level, asked[r].dept))

ApprovedByAuthority ==
  \A r \in Requests : pc[r] = "returned" /\ Settled(dec[r]) => Allowed(dec[r].by, r)

(***************************************************************************)
(* A request is settled once: neither the row nor the entry changes its    *)
(* mind (two approvers may race; the routes answer 409 to the second). A   *)
(* crash loses the whole store, and no other step touches a settled entry. *)
(***************************************************************************)
SettledOnce ==
  [][\A r \in Requests :
       /\ row[r] \notin {NoRow, Pending} => row'[r] = row[r]
       /\ Settled(entry[r]) => entry'[r] = entry[r] \/ crashes' # crashes]_vars

(***************************************************************************)
(* The wait of create_approval_and_wait ends, however the polls fall out.  *)
(***************************************************************************)
EveryWaitEnds == \A r \in Requests : pc[r] = "committed" ~> pc[r] \in Ended

(***************************************************************************)
(* A wait gives up no earlier than it must: a request is written off as    *)
(* timed out only after its deadline, and a decision that lies in the      *)
(* subscription is thrown away only by a wait whose deadline has passed or *)
(* that fails. It may be thrown away then even if it had been delivered in *)
(* time: wait_for_decision looks at the clock before it looks at the       *)
(* channel.                                                                *)
(***************************************************************************)
GivesUpLate ==
  [][\A r \in Requests :
       /\ row[r] = Pending /\ row'[r] = NoDecision => expired[r]
       /\ chan[r] # <<>> /\ chan'[r] # chan[r] =>
            dec'[r] = Head(chan[r]) \/ expired[r] \/ pc'[r] \in {"failed", "killed"}]_vars

\* Every step is a step of the promise, or one it does not see.
Promise == INSTANCE ApprovalPromise WITH verdict <- row
PromiseKept == Promise!Spec

(***************************************************************************)
(* docs/interview_qa.md:39: when the approver clicks "approve" the server  *)
(* publishes to the channel and the waiting coroutine resumes. So once the *)
(* call has answered "Approval granted", a coroutine that is still waiting *)
(* has the decision in its subscription, where the routes have a client to *)
(* publish with.                                                           *)
(***************************************************************************)
GrantedIsHeard ==
  \A r \in Requests :
    /\ redis
    /\ pc[r] \in {"poll", "reading"}
    /\ entry[r].status = "approved"
    /\ \A c \in calls : c.req # r
    => chan[r] # <<>>

(***************************************************************************)
(* docs/interview_qa.md:155: whoever created the task (operator) and       *)
(* whoever approves it cannot be the same person.                          *)
(***************************************************************************)
FourEyes ==
  \A r \in Requests :
    pc[r] = "returned" /\ dec[r].status = "approved"
      => dec[r].by # asked[r].requester

=============================================================================
