--------------------------- MODULE ApprovalPromise ---------------------------
(***************************************************************************)
(* What the approval engine promises about one request, whatever happens   *)
(* to the messages in between: a request is opened once, its verdict is    *)
(* settled at most once, only an entitled person of the request's own      *)
(* organisation can settle it as approved or rejected, and the only other  *)
(* verdict is a timeout. A request may stay open for ever (the promise     *)
(* says nothing of a waiter that crashes).                                 *)
(*                                                                         *)
(* Entitled is written from the intent of the roles, not from the order of *)
(* checks in the handlers, so that ApprovalGate!Promise compares the two.  *)
(***************************************************************************)
EXTENDS EnterpriseRbac

CONSTANT Requests

VARIABLES
  verdict,      \* verdict[r]: the persisted status of request r, and by whom
  asked         \* asked[r]: what the request is about

Unopened == [status |-> "none", by |-> "nobody"]
Undecided == [status |-> "pending", by |-> "nobody"]
TimedOut == [status |-> "timeout", by |-> "nobody"]

Asks == [org : Orgs, dept : Depts, level : RiskLevels, requester : Users]

(***************************************************************************)
(* An organisation's administrators may settle anything asked inside it; a *)
(* department approver may settle what is routed to that department; an    *)
(* approver with the cross-organisation permission may settle any request  *)
(* of the organisation.                                                    *)
(***************************************************************************)
Entitled(u, ask) ==
  /\ Context[u].org = ask.org
  /\ \E d \in Depts :
       \/ Context[u].role[d] \in {"super_admin", "org_admin"}
       \/ /\ Context[u].role[d] = "approver"
          /\ \/ Context[u].crossApprove
             \/ d = IF ask.level = "critical" THEN Compliance ELSE ask.dept

Init ==
  /\ verdict = [r \in Requests |-> Unopened]
  /\ asked \in [Requests -> {ask \in Asks : ask.level \in {"high", "critical"}}]

Open(r) ==
  /\ verdict[r] = Unopened
  /\ verdict' = [verdict EXCEPT ![r] = Undecided]
  /\ UNCHANGED asked

Settle(r, u) ==
  /\ verdict[r] = Undecided
  /\ Entitled(u, asked[r])
  /\ \E s \in {"approved", "rejected"} :
       verdict' = [verdict EXCEPT ![r] = [status |-> s, by |-> u]]
  /\ UNCHANGED asked

Lapse(r) ==
  /\ verdict[r] = Undecided
  /\ verdict' = [verdict EXCEPT ![r] = TimedOut]
  /\ UNCHANGED asked

Next == \E r \in Requests : Open(r) \/ Lapse(r) \/ \E u \in Users : Settle(r, u)

Spec == Init /\ [][Next]_<<verdict, asked>>

=============================================================================
