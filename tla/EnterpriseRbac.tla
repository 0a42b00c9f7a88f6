--------------------------- MODULE EnterpriseRbac ---------------------------
(***************************************************************************)
(* The role-based access rules of enterprise/auth and the risk routing of  *)
(* enterprise/approval/routing.py, as operators on a user's context.       *)
(*                                                                         *)
(* A user context is what a verified token carries (UserContext in         *)
(* enterprise/auth/schemas.py): an organisation, one role per department   *)
(* (the table's primary key is user + department, so get_role_in_department*)
(* has at most one row to find) and the cross-organisation permissions.    *)
(* Contexts are constants here: a token's claims do not change while the   *)
(* token is valid.                                                         *)
(***************************************************************************)
CONSTANTS
  Users,        \* user ids
  Orgs,         \* organisation ids
  Depts,        \* department ids
  Compliance,   \* the department id "dept_compliance"
  Context       \* Context[u]: the UserContext of user u

\* RoleType values, and the absence of a row for the department.
Roles == {"super_admin", "org_admin", "operator", "approver", "viewer"}
NoRole == "none"

UserContext ==
  [org : Orgs, role : [Depts -> Roles \cup {NoRole}], crossApprove : BOOLEAN]

ASSUME RbacAssumption ==
  /\ Context \in [Users -> UserContext]
  /\ Compliance \in Depts

RiskLevels == {"low", "medium", "high", "critical"}

-----------------------------------------------------------------------------
HoldsAny(u, roles) == \E d \in Depts : Context[u].role[d] \in roles

IsOrgAdmin(u) == HoldsAny(u, {"super_admin", "org_admin"})

\* require_approver admits the user to the approval endpoints.
IsAnyApprover(u) == HoldsAny(u, {"super_admin", "org_admin", "approver"})

GetRoleInDepartment(u, d) == Context[u].role[d]

\* Variant: critical operations are routed like high ones.
ApproverDepartment_Source(level, source) == source

(***************************************************************************)
(* route_approval: low and medium operations need nobody; a critical one   *)
(* goes to the compliance department; high, and any level the table does   *)
(* not know, goes to the department that asked.                            *)
(***************************************************************************)
RequiresApproval(level) == level \notin {"low", "medium"}

ApproverDepartment(level, source) ==
  IF level = "critical" THEN Compliance ELSE source

\* _user_can_approve of the approval routes.
UserCanApprove(u, d) ==
  \/ IsOrgAdmin(u)
  \/ Context[u].crossApprove
  \/ GetRoleInDepartment(u, d) \in {"approver", "org_admin", "super_admin"}

=============================================================================
