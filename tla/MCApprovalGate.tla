---------------------------- MODULE MCApprovalGate ----------------------------
(***************************************************************************)
(* A small bank for ApprovalGate: one organisation with a credit and a     *)
(* compliance department, and a neighbour.                                 *)
(*   dual     operator in credit, approver in compliance (one role per     *)
(*            department, as the table allows)                             *)
(*   checker  approver in credit                                           *)
(*   auditor  approver in compliance with cross-organisation approval      *)
(*   watcher  viewer with cross-organisation approval: stopped at the door *)
(*   stranger administrator of the other organisation                      *)
(***************************************************************************)
EXTENDS ApprovalGate

CONSTANTS credit, compliance, home, abroad, dual, checker, auditor, watcher, stranger

MCDepts == {credit, compliance}
MCOrgs == {home, abroad}
MCUsers == {dual, checker, auditor, watcher, stranger}

Person(org, inCredit, inCompliance, cross) ==
  [org |-> org,
   role |-> [d \in MCDepts |-> IF d = credit THEN inCredit ELSE inCompliance],
   crossApprove |-> cross]

MCContext ==
  [u \in MCUsers |->
     CASE u = dual     -> Person(home, "operator", "approver", FALSE)
       [] u = checker  -> Person(home, "approver", "none", FALSE)
       [] u = auditor  -> Person(home, "none", "approver", TRUE)
       [] u = watcher  -> Person(home, "viewer", "none", TRUE)
       [] u = stranger -> Person(abroad, "org_admin", "none", FALSE)]

=============================================================================
