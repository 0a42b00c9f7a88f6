--------------------------- MODULE MCBrowserSessions ---------------------------
(***************************************************************************)
(* A run and a client on one session, which may both close it, beside      *)
(* sessions that compete for the one port. Those are interchangeable: no   *)
(* action compares sessions but for equality, and nobody is given them.    *)
(***************************************************************************)
EXTENDS BrowserSessions, TLC

CONSTANT kept    \* the session that the run and the client were given

MCSessionOf == [x \in Runs \cup Clients |-> kept]

MCSymmetry == Permutations(Sessions \ {kept})

=============================================================================
