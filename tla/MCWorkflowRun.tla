----------------------------- MODULE MCWorkflowRun -----------------------------
(***************************************************************************)
(* Two runs, the second triggered by a block of the first where it has     *)
(* such a block, under workflows that put each kind of block before, in a  *)
(* loop and at the end.                                                    *)
(***************************************************************************)
EXTENDS WorkflowRun

CONSTANTS parent, child

MCParent == [r \in Runs |-> IF r = child THEN parent ELSE NoRun]

Simple(kind) ==
  [kind |-> kind, tolerant |-> FALSE, moveOn |-> FALSE, values |-> 0, body |-> <<>>]
Tolerant(b) == [b EXCEPT !.tolerant = TRUE]
MovesOn(b) == [b EXCEPT !.moveOn = TRUE]
Loops(n, body) == [Simple("loop") EXCEPT !.values = n, !.body = body]

Flow(blocks, finally) == [blocks |-> blocks, finally |-> finally]
Plan(f, g) == [r \in Runs |-> IF r = parent THEN f ELSE g]
Alone(f) == Plan(f, Flow(<<Simple("code")>>, <<>>))

\* Workflows of one run: every kind of block, also as a finally block or in a loop.
MCAlone == {
  Alone(Flow(<<>>, <<Simple("code")>>)),
  Alone(Flow(<<Simple("task"), Tolerant(Simple("human")), Simple("code")>>, <<>>)),
  Alone(Flow(<<Simple("human"), Simple("code")>>, <<Simple("code")>>)),
  Alone(Flow(<<Simple("task")>>, <<Simple("human")>>)),
  Alone(Flow(<<Loops(0, <<Simple("code")>>), Simple("code")>>, <<>>)),
  Alone(Flow(<<MovesOn(Loops(2, <<Simple("task"), Simple("code")>>))>>, <<Simple("task")>>)),
  Alone(Flow(<<Loops(2, <<Tolerant(Simple("human")), MovesOn(Simple("code"))>>)>>, <<>>)) }

\* Workflows of a run and the one it triggers.
MCPairs == {
  Plan(Flow(<<Simple("trigger"), Simple("code")>>, <<Simple("code")>>),
       Flow(<<Simple("human")>>, <<>>)),
  Plan(Flow(<<Tolerant(Simple("trigger"))>>, <<>>),
       Flow(<<Simple("task")>>, <<Simple("code")>>)) }

MCPlans == MCAlone \cup MCPairs

=============================================================================
