---------------------------- MODULE BrowserSessions ----------------------------
(***************************************************************************)
(* Persistent browser sessions of skyvern/webeye: a row in the database, a *)
(* browser of this process registered under the session's id, and a CDP    *)
(* port from the pool of cdp_ports.py. Launches, closes, renewals and      *)
(* workflow runs change the three between awaits, and nothing locks them.  *)
(*                                                                         *)
(* One action per stretch of code between two awaits; the commit of a new  *)
(* row and the allocation after it are taken together, and so are the      *)
(* awaits from the allocation to the registration. Awaited calls of the    *)
(* database or the browser may raise, and the process may be killed and    *)
(* started again, at most MaxMishaps times in a behaviour. A browser is    *)
(* named after the session or the run that started it. Renewal is a        *)
(* background task of a run; whether the time left still allows it to      *)
(* renew is left open, so it may find at any time that it has to close     *)
(* the session.                                                            *)
(***************************************************************************)
EXTENDS Naturals

CONSTANTS
  Sessions,     \* sessions that may be created
  Runs,         \* workflow runs
  LongRuns,     \* the runs that outlast the first sleep of their renewal loop
  Clients,      \* calls of close_session from an endpoint or a trigger block
  SessionOf,    \* SessionOf[x]: the browser_session_id a run or client was given
  Ports,        \* the CDP port range
  Local,        \* settings.ENV == "local"
  MaxMishaps    \* bound on awaited calls that raise and on kills

NoBrowser == "none"
NoPort == 0                 \* Python's None
Nobody == "nobody"
Browsers == Sessions \cup Runs
Closers == Clients \cup Runs

ASSUME SessionsAssumption ==
  /\ LongRuns \subseteq Runs
  /\ Sessions \cap Runs = {} /\ NoBrowser \notin Browsers /\ Nobody \notin Runs
  /\ SessionOf \in [Runs \cup Clients -> Sessions]
  /\ Ports \subseteq Nat \ {0}
  /\ Local \in BOOLEAN
  /\ MaxMishaps \in Nat

VARIABLES
  row,          \* row[s]: the row of session s
  entry,        \* entry[s]: _browser_sessions[s], its browser and port
  allocated,    \* _allocated_ports
  port,         \* port[s]: the local variable cdp_port of s's launch
  up,           \* the browsers that are running
  launch,       \* launch[s]: where create_session stands
  close,        \* close[x]: the close_session call of a client or a renewal
  run,          \* run[r]: where run r stands, and the browser it holds
  misfreed,     \* ports freed while another launch was about to bind them
  faults,       \* calls that have raised
  crashes       \* kills of the process

vars == <<row, entry, allocated, port, up, launch, close, run, misfreed, faults, crashes>>
pool == <<allocated, port, misfreed>>
mishaps == <<faults, crashes>>

NoRow == [status |-> "none", completedAt |-> "null", addr |-> NoPort, runnable |-> Nobody]
NoEntry == [browser |-> NoBrowser, port |-> NoPort]

Launching == {"allocated", "registered", "addressed", "failing"}
Closing == {"export", "quit", "row", "archive"}
Active == {"begun", "creating", "using", "leaving"}

Init ==
  /\ row = [s \in Sessions |-> NoRow]
  /\ entry = [s \in Sessions |-> NoEntry]
  /\ allocated = {}
  /\ port = [s \in Sessions |-> NoPort]
  /\ up = {}
  /\ launch = [s \in Sessions |-> "none"]
  /\ close = [x \in Closers |-> [at |-> "none", entry |-> NoEntry]]
  /\ run = [r \in Runs |-> [at |-> "idle", held |-> NoBrowser]]
  /\ misfreed = {}
  /\ faults = 0
  /\ crashes = 0

Exists(s) == row[s].status # "none"
Open(s) == Exists(s) /\ row[s].completedAt = "null"
LaunchAt(s, at) == launch' = [launch EXCEPT ![s] = at]
CloseAt(x, at) == close' = [close EXCEPT ![x].at = at]
RunAt(r, at) == run' = [run EXCEPT ![r].at = at]

Raises == faults + crashes < MaxMishaps /\ faults' = faults + 1 /\ UNCHANGED crashes

\* _release_cdp_port, on behalf of session s.
Free(p, s) ==
  /\ allocated' = allocated \ {p}
  /\ misfreed' = misfreed \cup
       {q \in {p} : \E o \in Sessions \ {s} : launch[o] = "allocated" /\ port[o] = q}
  /\ UNCHANGED port

-----------------------------------------------------------------------------
(* create_session and _launch_browser_for_session.                         *)

\* A port whose bind succeeds: no running browser listens on it.
Listening == {port[s] : s \in Sessions \cap up}

\* Variant: the bind alone tells whether a port is taken.
FreePorts_BindOnly == Ports \ Listening

FreePorts == Ports \ (allocated \cup Listening)

NewRow(s) == row' = [row EXCEPT ![s].status = "created"]

\* Variant: an empty pool hands out None and does not raise.
Create_NoCheck(s) ==
  /\ launch[s] = "none"
  /\ NewRow(s)
  /\ LET p == IF FreePorts = {} THEN NoPort ELSE CHOOSE q \in FreePorts : TRUE IN
       /\ allocated' = allocated \cup ({p} \ {NoPort})
       /\ port' = [port EXCEPT ![s] = p]
  /\ LaunchAt(s, "allocated")
  /\ UNCHANGED <<entry, up, close, run, misfreed, mishaps>>

\* The row is committed and _allocate_cdp_port takes the lowest free port.
Create(s) ==
  /\ launch[s] = "none"
  /\ NewRow(s)
  /\ \E p \in FreePorts :
       /\ \A q \in FreePorts : p <= q
       /\ allocated' = allocated \cup {p}
       /\ port' = [port EXCEPT ![s] = p]
  /\ LaunchAt(s, "allocated")
  /\ UNCHANGED <<entry, up, close, run, misfreed, mishaps>>

\* No port left: create_session swallows the error and returns the row.
CreateWithoutPort(s) ==
  /\ launch[s] = "none"
  /\ NewRow(s)
  /\ FreePorts = {}
  /\ LaunchAt(s, "failed")
  /\ UNCHANGED <<entry, pool, up, close, run, mishaps>>

(***************************************************************************)
(* create_browser_context and get_or_create_page are over: the browser     *)
(* listens on its port and is registered, over whatever was there.         *)
(***************************************************************************)
Register(s) ==
  /\ launch[s] = "allocated"
  /\ up' = up \cup {s}
  /\ entry' = [entry EXCEPT ![s] = [browser |-> s, port |-> port[s]]]
  /\ LaunchAt(s, "registered")
  /\ UNCHANGED <<row, pool, close, run, mishaps>>

\* browser_address is unique over all rows, closed ones too.
AddressTaken(s) == \E o \in Sessions \ {s} : row[o].addr = port[s]

SetAddress(s) ==
  /\ launch[s] = "registered"
  /\ ~AddressTaken(s)
  /\ row' = [row EXCEPT ![s].addr = port[s]]
  /\ LaunchAt(s, "addressed")
  /\ UNCHANGED <<entry, pool, up, close, run, mishaps>>

\* Whatever the row has become meanwhile, its status is set to running.
MarkRunning(s) ==
  /\ launch[s] = "addressed"
  /\ row' = [row EXCEPT ![s].status = "running"]
  /\ LaunchAt(s, "launched")
  /\ UNCHANGED <<entry, pool, up, close, run, mishaps>>

(***************************************************************************)
(* A call raises, or the database refuses the address. The port goes back  *)
(* and the browser is closed; an entry already registered stays.           *)
(***************************************************************************)
LaunchFails(s) ==
  /\ launch[s] \in {"allocated", "registered", "addressed"}
  /\ Free(port[s], s)
  /\ LaunchAt(s, "failing")
  /\ \/ Raises
     \/ launch[s] = "registered" /\ AddressTaken(s) /\ UNCHANGED mishaps
  /\ UNCHANGED <<row, entry, up, close, run>>

CloseLaunched(s) ==
  /\ launch[s] = "failing"
  /\ up' = up \ {s}
  /\ LaunchAt(s, "failed")
  /\ UNCHANGED <<row, entry, pool, close, run, mishaps>>

-----------------------------------------------------------------------------
(* close_session.                                                          *)

\* Variant: the entry is popped at once and the export goes by what it held.
BeginClose_PopsFirst(x) ==
  /\ Exists(SessionOf[x])
  /\ close' = [close EXCEPT
       ![x].at = IF entry[SessionOf[x]] = NoEntry THEN "row" ELSE "export",
       ![x].entry = entry[SessionOf[x]]]
  /\ entry' = [entry EXCEPT ![SessionOf[x]] = NoEntry]
  /\ UNCHANGED <<row, pool, up, launch, run, mishaps>>

\* Its first stretch: the entry is read once and kept over the export.
BeginClose(x) ==
  /\ Exists(SessionOf[x])
  /\ close' = [close EXCEPT
       ![x].at = IF entry[SessionOf[x]] = NoEntry THEN "row" ELSE "export",
       ![x].entry = entry[SessionOf[x]]]
  /\ UNCHANGED <<row, entry, pool, up, launch, run, mishaps>>

\* The close endpoint, a new debug session, the end of a triggered run.
ClientCloses(c) == close[c].at = "none" /\ BeginClose(c)

\* renew_or_close_session in the renewal loop of a run that is not over; the
\* loop goes on after an error and stops once the session is closed.
RenewalCloses(r) ==
  /\ r \in LongRuns
  /\ run[r].at \in {"begun", "creating", "using"}
  /\ close[r].at \in {"none", "cut"}
  /\ BeginClose(r)

\* The profile is stored; entry and port go before the browser is closed.
Unregister(x) ==
  /\ close[x].at = "export"
  /\ entry' = [entry EXCEPT ![SessionOf[x]] = NoEntry]
  /\ IF close[x].entry.port = NoPort
       THEN UNCHANGED pool
       ELSE Free(close[x].entry.port, SessionOf[x])
  /\ CloseAt(x, "quit")
  /\ UNCHANGED <<row, up, launch, run, mishaps>>

\* Errors of the browser are swallowed.
QuitBrowser(x) ==
  /\ close[x].at = "quit"
  /\ up' = up \ {close[x].entry.browser}
  /\ close' = [close EXCEPT ![x].at = "row", ![x].entry = NoEntry]
  /\ UNCHANGED <<row, entry, pool, launch, run, mishaps>>

CloseRow(x) ==
  /\ close[x].at = "row"
  /\ row' = [row EXCEPT ![SessionOf[x]] =
       IF @.completedAt = "set" THEN @
       ELSE [@ EXCEPT !.completedAt = "set", !.status = "completed"]]
  /\ CloseAt(x, IF Local THEN "archive" ELSE "over")
  /\ UNCHANGED <<entry, pool, up, launch, run, mishaps>>

\* archive_browser_session_address: the suffix makes room for the next one.
Archive(x) ==
  /\ close[x].at = "archive"
  /\ row' = [row EXCEPT ![SessionOf[x]].addr = NoPort]
  /\ CloseAt(x, "over")
  /\ UNCHANGED <<entry, pool, up, launch, run, mishaps>>

\* What becomes of a close that stops where it is.
Interrupted(at) == IF at \in {"quit", "row"} THEN "cut" ELSE IF at \in Closing THEN "over" ELSE at

CloseRaises(x) ==
  /\ close[x].at \in {"row", "archive"}
  /\ Raises
  /\ CloseAt(x, Interrupted(close[x].at))
  /\ UNCHANGED <<row, entry, pool, up, launch, run>>

-----------------------------------------------------------------------------
(* Workflow runs.                                                          *)

\* begin_session: neither a closed nor an occupied session is refused.
Begin(r) ==
  /\ run[r].at = "idle"
  /\ Exists(SessionOf[r])
  /\ row' = [row EXCEPT ![SessionOf[r]].runnable = r]
  /\ RunAt(r, "begun")
  /\ UNCHANGED <<entry, pool, up, launch, close, mishaps>>

\* begin_session raised: the clean-up releases what the run never had.
BeginFails(r) ==
  /\ run[r].at = "idle"
  /\ Exists(SessionOf[r])
  /\ Raises
  /\ RunAt(r, "leaving")
  /\ UNCHANGED <<row, entry, pool, up, launch, close>>

\* get_or_create_for_workflow_run: the registered browser, dead or alive.
GetBrowser(r) ==
  /\ run[r].at = "begun"
  /\ IF entry[SessionOf[r]] = NoEntry
       THEN RunAt(r, "creating")
       ELSE run' = [run EXCEPT ![r].at = "using", ![r].held = entry[SessionOf[r]].browser]
  /\ UNCHANGED <<row, entry, pool, up, launch, close, mishaps>>

\* Without one the run starts its own and registers it, with no port.
CreateBrowser(r) ==
  /\ run[r].at = "creating"
  /\ up' = up \cup {r}
  /\ entry' = [entry EXCEPT ![SessionOf[r]] = [browser |-> r, port |-> NoPort]]
  /\ run' = [run EXCEPT ![r].at = "using", ![r].held = r]
  /\ UNCHANGED <<row, pool, launch, close, mishaps>>

\* Variant: a run that never got a browser is over without a release.
Leave_NothingHeld(r) ==
  /\ run[r].at \in {"begun", "creating", "using"}
  /\ CloseAt(r, Interrupted(close[r].at))
  /\ run' = [run EXCEPT ![r].at = IF run[r].held = NoBrowser THEN "over" ELSE "leaving",
                        ![r].held = NoBrowser]
  /\ UNCHANGED <<row, entry, pool, up, launch, mishaps>>

(***************************************************************************)
(* The run ends, with its blocks done or with an error of any of them: its *)
(* renewal task is cancelled, in the middle of a close if need be, and the *)
(* browser is left to the session.                                         *)
(***************************************************************************)
Leave(r) ==
  /\ run[r].at \in {"begun", "creating", "using"}
  /\ CloseAt(r, Interrupted(close[r].at))
  /\ run' = [run EXCEPT ![r].at = "leaving", ![r].held = NoBrowser]
  /\ UNCHANGED <<row, entry, pool, up, launch, mishaps>>

Vacate(s) == row' = [row EXCEPT ![s].runnable = Nobody]

\* release_browser_session at the end of cleanup_for_workflow_run.
Release(r) ==
  /\ run[r].at = "leaving"
  /\ Vacate(SessionOf[r])
  /\ RunAt(r, "over")
  /\ UNCHANGED <<entry, pool, up, launch, close, mishaps>>

\* An earlier step of the clean-up raises, or the release itself.
ReleaseRaises(r) ==
  /\ run[r].at = "leaving"
  /\ Raises
  /\ RunAt(r, "stranded")
  /\ UNCHANGED <<row, entry, pool, up, launch, close>>

\* _cancel_workflow_run releases at once; the run notices at its next block.
Cancel(r) ==
  /\ Exists(SessionOf[r])
  /\ Vacate(SessionOf[r])
  /\ UNCHANGED <<entry, pool, up, launch, close, run, mishaps>>

-----------------------------------------------------------------------------
\* cleanup_stale_sessions: open rows are closed, in a local installation.
Swept(s) ==
  IF Local /\ Open(s)
    THEN [row[s] EXCEPT !.completedAt = "set", !.status = "completed", !.addr = NoPort]
    ELSE row[s]

\* The process is killed, its browsers with it, and started again.
Crash ==
  /\ faults + crashes < MaxMishaps
  /\ crashes' = crashes + 1
  /\ row' = [s \in Sessions |-> Swept(s)]
  /\ entry' = [s \in Sessions |-> NoEntry]
  /\ allocated' = {}
  /\ misfreed' = {}
  /\ up' = {}
  /\ launch' = [s \in Sessions |-> IF launch[s] \in Launching THEN "killed" ELSE launch[s]]
  /\ close' = [x \in Closers |->
       [close[x] EXCEPT !.at = IF @ \in Closing \cup {"cut"} THEN "killed" ELSE @]]
  /\ run' = [r \in Runs |-> [run[r] EXCEPT !.held = NoBrowser,
                                           !.at = IF @ \in Active THEN "killed" ELSE @]]
  /\ UNCHANGED <<port, faults>>

LaunchStep(s) ==
  \/ Create(s) \/ CreateWithoutPort(s) \/ Register(s) \/ SetAddress(s) \/ MarkRunning(s)
  \/ LaunchFails(s) \/ CloseLaunched(s)

CloseStep(x) ==
  Unregister(x) \/ QuitBrowser(x) \/ CloseRow(x) \/ Archive(x) \/ CloseRaises(x)

RunStep(r) ==
  \/ Begin(r) \/ BeginFails(r) \/ GetBrowser(r) \/ CreateBrowser(r)
  \/ RenewalCloses(r) \/ Leave(r) \/ Release(r) \/ ReleaseRaises(r) \/ Cancel(r)

Next ==
  \/ \E s \in Sessions : LaunchStep(s)
  \/ \E c \in Clients : ClientCloses(c)
  \/ \E x \in Closers : CloseStep(x)
  \/ \E r \in Runs : RunStep(r)
  \/ Crash

Spec == Init /\ [][Next]_vars

-----------------------------------------------------------------------------
(* Properties.                                                             *)

Rows == [status : {"none", "created", "running", "completed"},
         completedAt : {"null", "set"},
         addr : Ports \cup {NoPort}, runnable : Runs \cup {Nobody}]

Entries == [browser : Browsers \cup {NoBrowser}, port : Ports \cup {NoPort}]

\* Every variable keeps its type; a launch under way has a port of the range.
TypeOK ==
  /\ row \in [Sessions -> Rows]
  /\ entry \in [Sessions -> Entries]
  /\ allocated \subseteq Ports /\ misfreed \subseteq Ports
  /\ port \in [Sessions -> Ports \cup {NoPort}]
  /\ up \subseteq Browsers
  /\ launch \in [Sessions -> Launching \cup {"none", "launched", "failed", "killed"}]
  /\ close \in [Closers -> [at : Closing \cup {"none", "cut", "over", "killed"}, entry : Entries]]
  /\ run \in [Runs -> [at : Active \cup {"idle", "over", "stranded", "killed"},
                       held : Browsers \cup {NoBrowser}]]
  /\ faults \in Nat /\ crashes \in Nat /\ faults + crashes <= MaxMishaps
  /\ \A s \in Sessions :
       launch[s] \in {"allocated", "registered", "addressed"} => port[s] \in Ports

(***************************************************************************)
(* Two browsers never share a port, and none is launched on the port of    *)
(* another: the set covers a launch until its browser listens, the bind    *)
(* from then on. The one way around it is a port freed twice, the second   *)
(* time when somebody else was given it: by two overlapping closes of one  *)
(* session, or by closing a session whose failed launch gave it back.      *)
(***************************************************************************)
UsesPort(s) == launch[s] = "allocated" \/ s \in up

PortsApart ==
  \A s, o \in Sessions :
    s # o /\ UsesPort(s) /\ UsesPort(o) /\ port[s] = port[o] => port[s] \in misfreed

(***************************************************************************)
(* A session that the API lists as running has a browser that is alive and *)
(* registered, unless a close is, or was interrupted, between removing the *)
(* browser's entry and writing the row.                                    *)
(***************************************************************************)
RunningHasBrowser ==
  \A s \in Sessions : row[s].status = "running" /\ Open(s) =>
    \/ entry[s].browser \in up
    \/ \E x \in Closers : SessionOf[x] = s /\ close[x].at \in {"quit", "row", "cut"}

(***************************************************************************)
(* An open session says that it is occupied by a run only while that run   *)
(* is at work on it, or could not be cleaned up. (Runs overwrite and clear *)
(* the mark of one another; none may stay behind.)                         *)
(***************************************************************************)
OccupantIsActive ==
  \A s \in Sessions : \A r \in Runs : row[s].runnable = r /\ Open(s) =>
    SessionOf[r] = s /\ run[r].at \in Active \cup {"stranded"}

(***************************************************************************)
(* archive_browser_session_address: "the unique constraint no longer       *)
(* blocks new sessions that reuse the same local address". A launch that   *)
(* is about to write its address finds no closed session in its way.       *)
(***************************************************************************)
ClosedAddressIsFree ==
  \A s, o \in Sessions :
    launch[s] = "registered" /\ s # o /\ row[o].completedAt = "set" /\ row[o].addr = port[s] =>
      \E x \in Closers : SessionOf[x] = o /\ close[x].at \in Closing

=============================================================================
