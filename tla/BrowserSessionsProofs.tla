------------------------- MODULE BrowserSessionsProofs -------------------------
(***************************************************************************)
(* Proofs about BrowserSessions, for any sessions, runs, clients and port  *)
(* range and any number of mishaps. PortsApart is not inductive: it needs  *)
(* that a launch owns its port until the browser listens (unless somebody  *)
(* freed it), and that a session which has not been launched has neither a *)
(* browser nor an entry with a port that a close could free.               *)
(***************************************************************************)
EXTENDS BrowserSessions, TLAPS

LaunchHoldsPort ==
  \A s \in Sessions : launch[s] = "allocated" => port[s] \in allocated \cup misfreed

FreshHasNothing ==
  \A s \in Sessions : launch[s] \in {"none", "allocated"} =>
    /\ s \notin up
    /\ entry[s].port = NoPort
    /\ \A x \in Closers : SessionOf[x] = s => close[x].entry.port = NoPort

IInv == TypeOK /\ PortsApart /\ LaunchHoldsPort /\ FreshHasNothing

-----------------------------------------------------------------------------
(* Types.                                                                  *)

\* Freeing a port of the range leaves the pool well-typed.
LEMMA FreeTypes ==
  ASSUME TypeOK, NEW p \in Ports, NEW s \in Sessions, Free(p, s)
  PROVE  /\ allocated' \subseteq Ports /\ misfreed' \subseteq Ports
         /\ port' = port
  BY DEF TypeOK, Free

\* Every client and every run was given a session.
LEMMA CloserHasSession ==
  ASSUME NEW x \in Closers PROVE SessionOf[x] \in Sessions
  BY SessionsAssumption DEF Closers

\* What the writes of a row leave is a row.
LEMMA RowTypes ==
  ASSUME NEW r \in Rows
  PROVE  /\ \A v \in {"created", "running"} : [r EXCEPT !.status = v] \in Rows
         /\ \A a \in Ports \cup {NoPort} : [r EXCEPT !.addr = a] \in Rows
         /\ \A o \in Runs \cup {Nobody} : [r EXCEPT !.runnable = o] \in Rows
         /\ [r EXCEPT !.completedAt = "set", !.status = "completed"] \in Rows
         /\ [r EXCEPT !.completedAt = "set", !.status = "completed", !.addr = NoPort] \in Rows
  BY DEF Rows

LEMMA LaunchTypes ==
  ASSUME TypeOK, NEW s \in Sessions, LaunchStep(s) PROVE TypeOK'
  <1>0. row[s] \in Rows /\ row \in [Sessions -> Rows]
    BY DEF TypeOK
  <1>1. CASE Create(s)
    <2>1. row' \in [Sessions -> Rows]
      BY <1>1, <1>0, RowTypes DEF Create, NewRow
    <2> QED
      BY <1>1, <2>1 DEF TypeOK, Create, FreePorts, LaunchAt, mishaps, Launching
  <1>2. CASE CreateWithoutPort(s)
    <2>1. row' \in [Sessions -> Rows]
      BY <1>2, <1>0, RowTypes DEF CreateWithoutPort, NewRow
    <2> QED
      BY <1>2, <2>1 DEF TypeOK, CreateWithoutPort, LaunchAt, mishaps, pool, Launching
  <1>3. CASE Register(s)
    <2>1. [browser |-> s, port |-> port[s]] \in Entries
      BY <1>3 DEF TypeOK, Register, Entries, Browsers
    <2> QED
      BY <1>3, <2>1 DEF TypeOK, Register, LaunchAt, mishaps, pool, Launching, Browsers
  <1>4. CASE SetAddress(s)
    <2>1. row' \in [Sessions -> Rows]
      BY <1>4, <1>0, RowTypes DEF TypeOK, SetAddress
    <2> QED
      BY <1>4, <2>1 DEF TypeOK, SetAddress, LaunchAt, mishaps, pool, Launching
  <1>5. CASE MarkRunning(s)
    <2>1. row' \in [Sessions -> Rows]
      BY <1>5, <1>0, RowTypes DEF MarkRunning
    <2> QED
      BY <1>5, <2>1 DEF TypeOK, MarkRunning, LaunchAt, mishaps, pool, Launching
  <1>6. CASE LaunchFails(s)
    <2>1. port[s] \in Ports
      BY <1>6 DEF TypeOK, LaunchFails
    <2>2. allocated' \subseteq Ports /\ misfreed' \subseteq Ports /\ port' = port
      BY <1>6, <2>1, FreeTypes DEF LaunchFails
    <2>3. faults' \in Nat /\ crashes' \in Nat /\ faults' + crashes' <= MaxMishaps
      BY <1>6, SessionsAssumption DEF TypeOK, LaunchFails, Raises, mishaps
    <2> QED
      BY <1>6, <2>2, <2>3 DEF TypeOK, LaunchFails, LaunchAt, Launching
  <1>7. CASE CloseLaunched(s)
    BY <1>7 DEF TypeOK, CloseLaunched, LaunchAt, mishaps, pool, Launching
  <1> QED
    BY <1>1, <1>2, <1>3, <1>4, <1>5, <1>6, <1>7 DEF LaunchStep

\* The first stretch of a close.
LEMMA BeginCloseTypes ==
  ASSUME TypeOK, NEW x \in Closers, BeginClose(x) PROVE TypeOK'
  <1>1. entry[SessionOf[x]] \in Entries
    BY CloserHasSession DEF TypeOK
  <1>2. close' \in [Closers -> [at : Closing \cup {"none", "cut", "over", "killed"},
                                entry : Entries]]
    <2> DEFINE at == IF entry[SessionOf[x]] = NoEntry THEN "row" ELSE "export"
               Close == [at : Closing \cup {"none", "cut", "over", "killed"}, entry : Entries]
    <2>1. close' = [close EXCEPT ![x] = [close[x] EXCEPT !.at = at,
                                                         !.entry = entry[SessionOf[x]]]]
      BY DEF BeginClose
    <2>2. at \in Closing
      BY DEF Closing
    <2>3. close \in [Closers -> Close]
      BY DEF TypeOK
    <2> HIDE DEF at
    <2>4. [close[x] EXCEPT !.at = at, !.entry = entry[SessionOf[x]]] \in Close
      BY <1>1, <2>2, <2>3
    <2> QED
      BY <2>1, <2>3, <2>4
  <1> QED
    BY <1>2 DEF TypeOK, BeginClose, mishaps, pool

LEMMA CloseTypes ==
  ASSUME TypeOK, NEW x \in Closers, CloseStep(x) PROVE TypeOK'
  <1>0. SessionOf[x] \in Sessions
    BY CloserHasSession
  <1>1. CASE Unregister(x)
    <2>1. NoEntry \in Entries
      BY DEF NoEntry, Entries
    <2>2. /\ allocated' \subseteq Ports /\ misfreed' \subseteq Ports /\ port' = port
      <3>1. CASE close[x].entry.port = NoPort
        BY <1>1, <3>1 DEF TypeOK, Unregister, pool
      <3>2. CASE close[x].entry.port # NoPort
        <4>1. close[x].entry.port \in Ports
          BY <3>2 DEF TypeOK, Entries
        <4> QED
          BY <1>0, <1>1, <3>2, <4>1, FreeTypes DEF Unregister
      <3> QED
        BY <3>1, <3>2
    <2> QED
      BY <1>0, <1>1, <2>1, <2>2 DEF TypeOK, Unregister, CloseAt, Closing, mishaps
  <1>2. CASE QuitBrowser(x)
    <2>1. NoEntry \in Entries
      BY DEF NoEntry, Entries
    <2> QED
      BY <1>2, <2>1 DEF TypeOK, QuitBrowser, Closing, mishaps, pool
  <1>3. CASE CloseRow(x)
    <2>1. row' \in [Sessions -> Rows]
      BY <1>0, <1>3, RowTypes DEF TypeOK, CloseRow
    <2> QED
      BY <1>3, <2>1 DEF TypeOK, CloseRow, CloseAt, Closing, mishaps, pool
  <1>4. CASE Archive(x)
    <2>1. row' \in [Sessions -> Rows]
      BY <1>0, <1>4, RowTypes DEF TypeOK, Archive
    <2> QED
      BY <1>4, <2>1 DEF TypeOK, Archive, CloseAt, Closing, mishaps, pool
  <1>5. CASE CloseRaises(x)
    <2>1. faults' \in Nat /\ crashes' \in Nat /\ faults' + crashes' <= MaxMishaps
      BY <1>5, SessionsAssumption DEF TypeOK, CloseRaises, Raises
    <2> QED
      BY <1>5, <2>1 DEF TypeOK, CloseRaises, CloseAt, Interrupted, Closing, pool
  <1> QED
    BY <1>1, <1>2, <1>3, <1>4, <1>5 DEF CloseStep

LEMMA RunTypes ==
  ASSUME TypeOK, NEW r \in Runs, RunStep(r) PROVE TypeOK'
  <1>0. /\ r \in Closers /\ r \in Browsers /\ SessionOf[r] \in Sessions
        /\ row[SessionOf[r]] \in Rows
    BY CloserHasSession DEF Closers, Browsers, TypeOK
  <1>v. ASSUME Vacate(SessionOf[r]) PROVE row' \in [Sessions -> Rows]
    BY <1>0, <1>v, RowTypes DEF TypeOK, Vacate
  <1>1. CASE Begin(r)
    <2>1. row' \in [Sessions -> Rows]
      BY <1>0, <1>1, RowTypes DEF TypeOK, Begin
    <2> QED
      BY <1>1, <2>1 DEF TypeOK, Begin, RunAt, Active, mishaps, pool
  <1>2. CASE BeginFails(r)
    <2>1. faults' \in Nat /\ crashes' \in Nat /\ faults' + crashes' <= MaxMishaps
      BY <1>2, SessionsAssumption DEF TypeOK, BeginFails, Raises
    <2> QED
      BY <1>2, <2>1 DEF TypeOK, BeginFails, RunAt, Active, pool
  <1>3. CASE GetBrowser(r)
    <2>1. entry[SessionOf[r]].browser \in Browsers \cup {NoBrowser}
      BY <1>0 DEF TypeOK, Entries
    <2> QED
      BY <1>3, <2>1 DEF TypeOK, GetBrowser, RunAt, Active, mishaps, pool
  <1>4. CASE CreateBrowser(r)
    <2>1. [browser |-> r, port |-> NoPort] \in Entries
      BY <1>0 DEF Entries
    <2> QED
      BY <1>0, <1>4, <2>1 DEF TypeOK, CreateBrowser, Active, mishaps, pool
  <1>5. CASE RenewalCloses(r)
    BY <1>0, <1>5, BeginCloseTypes DEF RenewalCloses
  <1>6. CASE Leave(r)
    <2>1. close' \in [Closers -> [at : Closing \cup {"none", "cut", "over", "killed"},
                                  entry : Entries]]
      BY <1>0, <1>6 DEF TypeOK, Leave, CloseAt, Interrupted, Closing
    <2> QED
      BY <1>6, <2>1 DEF TypeOK, Leave, Active, mishaps, pool
  <1>7. CASE Release(r)
    BY <1>v, <1>7 DEF TypeOK, Release, RunAt, Active, mishaps, pool
  <1>8. CASE ReleaseRaises(r)
    <2>1. faults' \in Nat /\ crashes' \in Nat /\ faults' + crashes' <= MaxMishaps
      BY <1>8, SessionsAssumption DEF TypeOK, ReleaseRaises, Raises
    <2> QED
      BY <1>8, <2>1 DEF TypeOK, ReleaseRaises, RunAt, Active, pool
  <1>9. CASE Cancel(r)
    BY <1>v, <1>9 DEF TypeOK, Cancel, mishaps, pool
  <1> QED
    BY <1>1, <1>2, <1>3, <1>4, <1>5, <1>6, <1>7, <1>8, <1>9 DEF RunStep

LEMMA CrashTypes ==
  ASSUME TypeOK, Crash PROVE TypeOK'
  <1>1. row' \in [Sessions -> Rows]
    BY RowTypes DEF TypeOK, Crash, Swept
  <1>2. entry' \in [Sessions -> Entries]
    BY DEF Crash, NoEntry, Entries
  <1>3. /\ launch' \in [Sessions -> Launching \cup {"none", "launched", "failed", "killed"}]
        /\ \A s \in Sessions : launch'[s] \notin Launching
    BY DEF TypeOK, Crash, Launching
  <1>4. close' \in [Closers -> [at : Closing \cup {"none", "cut", "over", "killed"},
                                entry : Entries]]
    BY DEF TypeOK, Crash, Closing
  <1>5. run' \in [Runs -> [at : Active \cup {"idle", "over", "stranded", "killed"},
                           held : Browsers \cup {NoBrowser}]]
    BY DEF TypeOK, Crash, Active
  <1>6. faults' \in Nat /\ crashes' \in Nat /\ faults' + crashes' <= MaxMishaps
    <2>1. faults + crashes < MaxMishaps /\ crashes' = crashes + 1 /\ faults' = faults
      BY DEF Crash
    <2>2. faults \in Nat /\ crashes \in Nat /\ MaxMishaps \in Nat
      BY SessionsAssumption DEF TypeOK
    <2> QED
      BY <2>1, <2>2
  <1>7. /\ allocated' \subseteq Ports /\ misfreed' \subseteq Ports /\ up' \subseteq Browsers
        /\ port' \in [Sessions -> Ports \cup {NoPort}]
    BY DEF TypeOK, Crash
  <1>8. \A s \in Sessions : launch'[s] \notin {"allocated", "registered", "addressed"}
    BY <1>3 DEF Launching
  <1> QED
    BY <1>1, <1>2, <1>3, <1>4, <1>5, <1>6, <1>7, <1>8 DEF TypeOK

-----------------------------------------------------------------------------
(* The invariant.                                                          *)

LEMMA InitIInv == Init => IInv
  <1> SUFFICES ASSUME Init PROVE IInv
    OBVIOUS
  <1>1. NoRow \in Rows /\ NoEntry \in Entries /\ NoEntry.port = NoPort
    BY DEF NoRow, Rows, NoEntry, Entries
  <1>2. TypeOK
    <2>1. 0 \in Nat /\ 0 + 0 <= MaxMishaps
      BY SessionsAssumption
    <2>2. close \in [Closers -> [at : Closing \cup {"none", "cut", "over", "killed"},
                                 entry : Entries]]
      BY <1>1 DEF Init
    <2>3. run \in [Runs -> [at : Active \cup {"idle", "over", "stranded", "killed"},
                            held : Browsers \cup {NoBrowser}]]
      BY DEF Init
    <2> QED
      BY <1>1, <2>1, <2>2, <2>3 DEF Init, TypeOK, Launching
  <1>3. PortsApart /\ LaunchHoldsPort
    BY DEF Init, PortsApart, UsesPort, LaunchHoldsPort
  <1>4. FreshHasNothing
    BY <1>1 DEF Init, FreshHasNothing
  <1> QED
    BY <1>2, <1>3, <1>4 DEF IInv

\* A step that starts no launch, brings up no session's browser, frees no port
\* and gives no entry or close a port keeps the invariant.
LEMMA QuietStep ==
  ASSUME IInv, TypeOK', UNCHANGED pool,
         up' \cap Sessions \subseteq up,
         \A s \in Sessions :
           /\ launch'[s] = launch[s] \/ launch'[s] \notin {"none", "allocated"}
           /\ entry'[s].port \in {entry[s].port, NoPort},
         \A x \in Closers : close'[x].entry.port \in
           {close[x].entry.port, entry[SessionOf[x]].port, NoPort}
  PROVE  IInv'
  <1>1. PortsApart'
    BY DEF IInv, PortsApart, UsesPort, pool
  <1>2. LaunchHoldsPort'
    BY DEF IInv, LaunchHoldsPort, pool
  <1>3. FreshHasNothing'
    BY DEF IInv, FreshHasNothing
  <1> QED
    BY <1>1, <1>2, <1>3 DEF IInv

\* Freeing a port on behalf of a session that is not about to bind it: whoever
\* else is about to bind it is recorded in misfreed.
LEMMA FreeStep ==
  ASSUME IInv, TypeOK', NEW p \in Ports, NEW s \in Sessions, Free(p, s),
         launch'[s] \notin {"none", "allocated"},
         \A o \in Sessions \ {s} : launch'[o] = launch[o],
         UNCHANGED up,
         launch[s] = "allocated" \/ launch'[s] = launch[s] \/ launch[s] # "none",
         \A o \in Sessions : entry'[o].port \in {entry[o].port, NoPort},
         \A x \in Closers : close'[x].entry.port = close[x].entry.port
  PROVE  IInv'
  <1>1. misfreed \subseteq misfreed' /\ port' = port
    BY DEF Free
  <1>2. PortsApart'
    BY <1>1 DEF IInv, PortsApart, UsesPort
  <1>3. LaunchHoldsPort'
    <2> SUFFICES ASSUME NEW o \in Sessions, launch'[o] = "allocated"
                 PROVE  port'[o] \in allocated' \cup misfreed'
      BY DEF LaunchHoldsPort
    <2>1. o # s /\ launch[o] = "allocated"
      OBVIOUS
    <2>2. port[o] \in allocated \cup misfreed
      BY <2>1 DEF IInv, LaunchHoldsPort
    <2> QED
      BY <1>1, <2>1, <2>2 DEF Free
  <1>4. FreshHasNothing'
    BY DEF IInv, FreshHasNothing
  <1> QED
    BY <1>2, <1>3, <1>4 DEF IInv

LEMMA CreateIInv ==
  ASSUME IInv, NEW s \in Sessions, Create(s) PROVE IInv'
  <1>1. TypeOK'
    BY LaunchTypes DEF IInv, LaunchStep
  <1>2. PICK p \in FreePorts : allocated' = allocated \cup {p} /\ port' = [port EXCEPT ![s] = p]
    BY DEF Create
  <1>3. /\ launch[s] = "none" /\ launch' = [launch EXCEPT ![s] = "allocated"]
        /\ UNCHANGED <<entry, up, close, misfreed>>
    BY DEF Create, LaunchAt
  <1>4. /\ port'[s] = p /\ launch'[s] = "allocated"
        /\ \A o \in Sessions \ {s} : port'[o] = port[o] /\ launch'[o] = launch[o]
    BY <1>2, <1>3 DEF IInv, TypeOK
  <1>5. \A o \in Sessions \ {s} : UsesPort(o) /\ port[o] = p => p \in misfreed
    BY <1>2 DEF IInv, LaunchHoldsPort, FreePorts, Listening, UsesPort
  <1>6. s \notin up
    BY <1>3 DEF IInv, FreshHasNothing
  <1>7. PortsApart'
    BY <1>3, <1>4, <1>5 DEF IInv, PortsApart, UsesPort
  <1>8. LaunchHoldsPort'
    BY <1>2, <1>3, <1>4 DEF IInv, LaunchHoldsPort
  <1>9. FreshHasNothing'
    BY <1>3, <1>4 DEF IInv, FreshHasNothing
  <1> QED
    BY <1>1, <1>7, <1>8, <1>9 DEF IInv

LEMMA LaunchIInv ==
  ASSUME IInv, NEW s \in Sessions, LaunchStep(s) PROVE IInv'
  <1>0. TypeOK /\ TypeOK'
    BY LaunchTypes DEF IInv
  <1>1. CASE Create(s)
    BY <1>1, CreateIInv
  <1>2. CASE CreateWithoutPort(s)
    BY <1>0, <1>2, QuietStep DEF CreateWithoutPort, LaunchAt, TypeOK
  <1>3. CASE Register(s)
    <2>1. /\ launch[s] = "allocated" /\ launch' = [launch EXCEPT ![s] = "registered"]
          /\ up' = up \cup {s} /\ UNCHANGED <<pool, close>>
          /\ entry' = [entry EXCEPT ![s] = [browser |-> s, port |-> port[s]]]
      BY <1>3 DEF Register, LaunchAt
    <2>2. \A o \in Sessions : /\ o # s => launch'[o] = launch[o] /\ entry'[o] = entry[o]
                              /\ UsesPort(o)' => UsesPort(o)
      BY <1>0, <2>1 DEF TypeOK, UsesPort
    <2>3. launch'[s] = "registered"
      BY <1>0, <2>1 DEF TypeOK
    <2>4. PortsApart'
      BY <2>1, <2>2 DEF IInv, PortsApart, pool
    <2>5. LaunchHoldsPort'
      BY <2>1, <2>2, <2>3 DEF IInv, LaunchHoldsPort, pool
    <2>6. FreshHasNothing'
      BY <2>1, <2>2, <2>3 DEF IInv, FreshHasNothing
    <2> QED
      BY <1>0, <2>4, <2>5, <2>6 DEF IInv
  <1>4. CASE SetAddress(s)
    BY <1>0, <1>4, QuietStep DEF SetAddress, LaunchAt, TypeOK
  <1>5. CASE MarkRunning(s)
    BY <1>0, <1>5, QuietStep DEF MarkRunning, LaunchAt, TypeOK
  <1>6. CASE LaunchFails(s)
    <2>1. port[s] \in Ports
      BY <1>0, <1>6 DEF TypeOK, LaunchFails
    <2>2. launch'[s] = "failing" /\ \A o \in Sessions \ {s} : launch'[o] = launch[o]
      BY <1>0, <1>6 DEF TypeOK, LaunchFails, LaunchAt
    <2> QED
      BY <1>0, <1>6, <2>1, <2>2, FreeStep DEF LaunchFails
  <1>7. CASE CloseLaunched(s)
    BY <1>0, <1>7, QuietStep DEF CloseLaunched, LaunchAt, TypeOK
  <1> QED
    BY <1>1, <1>2, <1>3, <1>4, <1>5, <1>6, <1>7 DEF LaunchStep

LEMMA BeginCloseIInv ==
  ASSUME IInv, NEW x \in Closers, BeginClose(x) PROVE IInv'
  <1>1. TypeOK /\ TypeOK'
    BY BeginCloseTypes DEF IInv
  <1>2. \A y \in Closers : close'[y].entry \in {close[y].entry, entry[SessionOf[y]]}
    BY <1>1 DEF TypeOK, BeginClose
  <1> QED
    BY <1>1, <1>2, QuietStep DEF BeginClose

LEMMA CloseIInv ==
  ASSUME IInv, NEW x \in Closers, CloseStep(x) PROVE IInv'
  <1>0. TypeOK /\ TypeOK' /\ SessionOf[x] \in Sessions
    BY CloseTypes, CloserHasSession DEF IInv
  <1>n. NoEntry.port = NoPort
    BY DEF NoEntry
  <1>1. CASE Unregister(x)
    <2>1. /\ \A o \in Sessions : entry'[o] \in {entry[o], NoEntry}
          /\ \A y \in Closers : close'[y].entry = close[y].entry
      BY <1>0, <1>1 DEF TypeOK, Unregister, CloseAt
    <2>2. CASE close[x].entry.port = NoPort
      BY <1>0, <1>1, <1>n, <2>1, <2>2, QuietStep DEF Unregister
    <2>3. CASE close[x].entry.port # NoPort
      <3>1. close[x].entry.port \in Ports
        BY <1>0, <2>3 DEF TypeOK, Entries
      <3>2. launch[SessionOf[x]] \notin {"none", "allocated"}
        BY <1>0, <2>3 DEF IInv, FreshHasNothing
      <3> QED
        BY <1>0, <1>1, <1>n, <2>1, <2>3, <3>1, <3>2, FreeStep DEF Unregister
    <2> QED
      BY <2>2, <2>3
  <1>2. CASE QuitBrowser(x)
    <2>1. \A y \in Closers : close'[y].entry \in {close[y].entry, NoEntry}
      BY <1>0, <1>2 DEF TypeOK, QuitBrowser
    <2> QED
      BY <1>0, <1>2, <1>n, <2>1, QuietStep DEF QuitBrowser
  <1>3. CASE CloseRow(x)
    BY <1>0, <1>3, QuietStep DEF TypeOK, CloseRow, CloseAt
  <1>4. CASE Archive(x)
    BY <1>0, <1>4, QuietStep DEF TypeOK, Archive, CloseAt
  <1>5. CASE CloseRaises(x)
    BY <1>0, <1>5, QuietStep DEF TypeOK, CloseRaises, CloseAt
  <1> QED
    BY <1>1, <1>2, <1>3, <1>4, <1>5 DEF CloseStep

LEMMA RunIInv ==
  ASSUME IInv, NEW r \in Runs, RunStep(r) PROVE IInv'
  <1>0. TypeOK /\ TypeOK' /\ r \in Closers
    BY RunTypes DEF IInv, Closers
  <1>1. CASE RenewalCloses(r)
    BY <1>0, <1>1, BeginCloseIInv DEF RenewalCloses
  <1>2. CASE CreateBrowser(r)
    <2>1. r \notin Sessions
      BY SessionsAssumption
    <2>2. \A o \in Sessions : entry'[o] \in {entry[o], [browser |-> r, port |-> NoPort]}
      BY <1>0, <1>2 DEF TypeOK, CreateBrowser
    <2> QED
      BY <1>0, <1>2, <2>1, <2>2, QuietStep DEF CreateBrowser
  <1>3. CASE Leave(r)
    BY <1>0, <1>3, QuietStep DEF TypeOK, Leave, CloseAt
  <1>4. CASE Begin(r) \/ BeginFails(r) \/ GetBrowser(r) \/ Release(r) \/ ReleaseRaises(r)
               \/ Cancel(r)
    <2>1. UNCHANGED <<entry, pool, up, launch, close>>
      BY <1>4 DEF Begin, BeginFails, GetBrowser, Release, ReleaseRaises, Cancel
    <2> QED
      BY <1>0, <2>1, QuietStep
  <1> QED
    BY <1>1, <1>2, <1>3, <1>4 DEF RunStep

LEMMA CrashIInv == ASSUME IInv, Crash PROVE IInv'
  <1>1. TypeOK /\ TypeOK'
    BY CrashTypes DEF IInv
  <1>2. /\ up' = {} /\ NoEntry.port = NoPort
        /\ \A s \in Sessions :
             /\ launch'[s] # "allocated" /\ entry'[s] = NoEntry
             /\ launch'[s] = "none" => launch[s] = "none"
        /\ \A x \in Closers : close'[x].entry = close[x].entry
    <2>1. up' = {} /\ NoEntry.port = NoPort
      BY DEF Crash, NoEntry
    <2>2. \A s \in Sessions : entry'[s] = NoEntry
      BY DEF Crash
    <2>3. \A s \in Sessions : /\ launch'[s] # "allocated"
                              /\ launch'[s] = "none" => launch[s] = "none"
      <3>1. launch' = [s \in Sessions |-> IF launch[s] \in Launching THEN "killed" ELSE launch[s]]
        BY DEF Crash
      <3> QED
        BY <3>1 DEF Launching
    <2>4. \A x \in Closers : close'[x].entry = close[x].entry
      <3>1. close' = [x \in Closers |->
              [close[x] EXCEPT !.at = IF @ \in Closing \cup {"cut"} THEN "killed" ELSE @]]
        BY DEF Crash
      <3>2. close \in [Closers -> [at : Closing \cup {"none", "cut", "over", "killed"},
                                   entry : Entries]]
        BY <1>1 DEF TypeOK
      <3> QED
        BY <3>1, <3>2
    <2> QED
      BY <2>1, <2>2, <2>3, <2>4
  <1>3. PortsApart' /\ LaunchHoldsPort'
    BY <1>2 DEF PortsApart, UsesPort, LaunchHoldsPort
  <1>4. FreshHasNothing'
    BY <1>2 DEF IInv, FreshHasNothing
  <1> QED
    BY <1>1, <1>3, <1>4 DEF IInv

\* Every step of the sessions keeps the invariant.
THEOREM SessionsInvariant == Spec => []IInv
  <1>1. ASSUME IInv, [Next]_vars PROVE IInv'
    <2>1. CASE \E s \in Sessions : LaunchStep(s)
      BY <1>1, <2>1, LaunchIInv
    <2>2. CASE \E c \in Clients : ClientCloses(c)
      BY <1>1, <2>2, BeginCloseIInv DEF ClientCloses, Closers
    <2>3. CASE \E x \in Closers : CloseStep(x)
      BY <1>1, <2>3, CloseIInv
    <2>4. CASE \E r \in Runs : RunStep(r)
      BY <1>1, <2>4, RunIInv
    <2>5. CASE Crash
      BY <1>1, <2>5, CrashIInv
    <2>6. CASE UNCHANGED vars
      <3>1. TypeOK'
        BY <1>1, <2>6 DEF IInv, TypeOK, vars
      <3>2. UNCHANGED <<entry, pool, up, launch, close>>
        BY <2>6 DEF vars, pool
      <3> QED
        BY <1>1, <3>1, <3>2, QuietStep
    <2> QED
      BY <1>1, <2>1, <2>2, <2>3, <2>4, <2>5, <2>6 DEF Next
  <1> QED
    BY InitIInv, <1>1, PTL DEF Spec

\* Every variable keeps its type (default_persistent_sessions_manager.py).
THEOREM SessionsTypes == Spec => []TypeOK
  BY SessionsInvariant, PTL DEF IInv

\* Two browsers share a port only after it was freed twice, whatever launches,
\* closes, renewals, runs, failures and kills do in between (cdp_ports.py).
THEOREM PortsStayApart == Spec => []PortsApart
  BY SessionsInvariant, PTL DEF IInv

=============================================================================
