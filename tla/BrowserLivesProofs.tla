--------------------------- MODULE BrowserLivesProofs ---------------------------
(***************************************************************************)
(* Proofs about BrowserSessions in a local installation, where a restart   *)
(* closes every open row: a session listed as running has a living browser *)
(* and a session listed as occupied has a run at work on it.               *)
(*                                                                         *)
(* Neither is inductive. The first needs to know whose the browsers are:   *)
(* an entry, and what a close keeps of one, names the browser of the       *)
(* session or of a run on it; a browser that has not been started is named *)
(* nowhere; a registered browser is alive unless its launch has failed;    *)
(* and a close that is about to quit a browser no longer has it            *)
(* registered. The second needs that a row nobody has written yet is free. *)
(***************************************************************************)
EXTENDS BrowserSessionsProofs

OwnedBy(b, s) == b = s \/ (b \in Runs /\ SessionOf[b] = s)

\* What is registered, or kept by a close, belongs to the session.
Owned ==
  /\ \A s \in Sessions : entry[s] = NoEntry \/ OwnedBy(entry[s].browser, s)
  /\ \A x \in Closers : close[x].entry = NoEntry \/ OwnedBy(close[x].entry.browser, SessionOf[x])

Named(b) ==
  \/ \E s \in Sessions : entry[s].browser = b
  \/ \E x \in Closers : close[x].entry.browser = b

NewLaunch(s) == launch[s] \in {"none", "allocated"}
NewRun(r) == run[r].at \in {"idle", "begun", "creating"}

\* A browser that has not been started is named nowhere.
UnstartedUnnamed ==
  /\ \A s \in Sessions : NewLaunch(s) => ~Named(s)
  /\ \A r \in Runs : NewRun(r) => ~Named(r)

\* A registered browser is alive unless its launch has failed.
RegisteredAlive ==
  \A s \in Sessions :
    entry[s] = NoEntry \/ entry[s].browser \in up \/ launch[s] \in {"failing", "failed"}

\* A browser that a close is about to quit is not registered any more.
QuitUnregistered ==
  \A x \in Closers : close[x].at = "quit" =>
    \/ entry[SessionOf[x]] = NoEntry
    \/ entry[SessionOf[x]].browser # close[x].entry.browser

\* A close has removed the entry of s and not yet written the row.
Parted(s) == \E x \in Closers : SessionOf[x] = s /\ close[x].at \in {"quit", "row", "cut"}

Registered(s) == launch[s] \in {"registered", "addressed", "launched"}

OpenHasEntry ==
  \A s \in Sessions : Registered(s) /\ Open(s) => entry[s] # NoEntry \/ Parted(s)

Running(s) == row[s].status = "running" /\ Open(s)

RunningIsLaunched == \A s \in Sessions : Running(s) => launch[s] = "launched"

UnwrittenIsFree ==
  \A s \in Sessions : ~Exists(s) => launch[s] = "none" /\ row[s].runnable = Nobody

Working(r) == run[r].at \in Active \cup {"stranded"}

LInv ==
  /\ TypeOK /\ Owned /\ UnstartedUnnamed /\ RegisteredAlive /\ QuitUnregistered
  /\ OpenHasEntry /\ RunningIsLaunched /\ UnwrittenIsFree /\ OccupantIsActive

-----------------------------------------------------------------------------
(* What keeps each part.                                                   *)

\* Nothing is registered anew, and no close comes to quit a browser.
LEMMA NamesKept ==
  ASSUME LInv, UNCHANGED entry,
         \A x \in Closers : close'[x].entry \in {close[x].entry, entry[SessionOf[x]], NoEntry},
         \A x \in Closers : close'[x].at = "quit" =>
           close[x].at = "quit" /\ close'[x].entry = close[x].entry,
         \A s \in Sessions : NewLaunch(s)' => NewLaunch(s),
         \A r \in Runs : NewRun(r)' => NewRun(r)
  PROVE  Owned' /\ UnstartedUnnamed' /\ QuitUnregistered'
  <1>1. Owned'
    BY CloserHasSession DEF LInv, Owned
  <1>2. ASSUME NEW b \in Browsers, ~Named(b) PROVE ~Named(b)'
    <2>1. NoEntry.browser # b
      BY SessionsAssumption DEF NoEntry
    <2> QED
      BY <1>2, <2>1, CloserHasSession DEF Named
  <1>3. UnstartedUnnamed'
    BY <1>2 DEF LInv, UnstartedUnnamed, Browsers
  <1>4. QuitUnregistered'
    BY DEF LInv, QuitUnregistered
  <1> QED
    BY <1>1, <1>3, <1>4

\* Nobody is marked as the occupant, and the runs at work stay at work.
LEMMA OccupancyKept ==
  ASSUME LInv,
         \A s \in Sessions :
           /\ row'[s].runnable \in {row[s].runnable, Nobody}
           /\ Exists(s) => Exists(s)'
           /\ launch'[s] = launch[s] \/ Exists(s)'
           /\ row'[s].completedAt = "null" => row[s].completedAt = "null",
         \A r \in Runs : Working(r) => Working(r)'
  PROVE  UnwrittenIsFree' /\ OccupantIsActive'
  <1>1. UnwrittenIsFree'
    BY DEF LInv, UnwrittenIsFree
  <1>2. OccupantIsActive'
    <2> SUFFICES ASSUME NEW s \in Sessions, NEW r \in Runs, row'[s].runnable = r, Open(s)'
                 PROVE  SessionOf[r] = s /\ Working(r)'
      BY DEF OccupantIsActive, Working
    <2>1. row[s].runnable = r /\ r # Nobody
      BY SessionsAssumption
    <2>2. Open(s)
      BY <2>1 DEF LInv, UnwrittenIsFree, Open
    <2>3. SessionOf[r] = s /\ Working(r)
      BY <2>1, <2>2 DEF LInv, OccupantIsActive, Working
    <2> QED
      BY <2>3
  <1> QED
    BY <1>1, <1>2

\* Entries stay, or go to a close that has still to write the row.
LEMMA EntriesKept ==
  ASSUME LInv,
         \A s \in Sessions : Registered(s)' /\ Open(s)' =>
           /\ Registered(s) /\ Open(s)
           /\ entry[s] # NoEntry => entry'[s] # NoEntry \/ Parted(s)'
           /\ Parted(s) => entry'[s] # NoEntry \/ Parted(s)'
  PROVE  OpenHasEntry'
  BY DEF LInv, OpenHasEntry

\* Whatever is running was launched.
LEMMA RunningKept ==
  ASSUME LInv,
         \A s \in Sessions : Running(s)' => Running(s) \/ launch'[s] = "launched",
         \A s \in Sessions : launch[s] = "launched" => launch'[s] = "launched"
  PROVE  RunningIsLaunched'
  BY DEF LInv, RunningIsLaunched

-----------------------------------------------------------------------------
(* The steps.                                                              *)

\* What a launch changes beside its registration.
LEMMA LaunchFacts ==
  ASSUME LInv, NEW s \in Sessions, LaunchStep(s), ~Register(s)
  PROVE  /\ UNCHANGED <<entry, close, run>>
         /\ \A o \in Sessions :
              /\ NewLaunch(o)' => NewLaunch(o)
              /\ launch[o] = "launched" => launch'[o] = "launched"
              /\ launch[o] \in {"failing", "failed"} => launch'[o] \in {"failing", "failed"}
              /\ row'[o].runnable = row[o].runnable /\ row'[o].completedAt = row[o].completedAt
              /\ Exists(o) => Exists(o)'
              /\ launch'[o] = launch[o] \/ Exists(o)'
              /\ Running(o)' => Running(o) \/ launch'[o] = "launched"
              /\ Registered(o)' /\ Open(o)' => Registered(o) /\ Open(o)
         /\ up' = up \/ (up' = up \ {s} /\ launch'[s] = "failed")
  <1>0. TypeOK /\ row \in [Sessions -> Rows]
        /\ launch \in [Sessions -> Launching \cup {"none", "launched", "failed", "killed"}]
    BY DEF LInv, TypeOK
  <1>e. launch[s] # "none" => Exists(s)
    BY DEF LInv, UnwrittenIsFree
  <1>1. ASSUME NEW st \in {"created", "running"},
               row' = [row EXCEPT ![s].status = st], launch'[s] = "launched" \/ st = "created"
        PROVE  \A o \in Sessions :
                 /\ row'[o].runnable = row[o].runnable /\ row'[o].completedAt = row[o].completedAt
                 /\ Exists(o)' => Exists(o) \/ o = s
                 /\ Exists(o) => Exists(o)'
                 /\ o = s => Exists(o)'
                 /\ Running(o)' => Running(o) \/ launch'[o] = "launched"
    <2>1. \A o \in Sessions :
            /\ row'[o].runnable = row[o].runnable /\ row'[o].completedAt = row[o].completedAt
            /\ IF o = s THEN row'[o].status = st ELSE row'[o].status = row[o].status
      BY <1>0, <1>1 DEF Rows
    <2> QED
      BY <1>1, <2>1 DEF Exists, Running, Open
  <1>2. CASE Create(s) \/ CreateWithoutPort(s)
    <2>1. PICK at \in {"allocated", "failed"} : launch' = [launch EXCEPT ![s] = at]
      BY <1>2 DEF Create, CreateWithoutPort, LaunchAt
    <2>2. /\ launch[s] = "none" /\ row' = [row EXCEPT ![s].status = "created"]
          /\ UNCHANGED <<entry, close, run, up>>
      BY <1>2 DEF Create, CreateWithoutPort, NewRow
    <2>3. launch'[s] = at /\ ~Registered(s)'
      BY <1>0, <2>1 DEF Registered
    <2>4. \A o \in Sessions :
            /\ NewLaunch(o)' => NewLaunch(o)
            /\ launch[o] = "launched" => launch'[o] = "launched"
            /\ launch[o] \in {"failing", "failed"} => launch'[o] \in {"failing", "failed"}
            /\ launch'[o] = launch[o] \/ o = s
      BY <1>0, <2>1, <2>2 DEF NewLaunch
    <2>5. \A o \in Sessions :
            /\ row'[o].runnable = row[o].runnable /\ row'[o].completedAt = row[o].completedAt
            /\ Exists(o)' => Exists(o) \/ o = s
            /\ Exists(o) => Exists(o)'
            /\ o = s => Exists(o)'
            /\ Running(o)' => Running(o) \/ launch'[o] = "launched"
      BY <1>1, <2>2
    <2>6. \A o \in Sessions : Registered(o)' => Registered(o) /\ o # s
      BY <1>0, <2>1, <2>3 DEF Registered
    <2> QED
      BY <2>2, <2>4, <2>5, <2>6 DEF Open
  <1>3. CASE SetAddress(s)
    <2>1. /\ launch[s] = "registered" /\ launch' = [launch EXCEPT ![s] = "addressed"]
          /\ row' = [row EXCEPT ![s].addr = port[s]] /\ UNCHANGED <<entry, close, run, up>>
      BY <1>3 DEF SetAddress, LaunchAt
    <2>2. \A o \in Sessions : /\ row'[o].runnable = row[o].runnable
                              /\ row'[o].completedAt = row[o].completedAt
                              /\ row'[o].status = row[o].status
      BY <1>0, <2>1 DEF Rows
    <2>3. \A o \in Sessions : (Exists(o)' <=> Exists(o)) /\ (Open(o)' <=> Open(o))
                              /\ (Running(o)' <=> Running(o))
      BY <2>2 DEF Exists, Open, Running
    <2>4. \A o \in Sessions :
            /\ NewLaunch(o)' => NewLaunch(o)
            /\ launch[o] = "launched" => launch'[o] = "launched"
            /\ launch[o] \in {"failing", "failed"} => launch'[o] \in {"failing", "failed"}
            /\ launch'[o] = launch[o] \/ o = s
      BY <1>0, <2>1 DEF NewLaunch
    <2>5. \A o \in Sessions : Registered(o)' => Registered(o)
      BY <1>0, <2>1 DEF Registered
    <2> QED
      BY <1>e, <2>1, <2>2, <2>3, <2>4, <2>5
  <1>4. CASE MarkRunning(s)
    <2>1. /\ launch[s] = "addressed" /\ launch' = [launch EXCEPT ![s] = "launched"]
          /\ row' = [row EXCEPT ![s].status = "running"] /\ UNCHANGED <<entry, close, run, up>>
      BY <1>4 DEF MarkRunning, LaunchAt
    <2>2. launch'[s] = "launched"
      BY <1>0, <2>1
    <2>3. \A o \in Sessions : Registered(o)' => Registered(o)
      BY <1>0, <2>1 DEF Registered
    <2>4. Exists(s)
      BY <1>e, <2>1
    <2>5. \A o \in Sessions :
            /\ NewLaunch(o)' => NewLaunch(o)
            /\ launch[o] = "launched" => launch'[o] = "launched"
            /\ launch[o] \in {"failing", "failed"} => launch'[o] \in {"failing", "failed"}
            /\ launch'[o] = launch[o] \/ o = s
      BY <1>0, <2>1 DEF NewLaunch
    <2>6. \A o \in Sessions :
            /\ row'[o].runnable = row[o].runnable /\ row'[o].completedAt = row[o].completedAt
            /\ Exists(o)' => Exists(o) \/ o = s
            /\ Exists(o) => Exists(o)'
            /\ o = s => Exists(o)'
            /\ Running(o)' => Running(o) \/ launch'[o] = "launched"
      BY <1>1, <2>1, <2>2
    <2> QED
      BY <2>1, <2>3, <2>4, <2>5, <2>6 DEF Open
  <1>5. CASE LaunchFails(s) \/ CloseLaunched(s)
    <2>1. PICK at \in {"failing", "failed"} :
            /\ launch' = [launch EXCEPT ![s] = at]
            /\ launch[s] \in {"allocated", "registered", "addressed", "failing"}
            /\ launch[s] = "failing" => at = "failed"
            /\ up' = up \/ (up' = up \ {s} /\ at = "failed")
      BY <1>5 DEF LaunchFails, CloseLaunched, LaunchAt
    <2>2. UNCHANGED <<row, entry, close, run>>
      BY <1>5 DEF LaunchFails, CloseLaunched
    <2>3. \A o \in Sessions :
            /\ NewLaunch(o)' => NewLaunch(o)
            /\ launch[o] = "launched" => launch'[o] = "launched"
            /\ launch[o] \in {"failing", "failed"} => launch'[o] \in {"failing", "failed"}
            /\ launch'[o] = launch[o] \/ o = s
      BY <1>0, <2>1 DEF NewLaunch
    <2>4. /\ launch'[s] = at
          /\ \A o \in Sessions : Registered(o)' => Registered(o)
      BY <1>0, <2>1 DEF Registered
    <2> QED
      BY <1>e, <2>1, <2>2, <2>3, <2>4 DEF Exists, Running, Open
  <1> QED
    BY <1>2, <1>3, <1>4, <1>5 DEF LaunchStep

LEMMA LaunchLives ==
  ASSUME LInv, NEW s \in Sessions, LaunchStep(s) PROVE LInv'
  <1>0. TypeOK /\ TypeOK'
    BY LaunchTypes DEF LInv
  <1>1. CASE ~Register(s)
    <2>1. Owned' /\ UnstartedUnnamed' /\ QuitUnregistered'
      BY <1>1, LaunchFacts, NamesKept DEF NewRun
    <2>2. UnwrittenIsFree' /\ OccupantIsActive'
      BY <1>1, LaunchFacts, OccupancyKept DEF Working
    <2>3. OpenHasEntry'
      BY <1>1, LaunchFacts, EntriesKept DEF Parted
    <2>4. RunningIsLaunched'
      BY <1>1, LaunchFacts, RunningKept
    <2>5. RegisteredAlive'
      <3> SUFFICES ASSUME NEW o \in Sessions, entry[o] # NoEntry,
                          launch'[o] \notin {"failing", "failed"}
                   PROVE  entry[o].browser \in up'
        BY <1>1, LaunchFacts DEF RegisteredAlive
      <3>1. entry[o].browser \in up /\ OwnedBy(entry[o].browser, o)
        BY <1>1, LaunchFacts DEF LInv, RegisteredAlive, Owned
      <3>2. launch'[s] = "failed" => entry[o].browser # s
        BY <3>1, SessionsAssumption DEF OwnedBy
      <3> QED
        BY <1>1, <3>1, <3>2, LaunchFacts
    <2> QED
      BY <1>0, <2>1, <2>2, <2>3, <2>4, <2>5 DEF LInv
  <1>2. CASE Register(s)
    <2>1. /\ launch[s] = "allocated" /\ launch'[s] = "registered"
          /\ \A o \in Sessions \ {s} : launch'[o] = launch[o] /\ entry'[o] = entry[o]
          /\ entry'[s] # NoEntry /\ entry'[s].browser = s
          /\ up' = up \cup {s} /\ UNCHANGED <<row, close, run>>
      <3>1. /\ launch[s] = "allocated" /\ launch' = [launch EXCEPT ![s] = "registered"]
            /\ entry' = [entry EXCEPT ![s] = [browser |-> s, port |-> port[s]]]
            /\ up' = up \cup {s} /\ UNCHANGED <<row, close, run>>
        BY <1>2 DEF Register, LaunchAt
      <3>2. /\ launch'[s] = "registered" /\ entry'[s] = [browser |-> s, port |-> port[s]]
            /\ \A o \in Sessions \ {s} : launch'[o] = launch[o] /\ entry'[o] = entry[o]
        BY <1>0, <3>1 DEF TypeOK
      <3>3. entry'[s].browser = s /\ NoEntry.browser # s
        BY <3>2, SessionsAssumption DEF NoEntry, Browsers
      <3> QED
        BY <3>1, <3>2, <3>3
    <2>2. ~Named(s)
      BY <2>1 DEF LInv, UnstartedUnnamed, NewLaunch
    <2>3. Owned'
      BY <2>1 DEF LInv, Owned, OwnedBy
    <2>4. UnstartedUnnamed'
      <3>1. \A b \in Browsers \ {s} : Named(b)' => Named(b)
        BY <2>1 DEF Named
      <3>2. \A o \in Sessions : NewLaunch(o)' => o # s /\ NewLaunch(o)
        BY <2>1 DEF NewLaunch
      <3>3. \A r \in Runs : r # s /\ (NewRun(r)' => NewRun(r))
        BY <2>1, SessionsAssumption DEF NewRun
      <3> QED
        BY <3>1, <3>2, <3>3 DEF LInv, UnstartedUnnamed, Browsers
    <2>5. RegisteredAlive'
      BY <2>1 DEF LInv, RegisteredAlive
    <2>6. QuitUnregistered'
      <3>1. \A x \in Closers : close[x].entry.browser # s
        BY <2>2 DEF Named
      <3> QED
        BY <2>1, <3>1, CloserHasSession DEF LInv, QuitUnregistered
    <2>7. OpenHasEntry'
      BY <2>1 DEF LInv, OpenHasEntry, Registered, Parted, Open, Exists
    <2>8. RunningIsLaunched'
      BY <2>1 DEF LInv, RunningIsLaunched, Running, Open, Exists
    <2>9. UnwrittenIsFree' /\ OccupantIsActive'
      <3>1. Exists(s)
        BY <2>1 DEF LInv, UnwrittenIsFree
      <3> QED
        BY <2>1, <3>1, OccupancyKept DEF Exists, Working
    <2> QED
      BY <1>0, <2>3, <2>4, <2>5, <2>6, <2>7, <2>8, <2>9 DEF LInv
  <1> QED
    BY <1>1, <1>2

LEMMA CloseAtFacts ==
  ASSUME TypeOK, NEW x \in Closers, NEW at, CloseAt(x, at)
  PROVE  \A y \in Closers : /\ close'[y].entry = close[y].entry
                            /\ close'[y].at = IF y = x THEN at ELSE close[y].at
  BY DEF TypeOK, CloseAt

\* A close starts, or starts again where it was cut.
LEMMA BeginCloseLives ==
  ASSUME LInv, NEW x \in Closers, BeginClose(x), close[x].at \in {"none", "cut"} PROVE LInv'
  <1>0. TypeOK /\ TypeOK' /\ SessionOf[x] \in Sessions
    BY BeginCloseTypes, CloserHasSession DEF LInv
  <1>1. /\ close'[x].entry = entry[SessionOf[x]]
        /\ IF entry[SessionOf[x]] = NoEntry THEN close'[x].at = "row" ELSE close'[x].at = "export"
        /\ \A y \in Closers \ {x} : close'[y] = close[y]
        /\ UNCHANGED <<row, entry, up, launch, run>>
    <2> DEFINE at == IF entry[SessionOf[x]] = NoEntry THEN "row" ELSE "export"
    <2>1. close' = [close EXCEPT ![x].at = at, ![x].entry = entry[SessionOf[x]]]
      BY DEF BeginClose
    <2> HIDE DEF at
    <2>2. /\ close'[x].entry = entry[SessionOf[x]] /\ close'[x].at = at
          /\ \A y \in Closers \ {x} : close'[y] = close[y]
      BY <1>0, <2>1 DEF TypeOK
    <2> QED
      BY <2>2 DEF at, BeginClose
  <1>2. Owned' /\ UnstartedUnnamed' /\ QuitUnregistered'
    BY <1>1, NamesKept DEF NewLaunch, NewRun
  <1>3. UnwrittenIsFree' /\ OccupantIsActive'
    BY <1>1, OccupancyKept DEF Exists, Working
  <1>4. OpenHasEntry'
    <2>1. \A s \in Sessions : Parted(s) => entry'[s] # NoEntry \/ Parted(s)'
      <3> SUFFICES ASSUME NEW s \in Sessions, Parted(s), entry[s] = NoEntry
                   PROVE  Parted(s)'
        BY <1>1
      <3>1. PICK y \in Closers : SessionOf[y] = s /\ close[y].at \in {"quit", "row", "cut"}
        BY DEF Parted
      <3>2. close'[y].at \in {"quit", "row", "cut"}
        BY <1>1, <3>1
      <3> QED
        BY <3>1, <3>2 DEF Parted
    <2> QED
      BY <1>1, <2>1, EntriesKept DEF Registered, Open, Exists
  <1>5. RunningIsLaunched' /\ RegisteredAlive'
    BY <1>1 DEF LInv, RunningIsLaunched, RegisteredAlive, Running, Open, Exists
  <1> QED
    BY <1>0, <1>2, <1>3, <1>4, <1>5 DEF LInv

LEMMA UnregisterLives ==
  ASSUME LInv, NEW x \in Closers, Unregister(x) PROVE LInv'
  <1>0. TypeOK /\ TypeOK' /\ SessionOf[x] \in Sessions
    BY CloseTypes, CloserHasSession DEF LInv, CloseStep
  <1>1. /\ entry'[SessionOf[x]] = NoEntry
        /\ \A s \in Sessions \ {SessionOf[x]} : entry'[s] = entry[s]
        /\ UNCHANGED <<row, up, launch, run>>
    BY <1>0 DEF TypeOK, Unregister
  <1>2. \A y \in Closers : /\ close'[y].entry = close[y].entry
                           /\ close'[y].at = IF y = x THEN "quit" ELSE close[y].at
    BY <1>0, CloseAtFacts DEF Unregister
  <1>3. Owned'
    BY <1>1, <1>2 DEF LInv, Owned
  <1>4. UnstartedUnnamed'
    <2>1. \A b \in Browsers : Named(b)' => Named(b)
      <3>1. \A b \in Browsers : NoEntry.browser # b
        BY SessionsAssumption DEF NoEntry
      <3> QED
        BY <1>1, <1>2, <3>1 DEF Named
    <2> QED
      BY <1>1, <2>1 DEF LInv, UnstartedUnnamed, NewLaunch, NewRun, Browsers
  <1>5. RegisteredAlive'
    BY <1>1 DEF LInv, RegisteredAlive
  <1>6. QuitUnregistered'
    BY <1>1, <1>2, CloserHasSession DEF LInv, QuitUnregistered
  <1>7. OpenHasEntry'
    <2>1. Parted(SessionOf[x])'
      BY <1>2 DEF Parted
    <2>2. \A s \in Sessions : Parted(s) => Parted(s)'
      BY <1>2 DEF Parted
    <2> QED
      BY <1>1, <2>1, <2>2, EntriesKept DEF Registered, Open, Exists
  <1>8. UnwrittenIsFree' /\ OccupantIsActive'
    BY <1>1, OccupancyKept DEF Exists, Working
  <1>9. RunningIsLaunched'
    BY <1>1 DEF LInv, RunningIsLaunched, Running, Open, Exists
  <1> QED
    BY <1>0, <1>3, <1>4, <1>5, <1>6, <1>7, <1>8, <1>9 DEF LInv

LEMMA QuitLives ==
  ASSUME LInv, NEW x \in Closers, QuitBrowser(x) PROVE LInv'
  <1>0. TypeOK /\ TypeOK' /\ SessionOf[x] \in Sessions
    BY CloseTypes, CloserHasSession DEF LInv, CloseStep
  <1>1. /\ close[x].at = "quit" /\ close'[x].at = "row" /\ close'[x].entry = NoEntry
        /\ \A y \in Closers \ {x} : close'[y] = close[y]
        /\ up' = up \ {close[x].entry.browser} /\ UNCHANGED <<row, entry, launch, run>>
    BY <1>0 DEF TypeOK, QuitBrowser
  <1>2. Owned' /\ UnstartedUnnamed' /\ QuitUnregistered'
    BY <1>1, NamesKept DEF NewLaunch, NewRun
  <1>3. RegisteredAlive'
    <2> SUFFICES ASSUME NEW s \in Sessions, entry[s] # NoEntry,
                        entry[s].browser = close[x].entry.browser
                 PROVE  FALSE
      BY <1>1 DEF LInv, RegisteredAlive
    <2>1. OwnedBy(entry[s].browser, s) /\ entry[s].browser \in Browsers
      BY DEF LInv, Owned, OwnedBy, Browsers
    <2>2. close[x].entry # NoEntry
      BY <2>1, SessionsAssumption DEF NoEntry
    <2>3. OwnedBy(entry[s].browser, SessionOf[x])
      BY <2>2 DEF LInv, Owned
    <2>4. s = SessionOf[x]
      BY <1>0, <2>1, <2>3, SessionsAssumption DEF OwnedBy
    <2> QED
      BY <1>1, <2>4 DEF LInv, QuitUnregistered
  <1>4. OpenHasEntry'
    <2>1. \A s \in Sessions : Parted(s) => Parted(s)'
      BY <1>1 DEF Parted
    <2> QED
      BY <1>1, <2>1, EntriesKept DEF Registered, Open, Exists
  <1>5. UnwrittenIsFree' /\ OccupantIsActive'
    BY <1>1, OccupancyKept DEF Exists, Working
  <1>6. RunningIsLaunched'
    BY <1>1 DEF LInv, RunningIsLaunched, Running, Open, Exists
  <1> QED
    BY <1>0, <1>2, <1>3, <1>4, <1>5, <1>6 DEF LInv

LEMMA CloseRowLives ==
  ASSUME LInv, NEW x \in Closers, CloseRow(x) PROVE LInv'
  <1>0. TypeOK /\ TypeOK' /\ SessionOf[x] \in Sessions
    BY CloseTypes, CloserHasSession DEF LInv, CloseStep
  <1>1. /\ UNCHANGED <<entry, up, launch, run>>
        /\ \A y \in Closers : /\ close'[y].entry = close[y].entry
                              /\ close'[y].at = close[y].at \/ (y = x /\ close'[y].at # "quit")
    <2>1. PICK at \in {"archive", "over"} : CloseAt(x, at)
      BY DEF CloseRow
    <2> QED
      BY <1>0, <2>1, CloseAtFacts DEF CloseRow
  <1>2. \A s \in Sessions :
          /\ row'[s].runnable = row[s].runnable
          /\ Exists(s) => Exists(s)'
          /\ IF s = SessionOf[x] THEN row'[s].completedAt = "set" ELSE row'[s] = row[s]
    <2>1. row' = [row EXCEPT ![SessionOf[x]] =
            IF @.completedAt = "set" THEN @
            ELSE [@ EXCEPT !.completedAt = "set", !.status = "completed"]]
      BY DEF CloseRow
    <2>2. row[SessionOf[x]] \in Rows /\ row \in [Sessions -> Rows]
      BY <1>0 DEF TypeOK
    <2> QED
      BY <1>0, <2>1, <2>2 DEF Rows, Exists
  <1>3. \A s \in Sessions : Open(s)' => s # SessionOf[x] /\ row'[s] = row[s]
    BY <1>2 DEF Open
  <1>4. Owned' /\ UnstartedUnnamed' /\ QuitUnregistered'
    BY <1>1, NamesKept DEF NewLaunch, NewRun
  <1>5. UnwrittenIsFree' /\ OccupantIsActive'
    BY <1>1, <1>2, OccupancyKept DEF Working
  <1>6. OpenHasEntry'
    <2>1. \A s \in Sessions \ {SessionOf[x]} : Parted(s) => Parted(s)'
      BY <1>1 DEF Parted
    <2> QED
      BY <1>1, <1>3, <2>1, EntriesKept DEF Registered, Open, Exists
  <1>7. RunningIsLaunched' /\ RegisteredAlive'
    BY <1>1, <1>3 DEF LInv, RunningIsLaunched, RegisteredAlive, Running, Open, Exists
  <1> QED
    BY <1>0, <1>4, <1>5, <1>6, <1>7 DEF LInv

LEMMA CloseLives ==
  ASSUME LInv, NEW x \in Closers, CloseStep(x) PROVE LInv'
  <1>0. TypeOK /\ TypeOK' /\ SessionOf[x] \in Sessions
    BY CloseTypes, CloserHasSession DEF LInv
  <1>1. CASE Archive(x) \/ CloseRaises(x)
    <2>1. /\ UNCHANGED <<entry, up, launch, run>>
          /\ \A y \in Closers :
               /\ close'[y].entry = close[y].entry
               /\ close[y].at \in {"quit", "row", "cut"} => close'[y].at \in {"quit", "row", "cut"}
               /\ close'[y].at = "quit" => close[y].at = "quit"
      <3>1. PICK at \in {"cut", "over"} :
              CloseAt(x, at) /\ (at = "over" => close[x].at = "archive")
        BY <1>1 DEF Archive, CloseRaises, Interrupted, Closing
      <3> QED
        BY <1>0, <1>1, <3>1, CloseAtFacts DEF Archive, CloseRaises
    <2>2. \A s \in Sessions : /\ row'[s].runnable = row[s].runnable
                              /\ row'[s].completedAt = row[s].completedAt
                              /\ row'[s].status = row[s].status
      <3>1. row' = row \/ row' = [row EXCEPT ![SessionOf[x]].addr = NoPort]
        BY <1>1 DEF Archive, CloseRaises
      <3>2. row \in [Sessions -> Rows]
        BY <1>0 DEF TypeOK
      <3> QED
        BY <1>0, <3>1, <3>2 DEF Rows
    <2>3. Owned' /\ UnstartedUnnamed' /\ QuitUnregistered'
      BY <2>1, NamesKept DEF NewLaunch, NewRun
    <2>4. UnwrittenIsFree' /\ OccupantIsActive'
      BY <2>1, <2>2, OccupancyKept DEF Working, Exists
    <2>5. \A s \in Sessions : Parted(s) => Parted(s)'
      BY <2>1 DEF Parted
    <2>6. OpenHasEntry'
      BY <2>1, <2>2, <2>5, EntriesKept DEF Registered, Open, Exists
    <2>7. RunningIsLaunched' /\ RegisteredAlive'
      BY <2>1, <2>2 DEF LInv, RunningIsLaunched, RegisteredAlive, Running, Open, Exists
    <2> QED
      BY <1>0, <2>3, <2>4, <2>6, <2>7 DEF LInv
  <1> QED
    BY <1>1, UnregisterLives, QuitLives, CloseRowLives DEF CloseStep

LEMMA RunAtFacts ==
  ASSUME TypeOK, NEW r \in Runs, NEW at, RunAt(r, at)
  PROVE  /\ run'[r].at = at
         /\ \A q \in Runs \ {r} : run'[q] = run[q]
  BY DEF TypeOK, RunAt

\* The mark of the occupant is all that changes in a row.
LEMMA MarkFacts ==
  ASSUME TypeOK, NEW s \in Sessions, NEW o, row' = [row EXCEPT ![s].runnable = o]
  PROVE  /\ row'[s].runnable = o
         /\ \A t \in Sessions : /\ row'[t].completedAt = row[t].completedAt
                                /\ row'[t].status = row[t].status
                                /\ t # s => row'[t] = row[t]
  <1>1. row \in [Sessions -> Rows]
    BY DEF TypeOK
  <1> QED
    BY <1>1 DEF Rows

\* Neither browsers nor closes nor launches are touched.
LEMMA MarkKept ==
  ASSUME LInv, UNCHANGED <<entry, up, launch>>,
         \A x \in Closers : close'[x].entry = close[x].entry,
         \A x \in Closers : close'[x].at = "quit" => close[x].at = "quit",
         \A x \in Closers : close[x].at \in {"quit", "row", "cut"} =>
           close'[x].at \in {"quit", "row", "cut"},
         \A s \in Sessions : /\ row'[s].completedAt = row[s].completedAt
                             /\ row'[s].status = row[s].status,
         \A r \in Runs : NewRun(r)' => NewRun(r)
  PROVE  /\ Owned' /\ UnstartedUnnamed' /\ QuitUnregistered'
         /\ OpenHasEntry' /\ RunningIsLaunched' /\ RegisteredAlive'
  <1>1. Owned' /\ UnstartedUnnamed' /\ QuitUnregistered'
    BY NamesKept DEF NewLaunch
  <1>2. \A s \in Sessions : Parted(s) => Parted(s)'
    BY DEF Parted
  <1>3. OpenHasEntry'
    BY <1>2, EntriesKept DEF Registered, Open, Exists
  <1>4. RunningIsLaunched' /\ RegisteredAlive'
    BY DEF LInv, RunningIsLaunched, RegisteredAlive, Running, Open, Exists
  <1> QED
    BY <1>1, <1>3, <1>4

LEMMA CreateBrowserLives ==
  ASSUME LInv, NEW r \in Runs, CreateBrowser(r) PROVE LInv'
  <1>0. TypeOK /\ TypeOK' /\ r \in Closers /\ SessionOf[r] \in Sessions
    BY RunTypes, CloserHasSession DEF LInv, RunStep, Closers
  <1> DEFINE s == SessionOf[r]
  <1>1. /\ run[r].at = "creating" /\ run'[r].at = "using"
        /\ \A q \in Runs \ {r} : run'[q] = run[q]
        /\ entry'[s].browser = r /\ entry'[s] # NoEntry
        /\ \A o \in Sessions \ {s} : entry'[o] = entry[o]
        /\ up' = up \cup {r} /\ UNCHANGED <<row, launch, close>>
    <2>1. /\ run[r].at = "creating" /\ run' = [run EXCEPT ![r].at = "using", ![r].held = r]
          /\ entry' = [entry EXCEPT ![s] = [browser |-> r, port |-> NoPort]]
          /\ up' = up \cup {r} /\ UNCHANGED <<row, launch, close>>
      BY DEF CreateBrowser
    <2>2. run'[r].at = "using" /\ \A q \in Runs \ {r} : run'[q] = run[q]
      BY <1>0, <2>1 DEF TypeOK
    <2>3. /\ entry'[s] = [browser |-> r, port |-> NoPort]
          /\ \A o \in Sessions \ {s} : entry'[o] = entry[o]
      BY <1>0, <2>1 DEF TypeOK
    <2>4. entry'[s].browser = r /\ NoEntry.browser # r
      BY <2>3, SessionsAssumption DEF NoEntry, Browsers
    <2> QED
      BY <2>1, <2>2, <2>3, <2>4
  <1>2. ~Named(r)
    BY <1>1 DEF LInv, UnstartedUnnamed, NewRun
  <1>3. Owned'
    BY <1>1 DEF LInv, Owned, OwnedBy
  <1> HIDE DEF s
  <1>4. UnstartedUnnamed'
    <2>1. \A b \in Browsers \ {r} : Named(b)' => Named(b)
      BY <1>1 DEF Named
    <2>2. \A q \in Runs : NewRun(q)' => q # r /\ NewRun(q)
      BY <1>1 DEF NewRun
    <2>3. \A o \in Sessions : o # r /\ (NewLaunch(o)' => NewLaunch(o))
      BY <1>1, SessionsAssumption DEF NewLaunch
    <2> QED
      BY <2>1, <2>2, <2>3 DEF LInv, UnstartedUnnamed, Browsers
  <1>5. RegisteredAlive'
    BY <1>1 DEF LInv, RegisteredAlive
  <1>6. QuitUnregistered'
    <2>1. \A x \in Closers : close[x].entry.browser # r
      BY <1>2 DEF Named
    <2> QED
      BY <1>1, <2>1, CloserHasSession DEF LInv, QuitUnregistered
  <1>7. OpenHasEntry' /\ RunningIsLaunched'
    BY <1>1 DEF LInv, OpenHasEntry, RunningIsLaunched, Registered, Running, Parted, Open, Exists
  <1>8. UnwrittenIsFree' /\ OccupantIsActive'
    <2>1. \A q \in Runs : Working(q) => Working(q)'
      BY <1>1 DEF Working, Active
    <2> QED
      BY <1>1, <2>1, OccupancyKept DEF Exists
  <1> QED
    BY <1>0, <1>3, <1>4, <1>5, <1>6, <1>7, <1>8 DEF LInv

LEMMA RunLives ==
  ASSUME LInv, NEW r \in Runs, RunStep(r) PROVE LInv'
  <1>0. TypeOK /\ TypeOK' /\ r \in Closers /\ SessionOf[r] \in Sessions
    BY RunTypes, CloserHasSession DEF LInv, Closers
  <1>n. r # Nobody
    BY SessionsAssumption
  <1>1. CASE Begin(r)
    <2>1. /\ run[r].at = "idle" /\ run'[r].at = "begun" /\ \A q \in Runs \ {r} : run'[q] = run[q]
          /\ Exists(SessionOf[r]) /\ UNCHANGED <<entry, up, launch, close>>
      BY <1>0, <1>1, RunAtFacts DEF Begin
    <2>2. /\ row'[SessionOf[r]].runnable = r
          /\ \A t \in Sessions : /\ row'[t].completedAt = row[t].completedAt
                                 /\ row'[t].status = row[t].status
                                 /\ t # SessionOf[r] => row'[t] = row[t]
      BY <1>0, <1>1, MarkFacts DEF Begin
    <2>3. \A q \in Runs : (NewRun(q)' => NewRun(q)) /\ (Working(q) => Working(q)')
      BY <2>1 DEF NewRun, Working, Active
    <2>4. /\ Owned' /\ UnstartedUnnamed' /\ QuitUnregistered'
          /\ OpenHasEntry' /\ RunningIsLaunched' /\ RegisteredAlive'
      BY <2>1, <2>2, <2>3, MarkKept
    <2>5. UnwrittenIsFree'
      BY <2>1, <2>2 DEF LInv, UnwrittenIsFree, Exists
    <2>6. OccupantIsActive'
      <3> SUFFICES ASSUME NEW s \in Sessions, NEW q \in Runs, row'[s].runnable = q, Open(s)'
                   PROVE  SessionOf[q] = s /\ Working(q)'
        BY DEF OccupantIsActive, Working
      <3>1. CASE s = SessionOf[r]
        <4>1. q = r /\ Working(r)'
          BY <2>1, <2>2, <3>1 DEF Working, Active
        <4> QED
          BY <3>1, <4>1
      <3>2. CASE s # SessionOf[r]
        <4>1. row[s].runnable = q /\ Open(s)
          BY <2>2, <3>2 DEF Open, Exists
        <4> QED
          BY <2>3, <4>1 DEF LInv, OccupantIsActive, Working
      <3> QED
        BY <3>1, <3>2
    <2> QED
      BY <1>0, <2>4, <2>5, <2>6 DEF LInv
  <1>2. CASE BeginFails(r) \/ GetBrowser(r) \/ Leave(r) \/ ReleaseRaises(r)
    <2>1. UNCHANGED <<row, entry, up, launch>>
      BY <1>2 DEF BeginFails, GetBrowser, Leave, ReleaseRaises
    <2>2. \A x \in Closers :
            /\ close'[x].entry = close[x].entry
            /\ close'[x].at = "quit" => close[x].at = "quit"
            /\ close[x].at \in {"quit", "row", "cut"} => close'[x].at \in {"quit", "row", "cut"}
      <3>1. CASE Leave(r)
        <4>1. \A x \in Closers :
                /\ close'[x].entry = close[x].entry
                /\ close'[x].at = IF x = r THEN Interrupted(close[r].at) ELSE close[x].at
          BY <1>0, <3>1, CloseAtFacts DEF Leave
        <4> QED
          BY <4>1 DEF Interrupted, Closing
      <3>2. CASE ~Leave(r)
        BY <1>2, <3>2 DEF BeginFails, GetBrowser, ReleaseRaises
      <3> QED
        BY <3>1, <3>2
    <2>3. \A q \in Runs : (NewRun(q)' => NewRun(q)) /\ (Working(q) => Working(q)')
      <3>1. /\ \A q \in Runs \ {r} : run'[q] = run[q]
            /\ NewRun(r)' => NewRun(r)
            /\ Working(r) => Working(r)'
        BY <1>0, <1>2, RunAtFacts
           DEF TypeOK, BeginFails, GetBrowser, Leave, ReleaseRaises, RunAt, NewRun, Working, Active
      <3> QED
        BY <3>1 DEF NewRun, Working
    <2>4. /\ Owned' /\ UnstartedUnnamed' /\ QuitUnregistered'
          /\ OpenHasEntry' /\ RunningIsLaunched' /\ RegisteredAlive'
      BY <2>1, <2>2, <2>3, MarkKept
    <2>5. UnwrittenIsFree' /\ OccupantIsActive'
      BY <2>1, <2>3, OccupancyKept DEF Exists
    <2> QED
      BY <1>0, <2>4, <2>5 DEF LInv
  <1>3. CASE CreateBrowser(r)
    BY <1>3, CreateBrowserLives
  <1>4. CASE RenewalCloses(r)
    BY <1>0, <1>4, BeginCloseLives DEF RenewalCloses
  <1>5. CASE Release(r) \/ Cancel(r)
    <2>1. /\ \A q \in Runs \ {r} : run'[q] = run[q]
          /\ NewRun(r)' => NewRun(r)
          /\ UNCHANGED <<entry, up, launch, close>>
      <3>1. CASE Release(r)
        BY <1>0, <3>1, RunAtFacts DEF Release, NewRun
      <3>2. CASE Cancel(r)
        BY <3>2 DEF Cancel, NewRun
      <3> QED
        BY <1>5, <3>1, <3>2
    <2>2. /\ row'[SessionOf[r]].runnable = Nobody
          /\ \A t \in Sessions : /\ row'[t].completedAt = row[t].completedAt
                                 /\ row'[t].status = row[t].status
                                 /\ t # SessionOf[r] => row'[t] = row[t]
      BY <1>0, <1>5, MarkFacts DEF Release, Cancel, Vacate
    <2>3. /\ Owned' /\ UnstartedUnnamed' /\ QuitUnregistered'
          /\ OpenHasEntry' /\ RunningIsLaunched' /\ RegisteredAlive'
      <3>1. \A q \in Runs : NewRun(q)' => NewRun(q)
        BY <2>1 DEF NewRun
      <3> QED
        BY <2>1, <2>2, <3>1, MarkKept
    <2>4. UnwrittenIsFree'
      BY <2>1, <2>2 DEF LInv, UnwrittenIsFree, Exists
    <2>5. OccupantIsActive'
      <3> SUFFICES ASSUME NEW s \in Sessions, NEW q \in Runs, row'[s].runnable = q, Open(s)'
                   PROVE  SessionOf[q] = s /\ Working(q)'
        BY DEF OccupantIsActive, Working
      <3>1. s # SessionOf[r]
        BY <2>2, SessionsAssumption
      <3>2. row[s].runnable = q /\ Open(s)
        BY <2>2, <3>1 DEF Open, Exists
      <3>3. SessionOf[q] = s /\ Working(q)
        BY <3>2 DEF LInv, OccupantIsActive, Working
      <3> QED
        BY <2>1, <3>1, <3>3 DEF Working
    <2> QED
      BY <1>0, <2>3, <2>4, <2>5 DEF LInv
  <1> QED
    BY <1>1, <1>2, <1>3, <1>4, <1>5 DEF RunStep

\* A kill ends every launch, close and run; the restart closes every open row.
LEMMA CrashLives ==
  ASSUME LInv, Local, Crash PROVE LInv'
  <1>0. TypeOK /\ TypeOK'
    BY CrashTypes DEF LInv
  <1>1. /\ \A s \in Sessions :
             /\ entry'[s] = NoEntry
             /\ launch'[s] = launch[s] \/ (launch[s] \in Launching /\ launch'[s] = "killed")
        /\ \A x \in Closers : close'[x].entry = close[x].entry /\ close'[x].at # "quit"
        /\ \A r \in Runs : NewRun(r)' => NewRun(r)
    <2>1. \A s \in Sessions :
            /\ entry'[s] = NoEntry
            /\ launch'[s] = launch[s] \/ (launch[s] \in Launching /\ launch'[s] = "killed")
      BY DEF Crash
    <2>2. \A x \in Closers : close'[x].entry = close[x].entry /\ close'[x].at # "quit"
      <3>1. close' = [x \in Closers |->
              [close[x] EXCEPT !.at = IF @ \in Closing \cup {"cut"} THEN "killed" ELSE @]]
        BY DEF Crash
      <3>2. close \in [Closers -> [at : Closing \cup {"none", "cut", "over", "killed"},
                                   entry : Entries]]
        BY <1>0 DEF TypeOK
      <3> QED
        BY <3>1, <3>2 DEF Closing
    <2>3. \A r \in Runs : NewRun(r)' => NewRun(r)
      <3>1. run' = [r \in Runs |-> [run[r] EXCEPT !.held = NoBrowser,
                                                  !.at = IF @ \in Active THEN "killed" ELSE @]]
        BY DEF Crash
      <3>2. run \in [Runs -> [at : Active \cup {"idle", "over", "stranded", "killed"},
                              held : Browsers \cup {NoBrowser}]]
        BY <1>0 DEF TypeOK
      <3>3. \A r \in Runs : run'[r].at = IF run[r].at \in Active THEN "killed" ELSE run[r].at
        BY <3>1, <3>2
      <3> QED
        BY <3>3 DEF NewRun
    <2> QED
      BY <2>1, <2>2, <2>3
  <1>2. \A s \in Sessions : ~Open(s)' /\ row'[s].runnable = row[s].runnable
                            /\ (Exists(s) <=> Exists(s)')
    <2>1. row \in [Sessions -> Rows] /\ \A s \in Sessions : row'[s] = Swept(s)
      BY <1>0 DEF TypeOK, Crash
    <2> QED
      BY <2>1 DEF Swept, Rows, Open, Exists
  <1>3. Owned'
    BY <1>1 DEF LInv, Owned
  <1>4. UnstartedUnnamed'
    <2>1. \A b \in Browsers : Named(b)' => Named(b)
      <3>1. \A b \in Browsers : NoEntry.browser # b
        BY SessionsAssumption DEF NoEntry
      <3> QED
        BY <1>1, <3>1 DEF Named
    <2>2. \A s \in Sessions : NewLaunch(s)' => NewLaunch(s)
      BY <1>1 DEF NewLaunch
    <2> QED
      BY <1>1, <2>1, <2>2 DEF LInv, UnstartedUnnamed, Browsers
  <1>5. RegisteredAlive' /\ QuitUnregistered'
    BY <1>1 DEF RegisteredAlive, QuitUnregistered
  <1>6. OpenHasEntry' /\ RunningIsLaunched' /\ OccupantIsActive'
    BY <1>2 DEF OpenHasEntry, RunningIsLaunched, Running, OccupantIsActive
  <1>7. UnwrittenIsFree'
    <2>1. \A s \in Sessions : launch[s] = "none" => launch'[s] = "none"
      BY <1>1 DEF Launching
    <2> QED
      BY <1>2, <2>1 DEF LInv, UnwrittenIsFree
  <1> QED
    BY <1>0, <1>3, <1>4, <1>5, <1>6, <1>7 DEF LInv

-----------------------------------------------------------------------------
(* The invariant and what it is for.                                       *)

LEMMA InitLives == Init => LInv
  <1> SUFFICES ASSUME Init PROVE LInv
    OBVIOUS
  <1>1. TypeOK
    BY InitIInv DEF IInv
  <1>2. /\ \A s \in Sessions : /\ entry[s] = NoEntry /\ row[s] = NoRow /\ launch[s] = "none"
                               /\ ~Exists(s)
        /\ \A x \in Closers : close[x].entry = NoEntry /\ close[x].at = "none"
    BY DEF Init, Exists, NoRow
  <1>3. Owned /\ QuitUnregistered /\ RegisteredAlive
    BY <1>2 DEF Owned, QuitUnregistered, RegisteredAlive
  <1>4. UnstartedUnnamed
    <2>1. \A b \in Browsers : NoEntry.browser # b
      BY SessionsAssumption DEF NoEntry
    <2> QED
      BY <1>2, <2>1 DEF UnstartedUnnamed, Named, Browsers
  <1>5. OpenHasEntry /\ RunningIsLaunched /\ OccupantIsActive
    BY <1>2 DEF OpenHasEntry, RunningIsLaunched, Running, Open, OccupantIsActive
  <1>6. UnwrittenIsFree
    BY <1>2 DEF UnwrittenIsFree, NoRow
  <1> QED
    BY <1>1, <1>3, <1>4, <1>5, <1>6 DEF LInv

\* Every step of the sessions of a local installation keeps the invariant.
THEOREM LivesInvariant ==
  ASSUME Local PROVE Spec => []LInv
  <1>1. ASSUME LInv, [Next]_vars PROVE LInv'
    <2>1. CASE \E s \in Sessions : LaunchStep(s)
      BY <1>1, <2>1, LaunchLives
    <2>2. CASE \E c \in Clients : ClientCloses(c)
      BY <1>1, <2>2, BeginCloseLives DEF ClientCloses, Closers
    <2>3. CASE \E x \in Closers : CloseStep(x)
      BY <1>1, <2>3, CloseLives
    <2>4. CASE \E r \in Runs : RunStep(r)
      BY <1>1, <2>4, RunLives
    <2>5. CASE Crash
      BY <1>1, <2>5, CrashLives
    <2>6. CASE UNCHANGED vars
      <3>1. TypeOK'
        BY <1>1, <2>6 DEF LInv, TypeOK, vars
      <3>2. UNCHANGED <<row, entry, up, launch, close, run>>
        BY <2>6 DEF vars
      <3>3. /\ Owned' /\ UnstartedUnnamed' /\ QuitUnregistered'
            /\ OpenHasEntry' /\ RunningIsLaunched' /\ RegisteredAlive'
        BY <1>1, <3>2, MarkKept DEF NewRun
      <3>4. UnwrittenIsFree' /\ OccupantIsActive'
        BY <1>1, <3>2, OccupancyKept DEF Exists, Working
      <3> QED
        BY <3>1, <3>3, <3>4 DEF LInv
    <2> QED
      BY <1>1, <2>1, <2>2, <2>3, <2>4, <2>5, <2>6 DEF Next
  <1> QED
    BY InitLives, <1>1, PTL DEF Spec

\* A session listed as running has a registered browser that is alive, or a
\* close has come, or was interrupted, between its browser and its row.
THEOREM RunningIsAlive ==
  ASSUME Local PROVE Spec => []RunningHasBrowser
  <1>1. LInv => RunningHasBrowser
    BY DEF LInv, RunningHasBrowser, RunningIsLaunched, Running, OpenHasEntry, Registered,
       RegisteredAlive, Parted
  <1> QED
    BY <1>1, LivesInvariant, PTL

\* An open session is marked as occupied only by a run on it that is at work,
\* or whose clean-up raised, whoever overwrites and clears the mark of whom.
THEOREM OccupiedIsActive ==
  ASSUME Local PROVE Spec => []OccupantIsActive
  BY LivesInvariant, PTL DEF LInv

=============================================================================
