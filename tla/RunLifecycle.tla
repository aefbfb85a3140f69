---------------------------- MODULE RunLifecycle ----------------------------
(***************************************************************************)
(* Build, run, discovery scan and debug session as the IDE starts and ends *)
(* them (jade/src/app.rs), with the engine that allows one child at a time *)
(* (jade-build/src/run.rs, lib.rs) and the debug driver's lock.            *)
(*                                                                         *)
(* A click only sets flags and spawns a task.  The task compiles, calls    *)
(* engine.run or starts lldb later, and what it has done comes back as an  *)
(* event of app_tx.  Launches are numbered in the order of the clicks.     *)
(***************************************************************************)
EXTENDS Naturals, Sequences, FiniteSets

CONSTANTS
    MaxLaunches,  \* bound: tasks spawned
    MaxStops,     \* bound: clicks on Stop
    Clicks        \* what the user clicks

Click == {"build", "run", "tracked", "debug", "stop", "step"}

ASSUME BoundsAreNat == MaxLaunches \in Nat /\ MaxStops \in Nat
ASSUME ClicksAreKnown == Clicks \subseteq Click

Launches == 1 .. MaxLaunches

VARIABLES
    ide,       \* the flags of JadeApp
    task,      \* per launch: what was spawned and how far it is
    launches,  \* launches so far
    run_stop,  \* the launch whose stop channel the engine holds
    session,   \* the launch whose lldb session is alive
    stopping,  \* tasks of action_stop that wait for the driver's lock
    events,    \* app_tx
    records,   \* rows of the run store
    stops      \* clicks on Stop

vars == <<ide, task, launches, run_stop, session, stopping, events, records, stops>>

Kind == {"none", "build", "run", "scan", "debug"}
Stage == {"none", "spawned", "taken", "up", "starting", "done"}
Task == [kind : Kind, stage : Stage, told : BOOLEAN]

Panel == {"none", "run", "debug"}
Ide == [building : BOOLEAN, running : BOOLEAN, debugging : BOOLEAN,
        discovery : BOOLEAN, pre_run : Panel, pending_launch : Panel,
        pending_run : 0 .. MaxLaunches, last_build : {"none", "ok", "failed"},
        shown : {"idle", "running", "paused", "exited"}]

Event == [name : {"BuildDone"}, of : Launches, ok : BOOLEAN]
    \cup [name : {"RunDone", "Stopped", "Exited"}, of : Launches]

Record == [launch : Launches, result : Launches]

-----------------------------------------------------------------------------
(* What several handlers do.                                               *)

\* The bound leaves room for the launch that a scan may defer.
Room == launches + (IF ide.discovery THEN 1 ELSE 0) < MaxLaunches

\* runtime.spawn of one more task.
Spawn(kind) ==
    /\ launches < MaxLaunches
    /\ launches' = launches + 1
    /\ task' = [task EXCEPT ![launches + 1] =
                    [kind |-> kind, stage |-> "spawned", told |-> FALSE]]

SpawnNothing == UNCHANGED <<task, launches>>

\* The sender in run_stop is taken and used, or dropped, which the run's loop
\* takes for the same.
Told(tasks) ==
    IF run_stop = 0 THEN tasks ELSE [tasks EXCEPT ![run_stop].told = TRUE]

\* BuildEngine::stop.
EngineStops ==
    /\ task' = Told(task)
    /\ run_stop' = 0
    /\ UNCHANGED launches

CanRun(app) == app.last_build = "ok"

\* Mutant of LaunchRun: the running flag is not set.
LaunchRunUnmarked(app) ==
    IF CanRun(app) /\ ~app.running
    THEN /\ Spawn("run")
         /\ ide' = [app EXCEPT !.pending_run = launches + 1]
    ELSE SpawnNothing /\ ide' = app

LaunchRun(app) ==
    IF CanRun(app) /\ ~app.running
    THEN /\ Spawn("run")
         /\ ide' = [app EXCEPT !.running = TRUE, !.pending_run = launches + 1]
    ELSE SpawnNothing /\ ide' = app

LaunchDebug(app) ==
    IF ~app.building /\ ~app.debugging
    THEN /\ Spawn("debug")
         /\ ide' = [app EXCEPT !.building = TRUE, !.debugging = TRUE,
                               !.pending_run = launches + 1, !.shown = "running"]
    ELSE SpawnNothing /\ ide' = app

Dispatch(launch, app) ==
    \/ launch = "run" /\ LaunchRun(app)
    \/ launch = "debug" /\ LaunchDebug(app)

StartDiscovery(app) ==
    IF ~app.running /\ ~app.discovery /\ CanRun(app)
    THEN launches + 1 < MaxLaunches /\ Spawn("scan") /\ ide' = [app EXCEPT !.discovery = TRUE]
    ELSE SpawnNothing /\ ide' = app

\* open_pre_run: a project whose names are not known is scanned at once.
OpenPreRun(launch) ==
    LET app == [ide EXCEPT !.pre_run = launch]
    IN \/ SpawnNothing /\ ide' = app
       \/ StartDiscovery(app)

-----------------------------------------------------------------------------
(* Clicks.                                                                 *)

OnlyTheIde == UNCHANGED <<run_stop, session, stopping, events, records, stops>>

ActionBuild ==
    /\ "build" \in Clicks /\ ~ide.building /\ Room
    /\ Spawn("build")
    /\ ide' = [ide EXCEPT !.building = TRUE]
    /\ OnlyTheIde

RunGate == ide.last_build # "none" /\ ~ide.running /\ ~ide.discovery
DebugGate == ~ide.building /\ ~ide.debugging /\ ~ide.discovery

ActionRun ==
    /\ "run" \in Clicks /\ RunGate
    /\ LaunchRun(ide)
    /\ OnlyTheIde

ActionRunTracked ==
    /\ "tracked" \in Clicks /\ RunGate
    /\ OpenPreRun("run")
    /\ OnlyTheIde

ActionDebug ==
    /\ {"tracked", "debug"} \subseteq Clicks /\ DebugGate
    /\ OpenPreRun("debug")
    /\ OnlyTheIde

ActionDebugDirect ==
    /\ "debug" \in Clicks /\ DebugGate /\ Room
    /\ LaunchDebug(ide)
    /\ OnlyTheIde

\* The panel's buttons: Rescan, Run, Cancel.
Rescan ==
    /\ ide.pre_run # "none"
    /\ StartDiscovery(ide)
    /\ OnlyTheIde

\* Mutant of ConfirmPreRun: the scan counts as over when it is told to end.
ConfirmEndsScan ==
    /\ ide.pre_run # "none"
    /\ LET app == [ide EXCEPT !.pre_run = "none"]
       IN IF ide.discovery
          THEN /\ ide' = [app EXCEPT !.pending_launch = ide.pre_run, !.discovery = FALSE]
               /\ EngineStops
          ELSE Dispatch(ide.pre_run, app) /\ UNCHANGED run_stop
    /\ UNCHANGED <<session, stopping, events, records, stops>>

ConfirmPreRun ==
    /\ ide.pre_run # "none"
    /\ LET app == [ide EXCEPT !.pre_run = "none"]
       IN IF ide.discovery
          THEN /\ ide' = [app EXCEPT !.pending_launch = ide.pre_run]
               /\ EngineStops
          ELSE Dispatch(ide.pre_run, app) /\ UNCHANGED run_stop
    /\ UNCHANGED <<session, stopping, events, records, stops>>

CancelPreRun ==
    /\ ide.pre_run # "none"
    /\ ide' = [ide EXCEPT !.pre_run = "none", !.pending_launch = "none"]
    /\ IF ide.discovery THEN EngineStops ELSE SpawnNothing /\ UNCHANGED run_stop
    /\ UNCHANGED <<session, stopping, events, records, stops>>

\* The driver is stopped by a task of its own, when it gets the lock.
ActionStop ==
    /\ "stop" \in Clicks /\ stops < MaxStops
    /\ EngineStops
    /\ stopping' = stopping + 1
    /\ ide' = [ide EXCEPT !.building = FALSE, !.running = FALSE,
                          !.debugging = FALSE, !.shown = "idle"]
    /\ stops' = stops + 1
    /\ UNCHANGED <<session, events, records>>

\* Continue: the session's target, if there is one, runs on.
DebugContinue ==
    /\ "step" \in Clicks
    /\ ide' = [ide EXCEPT !.shown = "running"]
    /\ UNCHANGED <<task, launches>> /\ OnlyTheIde

-----------------------------------------------------------------------------
(* Tasks.                                                                  *)

Post(event) == events' = Append(events, event)

Moves(i, stage) == task' = [task EXCEPT ![i].stage = stage]

OnlyTasks == UNCHANGED <<ide, launches, stopping, records, stops>>

IsRun(i) == task[i].kind \in {"run", "scan"}

\* engine.run takes the sender of the previous run in one critical section ...
RunTakes(i) ==
    /\ IsRun(i) /\ task[i].stage = "spawned"
    /\ task' = [Told(task) EXCEPT ![i].stage = "taken"]
    /\ run_stop' = 0
    /\ UNCHANGED <<session, events>> /\ OnlyTasks

\* Mutant of RunRegisters: the sender that is replaced is kept alive.
RunRegistersBeside(i) ==
    /\ IsRun(i) /\ task[i].stage = "taken"
    /\ Moves(i, "up")
    /\ run_stop' = i
    /\ UNCHANGED <<session, events>> /\ OnlyTasks

\* ... and stores its own in another one, dropping what is there by then.
RunRegisters(i) ==
    /\ IsRun(i) /\ task[i].stage = "taken"
    /\ task' = [Told(task) EXCEPT ![i].stage = "up"]
    /\ run_stop' = i
    /\ UNCHANGED <<session, events>> /\ OnlyTasks

\* The child ended by itself, was killed or could not be started.
ChildEnds(i) ==
    /\ IsRun(i) /\ task[i].stage = "up"
    /\ Moves(i, "done")
    /\ Post([name |-> "RunDone", of |-> i])
    /\ UNCHANGED <<run_stop, session>> /\ OnlyTasks

\* Mutant of BuildEnds: a failed build is not reported.
BuildEndsSilently(i) ==
    /\ task[i].kind \in {"build", "debug"} /\ task[i].stage = "spawned"
    /\ \E ok \in BOOLEAN :
         /\ IF ok THEN Post([name |-> "BuildDone", of |-> i, ok |-> ok]) ELSE UNCHANGED events
         /\ Moves(i, IF ok /\ task[i].kind = "debug" THEN "starting" ELSE "done")
    /\ UNCHANGED <<run_stop, session>> /\ OnlyTasks

BuildEnds(i) ==
    /\ task[i].kind \in {"build", "debug"} /\ task[i].stage = "spawned"
    /\ \E ok \in BOOLEAN :
         /\ Post([name |-> "BuildDone", of |-> i, ok |-> ok])
         /\ Moves(i, IF ok /\ task[i].kind = "debug" THEN "starting" ELSE "done")
    /\ UNCHANGED <<run_stop, session>> /\ OnlyTasks

\* Under the driver's lock: the session before is stopped, then lldb is started
\* or cannot be.
DebugStarts(i) ==
    /\ task[i].kind = "debug" /\ task[i].stage = "starting"
    /\ Moves(i, "done")
    /\ IF session # 0 THEN Post([name |-> "Exited", of |-> session]) ELSE UNCHANGED events
    /\ session' \in {i, 0}
    /\ UNCHANGED run_stop /\ OnlyTasks

\* The task of action_stop has the lock.
DriverStops ==
    /\ stopping > 0
    /\ stopping' = stopping - 1
    /\ IF session # 0 THEN Post([name |-> "Exited", of |-> session]) ELSE UNCHANGED events
    /\ session' = 0
    /\ UNCHANGED <<ide, task, launches, run_stop, records, stops>>

\* The debugged program ends, or stops once; the driver reports it.
SessionExits ==
    /\ session # 0
    /\ Post([name |-> "Exited", of |-> session])
    /\ session' = 0
    /\ UNCHANGED <<task, run_stop>> /\ OnlyTasks

SessionPauses ==
    /\ session # 0 /\ ide.shown = "running"
    /\ ~\E k \in DOMAIN events : events[k].name = "Stopped"
    /\ Post([name |-> "Stopped", of |-> session])
    /\ UNCHANGED <<task, run_stop, session>> /\ OnlyTasks

-----------------------------------------------------------------------------
(* apply_app_event.                                                        *)

\* Mutant of Persisted: a result without a launch context makes a row.
PersistedAlways(result) == records \cup {[launch |-> ide.pending_run, result |-> result]}

Persisted(result) ==
    IF ide.pending_run = 0 THEN records
    ELSE records \cup {[launch |-> ide.pending_run, result |-> result]}

Arrives(name) == events # <<>> /\ Head(events).name = name /\ events' = Tail(events)

OnBuildDone ==
    /\ Arrives("BuildDone")
    /\ ide' = [ide EXCEPT !.building = FALSE,
                          !.last_build = IF Head(events).ok THEN "ok" ELSE "failed"]
    /\ SpawnNothing
    /\ UNCHANGED <<run_stop, session, stopping, records, stops>>

\* on_run_done while a scan is believed to be up.
OnScanDone ==
    /\ Arrives("RunDone") /\ ide.discovery
    /\ LET app == [ide EXCEPT !.discovery = FALSE, !.pending_launch = "none"]
       IN \/ Dispatch(ide.pending_launch, app)
          \/ ide.pending_launch = "none" /\ ide' = app /\ SpawnNothing
    /\ UNCHANGED <<run_stop, session, stopping, records, stops>>

OnRunDone ==
    /\ Arrives("RunDone") /\ ~ide.discovery
    /\ ide' = [ide EXCEPT !.running = FALSE, !.pending_run = 0]
    /\ records' = Persisted(Head(events).of)
    /\ SpawnNothing
    /\ UNCHANGED <<run_stop, session, stopping, stops>>

OnStopped ==
    /\ Arrives("Stopped")
    /\ ide' = [ide EXCEPT !.shown = "paused"]
    /\ SpawnNothing
    /\ UNCHANGED <<run_stop, session, stopping, records, stops>>

OnExited ==
    /\ Arrives("Exited")
    /\ ide' = [ide EXCEPT !.debugging = FALSE, !.shown = "exited", !.pending_run = 0]
    /\ records' = Persisted(Head(events).of)
    /\ SpawnNothing
    /\ UNCHANGED <<run_stop, session, stopping, stops>>

\* The watchdog of a scan, after 5 s of telemetry or without any, or after 180 s.
DiscoveryTick ==
    /\ ide.discovery /\ run_stop # 0
    /\ EngineStops
    /\ UNCHANGED <<ide, session, stopping, events, records, stops>>

-----------------------------------------------------------------------------
Init ==
    /\ ide = [building |-> FALSE, running |-> FALSE, debugging |-> FALSE,
              discovery |-> FALSE, pre_run |-> "none", pending_launch |-> "none",
              pending_run |-> 0, last_build |-> "none", shown |-> "idle"]
    /\ task = [i \in Launches |-> [kind |-> "none", stage |-> "none", told |-> FALSE]]
    /\ launches = 0 /\ run_stop = 0 /\ session = 0 /\ stopping = 0
    /\ events = <<>> /\ records = {}
    /\ stops = 0

Clicked ==
    \/ ActionBuild \/ ActionRun \/ ActionRunTracked \/ ActionDebug \/ ActionDebugDirect
    \/ Rescan \/ ConfirmPreRun \/ CancelPreRun \/ ActionStop \/ DebugContinue

Applied ==
    \/ OnBuildDone \/ OnScanDone \/ OnRunDone \/ OnStopped \/ OnExited

Works(i) == RunTakes(i) \/ RunRegisters(i) \/ BuildEnds(i) \/ DebugStarts(i)

Next ==
    \/ Clicked \/ Applied \/ DiscoveryTick
    \/ DriverStops \/ SessionExits \/ SessionPauses
    \/ \E i \in Launches : Works(i) \/ ChildEnds(i)

Spec == Init /\ [][Next]_vars

\* The pump applies events, tasks make progress, a child that was killed ends,
\* the driver's lock is fair.  A program that nobody stops may run for ever.
Fairness ==
    /\ WF_vars(Applied) /\ WF_vars(DiscoveryTick) /\ WF_vars(DriverStops)
    /\ \A i \in Launches :
         WF_vars(Works(i)) /\ WF_vars(task[i].told /\ ChildEnds(i))

FairSpec == Spec /\ Fairness

-----------------------------------------------------------------------------
(* Properties.                                                             *)

TypeOK ==
    /\ ide \in Ide
    /\ task \in [Launches -> Task]
    /\ launches \in 0 .. MaxLaunches
    /\ run_stop \in 0 .. MaxLaunches
    /\ session \in 0 .. MaxLaunches
    /\ stopping \in 0 .. MaxStops
    /\ events \in Seq(Event)
    /\ records \subseteq Record
    /\ stops \in 0 .. MaxStops

\* The run engine allows one child at a time: however the two critical sections
\* of engine.run interleave with each other and with stop, at most one child
\* has not been told to end.
OneChild ==
    \A i, j \in Launches :
        /\ task[i].stage = "up" /\ ~task[i].told
        /\ task[j].stage = "up" /\ ~task[j].told
        => i = j

\* What still reports to the IDE: tasks that will post the event, and the event.
Reporting(kinds, name) ==
    \/ \E i \in Launches :
         task[i].kind \in kinds
         /\ task[i].stage \in IF name = "RunDone" THEN {"spawned", "taken", "up"} ELSE {"spawned"}
    \/ \E k \in DOMAIN events : events[k].name = name

\* No click, event or race leaves the Run or Build button disabled for ever: a
\* flag that disables it is only set while an event that clears it is to come.
ButtonsComeBack ==
    /\ ide.running \/ ide.discovery => Reporting({"run", "scan"}, "RunDone")
    /\ ide.building => Reporting({"build", "debug"}, "BuildDone")

\* A launch that was deferred until a scan's child exits is dispatched or
\* cancelled, even if the click came before the scan had called engine.run.
DeferredLaunchEnds == (ide.pending_launch # "none") ~> (ide.pending_launch = "none")

\* While nobody has stopped a run or debugged beside it, a row of the run store
\* holds the result of the launch whose context it holds, and no scan makes a row.
\* (persist_finished_run: "Write the just-finished run (`training.current` + the
\* launch context captured at start)"; on_run_done: "Discovery scans are not runs".)
RecordsAreOfTheirRun ==
    stops = 0 /\ (\A i \in Launches : task[i].kind # "debug")
        => \A r \in records : r.launch = r.result /\ task[r.result].kind # "scan"
=============================================================================
