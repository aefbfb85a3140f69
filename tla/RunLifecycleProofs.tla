------------------------- MODULE RunLifecycleProofs -------------------------
(***************************************************************************)
(* The invariants of RunLifecycle hold for any number of launches and      *)
(* stops, and whatever the user clicks.                                    *)
(*                                                                         *)
(* OneChild needs that the child that was not told to end is the one whose *)
(* channel the engine holds.  ButtonsComeBack needs that a run and a scan  *)
(* are never believed to be up together, or one RunDone would clear only   *)
(* one of the two flags.  RecordsAreOfTheirRun needs that without a stop   *)
(* and without a debug session at most one child will report, and which.   *)
(***************************************************************************)
EXTENDS RunLifecycle, SequenceTheorems, TLAPS

\* The engine holds the channel of the child that was not told to end.
HoldsTheUntold ==
    \A i \in Launches : task[i].stage = "up" /\ ~task[i].told => run_stop = i

\* Nothing is known of launches to come.
FreshLaunches == \A i \in Launches : i > launches => task[i].kind = "none"

\* A task of action_stop stands for a click.
StopsWereClicked == stopping <= stops

NeverBoth == ~(ide.running /\ ide.discovery)

IInv ==
    /\ TypeOK /\ StopsWereClicked /\ HoldsTheUntold /\ FreshLaunches /\ NeverBoth /\ ButtonsComeBack

\* Nobody has stopped anything or debugged.
Calm == stops = 0 /\ \A i \in Launches : task[i].kind # "debug"

Unfinished(i) ==
    task[i].kind \in {"run", "scan"} /\ task[i].stage \in {"spawned", "taken", "up"}

\* The flags and the launch context are those of launch i.
Flagged(i) ==
    IF task[i].kind = "scan" THEN ide.discovery ELSE ide.running /\ ide.pending_run = i

NoSession == session = 0 /\ \A k \in DOMAIN events : events[k].name # "Exited"

\* A RunDone is of a child that has ended.
OverIsDone ==
    \A k \in DOMAIN events : events[k].name = "RunDone" =>
        task[events[k].of].stage = "done" /\ task[events[k].of].kind \in {"run", "scan"}

\* There is one child that has not reported, or one report.
OneReport ==
    /\ \A k, l \in DOMAIN events : events[k].name = "RunDone" /\ events[l].name = "RunDone" => k = l
    /\ \A i, j \in Launches : Unfinished(i) /\ Unfinished(j) => i = j
    /\ \A i \in Launches : Unfinished(i) => \A k \in DOMAIN events : events[k].name # "RunDone"

FlagsAreOfIt ==
    /\ \A i \in Launches : Unfinished(i) => Flagged(i)
    /\ \A k \in DOMAIN events : events[k].name = "RunDone" => Flagged(events[k].of)

RowsAreRight == \A r \in records : r.launch = r.result /\ task[r.result].kind = "run"

Alone == NoSession /\ OverIsDone /\ OneReport /\ FlagsAreOfIt /\ RowsAreRight

-----------------------------------------------------------------------------
(* Types.                                                                  *)

Unchanged == UNCHANGED <<run_stop, session, stopping, events, records, stops>>

\* The types of what a click changes.
ClickTypes == task \in [Launches -> Task] /\ launches \in 0 .. MaxLaunches /\ ide \in Ide

LEMMA SpawnType ==
    ASSUME TypeOK, NEW kind \in Kind, Spawn(kind)
    PROVE  task' \in [Launches -> Task] /\ launches' \in 0 .. MaxLaunches
           /\ launches + 1 \in Launches
<1>1. launches + 1 \in Launches /\ launches + 1 \in 0 .. MaxLaunches
  BY BoundsAreNat DEF TypeOK, Spawn, Launches
<1>2. [kind |-> kind, stage |-> "spawned", told |-> FALSE] \in Task
  BY DEF Task, Stage
<1> QED
  BY <1>1, <1>2 DEF TypeOK, Spawn

LEMMA ToldType ==
    ASSUME TypeOK
    PROVE  Told(task) \in [Launches -> Task]
<1>1. run_stop = 0 \/ run_stop \in Launches
  BY DEF TypeOK, Launches
<1> QED
  BY <1>1 DEF TypeOK, Told, Task

\* What the launches, the scan and the panel change has its types.
LEMMA LaunchType ==
    ASSUME TypeOK, NEW app \in Ide,
           LaunchRun(app) \/ LaunchDebug(app) \/ StartDiscovery(app)
           \/ (SpawnNothing /\ ide' = app)
    PROVE  ClickTypes'
<1> USE DEF ClickTypes
<1>1. CASE SpawnNothing /\ ide' = app
  BY <1>1 DEF SpawnNothing, TypeOK
<1>2. CASE Spawn("run") /\ ide' = [app EXCEPT !.running = TRUE, !.pending_run = launches + 1]
  <2>1. launches + 1 \in 0 .. MaxLaunches /\ task' \in [Launches -> Task] /\ launches' \in 0 .. MaxLaunches
    BY <1>2, SpawnType DEF Kind, Launches
  <2> QED
    BY <1>2, <2>1 DEF Ide
<1>3. CASE Spawn("debug") /\ ide' = [app EXCEPT !.building = TRUE, !.debugging = TRUE,
                                          !.pending_run = launches + 1, !.shown = "running"]
  <2>1. launches + 1 \in 0 .. MaxLaunches /\ task' \in [Launches -> Task] /\ launches' \in 0 .. MaxLaunches
    BY <1>3, SpawnType DEF Kind, Launches
  <2> QED
    BY <1>3, <2>1 DEF Ide
<1>4. CASE Spawn("scan") /\ ide' = [app EXCEPT !.discovery = TRUE]
  <2>1. task' \in [Launches -> Task] /\ launches' \in 0 .. MaxLaunches
    BY <1>4, SpawnType DEF Kind
  <2> QED
    BY <1>4, <2>1 DEF Ide
<1> QED
  BY <1>1, <1>2, <1>3, <1>4 DEF LaunchRun, LaunchDebug, StartDiscovery

LEMMA AppTypes ==
    ASSUME ide \in Ide, NEW panel \in Panel
    PROVE  /\ [ide EXCEPT !.pre_run = panel] \in Ide
           /\ [ide EXCEPT !.pre_run = "none"] \in Ide
           /\ [ide EXCEPT !.pre_run = "none", !.pending_launch = "none"] \in Ide
           /\ [ide EXCEPT !.pre_run = "none", !.pending_launch = ide.pre_run] \in Ide
           /\ [ide EXCEPT !.discovery = FALSE, !.pending_launch = "none"] \in Ide
  BY DEF Ide, Panel

LEMMA ClickedType ==
    ASSUME TypeOK, StopsWereClicked, Clicked
    PROVE  TypeOK'
<1>1. ide \in Ide /\ 0 \in 0 .. MaxLaunches
  BY BoundsAreNat DEF TypeOK
<1>2. CASE ActionBuild
  <2>1. ide' \in Ide
    BY <1>1, <1>2 DEF ActionBuild, Ide
  <2>2. task' \in [Launches -> Task] /\ launches' \in 0 .. MaxLaunches
    BY <1>2, SpawnType DEF ActionBuild, Kind
  <2> QED
    BY <1>2, <2>1, <2>2 DEF ActionBuild, OnlyTheIde, TypeOK
<1>3. CASE ActionRun \/ ActionRunTracked \/ ActionDebug \/ ActionDebugDirect \/ Rescan
  <2>1. PICK app \in Ide : LaunchRun(app) \/ LaunchDebug(app) \/ StartDiscovery(app)
                           \/ (SpawnNothing /\ ide' = app)
    BY <1>1, <1>3, AppTypes DEF ActionRun, ActionRunTracked, ActionDebug, ActionDebugDirect,
       Rescan, OpenPreRun, Panel
  <2>2. ClickTypes'
    BY <2>1, LaunchType
  <2> QED
    BY <1>3, <2>2 DEF ActionRun, ActionRunTracked, ActionDebug, ActionDebugDirect,
       Rescan, OnlyTheIde, TypeOK, ClickTypes
<1>4. CASE ConfirmPreRun /\ ~ide.discovery
  <2>1. LaunchRun([ide EXCEPT !.pre_run = "none"]) \/ LaunchDebug([ide EXCEPT !.pre_run = "none"])
    BY <1>4 DEF ConfirmPreRun, Dispatch
  <2>2. ClickTypes'
    BY <1>1, <2>1, AppTypes, LaunchType DEF Panel
  <2> QED
    BY <1>4, <2>2 DEF ConfirmPreRun, TypeOK, ClickTypes
<1>5. CASE ConfirmPreRun /\ ide.discovery
  <2>1. ide' = [ide EXCEPT !.pre_run = "none", !.pending_launch = ide.pre_run] /\ EngineStops
    BY <1>1, <1>5 DEF ConfirmPreRun, Ide
  <2>2. ide' \in Ide
    BY <1>1, <2>1, AppTypes DEF Panel
  <2> QED
    BY <1>1, <1>5, <2>1, <2>2, ToldType DEF ConfirmPreRun, EngineStops, TypeOK
<1>6. CASE CancelPreRun
  <2>1. ide' \in Ide
    BY <1>1, <1>6, AppTypes DEF CancelPreRun, Panel
  <2>2. task' \in [Launches -> Task] /\ launches' = launches /\ run_stop' \in {0, run_stop}
    BY <1>6, ToldType DEF CancelPreRun, EngineStops, SpawnNothing, TypeOK
  <2> QED
    BY <1>1, <1>6, <2>1, <2>2 DEF CancelPreRun, TypeOK
<1>7. CASE ActionStop
  <2>1. ide' \in Ide
    BY <1>1, <1>7 DEF ActionStop, Ide
  <2>2. stopping' \in 0 .. MaxStops /\ stops' \in 0 .. MaxStops
    BY <1>7, BoundsAreNat DEF ActionStop, StopsWereClicked, TypeOK
  <2> QED
    BY <1>1, <1>7, <2>1, <2>2, ToldType DEF ActionStop, EngineStops, TypeOK
<1>8. CASE DebugContinue
  <2>1. ide' \in Ide
    BY <1>1, <1>8 DEF DebugContinue, Ide
  <2> QED
    BY <1>8, <2>1 DEF DebugContinue, OnlyTheIde, TypeOK
<1> QED
  BY <1>2, <1>3, <1>4, <1>5, <1>6, <1>7, <1>8 DEF Clicked

LEMMA PostType ==
    ASSUME TypeOK, NEW event \in Event, Post(event)
    PROVE  events' \in Seq(Event)
  BY DEF TypeOK, Post

LEMMA EventTypes ==
    ASSUME NEW i \in Launches
    PROVE  /\ \A ok \in BOOLEAN : [name |-> "BuildDone", of |-> i, ok |-> ok] \in Event
           /\ \A name \in {"RunDone", "Stopped", "Exited"} : [name |-> name, of |-> i] \in Event
  BY DEF Event

LEMMA WorkType ==
    ASSUME TypeOK, NEW i \in Launches, Works(i) \/ ChildEnds(i)
    PROVE  TypeOK'
<1>1. \A stage \in Stage : [task EXCEPT ![i].stage = stage] \in [Launches -> Task]
  BY DEF TypeOK, Task
<1>2. \A stage \in Stage : [Told(task) EXCEPT ![i].stage = stage] \in [Launches -> Task]
  BY ToldType DEF Task
<1>3. 0 \in 0 .. MaxLaunches /\ i \in 0 .. MaxLaunches
  BY BoundsAreNat DEF Launches
<1>4. CASE RunTakes(i)
  BY <1>2, <1>3, <1>4 DEF RunTakes, OnlyTasks, TypeOK, Stage
<1>5. CASE RunRegisters(i)
  BY <1>2, <1>3, <1>5 DEF RunRegisters, OnlyTasks, TypeOK, Stage
<1>6. CASE ChildEnds(i)
  <2>1. events' \in Seq(Event)
    BY <1>6, EventTypes, PostType DEF ChildEnds
  <2> QED
    BY <1>1, <1>6, <2>1 DEF ChildEnds, Moves, OnlyTasks, TypeOK, Stage
<1>7. CASE BuildEnds(i)
  <2>1. PICK ok \in BOOLEAN :
          /\ Post([name |-> "BuildDone", of |-> i, ok |-> ok])
          /\ Moves(i, IF ok /\ task[i].kind = "debug" THEN "starting" ELSE "done")
    BY <1>7 DEF BuildEnds
  <2>2. events' \in Seq(Event)
    BY <2>1, EventTypes, PostType
  <2>3. task' \in [Launches -> Task]
    BY <1>1, <2>1 DEF Moves, Stage
  <2> QED
    BY <1>7, <2>2, <2>3 DEF BuildEnds, OnlyTasks, TypeOK
<1>8. CASE DebugStarts(i)
  <2>1. events' \in Seq(Event)
    <3>1. CASE session = 0
      BY <1>8, <3>1 DEF DebugStarts, TypeOK
    <3>2. CASE session # 0
      <4>1. session \in Launches
        BY <3>2 DEF TypeOK, Launches
      <4> QED
        BY <1>8, <3>2, <4>1, EventTypes, PostType DEF DebugStarts
    <3> QED
      BY <3>1, <3>2
  <2> QED
    BY <1>1, <1>3, <1>8, <2>1 DEF DebugStarts, Moves, OnlyTasks, TypeOK, Stage
<1> QED
  BY <1>4, <1>5, <1>6, <1>7, <1>8 DEF Works

LEMMA SessionType ==
    ASSUME TypeOK, DriverStops \/ SessionExits \/ SessionPauses
    PROVE  TypeOK'
<1>1. events' \in Seq(Event)
  <2>1. CASE session = 0
    BY <2>1 DEF DriverStops, SessionExits, SessionPauses, TypeOK
  <2>2. CASE session # 0
    <3>1. session \in Launches
      BY <2>2 DEF TypeOK, Launches
    <3> QED
      BY <2>2, <3>1, EventTypes, PostType DEF DriverStops, SessionExits, SessionPauses
  <2> QED
    BY <2>1, <2>2
<1>2. 0 \in 0 .. MaxLaunches /\ stopping' \in 0 .. MaxStops
  BY BoundsAreNat DEF DriverStops, SessionExits, SessionPauses, OnlyTasks, TypeOK
<1> QED
  BY <1>1, <1>2 DEF DriverStops, SessionExits, SessionPauses, OnlyTasks, TypeOK

\* The event that is applied, and what is left.
LEMMA ArrivesType ==
    ASSUME TypeOK, NEW name, Arrives(name)
    PROVE  /\ Head(events) \in Event /\ events' \in Seq(Event)
           /\ 1 \in DOMAIN events /\ Head(events) = events[1]
           /\ \A k \in DOMAIN events' : k + 1 \in DOMAIN events /\ events'[k] = events[k + 1]
           /\ \A k \in DOMAIN events : k = 1 \/ (k - 1 \in DOMAIN events' /\ events'[k - 1] = events[k])
  BY DEF TypeOK, Arrives

LEMMA PersistedType ==
    ASSUME TypeOK, NEW result \in Launches
    PROVE  Persisted(result) \subseteq Record
  BY DEF Persisted, Record, TypeOK, Ide, Launches

LEMMA AppliedType ==
    ASSUME TypeOK, Applied
    PROVE  TypeOK'
<1>1. ide \in Ide /\ 0 \in 0 .. MaxLaunches
  BY BoundsAreNat DEF TypeOK
<1>2. CASE OnBuildDone
  <2>1. Head(events).ok \in BOOLEAN /\ events' \in Seq(Event)
    BY <1>2, ArrivesType DEF OnBuildDone, Arrives, Event
  <2>2. ide' \in Ide
    BY <1>1, <1>2, <2>1 DEF OnBuildDone, Ide
  <2> QED
    BY <1>2, <2>1, <2>2 DEF OnBuildDone, SpawnNothing, TypeOK
<1>3. CASE OnScanDone
  <2>1. PICK app \in Ide : LaunchRun(app) \/ LaunchDebug(app) \/ (SpawnNothing /\ ide' = app)
    BY <1>1, <1>3, AppTypes DEF OnScanDone, Dispatch, Panel
  <2>2. ClickTypes'
    BY <2>1, LaunchType
  <2> QED
    BY <1>3, <2>2, ArrivesType DEF OnScanDone, TypeOK, ClickTypes
<1>4. CASE OnRunDone
  <2>1. ide' \in Ide
    BY <1>1, <1>4 DEF OnRunDone, Ide
  <2>2. events' \in Seq(Event) /\ Head(events).of \in Launches
    BY <1>4, ArrivesType DEF OnRunDone, Event
  <2>3. records' \subseteq Record
    BY <1>4, <2>2, PersistedType DEF OnRunDone
  <2> QED
    BY <1>4, <2>1, <2>2, <2>3 DEF OnRunDone, SpawnNothing, TypeOK
<1>5. CASE OnStopped
  <2>1. ide' \in Ide
    BY <1>1, <1>5 DEF OnStopped, Ide
  <2> QED
    BY <1>5, <2>1, ArrivesType DEF OnStopped, SpawnNothing, TypeOK
<1>6. CASE OnExited
  <2>1. ide' \in Ide
    BY <1>1, <1>6 DEF OnExited, Ide
  <2>2. events' \in Seq(Event) /\ Head(events).of \in Launches
    BY <1>6, ArrivesType DEF OnExited, Event
  <2>3. records' \subseteq Record
    BY <1>6, <2>2, PersistedType DEF OnExited
  <2> QED
    BY <1>6, <2>1, <2>2, <2>3 DEF OnExited, SpawnNothing, TypeOK
<1> QED
  BY <1>2, <1>3, <1>4, <1>5, <1>6 DEF Applied

LEMMA NextType ==
    ASSUME TypeOK, StopsWereClicked, Next
    PROVE  TypeOK' /\ StopsWereClicked'
<1>1. CASE DiscoveryTick
  <2>1. 0 \in 0 .. MaxLaunches
    BY BoundsAreNat
  <2> QED
    BY <1>1, <2>1, ToldType DEF DiscoveryTick, EngineStops, TypeOK, StopsWereClicked
<1>2. TypeOK'
  BY <1>1, ClickedType, AppliedType, WorkType, SessionType DEF Next
<1>3. StopsWereClicked'
  <2>1. CASE ActionStop
    BY <2>1 DEF ActionStop, TypeOK, StopsWereClicked
  <2>2. CASE DriverStops
    BY <2>2 DEF DriverStops, TypeOK, StopsWereClicked
  <2>3. CASE Clicked /\ ~ActionStop
    <3>1. UNCHANGED <<stopping, stops>>
      BY <2>3 DEF Clicked, ActionBuild, ActionRun, ActionRunTracked, ActionDebug,
         ActionDebugDirect, Rescan, ConfirmPreRun, CancelPreRun, DebugContinue, OnlyTheIde
    <3> QED
      BY <3>1 DEF StopsWereClicked
  <2>4. CASE Applied \/ DiscoveryTick \/ SessionExits \/ SessionPauses
             \/ \E i \in Launches : Works(i) \/ ChildEnds(i)
    <3>1. UNCHANGED <<stopping, stops>>
      BY <2>4 DEF Applied, OnBuildDone, OnScanDone, OnRunDone, OnStopped, OnExited,
         DiscoveryTick, SessionExits, SessionPauses, Works, RunTakes, RunRegisters,
         BuildEnds, DebugStarts, ChildEnds, OnlyTasks
    <3> QED
      BY <3>1 DEF StopsWereClicked
  <2> QED
    BY <2>1, <2>2, <2>3, <2>4 DEF Next
<1> QED
  BY <1>2, <1>3

-----------------------------------------------------------------------------
(* What a step does to the tasks.                                          *)

\* Nothing was spawned and the tasks are as they were, but for who was told.
OnlyTold ==
    /\ launches' = launches
    /\ \/ task' = task /\ run_stop' = run_stop
       \/ task' = Told(task) /\ run_stop' = 0

\* One more task.
OneMore == (\E kind \in Kind : Spawn(kind)) /\ run_stop' = run_stop

LEMMA TasksOfOthers ==
    ASSUME Clicked \/ Applied \/ DiscoveryTick \/ DriverStops \/ SessionExits \/ SessionPauses
    PROVE  OnlyTold \/ OneMore
<1> USE DEF OnlyTold, OneMore, Kind, SpawnNothing, EngineStops, LaunchRun, LaunchDebug,
        StartDiscovery, Dispatch, OpenPreRun
<1>1. CASE ActionBuild \/ ActionRun \/ ActionRunTracked
  BY <1>1 DEF ActionBuild, ActionRun, ActionRunTracked, OnlyTheIde
<1>2. CASE ActionDebug \/ ActionDebugDirect \/ Rescan
  BY <1>2 DEF ActionDebug, ActionDebugDirect, Rescan, OnlyTheIde
<1>3. CASE ConfirmPreRun \/ CancelPreRun \/ ActionStop \/ DebugContinue
  BY <1>3 DEF ConfirmPreRun, CancelPreRun, ActionStop, DebugContinue, OnlyTheIde
<1>4. CASE Applied
  BY <1>4 DEF Applied, OnBuildDone, OnScanDone, OnRunDone, OnStopped, OnExited
<1>5. CASE DiscoveryTick \/ DriverStops \/ SessionExits \/ SessionPauses
  BY <1>5 DEF DiscoveryTick, DriverStops, SessionExits, SessionPauses, OnlyTasks
<1> QED
  BY <1>1, <1>2, <1>3, <1>4, <1>5 DEF Clicked

\* Whoever is told, kind and stage stay.
LEMMA ToldKeeps ==
    ASSUME TypeOK, NEW i \in Launches
    PROVE  /\ Told(task)[i].kind = task[i].kind /\ Told(task)[i].stage = task[i].stage
           /\ Told(task)[i].told = (task[i].told \/ run_stop = i)
<1>1. task[i] \in Task /\ task \in [Launches -> Task]
  BY DEF TypeOK
<1>2. CASE run_stop = 0
  BY <1>1, <1>2 DEF Told, Task, Launches
<1>3. CASE run_stop # 0
  <2>1. run_stop \in Launches /\ task[run_stop] \in Task
    BY <1>3 DEF TypeOK, Launches
  <2>2. Told(task) = [task EXCEPT ![run_stop] = [task[run_stop] EXCEPT !.told = TRUE]]
    BY <1>3 DEF Told
  <2>3. CASE run_stop = i
    BY <1>1, <2>1, <2>2, <2>3 DEF Task
  <2>4. CASE run_stop # i
    BY <1>1, <2>1, <2>2, <2>4 DEF Task
  <2> QED
    BY <2>3, <2>4
<1> QED
  BY <1>2, <1>3

\* A task that was spawned, and the others.
LEMMA SpawnKeeps ==
    ASSUME TypeOK, NEW kind \in Kind, Spawn(kind)
    PROVE  /\ launches + 1 \in Launches
           /\ task'[launches + 1].kind = kind /\ task'[launches + 1].stage = "spawned"
           /\ \A i \in Launches : i # launches + 1 => task'[i] = task[i]
  BY SpawnType DEF Spawn, TypeOK

-----------------------------------------------------------------------------
(* One child.                                                              *)

LEMMA HoldsStep ==
    ASSUME TypeOK, HoldsTheUntold, Next
    PROVE  HoldsTheUntold'
<1>1. CASE OnlyTold
  BY <1>1, ToldKeeps DEF OnlyTold, HoldsTheUntold
<1>2. CASE OneMore
  <2>1. PICK kind \in Kind : Spawn(kind)
    BY <1>2 DEF OneMore
  <2>2. /\ task'[launches + 1].stage = "spawned"
        /\ \A i \in Launches : i # launches + 1 => task'[i] = task[i]
    BY <2>1, SpawnKeeps
  <2>3. \A i \in Launches : task'[i].stage = "up" => task'[i] = task[i]
    BY <2>2
  <2> QED
    BY <1>2, <2>3 DEF OneMore, HoldsTheUntold
<1>3. ASSUME NEW i \in Launches, RunTakes(i) PROVE HoldsTheUntold'
  <2>1. \A j \in Launches : task'[j].stage = "up" /\ ~task'[j].told =>
            j # i /\ task'[j] = Told(task)[j]
    BY <1>3, ToldType DEF RunTakes, Task
  <2> QED
    BY <2>1, ToldKeeps DEF HoldsTheUntold
<1>4. ASSUME NEW i \in Launches, RunRegisters(i) PROVE HoldsTheUntold'
  <2>1. \A j \in Launches : j # i => task'[j] = Told(task)[j]
    BY <1>4, ToldType DEF RunRegisters
  <2>2. run_stop' = i
    BY <1>4 DEF RunRegisters
  <2> QED
    BY <2>1, <2>2, ToldKeeps DEF HoldsTheUntold
<1>5. ASSUME NEW i \in Launches, BuildEnds(i) \/ DebugStarts(i) \/ ChildEnds(i)
      PROVE  HoldsTheUntold'
  <2>1. PICK stage \in {"starting", "done"} : Moves(i, stage)
    BY <1>5 DEF BuildEnds, DebugStarts, ChildEnds
  <2>2. \A j \in Launches : task'[j].stage = "up" => task'[j] = task[j]
    BY <2>1 DEF Moves, TypeOK, Task
  <2>3. run_stop' = run_stop
    BY <1>5 DEF BuildEnds, DebugStarts, ChildEnds
  <2> QED
    BY <2>2, <2>3 DEF HoldsTheUntold
<1> QED
  BY <1>1, <1>2, <1>3, <1>4, <1>5, TasksOfOthers DEF Next, Works

-----------------------------------------------------------------------------
(* The flags.                                                              *)

\* Launches to come stay unknown.
LEMMA FreshStep ==
    ASSUME TypeOK, FreshLaunches, Next
    PROVE  FreshLaunches'
<1>1. CASE OnlyTold
  BY <1>1, ToldKeeps DEF OnlyTold, FreshLaunches
<1>2. CASE OneMore
  <2>1. PICK kind \in Kind : Spawn(kind)
    BY <1>2 DEF OneMore
  <2>2. launches' = launches + 1 /\ launches \in Nat
    BY <2>1 DEF Spawn, TypeOK
  <2>3. \A i \in Launches : i # launches + 1 => task'[i] = task[i]
    BY <2>1, SpawnKeeps
  <2>4. \A i \in Launches : i > launches + 1 => i > launches /\ i # launches + 1
    BY <2>2, BoundsAreNat DEF Launches
  <2> QED
    BY <2>2, <2>3, <2>4 DEF FreshLaunches
<1>3. ASSUME NEW i \in Launches, Works(i) \/ ChildEnds(i) PROVE FreshLaunches'
  <2>1. launches' = launches
    BY <1>3 DEF Works, RunTakes, RunRegisters, BuildEnds, DebugStarts, ChildEnds, OnlyTasks
  <2>2. \A j \in Launches : task'[j].kind = task[j].kind
    <3>1. CASE RunTakes(i) \/ RunRegisters(i)
      BY <3>1, ToldKeeps, ToldType DEF RunTakes, RunRegisters, Task
    <3>2. CASE BuildEnds(i) \/ DebugStarts(i) \/ ChildEnds(i)
      <4>1. PICK stage \in {"starting", "done"} : task' = [task EXCEPT ![i].stage = stage]
        BY <3>2 DEF BuildEnds, DebugStarts, ChildEnds, Moves
      <4> QED
        BY <4>1 DEF TypeOK, Task
    <3> QED
      BY <1>3, <3>1, <3>2 DEF Works
  <2> QED
    BY <2>1, <2>2 DEF FreshLaunches
<1> QED
  BY <1>1, <1>2, <1>3, TasksOfOthers DEF Next

\* A run and a scan are never believed to be up together.
LEMMA NeverBothStep ==
    ASSUME TypeOK, NeverBoth, Next
    PROVE  NeverBoth'
<1>1. ide \in Ide
  BY DEF TypeOK
<1> USE <1>1 DEF NeverBoth, Ide, LaunchRun, LaunchDebug, StartDiscovery, Dispatch, OpenPreRun
<1>2. CASE ActionBuild \/ ActionRun \/ ActionRunTracked \/ ActionStop \/ DebugContinue
  BY <1>2 DEF ActionBuild, ActionRun, ActionRunTracked, RunGate, ActionStop, DebugContinue
<1>3. CASE ActionDebug \/ ActionDebugDirect \/ Rescan
  BY <1>3 DEF ActionDebug, ActionDebugDirect, Rescan, DebugGate
<1>4. CASE ConfirmPreRun \/ CancelPreRun
  BY <1>4 DEF ConfirmPreRun, CancelPreRun
<1>5. CASE Applied
  BY <1>5 DEF Applied, OnBuildDone, OnScanDone, OnRunDone, OnStopped, OnExited
<1>6. CASE DiscoveryTick \/ DriverStops \/ SessionExits \/ SessionPauses
           \/ \E i \in Launches : Works(i) \/ ChildEnds(i)
  BY <1>6 DEF DiscoveryTick, DriverStops, SessionExits, SessionPauses, OnlyTasks, Works,
     RunTakes, RunRegisters, BuildEnds, DebugStarts, ChildEnds
<1> QED
  BY <1>2, <1>3, <1>4, <1>5, <1>6 DEF Next, Clicked

\* A flag that is raised is raised for a task that is spawned.
LEMMA FlagsOfClicks ==
    ASSUME TypeOK, NeverBoth, Clicked \/ OnScanDone
    PROVE  /\ ide'.running => ide.running \/ Spawn("run")
           /\ ide'.discovery => ide.discovery \/ Spawn("scan")
           /\ ide'.building => ide.building \/ Spawn("build") \/ Spawn("debug")
<1>1. ide \in Ide
  BY DEF TypeOK
<1> USE <1>1 DEF NeverBoth, Ide, LaunchRun, LaunchDebug, StartDiscovery, Dispatch, OpenPreRun
<1>2. CASE ActionBuild \/ ActionRun \/ ActionRunTracked \/ ActionStop \/ DebugContinue
  BY <1>2 DEF ActionBuild, ActionRun, ActionRunTracked, RunGate, ActionStop, DebugContinue
<1>3. CASE ActionDebug \/ ActionDebugDirect \/ Rescan
  BY <1>3 DEF ActionDebug, ActionDebugDirect, Rescan, DebugGate
<1>4. CASE ConfirmPreRun \/ CancelPreRun
  BY <1>4 DEF ConfirmPreRun, CancelPreRun
<1>5. CASE OnScanDone
  BY <1>5 DEF OnScanDone
<1> QED
  BY <1>2, <1>3, <1>4, <1>5 DEF Clicked

RunReports == Reporting({"run", "scan"}, "RunDone")
BuildReports == Reporting({"build", "debug"}, "BuildDone")

\* What will report is not disturbed by a click or an event of another kind.
LEMMA ReportingKept ==
    ASSUME TypeOK, FreshLaunches, OnlyTold \/ OneMore, NEW name \in {"RunDone", "BuildDone"},
           NEW kinds \in {{"run", "scan"}, {"build", "debug"}}, Reporting(kinds, name),
           \A k \in DOMAIN events : events[k].name = name =>
                \E l \in DOMAIN events' : events'[l].name = name
    PROVE  Reporting(kinds, name)'
<1>1. CASE \E k \in DOMAIN events : events[k].name = name
  BY <1>1 DEF Reporting
<1>2. CASE ~\E k \in DOMAIN events : events[k].name = name
  <2>1. PICK i \in Launches :
          /\ task[i].kind \in kinds
          /\ task[i].stage \in IF name = "RunDone" THEN {"spawned", "taken", "up"} ELSE {"spawned"}
    BY <1>2 DEF Reporting
  <2>2. task'[i].kind = task[i].kind /\ task'[i].stage = task[i].stage
    <3>1. CASE OnlyTold
      BY <3>1, ToldKeeps DEF OnlyTold
    <3>2. CASE OneMore
      <4>1. PICK kind \in Kind : Spawn(kind)
        BY <3>2 DEF OneMore
      <4>2. i # launches + 1
        <5>1. launches \in Nat /\ "none" \notin kinds
          BY DEF TypeOK
        <5> QED
          BY <2>1, <5>1 DEF FreshLaunches
      <4> QED
        BY <4>1, <4>2, SpawnKeeps
    <3> QED
      BY <3>1, <3>2
  <2> QED
    BY <2>1, <2>2 DEF Reporting
<1> QED
  BY <1>1, <1>2

\* A task that was spawned will report.
LEMMA SpawnReports ==
    ASSUME TypeOK, NEW kind \in Kind, Spawn(kind)
    PROVE  /\ kind \in {"run", "scan"} => RunReports'
           /\ kind \in {"build", "debug"} => BuildReports'
  BY SpawnKeeps DEF RunReports, BuildReports, Reporting

\* A task reports before it is done.
LEMMA WorkReports ==
    ASSUME TypeOK, NEW i \in Launches, Works(i) \/ ChildEnds(i)
    PROVE  (RunReports => RunReports') /\ (BuildReports => BuildReports')
<1> USE DEF RunReports, BuildReports, Reporting
<1>1. CASE RunTakes(i) \/ RunRegisters(i)
  <2>1. PICK stage \in {"taken", "up"} :
          task' = [Told(task) EXCEPT ![i].stage = stage] /\ events' = events
    BY <1>1 DEF RunTakes, RunRegisters
  <2>2. \A j \in Launches :
          /\ task'[j].kind = task[j].kind
          /\ j # i => task'[j].stage = task[j].stage
          /\ j = i => task'[j].stage = stage
    BY <2>1, ToldType, ToldKeeps DEF Task
  <2>3. IsRun(i)
    BY <1>1 DEF RunTakes, RunRegisters
  <2>4. task[i].kind \in {"run", "scan"}
    BY <2>3 DEF IsRun
  <2>5. \A j \in Launches :
          task[j].kind \in {"run", "scan"} /\ task[j].stage \in {"spawned", "taken", "up"} =>
              task'[j].kind \in {"run", "scan"} /\ task'[j].stage \in {"spawned", "taken", "up"}
    BY <2>1, <2>2, Zenon
  <2>6. \A j \in Launches :
          task[j].kind \in {"build", "debug"} /\ task[j].stage = "spawned" =>
              task'[j].kind \in {"build", "debug"} /\ task'[j].stage = "spawned"
    <3>1. \A j \in Launches : task[j].kind \in {"build", "debug"} => j # i
      BY <2>4
    <3> QED
      BY <2>2, <3>1, Zenon
  <2>7. RunReports => RunReports'
    BY <2>1, <2>5
  <2>8. BuildReports => BuildReports'
    BY <2>1, <2>6
  <2> QED
    BY <2>7, <2>8
<1>2. CASE BuildEnds(i) \/ DebugStarts(i) \/ ChildEnds(i)
  <2>1. PICK stage \in {"starting", "done"} : task' = [task EXCEPT ![i].stage = stage]
    BY <1>2 DEF BuildEnds, DebugStarts, ChildEnds, Moves
  <2>2. \A j \in Launches : task'[j].kind = task[j].kind /\ (j # i => task'[j] = task[j])
    BY <2>1 DEF TypeOK, Task
  <2>3. events' = events \/ \E event \in Event : Post(event)
    <3>1. CASE BuildEnds(i) \/ ChildEnds(i)
      BY <3>1, EventTypes DEF BuildEnds, ChildEnds
    <3>2. CASE DebugStarts(i)
      <4>1. session = 0 \/ session \in Launches
        BY DEF TypeOK, Launches
      <4> QED
        BY <3>2, <4>1, EventTypes DEF DebugStarts
    <3> QED
      BY <1>2, <3>1, <3>2
  <2>4. \A k \in DOMAIN events : k \in DOMAIN events' /\ events'[k] = events[k]
    BY <2>3 DEF Post, TypeOK
  <2>5. CASE BuildEnds(i)
    <3>1. PICK ok \in BOOLEAN : Post([name |-> "BuildDone", of |-> i, ok |-> ok])
      BY <2>5 DEF BuildEnds
    <3>2. Len(events) + 1 \in DOMAIN events'
          /\ events'[Len(events) + 1] = [name |-> "BuildDone", of |-> i, ok |-> ok]
      BY <3>1 DEF Post, TypeOK
    <3>3. task[i].kind \in {"build", "debug"}
      BY <2>5 DEF BuildEnds
    <3> QED
      BY <2>2, <2>4, <3>2, <3>3
  <2>6. CASE ChildEnds(i)
    <3>1. Len(events) + 1 \in DOMAIN events'
          /\ events'[Len(events) + 1] = [name |-> "RunDone", of |-> i]
      BY <2>6 DEF ChildEnds, Post, TypeOK
    <3>2. task[i].kind \in {"run", "scan"}
      BY <2>6 DEF ChildEnds, IsRun
    <3> QED
      BY <2>2, <2>4, <3>1, <3>2
  <2>7. CASE DebugStarts(i)
    <3>1. task[i].kind = "debug" /\ task[i].stage = "starting"
      BY <2>7 DEF DebugStarts
    <3> QED
      BY <2>2, <2>4, <3>1
  <2> QED
    BY <1>2, <2>5, <2>6, <2>7
<1> QED
  BY <1>1, <1>2 DEF Works

LEMMA ButtonsStep ==
    ASSUME TypeOK, FreshLaunches, NeverBoth, ButtonsComeBack, Next
    PROVE  ButtonsComeBack'
<1>1. /\ ide.running \/ ide.discovery => RunReports
      /\ ide.building => BuildReports
  BY DEF ButtonsComeBack, RunReports, BuildReports
<1>2. SUFFICES /\ ide'.running \/ ide'.discovery => RunReports'
               /\ ide'.building => BuildReports'
  BY DEF ButtonsComeBack, RunReports, BuildReports
<1>3. ASSUME NEW i \in Launches, Works(i) \/ ChildEnds(i)
      PROVE  /\ ide'.running \/ ide'.discovery => RunReports'
             /\ ide'.building => BuildReports'
  <2>1. ide' = ide
    BY <1>3 DEF Works, RunTakes, RunRegisters, BuildEnds, DebugStarts, ChildEnds, OnlyTasks
  <2> QED
    BY <1>1, <1>3, <2>1, WorkReports
<1>4. ASSUME OnlyTold \/ OneMore, \A k \in DOMAIN events : k \in DOMAIN events' /\ events'[k] = events[k]
      PROVE  (RunReports => RunReports') /\ (BuildReports => BuildReports')
  BY <1>4, ReportingKept DEF RunReports, BuildReports
<1>5. CASE Clicked
  <2>1. events' = events
    BY <1>5 DEF Clicked, ActionBuild, ActionRun, ActionRunTracked, ActionDebug,
       ActionDebugDirect, Rescan, ConfirmPreRun, CancelPreRun, ActionStop, DebugContinue, OnlyTheIde
  <2>2. OnlyTold \/ OneMore
    BY <1>5, TasksOfOthers
  <2> QED
    BY <1>1, <1>4, <1>5, <2>1, <2>2, FlagsOfClicks, SpawnReports DEF Kind
<1>6. CASE DiscoveryTick \/ DriverStops \/ SessionExits \/ SessionPauses
  <2>1. ide' = ide
    BY <1>6 DEF DiscoveryTick, DriverStops, SessionExits, SessionPauses, OnlyTasks
  <2>2. events' = events \/ \E event \in Event : Post(event)
    <3>1. CASE session = 0
      BY <1>6, <3>1 DEF DiscoveryTick, DriverStops, SessionExits, SessionPauses
    <3>2. CASE session # 0
      <4>1. session \in Launches
        BY <3>2 DEF TypeOK, Launches
      <4> QED
        BY <1>6, <4>1, EventTypes DEF DiscoveryTick, DriverStops, SessionExits, SessionPauses
    <3> QED
      BY <3>1, <3>2
  <2>3. \A k \in DOMAIN events : k \in DOMAIN events' /\ events'[k] = events[k]
    BY <2>2 DEF Post, TypeOK
  <2>4. OnlyTold \/ OneMore
    BY <1>6, TasksOfOthers
  <2> QED
    BY <1>1, <1>4, <2>1, <2>3, <2>4
<1>7. ASSUME NEW name, Arrives(name), OnlyTold \/ OneMore
      PROVE  /\ name # "RunDone" /\ RunReports => RunReports'
             /\ name # "BuildDone" /\ BuildReports => BuildReports'
  <2>1. \A k \in DOMAIN events : events[k].name # name =>
            k - 1 \in DOMAIN events' /\ events'[k - 1].name = events[k].name
    BY <1>7, ArrivesType DEF Arrives
  <2> QED
    BY <1>7, <2>1, ReportingKept DEF RunReports, BuildReports
<1>8. CASE OnBuildDone
  <2>1. ide'.running = ide.running /\ ide'.discovery = ide.discovery /\ ~ide'.building
    BY <1>8 DEF OnBuildDone, TypeOK, Ide
  <2>2. Arrives("BuildDone") /\ (OnlyTold \/ OneMore)
    BY <1>8, TasksOfOthers DEF OnBuildDone, Applied
  <2> QED
    BY <1>1, <1>7, <2>1, <2>2
<1>9. CASE OnScanDone
  <2>1. Arrives("RunDone") /\ (OnlyTold \/ OneMore) /\ ide.discovery
    BY <1>9, TasksOfOthers DEF OnScanDone, Applied
  <2>2. ~ide'.discovery
    BY <1>9 DEF OnScanDone, Dispatch, LaunchRun, LaunchDebug, TypeOK, Ide
  <2> QED
    BY <1>1, <1>7, <1>9, <2>1, <2>2, FlagsOfClicks, SpawnReports DEF Kind, NeverBoth
<1>10. CASE OnRunDone
  <2>1. ~ide'.running /\ ~ide'.discovery /\ ide'.building = ide.building
    BY <1>10 DEF OnRunDone, TypeOK, Ide
  <2>2. Arrives("RunDone") /\ (OnlyTold \/ OneMore)
    BY <1>10, TasksOfOthers DEF OnRunDone, Applied
  <2> QED
    BY <1>1, <1>7, <2>1, <2>2
<1>11. CASE OnStopped \/ OnExited
  <2>1. ide'.running = ide.running /\ ide'.discovery = ide.discovery
        /\ ide'.building = ide.building
    BY <1>11 DEF OnStopped, OnExited, TypeOK, Ide
  <2>2. (Arrives("Stopped") \/ Arrives("Exited")) /\ (OnlyTold \/ OneMore)
    BY <1>11, TasksOfOthers DEF OnStopped, OnExited, Applied
  <2> QED
    BY <1>1, <1>7, <2>1, <2>2
<1> QED
  BY <1>3, <1>5, <1>6, <1>8, <1>9, <1>10, <1>11 DEF Next, Applied

-----------------------------------------------------------------------------
(* Runs without a stop and without a debug session.                        *)

\* A task stays what it is.
LEMMA KindsStay ==
    ASSUME TypeOK, FreshLaunches, Next
    PROVE  \A i \in Launches : task[i].kind # "none" => task'[i].kind = task[i].kind
<1>1. CASE OnlyTold
  BY <1>1, ToldKeeps DEF OnlyTold
<1>2. CASE OneMore
  <2>1. PICK kind \in Kind : Spawn(kind)
    BY <1>2 DEF OneMore
  <2>2. task[launches + 1].kind = "none"
    <3>1. launches + 1 \in Launches /\ launches \in Nat
      BY <2>1, SpawnKeeps DEF TypeOK
    <3> QED
      BY <3>1 DEF FreshLaunches
  <2> QED
    BY <2>1, <2>2, SpawnKeeps
<1>3. ASSUME NEW i \in Launches, Works(i) \/ ChildEnds(i)
      PROVE  \A j \in Launches : task'[j].kind = task[j].kind
  <2>1. CASE RunTakes(i) \/ RunRegisters(i)
    BY <2>1, ToldKeeps, ToldType DEF RunTakes, RunRegisters, Task
  <2>2. CASE BuildEnds(i) \/ DebugStarts(i) \/ ChildEnds(i)
    <3>1. PICK stage \in {"starting", "done"} : task' = [task EXCEPT ![i].stage = stage]
      BY <2>2 DEF BuildEnds, DebugStarts, ChildEnds, Moves
    <3> QED
      BY <3>1 DEF TypeOK, Task
  <2> QED
    BY <1>3, <2>1, <2>2 DEF Works
<1> QED
  BY <1>1, <1>2, <1>3, TasksOfOthers DEF Next

LEMMA StopsGrow ==
    ASSUME TypeOK, Next, stops' = 0
    PROVE  stops = 0 /\ ~ActionStop
<1>1. CASE Clicked
  BY <1>1 DEF Clicked, ActionBuild, ActionRun, ActionRunTracked, ActionDebug,
     ActionDebugDirect, Rescan, ConfirmPreRun, CancelPreRun, ActionStop, DebugContinue,
     OnlyTheIde, TypeOK
<1>2. CASE ~Clicked
  BY <1>2 DEF Next, Clicked, Applied, OnBuildDone, OnScanDone, OnRunDone, OnStopped, OnExited,
     DiscoveryTick, DriverStops, SessionExits, SessionPauses, Works, RunTakes, RunRegisters,
     BuildEnds, DebugStarts, ChildEnds, OnlyTasks
<1> QED
  BY <1>1, <1>2

\* It was calm before, and no debug session was launched.
LEMMA CalmBefore ==
    ASSUME TypeOK, FreshLaunches, Next, Calm'
    PROVE  Calm /\ ~Spawn("debug") /\ ~ActionStop
<1>1. stops = 0 /\ ~ActionStop
  BY StopsGrow DEF Calm
<1>2. \A i \in Launches : task[i].kind # "debug"
  BY KindsStay DEF Calm
<1>3. ~Spawn("debug")
  BY SpawnKeeps DEF Calm, Kind
<1> QED
  BY <1>1, <1>2, <1>3 DEF Calm

\* A step that changes nothing of this but who was told, or spawns a build.
LEMMA AloneQuietly ==
    ASSUME TypeOK, FreshLaunches, Alone,
           OnlyTold \/ (Spawn("build") /\ run_stop' = run_stop),
           UNCHANGED <<events, session, records>>,
           ide'.running = ide.running, ide'.discovery = ide.discovery,
           ide'.pending_run = ide.pending_run
    PROVE  Alone'
<1>1. CASE OnlyTold
  <2>1. \A i \in Launches : task'[i].kind = task[i].kind /\ task'[i].stage = task[i].stage
    BY <1>1, ToldKeeps DEF OnlyTold
  <2>2. \A i \in Launches : (Unfinished(i)' <=> Unfinished(i)) /\ (Flagged(i)' <=> Flagged(i))
    BY <2>1 DEF Unfinished, Flagged
  <2>3. \A k \in DOMAIN events : events[k] \in Event /\ events[k].of \in Launches
    BY DEF TypeOK, Event
  <2>4. \A r \in records : r.result \in Launches
    BY DEF TypeOK, Record
  <2> QED
    BY <2>1, <2>2, <2>3, <2>4 DEF Alone, NoSession, OverIsDone, OneReport, FlagsAreOfIt, RowsAreRight
<1>2. CASE Spawn("build")
  <2> DEFINE new == launches + 1
  <2>1. /\ new \in Launches /\ task'[new].kind = "build"
        /\ \A i \in Launches : i # new => task'[i] = task[i]
    BY <1>2, SpawnKeeps DEF Kind
  <2>2. task[new].kind = "none"
    BY <2>1 DEF FreshLaunches, TypeOK
  <2>3. \A i \in Launches : Unfinished(i)' => i # new /\ Unfinished(i)
    BY <2>1 DEF Unfinished
  <2>4. \A i \in Launches : i # new => (Flagged(i)' <=> Flagged(i))
    BY <2>1 DEF Flagged
  <2>5. \A k \in DOMAIN events : events[k].name = "RunDone" =>
            events[k].of \in Launches /\ events[k].of # new
    BY <2>2 DEF Alone, OverIsDone, TypeOK, Event
  <2>6. \A r \in records : r.result \in Launches /\ r.result # new
    BY <2>2 DEF Alone, RowsAreRight, TypeOK, Record
  <2> HIDE DEF new
  <2>7. NoSession' /\ OneReport'
    BY <2>3 DEF Alone, NoSession, OneReport
  <2>8. OverIsDone' /\ RowsAreRight'
    BY <2>1, <2>5, <2>6 DEF Alone, OverIsDone, RowsAreRight
  <2>9. FlagsAreOfIt'
    BY <2>3, <2>4, <2>5 DEF Alone, FlagsAreOfIt
  <2> QED
    BY <2>7, <2>8, <2>9 DEF Alone
<1> QED
  BY <1>1, <1>2

\* A run or a scan is launched when no other one is up and no report is left.
LEMMA AloneLaunch ==
    ASSUME TypeOK, FreshLaunches, NoSession, OverIsDone, RowsAreRight,
           \A i \in Launches : ~Unfinished(i),
           \A k \in DOMAIN events' : events'[k].name \notin {"RunDone", "Exited"},
           NEW kind \in {"run", "scan"}, Spawn(kind),
           UNCHANGED <<session, records>>,
           kind = "run" => ide'.running /\ ide'.pending_run = launches + 1,
           kind = "scan" => ide'.discovery
    PROVE  Alone'
<1>1. PICK new \in Launches : new = launches + 1 /\ new > launches
  BY SpawnKeeps DEF Kind, TypeOK
<1>2. /\ task'[new].kind = kind
      /\ \A i \in Launches : i # new => task'[i] = task[i]
  BY <1>1, SpawnKeeps DEF Kind
<1>3. task[new].kind = "none"
  BY <1>1 DEF FreshLaunches
<1>4. \A i \in Launches : Unfinished(i)' => i = new
  BY <1>2 DEF Unfinished
<1>5. Flagged(new)'
  BY <1>1, <1>2 DEF Flagged
<1>6. \A r \in records : r.result \in Launches /\ r.result # new
  BY <1>3 DEF RowsAreRight, TypeOK, Record
<1>7. RowsAreRight'
  BY <1>2, <1>6 DEF RowsAreRight
<1>8. NoSession' /\ OverIsDone' /\ OneReport'
  BY <1>4 DEF NoSession, OverIsDone, OneReport
<1>9. FlagsAreOfIt'
  BY <1>4, <1>5 DEF FlagsAreOfIt
<1> QED
  BY <1>7, <1>8, <1>9 DEF Alone

\* When the flags say that nothing is up, nothing is.
LEMMA NothingUp ==
    ASSUME TypeOK, Alone, ~ide.running, ~ide.discovery
    PROVE  /\ \A i \in Launches : ~Unfinished(i)
           /\ \A k \in DOMAIN events : events[k].name \notin {"RunDone", "Exited"}
<1>1. \A i \in Launches : ~Flagged(i)
  BY DEF Flagged
<1>2. \A k \in DOMAIN events : events[k].of \in Launches
  BY DEF TypeOK, Event
<1> QED
  BY <1>1, <1>2 DEF Alone, NoSession, FlagsAreOfIt

\* What the event loop has left when it takes the first event.
LEMMA AlonePops ==
    ASSUME TypeOK, Alone, NEW name, Arrives(name), UNCHANGED <<session, task>>,
           \A r \in records' : r.launch = r.result /\ task[r.result].kind = "run",
           name # "RunDone" => UNCHANGED <<ide.running, ide.discovery, ide.pending_run>>
    PROVE  Alone'
<1>1. /\ 1 \in DOMAIN events /\ events[1].name = name
      /\ \A k \in DOMAIN events' : k + 1 \in DOMAIN events /\ events'[k] = events[k + 1] /\ k + 1 # 1
  BY DEF Arrives, TypeOK
<1>2. \A i \in Launches : Unfinished(i)' <=> Unfinished(i)
  BY DEF Unfinished
<1>3. NoSession' /\ RowsAreRight'
  BY <1>1 DEF Alone, NoSession, RowsAreRight
<1>4. OverIsDone'
  BY <1>1 DEF Alone, OverIsDone
<1>5. OneReport'
  <2>1. \A k, l \in DOMAIN events' : k + 1 = l + 1 => k = l
    BY ArrivesType DEF Arrives, TypeOK
  <2> QED
    BY <1>1, <1>2, <2>1 DEF Alone, OneReport
<1>6. FlagsAreOfIt'
  <2>1. CASE name = "RunDone"
    BY <1>1, <1>2, <2>1 DEF Alone, OneReport, FlagsAreOfIt
  <2>2. CASE name # "RunDone"
    <3>1. \A i \in Launches : Flagged(i)' <=> Flagged(i)
      BY <2>2 DEF Flagged
    <3>2. \A k \in DOMAIN events : events[k].of \in Launches
      BY DEF TypeOK, Event
    <3> QED
      BY <1>1, <1>2, <3>1, <3>2 DEF Alone, FlagsAreOfIt
  <2> QED
    BY <2>1, <2>2
<1> QED
  BY <1>3, <1>4, <1>5, <1>6 DEF Alone

LEMMA AloneClick ==
    ASSUME TypeOK, FreshLaunches, Alone, Clicked, ~ActionStop, ~Spawn("debug")
    PROVE  Alone'
<1>1. UNCHANGED <<events, session, records>>
  BY DEF Clicked, ActionBuild, ActionRun, ActionRunTracked, ActionDebug,
     ActionDebugDirect, Rescan, ConfirmPreRun, CancelPreRun, ActionStop, DebugContinue, OnlyTheIde
<1>2. CASE \E kind \in {"run", "scan"} :
              /\ Spawn(kind) /\ ~ide.running /\ ~ide.discovery
              /\ kind = "run" => ide'.running /\ ide'.pending_run = launches + 1
              /\ kind = "scan" => ide'.discovery
  BY <1>1, <1>2, NothingUp, AloneLaunch DEF Alone
<1>3. CASE /\ OnlyTold \/ (Spawn("build") /\ run_stop' = run_stop)
           /\ UNCHANGED <<ide.running, ide.discovery, ide.pending_run>>
  BY <1>1, <1>3, AloneQuietly
<1>4. CASE ActionBuild \/ DebugContinue
  BY <1>3, <1>4 DEF ActionBuild, DebugContinue, OnlyTheIde, OnlyTold, TypeOK, Ide
<1>5. CASE ActionRun \/ ActionRunTracked \/ ActionDebug \/ ActionDebugDirect \/ Rescan
  BY <1>2, <1>3, <1>5 DEF ActionRun, ActionRunTracked, ActionDebug, ActionDebugDirect, Rescan,
     RunGate, OpenPreRun, LaunchRun, LaunchDebug, StartDiscovery, SpawnNothing, OnlyTheIde,
     OnlyTold, TypeOK, Ide
<1>6. CASE ConfirmPreRun
  BY <1>2, <1>3, <1>6 DEF ConfirmPreRun, Dispatch, LaunchRun, LaunchDebug, EngineStops,
     SpawnNothing, OnlyTold, TypeOK, Ide
<1>7. CASE CancelPreRun
  BY <1>3, <1>7 DEF CancelPreRun, EngineStops, SpawnNothing, OnlyTold, TypeOK, Ide
<1> QED
  BY <1>4, <1>5, <1>6, <1>7 DEF Clicked

LEMMA AloneApplied ==
    ASSUME TypeOK, FreshLaunches, Alone, Applied, ~Spawn("debug")
    PROVE  Alone'
<1>1. CASE OnBuildDone
  BY <1>1, AlonePops DEF OnBuildDone, SpawnNothing, TypeOK, Ide, Alone, RowsAreRight
<1>2. CASE OnStopped
  BY <1>2, AlonePops DEF OnStopped, SpawnNothing, TypeOK, Ide, Alone, RowsAreRight
<1>3. CASE OnExited
  BY <1>3, ArrivesType DEF OnExited, Arrives, Alone, NoSession, TypeOK
<1>4. CASE OnRunDone
  <2>1. PICK i \in Launches : i = Head(events).of
    BY <1>4 DEF OnRunDone, Arrives, TypeOK, Event
  <2>2. 1 \in DOMAIN events /\ events[1].name = "RunDone" /\ events[1].of = i /\ ~ide.discovery
    BY <1>4, <2>1 DEF OnRunDone, Arrives, TypeOK
  <2>3. task[i].kind = "run" /\ ide.pending_run = i
    BY <2>2 DEF Alone, OverIsDone, FlagsAreOfIt, Flagged
  <2>4. records' = records \cup {[launch |-> i, result |-> i]}
    BY <1>4, <2>1, <2>3 DEF OnRunDone, Persisted, Launches
  <2>5. \A r \in records' : r.launch = r.result /\ task[r.result].kind = "run"
    BY <2>3, <2>4 DEF Alone, RowsAreRight
  <2>6. Arrives("RunDone") /\ UNCHANGED <<session, task>>
    BY <1>4 DEF OnRunDone, SpawnNothing
  <2> QED
    BY <2>5, <2>6, AlonePops
<1>5. CASE OnScanDone
  <2>1. /\ 1 \in DOMAIN events /\ events[1].name = "RunDone"
        /\ \A k \in DOMAIN events' : k + 1 \in DOMAIN events /\ events'[k] = events[k + 1] /\ k + 1 # 1
    BY <1>5 DEF OnScanDone, Arrives, TypeOK
  <2>2. \A i \in Launches : ~Unfinished(i)
    BY <2>1 DEF Alone, OneReport
  <2>3. \A k \in DOMAIN events' : events'[k].name \notin {"RunDone", "Exited"}
    BY <2>1 DEF Alone, OneReport, NoSession
  <2>4. \/ Spawn("run") /\ ide'.running /\ ide'.pending_run = launches + 1
        \/ SpawnNothing
    BY <1>5 DEF OnScanDone, Dispatch, LaunchRun, LaunchDebug, TypeOK, Ide
  <2>5. CASE SpawnNothing
    BY <1>5, <2>5, AlonePops DEF OnScanDone, SpawnNothing, Alone, RowsAreRight
  <2>6. CASE Spawn("run") /\ ide'.running /\ ide'.pending_run = launches + 1
    BY <1>5, <2>2, <2>3, <2>6, AloneLaunch DEF OnScanDone, Alone
  <2> QED
    BY <2>4, <2>5, <2>6
<1> QED
  BY <1>1, <1>2, <1>3, <1>4, <1>5 DEF Applied

LEMMA AloneWorks ==
    ASSUME TypeOK, Calm, Alone, NEW i \in Launches, Works(i) \/ ChildEnds(i)
    PROVE  Alone'
<1>1. ide' = ide /\ records' = records
  BY DEF Works, RunTakes, RunRegisters, BuildEnds, DebugStarts, ChildEnds, OnlyTasks
<1>2. \A k \in DOMAIN events : events[k] \in Event /\ events[k].of \in Launches
  BY DEF TypeOK, Event
<1>3. \A r \in records : r.result \in Launches
  BY DEF TypeOK, Record
<1>4. CASE RunTakes(i) \/ RunRegisters(i)
  <2>1. /\ task'[i].kind = task[i].kind /\ task'[i].stage # "done" /\ Unfinished(i)
        /\ task[i].stage # "done"
        /\ \A j \in Launches : j # i => task'[j].kind = task[j].kind /\ task'[j].stage = task[j].stage
    BY <1>4, ToldKeeps, ToldType DEF RunTakes, RunRegisters, IsRun, Unfinished, Task
  <2>2. UNCHANGED <<events, session>>
    BY <1>4 DEF RunTakes, RunRegisters
  <2>3. \A j \in Launches : (Unfinished(j)' => Unfinished(j)) /\ (Flagged(j)' <=> Flagged(j))
    BY <1>1, <2>1 DEF Unfinished, Flagged
  <2> QED
    BY <1>1, <1>2, <1>3, <2>1, <2>2, <2>3
    DEF Alone, NoSession, OverIsDone, OneReport, FlagsAreOfIt, RowsAreRight
<1>5. CASE BuildEnds(i)
  <2>1. task[i].kind = "build"
    BY <1>5 DEF BuildEnds, Calm
  <2>2. task' = [task EXCEPT ![i].stage = "done"] /\ session' = session
    BY <1>5, <2>1 DEF BuildEnds, Moves
  <2>3. PICK event \in Event : event.name = "BuildDone" /\ Post(event)
    BY <1>5, EventTypes DEF BuildEnds
  <2>4. \A k \in DOMAIN events' :
            \/ events'[k].name = "BuildDone"
            \/ k \in DOMAIN events /\ events'[k] = events[k]
    BY <2>3 DEF Post, TypeOK
  <2>5. \A j \in Launches : task'[j].kind = task[j].kind /\ (task[j].stage = "done" => task'[j].stage = "done")
    BY <2>2 DEF TypeOK, Task
  <2>6. \A j \in Launches : (Unfinished(j)' => Unfinished(j)) /\ (Flagged(j)' <=> Flagged(j))
    BY <1>1, <2>1, <2>2 DEF Unfinished, Flagged, TypeOK, Task
  <2> QED
    BY <1>1, <1>2, <1>3, <2>2, <2>4, <2>5, <2>6
    DEF Alone, NoSession, OverIsDone, OneReport, FlagsAreOfIt, RowsAreRight
<1>6. CASE DebugStarts(i)
  BY <1>6 DEF DebugStarts, Calm
<1>7. CASE ChildEnds(i)
  <2>1. task' = [task EXCEPT ![i].stage = "done"] /\ session' = session /\ Unfinished(i) /\ IsRun(i)
    BY <1>7 DEF ChildEnds, Moves, IsRun, Unfinished
  <2>2. /\ \A j \in Launches : task'[j].kind = task[j].kind
        /\ task'[i].stage = "done" /\ task[i].kind \in {"run", "scan"}
    BY <2>1 DEF TypeOK, Task, IsRun
  <2>3. \A j \in Launches : ~Unfinished(j)'
    BY <2>1, <2>2 DEF Alone, OneReport, Unfinished, TypeOK, Task
  <2>4. \A j \in Launches : Flagged(j)' <=> Flagged(j)
    BY <1>1, <2>2 DEF Flagged
  <2>5. \A k \in DOMAIN events' :
            \/ k = Len(events) + 1 /\ events'[k] = [name |-> "RunDone", of |-> i]
            \/ k \in DOMAIN events /\ events'[k] = events[k] /\ events[k].name # "RunDone"
    <3>1. \A k \in DOMAIN events : events[k].name # "RunDone"
      BY <2>1 DEF Alone, OneReport
    <3> QED
      BY <1>7, <3>1 DEF ChildEnds, Post, TypeOK
  <2>6. Flagged(i)'
    BY <2>1, <2>4 DEF Alone, FlagsAreOfIt
  <2>7. NoSession' /\ OverIsDone'
    BY <2>1, <2>2, <2>5 DEF Alone, NoSession, OverIsDone
  <2>8. OneReport' /\ FlagsAreOfIt'
    BY <2>3, <2>5, <2>6 DEF OneReport, FlagsAreOfIt
  <2>9. RowsAreRight'
    BY <1>1, <1>3, <2>2 DEF Alone, RowsAreRight
  <2> QED
    BY <2>7, <2>8, <2>9 DEF Alone
<1> QED
  BY <1>4, <1>5, <1>6, <1>7 DEF Works

LEMMA AloneStep ==
    ASSUME IInv, Calm => Alone, Next
    PROVE  (Calm => Alone)'
<1> SUFFICES ASSUME Calm' PROVE Alone'
  OBVIOUS
<1>1. Calm /\ Alone /\ ~Spawn("debug") /\ ~ActionStop
  BY CalmBefore DEF IInv
<1>2. CASE Clicked
  BY <1>1, <1>2, AloneClick DEF IInv
<1>3. CASE Applied
  BY <1>1, <1>3, AloneApplied DEF IInv
<1>4. CASE DiscoveryTick
  BY <1>1, <1>4, AloneQuietly DEF DiscoveryTick, EngineStops, OnlyTold, IInv
<1>5. CASE DriverStops \/ SessionExits \/ SessionPauses
  <2>1. session = 0 /\ stopping = 0
    BY <1>1 DEF IInv, TypeOK, StopsWereClicked, Calm, Alone, NoSession
  <2> QED
    BY <1>5, <2>1 DEF DriverStops, SessionExits, SessionPauses
<1>6. CASE \E i \in Launches : Works(i) \/ ChildEnds(i)
  BY <1>1, <1>6, AloneWorks DEF IInv
<1> QED
  BY <1>2, <1>3, <1>4, <1>5, <1>6 DEF Next

-----------------------------------------------------------------------------
(* The theorems.                                                           *)

LEMMA InitIInv == Init => IInv
<1> SUFFICES ASSUME Init PROVE IInv
  OBVIOUS
<1>1. ide \in Ide
  BY BoundsAreNat DEF Init, Ide, Panel
<1>2. task \in [Launches -> Task]
  BY DEF Init, Task, Kind, Stage
<1>3. TypeOK
  BY <1>1, <1>2, BoundsAreNat DEF Init, TypeOK
<1> QED
  BY <1>3 DEF Init, IInv, StopsWereClicked, HoldsTheUntold, FreshLaunches, NeverBoth,
     ButtonsComeBack

LEMMA NextIInv == IInv /\ [Next]_vars => IInv'
<1> SUFFICES ASSUME IInv, [Next]_vars PROVE IInv'
  OBVIOUS
<1>1. CASE Next
  BY <1>1, NextType, HoldsStep, FreshStep, NeverBothStep, ButtonsStep DEF IInv
<1>2. CASE UNCHANGED vars
  BY <1>2 DEF vars, IInv, TypeOK, StopsWereClicked, HoldsTheUntold, FreshLaunches, NeverBoth,
     ButtonsComeBack, Reporting
<1> QED
  BY <1>1, <1>2

LEMMA Invariance == Spec => []IInv
  BY InitIInv, NextIInv, PTL DEF Spec

\* Every launch, event and row of the run store is of a launch there was, and a
\* task that stops the driver stands for a click on Stop (action_run, on_run_done,
\* action_stop).
THEOREM TypeCorrect == Spec => []TypeOK
<1>1. IInv => TypeOK
  BY DEF IInv
<1> QED
  BY <1>1, Invariance, PTL

\* At most one child has not been told to end, for any number of launches and
\* however engine.run's two critical sections meet (BuildEngine::run, stop).
THEOREM OneChildHolds == Spec => []OneChild
<1>1. IInv => OneChild
  BY DEF IInv, HoldsTheUntold, OneChild
<1> QED
  BY <1>1, Invariance, PTL

\* A flag that disables Run or Build is set only while an event that clears it is
\* to come (action_run, action_build, on_run_done, on_build_done).
THEOREM ButtonsAlwaysComeBack == Spec => []ButtonsComeBack
<1>1. IInv => ButtonsComeBack
  BY DEF IInv
<1> QED
  BY <1>1, Invariance, PTL

\* While nobody has stopped a run or debugged, every row of the run store holds a
\* result of the run whose launch context it holds (persist_finished_run), and no
\* scan makes a row (on_run_done).
THEOREM RecordsOfTheirRun == Spec => []RecordsAreOfTheirRun
<1> DEFINE Inv == IInv /\ (Calm => Alone)
<1>1. Init => Inv
  BY InitIInv DEF Init, Alone, NoSession, OverIsDone, OneReport, FlagsAreOfIt, RowsAreRight,
     Unfinished
<1>2. Inv /\ [Next]_vars => Inv'
  <2>1. CASE Next
    BY <2>1, NextIInv, AloneStep
  <2>2. CASE UNCHANGED vars
    BY <2>2, NextIInv DEF vars, Calm, Alone, NoSession, OverIsDone, OneReport, FlagsAreOfIt,
       RowsAreRight, Unfinished, Flagged
  <2> QED
    BY <2>1, <2>2
<1>3. Inv => RecordsAreOfTheirRun
  BY DEF Calm, Alone, RowsAreRight, RecordsAreOfTheirRun
<1> QED
  BY <1>1, <1>2, <1>3, PTL DEF Spec
=============================================================================
