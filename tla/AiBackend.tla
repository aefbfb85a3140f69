----------------------------- MODULE AiBackend -----------------------------
(***************************************************************************)
(* The inline-completion backend (jade-ai/src/backend.rs): start, stop and *)
(* set_model as tasks on one async lock, the readiness poll of a managed   *)
(* llama-server, the PID that a quit kills without the lock, and the PID   *)
(* file by which a later run of Jade finds what an earlier one left.       *)
(*                                                                         *)
(* A server's number is its PID.  It binds the managed port when it is     *)
(* spawned, or exits because another one has it; it answers /health once   *)
(* its model is loaded, which may be never.                                *)
(***************************************************************************)
EXTENDS Integers, Sequences, SequencesExt, FiniteSets

CONSTANTS
    Tasks,         \* slots for the tasks of the runtime
    Models,        \* the tiers
    Bounds         \* how often the user acts, how often Jade is launched, how many
                   \* servers are spawned, which tiers are picked, and
                   \* whether there is a server outside

ASSUME ModelsExist == Models # {}
ASSUME BoundsAreBounds ==
    Bounds \subseteq [clicks : Nat, launches : Nat, servers : Nat, tiers : SUBSET Models,
               outside : SUBSET BOOLEAN]

VARIABLES
    bound,
    jade,          \* "up", "quitting" or "gone", and which run it is
    enabled,       \* ai_completion_enabled
    tasks,
    lock,          \* lifecycle: who waits for it, the holder first
    life,          \* Lifecycle: the child or 0, startup_gen, model_id
    stopped, managed_pid, pid_file,
    status,        \* [state, managed: whether the endpoint is the managed one]
    servers, port, \* every server that was spawned, and which has the port
    outside,       \* a server answers on a candidate before the managed one
    forgotten,     \* live servers whose PID was never or is no longer on file
    clicks

user == <<bound, jade, enabled, clicks>>
world == <<servers, port, outside>>
pids == <<managed_pid, pid_file, forgotten>>
vars == <<user, tasks, lock, life, stopped, pids, status, world>>

Idle == [pc |-> "idle", then |-> "idle", model |-> CHOOSE m \in Models : TRUE, gen |-> 0]
NoLife == [proc |-> 0, gen |-> 0, model |-> CHOOSE m \in Models : TRUE]
Off == [state |-> "disabled", managed |-> FALSE]
As(state) == [state |-> state, managed |-> FALSE]

Alive == {s \in DOMAIN servers : servers[s].state # "dead"}
Healthy(s) == s \in Alive /\ servers[s].state = "healthy"
PortHealthy == port # 0 /\ Healthy(port)

-----------------------------------------------------------------------------
(* Tasks and the lock, which is fair.                                      *)

Spawns(ts, task) ==
    LET free == {t \in Tasks : ts[t].pc = "idle"}
    IN [ts EXCEPT ![CHOOSE t \in free : TRUE] = task]
HasSlot == \E t \in Tasks : tasks[t].pc = "idle"

Task(pc) == [Idle EXCEPT !.pc = pc]

At(t, pc) == jade.state # "gone" /\ tasks[t].pc = pc
Goes(t, pc) == tasks' = [tasks EXCEPT ![t].pc = pc]
Finishes(t) == tasks' = [tasks EXCEPT ![t] = Idle]

Holds(t) == lock # <<>> /\ Head(lock) = t
Queues(t, pc) == Goes(t, pc) /\ lock' = Append(lock, t)
Unlocks == lock' = Tail(lock)

-----------------------------------------------------------------------------
(* Processes and PIDs.                                                     *)

\* kill_pid, start_kill: 0 is nobody.
Kills(ss) ==
    /\ servers' = [s \in DOMAIN servers |->
                    IF s \in ss THEN [servers[s] EXCEPT !.state = "dead"] ELSE servers[s]]
    /\ port' = IF port \in ss THEN 0 ELSE port
    /\ UNCHANGED outside

\* clear_pid_file.  A live server that this run does not hold is lost with it.
ClearsFile ==
    /\ pid_file' = 0
    /\ forgotten' = forgotten \cup (({pid_file} \ {managed_pid}) \cap Alive)

-----------------------------------------------------------------------------
(* start.                                                                  *)

StartLocks(t) == At(t, "start") /\ Queues(t, "starts")
                 /\ UNCHANGED <<user, life, stopped, pids, status, world>>

\* Idempotent: nothing to do while there is a child or an endpoint.
StartGuard(t) ==
    /\ At(t, "starts") /\ Holds(t)
    /\ IF life.proc # 0 \/ status.state \in {"ready", "starting"}
       THEN Finishes(t) /\ Unlocks /\ UNCHANGED <<stopped, status>>
       ELSE /\ stopped' = FALSE /\ status' = As("starting")
            /\ Goes(t, "probe") /\ UNCHANGED lock
    /\ UNCHANGED <<user, life, pids, world>>

\* Mutant of Cancelled: the lock is kept.
CancelledLocked(t) == stopped /\ Finishes(t) /\ UNCHANGED <<lock, status, pids>>

\* "turned off while we were probing".
Cancelled(t) == stopped /\ Finishes(t) /\ Unlocks /\ UNCHANGED <<status, pids>>

\* The servers of somebody else: the environment's endpoint and port 8012.
ProbeOutside(t) ==
    /\ At(t, "probe")
    /\ \/ Cancelled(t)
       \/ /\ ~stopped /\ outside
          /\ status' = As("ready") /\ Finishes(t) /\ Unlocks /\ UNCHANGED pids
       \/ /\ ~stopped /\ ~outside
          /\ Goes(t, "probe_managed") /\ UNCHANGED <<lock, status, pids>>
    /\ UNCHANGED <<user, life, stopped, world>>

\* The managed port: an orphan with a live PID on file is adopted.  When nobody
\* answers, the file is cleared.
ProbeManaged(t) ==
    /\ At(t, "probe_managed")
    /\ \/ Cancelled(t)
       \/ /\ ~stopped /\ PortHealthy
          /\ managed_pid' = IF pid_file \in Alive THEN pid_file ELSE managed_pid
          /\ status' = [state |-> "ready", managed |-> TRUE]
          /\ Finishes(t) /\ Unlocks /\ UNCHANGED <<pid_file, forgotten>>
       \/ /\ ~stopped /\ ~PortHealthy
          /\ ClearsFile
          /\ Goes(t, "spawn") /\ UNCHANGED <<lock, status, managed_pid>>
    /\ UNCHANGED <<user, life, stopped, world>>

\* No binary, no model file, no preset file, or no process.
SpawnFails(t) ==
    /\ At(t, "spawn")
    /\ \E state \in {"disabled", "error"} : status' = As(state)
    /\ Finishes(t) /\ Unlocks
    /\ UNCHANGED <<user, life, stopped, pids, world>>

\* spawn_managed up to cmd.spawn.
SpawnServer(t) ==
    /\ At(t, "spawn") /\ Len(servers) < bound.servers
    /\ servers' = Append(servers, [state |-> "loading", model |-> life.model, run |-> jade.run])
    /\ port' = IF port = 0 THEN Len(servers') ELSE port
    /\ status' = As("starting")
    /\ Goes(t, "record")
    /\ UNCHANGED <<user, lock, life, stopped, pids, outside>>

\* The rest of it: the PID, the file, the child and its poll.
RecordServer(t) ==
    /\ At(t, "record")
    /\ managed_pid' = Len(servers) /\ pid_file' = Len(servers)
    /\ life' = [life EXCEPT !.proc = Len(servers), !.gen = @ + 1]
    /\ tasks' = Spawns([tasks EXCEPT ![t] = Idle], [Task("poll") EXCEPT !.gen = life.gen + 1])
    /\ Unlocks
    /\ UNCHANGED <<user, stopped, forgotten, status, world>>

-----------------------------------------------------------------------------
(* stop and set_model.                                                     *)

\* The flag is set without the lock.
StopSignals(t) ==
    /\ At(t, "stop") /\ stopped' = TRUE /\ Goes(t, "stop_lock")
    /\ UNCHANGED <<user, lock, life, pids, status, world>>

StopLocks(t) == At(t, "stop_lock") /\ Queues(t, "stops")
                /\ UNCHANGED <<user, life, stopped, pids, status, world>>

\* Mutant of Stop: only the child is killed.
StopByHandle(t) ==
    /\ At(t, "stops") /\ Holds(t)
    /\ Kills({life.proc})
    /\ managed_pid' = 0 /\ ClearsFile
    /\ life' = [life EXCEPT !.proc = 0, !.gen = @ + 1]
    /\ status' = Off
    /\ tasks' = [tasks EXCEPT ![t] = IF @.then = "start" THEN Task("start") ELSE Idle]
    /\ Unlocks
    /\ UNCHANGED <<user, stopped>>

\* The child, the PID and the file go, and the poll is retired.
Stop(t) ==
    /\ At(t, "stops") /\ Holds(t)
    /\ Kills({life.proc, managed_pid})
    /\ managed_pid' = 0 /\ ClearsFile
    /\ life' = [life EXCEPT !.proc = 0, !.gen = @ + 1]
    /\ status' = Off
    /\ tasks' = [tasks EXCEPT ![t] = IF @.then = "start" THEN Task("start") ELSE Idle]
    /\ Unlocks
    /\ UNCHANGED <<user, stopped>>

ModelLocks(t) == At(t, "model") /\ Queues(t, "sets")
                 /\ UNCHANGED <<user, life, stopped, pids, status, world>>

\* Mutant of Restarts: a server that still loads is left alone.
RestartsWhenReady(t) ==
    tasks[t].model # life.model /\ status.state = "ready" /\ life.proc # 0

\* A server of somebody else picks its own model; one that is off starts with it.
Restarts(t) ==
    /\ tasks[t].model # life.model
    /\ status.state \in {"ready", "starting"}
    /\ life.proc # 0 \/ status.state = "starting"

SetModel(t) ==
    /\ At(t, "sets") /\ Holds(t)
    /\ life' = [life EXCEPT !.model = tasks[t].model]
    /\ tasks' = [tasks EXCEPT ![t] =
                    IF Restarts(t) THEN [Task("stop") EXCEPT !.then = "start"] ELSE Idle]
    /\ Unlocks
    /\ UNCHANGED <<user, stopped, pids, status, world>>

-----------------------------------------------------------------------------
(* poll_ready.                                                             *)

\* 1.5 s are over.
PollWakes(t) ==
    /\ At(t, "poll")
    /\ IF stopped THEN Finishes(t) /\ UNCHANGED lock ELSE Queues(t, "polls")
    /\ UNCHANGED <<user, life, stopped, pids, status, world>>

Superseded(t) == life.gen # tasks[t].gen \/ life.proc = 0

\* Superseded, or the child has exited.
PollEnds(t) ==
    /\ At(t, "polls") /\ Holds(t)
    /\ \/ Superseded(t) /\ UNCHANGED <<life, pids, status>>
       \/ /\ ~Superseded(t) /\ life.proc \notin Alive
          /\ life' = [life EXCEPT !.proc = 0]
          /\ managed_pid' = 0 /\ ClearsFile
          /\ status' = IF stopped \/ status.state = "ready" THEN status ELSE As("error")
    /\ Finishes(t) /\ Unlocks
    /\ UNCHANGED <<user, stopped, world>>

\* The probe goes out with the lock held.
PollProbes(t) ==
    /\ At(t, "polls") /\ Holds(t)
    /\ ~Superseded(t) /\ life.proc \in Alive
    /\ Goes(t, "probing")
    /\ UNCHANGED <<user, lock, life, stopped, pids, status, world>>

PollReady(t) ==
    /\ At(t, "probing") /\ PortHealthy
    /\ status' = [state |-> "ready", managed |-> TRUE]
    /\ Finishes(t) /\ Unlocks
    /\ UNCHANGED <<user, life, stopped, pids, world>>

PollSleeps(t) ==
    /\ At(t, "probing") /\ ~PortHealthy
    /\ Goes(t, "poll") /\ Unlocks
    /\ UNCHANGED <<user, life, stopped, pids, status, world>>

\* Mutant of PollGivesUp: the deadline is ignored.
PollNeverGivesUp(t) == FALSE

\* The deadline: an error, and at once the state of a shutdown.
PollGivesUp(t) ==
    /\ At(t, "probing") /\ ~PortHealthy
    /\ stopped' = TRUE
    /\ Kills({life.proc, managed_pid})
    /\ managed_pid' = 0 /\ ClearsFile
    /\ life' = [life EXCEPT !.proc = 0, !.gen = @ + 1]
    /\ status' = Off
    /\ Finishes(t) /\ Unlocks
    /\ UNCHANGED user

-----------------------------------------------------------------------------
(* The user and the process.                                               *)

Clicked == clicks < bound.clicks /\ clicks' = clicks + 1 /\ jade.state = "up" /\ HasSlot
OnlyTasks == UNCHANGED <<bound, jade, lock, life, stopped, pids, status, world>>

\* action_toggle_ai_completion.
Toggle ==
    /\ Clicked
    /\ enabled' = ~enabled
    /\ tasks' = Spawns(tasks, Task(IF enabled' THEN "start" ELSE "stop"))
    /\ OnlyTasks

\* ensure_ai_started, on a key or the menu.  The state it reads came through a
\* channel and may be an older one; start looks again.
Wake ==
    /\ Clicked /\ enabled
    /\ tasks' = Spawns(tasks, Task("start"))
    /\ UNCHANGED enabled /\ OnlyTasks

\* set_ai_model.
PickModel(m) ==
    /\ Clicked
    /\ tasks' = Spawns(tasks, [Task("model") EXCEPT !.model = m])
    /\ UNCHANGED enabled /\ OnlyTasks

\* Bound: the last run goes on.
Quits == jade.run < bound.launches

\* Mutant of Quit: the PID is not killed.
QuitLeaves ==
    /\ jade.state = "up" /\ Quits
    /\ jade' = [jade EXCEPT !.state = "quitting"]
    /\ stopped' = TRUE /\ managed_pid' = 0 /\ ClearsFile
    /\ UNCHANGED <<bound, enabled, clicks, tasks, lock, life, status, world>>

\* kill_managed_now, from on_app_quit or a signal: no lock, no task is stopped.
Quit ==
    /\ jade.state = "up" /\ Quits
    /\ jade' = [jade EXCEPT !.state = "quitting"]
    /\ stopped' = TRUE
    /\ Kills({managed_pid}) /\ managed_pid' = 0 /\ ClearsFile
    /\ UNCHANGED <<bound, enabled, clicks, tasks, lock, life, status>>

\* The process ends, after Quit or by a SIGKILL: its memory goes, not its child.
Dies ==
    /\ jade.state # "gone" /\ Quits
    /\ jade' = [jade EXCEPT !.state = "gone"]
    /\ tasks' = [t \in Tasks |-> Idle] /\ lock' = <<>>
    /\ life' = NoLife /\ stopped' = FALSE /\ managed_pid' = 0
    /\ status' = Off
    /\ forgotten' = forgotten \cup
            (IF \E t \in Tasks : tasks[t].pc = "record" THEN {Len(servers)} ELSE {})
    /\ UNCHANGED <<bound, enabled, clicks, pid_file, world>>

\* The next run: the stored tier is applied, and an enabled completion starts.
Launch ==
    /\ jade.state = "gone" /\ jade.run < bound.launches
    /\ jade' = [state |-> "up", run |-> jade.run + 1]
    /\ \E m \in bound.tiers, on \in BOOLEAN :
         /\ enabled' = on
         /\ LET set == Spawns(tasks, [Task("model") EXCEPT !.model = m])
            IN tasks' = IF on THEN Spawns(set, Task("start")) ELSE set
    /\ UNCHANGED <<bound, clicks, lock, life, stopped, pids, status, world>>

-----------------------------------------------------------------------------
(* The servers.                                                            *)

ServerLoads(s) ==
    /\ servers[s].state = "loading" /\ port = s
    /\ servers' = [servers EXCEPT ![s].state = "healthy"]
    /\ UNCHANGED <<user, tasks, lock, life, stopped, pids, status, port, outside>>

\* It crashes, or finds the port taken.
ServerExits(s) ==
    /\ s \in Alive
    /\ Kills({s})
    /\ UNCHANGED <<user, tasks, lock, life, stopped, pids, status>>

\* Somebody starts or ends a server of their own.
OutsideChanges ==
    /\ clicks < bound.clicks /\ clicks' = clicks + 1
    /\ outside' = ~outside /\ outside' \in bound.outside
    /\ UNCHANGED <<bound, jade, enabled, tasks, lock, life, stopped, pids, status, servers, port>>

-----------------------------------------------------------------------------
Init ==
    /\ bound \in Bounds
    /\ jade = [state |-> "gone", run |-> 0]
    /\ enabled = FALSE /\ clicks = 0
    /\ tasks = [t \in Tasks |-> Idle] /\ lock = <<>>
    /\ life = NoLife /\ stopped = FALSE
    /\ managed_pid = 0 /\ pid_file = 0 /\ forgotten = {}
    /\ status = Off
    /\ servers = <<>> /\ port = 0 /\ outside \in bound.outside

TaskSteps(t) ==
    \/ StartLocks(t) \/ StartGuard(t) \/ ProbeOutside(t) \/ ProbeManaged(t)
    \/ SpawnFails(t) \/ SpawnServer(t) \/ RecordServer(t)
    \/ StopSignals(t) \/ StopLocks(t) \/ Stop(t) \/ ModelLocks(t) \/ SetModel(t)
    \/ PollWakes(t) \/ PollEnds(t) \/ PollProbes(t) \/ PollReady(t) \/ PollSleeps(t)
    \/ PollGivesUp(t)

Environment ==
    \/ Toggle \/ Wake \/ Quit \/ Dies \/ Launch
    \/ \E m \in bound.tiers : PickModel(m)
    \/ \E s \in DOMAIN servers : ServerLoads(s) \/ ServerExits(s)
    \/ OutsideChanges

Next == (\E t \in Tasks : TaskSteps(t)) \/ Environment

Spec == Init /\ [][Next]_vars

\* The runtime runs every task, and 15 minutes pass for a poll that goes on.
FairSpec ==
    /\ Spec
    /\ \A t \in Tasks : WF_vars(TaskSteps(t))
    /\ SF_vars(\E t \in Tasks : PollGivesUp(t))

-----------------------------------------------------------------------------
(* Properties.                                                             *)

Waiting == {"starts", "stops", "sets", "polls"}
Holding == {"probe", "probe_managed", "spawn", "record", "probing"}

\* The tasks in the lock's queue are those at a point that waits for it or holds
\* it, and only the first one holds it.
LockOK ==
    /\ Cardinality(Range(lock)) = Len(lock)
    /\ Range(lock) = {t \in Tasks : tasks[t].pc \in Waiting \cup Holding}
    /\ \A t \in Tasks : tasks[t].pc \in Holding => Holds(t)

TypeOK ==
    /\ jade \in [state : {"up", "quitting", "gone"}, run : 0 .. bound.launches]
    /\ {enabled, stopped, outside} \subseteq BOOLEAN
    /\ status.state \in {"disabled", "starting", "ready", "error"}
    /\ {life.proc, managed_pid, pid_file, port} \subseteq 0 .. Len(servers)
    /\ servers \in Seq([state : {"loading", "healthy", "dead"}, model : Models, run : 1 .. bound.launches])
    /\ LockOK

\* A server is lost (forgotten) only when the PID file was cleared over a live one
\* that this run had not adopted, or Jade was killed between the spawn and the
\* record.  Every other live server is in managed_pid, where a quit finds it, or on
\* file, where the next run does: no record, stop or poll takes the place of a PID
\* that is still needed (start, stop_with, poll_ready, kill_managed_now).
ServersAreHeld ==
    \A s \in Alive \ forgotten :
        \/ s \in {managed_pid, pid_file}
        \/ s = Len(servers) /\ \E t \in Tasks : tasks[t].pc = "record"

\* Jade's own child was spawned with the tier that was set last, unless a task is on
\* its way to restart it (set_model).  Adopted and outside servers have their own.
ServesTheModel ==
    life.proc # 0 /\ servers[life.proc].model # life.model =>
        \E t \in Tasks : tasks[t].then = "start" /\ tasks[t].pc \in {"stop", "stop_lock", "stops"}

\* A start that was begun ends: ready, failed, given up or turned off, or Jade is
\* gone (start, poll_ready, stop).
StartingEnds ==
    status.state = "starting" ~> status.state # "starting" \/ jade.state # "up"
=============================================================================
