-------------------------- MODULE AiBackendProofs --------------------------
(***************************************************************************)
(* The invariants of AiBackend, for any number of tasks, servers, clicks   *)
(* and runs of Jade, alone and with the cards of ChatCards.                *)
(*                                                                         *)
(* ServersAreHeld needs that a start which passed its guard holds no       *)
(* server: then the PID it records takes nobody's place.  That rests on    *)
(* the lock (nobody else is between a guard and a record) and on who may   *)
(* still be in managed_pid: what is on file.  ServesTheModel needs that a  *)
(* child is never there in a state in which set_model leaves it alone.     *)
(*                                                                         *)
(* ChatsStayWithTheirCards needs what is on its way: a lookup, or its end  *)
(* in the queue, is there once and its card has no request yet; a delta in *)
(* the queue that ends a request is of one that streams no more; a video   *)
(* is of a render that has ended.  A request or a render of a card has its *)
(* number, which no other one of its lane has, so Slot::clear_if, which    *)
(* counts requests and is given cards, never clears the slot of a request  *)
(* that streams: RequestsAreOfCards, FinishedOK.                           *)
(***************************************************************************)
EXTENDS ChatCards, SequenceTheorems, FiniteSetTheorems, TLAPS

Point == {"idle", "start", "stop_lock", "stop", "model", "poll"} \cup Waiting \cup Holding
TaskRecord == [pc : Point, then : {"idle", "start"}, model : Models, gen : Nat]
ServerRecord ==
    [state : {"loading", "healthy", "dead"}, model : Models, run : 1 .. bound.launches]
StatusRecord == [state : {"disabled", "starting", "ready", "error"}, managed : BOOLEAN]

Types ==
    /\ bound \in Bounds
    /\ jade \in [state : {"up", "quitting", "gone"}, run : 0 .. bound.launches]
    /\ enabled \in BOOLEAN /\ stopped \in BOOLEAN /\ outside \in BOOLEAN
    /\ tasks \in [Tasks -> TaskRecord]
    /\ lock \in Seq(Tasks)
    /\ life \in [proc : Nat, gen : Nat, model : Models]
    /\ status \in StatusRecord
    /\ servers \in Seq(ServerRecord)
    /\ managed_pid \in 0 .. Len(servers) /\ pid_file \in 0 .. Len(servers)
    /\ life.proc \in 0 .. Len(servers) /\ port \in 0 .. Len(servers)

\* The lock's queue has every task that waits for it or holds it, once, and only
\* the first one holds it.
Queued(t) == tasks[t].pc \in Waiting \cup Holding
LockIsQueue ==
    /\ \A i, j \in 1 .. Len(lock) : lock[i] = lock[j] => i = j
    /\ \A i \in 1 .. Len(lock) : Queued(lock[i])
    /\ \A t \in Tasks : Queued(t) => \E i \in 1 .. Len(lock) : lock[i] = t
    /\ \A t \in Tasks : tasks[t].pc \in Holding => Holds(t)

\* Jade that does not run has no tasks and holds nothing.
GoneIsGone ==
    /\ jade.state = "gone" =>
         tasks = [t \in Tasks |-> Idle] /\ lock = <<>> /\ life.proc = 0 /\ managed_pid = 0
    /\ jade.state # "gone" => jade.run >= 1

AnyAt(points) == \E t \in Tasks : tasks[t].pc \in points

\* The PID that a quit kills is the one on file, and that of the child or of a server
\* that was adopted.
QuitKillsTheFile ==
    managed_pid \in Alive =>
        pid_file = managed_pid /\ (managed_pid = life.proc \/ status.state = "ready")

\* A child is the managed server and is starting or ready.
ChildIsManaged ==
    life.proc # 0 => managed_pid \in {0, life.proc} /\ status.state \in {"ready", "starting"}

\* A start that passed its guard holds no server, and no file when it spawns.
Opening == {"probe", "probe_managed", "spawn", "record"}
StartHoldsNothing ==
    /\ AnyAt(Opening) => life.proc = 0 /\ managed_pid \notin Alive
    /\ AnyAt({"spawn", "record"}) => pid_file = 0
    /\ AnyAt({"record"}) =>
         /\ status.state = "starting"
         /\ Len(servers) > 0 /\ servers[Len(servers)].model = life.model

\* A live server that was not forgotten is on file or about to be.
LiveIsOnFile ==
    \A s \in Alive \ forgotten : s = pid_file \/ (s = Len(servers) /\ AnyAt({"record"}))

Held ==
    /\ GoneIsGone /\ QuitKillsTheFile /\ ChildIsManaged /\ StartHoldsNothing
    /\ LiveIsOnFile /\ ServesTheModel

IInv == Types /\ LockIsQueue /\ Held

\* A task is spawned, by a click or for a card.
Fresh == {task \in TaskRecord : task.pc \in {"start", "stop", "model"} /\ task.then = "idle"}
Begun ==
    /\ jade.state = "up" /\ HasSlot /\ enabled' \in BOOLEAN
    /\ \E task \in Fresh : tasks' = Spawns(tasks, task)
    /\ OnlyTasks

-----------------------------------------------------------------------------
(* The operators.                                                          *)

LEMMA TaskRecords ==
    /\ Idle \in TaskRecord
    /\ \A pc \in Point : Task(pc) \in TaskRecord /\ Task(pc).pc = pc
    /\ \A pc \in Point : Task(pc).then = "idle" /\ Task(pc).model = Idle.model
    /\ \A pc \in Point, m \in Models : [Task(pc) EXCEPT !.model = m] \in TaskRecord
    /\ \A pc \in Point, n \in Nat : [Task(pc) EXCEPT !.gen = n] \in TaskRecord
    /\ [Task("stop") EXCEPT !.then = "start"] \in TaskRecord
    /\ Idle.pc = "idle" /\ Idle.then = "idle"
<1>1. (CHOOSE m \in Models : TRUE) \in Models
  BY ModelsExist
<1> QED
  BY <1>1 DEF Idle, Task, TaskRecord, Point, Waiting, Holding

\* What the moves of one task leave of the tasks.
LEMMA MoveTypes ==
    ASSUME NEW ts \in [Tasks -> TaskRecord], NEW t \in Tasks, NEW task \in TaskRecord
    PROVE  [ts EXCEPT ![t] = task] \in [Tasks -> TaskRecord]
  OBVIOUS

LEMMA GoTypes ==
    ASSUME tasks \in [Tasks -> TaskRecord], NEW t \in Tasks, NEW pc \in Point, Goes(t, pc)
    PROVE  /\ tasks' \in [Tasks -> TaskRecord]
           /\ tasks'[t].pc = pc /\ tasks'[t].then = tasks[t].then
           /\ \A u \in Tasks \ {t} : tasks'[u] = tasks[u]
  BY DEF Goes, TaskRecord

LEMMA FinishTypes ==
    ASSUME tasks \in [Tasks -> TaskRecord], NEW t \in Tasks, Finishes(t)
    PROVE  /\ tasks' \in [Tasks -> TaskRecord]
           /\ tasks'[t] = Idle
           /\ \A u \in Tasks \ {t} : tasks'[u] = tasks[u]
<1>1. Idle \in TaskRecord
  BY TaskRecords
<1> QED
  BY <1>1 DEF Finishes

LEMMA SpawnTypes ==
    ASSUME NEW ts \in [Tasks -> TaskRecord], NEW task \in TaskRecord
    PROVE  /\ Spawns(ts, task) \in [Tasks -> TaskRecord]
           /\ \A u \in Tasks : Spawns(ts, task)[u] \in {ts[u], task}
  BY DEF Spawns

\* With a slot that is free, that one is taken.
LEMMA SpawnTakesASlot ==
    ASSUME NEW ts \in [Tasks -> TaskRecord], NEW task \in TaskRecord,
           \E t \in Tasks : ts[t].pc = "idle"
    PROVE  \E c \in Tasks : ts[c].pc = "idle" /\ Spawns(ts, task) = [ts EXCEPT ![c] = task]
<1> DEFINE free == {t \in Tasks : ts[t].pc = "idle"}
<1>1. (CHOOSE t \in free : TRUE) \in free
  OBVIOUS
<1> QED
  BY <1>1 DEF Spawns

LEMMA AliveServers ==
    ASSUME Types
    PROVE  Alive \subseteq 1 .. Len(servers) /\ 0 \notin Alive /\ DOMAIN servers = 1 .. Len(servers)
           /\ Len(servers) \in Nat
<1>1. DOMAIN servers = 1 .. Len(servers) /\ Len(servers) \in Nat
  BY LenProperties DEF Types
<1> QED
  BY <1>1 DEF Alive

LEMMA KillTypes ==
    ASSUME Types, NEW ss, Kills(ss), UNCHANGED bound
    PROVE  /\ servers' \in Seq(ServerRecord') /\ Len(servers') = Len(servers)
           /\ port' \in 0 .. Len(servers) /\ outside' \in BOOLEAN
           /\ \A s \in 1 .. Len(servers) : servers'[s].model = servers[s].model
           /\ Alive' = Alive \ ss
<1>1. DOMAIN servers = 1 .. Len(servers) /\ Len(servers) \in Nat
  BY AliveServers
<1>2. \A s \in 1 .. Len(servers) : servers[s] \in ServerRecord
  BY <1>1, ElementOfSeq DEF Types
<1>3. servers' = [s \in 1 .. Len(servers) |->
                    IF s \in ss THEN [servers[s] EXCEPT !.state = "dead"] ELSE servers[s]]
  BY <1>1 DEF Kills
<1>4. ServerRecord' = ServerRecord
  BY DEF ServerRecord
<1>5. \A s \in 1 .. Len(servers) : servers'[s] \in ServerRecord
  BY <1>2, <1>3 DEF ServerRecord
<1>6. servers' \in [1 .. Len(servers) -> ServerRecord]
  BY <1>3, <1>5
<1>7. servers' \in Seq(ServerRecord) /\ Len(servers') = Len(servers)
  BY <1>1, <1>6, SeqDef
<1>8. port' \in 0 .. Len(servers) /\ outside' \in BOOLEAN
  BY <1>1 DEF Types, Kills
<1>9. \A s \in 1 .. Len(servers) : servers'[s].model = servers[s].model
  BY <1>2, <1>3 DEF ServerRecord
<1>10. Alive' = Alive \ ss
  BY <1>1, <1>2, <1>3 DEF Alive, ServerRecord
<1> QED
  BY <1>4, <1>7, <1>8, <1>9, <1>10

-----------------------------------------------------------------------------
(* Types.                                                                  *)

LEMMA LockTypes ==
    ASSUME Types, NEW t \in Tasks, Append(lock, t) = lock' \/ (Holds(t) /\ Unlocks) \/ UNCHANGED lock
    PROVE  lock' \in Seq(Tasks)
<1>1. lock \in Seq(Tasks)
  BY DEF Types
<1>2. CASE Append(lock, t) = lock'
  BY <1>1, <1>2, AppendProperties
<1>3. CASE Holds(t) /\ Unlocks
  BY <1>1, <1>3, HeadTailProperties DEF Holds, Unlocks
<1> QED
  BY <1>1, <1>2, <1>3

\* What the tasks have no part in.
WorldTypes ==
    /\ bound \in Bounds
    /\ jade \in [state : {"up", "quitting", "gone"}, run : 0 .. bound.launches]
    /\ enabled \in BOOLEAN /\ stopped \in BOOLEAN /\ outside \in BOOLEAN
    /\ life \in [proc : Nat, gen : Nat, model : Models]
    /\ status \in StatusRecord
    /\ servers \in Seq(ServerRecord)
    /\ managed_pid \in 0 .. Len(servers) /\ pid_file \in 0 .. Len(servers)
    /\ life.proc \in 0 .. Len(servers) /\ port \in 0 .. Len(servers)

LEMMA TypesSplit == Types <=> WorldTypes /\ tasks \in [Tasks -> TaskRecord] /\ lock \in Seq(Tasks)
  BY DEF Types, WorldTypes

\* The child and the generation move together, as a rule.
LEMMA LifeMoves ==
    ASSUME Types, NEW p \in Nat
    PROVE  LET new == [life EXCEPT !.proc = p, !.gen = life.gen + 1]
           IN /\ new \in [proc : Nat, gen : Nat, model : Models]
              /\ new.proc = p /\ new.model = life.model
<1>1. life \in [proc : Nat, gen : Nat, model : Models] /\ life.gen + 1 \in Nat
  BY DEF Types
<1> QED
  BY <1>1

LEMMA QuietWorld ==
    ASSUME Types, stopped' \in BOOLEAN, UNCHANGED <<user, life, managed_pid, pid_file, status, world>>
    PROVE  WorldTypes'
<1>1. ServerRecord' = ServerRecord
  BY DEF ServerRecord, user
<1> QED
  BY <1>1 DEF Types, WorldTypes, user, world

LEMMA StatusWorld ==
    ASSUME Types, stopped' \in BOOLEAN, status' \in StatusRecord,
           managed_pid' \in 0 .. Len(servers), pid_file' \in 0 .. Len(servers),
           UNCHANGED <<user, life, world>>
    PROVE  WorldTypes'
<1>1. ServerRecord' = ServerRecord
  BY DEF ServerRecord, user
<1> QED
  BY <1>1 DEF Types, WorldTypes, user, world

\* A shutdown: some servers are killed, and nothing is held.
LEMMA ShutWorld ==
    ASSUME Types, stopped' \in BOOLEAN, NEW ss, Kills(ss), managed_pid' = 0, ClearsFile,
           life' = [life EXCEPT !.proc = 0, !.gen = life.gen + 1], status' = Off, UNCHANGED user
    PROVE  WorldTypes'
<1>1. /\ servers' \in Seq(ServerRecord') /\ Len(servers') = Len(servers)
      /\ port' \in 0 .. Len(servers) /\ outside' \in BOOLEAN
  BY KillTypes DEF user
<1>2. life' \in [proc : Nat, gen : Nat, model : Models] /\ life'.proc = 0
  BY LifeMoves
<1>3. status' \in StatusRecord
  BY DEF Off, StatusRecord
<1>4. 0 \in 0 .. Len(servers)
  BY AliveServers
<1> QED
  BY <1>1, <1>2, <1>3, <1>4 DEF Types, WorldTypes, ClearsFile, user

LEMMA Statuses ==
    /\ Off \in StatusRecord /\ [state |-> "ready", managed |-> TRUE] \in StatusRecord
    /\ \A state \in {"disabled", "starting", "ready", "error"} : As(state) \in StatusRecord
  BY DEF Off, As, StatusRecord

LEMMA StartTypes ==
    ASSUME Types, GoneIsGone, NEW t \in Tasks,
           StartLocks(t) \/ StartGuard(t) \/ ProbeOutside(t) \/ ProbeManaged(t)
           \/ SpawnFails(t) \/ SpawnServer(t)
    PROVE  WorldTypes'
<1> USE Statuses
<1>1. /\ stopped \in BOOLEAN /\ status \in StatusRecord
      /\ managed_pid \in 0 .. Len(servers) /\ pid_file \in 0 .. Len(servers)
      /\ 0 \in 0 .. Len(servers) /\ TRUE \in BOOLEAN /\ FALSE \in BOOLEAN
  BY AliveServers DEF Types
<1>2. CASE StartLocks(t)
  BY <1>1, <1>2, QuietWorld DEF StartLocks, pids
<1>3. CASE StartGuard(t)
  BY <1>1, <1>3, StatusWorld DEF StartGuard, pids
<1>4. CASE ProbeOutside(t)
  BY <1>1, <1>4, StatusWorld DEF ProbeOutside, Cancelled, pids
<1>5. CASE ProbeManaged(t)
  <2>1. managed_pid' \in 0 .. Len(servers) /\ pid_file' \in 0 .. Len(servers) /\ status' \in StatusRecord
    BY <1>1, <1>5 DEF ProbeManaged, Cancelled, ClearsFile, pids
  <2> QED
    BY <1>1, <1>5, <2>1, StatusWorld DEF ProbeManaged
<1>6. CASE SpawnFails(t)
  BY <1>1, <1>6, StatusWorld DEF SpawnFails, pids
<1>7. CASE SpawnServer(t)
  <2> DEFINE new == [state |-> "loading", model |-> life.model, run |-> jade.run]
  <2>1. jade.run \in 1 .. bound.launches /\ life.model \in Models
    BY <1>7, BoundsAreBounds DEF SpawnServer, At, GoneIsGone, Types
  <2>2. new \in ServerRecord /\ servers \in Seq(ServerRecord)
    BY <2>1 DEF ServerRecord, Types
  <2>3. servers' = Append(servers, new)
    BY <1>7 DEF SpawnServer
  <2>4. servers' \in Seq(ServerRecord) /\ Len(servers') = Len(servers) + 1
    BY <2>2, <2>3, AppendProperties
  <2>5. ServerRecord' = ServerRecord
    BY <1>7 DEF ServerRecord, SpawnServer, user
  <2>6. port' \in 0 .. Len(servers') /\ status' \in StatusRecord
    BY <1>7, <2>4, AliveServers DEF SpawnServer, Types
  <2>7. 0 .. Len(servers) \subseteq 0 .. Len(servers')
    BY <2>4, AliveServers
  <2> QED
    BY <1>7, <2>4, <2>5, <2>6, <2>7 DEF SpawnServer, Types, WorldTypes, user, pids
<1> QED
  BY <1>2, <1>3, <1>4, <1>5, <1>6, <1>7

LEMMA LaterTypes ==
    ASSUME Types, NEW t \in Tasks,
           RecordServer(t) \/ StopSignals(t) \/ StopLocks(t) \/ Stop(t) \/ ModelLocks(t) \/ SetModel(t)
           \/ PollWakes(t) \/ PollEnds(t) \/ PollProbes(t) \/ PollReady(t) \/ PollSleeps(t)
           \/ PollGivesUp(t)
    PROVE  WorldTypes'
<1> USE Statuses
<1>1. /\ stopped \in BOOLEAN /\ status \in StatusRecord
      /\ managed_pid \in 0 .. Len(servers) /\ pid_file \in 0 .. Len(servers)
      /\ 0 \in 0 .. Len(servers) /\ TRUE \in BOOLEAN /\ FALSE \in BOOLEAN
      /\ Len(servers) \in 0 .. Len(servers) /\ Len(servers) \in Nat
  BY AliveServers DEF Types
<1>2. CASE RecordServer(t)
  <2>1. ServerRecord' = ServerRecord
    BY <1>2 DEF ServerRecord, RecordServer, user
  <2>2. life' \in [proc : Nat, gen : Nat, model : Models] /\ life'.proc = Len(servers)
    BY <1>1, <1>2, LifeMoves DEF RecordServer
  <2> QED
    BY <1>1, <1>2, <2>1, <2>2 DEF RecordServer, Types, WorldTypes, user, world
<1>3. CASE StopSignals(t) \/ StopLocks(t) \/ ModelLocks(t) \/ PollWakes(t) \/ PollProbes(t) \/ PollSleeps(t)
  BY <1>1, <1>3, QuietWorld
     DEF StopSignals, StopLocks, ModelLocks, PollWakes, PollProbes, PollSleeps, pids
<1>4. CASE Stop(t)
  BY <1>1, <1>4, ShutWorld DEF Stop
<1>5. CASE PollGivesUp(t)
  BY <1>1, <1>5, ShutWorld DEF PollGivesUp
<1>6. CASE SetModel(t)
  <2>1. ServerRecord' = ServerRecord
    BY <1>6 DEF ServerRecord, SetModel, user
  <2>2. tasks[t].model \in Models
    BY DEF Types, TaskRecord
  <2>3. life' \in [proc : Nat, gen : Nat, model : Models] /\ life'.proc = life.proc
    BY <1>6, <2>2 DEF SetModel, Types
  <2> QED
    BY <1>6, <2>1, <2>3 DEF SetModel, Types, WorldTypes, user, world, pids
<1>7. CASE PollEnds(t)
  <2>1. ServerRecord' = ServerRecord
    BY <1>7 DEF ServerRecord, PollEnds, user
  <2>2. life' \in [proc : Nat, gen : Nat, model : Models] /\ life'.proc \in {0, life.proc}
    BY <1>7, SMTT(40) DEF PollEnds, Types
  <2>3. /\ managed_pid' \in {0, managed_pid} /\ pid_file' \in {0, pid_file}
        /\ status' \in StatusRecord
    BY <1>1, <1>7 DEF PollEnds, ClearsFile, pids
  <2> QED
    BY <1>1, <1>7, <2>1, <2>2, <2>3 DEF PollEnds, Types, WorldTypes, user, world
<1>8. CASE PollReady(t)
  BY <1>1, <1>8, StatusWorld DEF PollReady, pids
<1> QED
  BY <1>2, <1>3, <1>4, <1>5, <1>6, <1>7, <1>8

LEMMA EnvironmentTypes ==
    ASSUME Types,
           Quit \/ Dies \/ Launch \/ (\E s \in DOMAIN servers : ServerLoads(s) \/ ServerExits(s))
           \/ OutsideChanges \/ Begun
    PROVE  WorldTypes'
<1> USE Statuses
<1>1. /\ 0 \in 0 .. Len(servers) /\ TRUE \in BOOLEAN /\ FALSE \in BOOLEAN
      /\ DOMAIN servers = 1 .. Len(servers) /\ Len(servers) \in Nat
  BY AliveServers
<1>2. CASE Quit
  <2>1. /\ servers' \in Seq(ServerRecord') /\ Len(servers') = Len(servers)
        /\ port' \in 0 .. Len(servers) /\ outside' \in BOOLEAN
    BY <1>2, KillTypes DEF Quit
  <2>2. jade' \in [state : {"up", "quitting", "gone"}, run : 0 .. bound.launches]
    BY <1>2 DEF Quit, Types
  <2> QED
    BY <1>1, <1>2, <2>1, <2>2 DEF Quit, ClearsFile, Types, WorldTypes
<1>3. CASE Dies
  <2>1. ServerRecord' = ServerRecord
    BY <1>3 DEF ServerRecord, Dies
  <2>2. jade' \in [state : {"up", "quitting", "gone"}, run : 0 .. bound.launches]
    BY <1>3 DEF Dies, Types
  <2>3. (CHOOSE m \in Models : TRUE) \in Models
    BY ModelsExist
  <2>4. life' \in [proc : Nat, gen : Nat, model : Models] /\ life'.proc = 0
    BY <1>3, <2>3 DEF Dies, NoLife
  <2> QED
    BY <1>1, <1>3, <2>1, <2>2, <2>4 DEF Dies, Types, WorldTypes, world
<1>4. CASE Launch
  <2>1. ServerRecord' = ServerRecord
    BY <1>4 DEF ServerRecord, Launch
  <2>2. jade' \in [state : {"up", "quitting", "gone"}, run : 0 .. bound.launches]
    BY <1>4, BoundsAreBounds DEF Launch, Types
  <2>3. enabled' \in BOOLEAN
    BY <1>4 DEF Launch
  <2> QED
    BY <1>4, <2>1, <2>2, <2>3 DEF Launch, Types, WorldTypes, world, pids
<1>5. ASSUME NEW s \in DOMAIN servers, ServerLoads(s) PROVE WorldTypes'
  <2>1. ServerRecord' = ServerRecord
    BY <1>5 DEF ServerRecord, ServerLoads, user
  <2>2. [servers[s] EXCEPT !.state = "healthy"] \in ServerRecord
    <3>1. servers[s] \in ServerRecord
      BY <1>1, ElementOfSeq DEF Types
    <3> QED
      BY <3>1 DEF ServerRecord
  <2>3. servers' = [servers EXCEPT ![s] = [servers[s] EXCEPT !.state = "healthy"]]
    BY <1>5 DEF ServerLoads
  <2>4. servers' \in Seq(ServerRecord) /\ Len(servers') = Len(servers)
    BY <1>1, <2>2, <2>3, ExceptSeq DEF Types
  <2> QED
    BY <1>5, <2>1, <2>4 DEF ServerLoads, Types, WorldTypes, user, pids
<1>6. ASSUME NEW s \in DOMAIN servers, ServerExits(s) PROVE WorldTypes'
  <2>1. /\ servers' \in Seq(ServerRecord') /\ Len(servers') = Len(servers)
        /\ port' \in 0 .. Len(servers) /\ outside' \in BOOLEAN
    BY <1>6, KillTypes DEF ServerExits, user
  <2> QED
    BY <1>6, <2>1 DEF ServerExits, Types, WorldTypes, user, pids
<1>7. CASE OutsideChanges
  <2>1. ServerRecord' = ServerRecord
    BY <1>7 DEF ServerRecord, OutsideChanges
  <2>2. outside' \in BOOLEAN
    BY <1>7 DEF OutsideChanges
  <2> QED
    BY <1>7, <2>1, <2>2 DEF OutsideChanges, Types, WorldTypes, pids
<1>8. CASE Begun
  <2>1. ServerRecord' = ServerRecord
    BY <1>8 DEF ServerRecord, Begun, OnlyTasks
  <2> QED
    BY <1>8, <2>1 DEF Begun, OnlyTasks, Types, WorldTypes, world, pids
<1> QED
  BY <1>2, <1>3, <1>4, <1>5, <1>6, <1>7, <1>8

-----------------------------------------------------------------------------
(* The lock.                                                               *)

LEMMA QueueStays ==
    ASSUME Types, LockIsQueue, UNCHANGED lock,
           \A u \in Tasks : Queued(u)' <=> Queued(u),
           \A u \in Tasks : tasks'[u].pc \in Holding => tasks[u].pc \in Holding \/ Holds(u)
    PROVE  LockIsQueue'
<1>1. \A i \in 1 .. Len(lock) : lock[i] \in Tasks
  BY ElementOfSeq DEF Types
<1>2. \A i \in 1 .. Len(lock') : tasks'[lock'[i]].pc \in Waiting \cup Holding
  <2> SUFFICES ASSUME NEW i \in 1 .. Len(lock') PROVE tasks'[lock[i]].pc \in Waiting \cup Holding
    OBVIOUS
  <2>1. Queued(lock[i]) /\ lock[i] \in Tasks
    BY <1>1 DEF LockIsQueue
  <2> QED
    BY <2>1 DEF Queued
<1>3. \A u \in Tasks : tasks'[u].pc \in Holding => Holds(u)'
  BY DEF LockIsQueue, Holds
<1> QED
  BY <1>2, <1>3 DEF LockIsQueue, Queued

LEMMA QueueGrows ==
    ASSUME Types, LockIsQueue, NEW t \in Tasks, ~Queued(t), lock' = Append(lock, t),
           tasks'[t].pc \in Waiting, \A u \in Tasks \ {t} : tasks'[u] = tasks[u]
    PROVE  LockIsQueue'
<1> DEFINE n == Len(lock)
<1>1. n \in Nat /\ \A i \in 1 .. n : lock[i] \in Tasks
  BY ElementOfSeq, LenProperties DEF Types
<1>2. Len(lock') = n + 1 /\ lock'[n + 1] = t /\ \A i \in 1 .. n : lock'[i] = lock[i]
  BY AppendProperties DEF Types
<1>3. \A i \in 1 .. n : lock[i] # t
  BY DEF LockIsQueue
<1>4. \A i, j \in 1 .. Len(lock') : lock'[i] = lock'[j] => i = j
  <2>1. \A i, j \in 1 .. n : lock[i] = lock[j] => i = j
    BY DEF LockIsQueue
  <2> QED
    BY <1>1, <1>2, <1>3, <2>1
<1>5. \A i \in 1 .. Len(lock') : tasks'[lock'[i]].pc \in Waiting \cup Holding
  <2>1. \A i \in 1 .. n : Queued(lock[i])
    BY DEF LockIsQueue
  <2>2. \A i \in 1 .. n : tasks'[lock[i]] = tasks[lock[i]]
    BY <1>1, <1>3
  <2> QED
    BY <1>1, <1>2, <2>1, <2>2 DEF Queued
<1>6. \A u \in Tasks : Queued(u)' => \E i \in 1 .. Len(lock') : lock'[i] = u
  <2> SUFFICES ASSUME NEW u \in Tasks, Queued(u)' PROVE \E i \in 1 .. Len(lock') : lock'[i] = u
    OBVIOUS
  <2>1. CASE u = t
    BY <1>1, <1>2, <2>1
  <2>2. CASE u # t
    <3>1. Queued(u)
      BY <2>2 DEF Queued
    <3>2. PICK i \in 1 .. n : lock[i] = u
      BY <3>1 DEF LockIsQueue
    <3>3. i \in 1 .. Len(lock') /\ lock'[i] = u
      BY <1>1, <1>2, <3>2
    <3> QED
      BY <3>3
  <2> QED
    BY <2>1, <2>2
<1>7. \A u \in Tasks : tasks'[u].pc \in Holding => Holds(u)'
  <2> SUFFICES ASSUME NEW u \in Tasks, tasks'[u].pc \in Holding PROVE Holds(u)'
    OBVIOUS
  <2>1. u # t
    BY DEF Waiting, Holding
  <2>2. Holds(u)
    BY <2>1 DEF LockIsQueue
  <2>3. Head(lock') = Head(lock) /\ lock' # <<>>
    BY <2>2, HeadTailAppend, AppendProperties DEF Types, Holds
  <2> QED
    BY <2>2, <2>3 DEF Holds
<1> QED
  BY <1>4, <1>5, <1>6, <1>7 DEF LockIsQueue, Queued

\* The holder goes, and others may come to where nobody waits.
LEMMA QueueShrinks ==
    ASSUME Types, LockIsQueue, NEW t \in Tasks, Holds(t), Unlocks, ~Queued(t)',
           \A u \in Tasks \ {t} : Queued(u)' <=> Queued(u),
           \A u \in Tasks \ {t} : tasks'[u].pc \in Holding => tasks[u].pc \in Holding
    PROVE  LockIsQueue'
<1> DEFINE n == Len(lock)
<1>1. n \in Nat /\ n > 0 /\ \A i \in 1 .. n : lock[i] \in Tasks
  BY ElementOfSeq, LenProperties, EmptySeq DEF Types, Holds
<1>2. Len(lock') = n - 1 /\ \A i \in 1 .. n - 1 : lock'[i] = lock[i + 1]
  BY HeadTailProperties DEF Types, Holds, Unlocks
<1>3. lock[1] = t
  BY <1>1 DEF Types, Holds
<1>4. \A i, j \in 1 .. n : lock[i] = lock[j] => i = j
  BY DEF LockIsQueue
<1>5. \A i \in 2 .. n : lock[i] \in Tasks \ {t}
  BY <1>1, <1>3, <1>4
<1>6. \A i, j \in 1 .. Len(lock') : lock'[i] = lock'[j] => i = j
  <2> SUFFICES ASSUME NEW i \in 1 .. n - 1, NEW j \in 1 .. n - 1, lock[i + 1] = lock[j + 1]
               PROVE  i = j
    BY <1>2
  <2>1. i + 1 \in 1 .. n /\ j + 1 \in 1 .. n
    BY <1>1
  <2>2. i + 1 = j + 1
    BY <1>4, <2>1
  <2> QED
    BY <1>1, <2>2
<1>7. \A i \in 1 .. Len(lock') : tasks'[lock'[i]].pc \in Waiting \cup Holding
  <2> SUFFICES ASSUME NEW i \in 1 .. n - 1 PROVE tasks'[lock[i + 1]].pc \in Waiting \cup Holding
    BY <1>2
  <2>1. i + 1 \in 2 .. n /\ i + 1 \in 1 .. n
    BY <1>1
  <2>2. Queued(lock[i + 1]) /\ lock[i + 1] \in Tasks \ {t}
    BY <1>5, <2>1 DEF LockIsQueue
  <2> QED
    BY <2>2 DEF Queued
<1>8. \A u \in Tasks : Queued(u)' => \E i \in 1 .. Len(lock') : lock'[i] = u
  <2> SUFFICES ASSUME NEW u \in Tasks \ {t}, Queued(u)' PROVE \E i \in 1 .. n - 1 : lock[i + 1] = u
    BY <1>2
  <2>1. PICK i \in 1 .. n : lock[i] = u
    BY DEF LockIsQueue
  <2>2. i - 1 \in 1 .. n - 1 /\ (i - 1) + 1 = i
    BY <1>1, <1>3, <2>1
  <2> QED
    BY <2>1, <2>2
<1>9. \A u \in Tasks : tasks'[u].pc \in Holding => Holds(u)'
  <2> SUFFICES ASSUME NEW u \in Tasks, tasks'[u].pc \in Holding PROVE FALSE
    OBVIOUS
  <2>1. u # t
    BY DEF Queued
  <2>2. Holds(u)
    BY <2>1 DEF LockIsQueue
  <2> QED
    BY <2>1, <2>2 DEF Holds
<1> QED
  BY <1>6, <1>7, <1>8, <1>9 DEF LockIsQueue, Queued

\* Nobody is behind the lock but its holder.
LEMMA OnlyTheHolder ==
    ASSUME LockIsQueue, NEW t \in Tasks, Holds(t), NEW u \in Tasks, tasks[u].pc \in Holding
    PROVE  u = t
  BY DEF LockIsQueue, Holds

\* What a task's step does to the tasks and the lock: it goes on without the
\* lock or with it, joins the queue, or lets the lock go.
Queueing(t) ==
    \/ /\ UNCHANGED lock /\ (Queued(t)' <=> Queued(t))
       /\ tasks'[t].pc \in Holding => tasks[t].pc \in Holding \/ Holds(t)
       /\ \A u \in Tasks \ {t} : tasks'[u] = tasks[u]
    \/ /\ lock' = Append(lock, t) /\ ~Queued(t) /\ tasks'[t].pc \in Waiting
       /\ \A u \in Tasks \ {t} : tasks'[u] = tasks[u]
    \/ /\ Holds(t) /\ Unlocks /\ ~Queued(t)'
       /\ \A u \in Tasks \ {t} : tasks'[u] = tasks[u]
                                 \/ (~Queued(u) /\ ~Queued(u)')

LEMMA QueueStep ==
    ASSUME Types, LockIsQueue, NEW t \in Tasks, Queueing(t)
    PROVE  LockIsQueue'
<1>1. CASE /\ UNCHANGED lock /\ (Queued(t)' <=> Queued(t))
           /\ tasks'[t].pc \in Holding => tasks[t].pc \in Holding \/ Holds(t)
           /\ \A u \in Tasks \ {t} : tasks'[u] = tasks[u]
  <2>1. \A u \in Tasks : Queued(u)' <=> Queued(u)
    BY <1>1 DEF Queued
  <2>2. \A u \in Tasks : tasks'[u].pc \in Holding => tasks[u].pc \in Holding \/ Holds(u)
    BY <1>1
  <2> QED
    BY <1>1, <2>1, <2>2, QueueStays
<1>2. CASE /\ lock' = Append(lock, t) /\ ~Queued(t) /\ tasks'[t].pc \in Waiting
           /\ \A u \in Tasks \ {t} : tasks'[u] = tasks[u]
  BY <1>2, QueueGrows
<1>3. CASE /\ Holds(t) /\ Unlocks /\ ~Queued(t)'
           /\ \A u \in Tasks \ {t} : tasks'[u] = tasks[u] \/ (~Queued(u) /\ ~Queued(u)')
  <2>1. \A u \in Tasks \ {t} : Queued(u)' <=> Queued(u)
    BY <1>3 DEF Queued
  <2>2. \A u \in Tasks \ {t} : tasks'[u].pc \in Holding => tasks[u].pc \in Holding
    BY <1>3 DEF Queued
  <2> QED
    BY <1>3, <2>1, <2>2, QueueShrinks
<1> QED
  BY <1>1, <1>2, <1>3 DEF Queueing

\* The tasks and the lock have their types and the queue is one.
TasksOK == tasks \in [Tasks -> TaskRecord] /\ lock \in Seq(Tasks) /\ LockIsQueue

LEMMA QueueingIsOK ==
    ASSUME Types, LockIsQueue, NEW t \in Tasks, tasks' \in [Tasks -> TaskRecord], Queueing(t)
    PROVE  TasksOK'
<1>1. lock' \in Seq(Tasks)
  BY LockTypes DEF Queueing
<1>2. LockIsQueue'
  BY QueueStep
<1> QED
  BY <1>1, <1>2 DEF TasksOK

LEMMA GoesOn ==
    ASSUME Types, LockIsQueue, NEW t \in Tasks, NEW pc \in Point, Goes(t, pc), UNCHANGED lock,
           (pc \in Waiting \cup Holding) <=> Queued(t),
           pc \in Holding => Holds(t)
    PROVE  TasksOK'
<1>1. /\ tasks' \in [Tasks -> TaskRecord]
      /\ tasks'[t].pc = pc
      /\ \A u \in Tasks \ {t} : tasks'[u] = tasks[u]
  BY GoTypes DEF Types
<1>2. Queueing(t)
  BY <1>1 DEF Queueing, Queued
<1> QED
  BY <1>1, <1>2, QueueingIsOK

LEMMA JoinsTheQueue ==
    ASSUME Types, LockIsQueue, NEW t \in Tasks, NEW pc \in Waiting, Queues(t, pc), ~Queued(t)
    PROVE  TasksOK'
<1>1. /\ tasks' \in [Tasks -> TaskRecord]
      /\ tasks'[t].pc = pc
      /\ \A u \in Tasks \ {t} : tasks'[u] = tasks[u]
  BY GoTypes DEF Types, Queues, Point
<1>2. Queueing(t)
  BY <1>1 DEF Queueing, Queues
<1> QED
  BY <1>1, <1>2, QueueingIsOK

\* A task leaves the lock, or was without it, for somewhere else or for good.
LEMMA LetsGo ==
    ASSUME Types, LockIsQueue, NEW t \in Tasks, NEW task \in TaskRecord,
           tasks' = [tasks EXCEPT ![t] = task], task.pc \notin Waiting \cup Holding,
           (Holds(t) /\ Unlocks) \/ (~Queued(t) /\ UNCHANGED lock)
    PROVE  TasksOK'
<1>1. tasks \in [Tasks -> TaskRecord]
  BY DEF Types
<1>2. /\ tasks' \in [Tasks -> TaskRecord]
      /\ tasks'[t] = task
      /\ \A u \in Tasks \ {t} : tasks'[u] = tasks[u]
  BY <1>1, MoveTypes
<1>3. Queueing(t)
  BY <1>2 DEF Queueing, Queued, Holding
<1> QED
  BY <1>2, <1>3, QueueingIsOK

LEMMA TaskFinishes ==
    ASSUME Types, LockIsQueue, NEW t \in Tasks, Finishes(t),
           (Holds(t) /\ Unlocks) \/ (~Queued(t) /\ UNCHANGED lock)
    PROVE  TasksOK'
<1>1. Idle \in TaskRecord /\ Idle.pc \notin Waiting \cup Holding
  BY TaskRecords DEF Waiting, Holding
<1> QED
  BY <1>1, LetsGo DEF Finishes

\* The task that polls a server that was spawned.
LEMMA PollTask ==
    ASSUME Types
    PROVE  LET poll == [Task("poll") EXCEPT !.gen = life.gen + 1]
           IN  poll \in TaskRecord /\ poll.pc = "poll"
<1>1. "poll" \in Point /\ life.gen + 1 \in Nat
  BY DEF Point, Types
<1> QED
  BY <1>1, TaskRecords DEF Task, TaskRecord

LEMMA StartTasks ==
    ASSUME Types, LockIsQueue, NEW t \in Tasks,
           StartLocks(t) \/ StartGuard(t) \/ ProbeOutside(t) \/ ProbeManaged(t)
           \/ SpawnFails(t) \/ SpawnServer(t) \/ RecordServer(t)
    PROVE  TasksOK'
<1>1. /\ {"probe", "probe_managed", "spawn", "record", "probing"} \subseteq Point
      /\ \A pc \in Holding : (pc \in Waiting \cup Holding)
      /\ "starts" \in Waiting /\ "start" \notin Waiting \cup Holding
  BY DEF Point, Waiting, Holding
<1>2. CASE StartLocks(t)
  <2>1. ~Queued(t) /\ Queues(t, "starts")
    BY <1>1, <1>2 DEF StartLocks, At, Queued
  <2> QED
    BY <1>1, <2>1, JoinsTheQueue
<1>3. CASE StartGuard(t)
  <2>1. Queued(t) /\ Holds(t)
    BY <1>3 DEF StartGuard, At, Queued, Waiting
  <2>2. CASE Finishes(t) /\ Unlocks
    BY <2>1, <2>2, TaskFinishes
  <2>3. CASE Goes(t, "probe") /\ UNCHANGED lock
    BY <1>1, <2>1, <2>3, GoesOn DEF Holding
  <2> QED
    BY <1>3, <2>2, <2>3 DEF StartGuard
<1>4. CASE tasks[t].pc \in Holding
  <2>1. Holds(t) /\ Queued(t)
    BY <1>4 DEF LockIsQueue, Queued
  <2>2. CASE Finishes(t) /\ Unlocks
    BY <2>1, <2>2, TaskFinishes
  <2>3. CASE \E pc \in {"probe_managed", "spawn", "record"} : Goes(t, pc) /\ UNCHANGED lock
    BY <1>1, <2>1, <2>3, GoesOn DEF Holding
  <2>4. CASE RecordServer(t)
    <3> DEFINE ts == [tasks EXCEPT ![t] = Idle]
               poll == [Task("poll") EXCEPT !.gen = life.gen + 1]
    <3>1. ts \in [Tasks -> TaskRecord] /\ ts[t] = Idle /\ \A u \in Tasks \ {t} : ts[u] = tasks[u]
      BY TaskRecords DEF Types
    <3>2. poll \in TaskRecord /\ poll.pc = "poll"
      BY PollTask
    <3>3. \E u \in Tasks : ts[u].pc = "idle"
      BY <3>1, TaskRecords
    <3>4. PICK c \in Tasks : ts[c].pc = "idle" /\ Spawns(ts, poll) = [ts EXCEPT ![c] = poll]
      BY <3>1, <3>2, <3>3, SpawnTakesASlot
    <3>5. tasks' = [ts EXCEPT ![c] = poll] /\ Unlocks
      BY <2>4, <3>4 DEF RecordServer
    <3>6. tasks' \in [Tasks -> TaskRecord]
      BY <3>1, <3>2, <3>5, MoveTypes
    <3>7. \A u \in Tasks \ {t} : tasks'[u] = tasks[u] \/ (~Queued(u) /\ ~Queued(u)')
      BY <3>1, <3>2, <3>4, <3>5 DEF Queued, Waiting, Holding
    <3>8. ~Queued(t)'
      BY <3>1, <3>2, <3>5, TaskRecords DEF Queued, Waiting, Holding
    <3>9. Queueing(t)
      BY <2>1, <3>5, <3>7, <3>8 DEF Queueing
    <3> QED
      BY <3>6, <3>9, QueueingIsOK
  <2>5. CASE ProbeOutside(t) \/ ProbeManaged(t) \/ SpawnFails(t) \/ SpawnServer(t)
    BY <2>2, <2>3, <2>5 DEF ProbeOutside, ProbeManaged, SpawnFails, SpawnServer, Cancelled
  <2>6. CASE StartLocks(t) \/ StartGuard(t)
    BY <1>2, <1>3, <2>6
  <2> QED
    BY <2>4, <2>5, <2>6
<1>5. tasks[t].pc \in Holding \/ StartLocks(t) \/ StartGuard(t)
  BY DEF ProbeOutside, ProbeManaged, SpawnFails, SpawnServer, RecordServer, At, Holding
<1> QED
  BY <1>2, <1>3, <1>4, <1>5

LEMMA LaterTasks ==
    ASSUME Types, LockIsQueue, NEW t \in Tasks,
           StopSignals(t) \/ StopLocks(t) \/ Stop(t) \/ ModelLocks(t) \/ SetModel(t)
           \/ PollWakes(t) \/ PollEnds(t) \/ PollProbes(t) \/ PollReady(t) \/ PollSleeps(t)
           \/ PollGivesUp(t)
    PROVE  TasksOK'
<1>1. /\ "stops" \in Waiting /\ "sets" \in Waiting /\ "polls" \in Waiting /\ "probing" \in Holding
      /\ "stop_lock" \in Point /\ "stop" \in Point /\ "start" \in Point /\ "poll" \in Point
      /\ "probing" \in Point
      /\ {"stop", "stop_lock", "model", "poll", "start"} \cap (Waiting \cup Holding) = {}
  BY DEF Point, Waiting, Holding
<1>2. CASE StopSignals(t)
  <2>1. ~Queued(t) /\ Goes(t, "stop_lock") /\ UNCHANGED lock
    BY <1>1, <1>2 DEF StopSignals, At, Queued
  <2> QED
    BY <1>1, <2>1, GoesOn
<1>3. CASE StopLocks(t) \/ ModelLocks(t) \/ PollWakes(t)
  <2>1. ~Queued(t)
    BY <1>1, <1>3 DEF StopLocks, ModelLocks, PollWakes, At, Queued
  <2>2. CASE \E pc \in {"stops", "sets", "polls"} : Queues(t, pc)
    BY <1>1, <2>1, <2>2, JoinsTheQueue
  <2>3. CASE Finishes(t) /\ UNCHANGED lock
    BY <2>1, <2>3, TaskFinishes
  <2> QED
    BY <1>3, <2>2, <2>3 DEF StopLocks, ModelLocks, PollWakes
<1>4. CASE Stop(t)
  <2> DEFINE task == IF tasks[t].then = "start" THEN Task("start") ELSE Idle
  <2>1. task \in TaskRecord /\ task.pc \notin Waiting \cup Holding
    BY <1>1, TaskRecords DEF Waiting, Holding
  <2>2. tasks' = [tasks EXCEPT ![t] = task] /\ Holds(t) /\ Unlocks
    BY <1>4 DEF Stop, Types
  <2> QED
    BY <2>1, <2>2, LetsGo
<1>5. CASE SetModel(t)
  <2> DEFINE task == IF Restarts(t) THEN [Task("stop") EXCEPT !.then = "start"] ELSE Idle
  <2>1. task \in TaskRecord /\ task.pc \notin Waiting \cup Holding
    BY <1>1, TaskRecords DEF Waiting, Holding, Task, TaskRecord
  <2>2. tasks' = [tasks EXCEPT ![t] = task] /\ Holds(t) /\ Unlocks
    BY <1>5 DEF SetModel
  <2> QED
    BY <2>1, <2>2, LetsGo
<1>6. CASE PollEnds(t)
  BY <1>6, TaskFinishes DEF PollEnds
<1>7. CASE PollProbes(t)
  <2>1. Queued(t) /\ Holds(t) /\ Goes(t, "probing") /\ UNCHANGED lock
    BY <1>1, <1>7 DEF PollProbes, At, Queued
  <2> QED
    BY <1>1, <2>1, GoesOn
<1>8. CASE PollReady(t) \/ PollSleeps(t) \/ PollGivesUp(t)
  <2>1. Holds(t)
    BY <1>1, <1>8 DEF PollReady, PollSleeps, PollGivesUp, At, LockIsQueue
  <2>2. CASE Finishes(t) /\ Unlocks
    BY <2>1, <2>2, TaskFinishes
  <2>3. CASE Goes(t, "poll") /\ Unlocks
    <3> DEFINE task == [tasks[t] EXCEPT !.pc = "poll"]
    <3>1. task \in TaskRecord /\ task.pc \notin Waiting \cup Holding
      BY <1>1 DEF Types, TaskRecord
    <3>2. tasks' = [tasks EXCEPT ![t] = task]
      BY <2>3 DEF Goes
    <3> QED
      BY <2>1, <2>3, <3>1, <3>2, LetsGo
  <2> QED
    BY <1>8, <2>2, <2>3 DEF PollReady, PollSleeps, PollGivesUp
<1> QED
  BY <1>2, <1>3, <1>4, <1>5, <1>6, <1>7, <1>8

\* Tasks that come to where nobody waits, when the lock stays as it is.
LEMMA OthersKeepTheQueue ==
    ASSUME Types, LockIsQueue, UNCHANGED lock, tasks' \in [Tasks -> TaskRecord],
           \A u \in Tasks : tasks'[u] = tasks[u] \/ (~Queued(u) /\ ~Queued(u)')
    PROVE  TasksOK'
<1>1. \A u \in Tasks : Queued(u)' <=> Queued(u)
  BY DEF Queued
<1>2. \A u \in Tasks : tasks'[u].pc \in Holding => tasks[u].pc \in Holding \/ Holds(u)
  BY DEF Queued
<1> QED
  BY <1>1, <1>2, QueueStays DEF TasksOK, Types

LEMMA BegunTasks ==
    ASSUME Types, Begun
    PROVE  \E c \in Tasks, task \in Fresh :
             tasks[c].pc = "idle" /\ tasks' = [tasks EXCEPT ![c] = task]
<1>1. PICK task \in Fresh : tasks' = Spawns(tasks, task)
  BY DEF Begun
<1>2. task \in TaskRecord
  BY DEF Fresh
<1> QED
  BY <1>1, <1>2, SpawnTakesASlot DEF Types, Begun, HasSlot

LEMMA EnvironmentTasks ==
    ASSUME Types, LockIsQueue, GoneIsGone,
           Quit \/ Dies \/ Launch \/ (\E s \in DOMAIN servers : ServerLoads(s) \/ ServerExits(s))
           \/ OutsideChanges \/ Begun
    PROVE  TasksOK'
<1>1. CASE UNCHANGED <<tasks, lock>>
  BY <1>1, OthersKeepTheQueue DEF Types
<1>2. CASE Dies
  <2>1. tasks' = [t \in Tasks |-> Idle] /\ lock' = <<>>
    BY <1>2 DEF Dies
  <2>2. lock' \in Seq(Tasks) /\ Len(lock') = 0
    BY <2>1, EmptySeq
  <2>3. \A t \in Tasks : tasks'[t].pc = "idle"
    BY <2>1, TaskRecords
  <2> QED
    BY <2>1, <2>2, <2>3, TaskRecords DEF TasksOK, LockIsQueue, Queued, Waiting, Holding
<1>3. CASE Launch
  <2>1. \A t \in Tasks : tasks[t] = Idle
    BY <1>3 DEF Launch, GoneIsGone
  <2>2. PICK m \in bound.tiers, on \in BOOLEAN :
          LET set == Spawns(tasks, [Task("model") EXCEPT !.model = m])
          IN  tasks' = IF on THEN Spawns(set, Task("start")) ELSE set
    BY <1>3 DEF Launch
  <2> DEFINE model == [Task("model") EXCEPT !.model = m]
             set == Spawns(tasks, model)
  <2>3. model \in TaskRecord /\ model.pc = "model" /\ Task("start") \in TaskRecord
        /\ Task("start").pc = "start"
    <3>1. m \in Models /\ "model" \in Point /\ "start" \in Point
      BY BoundsAreBounds DEF Types, Point
    <3> QED
      BY <3>1, TaskRecords DEF Task, TaskRecord
  <2>4. set \in [Tasks -> TaskRecord] /\ \A u \in Tasks : set[u] \in {Idle, model}
    BY <2>1, <2>3, SpawnTypes, ZenonT(60) DEF Types
  <2>5. /\ tasks' \in [Tasks -> TaskRecord]
        /\ \A u \in Tasks : tasks'[u] \in {Idle, model, Task("start")}
    <3>1. CASE on
      <4>1. tasks' = Spawns(set, Task("start"))
        BY <2>2, <3>1
      <4>2. /\ tasks' \in [Tasks -> TaskRecord]
            /\ \A u \in Tasks : tasks'[u] \in {set[u], Task("start")}
        BY <2>3, <2>4, <4>1, SpawnTypes
      <4> QED
        BY <2>4, <4>2
    <3>2. CASE ~on
      BY <2>2, <2>4, <3>2
    <3> QED
      BY <3>1, <3>2
  <2>6. \A u \in Tasks : ~Queued(u) /\ ~Queued(u)'
    BY <2>1, <2>3, <2>5, TaskRecords DEF Queued, Waiting, Holding
  <2> QED
    BY <1>3, <2>5, <2>6, OthersKeepTheQueue DEF Launch
<1>4. CASE Begun
  <2>1. PICK c \in Tasks, task \in Fresh :
          tasks[c].pc = "idle" /\ tasks' = [tasks EXCEPT ![c] = task]
    BY <1>4, BegunTasks
  <2>2. tasks' \in [Tasks -> TaskRecord]
    BY <2>1, MoveTypes DEF Types, Fresh
  <2>3. \A u \in Tasks : tasks'[u] = tasks[u] \/ (~Queued(u) /\ ~Queued(u)')
    BY <2>1 DEF Queued, Waiting, Holding, Fresh, Types
  <2> QED
    BY <1>4, <2>2, <2>3, OthersKeepTheQueue DEF Begun, OnlyTasks
<1> QED
  BY <1>1, <1>2, <1>3, <1>4 DEF Quit, ServerLoads, ServerExits, OutsideChanges

-----------------------------------------------------------------------------
(* Who holds which server.                                                 *)

Restarting ==
    \E t \in Tasks : tasks[t].then = "start" /\ tasks[t].pc \in {"stop", "stop_lock", "stops"}

\* A step that takes no part in it.
LEMMA QuietHeld ==
    ASSUME Types, Held, UNCHANGED <<jade, life, managed_pid, pid_file, forgotten, status>>,
           Alive' = Alive, Len(servers') = Len(servers),
           \A s \in 1 .. Len(servers) : servers'[s].model = servers[s].model,
           jade.state = "gone" => UNCHANGED <<tasks, lock>>,
           AnyAt(Opening)' => AnyAt(Opening),
           AnyAt({"spawn", "record"})' => AnyAt({"spawn", "record"}),
           AnyAt({"record"})' <=> AnyAt({"record"}),
           Restarting => Restarting'
    PROVE  Held'
<1>1. GoneIsGone' /\ QuitKillsTheFile' /\ ChildIsManaged' /\ LiveIsOnFile'
  BY DEF Held, GoneIsGone, QuitKillsTheFile, ChildIsManaged, LiveIsOnFile
<1>2. StartHoldsNothing'
  <2>1. Len(servers) > 0 => Len(servers) \in 1 .. Len(servers)
    BY AliveServers
  <2> QED
    BY <2>1 DEF Held, StartHoldsNothing
<1>3. ServesTheModel'
  <2>1. life.proc # 0 => life.proc \in 1 .. Len(servers)
    BY AliveServers DEF Types
  <2> QED
    BY <2>1 DEF Held, ServesTheModel, Restarting
<1> QED
  BY <1>1, <1>2, <1>3 DEF Held

\* One task goes from one point to another, and none of them matters.
LEMMA QuietTask ==
    ASSUME Types, Held, NEW t \in Tasks, jade.state # "gone",
           UNCHANGED <<jade, life, managed_pid, pid_file, forgotten, status, servers>>,
           \A u \in Tasks \ {t} : tasks'[u] = tasks[u],
           tasks'[t].pc \in Opening => tasks[t].pc \in Opening,
           tasks'[t].pc \in {"spawn", "record"} => tasks[t].pc \in {"spawn", "record"},
           tasks'[t].pc = "record" <=> tasks[t].pc = "record",
           tasks[t].pc \in {"stop", "stop_lock", "stops"} =>
                /\ tasks'[t].pc \in {"stop", "stop_lock", "stops"}
                /\ tasks'[t].then = tasks[t].then
    PROVE  Held'
<1>1. AnyAt(Opening)' => AnyAt(Opening)
  BY DEF AnyAt
<1>2. AnyAt({"spawn", "record"})' => AnyAt({"spawn", "record"})
  BY DEF AnyAt
<1>3. AnyAt({"record"})' <=> AnyAt({"record"})
  BY DEF AnyAt
<1>4. Restarting => Restarting'
  BY DEF Restarting
<1>5. Alive' = Alive
  BY DEF Alive
<1> QED
  BY <1>1, <1>2, <1>3, <1>4, <1>5, QuietHeld

\* After a step of the holder nobody opens but perhaps the holder.
LEMMA NobodyOpens ==
    ASSUME LockIsQueue, NEW t \in Tasks, Holds(t),
           \A u \in Tasks \ {t} : tasks'[u] = tasks[u] \/ tasks'[u].pc \notin Holding,
           NEW points \in SUBSET Holding, tasks'[t].pc \notin points
    PROVE  ~AnyAt(points)'
  BY DEF AnyAt, LockIsQueue, Holds

LEMMA NobodyElseOpens ==
    ASSUME LockIsQueue, NEW t \in Tasks, Holds(t),
           NEW points \in SUBSET Holding, tasks[t].pc \notin points
    PROVE  ~AnyAt(points)
  BY DEF AnyAt, LockIsQueue, Holds

\* A server's PID goes from the file, with the server or into `forgotten`.
LEMMA ShutHeld ==
    ASSUME Types, Held, jade.state # "gone", jade' = jade, ClearsFile, managed_pid' = 0,
           life'.proc = 0, Alive' \subseteq Alive \ {managed_pid},
           ~AnyAt(Opening)', ~AnyAt({"spawn", "record"})', ~AnyAt({"record"})', ~AnyAt({"record"})
    PROVE  Held'
<1>1. 0 \notin Alive'
  BY AliveServers
<1>2. LiveIsOnFile'
  <2> SUFFICES ASSUME NEW s \in Alive' \ forgotten' PROVE FALSE
    BY DEF LiveIsOnFile
  <2>1. s \in Alive \ forgotten /\ s # managed_pid
    BY DEF ClearsFile
  <2>2. s = pid_file
    BY <2>1 DEF Held, LiveIsOnFile
  <2> QED
    BY <2>1, <2>2 DEF ClearsFile
<1> QED
  BY <1>1, <1>2 DEF Held, GoneIsGone, QuitKillsTheFile, ChildIsManaged, StartHoldsNothing,
     ServesTheModel

LEMMA MovesOf ==
    ASSUME Types, NEW t \in Tasks
    PROVE  /\ \A pc \in Point : Goes(t, pc) \/ Queues(t, pc) =>
                /\ tasks'[t].pc = pc /\ tasks'[t].then = tasks[t].then
                /\ \A u \in Tasks \ {t} : tasks'[u] = tasks[u]
           /\ Finishes(t) =>
                /\ tasks'[t] = Idle /\ tasks'[t].pc = "idle"
                /\ \A u \in Tasks \ {t} : tasks'[u] = tasks[u]
<1>1. tasks \in [Tasks -> TaskRecord]
  BY DEF Types
<1> QED
  BY <1>1, GoTypes, FinishTypes, TaskRecords DEF Queues

\* The sets of points that are asked for.
LEMMA Points ==
    /\ Opening \in SUBSET Holding /\ {"spawn", "record"} \in SUBSET Holding
    /\ {"record"} \in SUBSET Holding
    /\ Waiting \subseteq Point /\ Holding \subseteq Point
    /\ {"start", "stop_lock", "stop", "poll", "idle"} \subseteq Point
    /\ Waiting \cap Opening = {} /\ "probing" \notin Opening /\ "probing" \in Holding
    /\ {"starts", "stops", "sets", "polls"} \subseteq Waiting
    /\ {"probe", "probe_managed", "spawn", "record"} \subseteq Opening
    /\ {"start", "stop_lock", "stop", "poll", "idle", "model"} \cap Holding = {}
    /\ Waiting \cap Holding = {}
  BY DEF Opening, Holding, Waiting, Point

\* What a start that passed its guard may count on.
LEMMA OpeningHolds ==
    ASSUME Types, LockIsQueue, Held, NEW t \in Tasks, tasks[t].pc \in Opening
    PROVE  /\ Holds(t) /\ life.proc = 0 /\ managed_pid \notin Alive
           /\ tasks[t].pc \in {"spawn", "record"} => pid_file = 0
           /\ tasks[t].pc = "record" =>
                /\ status.state = "starting"
                /\ Len(servers) > 0 /\ servers[Len(servers)].model = life.model
           /\ tasks[t].pc # "record" => \A s \in Alive \ forgotten : s = pid_file
<1>1. Holds(t)
  BY Points DEF LockIsQueue
<1>2. tasks[t].pc # "record" => ~AnyAt({"record"})
  BY <1>1, Points, NobodyElseOpens
<1> QED
  BY <1>1, <1>2 DEF Held, StartHoldsNothing, LiveIsOnFile, AnyAt

LEMMA GuardHeld ==
    ASSUME IInv, NEW t \in Tasks, StartGuard(t)
    PROVE  Held'
<1>1. Types /\ LockIsQueue /\ Held
  BY DEF IInv
<1>2. /\ tasks[t].pc = "starts" /\ Holds(t) /\ jade.state # "gone"
      /\ UNCHANGED <<jade, life, managed_pid, pid_file, forgotten, servers>>
  BY DEF StartGuard, At, user, pids, world
<1>3. CASE Finishes(t) /\ UNCHANGED status
  <2>1. tasks'[t].pc = "idle" /\ \A u \in Tasks \ {t} : tasks'[u] = tasks[u]
    BY <1>1, <1>3, MovesOf
  <2> QED
    BY <1>1, <1>2, <1>3, <2>1, QuietTask DEF Opening
<1>4. CASE ~(life.proc # 0 \/ status.state \in {"ready", "starting"}) /\ Goes(t, "probe")
  <2>1. life.proc = 0 /\ status.state # "ready"
    BY <1>4
  <2>2. managed_pid \notin Alive
    BY <1>1, <2>1, AliveServers DEF Held, QuitKillsTheFile
  <2>3. tasks'[t].pc = "probe" /\ \A u \in Tasks \ {t} : tasks'[u] = tasks[u]
    BY <1>1, <1>4, MovesOf, Points
  <2>4. ~AnyAt({"record"}) /\ ~AnyAt({"record"})' /\ ~AnyAt({"spawn", "record"})'
    BY <1>1, <1>2, <2>3, NobodyOpens, NobodyElseOpens, Points
  <2>5. Alive' = Alive
    BY <1>2 DEF Alive
  <2> QED
    BY <1>1, <1>2, <2>1, <2>2, <2>4, <2>5 DEF Held, GoneIsGone, QuitKillsTheFile,
       ChildIsManaged, StartHoldsNothing, LiveIsOnFile, ServesTheModel
<1> QED
  BY <1>3, <1>4 DEF StartGuard

\* A start ends, or finds a server it has not spawned.
LEMMA OpeningEnds ==
    ASSUME Types, LockIsQueue, Held, jade.state # "gone", NEW t \in Tasks,
           tasks[t].pc \in Opening, tasks[t].pc # "record", Finishes(t),
           UNCHANGED <<jade, life, pid_file, forgotten, servers>>,
           managed_pid' \in Alive => managed_pid' = pid_file /\ status'.state = "ready"
    PROVE  Held'
<1>1. Holds(t) /\ life.proc = 0 /\ \A s \in Alive \ forgotten : s = pid_file
  BY OpeningHolds
<1>2. tasks'[t].pc = "idle" /\ \A u \in Tasks \ {t} : tasks'[u] = tasks[u]
  BY MovesOf
<1>3. ~AnyAt(Opening)' /\ ~AnyAt({"record"})' /\ ~AnyAt({"spawn", "record"})'
  BY <1>1, <1>2, NobodyOpens, Points
<1>4. Alive' = Alive
  BY DEF Alive
<1> QED
  BY <1>1, <1>3, <1>4 DEF Held, GoneIsGone, QuitKillsTheFile,
     ChildIsManaged, StartHoldsNothing, LiveIsOnFile, ServesTheModel

LEMMA ProbeHeld ==
    ASSUME IInv, NEW t \in Tasks, ProbeOutside(t) \/ ProbeManaged(t) \/ SpawnFails(t)
    PROVE  Held'
<1>1. Types /\ LockIsQueue /\ Held
  BY DEF IInv
<1>2. /\ tasks[t].pc \in {"probe", "probe_managed", "spawn"} /\ jade.state # "gone"
      /\ UNCHANGED <<jade, life, servers>>
  BY DEF ProbeOutside, ProbeManaged, SpawnFails, At, user, world
<1>3. tasks[t].pc \in Opening /\ tasks[t].pc # "record"
  BY <1>2, Points
<1>4. Holds(t) /\ life.proc = 0 /\ managed_pid \notin Alive /\ \A s \in Alive \ forgotten : s = pid_file
  BY <1>1, <1>3, OpeningHolds
<1>5. CASE Finishes(t) /\ UNCHANGED pids
  BY <1>1, <1>2, <1>3, <1>4, <1>5, OpeningEnds DEF pids
<1>6. CASE Goes(t, "probe_managed") /\ UNCHANGED <<pids, status>> /\ tasks[t].pc = "probe"
  <2>1. tasks'[t].pc = "probe_managed" /\ \A u \in Tasks \ {t} : tasks'[u] = tasks[u]
    BY <1>1, <1>6, MovesOf, Points
  <2> QED
    BY <1>1, <1>2, <1>3, <1>6, <2>1, QuietTask DEF pids, Opening
<1>7. CASE /\ Finishes(t) /\ UNCHANGED <<pid_file, forgotten>>
           /\ managed_pid' = IF pid_file \in Alive THEN pid_file ELSE managed_pid
           /\ status' = [state |-> "ready", managed |-> TRUE]
  <2>1. managed_pid' \in Alive => managed_pid' = pid_file /\ status'.state = "ready"
    BY <1>4, <1>7
  <2> QED
    BY <1>1, <1>2, <1>3, <1>7, <2>1, OpeningEnds
<1>8. CASE ClearsFile /\ Goes(t, "spawn") /\ UNCHANGED <<managed_pid, status>>
  <2>1. tasks'[t].pc = "spawn" /\ \A u \in Tasks \ {t} : tasks'[u] = tasks[u]
    BY <1>1, <1>8, MovesOf, Points
  <2>2. ~AnyAt({"record"})'
    BY <1>1, <1>4, <2>1, NobodyOpens, Points
  <2>3. Alive' = Alive
    BY <1>2 DEF Alive
  <2>4. pid_file' = 0 /\ Alive \ forgotten' = {}
    BY <1>4, <1>8 DEF ClearsFile
  <2> QED
    BY <1>1, <1>2, <1>4, <1>8, <2>2, <2>3, <2>4 DEF Held, GoneIsGone, QuitKillsTheFile,
       ChildIsManaged, StartHoldsNothing, LiveIsOnFile, ServesTheModel
<1> QED
  BY <1>5, <1>6, <1>7, <1>8 DEF ProbeOutside, ProbeManaged, SpawnFails, Cancelled, At

LEMMA SpawnHeld ==
    ASSUME IInv, NEW t \in Tasks, SpawnServer(t)
    PROVE  Held'
<1> DEFINE n == Len(servers)
           new == [state |-> "loading", model |-> life.model, run |-> jade.run]
<1>1. Types /\ LockIsQueue /\ Held
  BY DEF IInv
<1>2. /\ tasks[t].pc = "spawn" /\ jade.state # "gone"
      /\ UNCHANGED <<jade, life, managed_pid, pid_file, forgotten>>
      /\ status'.state = "starting" /\ servers' = Append(servers, new)
  BY DEF SpawnServer, At, user, pids, As
<1>3. Holds(t) /\ life.proc = 0 /\ managed_pid \notin Alive /\ pid_file = 0
      /\ \A s \in Alive \ forgotten : s = pid_file
  BY <1>1, <1>2, OpeningHolds, Points
<1>4. tasks'[t].pc = "record" /\ \A u \in Tasks \ {t} : tasks'[u] = tasks[u]
  BY <1>1, MovesOf, Points DEF SpawnServer
<1>5. Len(servers') = n + 1 /\ n \in Nat /\ servers'[n + 1] = new /\ \A s \in 1 .. n : servers'[s] = servers[s]
      /\ DOMAIN servers = 1 .. n /\ DOMAIN servers' = 1 .. n + 1
  BY <1>1, <1>2, AliveServers DEF Types
<1>6. Alive' = Alive \cup {n + 1}
  BY <1>5 DEF Alive
<1>7. managed_pid # n + 1 /\ managed_pid \notin Alive'
  BY <1>1, <1>3, <1>5, <1>6 DEF Types
<1>8. AnyAt({"record"})'
  BY <1>4 DEF AnyAt
<1>9. LiveIsOnFile'
  BY <1>2, <1>3, <1>5, <1>6, <1>8 DEF LiveIsOnFile
<1>10. StartHoldsNothing'
  BY <1>2, <1>3, <1>5, <1>7 DEF StartHoldsNothing
<1> QED
  BY <1>1, <1>2, <1>3, <1>7, <1>9, <1>10 DEF Held, GoneIsGone, QuitKillsTheFile,
     ChildIsManaged, ServesTheModel

LEMMA RecordHeld ==
    ASSUME IInv, NEW t \in Tasks, RecordServer(t)
    PROVE  Held'
<1> DEFINE n == Len(servers)
           ts == [tasks EXCEPT ![t] = Idle]
           poll == [Task("poll") EXCEPT !.gen = life.gen + 1]
<1>1. Types /\ LockIsQueue /\ Held
  BY DEF IInv
<1>2. /\ tasks[t].pc = "record" /\ jade.state # "gone"
      /\ UNCHANGED <<jade, forgotten, servers, status>>
      /\ managed_pid' = n /\ pid_file' = n
  BY DEF RecordServer, At, user, world
<1>3. /\ Holds(t) /\ pid_file = 0 /\ status.state = "starting"
      /\ n > 0 /\ servers[n].model = life.model
  BY <1>1, <1>2, OpeningHolds, Points
<1>4. life'.proc = n /\ life'.model = life.model
  BY <1>1, AliveServers, LifeMoves DEF RecordServer
<1>5. \A u \in Tasks : tasks'[u] \in {tasks[u], Idle, poll} /\ tasks'[t] \in {Idle, poll}
  <2>1. ts \in [Tasks -> TaskRecord] /\ ts[t] = Idle /\ \A u \in Tasks \ {t} : ts[u] = tasks[u]
    BY <1>1, TaskRecords DEF Types
  <2>2. poll \in TaskRecord
    BY <1>1, PollTask
  <2>3. tasks' = Spawns(ts, poll)
    BY DEF RecordServer
  <2> QED
    BY <2>1, <2>2, <2>3, SpawnTypes
<1>6. Idle.pc = "idle" /\ poll.pc = "poll"
  BY <1>1, TaskRecords, PollTask
<1>7. ~AnyAt(Opening)' /\ ~AnyAt({"record"})' /\ ~AnyAt({"spawn", "record"})'
  <2>1. tasks'[t].pc \notin Opening /\ \A u \in Tasks \ {t} : tasks'[u] = tasks[u] \/ tasks'[u].pc \notin Holding
    BY <1>5, <1>6, Points
  <2> QED
    BY <1>1, <1>3, <2>1, NobodyOpens, Points
<1>8. Alive' = Alive
  BY <1>2 DEF Alive
<1>9. LiveIsOnFile'
  <2>1. \A s \in Alive \ forgotten : s = n
    BY <1>1, <1>3, AliveServers DEF Held, LiveIsOnFile
  <2> QED
    BY <1>2, <1>8, <2>1 DEF LiveIsOnFile
<1> QED
  BY <1>1, <1>2, <1>3, <1>4, <1>7, <1>8, <1>9 DEF Held, GoneIsGone, QuitKillsTheFile,
     ChildIsManaged, StartHoldsNothing, ServesTheModel

\* The holder shuts everything down, or finds that the child has exited.
LEMMA HolderShuts ==
    ASSUME Types, LockIsQueue, Held, NEW t \in Tasks, Holds(t), jade.state # "gone", jade' = jade,
           tasks[t].pc \notin Opening, tasks'[t].pc \notin Opening,
           \A u \in Tasks \ {t} : tasks'[u] = tasks[u],
           ClearsFile, managed_pid' = 0, life'.proc = 0, Alive' \subseteq Alive \ {managed_pid}
    PROVE  Held'
<1>1. ~AnyAt(Opening)' /\ ~AnyAt({"record"})' /\ ~AnyAt({"spawn", "record"})' /\ ~AnyAt({"record"})
  BY NobodyOpens, NobodyElseOpens, Points
<1> QED
  BY <1>1, ShutHeld

LEMMA StopHeld ==
    ASSUME IInv, NEW t \in Tasks, Stop(t) \/ PollGivesUp(t)
    PROVE  Held'
<1>1. Types /\ LockIsQueue /\ Held
  BY DEF IInv
<1>2. /\ tasks[t].pc \in {"stops", "probing"} /\ jade.state # "gone"
      /\ UNCHANGED user /\ Kills({life.proc, managed_pid})
      /\ ClearsFile /\ managed_pid' = 0
      /\ life' = [life EXCEPT !.proc = 0, !.gen = life.gen + 1]
  BY DEF Stop, PollGivesUp, At
<1>3. Holds(t)
  BY <1>1, <1>2, Points DEF Stop, PollGivesUp, At, LockIsQueue
<1>4. Alive' \subseteq Alive \ {managed_pid}
  BY <1>1, <1>2, KillTypes DEF user
<1>5. tasks[t].pc \notin Opening
  BY <1>2, Points
<1>6. life'.proc = 0 /\ jade' = jade
  BY <1>1, <1>2, LifeMoves DEF user
<1>7. tasks'[t].pc \notin Opening /\ \A u \in Tasks \ {t} : tasks'[u] = tasks[u]
  <2>1. CASE Finishes(t)
    BY <1>1, <2>1, MovesOf, Points
  <2>2. CASE tasks' = [tasks EXCEPT ![t] = IF tasks[t].then = "start" THEN Task("start") ELSE Idle]
    <3>1. Idle.pc = "idle" /\ Task("start").pc = "start"
      BY TaskRecords, Points
    <3> QED
      BY <1>1, <2>2, <3>1, Points DEF Types
  <2> QED
    BY <2>1, <2>2 DEF Stop, PollGivesUp
<1> QED
  BY <1>1, <1>2, <1>3, <1>4, <1>5, <1>6, <1>7, HolderShuts

LEMMA PollEndsHeld ==
    ASSUME IInv, NEW t \in Tasks, PollEnds(t)
    PROVE  Held'
<1>1. Types /\ LockIsQueue /\ Held
  BY DEF IInv
<1>2. /\ tasks[t].pc = "polls" /\ Holds(t) /\ jade.state # "gone"
      /\ UNCHANGED <<jade, servers>> /\ Finishes(t)
  BY DEF PollEnds, At, user, world
<1>3. /\ tasks'[t].pc = "idle" /\ \A u \in Tasks \ {t} : tasks'[u] = tasks[u]
      /\ tasks[t].pc \notin Opening /\ tasks'[t].pc \notin Opening
  BY <1>1, <1>2, MovesOf, Points
<1>4. CASE UNCHANGED <<life, pids, status>>
  BY <1>1, <1>2, <1>3, <1>4, QuietTask DEF pids
<1>5. CASE /\ life.proc \notin Alive /\ ~Superseded(t)
           /\ life' = [life EXCEPT !.proc = 0] /\ managed_pid' = 0 /\ ClearsFile
  <2>1. life'.proc = 0
    BY <1>1, <1>5 DEF Types
  <2>2. managed_pid \notin Alive
    BY <1>1, <1>5, AliveServers DEF Held, ChildIsManaged, Superseded
  <2>3. Alive' \subseteq Alive \ {managed_pid}
    BY <1>2, <2>2 DEF Alive
  <2> QED
    BY <1>1, <1>2, <1>3, <1>5, <2>1, <2>3, HolderShuts
<1> QED
  BY <1>4, <1>5 DEF PollEnds

LEMMA SetModelHeld ==
    ASSUME IInv, NEW t \in Tasks, SetModel(t)
    PROVE  Held'
<1> DEFINE task == IF Restarts(t) THEN [Task("stop") EXCEPT !.then = "start"] ELSE Idle
<1>1. Types /\ LockIsQueue /\ Held
  BY DEF IInv
<1>2. /\ tasks[t].pc = "sets" /\ Holds(t) /\ jade.state # "gone"
      /\ UNCHANGED <<jade, managed_pid, pid_file, forgotten, status, servers>>
      /\ life' = [life EXCEPT !.model = tasks[t].model]
      /\ tasks' = [tasks EXCEPT ![t] = task]
  BY DEF SetModel, At, user, pids, world
<1>3. life'.proc = life.proc /\ life'.model = tasks[t].model
  BY <1>1, <1>2 DEF Types
<1>4. tasks'[t] = task /\ \A u \in Tasks \ {t} : tasks'[u] = tasks[u]
  BY <1>1, <1>2 DEF Types
<1>5. IF Restarts(t) THEN task.pc = "stop" /\ task.then = "start" ELSE task.pc = "idle"
  BY TaskRecords, Points DEF Task, TaskRecord
<1>6. tasks'[t].pc \notin Opening /\ tasks[t].pc \notin Opening
  BY <1>2, <1>4, <1>5, Points
<1>7. ~AnyAt(Opening)' /\ ~AnyAt({"record"})' /\ ~AnyAt({"spawn", "record"})' /\ ~AnyAt({"record"})
  BY <1>1, <1>2, <1>4, <1>6, NobodyOpens, NobodyElseOpens, Points
<1>8. Alive' = Alive
  BY <1>2 DEF Alive
<1>9. ServesTheModel'
  <2>1. CASE Restarts(t)
    BY <1>4, <1>5, <2>1 DEF ServesTheModel
  <2>2. CASE ~Restarts(t) /\ life.proc # 0
    <3>1. tasks[t].model = life.model
      BY <1>1, <2>2 DEF Restarts, Held, ChildIsManaged
    <3>2. \A u \in Tasks : tasks[u].pc \in {"stop", "stop_lock", "stops"} => tasks'[u] = tasks[u]
      BY <1>2, <1>4
    <3> QED
      BY <1>1, <1>2, <1>3, <3>1, <3>2 DEF Held, ServesTheModel
  <2>3. CASE life.proc = 0
    BY <1>3, <2>3 DEF ServesTheModel
  <2> QED
    BY <2>1, <2>2, <2>3
<1> QED
  BY <1>1, <1>2, <1>3, <1>7, <1>8, <1>9 DEF Held, GoneIsGone, QuitKillsTheFile,
     ChildIsManaged, StartHoldsNothing, LiveIsOnFile

LEMMA PollReadyHeld ==
    ASSUME IInv, NEW t \in Tasks, PollReady(t)
    PROVE  Held'
<1>1. Types /\ LockIsQueue /\ Held
  BY DEF IInv
<1>2. /\ tasks[t].pc = "probing" /\ jade.state # "gone" /\ Finishes(t)
      /\ UNCHANGED <<jade, life, managed_pid, pid_file, forgotten, servers>>
      /\ status'.state = "ready"
  BY DEF PollReady, At, user, pids, world
<1>3. Holds(t)
  BY <1>1, <1>2, Points DEF LockIsQueue
<1>4. /\ tasks'[t].pc = "idle" /\ \A u \in Tasks \ {t} : tasks'[u] = tasks[u]
      /\ tasks[t].pc \notin Opening /\ tasks'[t].pc \notin Opening
  BY <1>1, <1>2, MovesOf, Points
<1>5. ~AnyAt(Opening)' /\ ~AnyAt({"record"})' /\ ~AnyAt({"spawn", "record"})' /\ ~AnyAt({"record"})
  BY <1>1, <1>3, <1>4, NobodyOpens, NobodyElseOpens, Points
<1>6. Alive' = Alive
  BY <1>2 DEF Alive
<1>7. ServesTheModel'
  BY <1>1, <1>2, <1>4 DEF Held, ServesTheModel
<1> QED
  BY <1>1, <1>2, <1>5, <1>6, <1>7 DEF Held, GoneIsGone, QuitKillsTheFile,
     ChildIsManaged, StartHoldsNothing, LiveIsOnFile

LEMMA MovesHeld ==
    ASSUME IInv, NEW t \in Tasks,
           StartLocks(t) \/ StopSignals(t) \/ StopLocks(t) \/ ModelLocks(t)
           \/ PollWakes(t) \/ PollProbes(t) \/ PollSleeps(t)
    PROVE  Held'
<1>1. Types /\ Held
  BY DEF IInv
<1>2. /\ jade.state # "gone"
      /\ UNCHANGED <<jade, life, managed_pid, pid_file, forgotten, status, servers>>
  BY DEF StartLocks, StopSignals, StopLocks, ModelLocks, PollWakes, PollProbes, PollSleeps, At,
     user, pids, world
<1>3. CASE StopSignals(t) \/ StopLocks(t)
  <2>1. /\ tasks[t].pc \in {"stop", "stop_lock"} /\ tasks'[t].pc \in {"stop_lock", "stops"}
        /\ tasks'[t].then = tasks[t].then /\ \A u \in Tasks \ {t} : tasks'[u] = tasks[u]
    BY <1>1, <1>3, MovesOf, Points DEF StopSignals, StopLocks, At
  <2> QED
    BY <1>1, <1>2, <2>1, QuietTask DEF Opening
<1>4. CASE StartLocks(t) \/ ModelLocks(t) \/ PollWakes(t) \/ PollProbes(t) \/ PollSleeps(t)
  <2>1. /\ tasks[t].pc \in {"start", "model", "poll", "polls", "probing"}
        /\ tasks'[t].pc \in {"starts", "sets", "polls", "idle", "probing", "poll"}
        /\ \A u \in Tasks \ {t} : tasks'[u] = tasks[u]
    BY <1>1, <1>4, MovesOf, Points DEF StartLocks, ModelLocks, PollWakes, PollProbes, PollSleeps, At
  <2> QED
    BY <1>1, <1>2, <2>1, QuietTask DEF Opening
<1> QED
  BY <1>3, <1>4

LEMMA QuitHeld ==
    ASSUME IInv, Quit
    PROVE  Held'
<1>1. Types /\ Held
  BY DEF IInv
<1>2. /\ jade.state = "up" /\ jade' = [jade EXCEPT !.state = "quitting"]
      /\ Kills({managed_pid}) /\ managed_pid' = 0 /\ ClearsFile
      /\ UNCHANGED <<bound, tasks, lock, life, status>>
  BY DEF Quit
<1>3. jade'.state = "quitting" /\ jade'.run = jade.run
  BY <1>1, <1>2 DEF Types
<1>4. /\ Len(servers') = Len(servers) /\ Alive' = Alive \ {managed_pid}
      /\ \A s \in 1 .. Len(servers) : servers'[s].model = servers[s].model
  BY <1>1, <1>2, KillTypes
<1>5. 0 \notin Alive' /\ (Len(servers) > 0 => Len(servers) \in 1 .. Len(servers))
      /\ (life.proc # 0 => life.proc \in 1 .. Len(servers))
  BY <1>1, <1>4, AliveServers DEF Types
<1>6. \A points \in SUBSET Holding : AnyAt(points)' <=> AnyAt(points)
  BY <1>2 DEF AnyAt
<1>7. LiveIsOnFile'
  <2> SUFFICES ASSUME NEW s \in Alive' \ forgotten' PROVE s = Len(servers) /\ AnyAt({"record"})
    BY <1>4, <1>6, Points DEF LiveIsOnFile
  <2>1. s \in Alive \ forgotten /\ s # managed_pid /\ s # pid_file
    BY <1>2, <1>4 DEF ClearsFile
  <2> QED
    BY <1>1, <2>1 DEF Held, LiveIsOnFile
<1>8. StartHoldsNothing'
  BY <1>1, <1>2, <1>4, <1>5, <1>6, Points DEF Held, StartHoldsNothing, ClearsFile
<1>9. ServesTheModel'
  BY <1>1, <1>2, <1>4, <1>5 DEF Held, ServesTheModel
<1> QED
  BY <1>1, <1>2, <1>3, <1>5, <1>7, <1>8, <1>9 DEF Held, GoneIsGone, QuitKillsTheFile, ChildIsManaged

LEMMA DiesHeld ==
    ASSUME IInv, Dies
    PROVE  Held'
<1>1. Types /\ Held
  BY DEF IInv
<1>2. jade'.state = "gone"
  BY <1>1 DEF Dies, Types
<1>3. /\ tasks' = [t \in Tasks |-> Idle] /\ lock' = <<>> /\ managed_pid' = 0 /\ life'.proc = 0
      /\ UNCHANGED <<pid_file, servers>>
  BY DEF Dies, NoLife, world
<1>4. Alive' = Alive
  BY <1>3 DEF Alive
<1>5. \A points \in SUBSET Holding : ~AnyAt(points)'
  BY <1>3, TaskRecords, Points DEF AnyAt
<1>6. LiveIsOnFile'
  <2> SUFFICES ASSUME NEW s \in Alive \ forgotten' PROVE s = pid_file
    BY <1>3, <1>4 DEF LiveIsOnFile
  <2>1. s \in Alive \ forgotten /\ (AnyAt({"record"}) => s # Len(servers))
    BY DEF Dies, AnyAt
  <2> QED
    BY <1>1, <2>1 DEF Held, LiveIsOnFile
<1>7. 0 \notin Alive
  BY <1>1, AliveServers
<1> QED
  BY <1>2, <1>3, <1>4, <1>5, <1>6, <1>7, Points DEF Held, GoneIsGone, QuitKillsTheFile,
     ChildIsManaged, StartHoldsNothing, ServesTheModel

LEMMA LaunchHeld ==
    ASSUME IInv, Launch
    PROVE  Held'
<1>1. Types /\ Held
  BY DEF IInv
<1>2. /\ jade.state = "gone" /\ jade'.state = "up" /\ jade'.run = jade.run + 1
      /\ UNCHANGED <<life, managed_pid, pid_file, forgotten, servers, status>>
  BY DEF Launch, pids, world
<1>3. \A t \in Tasks : tasks[t] = Idle
  BY <1>1, <1>2 DEF Held, GoneIsGone
<1>4. \A t \in Tasks : tasks'[t].pc \in {"idle", "model", "start"}
  <2>1. PICK m \in bound.tiers, on \in BOOLEAN :
          LET set == Spawns(tasks, [Task("model") EXCEPT !.model = m])
          IN  tasks' = IF on THEN Spawns(set, Task("start")) ELSE set
    BY DEF Launch
  <2> DEFINE model == [Task("model") EXCEPT !.model = m]
             set == Spawns(tasks, model)
  <2>2. m \in Models /\ "model" \in Point /\ "start" \in Point
    BY <1>1, BoundsAreBounds DEF Types, Point
  <2>3. model \in TaskRecord /\ model.pc = "model"
    BY <2>2, TaskRecords DEF Task, TaskRecord
  <2>4. Task("start") \in TaskRecord /\ Task("start").pc = "start" /\ Idle.pc = "idle"
    BY <2>2, TaskRecords
  <2>5. set \in [Tasks -> TaskRecord] /\ \A u \in Tasks : set[u] \in {Idle, model}
    BY <1>1, <1>3, <2>3, SpawnTypes, ZenonT(60) DEF Types
  <2>6. CASE on
    <3>1. tasks' = Spawns(set, Task("start"))
      BY <2>1, <2>6
    <3>2. \A u \in Tasks : tasks'[u] \in {set[u], Task("start")}
      BY <2>4, <2>5, <3>1, SpawnTypes
    <3> QED
      BY <2>3, <2>4, <2>5, <3>2
  <2>7. CASE ~on
    BY <2>1, <2>3, <2>4, <2>5, <2>7
  <2> QED
    BY <2>6, <2>7
<1>5. \A points \in SUBSET Holding : ~AnyAt(points)' /\ ~AnyAt(points)
  BY <1>3, <1>4, TaskRecords, Points DEF AnyAt
<1>6. Alive' = Alive
  BY <1>2 DEF Alive
<1>7. jade.run \in Nat /\ life.proc = 0 /\ managed_pid = 0 /\ 0 \notin Alive
  BY <1>1, <1>2, AliveServers, BoundsAreBounds DEF Types, Held, GoneIsGone
<1>8. LiveIsOnFile'
  BY <1>1, <1>2, <1>5, <1>6, Points DEF Held, LiveIsOnFile
<1> QED
  BY <1>2, <1>5, <1>6, <1>7, <1>8, Points DEF Held, GoneIsGone, QuitKillsTheFile,
     ChildIsManaged, StartHoldsNothing, ServesTheModel

LEMMA ExitHeld ==
    ASSUME IInv, NEW s \in DOMAIN servers, ServerExits(s)
    PROVE  Held'
<1>1. Types /\ Held
  BY DEF IInv
<1>2. UNCHANGED <<bound, jade, tasks, lock, life, managed_pid, pid_file, forgotten, status>>
  BY DEF ServerExits, user, pids
<1>3. /\ Len(servers') = Len(servers) /\ Alive' = Alive \ {s}
      /\ \A i \in 1 .. Len(servers) : servers'[i].model = servers[i].model
  BY <1>1, <1>2, KillTypes DEF ServerExits
<1>4. /\ Len(servers) > 0 => Len(servers) \in 1 .. Len(servers)
      /\ life.proc # 0 => life.proc \in 1 .. Len(servers)
  BY <1>1, AliveServers DEF Types
<1>5. \A points \in SUBSET Holding : AnyAt(points)' <=> AnyAt(points)
  BY <1>2 DEF AnyAt
<1>6. StartHoldsNothing'
  BY <1>1, <1>2, <1>3, <1>4, <1>5, Points DEF Held, StartHoldsNothing
<1>7. LiveIsOnFile'
  BY <1>1, <1>2, <1>3, <1>5, Points DEF Held, LiveIsOnFile
<1>8. ServesTheModel'
  BY <1>1, <1>2, <1>3, <1>4 DEF Held, ServesTheModel
<1> QED
  BY <1>1, <1>2, <1>3, <1>6, <1>7, <1>8 DEF Held, GoneIsGone, QuitKillsTheFile, ChildIsManaged

\* A server loads, somebody has one of their own, or a task is spawned.
LEMMA QuietEnvironment ==
    ASSUME IInv, (\E s \in DOMAIN servers : ServerLoads(s)) \/ OutsideChanges \/ Begun
    PROVE  Held'
<1>1. Types /\ Held
  BY DEF IInv
<1>2. UNCHANGED <<jade, lock, life, managed_pid, pid_file, forgotten, status>>
  BY DEF ServerLoads, OutsideChanges, Begun, OnlyTasks, user, pids
<1>3. CASE (\E s \in DOMAIN servers : ServerLoads(s)) \/ OutsideChanges
  <2>1. UNCHANGED tasks
    BY <1>3 DEF ServerLoads, OutsideChanges
  <2>2. /\ Alive' = Alive /\ Len(servers') = Len(servers)
        /\ \A i \in 1 .. Len(servers) : servers'[i].model = servers[i].model
    <3>1. CASE UNCHANGED servers
      BY <3>1 DEF Alive
    <3>2. ASSUME NEW s \in DOMAIN servers, ServerLoads(s) PROVE <2>2
      <4>1. DOMAIN servers = 1 .. Len(servers)
        BY <1>1, AliveServers
      <4>2. \A i \in 1 .. Len(servers) : servers[i] \in ServerRecord
        BY <1>1, ElementOfSeq DEF Types
      <4>3. servers' = [servers EXCEPT ![s] = [servers[s] EXCEPT !.state = "healthy"]]
            /\ servers[s].state = "loading"
        BY <3>2 DEF ServerLoads
      <4>4. [servers[s] EXCEPT !.state = "healthy"] \in ServerRecord
        BY <4>1, <4>2 DEF ServerRecord
      <4>5. Len(servers') = Len(servers)
        BY <1>1, <4>1, <4>3, <4>4, ExceptSeq DEF Types
      <4> QED
        BY <4>1, <4>2, <4>3, <4>5 DEF Alive, ServerRecord
    <3> QED
      BY <1>3, <3>1, <3>2 DEF OutsideChanges
  <2>3. \A points \in SUBSET Holding : AnyAt(points)' <=> AnyAt(points)
    BY <2>1 DEF AnyAt
  <2>4. Restarting => Restarting'
    BY <2>1 DEF Restarting
  <2> QED
    BY <1>1, <1>2, <2>1, <2>2, <2>3, <2>4, QuietHeld, Points
<1>4. CASE Begun
  <2>1. PICK c \in Tasks, task \in Fresh :
          tasks[c].pc = "idle" /\ tasks' = [tasks EXCEPT ![c] = task]
    BY <1>1, <1>4, BegunTasks
  <2>2. /\ tasks'[c] = task /\ task.pc \in {"start", "stop", "model"}
        /\ \A u \in Tasks \ {c} : tasks'[u] = tasks[u]
    BY <1>1, <2>1 DEF Types, Fresh
  <2>3. jade.state # "gone" /\ UNCHANGED servers
    BY <1>4 DEF Begun, OnlyTasks, world
  <2> QED
    BY <1>1, <1>2, <2>1, <2>2, <2>3, QuietTask DEF Opening
<1> QED
  BY <1>3, <1>4

-----------------------------------------------------------------------------
(* The invariant.                                                          *)

LEMMA ClicksBegin ==
    ASSUME Types, Toggle \/ Wake \/ (\E m \in bound.tiers : PickModel(m))
    PROVE  Begun
<1>1. Task("start") \in Fresh /\ Task("stop") \in Fresh
  BY TaskRecords, Points DEF Fresh
<1>2. \A m \in bound.tiers : [Task("model") EXCEPT !.model = m] \in Fresh
  <2>1. bound.tiers \subseteq Models /\ "model" \in Point
    BY BoundsAreBounds DEF Types, Point
  <2> QED
    BY <2>1, TaskRecords DEF Fresh, Task, TaskRecord
<1>3. CASE Toggle
  <2>1. enabled' \in BOOLEAN /\ tasks' = Spawns(tasks, Task(IF enabled' THEN "start" ELSE "stop"))
    BY <1>3 DEF Toggle
  <2>2. \E task \in Fresh : tasks' = Spawns(tasks, task)
    BY <1>1, <2>1
  <2> QED
    BY <1>3, <2>1, <2>2 DEF Toggle, Begun, Clicked
<1>4. CASE Wake
  BY <1>1, <1>4 DEF Wake, Begun, Clicked, Types
<1>5. CASE \E m \in bound.tiers : PickModel(m)
  BY <1>2, <1>5 DEF PickModel, Begun, Clicked, Types
<1> QED
  BY <1>3, <1>4, <1>5

LEMMA InvInit ==
    ASSUME Init
    PROVE  IInv
<1>1. Idle \in TaskRecord /\ Idle.pc = "idle" /\ (CHOOSE m \in Models : TRUE) \in Models
  BY TaskRecords, ModelsExist
<1>2. servers = <<>> /\ lock = <<>> /\ Len(servers) = 0 /\ Len(lock) = 0
      /\ servers \in Seq(ServerRecord) /\ lock \in Seq(Tasks)
  BY EmptySeq DEF Init
<1>3. bound.launches \in Nat /\ bound.outside \subseteq BOOLEAN
  BY BoundsAreBounds DEF Init
<1>4. Types
  <2>1. jade \in [state : {"up", "quitting", "gone"}, run : 0 .. bound.launches]
    BY <1>3 DEF Init
  <2>2. tasks \in [Tasks -> TaskRecord]
    BY <1>1 DEF Init
  <2>3. life \in [proc : Nat, gen : Nat, model : Models] /\ life.proc = 0
    BY <1>1 DEF Init, NoLife
  <2>4. bound \in Bounds /\ enabled \in BOOLEAN /\ stopped \in BOOLEAN /\ outside \in BOOLEAN
    BY <1>3 DEF Init
  <2> QED
    BY <1>2, <2>1, <2>2, <2>3, <2>4, Statuses DEF Types, Init
<1>5. \A t \in Tasks : tasks[t].pc = "idle"
  BY <1>1 DEF Init
<1>6. LockIsQueue
  BY <1>2, <1>5 DEF LockIsQueue, Queued, Waiting, Holding
<1>7. Alive = {}
  BY <1>4, <1>2, AliveServers
<1>8. Held
  BY <1>5, <1>7 DEF Init, NoLife, Held, GoneIsGone, QuitKillsTheFile, ChildIsManaged,
     StartHoldsNothing, LiveIsOnFile, ServesTheModel, AnyAt, Opening
<1> QED
  BY <1>4, <1>6, <1>8 DEF IInv

LEMMA InvStep ==
    ASSUME IInv, Next \/ Begun
    PROVE  IInv'
<1>1. Types /\ LockIsQueue /\ Held /\ GoneIsGone
  BY DEF IInv, Held
<1>2. CASE \E t \in Tasks : TaskSteps(t)
  <2> PICK t \in Tasks : TaskSteps(t)
    BY <1>2
  <2>1. WorldTypes'
    BY <1>1, StartTypes, LaterTypes DEF TaskSteps
  <2>2. TasksOK'
    BY <1>1, StartTasks, LaterTasks DEF TaskSteps
  <2>3. Held'
    BY GuardHeld, ProbeHeld, SpawnHeld, RecordHeld, StopHeld, PollEndsHeld, SetModelHeld,
       PollReadyHeld, MovesHeld DEF TaskSteps
  <2> QED
    BY <2>1, <2>2, <2>3, TypesSplit, PTL DEF IInv, TasksOK
<1>3. CASE Environment \/ Begun
  <2>1. Quit \/ Dies \/ Launch \/ (\E s \in DOMAIN servers : ServerLoads(s) \/ ServerExits(s))
        \/ OutsideChanges \/ Begun
    BY <1>1, <1>3, ClicksBegin DEF Environment
  <2>2. WorldTypes'
    BY <1>1, <2>1, EnvironmentTypes
  <2>3. TasksOK'
    BY <1>1, <2>1, EnvironmentTasks
  <2>4. Held'
    BY <2>1, QuitHeld, DiesHeld, LaunchHeld, ExitHeld, QuietEnvironment
  <2> QED
    BY <2>2, <2>3, <2>4, TypesSplit, PTL DEF IInv, TasksOK
<1> QED
  BY <1>2, <1>3 DEF Next

\* A step of the server of completions that changes nothing keeps everything.
LEMMA InvStutters ==
    ASSUME IInv, UNCHANGED vars
    PROVE  IInv'
<1> USE DEF vars, user, pids, world
<1>1. Types'
  BY DEF IInv, Types, ServerRecord
<1>2. LockIsQueue'
  BY DEF IInv, LockIsQueue, Queued, Holds
<1>3. GoneIsGone' /\ QuitKillsTheFile' /\ ChildIsManaged' /\ ServesTheModel'
  BY DEF IInv, Held, GoneIsGone, QuitKillsTheFile, ChildIsManaged, ServesTheModel, Alive
<1>4. StartHoldsNothing' /\ LiveIsOnFile'
  BY DEF IInv, Held, StartHoldsNothing, LiveIsOnFile, AnyAt, Alive
<1> QED
  BY <1>1, <1>2, <1>3, <1>4 DEF IInv, Held

LEMMA HeldIsSafe ==
    ASSUME IInv
    PROVE  ServersAreHeld /\ ServesTheModel
  BY DEF IInv, Held, LiveIsOnFile, ServersAreHeld, AnyAt

\* For any number of tasks, servers and runs of Jade: a live server is in
\* managed_pid, on file or about to be recorded, unless it was forgotten: the PID
\* file was cleared over it before this run adopted it, or Jade was killed before the
\* record (start, stop_with, poll_ready, kill_managed_now, clear_pid_file).
THEOREM ServersStayHeld == Spec => []ServersAreHeld
<1>1. Init => IInv
  BY InvInit
<1>2. IInv /\ [Next]_vars => IInv'
  BY InvStep, InvStutters
<1> QED
  BY <1>1, <1>2, HeldIsSafe, PTL DEF Spec

\* Jade's own child was spawned with the tier that was set last, or a task is about
\* to restart it; of adopted and outside servers nothing is said (set_model, start,
\* poll_ready).
THEOREM TheModelIsServed == Spec => []ServesTheModel
<1>1. Init => IInv
  BY InvInit
<1>2. IInv /\ [Next]_vars => IInv'
  BY InvStep, InvStutters
<1> QED
  BY <1>1, <1>2, HeldIsSafe, PTL DEF Spec

-----------------------------------------------------------------------------
(* The cards.                                                              *)

States == {"disabled", "starting", "ready", "error"}
Says == {"text", "done", "failed"}
Card == [phase : Phases, gen : Nat, says : SUBSET Nat, left : BOOLEAN]
Stream == [lane : Lanes, gen : Nat, state : {"live", "aborted", "ended"}, said : BOOLEAN,
           sink : Seq(Says)]
Render == [gen : Nat, state : {"running", "stopped", "ended"}]
AppRecord ==
    [card : [Lanes -> Card], gen : [Lanes -> Nat], open : [Lanes -> BOOLEAN],
     lookups : SUBSET (Lanes \X Nat), slot : [Lanes -> Nat], streams : Seq(Stream),
     render : Nat, renders : Seq(Render)]
EventRecord ==
    [what : {"ready"}, lane : Lanes, gen : Nat, says : {""}]
    \cup [what : {"delta"}, lane : Lanes, gen : Nat, says : Says]
    \cup [what : {"render"}, lane : {"visualize"}, gen : Nat, says : {"ready", "failed"}]
    \cup [what : {"ai"}, lane : {""}, gen : {0}, says : States]

\* A card that is there is the newest of its lane, and shows its own text.
CardsOK(a) ==
    \A l \in Lanes :
        /\ a.card[l].gen <= a.gen[l]
        /\ a.card[l].phase # "none" => a.card[l].gen = a.gen[l]
        /\ a.card[l].says \subseteq {a.card[l].gen}

\* The requests of a lane are of cards that were one after the other.  One that
\* streams is in its slot, has a card, and has not said its end.
StreamsOK(a) ==
    /\ \A l \in Lanes : a.slot[l] <= Len(a.streams)
    /\ \A k \in 1 .. Len(a.streams) :
         /\ a.streams[k].gen \in 1 .. a.gen[a.streams[k].lane]
         /\ a.streams[k].state = "live" =>
              /\ a.slot[a.streams[k].lane] = k
              /\ a.card[a.streams[k].lane].phase # "none"
              /\ \A i \in 1 .. Len(a.streams[k].sink) : a.streams[k].sink[i] = "text"
    /\ \A j, k \in 1 .. Len(a.streams) :
         j < k /\ a.streams[j].lane = a.streams[k].lane => a.streams[j].gen < a.streams[k].gen

\* A card has one scene, which renders while the card says so.
RendersOK(a) ==
    /\ a.render <= Len(a.renders)
    /\ a.render # 0 <=> a.card["visualize"].phase = "rendering"
    /\ \A i \in 1 .. Len(a.renders) :
         /\ a.renders[i].gen <= a.gen["visualize"]
         /\ a.renders[i].gen = a.gen["visualize"] => a.card["visualize"].phase # "asking"
         /\ a.renders[i].state = "running" =>
              a.render = i /\ a.card["visualize"].gen = a.renders[i].gen
    /\ \A i, j \in 1 .. Len(a.renders) : a.renders[i].gen = a.renders[j].gen => i = j

Unasked(a, l, g) ==
    \A k \in 1 .. Len(a.streams) : ~(a.streams[k].lane = l /\ a.streams[k].gen = g)

\* A lookup of a card, or its end, is there once, and until it was seen the card
\* has no request.
LookupsOK(a, q) ==
    /\ \A l \in Lanes, g \in Nat : <<l, g>> \in a.lookups =>
         /\ g \in 1 .. a.gen[l] /\ Unasked(a, l, g)
         /\ \A i \in 1 .. Len(q) : ~(q[i].what = "ready" /\ q[i].lane = l /\ q[i].gen = g)
    /\ \A i \in 1 .. Len(q) : q[i].what = "ready" =>
         q[i].gen \in 1 .. a.gen[q[i].lane] /\ Unasked(a, q[i].lane, q[i].gen)
    /\ \A i, j \in 1 .. Len(q) :
         q[i].what = "ready" /\ q[j].what = "ready" /\ q[i].lane = q[j].lane /\ q[i].gen = q[j].gen
            => i = j

\* A delta is of a request, which streams no more when it is the end; and a video of
\* a render that has ended.
DeltaOK(a, e) ==
    e.what = "delta" => \E k \in 1 .. Len(a.streams) :
        /\ a.streams[k].lane = e.lane /\ a.streams[k].gen = e.gen
        /\ e.says # "text" => a.streams[k].state # "live"
VideoOK(a, e) ==
    e.what = "render" => \E i \in 1 .. Len(a.renders) :
        a.renders[i].gen = e.gen /\ a.renders[i].state = "ended"
EventsOK(a, q) == \A i \in 1 .. Len(q) : DeltaOK(a, q[i]) /\ VideoOK(a, q[i])

AppOK(a) == a \in AppRecord /\ CardsOK(a) /\ StreamsOK(a) /\ RendersOK(a)
QueueOK(a, q) == q \in Seq(EventRecord) /\ LookupsOK(a, q) /\ EventsOK(a, q)

ChatOK ==
    /\ seen \in States /\ unsent \in BOOLEAN /\ resume \in BOOLEAN
    /\ AppOK(app) /\ QueueOK(app, queue)

ChatInv == IInv /\ ChatOK

\* b has no other requests than a, none that streams again, and the scenes of a.
Follows(a, b) ==
    /\ b.lookups = a.lookups
    /\ \A l \in Lanes : a.gen[l] <= b.gen[l]
    /\ Len(b.streams) = Len(a.streams)
    /\ \A k \in 1 .. Len(a.streams) :
         /\ b.streams[k].lane = a.streams[k].lane /\ b.streams[k].gen = a.streams[k].gen
         /\ b.streams[k].state = "live" => a.streams[k].state = "live"
    /\ Len(a.renders) <= Len(b.renders)
    /\ \A i \in 1 .. Len(a.renders) :
         b.renders[i].gen = a.renders[i].gen
         /\ (a.renders[i].state = "ended" => b.renders[i].state = "ended")

LEMMA AppFields ==
    ASSUME NEW a \in AppRecord
    PROVE  /\ a.card \in [Lanes -> Card] /\ a.gen \in [Lanes -> Nat] /\ a.open \in [Lanes -> BOOLEAN]
           /\ a.lookups \in SUBSET (Lanes \X Nat) /\ a.slot \in [Lanes -> Nat]
           /\ a.streams \in Seq(Stream) /\ a.render \in Nat /\ a.renders \in Seq(Render)
           /\ Len(a.streams) \in Nat /\ Len(a.renders) \in Nat
           /\ DOMAIN a.streams = 1 .. Len(a.streams) /\ DOMAIN a.renders = 1 .. Len(a.renders)
           /\ \A k \in 1 .. Len(a.streams) : a.streams[k] \in Stream
           /\ \A i \in 1 .. Len(a.renders) : a.renders[i] \in Render
           /\ "explain" \in Lanes /\ "visualize" \in Lanes
<1>1. a.streams \in Seq(Stream) /\ a.renders \in Seq(Render)
  BY DEF AppRecord
<1>2. /\ \A k \in 1 .. Len(a.streams) : a.streams[k] \in Stream
      /\ \A i \in 1 .. Len(a.renders) : a.renders[i] \in Render
  BY <1>1, ElementOfSeq
<1>3. /\ Len(a.streams) \in Nat /\ Len(a.renders) \in Nat
      /\ DOMAIN a.streams = 1 .. Len(a.streams) /\ DOMAIN a.renders = 1 .. Len(a.renders)
  BY <1>1, LenProperties
<1> QED
  BY <1>1, <1>2, <1>3 DEF AppRecord, Lanes

LEMMA FollowsTrans ==
    ASSUME NEW a \in AppRecord, NEW b \in AppRecord, NEW c \in AppRecord, Follows(a, b), Follows(b, c)
    PROVE  Follows(a, c)
<1>1. \A l \in Lanes : a.gen[l] \in Nat /\ b.gen[l] \in Nat /\ c.gen[l] \in Nat
  BY AppFields
<1>2. Len(a.renders) \in Nat /\ Len(b.renders) \in Nat /\ Len(c.renders) \in Nat
  BY AppFields
<1>3. \A i \in 1 .. Len(a.renders) : i \in 1 .. Len(b.renders)
  BY <1>2 DEF Follows
<1>4. \A l \in Lanes : a.gen[l] <= c.gen[l]
  <2> SUFFICES ASSUME NEW l \in Lanes PROVE a.gen[l] <= c.gen[l]
    OBVIOUS
  <2>1. a.gen[l] <= b.gen[l] /\ b.gen[l] <= c.gen[l]
    BY DEF Follows
  <2> QED
    BY <1>1, <2>1
<1>5. /\ Len(c.streams) = Len(a.streams)
      /\ \A k \in 1 .. Len(a.streams) :
         /\ c.streams[k].lane = a.streams[k].lane /\ c.streams[k].gen = a.streams[k].gen
         /\ c.streams[k].state = "live" => a.streams[k].state = "live"
  BY DEF Follows
<1>6. Len(a.renders) <= Len(c.renders)
  BY <1>2 DEF Follows
<1>7. \A i \in 1 .. Len(a.renders) :
         c.renders[i].gen = a.renders[i].gen
         /\ (a.renders[i].state = "ended" => c.renders[i].state = "ended")
  BY <1>3 DEF Follows
<1>8. c.lookups = a.lookups
  BY DEF Follows
<1> QED
  BY <1>4, <1>5, <1>6, <1>7, <1>8 DEF Follows

LEMMA QueueFollows ==
    ASSUME NEW a \in AppRecord, NEW b \in AppRecord, Follows(a, b), NEW q, QueueOK(a, q)
    PROVE  QueueOK(b, q)
<1>1. \A l \in Lanes : a.gen[l] \in Nat /\ b.gen[l] \in Nat
  BY AppFields
<1>2. \A l \in Lanes, g \in Nat : Unasked(a, l, g) => Unasked(b, l, g)
  BY DEF Unasked, Follows
<1>3. \A i \in 1 .. Len(q) : q[i] \in EventRecord
  BY ElementOfSeq DEF QueueOK
<1>4. LookupsOK(b, q)
  <2>1. \A l \in Lanes, g \in Nat : <<l, g>> \in b.lookups =>
         /\ g \in 1 .. b.gen[l] /\ Unasked(b, l, g)
         /\ \A i \in 1 .. Len(q) : ~(q[i].what = "ready" /\ q[i].lane = l /\ q[i].gen = g)
    BY <1>1, <1>2 DEF QueueOK, LookupsOK, Follows
  <2>2. ASSUME NEW i \in 1 .. Len(q), q[i].what = "ready"
        PROVE  q[i].gen \in 1 .. b.gen[q[i].lane] /\ Unasked(b, q[i].lane, q[i].gen)
    <3>1. q[i].lane \in Lanes /\ q[i].gen \in Nat
      BY <1>3, <2>2 DEF EventRecord
    <3>2. q[i].gen \in 1 .. a.gen[q[i].lane] /\ Unasked(a, q[i].lane, q[i].gen)
      BY <2>2 DEF QueueOK, LookupsOK
    <3> QED
      BY <1>1, <1>2, <3>1, <3>2 DEF Follows
  <2> QED
    BY <2>1, <2>2 DEF QueueOK, LookupsOK
<1>5. EventsOK(b, q)
  <2>1. Len(a.renders) \in Nat /\ Len(b.renders) \in Nat
    BY AppFields
  <2>2. \A e : DeltaOK(a, e) => DeltaOK(b, e)
    BY DEF DeltaOK, Follows
  <2>3. \A e : VideoOK(a, e) => VideoOK(b, e)
    BY <2>1 DEF VideoOK, Follows
  <2> QED
    BY <2>2, <2>3 DEF QueueOK, EventsOK
<1> QED
  BY <1>4, <1>5 DEF QueueOK

LEMMA TailOK ==
    ASSUME NEW a \in AppRecord, NEW q, QueueOK(a, q), q # <<>>
    PROVE  /\ QueueOK(a, Tail(q)) /\ Head(q) \in EventRecord /\ Head(q) = q[1] /\ 1 \in 1 .. Len(q)
           /\ Head(q).what = "ready" => \A i \in 1 .. Len(Tail(q)) :
                ~(Tail(q)[i].what = "ready" /\ Tail(q)[i].lane = Head(q).lane
                  /\ Tail(q)[i].gen = Head(q).gen)
<1> DEFINE r == Tail(q)
<1>1. q \in Seq(EventRecord) /\ Len(q) \in Nat /\ Len(q) > 0
  BY EmptySeq, LenProperties DEF QueueOK
<1>2. /\ r \in Seq(EventRecord) /\ Len(r) = Len(q) - 1 /\ Head(q) \in EventRecord
      /\ \A i \in 1 .. Len(r) : r[i] = q[i + 1]
  BY <1>1, HeadTailProperties
<1>3. Head(q) = q[1]
  BY <1>1
<1>4. \A i \in 1 .. Len(r) : i + 1 \in 1 .. Len(q) /\ i + 1 # 1
  BY <1>1, <1>2
<1>5. LookupsOK(a, r)
  <2>1. \A l \in Lanes, g \in Nat : <<l, g>> \in a.lookups =>
         /\ g \in 1 .. a.gen[l] /\ Unasked(a, l, g)
         /\ \A i \in 1 .. Len(r) : ~(r[i].what = "ready" /\ r[i].lane = l /\ r[i].gen = g)
    BY <1>2, <1>4 DEF QueueOK, LookupsOK
  <2>2. \A i \in 1 .. Len(r) : r[i].what = "ready" =>
         r[i].gen \in 1 .. a.gen[r[i].lane] /\ Unasked(a, r[i].lane, r[i].gen)
    BY <1>2, <1>4 DEF QueueOK, LookupsOK
  <2>3. ASSUME NEW i \in 1 .. Len(r), NEW j \in 1 .. Len(r),
               r[i].what = "ready" /\ r[j].what = "ready" /\ r[i].lane = r[j].lane /\ r[i].gen = r[j].gen
        PROVE  i = j
    <3>1. i + 1 = j + 1
      BY <1>2, <1>4, <2>3 DEF QueueOK, LookupsOK
    <3> QED
      BY <1>1, <1>2, <3>1
  <2> QED
    BY <2>1, <2>2, <2>3 DEF LookupsOK
<1>6. EventsOK(a, r)
  BY <1>2, <1>4 DEF QueueOK, EventsOK
<1>7. ASSUME Head(q).what = "ready", NEW i \in 1 .. Len(r)
      PROVE  ~(r[i].what = "ready" /\ r[i].lane = Head(q).lane /\ r[i].gen = Head(q).gen)
  <2>1. 1 \in 1 .. Len(q)
    BY <1>1
  <2> QED
    BY <1>2, <1>3, <1>4, <1>7, <2>1 DEF QueueOK, LookupsOK
<1>8. QueueOK(a, r)
  BY <1>2, <1>5, <1>6 DEF QueueOK
<1>9. 1 \in 1 .. Len(q)
  BY <1>1
<1> QED
  BY <1>2, <1>3, <1>7, <1>8, <1>9

\* Something that is no lookup's end is appended.
LEMMA AppendOK ==
    ASSUME NEW a \in AppRecord, NEW q, QueueOK(a, q), NEW e \in EventRecord, e.what # "ready",
           DeltaOK(a, e), VideoOK(a, e)
    PROVE  QueueOK(a, Append(q, e))
<1> DEFINE r == Append(q, e)
           n == Len(q)
<1>1. /\ r \in Seq(EventRecord) /\ Len(r) = n + 1 /\ n \in Nat /\ r[n + 1] = e
      /\ \A i \in 1 .. n : r[i] = q[i]
  BY AppendProperties, LenProperties DEF QueueOK
<1>2. \A i \in 1 .. n + 1 : r[i] = e \/ (i \in 1 .. n /\ r[i] = q[i])
  BY <1>1
<1>3. LookupsOK(a, r)
  BY <1>1, <1>2 DEF QueueOK, LookupsOK
<1>4. EventsOK(a, r)
  BY <1>1, <1>2 DEF QueueOK, EventsOK
<1> QED
  BY <1>1, <1>3, <1>4 DEF QueueOK

\* No request of a lane streams.
Quiet(a, l) ==
    \A k \in 1 .. Len(a.streams) : a.streams[k].lane = l => a.streams[k].state # "live"

\* Only streams and slots differ.
SameCards(a, b) ==
    /\ b.card = a.card /\ b.gen = a.gen /\ b.open = a.open /\ b.lookups = a.lookups

LEMMA StreamChange ==
    ASSUME NEW a \in AppRecord, NEW k \in 1 .. Len(a.streams), NEW stream \in Stream
    PROVE  LET b == [a EXCEPT !.streams[k] = stream]
           IN /\ b \in AppRecord /\ SameCards(a, b)
              /\ b.slot = a.slot /\ b.render = a.render /\ b.renders = a.renders
              /\ Len(b.streams) = Len(a.streams) /\ b.streams[k] = stream
              /\ \A i \in 1 .. Len(a.streams) : i # k => b.streams[i] = a.streams[i]
<1> DEFINE new == [a.streams EXCEPT ![k] = stream]
           b == [a EXCEPT !.streams[k] = stream]
<1>1. /\ new \in Seq(Stream) /\ Len(new) = Len(a.streams)
      /\ \A i \in 1 .. Len(a.streams) : new[i] = IF i = k THEN stream ELSE a.streams[i]
  BY AppFields, ExceptSeq
<1>2. b = [a EXCEPT !.streams = new]
  OBVIOUS
<1>3. b.streams = new
  BY <1>2 DEF AppRecord
<1>4. b \in AppRecord
  BY <1>1, <1>2 DEF AppRecord
<1>5. SameCards(a, b) /\ b.slot = a.slot /\ b.render = a.render /\ b.renders = a.renders
  BY <1>2 DEF SameCards, AppRecord
<1> QED
  BY <1>1, <1>3, <1>4, <1>5

LEMMA AbortsIs ==
    ASSUME NEW a \in AppRecord, StreamsOK(a), NEW l \in Lanes
    PROVE  LET b == Aborts(a, l)
           IN /\ b \in AppRecord /\ SameCards(a, b) /\ b.render = a.render /\ b.renders = a.renders
              /\ b.slot[l] = 0 /\ \A m \in Lanes : m # l => b.slot[m] = a.slot[m]
              /\ Len(b.streams) = Len(a.streams)
              /\ \A k \in 1 .. Len(a.streams) :
                   /\ b.streams[k].lane = a.streams[k].lane /\ b.streams[k].gen = a.streams[k].gen
                   /\ b.streams[k].sink = a.streams[k].sink
                   /\ b.streams[k].state = "live" => a.streams[k].state = "live"
              /\ Quiet(b, l)
<1> DEFINE b == Aborts(a, l)
           k == a.slot[l]
<1>1. a.slot[l] \in 0 .. Len(a.streams) /\ Len(a.streams) \in Nat
  BY AppFields DEF StreamsOK
<1>2. CASE a.slot[l] = 0
  <2>1. b = a
    BY <1>2 DEF Aborts
  <2>2. Quiet(a, l)
    BY <1>2 DEF Quiet, StreamsOK
  <2> QED
    BY <1>2, <2>1, <2>2 DEF SameCards
<1>3. CASE a.slot[l] # 0
  <2>1. k \in 1 .. Len(a.streams)
    BY <1>1, <1>3
  <2>2. a.streams[k] \in Stream
    BY <2>1, AppFields
  <2> DEFINE stream == [a.streams[k] EXCEPT !.state =
                            IF a.streams[k].state = "live" THEN "aborted" ELSE a.streams[k].state]
             c == [a EXCEPT !.slot[l] = 0]
  <2>3. stream \in Stream /\ stream.lane = a.streams[k].lane /\ stream.gen = a.streams[k].gen
        /\ stream.sink = a.streams[k].sink /\ stream.state # "live"
    BY <2>2 DEF Stream
  <2>4. /\ c \in AppRecord /\ SameCards(a, c) /\ c.render = a.render /\ c.renders = a.renders
        /\ c.streams = a.streams /\ c.slot = [a.slot EXCEPT ![l] = 0]
    BY AppFields DEF AppRecord, SameCards
  <2>5. b = [c EXCEPT !.streams[k] = stream]
    BY <1>3, <2>4 DEF Aborts
  <2> HIDE DEF b, c, stream, k
  <2>6. /\ b \in AppRecord /\ SameCards(c, b)
        /\ b.slot = c.slot /\ b.render = c.render /\ b.renders = c.renders
        /\ Len(b.streams) = Len(c.streams) /\ b.streams[k] = stream
        /\ \A i \in 1 .. Len(c.streams) : i # k => b.streams[i] = c.streams[i]
    BY <2>1, <2>3, <2>4, <2>5, StreamChange
  <2>7. b.slot[l] = 0 /\ \A m \in Lanes : m # l => b.slot[m] = a.slot[m]
    BY <2>4, <2>6, AppFields
  <2>8. \A i \in 1 .. Len(a.streams) :
             /\ b.streams[i].lane = a.streams[i].lane /\ b.streams[i].gen = a.streams[i].gen
             /\ b.streams[i].sink = a.streams[i].sink
             /\ b.streams[i].state = "live" => a.streams[i].state = "live"
    <3> SUFFICES ASSUME NEW i \in 1 .. Len(a.streams)
                 PROVE  /\ b.streams[i].lane = a.streams[i].lane /\ b.streams[i].gen = a.streams[i].gen
                        /\ b.streams[i].sink = a.streams[i].sink
                        /\ b.streams[i].state = "live" => a.streams[i].state = "live"
      OBVIOUS
    <3>1. CASE i = k
      BY <2>3, <2>6, <3>1
    <3>2. CASE i # k
      BY <2>4, <2>6, <3>2
    <3> QED
      BY <3>1, <3>2
  <2>9. Quiet(b, l)
    <3> SUFFICES ASSUME NEW i \in 1 .. Len(a.streams), a.streams[i].lane = l, b.streams[i].state = "live"
                 PROVE  FALSE
      BY <2>4, <2>6, <2>8 DEF Quiet
    <3>1. i = k
      BY <2>8 DEF StreamsOK, k
    <3> QED
      BY <2>3, <2>6, <3>1
  <2>10. SameCards(a, b) /\ b.render = a.render /\ b.renders = a.renders
         /\ Len(b.streams) = Len(a.streams) /\ b \in AppRecord
    BY <2>4, <2>6 DEF SameCards
  <2> QED
    BY <2>7, <2>8, <2>9, <2>10 DEF b
<1> QED
  BY <1>2, <1>3

\* What is aborted keeps the rest in order.
LEMMA AbortsOK ==
    ASSUME NEW a \in AppRecord, CardsOK(a), StreamsOK(a), NEW l \in Lanes
    PROVE  CardsOK(Aborts(a, l)) /\ StreamsOK(Aborts(a, l)) /\ Follows(a, Aborts(a, l))
<1> DEFINE b == Aborts(a, l)
<1>1. /\ b \in AppRecord /\ SameCards(a, b) /\ b.render = a.render /\ b.renders = a.renders
      /\ b.slot[l] = 0 /\ \A m \in Lanes : m # l => b.slot[m] = a.slot[m]
      /\ Len(b.streams) = Len(a.streams)
      /\ \A k \in 1 .. Len(a.streams) :
           /\ b.streams[k].lane = a.streams[k].lane /\ b.streams[k].gen = a.streams[k].gen
           /\ b.streams[k].sink = a.streams[k].sink
           /\ b.streams[k].state = "live" => a.streams[k].state = "live"
      /\ Quiet(b, l)
  BY AbortsIs
<1> HIDE DEF b
<1>2. CardsOK(b)
  BY <1>1 DEF CardsOK, SameCards
<1>3. Len(a.streams) \in Nat /\ Len(a.renders) \in Nat
      /\ \A m \in Lanes : a.gen[m] \in Nat
      /\ \A k \in 1 .. Len(a.streams) : a.streams[k].lane \in Lanes
  BY AppFields DEF Stream
<1>4. StreamsOK(b)
  <2>1. \A m \in Lanes : b.slot[m] <= Len(b.streams)
    BY <1>1, <1>3 DEF StreamsOK
  <2>2. ASSUME NEW k \in 1 .. Len(b.streams)
        PROVE  /\ b.streams[k].gen \in 1 .. b.gen[b.streams[k].lane]
               /\ b.streams[k].state = "live" =>
                    /\ b.slot[b.streams[k].lane] = k
                    /\ b.card[b.streams[k].lane].phase # "none"
                    /\ \A i \in 1 .. Len(b.streams[k].sink) : b.streams[k].sink[i] = "text"
    <3>1. b.streams[k].gen \in 1 .. b.gen[b.streams[k].lane]
      BY <1>1 DEF StreamsOK, SameCards
    <3>2. ASSUME b.streams[k].state = "live"
          PROVE  /\ b.slot[b.streams[k].lane] = k
                 /\ b.card[b.streams[k].lane].phase # "none"
                 /\ \A i \in 1 .. Len(b.streams[k].sink) : b.streams[k].sink[i] = "text"
      <4>1. a.streams[k].state = "live" /\ a.streams[k].lane # l
        BY <1>1, <3>2 DEF Quiet
      <4> QED
        BY <1>1, <1>3, <4>1, SMTT(40) DEF StreamsOK, SameCards
    <3> QED
      BY <3>1, <3>2
  <2>3. \A j, k \in 1 .. Len(b.streams) :
         j < k /\ b.streams[j].lane = b.streams[k].lane => b.streams[j].gen < b.streams[k].gen
    BY <1>1 DEF StreamsOK
  <2> QED
    BY <2>1, <2>2, <2>3 DEF StreamsOK
<1>5. Follows(a, b)
  BY <1>1, <1>3 DEF Follows, SameCards
<1> QED
  BY <1>2, <1>4, <1>5 DEF b

\* AppOK does not look at lookups, tabs and `left`.
LEMMA AppDepends ==
    ASSUME NEW a, AppOK(a), NEW b \in AppRecord, b.gen = a.gen, b.slot = a.slot,
           b.streams = a.streams, b.render = a.render, b.renders = a.renders,
           \A l \in Lanes : /\ b.card[l].phase = a.card[l].phase /\ b.card[l].gen = a.card[l].gen
                            /\ b.card[l].says = a.card[l].says
    PROVE  AppOK(b)
<1>1. \A k \in 1 .. Len(a.streams) : a.streams[k].lane \in Lanes
  BY AppFields DEF AppOK, Stream
<1>2. CardsOK(b)
  BY DEF AppOK, CardsOK
<1>3. StreamsOK(b)
  BY <1>1 DEF AppOK, StreamsOK
<1>4. RendersOK(b)
  BY AppFields DEF AppOK, RendersOK
<1> QED
  BY <1>2, <1>3, <1>4 DEF AppOK

LEMMA StopsWorkOK ==
    ASSUME NEW a, AppOK(a), NEW l \in Lanes
    PROVE  LET b == StopsWork(a, l)
           IN /\ b \in AppRecord /\ SameCards(a, b) /\ CardsOK(b) /\ StreamsOK(b) /\ Quiet(b, l)
              /\ Follows(a, b) /\ Len(b.renders) = Len(a.renders)
              /\ \A i \in 1 .. Len(a.renders) : b.renders[i].gen = a.renders[i].gen
              /\ IF l = "visualize"
                 THEN b.render = 0 /\ \A i \in 1 .. Len(b.renders) : b.renders[i].state # "running"
                 ELSE b.render = a.render /\ b.renders = a.renders
<1> DEFINE b == StopsWork(a, l)
           c == Aborts(a, l)
           r == a.render
<1>1. /\ a \in AppRecord /\ c \in AppRecord /\ SameCards(a, c) /\ c.render = a.render
      /\ c.renders = a.renders /\ Quiet(c, l) /\ CardsOK(c) /\ StreamsOK(c) /\ Follows(a, c)
  BY AbortsIs, AbortsOK DEF AppOK
<1>2. /\ Len(a.renders) \in Nat /\ a.render \in 0 .. Len(a.renders)
      /\ \A i \in 1 .. Len(a.renders) : a.renders[i] \in Render
      /\ Len(a.streams) \in Nat
  BY <1>1, AppFields DEF AppOK, RendersOK
<1>3. CASE l = "explain" \/ a.render = 0
  <2>1. b = c
    BY <1>1, <1>3 DEF StopsWork
  <2>2. a.render = 0 => \A i \in 1 .. Len(a.renders) : a.renders[i].state # "running"
    BY <1>2 DEF AppOK, RendersOK
  <2> QED
    BY <1>1, <1>3, <2>1, <2>2
<1>4. CASE ~(l = "explain" \/ a.render = 0)
  <2>1. l = "visualize" /\ r \in 1 .. Len(a.renders)
    BY <1>2, <1>4 DEF Lanes
  <2> DEFINE new == [a.renders[r] EXCEPT !.state =
                        IF a.renders[r].state = "running" THEN "stopped" ELSE a.renders[r].state]
             all == [a.renders EXCEPT ![r] = new]
  <2>2. new \in Render /\ new.gen = a.renders[r].gen /\ new.state # "running"
        /\ (a.renders[r].state = "ended" => new.state = "ended")
    BY <1>2, <2>1 DEF Render
  <2>3. /\ all \in Seq(Render) /\ Len(all) = Len(a.renders)
        /\ \A i \in 1 .. Len(a.renders) : all[i] = IF i = r THEN new ELSE a.renders[i]
    BY <1>1, <2>1, <2>2, AppFields, ExceptSeq
  <2>4. b = [c EXCEPT !.renders = all, !.render = 0]
    BY <1>1, <1>4 DEF StopsWork
  <2> HIDE DEF b, c, new, all, r
  <2>5. /\ b \in AppRecord /\ SameCards(c, b) /\ b.slot = c.slot /\ b.streams = c.streams
        /\ b.render = 0 /\ b.renders = all
    BY <1>1, <2>3, <2>4 DEF AppRecord, SameCards
  <2>6. CardsOK(b) /\ StreamsOK(b) /\ Quiet(b, l)
    BY <1>1, <2>5 DEF CardsOK, StreamsOK, Quiet, SameCards
  <2>7. \A i \in 1 .. Len(a.renders) :
          b.renders[i].gen = a.renders[i].gen /\ b.renders[i].state # "running"
          /\ (a.renders[i].state = "ended" => b.renders[i].state = "ended")
    <3> SUFFICES ASSUME NEW i \in 1 .. Len(a.renders)
                 PROVE  b.renders[i].gen = a.renders[i].gen /\ b.renders[i].state # "running"
                        /\ (a.renders[i].state = "ended" => b.renders[i].state = "ended")
      OBVIOUS
    <3>1. CASE i = r
      BY <2>2, <2>3, <2>5, <3>1
    <3>2. CASE i # r
      BY <2>3, <2>5, <3>2 DEF AppOK, RendersOK, r
    <3> QED
      BY <3>1, <3>2
  <2>8. Len(b.renders) = Len(a.renders)
    BY <2>3, <2>5
  <2>9. SameCards(a, b)
    BY <1>1, <2>5 DEF SameCards
  <2>10. Follows(a, b)
    BY <1>1, <1>2, <2>5, <2>7, <2>8 DEF Follows, SameCards
  <2> QED
    BY <2>1, <2>5, <2>6, <2>7, <2>8, <2>9, <2>10 DEF b
<1> QED
  BY <1>3, <1>4

\* A lane gets its next card, or none.
LEMMA NewCardOK ==
    ASSUME NEW b \in AppRecord, NEW l \in Lanes, CardsOK(b), StreamsOK(b),
           NEW c \in Card, c.says = {}, c.phase # "rendering",
           c.phase # "none" => c.gen = b.gen[l] + 1,
           c.phase = "none" => c.gen = 0 /\ Quiet(b, l),
           \A i \in 1 .. Len(b.renders) : b.renders[i].gen <= b.gen["visualize"],
           \A i, j \in 1 .. Len(b.renders) : b.renders[i].gen = b.renders[j].gen => i = j,
           IF l = "visualize"
           THEN b.render = 0 /\ \A i \in 1 .. Len(b.renders) : b.renders[i].state # "running"
           ELSE RendersOK(b)
    PROVE  LET d == [b EXCEPT !.gen[l] = b.gen[l] + 1, !.card[l] = c]
           IN /\ AppOK(d) /\ Follows(b, d)
              /\ d.gen[l] = b.gen[l] + 1 /\ d.streams = b.streams /\ d.lookups = b.lookups
<1> DEFINE d == [b EXCEPT !.gen[l] = b.gen[l] + 1, !.card[l] = c]
<1>1. /\ b.card \in [Lanes -> Card] /\ b.gen \in [Lanes -> Nat] /\ "visualize" \in Lanes
      /\ Len(b.streams) \in Nat /\ Len(b.renders) \in Nat
      /\ \A k \in 1 .. Len(b.streams) : b.streams[k] \in Stream
      /\ \A i \in 1 .. Len(b.renders) : b.renders[i] \in Render
  BY AppFields
<1>2. /\ d.card = [b.card EXCEPT ![l] = c] /\ d.gen = [b.gen EXCEPT ![l] = b.gen[l] + 1]
      /\ d.open = b.open /\ d.lookups = b.lookups /\ d.slot = b.slot
      /\ d.streams = b.streams /\ d.render = b.render /\ d.renders = b.renders
  BY DEF AppRecord
<1>3. b.gen[l] + 1 \in Nat /\ c.gen \in Nat
  BY <1>1 DEF Card
<1>4. d \in AppRecord
  BY <1>1, <1>3 DEF AppRecord
<1> HIDE DEF d
<1>5. d.gen[l] = b.gen[l] + 1 /\ d.card[l] = c
      /\ \A m \in Lanes : b.gen[m] \in Nat /\ d.gen[m] \in Nat /\ b.gen[m] <= d.gen[m]
      /\ \A n \in Lanes : n # l => d.gen[n] = b.gen[n] /\ d.card[n] = b.card[n]
  BY <1>1, <1>2
<1>6. CardsOK(d)
  <2> SUFFICES ASSUME NEW m \in Lanes
               PROVE  /\ d.card[m].gen <= d.gen[m]
                      /\ d.card[m].phase # "none" => d.card[m].gen = d.gen[m]
                      /\ d.card[m].says \subseteq {d.card[m].gen}
    BY DEF CardsOK
  <2>1. CASE m = l
    BY <1>3, <1>5, <2>1
  <2>2. CASE m # l
    BY <1>5, <2>2 DEF CardsOK
  <2> QED
    BY <2>1, <2>2
<1>7. StreamsOK(d)
  <2>1. \A k \in 1 .. Len(d.streams) :
          /\ d.streams[k].gen \in 1 .. d.gen[d.streams[k].lane]
          /\ d.streams[k].state = "live" =>
               /\ d.slot[d.streams[k].lane] = k
               /\ d.card[d.streams[k].lane].phase # "none"
               /\ \A i \in 1 .. Len(d.streams[k].sink) : d.streams[k].sink[i] = "text"
    <3> SUFFICES ASSUME NEW k \in 1 .. Len(b.streams)
                 PROVE  /\ b.streams[k].gen \in 1 .. d.gen[b.streams[k].lane]
                        /\ b.streams[k].state = "live" =>
                             /\ b.slot[b.streams[k].lane] = k
                             /\ d.card[b.streams[k].lane].phase # "none"
                             /\ \A i \in 1 .. Len(b.streams[k].sink) : b.streams[k].sink[i] = "text"
      BY <1>2
    <3>1. b.streams[k].lane \in Lanes /\ b.streams[k].gen \in Nat
      BY <1>1 DEF Stream
    <3>2. b.streams[k].gen \in 1 .. b.gen[b.streams[k].lane]
      BY DEF StreamsOK
    <3>3. b.streams[k].gen \in 1 .. d.gen[b.streams[k].lane]
      BY <1>1, <1>5, <3>1, <3>2
    <3>4. ASSUME b.streams[k].state = "live" PROVE d.card[b.streams[k].lane].phase # "none"
      <4>1. CASE b.streams[k].lane = l
        BY <1>5, <3>4, <4>1 DEF Quiet
      <4>2. CASE b.streams[k].lane # l
        BY <1>5, <3>1, <3>4, <4>2 DEF StreamsOK
      <4> QED
        BY <4>1, <4>2
    <3> QED
      BY <3>3, <3>4 DEF StreamsOK
  <2> QED
    BY <1>2, <2>1 DEF StreamsOK
<1>8. RendersOK(d)
  <2>1. CASE l = "visualize"
    <3>1. \A i \in 1 .. Len(b.renders) : b.renders[i].gen < d.gen["visualize"] /\ b.renders[i].gen \in Nat
      BY <1>1, <1>5, <2>1 DEF Render
    <3> QED
      BY <1>1, <1>2, <1>5, <2>1, <3>1 DEF RendersOK
  <2>2. CASE l # "visualize"
    BY <1>1, <1>2, <1>5, <2>2 DEF RendersOK
  <2> QED
    BY <2>1, <2>2
<1>9. Follows(b, d)
  BY <1>1, <1>2, <1>5 DEF Follows
<1> QED
  BY <1>2, <1>4, <1>5, <1>6, <1>7, <1>8, <1>9 DEF AppOK, d

\* start_explain and start_visualize, whatever the phase they come to.
LEMMA LookupAdded ==
    ASSUME NEW d, AppOK(d), NEW q, QueueOK(d, q), NEW l \in Lanes, NEW g \in Nat,
           g \in 1 .. d.gen[l], Unasked(d, l, g),
           \A i \in 1 .. Len(q) : ~(q[i].what = "ready" /\ q[i].lane = l /\ q[i].gen = g)
    PROVE  LET e == [d EXCEPT !.lookups = d.lookups \cup {<<l, g>>}]
           IN  AppOK(e) /\ QueueOK(e, q)
<1> DEFINE e == [d EXCEPT !.lookups = d.lookups \cup {<<l, g>>}]
<1>1. d \in AppRecord /\ d.lookups \in SUBSET (Lanes \X Nat)
  BY AppFields DEF AppOK
<1>2. /\ e \in AppRecord /\ e.lookups = d.lookups \cup {<<l, g>>}
      /\ e.card = d.card /\ e.gen = d.gen /\ e.slot = d.slot
      /\ e.streams = d.streams /\ e.render = d.render /\ e.renders = d.renders
  <2>1. d.lookups \cup {<<l, g>>} \in SUBSET (Lanes \X Nat)
    BY <1>1
  <2> QED
    BY <1>1, <2>1 DEF AppRecord
<1> HIDE DEF e
<1>3. AppOK(e)
  BY <1>2, AppDepends
<1>4. \A m \in Lanes, h \in Nat : Unasked(e, m, h) <=> Unasked(d, m, h)
  BY <1>2 DEF Unasked
<1>5. \A i \in 1 .. Len(q) : q[i] \in EventRecord
  BY ElementOfSeq DEF QueueOK
<1>6. LookupsOK(e, q)
  <2>1. ASSUME NEW m \in Lanes, NEW h \in Nat, <<m, h>> \in e.lookups
        PROVE  /\ h \in 1 .. e.gen[m] /\ Unasked(e, m, h)
               /\ \A i \in 1 .. Len(q) : ~(q[i].what = "ready" /\ q[i].lane = m /\ q[i].gen = h)
    <3>1. CASE <<m, h>> \in d.lookups
      BY <1>2, <1>4, <3>1 DEF QueueOK, LookupsOK
    <3>2. CASE m = l /\ h = g
      BY <1>2, <1>4, <3>2
    <3> QED
      BY <1>2, <2>1, <3>1, <3>2
  <2>2. ASSUME NEW i \in 1 .. Len(q), q[i].what = "ready"
        PROVE  q[i].gen \in 1 .. e.gen[q[i].lane] /\ Unasked(e, q[i].lane, q[i].gen)
    <3>1. q[i].lane \in Lanes /\ q[i].gen \in Nat
      BY <1>5, <2>2 DEF EventRecord
    <3> QED
      BY <1>2, <1>4, <2>2, <3>1 DEF QueueOK, LookupsOK
  <2> QED
    BY <2>1, <2>2 DEF QueueOK, LookupsOK
<1>7. EventsOK(e, q)
  BY <1>2 DEF QueueOK, EventsOK, DeltaOK, VideoOK
<1> QED
  BY <1>3, <1>6, <1>7 DEF QueueOK, e

LEMMA StartsOK ==
    ASSUME NEW a, AppOK(a), NEW q, QueueOK(a, q), NEW l \in Lanes
    PROVE  AppOK(Starts(a, l)) /\ QueueOK(Starts(a, l), q)
<1> DEFINE b == IF l = "visualize" THEN StopsWork(a, l) ELSE a
           g == b.gen[l] + 1
           card(phase) == [NoCard EXCEPT !.phase = phase, !.gen = g]
           d(phase) == [b EXCEPT !.gen[l] = g, !.card[l] = card(phase)]
           e == [d("asking") EXCEPT !.lookups = d("asking").lookups \cup {<<l, g>>}]
<1>1. /\ b \in AppRecord /\ SameCards(a, b) /\ CardsOK(b) /\ StreamsOK(b)
      /\ IF l = "visualize"
         THEN b.render = 0 /\ \A i \in 1 .. Len(b.renders) : b.renders[i].state # "running"
         ELSE RendersOK(b)
      /\ Follows(a, b)
      /\ Len(b.renders) = Len(a.renders)
      /\ \A i \in 1 .. Len(a.renders) : b.renders[i].gen = a.renders[i].gen
  <2>1. CASE l = "visualize"
    BY <2>1, StopsWorkOK
  <2>2. CASE l # "visualize"
    <3>1. \A m \in Lanes : a.gen[m] \in Nat
      BY AppFields DEF AppOK
    <3>2. Len(a.renders) \in Nat
      BY AppFields DEF AppOK
    <3> QED
      BY <2>2, <3>1, <3>2 DEF AppOK, Follows, SameCards
  <2> QED
    BY <2>1, <2>2
<1>2. /\ \A i \in 1 .. Len(b.renders) : b.renders[i].gen <= b.gen["visualize"]
      /\ \A i, j \in 1 .. Len(b.renders) : b.renders[i].gen = b.renders[j].gen => i = j
  BY <1>1 DEF AppOK, RendersOK, SameCards
<1>3. b.gen[l] \in Nat /\ g \in Nat /\ b.gen \in [Lanes -> Nat] /\ b.card \in [Lanes -> Card]
      /\ b.gen = a.gen
  BY <1>1, AppFields DEF SameCards
<1>4. QueueOK(b, q)
  BY <1>1, QueueFollows DEF AppOK
<1>5. Starts(a, l) \in {d("refused"), e, d("parked"), d("failed")}
  <2> DEFINE next == [b EXCEPT !.gen[l] = g]
  <2>1. next.gen[l] = g
    BY <1>1, <1>3 DEF AppRecord
  <2>2. \A phase \in {"refused", "asking", "parked", "failed"} : Shows(next, l, phase) = d(phase)
    BY <2>1 DEF Shows
  <2>3. d("asking").lookups = b.lookups
    BY <1>1 DEF AppRecord
  <2>4. Starts(a, l) = CASE l = "visualize" /\ Limit.tier # "keyed" -> Shows(next, l, "refused")
         [] CanServe -> [Shows(next, l, "asking") EXCEPT !.lookups = @ \cup {<<l, next.gen[l]>>}]
         [] OTHER -> Shows(next, l, Blocked)
    BY DEF Starts
  <2>5. Blocked \in {"parked", "failed"}
    BY DEF Blocked
  <2> HIDE DEF next, b, d
  <2> QED
    BY <2>1, <2>2, <2>4, <2>5
<1> HIDE DEF b, g
<1>6. \A phase \in {"refused", "asking", "parked", "failed"} :
        AppOK(d(phase)) /\ Follows(b, d(phase))
        /\ d(phase).gen[l] = g /\ d(phase).streams = b.streams /\ d(phase).lookups = b.lookups
  <2> SUFFICES ASSUME NEW phase \in {"refused", "asking", "parked", "failed"}
               PROVE  AppOK(d(phase)) /\ Follows(b, d(phase))
                      /\ d(phase).gen[l] = g /\ d(phase).streams = b.streams
                      /\ d(phase).lookups = b.lookups
    OBVIOUS
  <2>1. card(phase) \in Card /\ card(phase).says = {} /\ card(phase).phase = phase
        /\ card(phase).gen = g
    BY <1>3 DEF NoCard, Card, Phases
  <2>2. card(phase).phase # "none" /\ card(phase).phase # "rendering" /\ card(phase).gen = b.gen[l] + 1
    BY <2>1 DEF g
  <2> HIDE DEF card
  <2> DEFINE dd == [b EXCEPT !.gen[l] = b.gen[l] + 1, !.card[l] = card(phase)]
  <2>3. /\ AppOK(dd) /\ Follows(b, dd) /\ dd.gen[l] = b.gen[l] + 1
        /\ dd.streams = b.streams /\ dd.lookups = b.lookups
    BY <1>1, <1>2, <2>1, <2>2, NewCardOK
  <2>4. dd = d(phase)
    BY DEF g
  <2> QED
    BY <2>3, <2>4 DEF g
<1>7. ASSUME NEW phase \in {"refused", "asking", "parked", "failed"} PROVE QueueOK(d(phase), q)
  <2>1. AppOK(d(phase)) /\ Follows(b, d(phase))
    BY <1>6
  <2> HIDE DEF d
  <2> QED
    BY <1>1, <1>4, <2>1, QueueFollows DEF AppOK
<1>8. AppOK(e) /\ QueueOK(e, q)
  <2> HIDE DEF d
  <2>1. AppOK(d("asking")) /\ QueueOK(d("asking"), q) /\ d("asking").gen[l] = g
        /\ d("asking").streams = b.streams
    BY <1>6, <1>7
  <2>2. g \in 1 .. d("asking").gen[l]
    BY <1>3, <2>1 DEF g
  <2>3. Unasked(d("asking"), l, g)
    <3>1. \A k \in 1 .. Len(b.streams) : b.streams[k].lane = l => b.streams[k].gen < g
      <4> SUFFICES ASSUME NEW k \in 1 .. Len(b.streams), b.streams[k].lane = l
                   PROVE  b.streams[k].gen < g
        OBVIOUS
      <4>1. b.streams[k].gen \in 1 .. b.gen[l]
        BY <1>1 DEF StreamsOK
      <4> QED
        BY <1>3, <4>1 DEF g
    <3>2. \A k \in 1 .. Len(b.streams) : b.streams[k].lane = l => b.streams[k].gen # g
      <4>1. \A k \in 1 .. Len(b.streams) : b.streams[k].gen \in Nat
        BY <1>1, AppFields DEF AppOK, Stream
      <4>2. g \in Nat
        BY <1>3
      <4> HIDE DEF g
      <4> QED
        BY <3>1, <4>1, <4>2
    <3> QED
      BY <2>1, <3>2 DEF Unasked
  <2>4. \A i \in 1 .. Len(q) : ~(q[i].what = "ready" /\ q[i].lane = l /\ q[i].gen = g)
    BY <1>3, <1>4 DEF QueueOK, LookupsOK, g
  <2> QED
    BY <1>3, <2>1, <2>2, <2>3, <2>4, LookupAdded
<1> QED
  BY <1>5, <1>6, <1>7, <1>8

\* close_explain and close_visualize.
LEMMA CloseOK ==
    ASSUME NEW a, AppOK(a), NEW q, QueueOK(a, q), NEW l \in Lanes
    PROVE  LET c == [StopsWork(a, l) EXCEPT !.gen[l] = @ + 1, !.card[l] = NoCard]
           IN  AppOK(c) /\ QueueOK(c, q)
<1> DEFINE b == StopsWork(a, l)
           c == [b EXCEPT !.gen[l] = b.gen[l] + 1, !.card[l] = NoCard]
<1>1. /\ b \in AppRecord /\ SameCards(a, b) /\ CardsOK(b) /\ StreamsOK(b) /\ Quiet(b, l)
      /\ Follows(a, b) /\ Len(b.renders) = Len(a.renders)
      /\ \A i \in 1 .. Len(a.renders) : b.renders[i].gen = a.renders[i].gen
      /\ IF l = "visualize"
         THEN b.render = 0 /\ \A i \in 1 .. Len(b.renders) : b.renders[i].state # "running"
         ELSE b.render = a.render /\ b.renders = a.renders
  BY StopsWorkOK
<1>2. /\ \A i \in 1 .. Len(b.renders) : b.renders[i].gen <= b.gen["visualize"]
      /\ \A i, j \in 1 .. Len(b.renders) : b.renders[i].gen = b.renders[j].gen => i = j
  BY <1>1 DEF AppOK, RendersOK, SameCards
<1>3. NoCard \in Card /\ NoCard.says = {} /\ NoCard.phase = "none" /\ NoCard.gen = 0
  BY DEF NoCard, Card, Phases
<1>4. l # "visualize" => RendersOK(b)
  BY <1>1 DEF AppOK, RendersOK, SameCards
<1> HIDE DEF b
<1>5. AppOK(c) /\ Follows(b, c)
  BY <1>1, <1>2, <1>3, <1>4, NewCardOK
<1> HIDE DEF c
<1>6. QueueOK(c, q)
  BY <1>1, <1>5, QueueFollows DEF AppOK
<1> QED
  BY <1>5, <1>6 DEF b, c

\* A request goes on, or stops streaming.
LEMMA StreamMoves ==
    ASSUME NEW a, AppOK(a), NEW k \in 1 .. Len(a.streams), NEW stream \in Stream,
           stream.lane = a.streams[k].lane, stream.gen = a.streams[k].gen,
           stream.state = "live" => a.streams[k].state = "live"
                /\ \A i \in 1 .. Len(stream.sink) : stream.sink[i] = "text"
    PROVE  LET b == [a EXCEPT !.streams[k] = stream] IN AppOK(b) /\ Follows(a, b)
<1> DEFINE b == [a EXCEPT !.streams[k] = stream]
<1>1. /\ a \in AppRecord /\ b \in AppRecord /\ SameCards(a, b)
      /\ b.slot = a.slot /\ b.render = a.render /\ b.renders = a.renders
      /\ Len(b.streams) = Len(a.streams) /\ b.streams[k] = stream
      /\ \A i \in 1 .. Len(a.streams) : i # k => b.streams[i] = a.streams[i]
  BY StreamChange DEF AppOK
<1> HIDE DEF b
<1>2. Len(a.renders) \in Nat /\ \A l \in Lanes : a.gen[l] \in Nat
  BY <1>1, AppFields
<1>3. \A i \in 1 .. Len(a.streams) :
        /\ b.streams[i].lane = a.streams[i].lane /\ b.streams[i].gen = a.streams[i].gen
        /\ b.streams[i].state = "live" => a.streams[i].state = "live"
             /\ \A j \in 1 .. Len(b.streams[i].sink) : b.streams[i].sink[j] = "text"
  <2> SUFFICES ASSUME NEW i \in 1 .. Len(a.streams)
               PROVE  /\ b.streams[i].lane = a.streams[i].lane /\ b.streams[i].gen = a.streams[i].gen
                      /\ b.streams[i].state = "live" => a.streams[i].state = "live"
                           /\ \A j \in 1 .. Len(b.streams[i].sink) : b.streams[i].sink[j] = "text"
    OBVIOUS
  <2>1. CASE i = k
    BY <1>1, <2>1
  <2>2. CASE i # k
    BY <1>1, <2>2 DEF AppOK, StreamsOK
  <2> QED
    BY <2>1, <2>2
<1>4. CardsOK(b) /\ RendersOK(b)
  BY <1>1 DEF AppOK, CardsOK, RendersOK, SameCards
<1>5. StreamsOK(b)
  BY <1>1, <1>3 DEF AppOK, StreamsOK, SameCards
<1>6. Follows(a, b)
  BY <1>1, <1>2, <1>3 DEF Follows, SameCards
<1> QED
  BY <1>1, <1>4, <1>5, <1>6 DEF AppOK, b

\* Only the card of a lane differs.
LEMMA CardChange ==
    ASSUME NEW a \in AppRecord, NEW l \in Lanes, NEW c \in Card
    PROVE  LET b == [a EXCEPT !.card[l] = c]
           IN /\ b \in AppRecord /\ b.card[l] = c /\ \A m \in Lanes : m # l => b.card[m] = a.card[m]
              /\ b.gen = a.gen /\ b.open = a.open /\ b.lookups = a.lookups /\ b.slot = a.slot
              /\ b.streams = a.streams /\ b.render = a.render /\ b.renders = a.renders
              /\ Follows(a, b)
<1> DEFINE b == [a EXCEPT !.card[l] = c]
<1>1. /\ a.card \in [Lanes -> Card] /\ Len(a.renders) \in Nat /\ \A m \in Lanes : a.gen[m] \in Nat
  BY AppFields
<1>2. /\ b.card = [a.card EXCEPT ![l] = c]
      /\ b.gen = a.gen /\ b.open = a.open /\ b.lookups = a.lookups /\ b.slot = a.slot
      /\ b.streams = a.streams /\ b.render = a.render /\ b.renders = a.renders
  BY DEF AppRecord
<1>3. b \in AppRecord
  BY <1>1 DEF AppRecord
<1> HIDE DEF b
<1>4. Follows(a, b)
  BY <1>1, <1>2 DEF Follows
<1> QED
  BY <1>1, <1>2, <1>3, <1>4 DEF b

\* A card that is asking gets text or comes to an end without a scene.
LEMMA AskingMoves ==
    ASSUME NEW a, AppOK(a), NEW l \in Lanes, NEW c \in Card, a.card[l].phase = "asking",
           c.gen = a.card[l].gen, c.phase \notin {"none", "rendering"}, c.says \subseteq {c.gen}
    PROVE  LET b == [a EXCEPT !.card[l] = c] IN AppOK(b) /\ Follows(a, b)
<1> DEFINE b == [a EXCEPT !.card[l] = c]
<1>1. /\ a \in AppRecord /\ b \in AppRecord
      /\ b.card[l] = c /\ \A m \in Lanes : m # l => b.card[m] = a.card[m]
      /\ b.gen = a.gen /\ b.slot = a.slot
      /\ b.streams = a.streams /\ b.render = a.render /\ b.renders = a.renders /\ Follows(a, b)
  BY CardChange DEF AppOK
<1> HIDE DEF b
<1>2. CardsOK(b)
  <2> SUFFICES ASSUME NEW m \in Lanes
               PROVE  /\ b.card[m].gen <= b.gen[m]
                      /\ b.card[m].phase # "none" => b.card[m].gen = b.gen[m]
                      /\ b.card[m].says \subseteq {b.card[m].gen}
    BY DEF CardsOK
  <2>1. CASE m = l
    BY <1>1, <2>1 DEF AppOK, CardsOK
  <2>2. CASE m # l
    BY <1>1, <2>2 DEF AppOK, CardsOK
  <2> QED
    BY <2>1, <2>2
<1>3. \A m \in Lanes : b.card[m].phase = "none" <=> a.card[m].phase = "none"
  BY <1>1
<1>4. StreamsOK(b)
  <2>1. \A k \in 1 .. Len(a.streams) : a.streams[k].lane \in Lanes
    BY <1>1, AppFields DEF Stream
  <2> QED
    BY <1>1, <1>3, <2>1 DEF AppOK, StreamsOK
<1>5. RendersOK(b)
  <2>1. CASE l = "visualize"
    <3>1. a.render = 0 /\ b.card["visualize"].gen = a.card["visualize"].gen
      BY <1>1, <2>1 DEF AppOK, RendersOK
    <3>2. \A i \in 1 .. Len(a.renders) : a.renders[i].gen # a.gen["visualize"]
      BY <2>1 DEF AppOK, RendersOK
    <3> QED
      BY <1>1, <2>1, <3>1, <3>2 DEF AppOK, RendersOK
  <2>2. CASE l # "visualize"
    <3>1. b.card["visualize"] = a.card["visualize"]
      BY <1>1, <2>2 DEF Lanes
    <3> QED
      BY <1>1, <3>1 DEF AppOK, RendersOK
  <2> QED
    BY <2>1, <2>2
<1> QED
  BY <1>1, <1>2, <1>4, <1>5 DEF AppOK, b

\* on_explain_ready and on_visualize_ready.
LEMMA ReadyOK ==
    ASSUME NEW a, AppOK(a), NEW q, QueueOK(a, q), q # <<>>, Head(q).what = "ready"
    PROVE  LET b == OnReady(a, Head(q).lane, Head(q).gen) IN AppOK(b) /\ QueueOK(b, Tail(q))
<1> DEFINE l == Head(q).lane
           g == Head(q).gen
           b == OnReady(a, l, g)
           r == Tail(q)
           n == Len(a.streams)
<1>1. /\ QueueOK(a, r) /\ Head(q) \in EventRecord /\ Head(q) = q[1] /\ 1 \in 1 .. Len(q)
      /\ \A i \in 1 .. Len(r) : ~(r[i].what = "ready" /\ r[i].lane = l /\ r[i].gen = g)
  BY TailOK DEF AppOK
<1>2. l \in Lanes /\ g \in Nat
  BY <1>1 DEF EventRecord
<1>3. a \in AppRecord /\ CardsOK(a) /\ StreamsOK(a) /\ RendersOK(a)
  BY DEF AppOK
<1>4. CASE ~Current(a, l, g) \/ a.card[l].phase # "asking"
  BY <1>1, <1>4 DEF OnReady
<1>5. CASE Current(a, l, g) /\ a.card[l].phase = "asking" /\ ~CanServe
  <2> DEFINE c == [a.card[l] EXCEPT !.phase = Blocked]
  <2>1. a.card[l] \in Card
    BY <1>2, <1>3, AppFields
  <2>2. c \in Card /\ c.gen = a.card[l].gen /\ c.phase \notin {"none", "rendering"}
        /\ c.says = a.card[l].says
    BY <2>1 DEF Card, Blocked, Phases
  <2>3. b = [a EXCEPT !.card[l] = c]
    BY <1>5 DEF OnReady
  <2> HIDE DEF c, b, r
  <2>4. AppOK(b) /\ Follows(a, b)
    BY <1>2, <1>3, <1>5, <2>2, <2>3, AskingMoves DEF CardsOK
  <2>5. QueueOK(b, r)
    BY <1>1, <2>4, QueueFollows DEF AppOK
  <2> QED
    BY <2>4, <2>5 DEF b, r
<1>6. CASE Current(a, l, g) /\ a.card[l].phase = "asking" /\ CanServe
  <2> DEFINE c == Aborts(a, l)
             new == [lane |-> l, gen |-> g, state |-> "live", said |-> FALSE, sink |-> <<>>]
             all == Append(c.streams, new)
  <2>1. /\ c \in AppRecord /\ SameCards(a, c) /\ c.render = a.render /\ c.renders = a.renders
        /\ c.slot[l] = 0 /\ \A m \in Lanes : m # l => c.slot[m] = a.slot[m]
        /\ Len(c.streams) = n
        /\ \A k \in 1 .. n :
             /\ c.streams[k].lane = a.streams[k].lane /\ c.streams[k].gen = a.streams[k].gen
             /\ c.streams[k].state = "live" => a.streams[k].state = "live"
        /\ Quiet(c, l) /\ CardsOK(c) /\ StreamsOK(c)
    BY <1>2, <1>3, AbortsIs, AbortsOK
  <2>2. n \in Nat /\ c.slot \in [Lanes -> Nat] /\ c.streams \in Seq(Stream)
    BY <1>3, <2>1, AppFields
  <2>3. new \in Stream
    BY <1>2, EmptySeq DEF Stream
  <2>4. b = [c EXCEPT !.streams = all, !.slot[l] = n + 1]
    BY <1>6 DEF OnReady, StartsStream
  <2>5. new.lane = l /\ new.gen = g /\ new.state = "live" /\ new.sink = <<>> /\ Len(<<>>) = 0
    BY EmptySeq
  <2> HIDE DEF b, c, new, r
  <2>6. /\ all \in Seq(Stream) /\ Len(all) = n + 1 /\ all[n + 1] = new
        /\ \A k \in 1 .. n : all[k] = c.streams[k]
    BY <2>1, <2>2, <2>3, AppendProperties
  <2> HIDE DEF all
  <2>7. /\ b \in AppRecord /\ b.card = c.card /\ b.gen = c.gen /\ b.lookups = c.lookups
        /\ b.slot = [c.slot EXCEPT ![l] = n + 1] /\ b.streams = all
        /\ b.render = c.render /\ b.renders = c.renders
    <3>1. n + 1 \in Nat /\ [c.slot EXCEPT ![l] = n + 1] \in [Lanes -> Nat]
      <4>1. n + 1 \in Nat
        BY <2>2
      <4> HIDE DEF n
      <4> QED
        BY <2>2, <4>1
    <3>2. b = [c EXCEPT !.streams = all, !.slot = [c.slot EXCEPT ![l] = n + 1]]
      BY <2>4
    <3> QED
      BY <2>1, <2>6, <3>1, <3>2 DEF AppRecord
  <2>8. b.slot[l] = n + 1 /\ \A m \in Lanes : m # l => b.slot[m] = a.slot[m]
    BY <1>2, <2>1, <2>2, <2>7
  <2>9. b.card = a.card /\ b.gen = a.gen /\ b.lookups = a.lookups
        /\ b.render = a.render /\ b.renders = a.renders
    BY <2>1, <2>7 DEF SameCards
  <2>10. CardsOK(b) /\ RendersOK(b)
    BY <1>3, <2>9 DEF CardsOK, RendersOK
  <2>11. g = a.gen[l] /\ g \in 1 .. a.gen[l] /\ Unasked(a, l, g)
    BY <1>1, <1>6 DEF Current, QueueOK, LookupsOK
  <2>12. \A k \in 1 .. n + 1 : (k \in 1 .. n /\ all[k] = c.streams[k]) \/ (k = n + 1 /\ all[k] = new)
    BY <2>2, <2>6
  <2>13. \A k \in 1 .. n : c.streams[k].lane \in Lanes /\ c.streams[k].gen \in Nat /\ k # n + 1
    <3>1. \A k \in 1 .. n : c.streams[k] \in Stream
      BY <2>1, AppFields
    <3> QED
      BY <2>2, <3>1 DEF Stream
  <2>14. StreamsOK(b)
    <3>1. \A m \in Lanes : b.slot[m] <= Len(b.streams)
      <4>1. \A m \in Lanes : a.slot[m] \in Nat /\ a.slot[m] <= n
        BY <1>3, AppFields DEF StreamsOK
      <4> QED
        BY <2>2, <2>6, <2>7, <2>8, <4>1
    <3>2. ASSUME NEW k \in 1 .. n + 1
          PROVE  /\ all[k].gen \in 1 .. b.gen[all[k].lane]
                 /\ all[k].state = "live" =>
                      /\ b.slot[all[k].lane] = k
                      /\ b.card[all[k].lane].phase # "none"
                      /\ \A i \in 1 .. Len(all[k].sink) : all[k].sink[i] = "text"
      <4>1. CASE k = n + 1
        BY <1>6, <2>5, <2>8, <2>9, <2>11, <2>12, <4>1
      <4>2. CASE k \in 1 .. n /\ all[k] = c.streams[k]
        <5>1. c.streams[k].gen \in 1 .. c.gen[c.streams[k].lane]
          BY <2>1, <4>2 DEF StreamsOK
        <5>2. ASSUME c.streams[k].state = "live"
              PROVE  /\ c.streams[k].lane # l /\ c.slot[c.streams[k].lane] = k
                     /\ c.card[c.streams[k].lane].phase # "none"
                     /\ \A i \in 1 .. Len(c.streams[k].sink) : c.streams[k].sink[i] = "text"
          BY <2>1, <4>2, <5>2 DEF StreamsOK, Quiet
        <5> QED
          BY <2>1, <2>7, <2>8, <2>13, <4>2, <5>1, <5>2
      <4> QED
        BY <2>12, <4>1, <4>2
    <3>3. ASSUME NEW j \in 1 .. n + 1, NEW k \in 1 .. n + 1, j < k, all[j].lane = all[k].lane
          PROVE  all[j].gen < all[k].gen
      <4>1. j \in 1 .. n /\ all[j] = c.streams[j]
        BY <2>2, <2>12, <3>3
      <4>2. CASE k \in 1 .. n /\ all[k] = c.streams[k]
        BY <2>1, <3>3, <4>1, <4>2 DEF StreamsOK
      <4>3. CASE k = n + 1 /\ all[k] = new
        <5>1. a.streams[j].lane = l /\ a.streams[j].gen = c.streams[j].gen
          BY <2>1, <2>5, <3>3, <4>1, <4>3
        <5>2. a.streams[j].gen \in 1 .. a.gen[l] /\ a.streams[j].gen # g
          BY <1>3, <2>11, <4>1, <5>1 DEF StreamsOK, Unasked
        <5>3. a.streams[j].gen < g
          BY <1>2, <2>11, <5>2
        <5> QED
          BY <2>5, <4>1, <4>3, <5>1, <5>3
      <4> QED
        BY <2>12, <4>2, <4>3
    <3> QED
      BY <2>6, <2>7, <3>1, <3>2, <3>3 DEF StreamsOK
  <2>15. ASSUME NEW m \in Lanes, NEW h \in Nat, Unasked(a, m, h), ~(m = l /\ h = g)
         PROVE  Unasked(b, m, h)
    <3> SUFFICES ASSUME NEW k \in 1 .. n + 1, all[k].lane = m, all[k].gen = h PROVE FALSE
      BY <2>6, <2>7 DEF Unasked
    <3>1. k \in 1 .. n /\ all[k] = c.streams[k]
      BY <2>5, <2>12, <2>15
    <3> QED
      BY <2>1, <2>15, <3>1 DEF Unasked
  <2>16. \A i \in 1 .. Len(r) : r[i] \in EventRecord
    BY <1>1, ElementOfSeq DEF QueueOK
  <2>17. LookupsOK(b, r)
    <3>1. ASSUME NEW m \in Lanes, NEW h \in Nat, <<m, h>> \in b.lookups
          PROVE  /\ h \in 1 .. b.gen[m] /\ Unasked(b, m, h)
                 /\ \A i \in 1 .. Len(r) : ~(r[i].what = "ready" /\ r[i].lane = m /\ r[i].gen = h)
      <4>1. ~(m = l /\ h = g)
        BY <1>1, <2>9, <3>1 DEF QueueOK, LookupsOK
      <4> QED
        BY <1>1, <2>9, <2>15, <3>1, <4>1 DEF QueueOK, LookupsOK
    <3>2. ASSUME NEW i \in 1 .. Len(r), r[i].what = "ready"
          PROVE  r[i].gen \in 1 .. b.gen[r[i].lane] /\ Unasked(b, r[i].lane, r[i].gen)
      <4>1. r[i].lane \in Lanes /\ r[i].gen \in Nat /\ ~(r[i].lane = l /\ r[i].gen = g)
        BY <1>1, <2>16, <3>2 DEF EventRecord
      <4> QED
        BY <1>1, <2>9, <2>15, <3>2, <4>1 DEF QueueOK, LookupsOK
    <3> QED
      BY <1>1, <3>1, <3>2 DEF QueueOK, LookupsOK
  <2>18. EventsOK(b, r)
    <3>1. \A e : DeltaOK(a, e) => DeltaOK(b, e)
      <4>1. \A k \in 1 .. n : k \in 1 .. Len(b.streams) /\ b.streams[k] = c.streams[k]
        BY <2>2, <2>6, <2>7
      <4> QED
        BY <2>1, <4>1 DEF DeltaOK
    <3>2. \A e : VideoOK(a, e) => VideoOK(b, e)
      BY <2>9 DEF VideoOK
    <3> QED
      BY <1>1, <3>1, <3>2 DEF QueueOK, EventsOK
  <2> QED
    BY <1>1, <2>7, <2>10, <2>14, <2>17, <2>18 DEF AppOK, QueueOK, b, r
<1> QED
  BY <1>4, <1>5, <1>6

\* A lane has had at most as many requests as cards.
LEMMA RequestsAreOfCards ==
    ASSUME NEW a, AppOK(a), NEW k \in 1 .. Len(a.streams)
    PROVE  LET before == {j \in 1 .. k : a.streams[j].lane = a.streams[k].lane}
           IN  Cardinality(before) \in Nat /\ Cardinality(before) <= a.streams[k].gen
<1> DEFINE before == {j \in 1 .. k : a.streams[j].lane = a.streams[k].lane}
           g == a.streams[k].gen
           f == [j \in before |-> a.streams[j].gen]
<1>1. /\ Len(a.streams) \in Nat
      /\ \A j \in 1 .. Len(a.streams) : a.streams[j].gen \in Nat /\ a.streams[j].lane \in Lanes
  BY AppFields DEF AppOK, Stream
<1>2. \A j \in before : j \in 1 .. Len(a.streams) /\ j \in Nat
  BY <1>1
<1>3. \A j \in before : a.streams[j].gen >= 1 /\ (j < k => a.streams[j].gen < g)
  BY <1>2, <1>1 DEF AppOK, StreamsOK
<1>4. \A j \in before : a.streams[j].gen \in 1 .. g
  BY <1>1, <1>2, <1>3
<1>5. \A i, j \in before : a.streams[i].gen = a.streams[j].gen => i = j
  <2> SUFFICES ASSUME NEW i \in before, NEW j \in before, i < j PROVE a.streams[i].gen # a.streams[j].gen
    BY <1>2
  <2>1. a.streams[i].gen < a.streams[j].gen
    BY <1>2 DEF AppOK, StreamsOK
  <2> QED
    BY <1>1, <1>2, <2>1
<1>6. f \in Injection(before, 1 .. g)
  BY <1>4, <1>5 DEF Injection, IsInjective
<1>7. IsFiniteSet(1 .. g) /\ Cardinality(1 .. g) = g
  <2>1. g \in Nat
    BY <1>1
  <2> HIDE DEF g
  <2>2. 1 \in Int /\ g \in Int
    BY <2>1
  <2>3. IsFiniteSet(1 .. g) /\ Cardinality(1 .. g) = IF 1 > g THEN 0 ELSE g - 1 + 1
    BY <2>2, FS_Interval
  <2> QED
    BY <2>1, <2>3
<1>8. IsFiniteSet(before) /\ Cardinality(before) <= Cardinality(1 .. g)
  BY <1>6, <1>7, FS_Injection
<1> QED
  BY <1>7, <1>8, FS_CardinalityType

\* Slot::clear_if at the end of a request leaves every request that streams in its
\* slot, although a slot and the cards count differently.
LEMMA FinishedOK ==
    ASSUME NEW a, AppOK(a), NEW l \in Lanes, NEW g \in Nat, g = a.gen[l],
           \A k \in 1 .. Len(a.streams) :
                a.streams[k].lane = l /\ a.streams[k].gen = g => a.streams[k].state # "live"
    PROVE  /\ AppOK(Finished(a, l, g)) /\ Follows(a, Finished(a, l, g))
           /\ SameCards(a, Finished(a, l, g))
           /\ Finished(a, l, g).render = a.render /\ Finished(a, l, g).renders = a.renders
<1> DEFINE starts == {k \in 1 .. a.slot[l] : a.streams[k].lane = l}
           b == [a EXCEPT !.slot[l] = 0]
<1>1. /\ a \in AppRecord /\ Len(a.streams) \in Nat /\ Len(a.renders) \in Nat
      /\ a.slot \in [Lanes -> Nat] /\ \A m \in Lanes : a.gen[m] \in Nat
      /\ \A k \in 1 .. Len(a.streams) : a.streams[k].lane \in Lanes
      /\ a.slot[l] <= Len(a.streams)
  <2>1. a \in AppRecord /\ a.slot[l] <= Len(a.streams)
    BY DEF AppOK, StreamsOK
  <2>2. \A k \in 1 .. Len(a.streams) : a.streams[k] \in Stream
    BY <2>1, AppFields
  <2>3. \A k \in 1 .. Len(a.streams) : a.streams[k].lane \in Lanes
    BY <2>2 DEF Stream
  <2>4. \A m \in Lanes : a.gen[m] \in Nat
    BY <2>1, AppFields
  <2> QED
    BY <2>1, <2>3, <2>4, AppFields
<1>2. Follows(a, a) /\ SameCards(a, a)
  BY <1>1 DEF Follows, SameCards
<1>3. CASE Cardinality(starts) = g
  <2>1. /\ b \in AppRecord /\ SameCards(a, b) /\ b.streams = a.streams /\ b.render = a.render
        /\ b.renders = a.renders /\ b.slot = [a.slot EXCEPT ![l] = 0]
    BY <1>1 DEF AppRecord, SameCards
  <2>2. Finished(a, l, g) = b
    BY <1>3 DEF Finished
  <2>3. Quiet(a, l)
    <3> SUFFICES ASSUME NEW k \in 1 .. Len(a.streams), a.streams[k].lane = l, a.streams[k].state = "live"
                 PROVE  FALSE
      BY DEF Quiet
    <3>1. a.slot[l] = k /\ a.streams[k].gen \in 1 .. g
      BY DEF AppOK, StreamsOK
    <3>2. Cardinality(starts) <= a.streams[k].gen
      BY <3>1, RequestsAreOfCards
    <3>3. a.streams[k].gen = g
      BY <1>3, <3>1, <3>2
    <3> QED
      BY <3>3
  <2> HIDE DEF b
  <2>4. StreamsOK(b)
    <3>1. \A m \in Lanes : b.slot[m] = IF m = l THEN 0 ELSE a.slot[m]
      BY <1>1, <2>1
    <3>2. \A m \in Lanes : b.slot[m] <= Len(b.streams)
      BY <1>1, <2>1, <3>1 DEF AppOK, StreamsOK
    <3> QED
      BY <1>1, <2>1, <2>3, <3>1, <3>2 DEF AppOK, StreamsOK, SameCards, Quiet
  <2>5. CardsOK(b) /\ RendersOK(b)
    BY <2>1 DEF AppOK, CardsOK, RendersOK, SameCards
  <2>6. Follows(a, b)
    BY <1>1, <2>1 DEF Follows, SameCards
  <2> QED
    BY <2>1, <2>2, <2>4, <2>5, <2>6 DEF AppOK
<1>4. CASE Cardinality(starts) # g
  <2>1. Finished(a, l, g) = a
    BY <1>4 DEF Finished
  <2> QED
    BY <1>2, <2>1
<1> QED
  BY <1>3, <1>4

\* The script has come, and its scene renders.
LEMMA RenderStarts ==
    ASSUME NEW a, AppOK(a), a.card["visualize"].phase = "asking"
    PROVE  LET b == [a EXCEPT !.card["visualize"] = [a.card["visualize"] EXCEPT !.phase = "rendering"],
                              !.renders = Append(a.renders, [gen |-> a.gen["visualize"], state |-> "running"]),
                              !.render = Len(a.renders) + 1]
           IN  AppOK(b) /\ Follows(a, b)
<1> DEFINE v == "visualize"
           c == [a.card[v] EXCEPT !.phase = "rendering"]
           new == [gen |-> a.gen[v], state |-> "running"]
           all == Append(a.renders, new)
           n == Len(a.renders)
           b == [a EXCEPT !.card[v] = c, !.renders = all, !.render = n + 1]
<1>1. /\ a \in AppRecord /\ a.card \in [Lanes -> Card] /\ n \in Nat /\ Len(a.streams) \in Nat
      /\ v \in Lanes /\ a.card[v] \in Card /\ a.gen[v] \in Nat /\ a.renders \in Seq(Render)
      /\ \A k \in 1 .. Len(a.streams) : a.streams[k].lane \in Lanes
      /\ \A m \in Lanes : a.gen[m] \in Nat
      /\ \A i \in 1 .. n : a.renders[i].gen \in Nat
  BY AppFields DEF AppOK, Stream, Render
<1>2. c \in Card /\ c.phase = "rendering" /\ c.gen = a.card[v].gen /\ c.says = a.card[v].says
  BY <1>1 DEF Card, Phases
<1>3. new \in Render /\ new.gen = a.gen[v] /\ new.state = "running"
  BY <1>1 DEF Render
<1>4. a.card[v].gen = a.gen[v]
  BY <1>1 DEF AppOK, CardsOK
<1> HIDE DEF c, new, v
<1>5. /\ all \in Seq(Render) /\ Len(all) = n + 1 /\ all[n + 1] = new
      /\ \A i \in 1 .. n : all[i] = a.renders[i]
  BY <1>1, <1>3, AppendProperties
<1> HIDE DEF all
<1>6. /\ b.card = [a.card EXCEPT ![v] = c] /\ b.gen = a.gen /\ b.open = a.open
      /\ b.lookups = a.lookups /\ b.slot = a.slot /\ b.streams = a.streams
      /\ b.renders = all /\ b.render = n + 1
  BY <1>1 DEF AppRecord
<1>7. [a.card EXCEPT ![v] = c] \in [Lanes -> Card] /\ n + 1 \in Nat
  BY <1>1, <1>2
<1>8. b \in AppRecord
  BY <1>1, <1>5, <1>7 DEF AppRecord
<1> HIDE DEF b
<1>9. \A m \in Lanes : b.card[m] = IF m = v THEN c ELSE a.card[m]
  BY <1>1, <1>6
<1>10. CardsOK(b)
  <2> SUFFICES ASSUME NEW m \in Lanes
               PROVE  /\ b.card[m].gen <= b.gen[m]
                      /\ b.card[m].phase # "none" => b.card[m].gen = b.gen[m]
                      /\ b.card[m].says \subseteq {b.card[m].gen}
    BY DEF CardsOK
  <2>1. CASE m = v
    <3>1. b.card[m] = c /\ a.card[v].says \subseteq {a.card[v].gen}
      BY <1>1, <1>9, <2>1 DEF AppOK, CardsOK
    <3> QED
      BY <1>1, <1>2, <1>4, <1>6, <2>1, <3>1
  <2>2. CASE m # v
    BY <1>6, <1>9, <2>2 DEF AppOK, CardsOK
  <2> QED
    BY <2>1, <2>2
<1>11. StreamsOK(b)
  <2>1. \A m \in Lanes : b.card[m].phase = "none" <=> a.card[m].phase = "none"
    BY <1>2, <1>9 DEF v
  <2>2. StreamsOK(a) /\ \A k \in 1 .. Len(a.streams) : a.streams[k].lane \in Lanes
    BY <1>1 DEF AppOK
  <2>3. b.slot = a.slot /\ b.streams = a.streams /\ b.gen = a.gen
    BY <1>6
  <2> HIDE DEF n
  <2> QED
    BY <2>1, <2>2, <2>3 DEF StreamsOK
<1>12. RendersOK(b)
  <2>1. /\ a.render = 0 /\ \A i \in 1 .. n : a.renders[i].state # "running" /\ a.renders[i].gen < a.gen[v]
    <3>1. a.render = 0
      BY DEF AppOK, RendersOK
    <3>2. \A i \in 1 .. n : a.renders[i].state # "running"
      BY <1>1, <3>1 DEF AppOK, RendersOK
    <3>3. \A i \in 1 .. n : a.renders[i].gen <= a.gen[v] /\ a.renders[i].gen # a.gen[v]
      BY <1>1 DEF AppOK, RendersOK, v
    <3> QED
      BY <1>1, <3>1, <3>2, <3>3
  <2>2. \A i \in 1 .. n + 1 : (i \in 1 .. n /\ all[i] = a.renders[i]) \/ (i = n + 1 /\ all[i] = new)
    BY <1>1, <1>5
  <2>3. \A i \in 1 .. n + 1 :
          /\ all[i].gen <= a.gen[v]
          /\ all[i].state = "running" => i = n + 1 /\ all[i].gen = a.gen[v]
    <3> SUFFICES ASSUME NEW i \in 1 .. n + 1
                 PROVE  /\ all[i].gen <= a.gen[v]
                        /\ all[i].state = "running" => i = n + 1 /\ all[i].gen = a.gen[v]
      OBVIOUS
    <3>1. CASE i \in 1 .. n /\ all[i] = a.renders[i]
      BY <1>1, <2>1, <3>1, SMTT(40)
    <3>2. CASE i = n + 1 /\ all[i] = new
      BY <1>1, <1>3, <3>2
    <3> QED
      BY <2>2, <3>1, <3>2
  <2>4. \A i, j \in 1 .. n + 1 : all[i].gen = all[j].gen => i = j
    <3>1. \A i, j \in 1 .. n : a.renders[i].gen = a.renders[j].gen => i = j
      BY DEF AppOK, RendersOK
    <3>2. \A i \in 1 .. n : a.renders[i].gen # a.gen[v]
      BY <1>1, <2>1
    <3> QED
      BY <1>3, <2>2, <3>1, <3>2
  <2>5. b.card["visualize"] = c
    BY <1>1, <1>9 DEF v
  <2> QED
    BY <1>1, <1>2, <1>4, <1>5, <1>6, <2>3, <2>4, <2>5, SMTT(40) DEF RendersOK, v
<1>13. Follows(a, b)
  BY <1>1, <1>5, <1>6 DEF Follows
<1> QED
  BY <1>8, <1>10, <1>11, <1>12, <1>13 DEF AppOK, b, c, all, new, v

\* on_explain and on_visualize.
LEMMA DeltaIsOK ==
    ASSUME NEW a, AppOK(a), NEW l \in Lanes, NEW g \in Nat, NEW says \in Says,
           DeltaOK(a, [what |-> "delta", lane |-> l, gen |-> g, says |-> says])
    PROVE  AppOK(OnDelta(a, l, g, says)) /\ Follows(a, OnDelta(a, l, g, says))
<1> DEFINE card == a.card[l]
           told == [a EXCEPT !.card[l] = Told(card, l, g, says)]
           b == OnDelta(a, l, g, says)
<1>1. /\ a \in AppRecord /\ a.card \in [Lanes -> Card] /\ card \in Card /\ Len(a.streams) \in Nat
      /\ Len(a.renders) \in Nat /\ \A m \in Lanes : a.gen[m] \in Nat
  BY AppFields DEF AppOK
<1>2. Follows(a, a)
  BY <1>1 DEF Follows
<1>3. CASE ~Current(a, l, g)
  BY <1>2, <1>3 DEF OnDelta
<1>4. ASSUME Current(a, l, g) PROVE AppOK(b) /\ Follows(a, b)
  <2>1. g = a.gen[l] /\ card.gen = g /\ card.says \subseteq {g}
    BY <1>4 DEF Current, AppOK, CardsOK
  <2>2. b = Renders(IF says = "text" THEN told ELSE Finished(told, l, g))
    BY <1>4 DEF OnDelta
  <2>3. \A c : c.render = a.render /\ c.card["visualize"].phase = a.card["visualize"].phase
                 => Renders(c) = c
    BY DEF Renders, AppOK, RendersOK
  <2>4. says # "text" => \A k \in 1 .. Len(a.streams) :
          a.streams[k].lane = l /\ a.streams[k].gen = g => a.streams[k].state # "live"
    <3> SUFFICES ASSUME says # "text", NEW k \in 1 .. Len(a.streams), a.streams[k].lane = l,
                        a.streams[k].gen = g
                 PROVE  a.streams[k].state # "live"
      OBVIOUS
    <3>1. PICK j \in 1 .. Len(a.streams) :
            a.streams[j].lane = l /\ a.streams[j].gen = g /\ a.streams[j].state # "live"
      BY DEF DeltaOK
    <3>2. j = k
      <4>1. ~(j < k) /\ ~(k < j)
        BY <3>1 DEF AppOK, StreamsOK
      <4> QED
        BY <1>1, <4>1
    <3> QED
      BY <3>1, <3>2
  \* A card that is not asking keeps what it shows.
  <2>5. CASE card.phase # "asking"
    <3>1. told = a
      <4>1. Told(card, l, g, says) = card
        BY <2>5 DEF Told
      <4> QED
        BY <1>1, <4>1 DEF AppRecord
    <3>2. CASE says = "text"
      <4>1. b = a
        BY <2>2, <2>3, <3>1, <3>2
      <4> QED
        BY <1>2, <4>1
    <3>3. CASE says # "text"
      <4> DEFINE f == Finished(a, l, g)
      <4>1. AppOK(f) /\ Follows(a, f) /\ SameCards(a, f) /\ f.render = a.render
        BY <2>1, <2>4, <3>3, FinishedOK
      <4>2. Renders(f) = f
        BY <2>3, <4>1 DEF SameCards
      <4> QED
        BY <2>2, <3>1, <3>3, <4>1, <4>2
    <3> QED
      BY <3>2, <3>3
  \* Text, or an end that makes no scene.
  <2>6. CASE card.phase = "asking" /\ ~(says = "done" /\ l = "visualize")
    <3> DEFINE c == Told(card, l, g, says)
    <3>1. c \in Card /\ c.gen = g /\ c.phase \notin {"none", "rendering"} /\ c.says \subseteq {g}
          /\ (l = "visualize" => c.phase # "rendering")
      <4>1. c \in {[card EXCEPT !.says = card.says \cup {g}], [card EXCEPT !.phase = "done"],
                   [card EXCEPT !.phase = "failed"]}
        BY <2>6 DEF Told, Lanes, Says
      <4>2. card.says \cup {g} \in SUBSET Nat
        BY <1>1 DEF Card
      <4> QED
        BY <1>1, <2>1, <2>6, <4>1, <4>2 DEF Card, Phases
    <3>2. told = [a EXCEPT !.card[l] = c]
      OBVIOUS
    <3> HIDE DEF c, told
    <3>3. AppOK(told) /\ Follows(a, told) /\ told \in AppRecord
      BY <2>1, <2>6, <3>1, <3>2, AskingMoves DEF AppOK
    <3>4. /\ told.card[l] = c /\ \A m \in Lanes : m # l => told.card[m] = a.card[m]
          /\ told.gen = a.gen /\ told.streams = a.streams /\ told.render = a.render
      BY <1>1, <3>1, <3>2, CardChange
    <3>5. a.render # 0 \/ told.card["visualize"].phase # "rendering"
      <4>1. CASE l = "visualize"
        BY <3>1, <3>4, <4>1
      <4>2. CASE l # "visualize"
        BY <3>4, <4>2 DEF Lanes, AppOK, RendersOK
      <4> QED
        BY <4>1, <4>2
    <3>6. CASE says = "text"
      <4>1. b = told
        BY <2>2, <3>4, <3>5, <3>6 DEF Renders
      <4> QED
        BY <3>3, <4>1
    <3>7. CASE says # "text"
      <4> DEFINE f == Finished(told, l, g)
      <4>1. AppOK(f) /\ Follows(told, f) /\ SameCards(told, f) /\ f.render = told.render
        BY <2>1, <2>4, <3>3, <3>4, <3>7, FinishedOK
      <4>2. Renders(f) = f
        BY <3>4, <3>5, <4>1 DEF Renders, SameCards
      <4>3. b = f
        BY <2>2, <3>7, <4>2
      <4>4. Follows(a, f)
        BY <1>1, <3>3, <4>1, FollowsTrans DEF AppOK
      <4> QED
        BY <4>1, <4>3, <4>4
    <3> QED
      BY <3>6, <3>7
  \* The script of a scene.
  <2>7. CASE card.phase = "asking" /\ says = "done" /\ l = "visualize"
    <3> DEFINE f == Finished(a, l, g)
               c == [card EXCEPT !.phase = "rendering"]
               r == [f EXCEPT !.card["visualize"] = [f.card["visualize"] EXCEPT !.phase = "rendering"],
                              !.renders = Append(f.renders, [gen |-> f.gen["visualize"], state |-> "running"]),
                              !.render = Len(f.renders) + 1]
    <3>1. /\ AppOK(f) /\ Follows(a, f) /\ SameCards(a, f)
          /\ f.render = a.render /\ f.renders = a.renders
      BY <2>1, <2>4, <2>7, FinishedOK
    <3>2. f.card["visualize"].phase = "asking" /\ f.card["visualize"] = card
      BY <2>7, <3>1 DEF SameCards
    <3>3. AppOK(r) /\ Follows(f, r)
      BY <3>1, <3>2, RenderStarts
    <3>4. Told(card, l, g, says) = c
      BY <2>7 DEF Told
    <3>5. Finished(told, l, g) = [f EXCEPT !.card[l] = c]
      <4>1. told = [a EXCEPT !.card[l] = c]
        BY <3>4
      <4>2. /\ told.slot = a.slot /\ told.streams = a.streams
        BY <1>1, <4>1 DEF AppRecord
      <4> DEFINE starts == {k \in 1 .. a.slot[l] : a.streams[k].lane = l}
      <4>3. CASE Cardinality(starts) = g
        <5>1. Finished(told, l, g) = [told EXCEPT !.slot[l] = 0] /\ f = [a EXCEPT !.slot[l] = 0]
          BY <4>2, <4>3 DEF Finished
        <5> QED
          BY <1>1, <4>1, <5>1 DEF AppRecord
      <4>4. CASE Cardinality(starts) # g
        <5>1. Finished(told, l, g) = told /\ f = a
          BY <4>2, <4>4 DEF Finished
        <5> QED
          BY <4>1, <5>1
      <4> QED
        BY <4>3, <4>4
    <3>6. Renders([f EXCEPT !.card[l] = c]) = r
      <4> DEFINE s == [f EXCEPT !.card[l] = c]
      <4>1. f \in AppRecord /\ f.card \in [Lanes -> Card]
        BY <3>1, AppFields DEF AppOK
      <4>2. c.phase = "rendering" /\ c = [f.card["visualize"] EXCEPT !.phase = "rendering"]
        BY <1>1, <3>2 DEF Card
      <4>3. f.render = 0
        BY <3>1, <3>2 DEF AppOK, RendersOK
      <4> HIDE DEF f, c
      <4>4. s.card["visualize"].phase = "rendering" /\ s.render = 0 /\ s.renders = f.renders
            /\ s.gen = f.gen
        BY <2>7, <4>1, <4>2, <4>3 DEF AppRecord
      <4>5. Renders(s) = [s EXCEPT !.renders = Append(f.renders, [gen |-> f.gen["visualize"], state |-> "running"]),
                                   !.render = Len(f.renders) + 1]
        BY <4>4 DEF Renders
      <4> QED
        BY <2>7, <4>1, <4>2, <4>5 DEF AppRecord
    <3>7. b = r
      BY <2>2, <2>7, <3>5, <3>6
    <3>8. Follows(a, r)
      BY <1>1, <3>1, <3>3, FollowsTrans DEF AppOK
    <3> QED
      BY <3>3, <3>7, <3>8
  <2> QED
    BY <2>5, <2>6, <2>7
<1> QED
  BY <1>3, <1>4

\* on_visualize_render.
LEMMA VideoIsOK ==
    ASSUME NEW a, AppOK(a), NEW g \in Nat, NEW says \in {"ready", "failed"},
           VideoOK(a, [what |-> "render", lane |-> "visualize", gen |-> g, says |-> says])
    PROVE  AppOK(OnRender(a, g, says)) /\ Follows(a, OnRender(a, g, says))
<1> DEFINE v == "visualize"
           c == [a.card[v] EXCEPT !.phase = says]
           b == [a EXCEPT !.card[v] = c, !.render = 0]
<1>1. /\ a \in AppRecord /\ a.card \in [Lanes -> Card] /\ Len(a.streams) \in Nat
      /\ Len(a.renders) \in Nat /\ \A m \in Lanes : a.gen[m] \in Nat
      /\ v \in Lanes /\ a.card[v] \in Card
      /\ \A k \in 1 .. Len(a.streams) : a.streams[k].lane \in Lanes
  BY AppFields DEF AppOK, Stream
<1>2. Follows(a, a)
  BY <1>1 DEF Follows
<1>3. CASE ~Current(a, v, g) \/ a.card[v].phase # "rendering"
  BY <1>2, <1>3 DEF OnRender
<1>4. CASE Current(a, v, g) /\ a.card[v].phase = "rendering"
  <2>1. OnRender(a, g, says) = b
    BY <1>4 DEF OnRender
  <2>2. c \in Card /\ c.phase = says /\ c.gen = a.card[v].gen /\ c.says = a.card[v].says
    BY <1>1 DEF Card, Phases
  <2> HIDE DEF c
  <2>3. /\ b.card = [a.card EXCEPT ![v] = c] /\ b.gen = a.gen /\ b.open = a.open
        /\ b.lookups = a.lookups /\ b.slot = a.slot /\ b.streams = a.streams
        /\ b.renders = a.renders /\ b.render = 0
    BY <1>1 DEF AppRecord
  <2>4. [a.card EXCEPT ![v] = c] \in [Lanes -> Card]
    BY <1>1, <2>2
  <2>5. b \in AppRecord
    BY <1>1, <2>4 DEF AppRecord
  <2> HIDE DEF b
  <2>6. \A m \in Lanes : b.card[m] = IF m = v THEN c ELSE a.card[m]
    BY <1>1, <2>3
  <2>7. CardsOK(b)
    BY <1>1, <1>4, <2>2, <2>3, <2>6 DEF AppOK, CardsOK
  <2>8. StreamsOK(b)
    <3>1. \A m \in Lanes : b.card[m].phase = "none" <=> a.card[m].phase = "none"
      BY <1>4, <2>2, <2>6
    <3> QED
      BY <1>1, <2>3, <3>1 DEF AppOK, StreamsOK
  <2>9. \A i \in 1 .. Len(a.renders) : a.renders[i].state # "running"
    <3> SUFFICES ASSUME NEW i \in 1 .. Len(a.renders), a.renders[i].state = "running" PROVE FALSE
      OBVIOUS
    <3>1. PICK j \in 1 .. Len(a.renders) : a.renders[j].gen = g /\ a.renders[j].state = "ended"
      BY DEF VideoOK
    <3>2. a.renders[i].gen = a.card[v].gen /\ a.card[v].gen = g
      BY <1>4 DEF AppOK, RendersOK, Current
    <3>3. i = j
      BY <3>1, <3>2 DEF AppOK, RendersOK
    <3> QED
      BY <3>1, <3>3
  <2>10. RendersOK(b)
    <3>1. b.card["visualize"].phase = says
      BY <1>1, <2>2, <2>6
    <3>2. b.render <= Len(b.renders) /\ ~(b.render # 0)
      BY <1>1, <2>3
    <3>3. b.card["visualize"].phase # "rendering" /\ b.card["visualize"].phase # "asking"
      BY <3>1
    <3>4. \A i \in 1 .. Len(b.renders) :
            b.renders[i].gen <= b.gen["visualize"] /\ b.renders[i].state # "running"
      BY <2>3, <2>9 DEF AppOK, RendersOK
    <3>5. \A i, j \in 1 .. Len(b.renders) : b.renders[i].gen = b.renders[j].gen => i = j
      BY <2>3 DEF AppOK, RendersOK
    <3> QED
      BY <3>2, <3>3, <3>4, <3>5 DEF RendersOK
  <2>11. Follows(a, b)
    BY <1>1, <2>3 DEF Follows
  <2> QED
    BY <2>1, <2>5, <2>7, <2>8, <2>10, <2>11 DEF AppOK
<1> QED
  BY <1>3, <1>4

LEMMA NothingYet == AppOK(NoApp) /\ QueueOK(NoApp, <<>>)
<1>1. NoCard \in Card /\ NoCard.phase = "none" /\ NoCard.gen = 0 /\ NoCard.says = {}
  BY DEF NoCard, Card, Phases
<1>2. /\ <<>> \in Seq(Stream) /\ <<>> \in Seq(Render) /\ <<>> \in Seq(EventRecord)
      /\ Len(<<>>) = 0
  BY EmptySeq
<1>3. /\ NoApp.card = [l \in Lanes |-> NoCard] /\ NoApp.gen = [l \in Lanes |-> 0]
      /\ NoApp.open = [l \in Lanes |-> TRUE] /\ NoApp.lookups = {}
      /\ NoApp.slot = [l \in Lanes |-> 0] /\ NoApp.streams = <<>>
      /\ NoApp.render = 0 /\ NoApp.renders = <<>>
  BY DEF NoApp
<1>4. NoApp \in AppRecord
  <2>1. /\ [l \in Lanes |-> NoCard] \in [Lanes -> Card] /\ [l \in Lanes |-> 0] \in [Lanes -> Nat]
        /\ [l \in Lanes |-> TRUE] \in [Lanes -> BOOLEAN]
    BY <1>1
  <2> QED
    BY <1>2, <2>1 DEF NoApp, AppRecord
<1>5. CardsOK(NoApp)
  BY <1>1, <1>3 DEF CardsOK
<1>6. StreamsOK(NoApp)
  BY <1>2, <1>3 DEF StreamsOK
<1>7. RendersOK(NoApp)
  BY <1>1, <1>2, <1>3 DEF RendersOK, Lanes
<1>8. LookupsOK(NoApp, <<>>) /\ EventsOK(NoApp, <<>>)
  BY <1>2, <1>3 DEF LookupsOK, EventsOK
<1> QED
  BY <1>2, <1>4, <1>5, <1>6, <1>7, <1>8 DEF AppOK, QueueOK

\* Tabs are opened and closed.
LEMMA TabsMove ==
    ASSUME NEW a, AppOK(a), NEW q, QueueOK(a, q),
           NEW open \in [Lanes -> BOOLEAN], NEW card \in [Lanes -> Card],
           \A l \in Lanes : /\ card[l].phase = a.card[l].phase /\ card[l].gen = a.card[l].gen
                            /\ card[l].says = a.card[l].says
    PROVE  LET b == [a EXCEPT !.open = open, !.card = card] IN AppOK(b) /\ QueueOK(b, q)
<1> DEFINE b == [a EXCEPT !.open = open, !.card = card]
<1>1. a \in AppRecord /\ Len(a.renders) \in Nat /\ \A m \in Lanes : a.gen[m] \in Nat
  BY AppFields DEF AppOK
<1>2. /\ b \in AppRecord /\ b.card = card /\ b.gen = a.gen /\ b.lookups = a.lookups
      /\ b.slot = a.slot /\ b.streams = a.streams /\ b.render = a.render /\ b.renders = a.renders
  BY <1>1 DEF AppRecord
<1> HIDE DEF b
<1>3. AppOK(b)
  BY <1>2, AppDepends
<1>4. Follows(a, b)
  BY <1>1, <1>2 DEF Follows
<1>5. QueueOK(b, q)
  BY <1>1, <1>2, <1>4, QueueFollows
<1> QED
  BY <1>3, <1>5 DEF b

\* The user's steps: asking, retrying, closing a card, and leaving its tab.
LEMMA UserOK ==
    ASSUME ChatOK, NEW l \in Lanes, Asks(l) \/ Retries(l) \/ Closes(l) \/ TogglesTab(l)
    PROVE  ChatOK'
<1>1. /\ app \in AppRecord /\ app.card \in [Lanes -> Card] /\ app.open \in [Lanes -> BOOLEAN]
      /\ app.card[l] \in Card
  BY AppFields DEF ChatOK, AppOK
<1>2. AppOK(app) /\ QueueOK(app, queue)
  BY DEF ChatOK
<1>3. UNCHANGED <<seen, unsent, queue, resume>>
  BY DEF Asks, Retries, Begins, Closes, TogglesTab
<1>4. AppOK(app') /\ QueueOK(app', queue)
  <2>1. CASE Asks(l)
    <3> DEFINE b == [app EXCEPT !.open[l] = TRUE]
               open == [app.open EXCEPT ![l] = TRUE]
               c == [app EXCEPT !.open = open, !.card = app.card]
    <3>1. b = c
      BY <1>1 DEF AppRecord
    <3>2. open \in [Lanes -> BOOLEAN]
      BY <1>1
    <3> HIDE DEF open
    <3>3. AppOK(c) /\ QueueOK(c, queue)
      BY <1>1, <1>2, <3>2, TabsMove
    <3>4. app' = Starts(b, l)
      BY <2>1 DEF Asks, Begins
    <3> HIDE DEF b, c
    <3> QED
      BY <3>1, <3>3, <3>4, StartsOK
  <2>2. CASE Retries(l)
    <3>1. app' = Starts(app, l)
      BY <2>2 DEF Retries, Begins
    <3> QED
      BY <1>2, <3>1, StartsOK
  <2>3. CASE Closes(l)
    <3>1. app' = [StopsWork(app, l) EXCEPT !.gen[l] = @ + 1, !.card[l] = NoCard]
      BY <2>3 DEF Closes
    <3> QED
      BY <1>2, <3>1, CloseOK
  <2>4. CASE TogglesTab(l)
    <3> DEFINE open == [app.open EXCEPT ![l] = ~app.open[l]]
               left == [app.card[l] EXCEPT !.left = TRUE]
               card == [app.card EXCEPT ![l] = left]
    <3>1. open \in [Lanes -> BOOLEAN]
      BY <1>1
    <3>2. /\ left \in Card /\ left.phase = app.card[l].phase /\ left.gen = app.card[l].gen
          /\ left.says = app.card[l].says
      BY <1>1 DEF Card
    <3>3. app' = [app EXCEPT !.open = open, !.card = card]
      BY <1>1, <2>4 DEF TogglesTab, AppRecord
    <3> HIDE DEF open, left
    <3>4. card \in [Lanes -> Card]
      BY <1>1, <3>2
    <3>5. \A m \in Lanes : /\ card[m].phase = app.card[m].phase /\ card[m].gen = app.card[m].gen
                           /\ card[m].says = app.card[m].says
      BY <1>1, <3>2
    <3> HIDE DEF card
    <3> QED
      BY <1>2, <3>1, <3>3, <3>4, <3>5, TabsMove
  <2> QED
    BY <2>1, <2>2, <2>3, <2>4
<1> QED
  BY <1>3, <1>4 DEF ChatOK

\* A lookup's end is sent in its place.
LEMMA LookupSent ==
    ASSUME NEW a, AppOK(a), NEW q, QueueOK(a, q), NEW l \in Lanes, NEW g, <<l, g>> \in a.lookups
    PROVE  LET b == [a EXCEPT !.lookups = a.lookups \ {<<l, g>>}]
           IN  AppOK(b) /\ QueueOK(b, Append(q, Event("ready", l, g, "")))
<1> DEFINE b == [a EXCEPT !.lookups = a.lookups \ {<<l, g>>}]
           e == Event("ready", l, g, "")
           r == Append(q, e)
           n == Len(q)
<1>1. /\ a \in AppRecord /\ a.lookups \in SUBSET (Lanes \X Nat) /\ \A m \in Lanes : a.gen[m] \in Nat
  BY AppFields DEF AppOK
<1>2. g \in Nat
  BY <1>1
<1>3. /\ b \in AppRecord /\ b.card = a.card /\ b.gen = a.gen /\ b.slot = a.slot
      /\ b.streams = a.streams /\ b.render = a.render /\ b.renders = a.renders
      /\ b.lookups = a.lookups \ {<<l, g>>}
  <2>1. a.lookups \ {<<l, g>>} \in SUBSET (Lanes \X Nat)
    BY <1>1
  <2> QED
    BY <1>1, <2>1 DEF AppRecord
<1> HIDE DEF b
<1>4. AppOK(b)
  BY <1>3, AppDepends
<1>5. /\ e \in EventRecord /\ e.what = "ready" /\ e.lane = l /\ e.gen = g
  BY <1>2 DEF Event, EventRecord
<1> HIDE DEF e
<1>6. /\ r \in Seq(EventRecord) /\ Len(r) = n + 1 /\ n \in Nat /\ r[n + 1] = e
      /\ \A i \in 1 .. n : r[i] = q[i]
  BY <1>5, AppendProperties, LenProperties DEF QueueOK
<1> HIDE DEF r
<1>7. \A i \in 1 .. n + 1 : (i = n + 1 /\ r[i] = e) \/ (i \in 1 .. n /\ r[i] = q[i])
  BY <1>6
<1>8. /\ g \in 1 .. a.gen[l] /\ Unasked(a, l, g)
      /\ \A i \in 1 .. n : ~(q[i].what = "ready" /\ q[i].lane = l /\ q[i].gen = g)
  BY <1>2 DEF QueueOK, LookupsOK
<1>9. \A m \in Lanes, h \in Nat : Unasked(b, m, h) <=> Unasked(a, m, h)
  BY <1>3 DEF Unasked
<1>10. LookupsOK(b, r)
  <2>1. ASSUME NEW m \in Lanes, NEW h \in Nat, <<m, h>> \in b.lookups
        PROVE  /\ h \in 1 .. b.gen[m] /\ Unasked(b, m, h)
               /\ \A i \in 1 .. Len(r) : ~(r[i].what = "ready" /\ r[i].lane = m /\ r[i].gen = h)
    <3>1. <<m, h>> \in a.lookups /\ ~(m = l /\ h = g)
      BY <1>3, <2>1
    <3>2. /\ h \in 1 .. a.gen[m] /\ Unasked(a, m, h)
          /\ \A i \in 1 .. n : ~(q[i].what = "ready" /\ q[i].lane = m /\ q[i].gen = h)
      BY <3>1 DEF QueueOK, LookupsOK
    <3>3. \A i \in 1 .. Len(r) : ~(r[i].what = "ready" /\ r[i].lane = m /\ r[i].gen = h)
      BY <1>5, <1>6, <1>7, <3>1, <3>2
    <3> QED
      BY <1>3, <1>9, <3>2, <3>3
  <2>2. ASSUME NEW i \in 1 .. Len(r), r[i].what = "ready"
        PROVE  r[i].gen \in 1 .. b.gen[r[i].lane] /\ Unasked(b, r[i].lane, r[i].gen)
    <3>1. CASE r[i] = e
      BY <1>2, <1>3, <1>5, <1>8, <1>9, <3>1
    <3>2. CASE i \in 1 .. n /\ r[i] = q[i]
      <4>1. q[i].gen \in 1 .. a.gen[q[i].lane] /\ Unasked(a, q[i].lane, q[i].gen)
        BY <2>2, <3>2 DEF QueueOK, LookupsOK
      <4>2. Unasked(b, q[i].lane, q[i].gen)
        BY <1>3, <4>1 DEF Unasked
      <4> QED
        BY <1>3, <3>2, <4>1, <4>2
    <3> QED
      BY <1>6, <1>7, <3>1, <3>2
  <2>3. ASSUME NEW i \in 1 .. Len(r), NEW j \in 1 .. Len(r),
               r[i].what = "ready", r[j].what = "ready", r[i].lane = r[j].lane, r[i].gen = r[j].gen
        PROVE  i = j
    <3>1. CASE i = n + 1 /\ r[i] = e
      BY <1>5, <1>6, <1>7, <1>8, <2>3, <3>1
    <3>2. CASE j = n + 1 /\ r[j] = e
      BY <1>5, <1>6, <1>7, <1>8, <2>3, <3>2
    <3>3. CASE (i \in 1 .. n /\ r[i] = q[i]) /\ (j \in 1 .. n /\ r[j] = q[j])
      BY <2>3, <3>3 DEF QueueOK, LookupsOK
    <3> QED
      BY <1>6, <1>7, <3>1, <3>2, <3>3
  <2> QED
    BY <2>1, <2>2, <2>3 DEF LookupsOK
<1>11. EventsOK(b, r)
  <2>1. \A i \in 1 .. n : DeltaOK(b, q[i]) /\ VideoOK(b, q[i])
    BY <1>3 DEF QueueOK, EventsOK, DeltaOK, VideoOK
  <2>2. DeltaOK(b, e) /\ VideoOK(b, e)
    BY <1>5 DEF DeltaOK, VideoOK
  <2> QED
    BY <1>6, <1>7, <2>1, <2>2 DEF EventsOK
<1> QED
  BY <1>4, <1>6, <1>10, <1>11 DEF QueueOK, b, r, e

\* A step of a request, which keeps its lane and its card.
LEMMA RequestMoves ==
    ASSUME ChatOK, NEW k \in DOMAIN app.streams, NEW stream \in Stream,
           stream.lane = app.streams[k].lane, stream.gen = app.streams[k].gen,
           stream.state = "live" => app.streams[k].state = "live"
                /\ \A i \in 1 .. Len(stream.sink) : stream.sink[i] = "text",
           app' = [app EXCEPT !.streams[k] = stream]
    PROVE  AppOK(app') /\ QueueOK(app', queue) /\ Follows(app, app')
<1>1. AppOK(app) /\ QueueOK(app, queue) /\ app \in AppRecord
  BY DEF ChatOK, AppOK
<1>2. k \in 1 .. Len(app.streams)
  BY <1>1, AppFields
<1>3. AppOK(app') /\ Follows(app, app')
  BY <1>1, <1>2, StreamMoves
<1> QED
  BY <1>1, <1>3, QueueFollows DEF AppOK

LEMMA RequestFields ==
    ASSUME ChatOK, NEW k \in DOMAIN app.streams
    PROVE  /\ app.streams[k] \in Stream /\ app.streams[k].sink \in Seq(Says)
           /\ k \in 1 .. Len(app.streams)
           /\ app.streams[k].state = "live" =>
                \A i \in 1 .. Len(app.streams[k].sink) : app.streams[k].sink[i] = "text"
<1>1. app \in AppRecord
  BY DEF ChatOK, AppOK
<1>2. k \in 1 .. Len(app.streams) /\ app.streams[k] \in Stream
  BY <1>1, AppFields
<1> QED
  BY <1>2 DEF Stream, ChatOK, AppOK, StreamsOK

\* A request's end, as one change of its record.
LEMMA EndingIs ==
    ASSUME NEW a \in AppRecord, NEW k \in DOMAIN a.streams, NEW says
    PROVE  [a EXCEPT !.streams[k].state = "ended", !.streams[k].sink = Append(@, says)]
           = [a EXCEPT !.streams[k] =
                [a.streams[k] EXCEPT !.state = "ended", !.sink = Append(a.streams[k].sink, says)]]
<1> DEFINE s == [a.streams[k] EXCEPT !.state = "ended"]
           t == [a.streams[k] EXCEPT !.state = "ended", !.sink = Append(a.streams[k].sink, says)]
           x == [a.streams EXCEPT ![k] = s]
           b == [a EXCEPT !.streams[k] = s]
           c == [a EXCEPT !.streams[k].state = "ended", !.streams[k].sink = Append(@, says)]
<1>1. a.streams[k] \in Stream
  BY AppFields
<1>2. s.sink = a.streams[k].sink /\ t = [s EXCEPT !.sink = Append(a.streams[k].sink, says)]
  BY <1>1 DEF Stream
<1>3. b.streams = x /\ x[k] = s
  BY DEF AppRecord
<1>4. c = [b EXCEPT !.streams[k].sink = Append(@, says)]
  OBVIOUS
<1>5. c = [b EXCEPT !.streams = [x EXCEPT ![k] = t]]
  BY <1>2, <1>3, <1>4
<1>6. [x EXCEPT ![k] = t] = [a.streams EXCEPT ![k] = t]
  OBVIOUS
<1>7. c = [a EXCEPT !.streams = [a.streams EXCEPT ![k] = t]]
  <2> HIDE DEF t, x, c
  <2> QED
    BY <1>5, <1>6 DEF AppRecord
<1> QED
  BY <1>7

\* run, and the task that it leaves behind when it is aborted.
LEMMA RequestOK ==
    ASSUME ChatOK, NEW k \in DOMAIN app.streams, StreamSays(k) \/ StreamEnds(k) \/ Straggles(k)
    PROVE  ChatOK'
<1> DEFINE s == app.streams[k]
           telling == [s EXCEPT !.said = TRUE, !.sink = <<"text">>]
           ending(says) == [s EXCEPT !.state = "ended", !.sink = Append(s.sink, says)]
<1>1. s \in Stream /\ s.sink \in Seq(Says)
  BY RequestFields
<1>2. AppOK(app') /\ QueueOK(app', queue)
  <2>1. CASE StreamSays(k)
    <3>1. s.state = "live" /\ app' = [app EXCEPT !.streams[k] = telling]
      BY <2>1 DEF StreamSays
    <3>2. /\ <<"text">> \in Seq(Says) /\ Len(<<"text">>) = 1 /\ <<"text">>[1] = "text"
      <4>1. "text" \in Says
        BY DEF Says
      <4> QED
        BY <4>1
    <3>3. /\ telling \in Stream /\ telling.lane = s.lane /\ telling.gen = s.gen
          /\ telling.sink = <<"text">>
      BY <1>1, <3>2 DEF Stream
    <3>4. \A i \in 1 .. Len(telling.sink) : telling.sink[i] = "text"
      BY <3>2, <3>3
    <3> HIDE DEF telling
    <3> QED
      BY <3>1, <3>3, <3>4, RequestMoves
  <2>2. CASE StreamEnds(k) \/ Straggles(k)
    <3>0. app \in AppRecord
      BY DEF ChatOK, AppOK
    <3>1. PICK says \in Says : app' = [app EXCEPT !.streams[k] = ending(says)]
      <4>1. CASE StreamEnds(k)
        <5>1. PICK says \in {"done", "failed"} :
                 app' = [app EXCEPT !.streams[k].state = "ended", !.streams[k].sink = Append(@, says)]
          BY <4>1 DEF StreamEnds
        <5>4. [app EXCEPT !.streams[k].state = "ended", !.streams[k].sink = Append(@, says)]
              = [app EXCEPT !.streams[k] =
                   [app.streams[k] EXCEPT !.state = "ended", !.sink = Append(app.streams[k].sink, says)]]
          BY <3>0, EndingIs, ZenonT(60)
        <5>2. app' = [app EXCEPT !.streams[k] = ending(says)]
          BY <5>1, <5>4 DEF s, ending
        <5>3. says \in Says
          BY DEF Says
        <5> QED
          BY <5>2, <5>3
      <4>2. CASE Straggles(k)
        <5>1. PICK says \in {"text", "done", "failed"} :
                 app' = [app EXCEPT !.streams[k].state = "ended", !.streams[k].sink = Append(@, says)]
          BY <4>2 DEF Straggles
        <5>4. [app EXCEPT !.streams[k].state = "ended", !.streams[k].sink = Append(@, says)]
              = [app EXCEPT !.streams[k] =
                   [app.streams[k] EXCEPT !.state = "ended", !.sink = Append(app.streams[k].sink, says)]]
          BY <3>0, EndingIs, ZenonT(60)
        <5>2. app' = [app EXCEPT !.streams[k] = ending(says)]
          BY <5>1, <5>4 DEF s, ending
        <5>3. says \in Says
          BY DEF Says
        <5> QED
          BY <5>2, <5>3
      <4> QED
        BY <2>2, <4>1, <4>2
    <3>2. Append(s.sink, says) \in Seq(Says)
      BY <1>1, AppendProperties
    <3>3. /\ ending(says) \in Stream /\ ending(says).lane = s.lane /\ ending(says).gen = s.gen
          /\ ending(says).state = "ended"
      BY <1>1, <3>2 DEF Stream
    <3> HIDE DEF ending
    <3> QED
      BY <3>1, <3>3, RequestMoves
  <2> QED
    BY <2>1, <2>2
<1>3. UNCHANGED <<seen, unsent, queue, resume>>
  BY DEF StreamSays, StreamEnds, Straggles, OnlyApp
<1> QED
  BY <1>2, <1>3 DEF ChatOK

\* What a request said is forwarded.  An end was said by a request that streams no more.
LEMMA ForwardOK ==
    ASSUME ChatOK, NEW k \in DOMAIN app.streams, Forwards(k)
    PROVE  ChatOK'
<1> DEFINE s == app.streams[k]
           rest == [s EXCEPT !.sink = Tail(s.sink)]
           e == Event("delta", s.lane, s.gen, Head(s.sink))
<1>1. s \in Stream /\ s.sink \in Seq(Says) /\ k \in 1 .. Len(app.streams)
      /\ (s.state = "live" => \A i \in 1 .. Len(s.sink) : s.sink[i] = "text")
  BY RequestFields
<1>2. s.sink # <<>> /\ app' = [app EXCEPT !.streams[k] = rest] /\ queue' = Append(queue, e)
      /\ UNCHANGED <<seen, unsent, resume>>
  BY DEF Forwards, Sends, OnlyApp
<1>3. /\ Tail(s.sink) \in Seq(Says) /\ Head(s.sink) \in Says /\ Len(s.sink) \in Nat /\ Len(s.sink) > 0
      /\ Len(Tail(s.sink)) = Len(s.sink) - 1
      /\ \A i \in 1 .. Len(Tail(s.sink)) : Tail(s.sink)[i] = s.sink[i + 1]
      /\ Head(s.sink) = s.sink[1]
  BY <1>1, <1>2, EmptySeq, LenProperties, HeadTailProperties
<1>4. /\ rest \in Stream /\ rest.lane = s.lane /\ rest.gen = s.gen /\ rest.state = s.state
      /\ rest.sink = Tail(s.sink)
  BY <1>1, <1>3 DEF Stream
<1>5. s.state = "live" => \A i \in 1 .. Len(rest.sink) : rest.sink[i] = "text"
  <2> SUFFICES ASSUME s.state = "live", NEW i \in 1 .. Len(Tail(s.sink)) PROVE Tail(s.sink)[i] = "text"
    BY <1>4
  <2>1. i + 1 \in 1 .. Len(s.sink)
    BY <1>3
  <2> QED
    BY <1>1, <1>3, <2>1
<1>6. s.state = "live" => Head(s.sink) = "text"
  <2>1. 1 \in 1 .. Len(s.sink)
    BY <1>3
  <2> QED
    BY <1>1, <1>3, <2>1
<1>7. /\ e \in EventRecord /\ e.what = "delta" /\ e.lane = s.lane /\ e.gen = s.gen
      /\ e.says = Head(s.sink)
  BY <1>1, <1>3 DEF Event, EventRecord, Stream
<1>8. DeltaOK(app, e) /\ VideoOK(app, e)
  BY <1>1, <1>6, <1>7 DEF DeltaOK, VideoOK
<1> HIDE DEF rest, e
<1>9. AppOK(app') /\ Follows(app, app')
  BY <1>2, <1>4, <1>5, RequestMoves
<1>10. app \in AppRecord /\ app' \in AppRecord /\ QueueOK(app, queue)
  BY <1>9 DEF ChatOK, AppOK
<1>11. QueueOK(app, queue')
  BY <1>2, <1>7, <1>8, <1>10, AppendOK
<1>12. QueueOK(app', queue')
  BY <1>9, <1>10, <1>11, QueueFollows
<1> QED
  BY <1>2, <1>9, <1>12 DEF ChatOK

\* A render that ends, with its card or after it.
LEMMA RenderEndOK ==
    ASSUME ChatOK, NEW i \in DOMAIN app.renders, RenderEnds(i)
    PROVE  ChatOK'
<1> DEFINE r == [app.renders[i] EXCEPT !.state = "ended"]
           all == [app.renders EXCEPT ![i] = r]
           n == Len(app.renders)
           b == [app EXCEPT !.renders = all]
<1>1. /\ app \in AppRecord /\ AppOK(app) /\ QueueOK(app, queue)
      /\ app.renders \in Seq(Render) /\ i \in 1 .. n /\ n \in Nat /\ app.renders[i] \in Render
      /\ Len(app.streams) \in Nat /\ \A m \in Lanes : app.gen[m] \in Nat
      /\ \A j \in 1 .. n : app.renders[j] \in Render
  BY AppFields DEF ChatOK, AppOK
<1>2. r \in Render /\ r.gen = app.renders[i].gen /\ r.state = "ended" /\ r.gen \in Nat
  BY <1>1 DEF Render
<1> HIDE DEF r
<1>3. /\ all \in Seq(Render) /\ Len(all) = n
      /\ \A j \in 1 .. n : all[j] = IF j = i THEN r ELSE app.renders[j]
  BY <1>1, <1>2, ExceptSeq
<1>4. app' = b
  BY <1>1 DEF RenderEnds, AppRecord, r
<1> HIDE DEF all
<1>5. /\ b \in AppRecord /\ b.card = app.card /\ b.gen = app.gen /\ b.slot = app.slot
      /\ b.streams = app.streams /\ b.render = app.render /\ b.renders = all
      /\ b.lookups = app.lookups
  BY <1>1, <1>3 DEF AppRecord
<1> HIDE DEF b
<1>6. \A j \in 1 .. n : /\ all[j].gen = app.renders[j].gen
                        /\ all[j].state = "running" => app.renders[j].state = "running"
                        /\ app.renders[j].state = "ended" => all[j].state = "ended"
  BY <1>2, <1>3
<1>7. CardsOK(b)
  BY <1>1, <1>5 DEF AppOK, CardsOK
<1>8. StreamsOK(b)
  BY <1>1, <1>5 DEF AppOK, StreamsOK
<1>9. RendersOK(b)
  <2>1. b.render <= Len(b.renders) /\ (b.render # 0 <=> b.card["visualize"].phase = "rendering")
    BY <1>1, <1>3, <1>5 DEF AppOK, RendersOK
  <2>2. \A j \in 1 .. Len(b.renders) :
          /\ b.renders[j].gen <= b.gen["visualize"]
          /\ b.renders[j].gen = b.gen["visualize"] => b.card["visualize"].phase # "asking"
          /\ b.renders[j].state = "running" =>
               b.render = j /\ b.card["visualize"].gen = b.renders[j].gen
    BY <1>1, <1>3, <1>5, <1>6 DEF AppOK, RendersOK
  <2>3. \A j, k \in 1 .. Len(b.renders) : b.renders[j].gen = b.renders[k].gen => j = k
    BY <1>1, <1>3, <1>5, <1>6 DEF AppOK, RendersOK
  <2> QED
    BY <2>1, <2>2, <2>3 DEF RendersOK
<1>10. AppOK(b)
  BY <1>5, <1>7, <1>8, <1>9 DEF AppOK
<1>11. Follows(app, b)
  BY <1>1, <1>3, <1>5, <1>6 DEF Follows
<1>12. QueueOK(b, queue)
  BY <1>1, <1>5, <1>11, QueueFollows
<1>13. PICK says \in {"ready", "failed"} :
          queue' = Append(queue, Event("render", "visualize", app.renders[i].gen, says))
  BY DEF RenderEnds, Sends
<1> DEFINE e == Event("render", "visualize", app.renders[i].gen, says)
<1>14. e \in EventRecord /\ e.what = "render" /\ e.gen = app.renders[i].gen
  BY <1>2 DEF Event, EventRecord
<1>15. DeltaOK(b, e) /\ VideoOK(b, e)
  <2>1. b.renders[i].gen = e.gen /\ b.renders[i].state = "ended" /\ i \in 1 .. Len(b.renders)
    BY <1>1, <1>2, <1>3, <1>5, <1>14
  <2> QED
    BY <1>14, <2>1 DEF DeltaOK, VideoOK
<1> HIDE DEF e
<1>16. QueueOK(b, Append(queue, e))
  BY <1>5, <1>12, <1>14, <1>15, AppendOK
<1>17. UNCHANGED <<seen, unsent, resume>>
  BY DEF RenderEnds, OnlyApp
<1> QED
  BY <1>4, <1>10, <1>13, <1>16, <1>17 DEF ChatOK, e

\* What runs for the cards.
LEMMA RunOK ==
    ASSUME IInv, ChatOK, Runs \/ \E k \in DOMAIN app.streams : StreamSays(k) \/ Straggles(k)
    PROVE  ChatOK'
<1>1. CASE \E l \in Lanes, g \in 1 .. app.gen["explain"] + app.gen["visualize"] : LookupEnds(l, g)
  <2>1. PICK l \in Lanes, g \in 1 .. app.gen["explain"] + app.gen["visualize"] : LookupEnds(l, g)
    BY <1>1
  <2>2. /\ <<l, g>> \in app.lookups /\ app' = [app EXCEPT !.lookups = app.lookups \ {<<l, g>>}]
        /\ queue' = Append(queue, Event("ready", l, g, "")) /\ UNCHANGED <<seen, unsent, resume>>
    BY <2>1 DEF LookupEnds, Sends, OnlyApp
  <2> QED
    BY <2>2, LookupSent DEF ChatOK
<1>2. CASE \E k \in DOMAIN app.streams : StreamSays(k) \/ StreamEnds(k) \/ Straggles(k)
  BY <1>2, RequestOK
<1>3. CASE \E k \in DOMAIN app.streams : Forwards(k)
  BY <1>3, ForwardOK
<1>4. CASE \E i \in DOMAIN app.renders : RenderEnds(i)
  BY <1>4, RenderEndOK
<1>5. CASE ForwardsStatus
  <2> DEFINE e == Event("ai", "", 0, status.state)
  <2>1. e \in EventRecord /\ e.what = "ai"
    BY DEF Event, EventRecord, States, IInv, Types, StatusRecord
  <2>2. DeltaOK(app, e) /\ VideoOK(app, e)
    BY <2>1 DEF DeltaOK, VideoOK
  <2>3. /\ unsent' = FALSE /\ queue' = Append(queue, e) /\ UNCHANGED <<seen, resume, app>>
    BY <1>5 DEF ForwardsStatus, Sends
  <2> HIDE DEF e
  <2>4. QueueOK(app, queue')
    BY <2>1, <2>2, <2>3, AppendOK DEF ChatOK, AppOK
  <2> QED
    BY <2>3, <2>4 DEF ChatOK
<1> QED
  BY <1>1, <1>2, <1>3, <1>4, <1>5 DEF Runs

\* apply_app_event: every event, however late, leaves the cards in order.
LEMMA PumpOK ==
    ASSUME ChatOK, Pump
    PROVE  ChatOK'
<1> DEFINE e == Head(queue)
           r == Tail(queue)
<1>1. /\ AppOK(app) /\ app \in AppRecord /\ QueueOK(app, queue) /\ queue # <<>>
      /\ queue' = r /\ app' = Applies(e)
      /\ seen' = (IF e.what = "ai" THEN e.says ELSE seen)
      /\ resume' = (resume \/ e.what = "ai") /\ unsent' = unsent
  BY DEF ChatOK, AppOK, Pump
<1>2. /\ QueueOK(app, r) /\ e \in EventRecord /\ e = queue[1] /\ 1 \in 1 .. Len(queue)
  BY <1>1, TailOK
<1>3. DeltaOK(app, e) /\ VideoOK(app, e)
  BY <1>1, <1>2 DEF QueueOK, EventsOK
<1>4. AppOK(app') /\ QueueOK(app', r)
  <2>1. CASE e.what = "ready"
    <3>1. app' = OnReady(app, e.lane, e.gen)
      BY <1>1, <2>1 DEF Applies
    <3> QED
      BY <1>1, <2>1, <3>1, ReadyOK
  <2>2. CASE e.what = "delta"
    <3>1. e \in [what : {"delta"}, lane : Lanes, gen : Nat, says : Says]
      BY <1>2, <2>2 DEF EventRecord
    <3>2. /\ e = [what |-> "delta", lane |-> e.lane, gen |-> e.gen, says |-> e.says]
          /\ e.lane \in Lanes /\ e.gen \in Nat /\ e.says \in Says
      BY <3>1
    <3>3. app' = OnDelta(app, e.lane, e.gen, e.says)
      BY <1>1, <2>2 DEF Applies
    <3> HIDE DEF e, r
    <3>4. AppOK(app') /\ Follows(app, app')
      BY <1>1, <1>3, <3>2, <3>3, DeltaIsOK
    <3> QED
      BY <1>1, <1>2, <3>4, QueueFollows DEF AppOK
  <2>3. CASE e.what = "render"
    <3>1. e \in [what : {"render"}, lane : {"visualize"}, gen : Nat, says : {"ready", "failed"}]
      BY <1>2, <2>3 DEF EventRecord
    <3>2. /\ e = [what |-> "render", lane |-> "visualize", gen |-> e.gen, says |-> e.says]
          /\ e.gen \in Nat /\ e.says \in {"ready", "failed"}
      BY <3>1
    <3>3. app' = OnRender(app, e.gen, e.says)
      BY <1>1, <2>3 DEF Applies
    <3> HIDE DEF e, r
    <3>4. AppOK(app') /\ Follows(app, app')
      BY <1>1, <1>3, <3>2, <3>3, VideoIsOK
    <3> QED
      BY <1>1, <1>2, <3>4, QueueFollows DEF AppOK
  <2>4. CASE e.what = "ai"
    <3>1. app' = app
      BY <1>1, <2>4 DEF Applies
    <3> QED
      BY <1>1, <1>2, <3>1
  <2> QED
    BY <1>2, <2>1, <2>2, <2>3, <2>4 DEF EventRecord
<1>5. seen' \in States
  BY <1>1, <1>2 DEF EventRecord, ChatOK
<1>6. resume' \in BOOLEAN /\ unsent' \in BOOLEAN
  BY <1>1 DEF ChatOK
<1> HIDE DEF e, r
<1> QED
  BY <1>1, <1>4, <1>5, <1>6 DEF ChatOK

LEMMA ChatStep ==
    ASSUME IInv, ChatOK, ChatNext
    PROVE  ChatOK'
<1>1. CASE Backend((\E t \in Tasks : TaskSteps(t)) \/ (Environment /\ jade'.state # "gone"))
  <2>1. UNCHANGED <<seen, queue, resume, app>> /\ Publishes
    BY <1>1 DEF Backend
  <2>2. unsent' \in BOOLEAN
    BY <2>1 DEF Publishes
  <2> QED
    BY <2>1, <2>2 DEF ChatOK
<1>2. CASE Ends
  <2>1. seen' = "disabled" /\ unsent' = FALSE /\ queue' = <<>> /\ resume' = FALSE /\ app' = NoApp
    BY <1>2 DEF Ends
  <2> QED
    BY <2>1, NothingYet DEF ChatOK, States
<1>3. CASE User
  BY <1>3, UserOK DEF User
<1>4. CASE Runs \/ \E k \in DOMAIN app.streams : StreamSays(k) \/ Straggles(k)
  BY <1>4, RunOK
<1>5. CASE Drains
  <2>1. CASE AfterEvents
    <3>1. /\ resume' = FALSE /\ UNCHANGED <<seen, unsent, queue>>
          /\ app' = app \/ app' = Starts(app, "explain")
      BY <2>1 DEF AfterEvents
    <3>2. "explain" \in Lanes
      BY DEF Lanes
    <3>3. AppOK(app') /\ QueueOK(app', queue)
      BY <3>1, <3>2, StartsOK DEF ChatOK
    <3> QED
      BY <3>1, <3>3 DEF ChatOK
  <2> QED
    BY <1>5, <2>1, PumpOK DEF Drains
<1> QED
  BY <1>1, <1>2, <1>3, <1>4, <1>5 DEF ChatNext

\* A card starts the server as a click does.
LEMMA CardsBegin ==
    ASSUME IInv, jade.state = "up", HasSlot /\ tasks' = Spawns(tasks, Task("start")),
           UNCHANGED <<user, lock, life, stopped, pids, status, world>>
    PROVE  Begun
<1>1. Task("start") \in Fresh
  BY TaskRecords, Points DEF Fresh
<1>2. enabled' \in BOOLEAN
  BY DEF IInv, Types, user
<1> QED
  BY <1>1, <1>2 DEF Begun, OnlyTasks, user

LEMMA BackendStep ==
    ASSUME IInv, ChatNext
    PROVE  IInv'
<1>1. CASE Backend((\E t \in Tasks : TaskSteps(t)) \/ (Environment /\ jade'.state # "gone"))
  BY <1>1, InvStep DEF Backend, Next
<1>2. CASE Ends
  BY <1>2, InvStep DEF Ends, Next, Environment
<1>3. CASE User
  <2>1. PICK l \in Lanes : Asks(l) \/ Retries(l) \/ Closes(l) \/ TogglesTab(l)
    BY <1>3 DEF User
  <2>2. CASE Closes(l) \/ TogglesTab(l)
    BY <2>2, InvStutters DEF Closes, TogglesTab
  <2>3. CASE Asks(l) \/ Retries(l)
    <3>1. /\ jade.state = "up" /\ UNCHANGED <<user, lock, life, stopped, pids, status, world>>
          /\ UNCHANGED tasks \/ (HasSlot /\ tasks' = Spawns(tasks, Task("start")))
      BY <2>3 DEF Asks, Retries, Acts, Begins
    <3> QED
      BY <3>1, CardsBegin, InvStep, InvStutters DEF vars
  <2> QED
    BY <2>1, <2>2, <2>3
<1>4. CASE Runs \/ \E k \in DOMAIN app.streams : StreamSays(k) \/ Straggles(k)
  <2>1. UNCHANGED vars
    BY <1>4 DEF Runs, LookupEnds, StreamSays, StreamEnds, Straggles, Forwards, RenderEnds, OnlyApp,
       ForwardsStatus
  <2> QED
    BY <2>1, InvStutters
<1>5. CASE Drains
  <2>1. CASE AfterEvents
    BY <2>1, InvStutters DEF AfterEvents
  <2>2. CASE Pump
    <3>1. /\ jade.state = "up" /\ UNCHANGED <<user, lock, life, stopped, pids, status, world>>
          /\ UNCHANGED tasks \/ (HasSlot /\ tasks' = Spawns(tasks, Task("start")))
      BY <1>5, <2>2 DEF Drains, Pump
    <3> QED
      BY <3>1, CardsBegin, InvStep, InvStutters DEF vars
  <2> QED
    BY <1>5, <2>1, <2>2 DEF Drains
<1> QED
  BY <1>1, <1>2, <1>3, <1>4, <1>5 DEF ChatNext

LEMMA ChatInvInit ==
    ASSUME ChatInit
    PROVE  ChatInv
<1>1. IInv
  BY InvInit DEF ChatInit
<1>2. ChatOK
  BY NothingYet DEF ChatInit, ChatOK, States
<1> QED
  BY <1>1, <1>2 DEF ChatInv

LEMMA ChatInvStep ==
    ASSUME ChatInv, [ChatNext]_allVars
    PROVE  ChatInv'
<1>1. CASE ChatNext
  BY <1>1, ChatStep, BackendStep DEF ChatInv
<1>2. CASE UNCHANGED allVars
  <2>1. IInv'
    BY <1>2, InvStutters DEF ChatInv, allVars
  <2>2. ChatOK'
    BY <1>2 DEF ChatInv, ChatOK, allVars, chatVars
  <2> QED
    BY <2>1, <2>2 DEF ChatInv
<1> QED
  BY <1>1, <1>2

LEMMA ChatIsSafe ==
    ASSUME ChatInv
    PROVE  ChatsStayWithTheirCards
<1>1. AppOK(app) /\ app \in AppRecord
  BY DEF ChatInv, ChatOK, AppOK
<1>2. DOMAIN app.streams = 1 .. Len(app.streams) /\ DOMAIN app.renders = 1 .. Len(app.renders)
      /\ Len(app.renders) \in Nat
  BY <1>1, AppFields
<1>3. \A l \in Lanes : app.card[l].says \subseteq {app.card[l].gen}
  BY <1>1 DEF AppOK, CardsOK
<1>4. \A k \in DOMAIN app.streams : app.streams[k].state = "live" =>
         /\ app.slot[app.streams[k].lane] = k
         /\ app.card[app.streams[k].lane].phase # "none"
  BY <1>1, <1>2 DEF AppOK, StreamsOK
<1>5. ASSUME NEW i \in DOMAIN app.renders, app.renders[i].state = "running"
      PROVE  /\ app.render = i
             /\ app.card["visualize"].phase = "rendering"
             /\ app.card["visualize"].gen = app.renders[i].gen
  <2>1. app.render = i /\ app.card["visualize"].gen = app.renders[i].gen /\ i # 0
    BY <1>1, <1>2, <1>5 DEF AppOK, RendersOK
  <2> QED
    BY <1>1, <2>1 DEF AppOK, RendersOK
<1> QED
  BY <1>3, <1>4, <1>5 DEF ChatsStayWithTheirCards

\* For any number of cards, answers and runs of Jade: a card shows only what its own
\* request said, and what streams or renders is that of a card which is there
\* (on_explain, on_visualize, on_visualize_render, close_explain, start_visualize).
THEOREM CardsShowTheirOwn == ChatSpec => []ChatsStayWithTheirCards
<1> QED
  BY ChatInvInit, ChatInvStep, ChatIsSafe, PTL DEF ChatSpec

\* The cards start the server as clicks do, and ServersAreHeld keeps holding, with the
\* same exceptions: such a start may clear the PID file of a server that still loads,
\* which is then forgotten (ensure_chat_model, start, clear_pid_file).
THEOREM CardsLeaveServersHeld == ChatSpec => []ServersAreHeld
<1>1. ChatInv => ServersAreHeld
  BY HeldIsSafe DEF ChatInv
<1> QED
  BY <1>1, ChatInvInit, ChatInvStep, PTL DEF ChatSpec

\* The lock's queue names every task in it once, so it is as long as their number.
LEMMA LockIsOK ==
    ASSUME Types, LockIsQueue
    PROVE  LockOK
<1> DEFINE n == Len(lock)
           S == Range(lock)
<1>1. /\ n \in Nat /\ DOMAIN lock = 1 .. n /\ lock \in [1 .. n -> Tasks]
      /\ \A i \in 1 .. n : lock[i] \in Tasks
  BY LenProperties, ElementOfSeq DEF Types
<1>2. S = {lock[i] : i \in 1 .. n}
  BY <1>1 DEF Range
<1>3. lock \in Bijection(1 .. n, S)
  <2>1. lock \in [1 .. n -> S]
    BY <1>1, <1>2
  <2>2. \A i, j \in 1 .. n : lock[i] = lock[j] => i = j
    BY DEF LockIsQueue
  <2>3. \A t \in S : \E i \in 1 .. n : lock[i] = t
    BY <1>2
  <2> QED
    BY <2>1, <2>2, <2>3 DEF Bijection, Injection, IsInjective, Surjection
<1>4. Cardinality(S) = n
  <2>1. ExistsBijection(1 .. n, S)
    BY <1>3 DEF ExistsBijection
  <2> HIDE DEF n, S
  <2> QED
    BY <1>1, <2>1, FS_CountingElements
<1>5. S = {t \in Tasks : tasks[t].pc \in Waiting \cup Holding}
  BY <1>1, <1>2 DEF LockIsQueue, Queued
<1> QED
  BY <1>4, <1>5 DEF LockOK, LockIsQueue

LEMMA TypesAreOK ==
    ASSUME IInv
    PROVE  TypeOK
<1>1. Types /\ LockIsQueue
  BY DEF IInv
<1>2. status.state \in {"disabled", "starting", "ready", "error"}
  BY <1>1 DEF Types, StatusRecord
<1>3. servers \in Seq([state : {"loading", "healthy", "dead"}, model : Models, run : 1 .. bound.launches])
  BY <1>1 DEF Types, ServerRecord
<1> QED
  BY <1>1, <1>2, <1>3, LockIsOK DEF Types, TypeOK

\* The backend's types and its lock, whose queue has every task that waits for it or
\* holds it once, and only its first one holds it, for any number of tasks (start,
\* stop, set_model, poll_ready).
THEOREM BackendTypes == Spec => []TypeOK
<1>1. Init => IInv
  BY InvInit
<1>2. IInv /\ [Next]_vars => IInv'
  BY InvStep, InvStutters
<1>3. IInv => TypeOK
  BY TypesAreOK
<1> QED
  BY <1>1, <1>2, <1>3, PTL DEF Spec

LEMMA ChatTypesAreOK ==
    ASSUME ChatInv
    PROVE  ChatTypeOK
<1>1. AppOK(app) /\ app \in AppRecord
  BY DEF ChatInv, ChatOK, AppOK
<1>2. ASSUME NEW l \in Lanes
      PROVE  /\ app.card[l].phase \in Phases /\ app.card[l].gen \in 0 .. app.gen[l]
             /\ app.slot[l] \in 0 .. Len(app.streams)
  <2>1. app.card[l] \in Card /\ app.gen[l] \in Nat /\ app.slot[l] \in Nat /\ Len(app.streams) \in Nat
    BY <1>1, AppFields
  <2>2. app.card[l].phase \in Phases /\ app.card[l].gen \in Nat
    BY <2>1 DEF Card
  <2>3. app.card[l].gen <= app.gen[l] /\ app.slot[l] <= Len(app.streams)
    BY <1>1 DEF AppOK, CardsOK, StreamsOK
  <2> QED
    BY <2>1, <2>2, <2>3
<1>3. app.render \in 0 .. Len(app.renders)
  <2>1. app.render \in Nat /\ Len(app.renders) \in Nat
    BY <1>1, AppFields
  <2> QED
    BY <1>1, <2>1 DEF AppOK, RendersOK
<1>4. TypeOK /\ seen \in {"disabled", "starting", "ready", "error"} /\ {unsent, resume} \subseteq BOOLEAN
  BY TypesAreOK DEF ChatInv, ChatOK, States
<1> QED
  BY <1>2, <1>3, <1>4 DEF ChatTypeOK

\* The types of the cards and of the backend they share (start_explain,
\* start_visualize, on_explain_ready, start).
THEOREM ChatTypes == ChatSpec => []ChatTypeOK
<1> QED
  BY ChatInvInit, ChatInvStep, ChatTypesAreOK, PTL DEF ChatSpec

\* Also when cards start it, Jade's own child was spawned with the tier that was set
\* last or is about to be restarted (ensure_chat_model, set_model).  Who answers a
\* card is another matter.
THEOREM CardsLeaveTheModelServed == ChatSpec => []ServesTheModel
<1>1. ChatInv => ServesTheModel
  BY HeldIsSafe DEF ChatInv
<1> QED
  BY <1>1, ChatInvInit, ChatInvStep, PTL DEF ChatSpec
=============================================================================
