# A verification project for Jade IDE

Jade is a native IDE for C++/Metal and hardware projects: a Rust workspace
(`rust/crates/`) and a probe library (`probe/jade_probe.mm`) that is injected
into the programs it runs. This directory holds TLA+ models of the parts of it
where several actors change the same state or long sequences of calls must keep
two states together, TLC runs on small instances, and proofs checked by TLAPS.
Paths below are relative to the repository; crates are under `rust/crates/`.

## Inventory

| Component | State | Operations | Talks to |
|---|---|---|---|
| Telemetry server (`jade-telemetry/src/server.rs`) | rows with checkboxes, two alias maps, jobs in flight, one queue per client, event queue | `handle_line` (decl, rename, tensor), `set_track`, `apply_symbolicated_alias`, replay on connect, `stop` | probe (Unix socket, NDJSON), app (calls in, event channel out), symbolicator (worker task) |
| Probe (`probe/jade_probe.mm`) | `g_buffers` with `name` and `tracked`, `g_pendingTracked` | `register_buffer`, `setLabel:` hook, control thread, flushes, destructor | server; runs on the program's threads, its control thread and its flush queue |
| Sidebar (`jade/src/registry.rs`, `prefs.rs`, `AppModel::apply` in `app.rs`) | rows, seeded rows, stored preferences | declare, rename, seed, prune, toggle | server |
| Hardware session (`jade-hw/src/session.rs`) | `SessionSm`, `InputState`, simulator handle, abort channel, `flashing` | one `select!`: commands, build results, flash results, simulator lines, stop | UI (command and event channels), builds, simulator child, `make load` |
| Simulator (`jade-hw/assets/harness.cpp`, `sim.rs`) | inputs, `paused` | PAUSE, RESUME, STEP, RATE, SET, SETALL, QUIT | session, over two pipes |
| Debug driver (`jade-debug/src/driver.rs`) | command in flight, output buffer, window of silence, requests | one command at a time; stops of the target in between; stop and kill | lldb child over two pipes, UI |
| Run lifecycle (`jade/src/app.rs`, `jade-build/src/run.rs`, `lib.rs`) | flags of `JadeApp`, the engine's stop slot, the debug driver's lock, the run store's rows | build, run, tracked run (scan first), debug, stop, step, confirm, cancel; `on_run_done`, `on_build_done` | tasks of the runtime, children, `app_tx` |
| LSP client (`jade-lsp/src/client.rs`) | command channel, pending map, message ids, the child | `initialize`, `request`, `notify`, `shutdown`, drop of the handle; the actor's `select!` | clangd over two pipes, callers over oneshots |
| Code panes and tabs (`jade/src/app.rs`, `panes.rs`, `editor_view.rs`) | live editor, parked editors, projects and their stashes, `lsp_opened`, document versions | open, preview, switch, move, split, close, edit, save, reload; enter, leave, close a project; `LspReady`, `Exited` | disk, clangd session, saved `ui` blob |
| AI completion backend (`jade-ai/src/backend.rs`) | `Lifecycle` under an async lock, `stopped`, `managed_pid`, PID file, status | `start`, `stop`, `set_model`, `poll_ready`, `kill_managed_now`, quit | llama-server child, HTTP probes, the next run of Jade |
| Text buffer (`jade-buffer/src`, its callers in `app.rs`, the find bar in `find.rs`, suggestions in `sync.rs`) | text, carets, undo and redo stacks, version, saved version, the matches of the find bar | every key that edits, find and replace, completions, suggestions, undo, redo, save, carets | clangd (`didChange`), disk |
| Hardware mode UI (`jade/src/hw.rs`) | `compiling`, `flashing`, run state, save timestamp | commands out, `on_hw_event` in | hardware session |
| AI chat (`jade-ai/src/chat`, the cards in `jade/src/app.rs`) | a slot per lane, cards and their generations, render handle, parked cards | ask, retry, close, leave the tab; deltas, render events, status events, `after_events` | HTTP, language server, completion server's status, Manim |
| Terminal manager (`jade-term`) | dirty flag, reaper | | shells |
| Workspace tree, search, hardware analysis, metrics, rendering and panels | data of one thread | | |

What makes them correct, and hard to test:

* Names. A buffer has a placeholder name (its allocation site), maybe an alias
  (recovered by symbolication, asynchronously), and maybe a label (given by the
  program at any time). Probe, server and sidebar each key their state by the
  name they know, and renames travel through queues. Correct means: what the
  user checked is what streams, no two buffers share an alias, no row or
  preference gets lost.
* Builds and inputs of hardware mode. Each save starts a build and aborts the
  last one; results arrive late, canceled or in another order. The user, the
  simulator's STATE lines and the flash all write `input.paused`, and a swap
  replays it. Correct means: what is on screen was built from the newest save,
  and the IDE does not wait for ever.
* Pipes without framing. lldb's answers have no end mark: prompts, silence and
  timers decide. Correct means: an answer is not taken for another's, no stop of
  the target is lost, Stop always works.
* Flags and tasks. A click sets flags at once, the task it spawns acts later, and
  its event comes back later still and does not say which click it is of. Correct
  means: one child at a time, no button disabled for ever, no row of the run
  store that mixes two runs.
* Requests. Two sides number requests independently over one pair of pipes, with
  timers, a bounded pipe and a server that may hang or die anywhere. Correct means:
  a caller gets its own answer or an error, clangd's own requests are all replied
  to, a dropped session ends clangd.
* Documents. Each tab says by a flag that clangd has its text; sessions, projects,
  panes and previews come and go. Correct means: one buffer per file, no unsaved
  edit lost by a layout operation, flag and document in step.
* Answers that outlive their question. A card is superseded, closed or parked while its
  lookups, its request, its render and the server's status are on their way. Correct
  means: a card shows its own answer, nothing runs for a card that is gone, no card
  spins for ever, a parked one goes on when the server is ready.
* A server that outlives its parent. Correct means: some PID on record leads to
  it (the ways in which one is lost are named below), the one that Jade spawned has the
  tier that was chosen, Starting ends.
* Coordinates. A batch of edits is planned on the old text and applied on the new
  one; undo groups, the dirty dot and clangd's document are derived from it.

PROJECT.json lists every component, modelled or not, and every hazard with its
line.

## Modules

| Module | What it is |
|---|---|
| `TelemetryServer` | The server. `state` is the Rust `struct State`; its methods are operators from state to state, an action is one critical section of the mutex. Clients and UI may do anything. |
| `TelemetrySystem` | Composition: the server between probe and sidebar. Extends `TelemetryServer` and drives its actions with what its peers really write. |
| `RebuildOnSave` | Abstract specification: what hardware mode promises about saves and the simulation on screen. |
| `HwSession` | The session, its builds, the simulator and its pipes, the flash. Instantiates `RebuildOnSave` under a refinement mapping. |
| `LldbDriver` | The debug driver's task, its pipes, lldb and the target. |
| `RunLifecycle` | Composition: `JadeApp`'s flags, the tasks of the runtime, the run engine, the debug session and `app_tx`. |
| `LspCalls` | Abstract specification: what an `LspHandle` promises its callers. |
| `LspClient` | Handshake, actor, pipes, timers and clangd. Instantiates `LspCalls`. |
| `EditorPanes` | Tabs and panes as operators on layouts: no state of its own. |
| `Workspace` | Composition: projects, layouts, texts, disk and clangd's sessions. Extends `EditorPanes`. |
| `AiBackend` | The completion server's life over several runs of Jade. |
| `ChatCards` | Composition: the Explain and Visualize cards, the chat backend's lanes, the render, and the server of `AiBackend` behind its status channel. Extends `AiBackend`. |
| `TextEdits` | The buffer's algorithms as operators: what each key plans and what a batch of plans does. |
| `UndoTimeline` | Abstract specification: what undo and redo promise, a line of documents. |
| `TextBuffer` | One open file: keys, find bar, suggestions, disk and clangd's document. Extends `TextEdits`, instantiates `UndoTimeline`. |
| `*Proofs` | Theorems and proofs. |
| `MC*` | Constants for TLC. |

How state and actions correspond to the code:

* `TelemetryServer`. `HandleLine` is `handle_line` for one parsed line: the decl
  arm (`ProbeDeclares`), the decl with `renamedFrom` (`ProbeRenames`), the tensor
  arm (`ProbeSendsTensor`). `Resolve` is the worker applying one result; the jobs
  in flight are exactly `alias_pending`. `Accept` is the replay and registration
  under one lock, `WriterFails` is a broadcast that drops a client whose writer task
  ended while its reader goes on. The order of the replayed lines is open because the registry is
  a hash map. Kinds other than buffer never meet a buffer's keys and are left out.
* `TelemetrySystem`. The probe's two-part operations are split where the code
  releases `g_bufLock`: `Register` and `SetLabel` change the buffer, `EmitOwed`
  writes the line; `HandleControlLine` sets `tracked`, `Snapshot` writes the
  frames. `Exit` is a crash or a normal end with the destructor's flush. `Apply`
  is `AppModel::apply` for one event including its call of `set_track`, `RunEnds`
  is `prune_stale_seeded`. The application's allocation and labelling is one
  thread, as the demo programs are.
* `HwSession`. The four `Phase` values are the pair of a running and a next
  generation. Each arm of `select!` is an action. `build_once` has two stages,
  because only `compile` listens to the abort channel. A simulator's stdin and
  stdout are queues, so a STATE line may be old when it is read. SetSlowMo is one
  more two-position input: rate 0 is the harness's rest state.
* `LldbDriver`. `at` is where the task is: in a `send_command`, between commands,
  in `shutdown`. A chunk of stdout is what one read returns, with what the loop
  looks for in it: whose answer it is, the stop or exit it tells, whether a prompt
  ends it. `Ends` is the end of a command by prompt, end of file, silence or 10 s; the
  two timers end it only when the pipe is empty, because the biased `select!`
  (`driver.rs:552`) polls them after the bytes. `QuietWindow` is the 80 ms window in which
  a stop of the target is looked at. A target may print without end: `prints` in a
  world is not counted, and the pipe of `MaxPipe` chunks is what stops it. Commands of
  the handshake that only set options are one. A write that fails (`driver.rs:534-538`,
  which returns an empty answer and keeps the buffer) is a command that is sent and whose
  answer ends at the end of the pipe.
* `RunLifecycle`. `task[i].stage` is where a spawned task is between its awaits;
  `engine.run` is two steps (`RunTakes`, `RunRegisters`) because the old sender is
  taken and the new one stored under two locks. `action_stop` is a click and a
  task that waits for the driver's lock. Events are applied in the order of
  `app_tx`, one at a time, each with all that its handler does.
* `LspClient`. Each arm of the actor's `select!` is an action; a write to clangd is one
  action when it is begun and one when the pipe has room, as it blocks the actor
  in between. Ids of the two sides are numbers and overlap. `Handshake` ends with the
  answer to `initialize`; the write of `initialized` (`client.rs:281-287`) and an answer
  that is an error or no JSON (`client.rs:259`, `262-264`) end or begin the session like
  the cases it has.
* `Workspace`. A text is a number and an edit adds one, so that two texts are the
  same only if nothing was edited. What opens, moves or closes a tab is an operator
  of `EditorPanes` from layout to layout, with what it tells clangd beside it.
* `AiBackend`. A task has a program counter at each await of `start`, `stop_with`,
  `set_model` and `poll_ready`; the queue of the fair async lock is `lock`. The PID
  file outlives `Dies`, a SIGKILL, and the next run reads it. `PollGivesUp` goes straight to the
  state of a shutdown: the Error that `backend.rs:567` sets is replaced a few lines later
  under the same lock, and the channel, which keeps the latest value, rarely shows it.
* `ChatCards`. `app` is what `JadeApp` keeps for the cards; `OnReady`, `OnDelta`,
  `OnRender` are its handlers, from `app` to `app`. A delta goes through the request's
  sink, the task that forwards it and the pump's queue, an action each; `Straggles` is a
  task that was aborted while it ran. `seen` is the status the app was last told, `status`
  the server's own. `Pump` applies one event, `AfterEvents` ends a batch. `OnReady` looks for
  a card that still asks in either lane; `on_visualize_ready` looks at its number only,
  which comes to the same, as a card with that number asks until then.
* `TextBuffer`. A key is an action: what it plans (`TextEdits`), what
  `Buffer::transact` makes of it, and the `didChange` and the rescan of the find bar of
  `after_edit` (`Leaves`). The bar is always open, as nothing uses it while it is closed;
  its needle is one word character, and `current` may be any stored match. Replace
  and Replace All use the ranges that are stored (`matches`), not those of the text; a
  range outside the text makes the rope panic (`Misses`). `SyncApply` is the arm of
  `sync_apply` for similar lines, `SyncRewrite` the two arms that go through
  `sync_rewrite_file`, for names and values of one or two characters; the latter has no
  rescan. `AcceptCompletion` has the word before the caret and clangd's own range,
  `AcceptStub` the stub with the caret in its body.

## Runs

| Run | Shows |
|---|---|
| `telemetry_server` | `TypeOK`, `AliasMapsInverse`, `AliasNeverReassigned` for a server under an arbitrary client |
| `telemetry_system` | `CheckedLabelIsStreamed`, `SidebarMatchesServer`, `SysTypeOK` |
| `alias_race` | violated: `CheckedRowReachesItsBuffer` |
| `gating` | violated: `StreamsOnlyWhatItWasTold` |
| `hw_session` | `SimIsOfThePhase`, `OrphanBuildsAborted`, `PendingBuildReports`, `InputsAgree`, `TypeOK`, and that the session implements `RebuildOnSave` with its liveness |
| `hw_flash` | violated: `FlashResumesSim` |
| `lldb_driver` | `AnswersAligned` and `StopIsReported` for an lldb that answers in time; `ExitedOnce` and `StopEndsSession` (liveness) for any lldb; `TypeOK` |
| `run_lifecycle` | `OneChild`, `ButtonsComeBack`, `RecordsAreOfTheirRun`, `DeferredLaunchEnds` (liveness), `TypeOK` |
| `lsp_client` | `KeepsPromise` (the refinement of `LspCalls`), `AsksAreReplied`, `DroppedClangdEnds` (liveness), `TypeOK` |
| `workspace` | `OneBufferPerFile`, `EditsSurvive` (an action property), `ClangdFollows`, `TypeOK` |
| `ai_backend` | `ServersAreHeld`, `ServesTheModel`, `StartingEnds` (liveness), `ChatsStayWithTheirCards`, `CardsSettle` (liveness), `ChatTypeOK` (with the server's `TypeOK`) |
| `text_buffer` | `CleanIsSaved`, `ClangdFollowsText`, `StaysInside` (with the type invariant), `KeepsTimeline` (the refinement of `UndoTimeline`) |

Every property of a passing run is paired with a mutated definition that breaks
it (PROJECT.json, "mutants"; the mutants stand above the definitions they change).

### What the models showed

Three properties are violated, disagreements with a comment or the protocol
document:

* `alias_race`. The comment of `handle_line` says a label drops the alias of the
  old name. It does not drop a lookup in flight, whose result installs an alias
  for a name that nobody speaks. When the alias equals the label, the usual case,
  the checked row never streams.
* `gating`. `docs/telemetry-protocol.md` says a client sends frames only for
  buffers it was told to stream. The `setLabel:` hook keeps `tracked`, and its
  line may be overtaken by a frame under the new name.
* `hw_flash`. The comment of `spawn_flash` says the simulator is resumed after
  the flash. The answer to the session's own Pause is stored as if the user had
  paused, so it is not.

`CheckedLabelIsStreamed` is about buffers known by their label; with aliases the
stronger `CheckedRowReachesItsBuffer` fails as above.

The passing properties of the newer modules carry the conditions under which the
code keeps them. Each condition stands for behaviour met while modelling:

* `AnswersAligned`, `StopIsReported` (`InTime`). 150 ms of silence end an answer:
  a slow lldb's rest is read as the next command's answer. A user who steps
  before the last stop is shown meets the buffer that `send_command` clears after
  writing (`driver.rs:541`), and the stop in it is lost.
* `StopEndsSession` (`[]<>~Flooded`). The comment of `send_command` (`driver.rs:529-531`) has
  an answer end at a prompt, silence or 10 s, "whichever comes first". The `select!` is
  biased and polls its timers after the bytes, so a target that prints fast enough
  to keep the pipe full holds the command for ever, and with it the Stop, which waits
  in the queue of calls. Without the premise TLC shows this behaviour in the worlds where
  the target prints; with it, a session whose reading task finds the pipe empty again
  and again is closed after a Stop. The idle loop takes calls before bytes, and there a
  flood needs no premise.
* `RecordsAreOfTheirRun` (no Stop, no debug). `RunDone` carries no launch: run,
  Stop, run again, and the first run's `RunDone` ends and stores the second's row.
  Run and Debug share one `pending_run`. Not needed by any property, but visible:
  a Stop between the click and `engine.run` stops nothing, and a debug build that
  fails leaves the debug panel's state at running.
* `DroppedClangdEnds` (`Stuck`). A write into a full pipe of a clangd that stopped
  reading holds the actor, which then hears no kill; the handshake's writes are
  outside its timeout too.
* `ClangdFollows` (`drifted`). `reload_clean_from_disk` replaces a tab's buffer,
  keeps `lsp_opened` and sends nothing, and versions restart. An open that fails
  after the preview tab's `didClose`, and `LspReady` of a project that was left
  meanwhile (its session replaces the live one's handle), put flag and document
  apart. `Exited` of an old session clears a new one.
* `ServersAreHeld` (`forgotten`). `start` clears the PID file when what it names does
  not answer yet, also a server that is still loading; a stop or a quit clears
  the file of a server that was never adopted; a SIGKILL between spawn and record
  leaves a server nobody knows.
* `CardsSettle` (`left`). A card that waits for the local model and whose tab is closed
  when the server gets ready is not resumed, and nothing resumes it when the tab comes
  back; one whose server fails to start says "Starting the local model" until Retry.
  `after_events` also resumes a parked Visualize card, which parks only with a chat
  endpoint from the environment.
* `ClangdFollowsText`, `StaysInside` (`strayed`). Replace All leaves one caret per match;
  a deletion by neighbouring carets then plans ranges that overlap, which
  `PlannedEdit` forbids: wrong text goes, or an offset underflows.
* `StaysInside` (`rewritten`). The comment of `find_resync` (`app.rs:3459-3463`) says that
  without it the stored ranges go stale. `sync_rewrite_file` (`app.rs:5196-5230`) does
  without: with the find bar open, a suggestion that renames a kernel or sets a
  parameter in the active tab leaves the matches where they were. Next, Replace or
  Replace All then select or edit what now stands there, or reach outside a file that
  got shorter, where the rope panics. The model has both outcomes: the run reaches
  states in which a stored match is no match, and states in which the bar has made the
  rope panic. What is checked is that every other operation leaves the bar with
  the matches of the text, and that nothing but the two named cases panics.
  `reload_clean_from_disk` (`app.rs:1481`) replaces a buffer without a rescan, too; it
  belongs to `Workspace`, which has no find bar.
* `KeepsTimeline` (`StepsTwice`). A closing brace typed over a selection takes two
  undos, although the comment of the alignment speaks of one.

### Bounds

* `telemetry_server`: four names (two placeholders, two variants of one alias)
  and one client. Two placeholders compete for one alias, the second takes the
  suffixed variant, and either may be renamed to any name, the other's alias
  included. A second client adds nothing to `state`, which does not record who
  sent a line. The queues are unbounded; a VIEW leaves out their contents, which
  no action of this run but their own reading depends on.
* `telemetry_system`: one program, two buffers, one label and one alias. The two
  buffers may be given the same label, which is the collision. `MaxToggles = 1`
  click on top of two sets of stored preferences; `MaxLag = 1` lets a periodic
  frame be sent only when nothing else is queued, which bounds the queues and
  loses no order of the other lines (a frame that overtakes is a snapshot, which
  is not bounded). A buffer is labelled once. The two buffers are symmetric.
* `alias_race`: one buffer, whose alias is its label. `gating`: one buffer,
  `MaxToggles = 2`.
* `hw_session`: `MaxGen = 3` builds, so a third build may supersede a second while
  a first runs, and a stale result can meet a later phase; `MaxClicks = 2` and
  `MaxFlashes = 1` with `MaxActs = 2`: two inputs of the user, or one and a flash. One
  DIP switch is replayed in the mask, one other input as a command.
* `lldb_driver`: four worlds. In time with a silent target: four calls and three stops, so
  a stop can meet a command and the window of silence at once; with a target that
  prints without end: two calls and two stops. Slow, with an lldb that is silent, hangs
  or dies: two calls and a stop with a silent target, two calls with one that prints.
  Prints are not counted: a pipe of two chunks fills and is emptied for ever.
* `run_lifecycle`: three launches and one Stop: two tasks in `engine.run` at once
  with a third child up, a scan that defers a launch with one more beside it.
* `lsp_client`: two requests and the shutdown, one notification, two requests of
  clangd (their numbers meet the IDE's), a pipe of one message, so that a write blocks.
* `workspace`: four worlds, each bounded where another is not: two files in two
  panes; one file over two visits of folders and two sessions with a crash; folders
  that come and go with three sessions, with two edits and with two panes.
* `ai_backend`: without cards, one run of Jade with two clicks and a stored tier that
  is not the default, or with one click and two tiers, and two runs with
  one click, a SIGKILL and a server outside; two servers, three tasks, which is one more
  than hold the lock and wait for it in the code's longest chain (a restart and the poll
  of its predecessor). With cards, two acts on a card (ask and ask again, close, or leave the
  tab) with a key, for either kind, so that a second request meets all that is left of the
  first; without a key two acts beside a server that answers at once, and one beside
  a click that may turn it off or beside a managed server that loads, fails or gives up.
  A lane's request says text once.
* `text_buffer`: two files of two and three characters, two typed characters, two
  pasted texts, three edits in two groups and undos up to four versions, selections
  and completion ranges of up to one character, texts of up to four; Replace All makes the
  second caret, and a suggestion replaces words of one or two characters by words of
  one or two, so that matches become stale both inside and outside the text.
  With `Widths` of 2 and `Shifts` of both the run exceeds its time; the theorems
  are for all of them.
* The models may stop: programs exit, sessions end, bounds are reached. So the
  runs do not check for deadlock; what must not get stuck is stated as liveness.

### Fairness

* `HwSession`. Each build step is weakly fair: the tasks are spawned on the runtime,
  and verilator is assumed to end. Taking a result is weakly fair: `select!` polls
  its arms in random order, so a result that waits is taken. User and simulator
  steps have none. `RebuildOnSave` promises that a save is resolved unless saves keep
  coming, because each save restarts the build; the bound `MaxGen` makes every
  behaviour of the run one where they stop.
* `LldbDriver`. The driver's task is weakly fair. `Ends` is strongly fair: the 10 s timer
  is one for the whole answer, so once it has expired the first time the loop finds the
  pipe empty ends the answer, although a target that prints may fill it again and
  again. When the loop never finds it empty, `Ends` is never enabled and fairness says
  nothing. lldb answers only in the world that says so; the target owes nothing.
* `RunLifecycle`. The pump applies events, tasks progress, a child that was told to
  end ends, the driver's lock is fair (tokio's mutex is). Programs and users owe nothing.
* `LspClient`. The actor, the shutdown and the timers run; clangd reads unless it
  hangs, and need not answer.
* `AiBackend`. Tasks run; a poll gives up after 15 minutes, strongly fair because the
  lock takes it away in between. Servers owe nothing.
* `ChatCards`. Lookups have a budget, requests a timeout, a render its 180 s (the
  installation of Manim before it, which has none, is assumed to end); the tasks that forward
  and the pump run. A card settles because the user's acts are bounded.
* `Workspace`, `TextBuffer` and the telemetry modules state safety only.

## Proofs

TLAPS proves, for every value of the constants that satisfies the assumptions:

* `TelemetryServerProofs`, the server: `TypeCorrect`, `AliasesCorrect`, `PendingCorrect`,
  `AliasesNeverReassigned`. Assumptions: names are finite (the replay counts
  them), `None` is no name, alias variants are names. The inductive invariant is
  `Sound(state)`: types, enabled rows are registered, the alias maps are inverse,
  and pending names have no alias. `AliasMapsInverse` needs the last part: a
  result that met an existing alias would overwrite one direction only. Because a
  handler makes several calls on one state, each operator gets a lemma that it
  keeps `Sound`, and the actions only combine them.
* `TelemetryServerProofs`, the server between its peers: `SysTypeCorrect`,
  `SidebarStaysWithServer`, `CheckedLabelsAreStreamed`. Assumptions: buffers are finite
  (the last flush counts them), stored preferences are preferences. The properties
  speak of empty queues, so what is inductive says what a queue will do when it is
  read: the last event about a name decides whether it is a row, and without one the
  sidebar's confirmed rows already say it (`Told`); the last track about a name decides
  whether its row is checked, and without one the probe's memory says it (`Relayed`).
  The same two lemmas, an item at the end and the first item read, carry both. The
  third theorem has the hypothesis `LabelsAreTheirOwn`: no label is the fallback
  name of a buffer or a variant of an alias. The run `telemetry_system` is an
  instance of it, and without it the statement is false: in `alias_race`
  the label is an alias.
* `HwSessionProofs`: `TypeCorrect`, `SimCorrect`, `OrphansCorrect`,
  `PendingCorrect`, and `ImplementsRebuildOnSave`, the safety part of the
  refinement, and `InputsStayInAgreement`. Assumptions: at least one build is allowed, bounds are numbers,
  controls are finite, DIP switches are controls. `IInv` adds to the three
  invariants that generations grow (`Ordered`), that the build waited for was not
  aborted (`PendingNotAborted`; without it a cancelled result could be the one
  waited for) and that reported builds have ended (`ReportedBuildsEnded`; without
  it a build may lose its place in the phase while it still runs). The refinement
  needs `Ordered`: what is shown is the newest save only because the pending
  generation is the last one given out. `InputsAgree` speaks of empty pipes; `InputsCome`
  says the same of full ones: per input, the last command under way carries the
  session's value, and without one the simulator has it. The bounds are constants
  of the model, so the theorems hold for every number of builds and inputs.
* `LspClientProofs`: `TypeCorrect`, `PromiseKept`, that the client implements
  `LspCalls`, and `AsksStayReplied`. The inductive invariant says that an id belongs to one call wherever
  it stands (map, message being written, both pipes), and where a call that waits
  is: in the command channel, in the message being written, or in the map.
  A late answer then meets its own call or no entry, and the end of the actor
  releases everyone. For the requests of clangd `RepliesCome` says that the request
  or its reply is in exactly one place and there once, the message being written
  included.
* `RunLifecycleProofs`: `TypeCorrect`, `OneChildHolds`, `ButtonsAlwaysComeBack`,
  `RecordsOfTheirRun`. `OneChild` is not inductive: what is needed is that the engine's slot
  holds the one child that was not told (`HoldsTheUntold`). `ButtonsComeBack` needs
  that the flags of a run and of a scan are never set both (`NeverBoth`). The last one
  rests on `Alone`: without a Stop and a debug session, at most one launch is
  unfinished or has a report on its way.
* `TextBufferProofs`: `CleanTabsAreSaved`, `CaretsStayInside`, `ClangdHasTheText`,
  `StacksKeepTheTimeline`, for every file, key, number of carets and length of the
  stacks. Assumptions: `TextsAreTexts`, `BoundsAreNat`; of the latter only the type of the
  versions needs `MaxEdits <= MaxVersion`, and both are bounds of the model. The first
  compares versions, which only grow (`Follows`). The others come together, because a
  key needs carets in the text, and an undo must bring back the text its carets were
  in. `Inv` says: unless ranges overlapped, there is a line of texts `X`, one for every
  number of groups that may have been made, such that the operations of a group lead
  from its text to the next and back (`Line`), its selections are in the texts on its
  sides (`Within`), the carets are in the text of now and in its order (`Fine`), and
  clangd has that text. `Bar` says that the find bar holds the matches of the text, unless
  a suggestion rewrote it since they were found. `CaretsStayInside` has two
  exceptions for what it says: an overlap, after which carets may be anywhere, and such
  a suggestion, after which the bar may use a range outside the text. `Line` holds also after an overlap, so the refinement needs no
  such condition. The argument has four parts. (1) A batch whose ranges are apart
  (`Placed`) makes one text (`BatchIs`), whether its plans are applied left to right
  with the running delta, as `transact` does, or last range first, as clangd gets
  them. (2) Operations undone last first lead back (`TurnsBack`), by induction over
  their number. (3) Every key plans a `Sound` edit: plans in the text, selections in
  the text they make. For typing, deletions and paste that is the order of the carets;
  for rows, that rows are apart; for Replace All, that matches are taken from left to
  right, whether they are those of the text or stale ones that still lie in it; for a
  closing brace, that the alignment is a second edit of the text the
  first one made. (4) An edit adds a group behind those that were not undone (`Adds`),
  widens the newest (`Widens`) or records nothing, and a brace and its alignment make
  one or two steps of `UndoTimeline` (`StepsTwice`). What the mapping computes from the
  stacks (`TextAfter`) is the line `X`, by induction over the groups in both directions.

* `LldbDriverProofs`: `DriverTypes`, `AnswersStayAligned`, `StopsAreReported`,
  `ExitedIsSentOnce`.
  The invariant that makes the second and third inductive: while a command waits to be
  executed the target does not run and all of its output was read, so the first
  prompt or silence is behind the command's own answer; at most one stop is unread;
  and calls wait only at a stop that was reported. The last one counts the exits in
  the channel, which a finished driver never writes to again. The types bound the
  commands, two for each stop of the target, because a stop is reported once.
* `AiBackendProofs`, the server's life: `BackendTypes`, `ServersStayHeld`,
  `TheModelIsServed`; with the cards on top: `ChatTypes`, `CardsShowTheirOwn`,
  `CardsLeaveServersHeld`, `CardsLeaveTheModelServed`. Assumptions: `ModelsExist`,
  `BoundsAreBounds`, `ChatBoundsAreBounds`. The inductive invariant has the types; that the
  lock's queue has every task that waits for it or holds it once, the holder in front
  (`LockIsQueue`), so that nobody is between another's guard and its record; and
  `Held`: a start that passed its guard holds no server, a quit kills the PID on file,
  and a live server that was not forgotten is on file or about to be recorded.
  `ServersStayHeld` is thus a statement about how servers get lost, by one of the
  ways that `forgotten` names and no other, and a PID that is only on file counts as
  held. `TheModelIsServed` speaks of Jade's own child and the tier stored by `set_model`:
  an adopted server or an outside one serves its own, and `infill` takes no lock. The
  two theorems about the cards carry these statements to a backend that cards start,
  and say nothing of who answers a card. The cards add what is on
  its way to them: a lookup or its end is there once and its card has no request yet, a
  delta that ends a request is of one that streams no more, a video is of a render that
  has ended, and every request has the number of one card. Then an event of a card that
  was superseded or closed meets another number, and the handler drops it.

* `WorkspaceProofs`: `TypeCorrect`, `FilesHaveOneBuffer`, `ClangdHoldsTheTexts`,
  `TextsSurvive`. Assumptions: `EligibleAreFiles`, `NowhereIsNoRoot`,
  `FirstFilesAreFiles`, `LiveIsNoEditor`, `WorldsAreBounds`. A layout is seen as the
  sequence of its editors (`EditorsOf`), whichever is the live one, so that each
  operation of `EditorPanes` is a removal, an insertion or a change in a sequence of
  editors that share no file (`EditorsAre`). The invariant needs more than the four
  properties say: a preview tab has no edits (or a preview that is replaced would lose
  them), the blob of a folder lists no file twice (or a restore would open it twice),
  without a session no tab is marked, a session that is not held has no document, and
  an event in `app_tx` is of a session that has left `starting`. `TextsSurvive` is a
  property of steps: each operation says which texts may go (`Step`, `Loses`), and they
  are those the user gave up. The n-th pane that is kept on a restore exists by
  an induction over the numbers, done on a set of them (`Induction`).

Only model-checked: the liveness properties (`StopEndsSession`, `DeferredLaunchEnds`,
`DroppedClangdEnds`, `StartingEnds`, `CardsSettle` and the eventual rebuild of
`RebuildOnSave`), because fairness and ENABLED are out of TLAPS's reach. Every safety
property that a passing run checks is a theorem. Inductions are over numbers, on the
set of those for which a statement holds (`Induction`, `LeastNumber`), and what is
computed along a sequence is a recursive function over its positions; `TextEdits` is
written that way for it. The violation runs are refutations and have no theorem. No module declares a
RECURSIVE operator.

## Known hazards no property covers

| Where | What |
|---|---|
| `jade/src/registry.rs:407` | The destination's stored preference is off while the row being renamed is checked: which one wins differs from what the server keeps. |
| `jade/src/registry.rs:206` | A seeded row is confirmed by the echo of the sidebar's own `set_track` instead of the probe's declaration. |
| `jade-hw/src/session.rs:449` | The user pauses while the first STATE running of a new simulator is unread, and a swap follows before it is read. |
| `jade-hw/src/session.rs:314` | A save during a flash starts a build although a flash starts only when no build runs. |
| `jade/src/hw.rs:223` | The UI sets `flashing` before the session decides; a session that skips the flash never clears it. |
| `jade/src/hw.rs:333` | Saves are told apart by a window of 600 ms. |
| `jade-term/src/manager.rs:483` | The dirty flag between the parser's thread and the drawing. |
| `jade/src/app.rs:6063` | Ghost text: `ghost_gen` grows only when the cache misses, so a late answer is shown after the caret moved or the tab changed, and Tab inserts it there. |
| `jade/src/app.rs:6310` | `LspReady` does not say of which project its session is; the model has it, under `drifted`. |
| `jade/src/app.rs:2790`, `2749` | Restored background panes and `switch_tab` never send `didOpen`. |
| `jade/src/editor_view.rs:401` | A moved preview tab may give a pane two preview tabs. |

## Not modelled

* Telemetry: scalars, timers, counters and GPU timing. Hardware mode: the schematic
  and gate views, the file system that two overlapping builds share, the UI's own flags
  (`hw.rs`). Time itself everywhere: a timer may expire whenever the code lets it.
* Text buffer: bytes, graphemes and UTF-16 columns (an offset counts characters), indents
  of spaces (a tab is one step), Verilog's openers, the composed text of an input
  method, vertical moves of several carets. `type_char` is used by tests only.
* Panes: scroll positions, palettes, folds, decorations, widths.
* AI: single flight of `infill`, the preset file, ghost text, Implement, the consent card,
  pop-outs, a chat endpoint of the user's own. Terminal: all of it.
* Code that keeps no state between steps, by far most of the lines: rendering and
  panels, parsers and code generators of `jade-hw` and `jade-debug`, metrics, the
  workspace tree and the search. A model would repeat the function it models.
