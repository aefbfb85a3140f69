----------------------------- MODULE HwSession -----------------------------
(***************************************************************************)
(* The hardware session (jade-hw/src/session.rs): one task that rebuilds   *)
(* the simulation on every save, swaps it when the build succeeds, replays *)
(* the inputs into the new simulator and pauses it while the board is      *)
(* flashed.  Around the task run the builds it started (build_once and     *)
(* compile.rs), the simulator child (sim.rs, assets/harness.cpp) and       *)
(* `make load`.                                                            *)
(*                                                                         *)
(* An action of the session is one arm of its select!, which runs to its   *)
(* end before the next one.  Diagnostics, LED frames, rates, the schematic *)
(* and the gate view only pass through and are left out.                   *)
(***************************************************************************)
EXTENDS Naturals, Sequences, FiniteSets

CONSTANTS
    MaxGen,     \* bound: builds of one session
    MaxClicks,  \* bound: inputs, pauses, resumes and steps by the user
    MaxFlashes, \* bound: flashes
    MaxActs,    \* bound: what MaxClicks and MaxFlashes count, together
    Control,    \* two-position inputs: switches, buttons, slow motion
    Dip         \* those of them that are DIP switches

ASSUME MaxGenPositive == MaxGen \in Nat \ {0}
ASSUME BoundsAreNat == MaxClicks \in Nat /\ MaxFlashes \in Nat /\ MaxActs \in Nat
ASSUME ControlsFinite == IsFiniteSet(Control)
ASSUME DipsAreControls == Dip \subseteq Control

VARIABLES
    phase,      \* SessionSm.phase
    next_gen,   \* SessionSm.next_gen
    stage,      \* per build: where build_once is
    aborted,    \* builds whose abort channel has fired
    done,       \* the queue behind done_rx
    input,      \* InputState
    sim,        \* the simulator child and its two pipes
    flash,      \* `flashing`, and whether `make load` has ended
    up,         \* the session runs
    clicks, flashes     \* what the bounds count

builds == <<stage, aborted>>
counts == <<clicks, flashes>>
vars == <<phase, next_gen, builds, done, input, sim, flash, up, counts>>

Gen == 1 .. MaxGen

\* Phase: Idle is <<0, 0>>, Compiling{gen} has only `next`, Running{gen} only
\* `running`, CompilingWhileRunning both; 0 is no generation.
Phase == [running : 0 .. MaxGen, next : 0 .. MaxGen]

Outcome == [gen : Gen, ok : BOOLEAN, canceled : BOOLEAN]
Input == [on : SUBSET Control, paused : BOOLEAN]

RunCommand == {"pause", "resume", "step"}
Command ==
    [type : RunCommand]
      \cup [type : {"set"}, control : Control, on : BOOLEAN]
      \cup [type : {"setall"}, on : SUBSET Dip]
Report == {"running", "paused", "stepped", "exited"}

\* `gen = 0`: no SimHandle.  cmds is the child's stdin, lines its stdout.
Sim == [gen : 0 .. MaxGen, alive : BOOLEAN, on : SUBSET Control,
        paused : BOOLEAN, cmds : Seq(Command), lines : Seq(Report)]

NoSim == [gen |-> 0, alive |-> FALSE, on |-> {}, paused |-> FALSE,
          cmds |-> <<>>, lines |-> <<>>]

Set(control, on) == [type |-> "set", control |-> control, on |-> on]

-----------------------------------------------------------------------------
(* InputState and the simulator.                                           *)

\* Mutant of Replay: only the switches and the pause are replayed.
ReplaySwitches(in) ==
    {<<[type |-> "setall", on |-> in.on \cap Dip]>>
        \o (IF in.paused THEN <<[type |-> "pause"]>> ELSE <<>>)}

\* InputState::replay_commands: the switches in one mask, then what is not at
\* rest, then Pause.  The commands in the middle are independent.
Replay(in) ==
    {<<[type |-> "setall", on |-> in.on \cap Dip]>>
        \o [i \in DOMAIN rest |-> Set(rest[i], TRUE)]
        \o (IF in.paused THEN <<[type |-> "pause"]>> ELSE <<>>) :
        rest \in {q \in [1 .. Cardinality(in.on \ Dip) -> in.on \ Dip] :
                     \A k \in in.on \ Dip : \E i \in DOMAIN q : q[i] = k}}

\* A simulator starts at rest, reports that it runs, and reads its stdin.
FreshSims(gen) ==
    {[gen |-> gen, alive |-> TRUE, on |-> {}, paused |-> FALSE,
      cmds |-> replay, lines |-> <<"running">>] : replay \in Replay(input)}

Send(s, cmd) == IF s.gen = 0 THEN s ELSE [s EXCEPT !.cmds = Append(@, cmd)]

\* Harness::handle_command.  PAUSE and RESUME answer only when they change
\* something.
Obeyed(s, cmd) ==
    CASE cmd.type = "pause" ->
            IF s.paused THEN s
            ELSE [s EXCEPT !.paused = TRUE, !.lines = Append(@, "paused")]
      [] cmd.type = "resume" ->
            IF s.paused
            THEN [s EXCEPT !.paused = FALSE, !.lines = Append(@, "running")]
            ELSE s
      [] cmd.type = "step" ->
            [s EXCEPT !.paused = TRUE, !.lines = Append(@, "stepped")]
      [] cmd.type = "set" ->
            [s EXCEPT !.on = IF cmd.on THEN @ \cup {cmd.control}
                                       ELSE @ \ {cmd.control}]
      [] cmd.type = "setall" -> [s EXCEPT !.on = (@ \ Dip) \cup cmd.on]

SimReads ==
    /\ sim.alive
    /\ sim.cmds # <<>>
    /\ sim' = Obeyed([sim EXCEPT !.cmds = Tail(@)], Head(sim.cmds))
    /\ UNCHANGED <<phase, next_gen, builds, done, input, flash, up, counts>>

\* The child ends by itself; what it printed can still be read.
SimDies ==
    /\ sim.alive
    /\ sim' = [sim EXCEPT !.alive = FALSE, !.lines = Append(@, "exited")]
    /\ UNCHANGED <<phase, next_gen, builds, done, input, flash, up, counts>>

-----------------------------------------------------------------------------
(* A build: build_once up to the call of compile, then verilator.          *)

Reports(g, ok, canceled) ==
    /\ stage' = [stage EXCEPT ![g] = "none"]
    /\ done' = Append(done, [gen |-> g, ok |-> ok, canceled |-> canceled])

\* No verilator, no sources, a syntax error, a bad mapping.  Nothing before
\* verilator looks at the abort channel.
PrepassFails(g) ==
    /\ stage[g] = "prepass"
    /\ Reports(g, FALSE, FALSE)
    /\ UNCHANGED <<phase, next_gen, aborted, input, sim, flash, up, counts>>

StartsVerilator(g) ==
    /\ stage[g] = "prepass"
    /\ stage' = [stage EXCEPT ![g] = "verilator"]
    /\ UNCHANGED <<phase, next_gen, aborted, done, input, sim, flash, up, counts>>

\* An abort that arrives while the output is being read kills the child; one
\* that arrives after it is too late.
VerilatorEnds(g) ==
    /\ stage[g] = "verilator"
    /\ \/ \E ok \in BOOLEAN : Reports(g, ok, FALSE)
       \/ g \in aborted /\ Reports(g, FALSE, TRUE)
    /\ UNCHANGED <<phase, next_gen, aborted, input, sim, flash, up, counts>>

\* `make load` ends, well or not.
FlashEnds ==
    /\ flash = "loading"
    /\ flash' = "loaded"
    /\ UNCHANGED <<phase, next_gen, builds, done, input, sim, up, counts>>

-----------------------------------------------------------------------------
(* The arms of the session's select!.                                      *)

\* Mutants of Recompile: the build behind a running simulator is not aborted;
\* AbortCompile comes after StartCompile.
RecompileSparesBackground ==
    /\ up
    /\ next_gen <= MaxGen
    /\ phase' = [phase EXCEPT !.next = next_gen]
    /\ next_gen' = next_gen + 1
    /\ aborted' = aborted \cup IF phase.running = 0 THEN {phase.next} \ {0} ELSE {}
    /\ stage' = [stage EXCEPT ![next_gen] = "prepass"]
    /\ UNCHANGED <<done, input, sim, flash, up, counts>>

RecompileAbortsItself ==
    /\ up
    /\ next_gen <= MaxGen
    /\ phase' = [phase EXCEPT !.next = next_gen]
    /\ next_gen' = next_gen + 1
    /\ aborted' = aborted \cup IF phase.next # 0 THEN {next_gen} ELSE {}
    /\ stage' = [stage EXCEPT ![next_gen] = "prepass"]
    /\ UNCHANGED <<done, input, sim, flash, up, counts>>

\* HwCommand::Recompile: on_sources_changed with AbortCompile and StartCompile.
\* The session's abort channel is that of the build in phase.next.
Recompile ==
    /\ up
    /\ next_gen <= MaxGen
    /\ phase' = [phase EXCEPT !.next = next_gen]
    /\ next_gen' = next_gen + 1
    /\ aborted' = aborted \cup ({phase.next} \ {0})
    /\ stage' = [stage EXCEPT ![next_gen] = "prepass"]
    /\ UNCHANGED <<done, input, sim, flash, up, counts>>

Click ==
    /\ up
    /\ clicks < MaxClicks /\ clicks + flashes < MaxActs
    /\ clicks' = clicks + 1
    /\ UNCHANGED <<phase, next_gen, builds, done, flash, up, flashes>>

\* SetPb, SetDip and SetSlowMo.
SetControl(k, on) ==
    /\ Click
    /\ input' = [input EXCEPT !.on = IF on THEN @ \cup {k} ELSE @ \ {k}]
    /\ sim' = Send(sim, Set(k, on))

\* Pause, Resume and Step.
RunControl(type) ==
    /\ Click
    /\ input' = [input EXCEPT !.paused = type # "resume"]
    /\ sim' = Send(sim, [type |-> type])

\* HwCommand::Flash; it is skipped during a build or another flash.
Flash ==
    /\ up
    /\ flash = "none" /\ phase.next = 0
    /\ flashes < MaxFlashes /\ clicks + flashes < MaxActs
    /\ flashes' = flashes + 1
    /\ flash' = "loading"
    /\ sim' = Send(sim, [type |-> "pause"])
    /\ UNCHANGED <<phase, next_gen, builds, done, input, up, clicks>>

FlashDone ==
    /\ up
    /\ flash = "loaded"
    /\ flash' = "none"
    /\ sim' = IF input.paused THEN sim ELSE Send(sim, [type |-> "resume"])
    /\ UNCHANGED <<phase, next_gen, builds, done, input, up, counts>>

\* Mutant of Current: the generation is not compared.
AnyGeneration(outcome) == ~outcome.canceled /\ phase.next # 0

Current(outcome) == ~outcome.canceled /\ outcome.gen = phase.next

ReadOutcome ==
    /\ up
    /\ done # <<>>
    /\ done' = Tail(done)
    /\ UNCHANGED <<next_gen, builds, input, flash, up, counts>>

\* A canceled result and one of another generation are dropped.
DropOutcome ==
    /\ ReadOutcome
    /\ ~Current(Head(done))
    /\ UNCHANGED <<phase, sim>>

\* Mutant of BuildFailed: the state machine moves to the failed generation.
FailedBuildRuns ==
    /\ ReadOutcome
    /\ Current(Head(done)) /\ ~Head(done).ok
    /\ phase' = [running |-> Head(done).gen, next |-> 0]
    /\ UNCHANGED sim

\* The build failed: the old simulator, if any, is kept.
BuildFailed ==
    /\ ReadOutcome
    /\ Current(Head(done)) /\ ~Head(done).ok
    /\ phase' = [phase EXCEPT !.next = 0]
    /\ UNCHANGED sim

\* Mutant of HotSwap: the counter is taken for the generation built.
SwapToCounter ==
    /\ ReadOutcome
    /\ Current(Head(done)) /\ Head(done).ok
    /\ phase' = [running |-> next_gen, next |-> 0]
    /\ sim' \in FreshSims(Head(done).gen) \cup {NoSim}

\* QuitOldSim and SpawnSim.  The old child is ended by a task of its own and
\* its pipes go with it.  When the spawn fails, no simulator runs.
HotSwap ==
    /\ ReadOutcome
    /\ Current(Head(done)) /\ Head(done).ok
    /\ phase' = [running |-> Head(done).gen, next |-> 0]
    /\ sim' \in FreshSims(Head(done).gen) \cup {NoSim}

ReadSim ==
    /\ up
    /\ sim.lines # <<>>
    /\ UNCHANGED <<next_gen, builds, done, flash, up, counts>>

\* handle_sim_line: a STATE line overwrites input.paused.
SimState ==
    /\ ReadSim
    /\ Head(sim.lines) # "exited"
    /\ sim' = [sim EXCEPT !.lines = Tail(@)]
    /\ input' = [input EXCEPT !.paused = Head(sim.lines) # "running"]
    /\ UNCHANGED phase

\* SimEvent::Exited and on_sim_exited.
SimExited ==
    /\ ReadSim
    /\ Head(sim.lines) = "exited"
    /\ sim' = NoSim
    /\ phase' = [phase EXCEPT !.running = 0]
    /\ UNCHANGED input

\* The stop channel fires or the command channel closes.
Stop ==
    /\ up
    /\ up' = FALSE
    /\ aborted' = aborted \cup {next_gen - 1}
    /\ sim' = NoSim
    /\ UNCHANGED <<phase, next_gen, stage, done, input, flash, counts>>

-----------------------------------------------------------------------------
\* run_session starts the first build before it reads anything.
Init ==
    /\ phase = [running |-> 0, next |-> 1]
    /\ next_gen = 2
    /\ stage = [g \in Gen |-> IF g = 1 THEN "prepass" ELSE "none"]
    /\ aborted = {}
    /\ done = <<>>
    /\ input = [on |-> {}, paused |-> FALSE]
    /\ sim = NoSim
    /\ flash = "none"
    /\ up = TRUE
    /\ clicks = 0 /\ flashes = 0

UserNext ==
    \/ Recompile \/ Flash \/ Stop
    \/ \E k \in Control, on \in BOOLEAN : SetControl(k, on)
    \/ \E type \in RunCommand : RunControl(type)

SessionNext ==
    \/ DropOutcome \/ BuildFailed \/ HotSwap
    \/ FlashDone \/ SimState \/ SimExited

BuildNext(g) == PrepassFails(g) \/ StartsVerilator(g) \/ VerilatorEnds(g)

Next ==
    \/ UserNext \/ SessionNext
    \/ \E g \in Gen : BuildNext(g)
    \/ SimReads \/ SimDies \/ FlashEnds

Spec == Init /\ [][Next]_vars

\* The builds and the tool they run end, and the loop takes what they send.
Fairness ==
    /\ \A g \in Gen : WF_vars(BuildNext(g))
    /\ WF_vars(DropOutcome \/ BuildFailed \/ HotSwap)

FairSpec == Spec /\ Fairness

-----------------------------------------------------------------------------
(* Properties.                                                             *)

TypeOK ==
    /\ phase \in Phase
    /\ next_gen \in 2 .. MaxGen + 1
    /\ stage \in [Gen -> {"none", "prepass", "verilator"}]
    /\ aborted \subseteq Gen
    /\ done \in Seq(Outcome)
    /\ input \in Input
    /\ sim \in Sim
    /\ flash \in {"none", "loading", "loaded"}
    /\ up \in BOOLEAN
    /\ clicks \in 0 .. MaxClicks /\ flashes \in 0 .. MaxFlashes

\* The simulator that runs is the one the state machine believes in: neither a
\* swap, an exit, a failed spawn nor a late build leaves the other generation
\* there (SessionSm and the driver keep this separately).
SimIsOfThePhase ==
    sim.gen # 0 => sim.gen = phase.running

\* A build that nobody waits for has been told to stop, so at most one build
\* runs to its end on its own, and none does after the session ended.
OrphanBuildsAborted ==
    \A g \in Gen :
        stage[g] # "none" /\ (g # phase.next \/ ~up) => g \in aborted

\* While the IDE says it builds, that build runs or its result is on the way:
\* none of the ways a build ends leaves the session compiling for ever.
PendingBuildReports ==
    up /\ phase.next # 0 =>
        \/ stage[phase.next] # "none"
        \/ \E i \in DOMAIN done : done[i].gen = phase.next /\ ~done[i].canceled

\* The pipes between the session and a living simulator are empty.
Settled == up /\ sim.alive /\ sim.cmds = <<>> /\ sim.lines = <<>>

\* Once the pipes are empty, the simulator holds exactly the inputs the session
\* would replay into the next one, whatever swaps, pauses, steps, flashes and
\* late STATE lines of the simulator came between.
InputsAgree ==
    Settled => sim.on = input.on /\ sim.paused = input.paused

\* The session does what RebuildOnSave promises.
Promise ==
    INSTANCE RebuildOnSave WITH
        saved <- next_gen - 1,
        pending <- phase.next # 0,
        shown <- sim.gen,
        open <- up

ShowsOnlyTheNewestSave == Promise!Spec

\* The comment of spawn_flash: the session pauses the simulator first and
\* resumes it when the flash completes.  So after the flash a simulator that the
\* user never touched runs.
FlashResumesSim ==
    Settled /\ flash = "none" /\ clicks = 0 => ~sim.paused
=============================================================================
