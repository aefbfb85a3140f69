-------------------------- MODULE HwSessionProofs --------------------------
(***************************************************************************)
(* The invariants of HwSession hold for any number of builds, inputs and   *)
(* flashes, and the session implements the safety part of RebuildOnSave.   *)
(*                                                                         *)
(* None of the three invariants about builds is inductive by itself.  The  *)
(* strengthening says that generations only grow (what is compared with    *)
(* phase.next is never newer than it), that the build that is waited for   *)
(* has not been aborted, and that a build has ended when its result is in  *)
(* the queue.                                                              *)
(*                                                                         *)
(* The simulator and the session agree on the inputs because of what is in *)
(* the pipes: the last command about a control says where it is, and the   *)
(* last STATE line what the simulator is, or else a command is on its way  *)
(* that the simulator will answer.                                         *)
(***************************************************************************)
EXTENDS HwSession, FiniteSetTheorems, SequenceTheorems, TLAPS

\* Generations only grow, and the one that is waited for is the newest.
Ordered ==
    /\ phase.running < next_gen
    /\ phase.next # 0 => phase.next = next_gen - 1
    /\ \A g \in aborted : g < next_gen
    /\ \A g \in Gen : stage[g] # "none" => g < next_gen

\* The build that is waited for has not been told to stop.
PendingNotAborted == up /\ phase.next # 0 => phase.next \notin aborted

\* A build whose result is in the queue has ended.
ReportedBuildsEnded ==
    \A i \in DOMAIN done : /\ done[i].gen < next_gen
                           /\ stage[done[i].gen] = "none"

IInv ==
    /\ TypeOK /\ Ordered /\ PendingNotAborted /\ ReportedBuildsEnded
    /\ SimIsOfThePhase /\ OrphanBuildsAborted /\ PendingBuildReports

-----------------------------------------------------------------------------
(* The simulator and the commands.                                         *)

\* What is replayed into a new simulator is a sequence of commands.
LEMMA ReplayType ==
    ASSUME NEW in \in Input, NEW replay \in Replay(in)
    PROVE  replay \in Seq(Command)
<1> DEFINE mask == <<[type |-> "setall", on |-> in.on \cap Dip]>>
           pause == IF in.paused THEN <<[type |-> "pause"]>> ELSE <<>>
<1>1. in.on \in SUBSET Control
  BY DEF Input
<1>2. Cardinality(in.on \ Dip) \in Nat
  BY <1>1, ControlsFinite, FS_Subset, FS_CardinalityType
<1>3. PICK rest \in [1 .. Cardinality(in.on \ Dip) -> in.on \ Dip] :
        replay = mask \o [i \in DOMAIN rest |-> Set(rest[i], TRUE)] \o pause
  BY DEF Replay
<1> DEFINE middle == [i \in DOMAIN rest |-> Set(rest[i], TRUE)]
<1>4. mask \in Seq(Command) /\ pause \in Seq(Command)
  <2>1. [type |-> "setall", on |-> in.on \cap Dip] \in Command
    BY <1>1 DEF Command
  <2>2. [type |-> "pause"] \in Command
    BY DEF Command, RunCommand
  <2> QED
    BY <2>1, <2>2
<1>5. middle \in Seq(Command)
  <2>1. ASSUME NEW i \in 1 .. Cardinality(in.on \ Dip)
        PROVE  Set(rest[i], TRUE) \in Command
    <3>1. rest[i] \in Control
      BY <1>1, <1>3, <2>1
    <3> QED
      BY <3>1 DEF Set, Command
  <2>2. middle \in [1 .. Cardinality(in.on \ Dip) -> Command]
    BY <1>3, <2>1
  <2> HIDE DEF middle
  <2>3. ASSUME NEW n \in Nat, middle \in [1 .. n -> Command]
        PROVE  middle \in Seq(Command)
    BY <2>3
  <2> QED
    BY <1>2, <2>2, <2>3
<1>6. mask \o middle \in Seq(Command)
  BY <1>4, <1>5, ConcatProperties
<1>7. (mask \o middle) \o pause \in Seq(Command)
  BY <1>4, <1>6, ConcatProperties
<1> QED
  BY <1>3, <1>7

\* A simulator that was just started is one of the generation built.
LEMMA FreshSimsType ==
    ASSUME input \in Input, NEW gen \in Gen, NEW s \in FreshSims(gen)
    PROVE  s \in Sim /\ s.gen = gen
<1>1. PICK replay \in Replay(input) :
        s = [gen |-> gen, alive |-> TRUE, on |-> {}, paused |-> FALSE,
             cmds |-> replay, lines |-> <<"running">>]
  BY DEF FreshSims
<1>2. replay \in Seq(Command) /\ <<"running">> \in Seq(Report)
  BY ReplayType DEF Report
<1>3. gen \in 0 .. MaxGen
  BY MaxGenPositive DEF Gen
<1> QED
  BY <1>1, <1>2, <1>3 DEF Sim

\* A command that is sent is queued, or lost when no simulator runs.
LEMMA SendType ==
    ASSUME NEW s \in Sim, NEW cmd \in Command
    PROVE  Send(s, cmd) \in Sim /\ Send(s, cmd).gen = s.gen
<1>1. Append(s.cmds, cmd) \in Seq(Command)
  BY DEF Sim
<1> QED
  BY <1>1 DEF Send, Sim

\* A simulator obeys a command without becoming another one.
LEMMA ObeyedType ==
    ASSUME NEW s \in Sim, NEW cmd \in Command
    PROVE  Obeyed(s, cmd) \in Sim /\ Obeyed(s, cmd).gen = s.gen
<1>1. ASSUME NEW r \in Report PROVE Append(s.lines, r) \in Seq(Report)
  BY <1>1 DEF Sim
<1>2. "paused" \in Report /\ "running" \in Report /\ "stepped" \in Report
  BY DEF Report
<1>3. CASE cmd.type = "pause"
  BY <1>1, <1>2, <1>3 DEF Obeyed, Sim
<1>4. CASE cmd.type = "resume"
  BY <1>1, <1>2, <1>4 DEF Obeyed, Sim
<1>5. CASE cmd.type = "step"
  BY <1>1, <1>2, <1>5 DEF Obeyed, Sim
<1>6. CASE cmd.type = "set"
  <2>1. cmd.control \in Control
    BY <1>6 DEF Command, RunCommand
  <2> QED
    BY <1>6, <2>1 DEF Obeyed, Sim
<1>7. CASE cmd.type = "setall"
  <2>1. cmd.on \subseteq Control
    BY <1>7, DipsAreControls DEF Command, RunCommand
  <2> QED
    BY <1>7, <2>1 DEF Obeyed, Sim
<1> QED
  BY <1>3, <1>4, <1>5, <1>6, <1>7 DEF Command, RunCommand

-----------------------------------------------------------------------------
(* The steps that concern the simulator, the inputs and the flash only.    *)

\* What IInv says of builds.
BuildsInv ==
    /\ Ordered /\ PendingNotAborted /\ ReportedBuildsEnded
    /\ SimIsOfThePhase /\ OrphanBuildsAborted /\ PendingBuildReports

\* A step that leaves the builds alone may change what the simulator does, and
\* end it, but not swap it.
LEMMA BuildsKept ==
    ASSUME IInv, UNCHANGED <<phase, next_gen, builds, done, up>>,
           sim'.gen \in {sim.gen, 0}
    PROVE  BuildsInv'
<1>1. Ordered' /\ PendingNotAborted' /\ ReportedBuildsEnded'
  BY DEF IInv, builds, Ordered, PendingNotAborted, ReportedBuildsEnded
<1>2. SimIsOfThePhase' /\ OrphanBuildsAborted' /\ PendingBuildReports'
  BY DEF IInv, builds, SimIsOfThePhase, OrphanBuildsAborted, PendingBuildReports
<1> QED
  BY <1>1, <1>2 DEF BuildsInv

\* The user's inputs: the state is kept, and sent to the simulator if one runs.
LEMMA InputStep ==
    ASSUME IInv,
           \/ \E k \in Control, on \in BOOLEAN : SetControl(k, on)
           \/ \E type \in RunCommand : RunControl(type)
    PROVE  IInv'
<1>1. /\ UNCHANGED <<phase, next_gen, builds, done, flash, up, flashes>>
      /\ clicks' \in 0 .. MaxClicks
  <2>1. Click
    BY DEF SetControl, RunControl
  <2>2. clicks \in 0 .. MaxClicks
    BY DEF IInv, TypeOK
  <2> QED
    BY <2>1, <2>2, BoundsAreNat DEF Click
<1>2. sim \in Sim /\ input \in Input
  BY DEF IInv, TypeOK
<1>3. sim' \in Sim /\ sim'.gen = sim.gen /\ input' \in Input
  <2>1. ASSUME NEW k \in Control, NEW on \in BOOLEAN, SetControl(k, on)
        PROVE  sim' \in Sim /\ sim'.gen = sim.gen /\ input' \in Input
    <3>1. Set(k, on) \in Command
      BY DEF Set, Command
    <3>2. sim' = Send(sim, Set(k, on))
      BY <2>1 DEF SetControl
    <3>3. input' \in Input
      BY <1>2, <2>1 DEF SetControl, Input
    <3> QED
      BY <1>2, <3>1, <3>2, <3>3, SendType
  <2>2. ASSUME NEW type \in RunCommand, RunControl(type)
        PROVE  sim' \in Sim /\ sim'.gen = sim.gen /\ input' \in Input
    <3>1. [type |-> type] \in Command
      BY DEF Command
    <3>2. sim' = Send(sim, [type |-> type])
      BY <2>2 DEF RunControl
    <3>3. input' \in Input
      BY <1>2, <2>2 DEF RunControl, Input
    <3> QED
      BY <1>2, <3>1, <3>2, <3>3, SendType
  <2> QED
    BY <2>1, <2>2
<1>4. TypeOK'
  BY <1>1, <1>3 DEF IInv, TypeOK, builds
<1> QED
  BY <1>1, <1>3, <1>4, BuildsKept DEF IInv, BuildsInv

\* The flash: the simulator is paused, `make load` ends, and it is resumed.
LEMMA FlashStep ==
    ASSUME IInv, Flash \/ FlashDone \/ FlashEnds
    PROVE  IInv'
<1>1. /\ UNCHANGED <<phase, next_gen, builds, done, input, up, clicks>>
      /\ flash' \in {"none", "loading", "loaded"}
      /\ flashes' \in 0 .. MaxFlashes
  BY BoundsAreNat DEF IInv, TypeOK, Flash, FlashDone, FlashEnds, counts
<1>2. sim \in Sim
  BY DEF IInv, TypeOK
<1>3. [type |-> "pause"] \in Command /\ [type |-> "resume"] \in Command
  BY DEF Command, RunCommand
<1>4. sim' \in {sim, Send(sim, [type |-> "pause"]), Send(sim, [type |-> "resume"])}
  BY DEF Flash, FlashDone, FlashEnds
<1>5. sim' \in Sim /\ sim'.gen = sim.gen
  BY <1>2, <1>3, <1>4, SendType
<1>6. TypeOK'
  BY <1>1, <1>5 DEF IInv, TypeOK, builds
<1> QED
  BY <1>1, <1>5, <1>6, BuildsKept DEF IInv, BuildsInv

\* The simulator reads a command, answers, or ends.
LEMMA SimStep ==
    ASSUME IInv, SimReads \/ SimDies
    PROVE  IInv'
<1>1. UNCHANGED <<phase, next_gen, builds, done, input, flash, up, counts>>
  BY DEF SimReads, SimDies
<1>2. sim \in Sim
  BY DEF IInv, TypeOK
<1>3. sim' \in Sim /\ sim'.gen = sim.gen
  <2>1. CASE SimReads
    <3>1. sim.cmds \in Seq(Command) /\ sim.cmds # <<>>
      BY <1>2, <2>1 DEF SimReads, Sim
    <3>2. Head(sim.cmds) \in Command /\ Tail(sim.cmds) \in Seq(Command)
      BY <3>1
    <3> DEFINE s == [sim EXCEPT !.cmds = Tail(@)]
    <3>3. s \in Sim /\ s.gen = sim.gen
      BY <1>2, <3>2 DEF Sim
    <3>4. sim' = Obeyed(s, Head(sim.cmds))
      BY <2>1 DEF SimReads
    <3> HIDE DEF s
    <3> QED
      BY <3>2, <3>3, <3>4, ObeyedType
  <2>2. CASE SimDies
    <3>1. Append(sim.lines, "exited") \in Seq(Report)
      BY <1>2 DEF Sim, Report
    <3> QED
      BY <1>2, <2>2, <3>1 DEF SimDies, Sim
  <2> QED
    BY <2>1, <2>2
<1>4. TypeOK'
  BY <1>1, <1>3 DEF IInv, TypeOK, builds, counts
<1> QED
  BY <1>1, <1>3, <1>4, BuildsKept DEF IInv, BuildsInv

\* A STATE line sets input.paused and nothing else of the session.
LEMMA SimStateStep ==
    ASSUME IInv, SimState
    PROVE  IInv'
<1>1. UNCHANGED <<phase, next_gen, builds, done, flash, up, counts>>
  BY DEF SimState, ReadSim
<1>2. sim \in Sim /\ input \in Input
  BY DEF IInv, TypeOK
<1>3. sim' \in Sim /\ sim'.gen = sim.gen
  <2>1. sim.lines \in Seq(Report) /\ sim.lines # <<>>
    BY <1>2 DEF SimState, ReadSim, Sim
  <2>2. Tail(sim.lines) \in Seq(Report)
    BY <2>1
  <2> QED
    BY <1>2, <2>2 DEF SimState, Sim
<1>4. input' \in Input
  BY <1>2 DEF SimState, Input
<1>5. TypeOK'
  BY <1>1, <1>3, <1>4 DEF IInv, TypeOK, builds, counts
<1> QED
  BY <1>1, <1>3, <1>5, BuildsKept DEF IInv, BuildsInv

-----------------------------------------------------------------------------
(* The steps of the builds.                                                *)

\* The results in the queue are of generations that exist.
LEMMA DoneTypes ==
    ASSUME TypeOK
    PROVE  /\ Len(done) \in Nat /\ DOMAIN done = 1 .. Len(done)
           /\ \A i \in 1 .. Len(done) : done[i] \in Outcome /\ done[i].gen \in Gen
<1>1. done \in Seq(Outcome)
  BY DEF TypeOK
<1>2. /\ Len(done) \in Nat /\ DOMAIN done = 1 .. Len(done)
      /\ \A i \in 1 .. Len(done) : done[i] \in Outcome
  BY <1>1
<1>3. \A o \in Outcome : o.gen \in Gen
  BY DEF Outcome
<1> QED
  BY <1>2, <1>3

\* Before verilator runs, a build fails or goes on to start it; verilator ends
\* by itself, or killed if the build has been aborted.
LEMMA BuildStep ==
    ASSUME IInv, NEW g \in Gen, BuildNext(g)
    PROVE  IInv'
<1>1. UNCHANGED <<phase, next_gen, aborted, input, sim, flash, up, counts>>
  BY DEF BuildNext, PrepassFails, StartsVerilator, VerilatorEnds
<1>2. TypeOK /\ BuildsInv
  BY DEF IInv, BuildsInv
<1>3. stage[g] # "none" /\ g < next_gen
  BY <1>2 DEF BuildNext, PrepassFails, StartsVerilator, VerilatorEnds, BuildsInv,
     Ordered
<1>4. CASE StartsVerilator(g)
  <2>1. stage' = [stage EXCEPT ![g] = "verilator"] /\ done' = done
    BY <1>4 DEF StartsVerilator
  <2>2. stage' \in [Gen -> {"none", "prepass", "verilator"}]
    BY <1>2, <2>1 DEF TypeOK
  <2>3. \A h \in Gen : stage'[h] # "none" <=> stage[h] # "none"
    BY <1>2, <1>3, <2>1 DEF TypeOK
  <2>4. TypeOK'
    BY <1>1, <1>2, <2>1, <2>2 DEF TypeOK, counts
  <2>5. \A i \in DOMAIN done : done[i].gen \in Gen
    BY <1>2, DoneTypes
  <2>6. phase.next # 0 => phase.next \in Gen
    BY <1>2, MaxGenPositive DEF TypeOK, Phase, Gen
  <2>7. Ordered' /\ PendingNotAborted' /\ ReportedBuildsEnded'
    BY <1>1, <1>2, <2>1, <2>3, <2>5 DEF BuildsInv, Ordered, PendingNotAborted,
       ReportedBuildsEnded
  <2>8. SimIsOfThePhase' /\ OrphanBuildsAborted' /\ PendingBuildReports'
    BY <1>1, <1>2, <2>1, <2>3, <2>6 DEF BuildsInv, SimIsOfThePhase,
       OrphanBuildsAborted, PendingBuildReports
  <2> QED
    BY <2>4, <2>7, <2>8 DEF IInv
<1>5. ASSUME NEW ok \in BOOLEAN, NEW canceled \in BOOLEAN,
             Reports(g, ok, canceled), canceled => g \in aborted
      PROVE  IInv'
  <2> DEFINE o == [gen |-> g, ok |-> ok, canceled |-> canceled]
  <2>1. stage' = [stage EXCEPT ![g] = "none"] /\ done' = Append(done, o)
    BY <1>5 DEF Reports
  <2>2. o \in Outcome /\ done \in Seq(Outcome)
    BY <1>2 DEF Outcome, TypeOK
  <2>3. stage' \in [Gen -> {"none", "prepass", "verilator"}]
    BY <1>2, <2>1 DEF TypeOK
  <2>4. /\ stage'[g] = "none"
        /\ \A h \in Gen \ {g} : stage'[h] = stage[h]
    BY <1>2, <2>1 DEF TypeOK
  <2>5. o.gen = g /\ o.canceled = canceled
    OBVIOUS
  <2> HIDE DEF o
  <2>6. /\ done' \in Seq(Outcome) /\ Len(done') = Len(done) + 1
        /\ done'[Len(done) + 1] = o
        /\ \A i \in 1 .. Len(done) : done'[i] = done[i] /\ done[i].gen \in Gen
    <3>1. /\ done' \in Seq(Outcome) /\ Len(done') = Len(done) + 1
          /\ done'[Len(done) + 1] = o
          /\ \A i \in 1 .. Len(done) : done'[i] = done[i]
      BY <2>1, <2>2
    <3> QED
      BY <1>2, <3>1, DoneTypes
  <2>7. DOMAIN done = 1 .. Len(done) /\ DOMAIN done' = 1 .. Len(done) + 1
        /\ Len(done) \in Nat
    BY <2>2, <2>6
  <2>8. TypeOK'
    BY <1>1, <1>2, <2>3, <2>6 DEF TypeOK, counts
  <2>9. Ordered' /\ PendingNotAborted'
    BY <1>1, <1>2, <2>4 DEF BuildsInv, Ordered, PendingNotAborted
  <2>10. ReportedBuildsEnded'
    <3> SUFFICES ASSUME NEW i \in DOMAIN done'
                 PROVE  done'[i].gen < next_gen' /\ stage'[done'[i].gen] = "none"
      BY DEF ReportedBuildsEnded
    <3>1. CASE i = Len(done) + 1
      BY <1>1, <1>3, <2>4, <2>5, <2>6, <3>1
    <3>2. CASE i \in 1 .. Len(done)
      <4>1. done[i].gen < next_gen /\ stage[done[i].gen] = "none"
        BY <1>2, <2>7, <3>2 DEF BuildsInv, ReportedBuildsEnded
      <4> QED
        BY <1>1, <2>4, <2>6, <3>2, <4>1
    <3> QED
      BY <2>7, <3>1, <3>2
  <2>11. SimIsOfThePhase' /\ OrphanBuildsAborted'
    BY <1>1, <1>2, <2>4 DEF BuildsInv, SimIsOfThePhase, OrphanBuildsAborted
  <2>12. PendingBuildReports'
    <3> SUFFICES ASSUME up, phase.next # 0, stage'[phase.next] = "none"
                 PROVE  \E i \in DOMAIN done' : /\ done'[i].gen = phase.next
                                                /\ ~done'[i].canceled
      BY <1>1 DEF PendingBuildReports
    <3>1. phase.next \in Gen
      BY <1>2, MaxGenPositive DEF TypeOK, Phase, Gen
    <3>2. CASE phase.next = g
      <4>1. ~canceled
        BY <1>2, <1>5, <3>2 DEF BuildsInv, PendingNotAborted
      <4> QED
        BY <2>5, <2>6, <2>7, <3>2, <4>1
    <3>3. CASE phase.next # g
      <4>1. stage[phase.next] = "none"
        BY <2>4, <3>1, <3>3
      <4>2. PICK i \in DOMAIN done : done[i].gen = phase.next /\ ~done[i].canceled
        BY <1>2, <4>1 DEF BuildsInv, PendingBuildReports
      <4> QED
        BY <2>6, <2>7, <4>2
    <3> QED
      BY <3>2, <3>3
  <2> QED
    BY <2>8, <2>9, <2>10, <2>11, <2>12 DEF IInv
<1>6. CASE PrepassFails(g)
  BY <1>5, <1>6 DEF PrepassFails
<1>7. CASE VerilatorEnds(g)
  BY <1>5, <1>7 DEF VerilatorEnds
<1> QED
  BY <1>4, <1>6, <1>7 DEF BuildNext

-----------------------------------------------------------------------------
(* The steps of the session's state machine.                               *)

\* The types of what the state machine counts.
LEMMA PhaseTypes ==
    ASSUME TypeOK
    PROVE  /\ next_gen \in Nat /\ next_gen >= 2 /\ next_gen <= MaxGen + 1
           /\ MaxGen \in Nat
           /\ phase.running \in 0 .. MaxGen /\ phase.next \in 0 .. MaxGen
           /\ phase.next # 0 => phase.next \in Gen
BY MaxGenPositive DEF TypeOK, Phase, Gen

\* A save starts the next generation and aborts the one that was waited for.
LEMMA RecompileStep ==
    ASSUME IInv, Recompile
    PROVE  IInv'
<1>1. /\ up /\ next_gen <= MaxGen
      /\ phase' = [phase EXCEPT !.next = next_gen]
      /\ next_gen' = next_gen + 1
      /\ aborted' = aborted \cup ({phase.next} \ {0})
      /\ stage' = [stage EXCEPT ![next_gen] = "prepass"]
      /\ UNCHANGED <<done, input, sim, flash, up, counts>>
  BY DEF Recompile
<1>2. TypeOK /\ BuildsInv
  BY DEF IInv, BuildsInv
<1>3. next_gen \in Gen /\ next_gen \in Nat /\ next_gen # 0
  BY <1>1, <1>2, PhaseTypes DEF Gen
<1>4. phase'.running = phase.running /\ phase'.next = next_gen /\ phase' \in Phase
  BY <1>1, <1>2, <1>3 DEF TypeOK, Phase, Gen
<1>5. /\ stage' \in [Gen -> {"none", "prepass", "verilator"}]
      /\ stage'[next_gen] = "prepass"
      /\ \A g \in Gen \ {next_gen} : stage'[g] = stage[g]
  BY <1>1, <1>2, <1>3 DEF TypeOK
<1>6. aborted' \subseteq Gen
  BY <1>1, <1>2, PhaseTypes DEF TypeOK
<1>7. next_gen' \in 2 .. MaxGen + 1
  BY <1>1, <1>2, PhaseTypes
<1>8. TypeOK'
  BY <1>1, <1>2, <1>4, <1>5, <1>6, <1>7 DEF TypeOK, counts
<1>9. phase.next < next_gen
  BY <1>2, <1>3, PhaseTypes DEF BuildsInv, Ordered
<1>10. Ordered'
  <2>1. phase'.running < next_gen'
    BY <1>1, <1>2, <1>3, <1>4, PhaseTypes DEF BuildsInv, Ordered
  <2>2. phase'.next = next_gen' - 1
    BY <1>1, <1>3, <1>4
  <2>3. \A g \in aborted' : g < next_gen'
    <3> SUFFICES ASSUME NEW g \in aborted' PROVE g < next_gen'
      OBVIOUS
    <3>1. g \in Nat /\ g < next_gen
      BY <1>1, <1>2, <1>6, <1>9, PhaseTypes DEF BuildsInv, Ordered, Gen
    <3> QED
      BY <1>1, <1>3, <3>1
  <2>4. ASSUME NEW g \in Gen, stage'[g] # "none" PROVE g < next_gen'
    <3>1. CASE g = next_gen
      BY <1>1, <1>3, <3>1
    <3>2. CASE g # next_gen
      <4>1. g < next_gen /\ g \in Nat
        BY <1>2, <1>5, <2>4, <3>2 DEF BuildsInv, Ordered, Gen
      <4> QED
        BY <1>1, <1>3, <4>1
    <3> QED
      BY <3>1, <3>2
  <2> QED
    BY <2>1, <2>2, <2>3, <2>4 DEF Ordered
<1>11. PendingNotAborted'
  <2>1. next_gen \notin aborted'
    BY <1>1, <1>2, <1>3, <1>9, PhaseTypes DEF BuildsInv, Ordered
  <2> QED
    BY <1>4, <2>1 DEF PendingNotAborted
<1>12. ReportedBuildsEnded'
  <2> SUFFICES ASSUME NEW i \in DOMAIN done
               PROVE  done[i].gen < next_gen' /\ stage'[done[i].gen] = "none"
    BY <1>1 DEF ReportedBuildsEnded
  <2>1. /\ done[i].gen \in Gen /\ done[i].gen < next_gen
        /\ stage[done[i].gen] = "none"
    BY <1>2, DoneTypes DEF BuildsInv, ReportedBuildsEnded
  <2>2. done[i].gen # next_gen /\ done[i].gen < next_gen'
    BY <1>1, <1>3, <2>1 DEF Gen
  <2> QED
    BY <1>5, <2>1, <2>2
<1>13. SimIsOfThePhase'
  BY <1>1, <1>2, <1>4 DEF BuildsInv, SimIsOfThePhase
<1>14. OrphanBuildsAborted'
  <2> SUFFICES ASSUME NEW g \in Gen, stage'[g] # "none", g # next_gen
               PROVE  g \in aborted'
    BY <1>1, <1>4 DEF OrphanBuildsAborted
  <2>1. stage[g] # "none"
    BY <1>5
  <2>2. g # 0
    BY DEF Gen
  <2> QED
    BY <1>1, <1>2, <2>1, <2>2 DEF BuildsInv, OrphanBuildsAborted
<1>15. PendingBuildReports'
  BY <1>4, <1>5 DEF PendingBuildReports
<1> QED
  BY <1>8, <1>10, <1>11, <1>12, <1>13, <1>14, <1>15 DEF IInv

\* The queue of results loses its head.
LEMMA ReadOutcomeType ==
    ASSUME TypeOK, ReadOutcome
    PROVE  /\ Head(done) \in Outcome
           /\ done' \in Seq(Outcome)
           /\ \A i \in DOMAIN done' : i + 1 \in DOMAIN done /\ done'[i] = done[i + 1]
           /\ \A i \in DOMAIN done : i # 1 => /\ i - 1 \in DOMAIN done'
                                              /\ done'[i - 1] = done[i]
           /\ 1 \in DOMAIN done /\ Head(done) = done[1]
<1>1. done \in Seq(Outcome) /\ done # <<>> /\ done' = Tail(done)
  BY DEF TypeOK, ReadOutcome
<1>2. /\ Len(done) \in Nat /\ Len(done) # 0
      /\ DOMAIN done = 1 .. Len(done) /\ DOMAIN done' = 1 .. Len(done) - 1
      /\ \A i \in 1 .. Len(done) - 1 : done'[i] = done[i + 1]
      /\ done' \in Seq(Outcome) /\ Head(done) \in Outcome /\ Head(done) = done[1]
  BY <1>1
<1> QED
  BY <1>2

\* Reading a result keeps what IInv says of the queue and of the builds' order.
LEMMA ReadOutcomeKeeps ==
    ASSUME IInv, ReadOutcome, phase' \in Phase,
           phase'.running < next_gen,
           phase'.next \in {0, phase.next}
    PROVE  Ordered' /\ PendingNotAborted' /\ ReportedBuildsEnded'
<1>1. TypeOK /\ BuildsInv
  BY DEF IInv, BuildsInv
<1>2. UNCHANGED <<next_gen, stage, aborted, input, flash, up, counts>>
  BY DEF ReadOutcome, builds
<1>3. Ordered'
  BY <1>1, <1>2 DEF BuildsInv, Ordered
<1>4. PendingNotAborted'
  BY <1>1, <1>2 DEF BuildsInv, PendingNotAborted
<1>5. ReportedBuildsEnded'
  BY <1>1, <1>2, ReadOutcomeType DEF BuildsInv, ReportedBuildsEnded
<1> QED
  BY <1>3, <1>4, <1>5

\* A dropped result was not the one that is waited for.
LEMMA DropOutcomeStep ==
    ASSUME IInv, DropOutcome
    PROVE  IInv'
<1>1. /\ ReadOutcome /\ UNCHANGED <<phase, sim>>
      /\ UNCHANGED <<next_gen, stage, aborted, input, flash, up, counts>>
      /\ Head(done).gen = phase.next => Head(done).canceled
  BY DEF DropOutcome, ReadOutcome, Current, builds
<1>2. TypeOK /\ BuildsInv
  BY DEF IInv, BuildsInv
<1>3. TypeOK'
  BY <1>1, <1>2, ReadOutcomeType DEF TypeOK, counts
<1>4. Ordered' /\ PendingNotAborted' /\ ReportedBuildsEnded'
  BY <1>1, <1>2, ReadOutcomeKeeps DEF TypeOK, BuildsInv, Ordered
<1>5. SimIsOfThePhase' /\ OrphanBuildsAborted'
  BY <1>1, <1>2 DEF BuildsInv, SimIsOfThePhase, OrphanBuildsAborted
<1>6. PendingBuildReports'
  <2> SUFFICES ASSUME up, phase.next # 0, stage[phase.next] = "none"
               PROVE  \E i \in DOMAIN done' : /\ done'[i].gen = phase.next
                                              /\ ~done'[i].canceled
    BY <1>1 DEF PendingBuildReports
  <2>1. PICK i \in DOMAIN done : done[i].gen = phase.next /\ ~done[i].canceled
    BY <1>2 DEF BuildsInv, PendingBuildReports
  <2>2. i # 1
    BY <1>1, <1>2, <2>1, ReadOutcomeType
  <2> QED
    BY <1>1, <1>2, <2>1, <2>2, ReadOutcomeType
<1> QED
  BY <1>3, <1>4, <1>5, <1>6 DEF IInv

\* The result that is waited for ends the wait, whatever it says.
LEMMA BuildResultStep ==
    ASSUME IInv, BuildFailed \/ HotSwap
    PROVE  IInv'
<1>1. /\ ReadOutcome
      /\ UNCHANGED <<next_gen, stage, aborted, input, flash, up, counts>>
      /\ Head(done).gen = phase.next
  BY DEF BuildFailed, HotSwap, ReadOutcome, Current, builds
<1>2. TypeOK /\ BuildsInv
  BY DEF IInv, BuildsInv
<1>3. phase.next \in Gen /\ phase.next # 0 /\ phase.next < next_gen
  <2>1. Head(done) \in Outcome
    BY <1>1, <1>2, ReadOutcomeType
  <2>2. phase.next \in Gen
    BY <1>1, <2>1 DEF Outcome
  <2>3. phase.next # 0 /\ phase.next \in Nat
    BY <2>2 DEF Gen
  <2> QED
    BY <1>2, <2>2, <2>3, PhaseTypes DEF BuildsInv, Ordered
<1>4. /\ phase' \in Phase /\ phase'.next = 0 /\ phase'.running < next_gen
      /\ sim' \in Sim /\ (sim'.gen # 0 => sim'.gen = phase'.running)
  <2>1. CASE BuildFailed
    <3>1. phase' = [phase EXCEPT !.next = 0] /\ sim' = sim
      BY <2>1 DEF BuildFailed
    <3>2. phase' \in Phase /\ phase'.next = 0 /\ phase'.running = phase.running
      BY <1>2, <3>1, PhaseTypes DEF TypeOK, Phase
    <3> QED
      BY <1>2, <3>1, <3>2 DEF BuildsInv, Ordered, TypeOK, SimIsOfThePhase
  <2>2. CASE HotSwap
    <3>1. /\ phase' = [running |-> phase.next, next |-> 0]
          /\ sim' \in FreshSims(phase.next) \cup {NoSim}
      BY <1>1, <2>2 DEF HotSwap
    <3>2. phase' \in Phase
      BY <1>2, <3>1, PhaseTypes DEF Phase
    <3>3. NoSim \in Sim /\ NoSim.gen = 0
      BY MaxGenPositive DEF NoSim, Sim
    <3>4. sim' \in Sim /\ sim'.gen \in {0, phase.next}
      BY <1>2, <1>3, <3>1, <3>3, FreshSimsType DEF TypeOK
    <3> QED
      BY <1>3, <3>1, <3>2, <3>4
  <2> QED
    BY <2>1, <2>2
<1>5. TypeOK'
  BY <1>1, <1>2, <1>4, ReadOutcomeType DEF TypeOK, counts
<1>6. Ordered' /\ PendingNotAborted' /\ ReportedBuildsEnded'
  BY <1>1, <1>4, ReadOutcomeKeeps
<1>7. SimIsOfThePhase' /\ PendingBuildReports'
  BY <1>4 DEF SimIsOfThePhase, PendingBuildReports
<1>8. OrphanBuildsAborted'
  <2>1. stage[phase.next] = "none"
    BY <1>1, <1>2, ReadOutcomeType DEF BuildsInv, ReportedBuildsEnded
  <2> QED
    BY <1>1, <1>2, <2>1 DEF BuildsInv, OrphanBuildsAborted
<1> QED
  BY <1>5, <1>6, <1>7, <1>8 DEF IInv

\* The simulator has ended: the builds go on.
LEMMA SimExitedStep ==
    ASSUME IInv, SimExited
    PROVE  IInv'
<1>1. /\ UNCHANGED <<next_gen, stage, aborted, done, input, flash, up, counts>>
      /\ sim' = NoSim /\ phase' = [phase EXCEPT !.running = 0]
  BY DEF SimExited, ReadSim, builds
<1>2. TypeOK /\ BuildsInv
  BY DEF IInv, BuildsInv
<1>3. sim' \in Sim /\ sim'.gen = 0
  BY <1>1, MaxGenPositive DEF NoSim, Sim
<1>4. phase' \in Phase /\ phase'.running = 0 /\ phase'.next = phase.next
  BY <1>1, <1>2, PhaseTypes DEF TypeOK, Phase
<1>5. TypeOK'
  BY <1>1, <1>2, <1>3, <1>4 DEF TypeOK, counts
<1>6. Ordered' /\ PendingNotAborted' /\ ReportedBuildsEnded'
  BY <1>1, <1>2, <1>4, PhaseTypes DEF BuildsInv, Ordered, PendingNotAborted,
     ReportedBuildsEnded
<1>7. SimIsOfThePhase' /\ OrphanBuildsAborted' /\ PendingBuildReports'
  BY <1>1, <1>2, <1>3, <1>4 DEF BuildsInv, SimIsOfThePhase, OrphanBuildsAborted,
     PendingBuildReports
<1> QED
  BY <1>5, <1>6, <1>7 DEF IInv

\* The session ends and aborts the last build it started.
LEMMA StopStep ==
    ASSUME IInv, Stop
    PROVE  IInv'
<1>1. /\ UNCHANGED <<phase, next_gen, stage, done, input, flash, counts>>
      /\ up' = FALSE /\ aborted' = aborted \cup {next_gen - 1} /\ sim' = NoSim
  BY DEF Stop
<1>2. TypeOK /\ BuildsInv
  BY DEF IInv, BuildsInv
<1>3. next_gen - 1 \in Gen /\ next_gen \in Nat
  BY <1>2, PhaseTypes DEF Gen
<1>4. sim' \in Sim /\ sim'.gen = 0
  BY <1>1, MaxGenPositive DEF NoSim, Sim
<1>5. TypeOK'
  BY <1>1, <1>2, <1>3, <1>4 DEF TypeOK, counts
<1>6. Ordered' /\ PendingNotAborted' /\ ReportedBuildsEnded'
  BY <1>1, <1>2, <1>3 DEF BuildsInv, Ordered, PendingNotAborted, ReportedBuildsEnded
<1>7. SimIsOfThePhase' /\ PendingBuildReports'
  BY <1>1, <1>4 DEF SimIsOfThePhase, PendingBuildReports
<1>8. OrphanBuildsAborted'
  <2> SUFFICES ASSUME NEW g \in Gen, stage[g] # "none" PROVE g \in aborted'
    BY <1>1 DEF OrphanBuildsAborted
  <2>1. CASE g = phase.next
    BY <1>1, <1>2, <2>1 DEF BuildsInv, Ordered, Gen
  <2>2. CASE g # phase.next
    BY <1>1, <1>2, <2>2 DEF BuildsInv, OrphanBuildsAborted
  <2> QED
    BY <2>1, <2>2
<1> QED
  BY <1>5, <1>6, <1>7, <1>8 DEF IInv

-----------------------------------------------------------------------------
(* The theorems about the invariants.                                      *)

\* A session starts with the first build and nothing else.
LEMMA InitSound == Init => IInv
<1> SUFFICES ASSUME Init PROVE IInv
  OBVIOUS
<1>1. 1 \in Gen /\ MaxGen \in Nat /\ MaxGen >= 1
  BY MaxGenPositive DEF Gen
<1>2. /\ phase \in Phase /\ phase.running = 0 /\ phase.next = 1 /\ next_gen = 2
  BY <1>1 DEF Init, Phase
<1>3. /\ stage \in [Gen -> {"none", "prepass", "verilator"}]
      /\ stage[1] = "prepass" /\ \A g \in Gen \ {1} : stage[g] = "none"
  BY <1>1 DEF Init
<1>4. sim \in Sim /\ sim.gen = 0
  BY <1>1 DEF Init, NoSim, Sim
<1>5. input \in Input /\ done \in Seq(Outcome) /\ DOMAIN done = {}
  BY DEF Init, Input
<1>6. TypeOK
  BY <1>1, <1>2, <1>3, <1>4, <1>5, BoundsAreNat DEF Init, TypeOK
<1>7. Ordered /\ PendingNotAborted /\ ReportedBuildsEnded
  BY <1>2, <1>3, <1>5 DEF Init, Ordered, PendingNotAborted, ReportedBuildsEnded
<1>8. SimIsOfThePhase /\ OrphanBuildsAborted /\ PendingBuildReports
  BY <1>2, <1>3, <1>4 DEF Init, SimIsOfThePhase, OrphanBuildsAborted,
     PendingBuildReports
<1> QED
  BY <1>6, <1>7, <1>8 DEF IInv

\* Every step of the session and of what runs around it keeps the invariant.
LEMMA NextSound == IInv /\ [Next]_vars => IInv'
<1> SUFFICES ASSUME IInv, [Next]_vars PROVE IInv'
  OBVIOUS
<1>1. CASE UNCHANGED vars
  BY <1>1 DEF vars, counts, builds, IInv, TypeOK, Ordered, PendingNotAborted,
     ReportedBuildsEnded, SimIsOfThePhase, OrphanBuildsAborted, PendingBuildReports
<1>2. CASE UserNext
  BY <1>2, RecompileStep, FlashStep, StopStep, InputStep DEF UserNext
<1>3. CASE SessionNext
  BY <1>3, DropOutcomeStep, BuildResultStep, FlashStep, SimStateStep, SimExitedStep
  DEF SessionNext
<1>4. CASE \E g \in Gen : BuildNext(g)
  BY <1>4, BuildStep
<1>5. CASE SimReads \/ SimDies \/ FlashEnds
  BY <1>5, SimStep, FlashStep
<1> QED
  BY <1>1, <1>2, <1>3, <1>4, <1>5 DEF Next

\* The inductive invariant of the session holds in every reachable state.
THEOREM Invariance == Spec => []IInv
<1> QED
  BY InitSound, NextSound, PTL DEF Spec

\* The session's state, its queues and its simulator keep their types.
THEOREM TypeCorrect == Spec => []TypeOK
<1>1. IInv => TypeOK
  BY DEF IInv
<1> QED
  BY <1>1, Invariance, PTL

\* The simulator on screen is the one SessionSm believes in, after any number
\* of builds, swaps, exits and failed spawns.
THEOREM SimCorrect == Spec => []SimIsOfThePhase
<1>1. IInv => SimIsOfThePhase
  BY DEF IInv
<1> QED
  BY <1>1, Invariance, PTL

\* Of the builds the session started, only the one it waits for has not been
\* told to stop.
THEOREM OrphansCorrect == Spec => []OrphanBuildsAborted
<1>1. IInv => OrphanBuildsAborted
  BY DEF IInv
<1> QED
  BY <1>1, Invariance, PTL

\* The build that the session waits for runs, or its result is in the queue.
THEOREM PendingCorrect == Spec => []PendingBuildReports
<1>1. IInv => PendingBuildReports
  BY DEF IInv
<1> QED
  BY <1>1, Invariance, PTL

-----------------------------------------------------------------------------
(* The session implements the safety part of RebuildOnSave.                *)

\* The session starts like the promise: save 1 is waiting and nothing is shown.
LEMMA InitRefines == Init => Promise!Init
BY DEF Init, Promise!Init, NoSim

\* Every step is a step of the promise or a stutter: a save is Save, a swap is
\* Show, a failed build is Refuse, an exit is Lose and the end is Close.
LEMMA NextRefines ==
    ASSUME IInv, [Next]_vars
    PROVE  [Promise!Next]_(Promise!vars)
<1>1. TypeOK /\ BuildsInv
  BY DEF IInv, BuildsInv
<1>2. ASSUME UNCHANGED <<next_gen, phase, up>>, sim'.gen = sim.gen
      PROVE  UNCHANGED Promise!vars
  BY <1>2 DEF Promise!vars
<1>3. sim \in Sim
  BY <1>1 DEF TypeOK
<1>4. CASE UNCHANGED vars
  BY <1>2, <1>4 DEF vars
<1>5. CASE Recompile
  <2>1. phase'.next # 0 /\ next_gen' - 1 = (next_gen - 1) + 1
    BY <1>1, <1>5, PhaseTypes DEF Recompile, TypeOK, Phase
  <2>2. up /\ up' = up /\ sim' = sim
    BY <1>5 DEF Recompile
  <2>3. Promise!Save
    BY <2>1, <2>2 DEF Promise!Save
  <2> QED
    BY <2>3 DEF Promise!Next
<1>6. CASE Stop
  <2>1. Promise!Close
    BY <1>6 DEF Stop, NoSim, Promise!Close
  <2> QED
    BY <2>1 DEF Promise!Next
<1>7. CASE BuildFailed \/ HotSwap
  <2>1. /\ ReadOutcome /\ up /\ UNCHANGED <<next_gen, up>>
        /\ Head(done).gen = phase.next
    BY <1>7 DEF BuildFailed, HotSwap, ReadOutcome, Current
  <2>2. Head(done) \in Outcome
    BY <1>1, <2>1, ReadOutcomeType
  <2>3. phase.next \in Gen /\ phase.next # 0
    BY <2>1, <2>2 DEF Outcome, Gen
  <2>4. phase.next = next_gen - 1
    BY <1>1, <2>3 DEF BuildsInv, Ordered
  <2>5. CASE BuildFailed
    <3>1. phase'.next = 0 /\ sim' = sim
      BY <1>1, <2>5 DEF BuildFailed, TypeOK, Phase
    <3>2. Promise!Refuse
      BY <2>1, <2>3, <3>1 DEF Promise!Refuse
    <3> QED
      BY <3>2 DEF Promise!Next, Promise!Resolve
  <2>6. CASE HotSwap
    <3>1. phase'.next = 0 /\ sim' \in FreshSims(phase.next) \cup {NoSim}
      BY <2>1, <2>6 DEF HotSwap
    <3>2. sim'.gen \in {next_gen - 1, 0}
      BY <1>1, <2>3, <2>4, <3>1, FreshSimsType DEF NoSim, TypeOK
    <3>3. Promise!Show
      BY <2>1, <2>3, <3>1, <3>2 DEF Promise!Show
    <3> QED
      BY <3>3 DEF Promise!Next, Promise!Resolve
  <2> QED
    BY <1>7, <2>5, <2>6
<1>8. CASE SimExited
  <2>1. /\ up /\ UNCHANGED <<next_gen, up>> /\ phase'.next = phase.next
        /\ sim'.gen = 0
    BY <1>1, <1>8 DEF SimExited, ReadSim, NoSim, TypeOK, Phase
  <2>2. CASE sim.gen = 0
    BY <2>1, <2>2 DEF Promise!vars
  <2>3. CASE sim.gen # 0
    <3>1. Promise!Lose
      BY <2>1, <2>3 DEF Promise!Lose
    <3> QED
      BY <3>1 DEF Promise!Next
  <2> QED
    BY <2>2, <2>3
<1>9. CASE DropOutcome
  BY <1>2, <1>9 DEF DropOutcome, ReadOutcome
<1>10. CASE SimState
  <2>1. sim'.gen = sim.gen /\ UNCHANGED <<next_gen, phase, up>>
    BY <1>3, <1>10 DEF SimState, ReadSim, Sim
  <2> QED
    BY <1>2, <2>1
<1>11. CASE Flash \/ FlashDone \/ FlashEnds
  <2>1. UNCHANGED <<next_gen, phase, up>>
    BY <1>11 DEF Flash, FlashDone, FlashEnds
  <2>2. sim' \in {sim, Send(sim, [type |-> "pause"]), Send(sim, [type |-> "resume"])}
    BY <1>11 DEF Flash, FlashDone, FlashEnds
  <2>3. sim'.gen = sim.gen
    BY <1>3, <2>2, SendType DEF Command, RunCommand
  <2> QED
    BY <1>2, <2>1, <2>3
<1>12. ASSUME NEW k \in Control, NEW on \in BOOLEAN, SetControl(k, on)
       PROVE  UNCHANGED Promise!vars
  <2>1. UNCHANGED <<next_gen, phase, up>>
    BY <1>12 DEF SetControl, Click
  <2>2. Set(k, on) \in Command /\ sim' = Send(sim, Set(k, on))
    BY <1>12 DEF SetControl, Set, Command
  <2> QED
    BY <1>2, <1>3, <2>1, <2>2, SendType
<1>13. ASSUME NEW type \in RunCommand, RunControl(type)
       PROVE  UNCHANGED Promise!vars
  <2>1. UNCHANGED <<next_gen, phase, up>>
    BY <1>13 DEF RunControl, Click
  <2>2. [type |-> type] \in Command /\ sim' = Send(sim, [type |-> type])
    BY <1>13 DEF RunControl, Command
  <2> QED
    BY <1>2, <1>3, <2>1, <2>2, SendType
<1>14. ASSUME NEW g \in Gen, BuildNext(g)
       PROVE  UNCHANGED Promise!vars
  BY <1>2, <1>14 DEF BuildNext, PrepassFails, StartsVerilator, VerilatorEnds
<1>15. CASE SimReads
  <2>1. sim.cmds \in Seq(Command) /\ sim.cmds # <<>>
    BY <1>3, <1>15 DEF SimReads, Sim
  <2>2. Head(sim.cmds) \in Command /\ Tail(sim.cmds) \in Seq(Command)
    BY <2>1
  <2> DEFINE s == [sim EXCEPT !.cmds = Tail(@)]
  <2>3. s \in Sim /\ s.gen = sim.gen
    BY <1>3, <2>2 DEF Sim
  <2>4. sim' = Obeyed(s, Head(sim.cmds)) /\ UNCHANGED <<next_gen, phase, up>>
    BY <1>15 DEF SimReads
  <2> HIDE DEF s
  <2> QED
    BY <1>2, <2>2, <2>3, <2>4, ObeyedType
<1>16. CASE SimDies
  <2>1. sim'.gen = sim.gen /\ UNCHANGED <<next_gen, phase, up>>
    BY <1>3, <1>16 DEF SimDies, Sim
  <2> QED
    BY <1>2, <2>1
<1> QED
  BY <1>4, <1>5, <1>6, <1>7, <1>8, <1>9, <1>10, <1>11, <1>12, <1>13, <1>14,
     <1>15, <1>16 DEF Next, UserNext, SessionNext

\* Hardware mode keeps the safety part of its promise: a build is shown only
\* when it is that of the newest save and that save was waiting.
THEOREM ImplementsRebuildOnSave == Spec => Promise!SafetySpec
<1>1. IInv /\ [Next]_vars => [Promise!Next]_(Promise!vars)
  BY NextRefines
<1> QED
  BY InitRefines, <1>1, Invariance, PTL DEF Spec, Promise!SafetySpec


-----------------------------------------------------------------------------
(* The inputs and the simulator.                                           *)

\* A command says where control k is, or nothing of it.
Touches(cmd, k) ==
    \/ cmd.type = "set" /\ cmd.control = k
    \/ cmd.type = "setall" /\ k \in Dip

Gives(cmd, k) == IF cmd.type = "set" THEN cmd.on = TRUE ELSE k \in cmd.on

\* Where control k is once the simulator has read its commands: the last command
\* that touches it says so, and if there is none it is already there.
Comes(cmds, on, to, k) ==
    /\ (\A j \in DOMAIN cmds : ~Touches(cmds[j], k)) => (k \in on <=> k \in to)
    /\ \A j \in DOMAIN cmds :
         /\ Touches(cmds[j], k)
         /\ \A i \in DOMAIN cmds : i > j => ~Touches(cmds[i], k)
         => (Gives(cmds[j], k) <=> k \in to)

\* A command that the simulator answers when it is in this state.
Answered(cmd, paused) ==
    \/ cmd.type = "step"
    \/ cmd.type = "pause" /\ ~paused
    \/ cmd.type = "resume" /\ paused

\* The last STATE line on its way tells what the simulator is; without one, the
\* session knows it, or a command that will be answered is on its way.
PauseComes ==
    /\ sim.lines # <<>> => (sim.lines[Len(sim.lines)] # "running" <=> sim.paused = TRUE)
    /\ sim.lines = <<>> =>
         \/ sim.paused = input.paused
         \/ \E j \in DOMAIN sim.cmds : Answered(sim.cmds[j], sim.paused)

InputsCome ==
    sim.alive => /\ sim.gen # 0 /\ PauseComes
                 /\ \A k \in Control : Comes(sim.cmds, sim.on, input.on, k)

LEMMA AppendAgrees ==
    ASSUME NEW S, NEW s \in Seq(S), NEW e \in S
    PROVE  /\ Append(s, e) \in Seq(S)
           /\ DOMAIN s \subseteq Nat /\ Len(s) + 1 \in Nat
           /\ \A k \in DOMAIN s : k \in DOMAIN Append(s, e) /\ Append(s, e)[k] = s[k] /\ k < Len(s) + 1
           /\ \A k \in DOMAIN Append(s, e) : k \in DOMAIN s \/ k = Len(s) + 1
           /\ Len(s) + 1 \in DOMAIN Append(s, e) /\ Append(s, e)[Len(s) + 1] = e
  OBVIOUS

LEMMA TailAgrees ==
    ASSUME NEW S, NEW s \in Seq(S), s # <<>>
    PROVE  /\ Head(s) \in S /\ Tail(s) \in Seq(S)
           /\ 1 \in DOMAIN s /\ Head(s) = s[1]
           /\ DOMAIN s \subseteq Nat \ {0} /\ DOMAIN Tail(s) \subseteq Nat \ {0}
           /\ \A k \in DOMAIN Tail(s) : k + 1 \in DOMAIN s /\ Tail(s)[k] = s[k + 1]
           /\ \A k \in DOMAIN s : k = 1 \/ (k - 1 \in DOMAIN Tail(s) /\ Tail(s)[k - 1] = s[k])
  OBVIOUS

\* A command that is sent: either it is about the control, or nothing changes for it.
LEMMA AppendComes ==
    ASSUME NEW cmds \in Seq(Command), NEW cmd \in Command, NEW on, NEW to, NEW new, NEW k,
           \/ Touches(cmd, k) /\ (Gives(cmd, k) <=> k \in new)
           \/ ~Touches(cmd, k) /\ Comes(cmds, on, to, k) /\ (k \in new <=> k \in to)
    PROVE  Comes(Append(cmds, cmd), on, new, k)
<1> DEFINE all == Append(cmds, cmd)
           last == Len(cmds) + 1
<1>1. /\ DOMAIN cmds \subseteq Nat /\ last \in Nat
      /\ \A j \in DOMAIN cmds : j \in DOMAIN all /\ all[j] = cmds[j] /\ j < last
      /\ \A j \in DOMAIN all : j \in DOMAIN cmds \/ j = last
      /\ last \in DOMAIN all /\ all[last] = cmd
  BY AppendAgrees
<1> HIDE DEF all, last
<1>2. CASE Touches(cmd, k) /\ (Gives(cmd, k) <=> k \in new)
  <2>1. ~\A j \in DOMAIN all : ~Touches(all[j], k)
    BY <1>1, <1>2
  <2>2. ASSUME NEW j \in DOMAIN all, \A i \in DOMAIN all : i > j => ~Touches(all[i], k)
        PROVE  Gives(all[j], k) <=> k \in new
    <3>1. j = last
      BY <1>1, <1>2, <2>2
    <3> QED
      BY <1>1, <1>2, <3>1
  <2>3. Comes(all, on, new, k)
    BY <2>1, <2>2 DEF Comes
  <2> QED
    BY <2>3 DEF all
<1>3. CASE ~Touches(cmd, k) /\ Comes(cmds, on, to, k) /\ (k \in new <=> k \in to)
  <2>1. ASSUME \A j \in DOMAIN all : ~Touches(all[j], k)
        PROVE  k \in on <=> k \in new
    <3>1. \A j \in DOMAIN cmds : ~Touches(cmds[j], k)
      BY <1>1, <2>1
    <3> QED
      BY <1>3, <3>1 DEF Comes
  <2>2. ASSUME NEW j \in DOMAIN all, Touches(all[j], k),
               \A i \in DOMAIN all : i > j => ~Touches(all[i], k)
        PROVE  Gives(all[j], k) <=> k \in new
    <3>1. j \in DOMAIN cmds /\ all[j] = cmds[j]
      BY <1>1, <1>3, <2>2
    <3>2. \A i \in DOMAIN cmds : i > j => ~Touches(cmds[i], k)
      BY <1>1, <2>2
    <3> QED
      BY <1>3, <2>2, <3>1, <3>2 DEF Comes
  <2>3. Comes(all, on, new, k)
    BY <2>1, <2>2 DEF Comes
  <2> QED
    BY <2>3 DEF all
<1> QED
  BY <1>2, <1>3

\* A command that is obeyed.
LEMMA TailComes ==
    ASSUME NEW cmds \in Seq(Command), cmds # <<>>, NEW on, NEW to, NEW new, NEW k,
           Comes(cmds, on, to, k),
           Touches(Head(cmds), k) => (k \in new <=> Gives(Head(cmds), k)),
           ~Touches(Head(cmds), k) => (k \in new <=> k \in on)
    PROVE  Comes(Tail(cmds), new, to, k)
<1> DEFINE rest == Tail(cmds)
           first == Head(cmds)
<1>1. /\ 1 \in DOMAIN cmds /\ first = cmds[1]
      /\ DOMAIN cmds \subseteq Nat \ {0} /\ DOMAIN rest \subseteq Nat \ {0}
      /\ \A j \in DOMAIN rest : j + 1 \in DOMAIN cmds /\ rest[j] = cmds[j + 1]
      /\ \A j \in DOMAIN cmds : j = 1 \/ (j - 1 \in DOMAIN rest /\ rest[j - 1] = cmds[j])
  BY TailAgrees
<1> HIDE DEF rest, first
<1>2. ASSUME \A j \in DOMAIN rest : ~Touches(rest[j], k)
      PROVE  k \in new <=> k \in to
  <2>1. \A j \in DOMAIN cmds : j = 1 \/ ~Touches(cmds[j], k)
    BY <1>1, <1>2
  <2>2. CASE Touches(first, k)
    <3>1. \A i \in DOMAIN cmds : i > 1 => ~Touches(cmds[i], k)
      BY <2>1
    <3>2. Gives(first, k) <=> k \in to
      BY <1>1, <2>2, <3>1 DEF Comes
    <3> QED
      BY <2>2, <3>2 DEF first
  <2>3. CASE ~Touches(first, k)
    <3>1. \A j \in DOMAIN cmds : ~Touches(cmds[j], k)
      BY <1>1, <2>1, <2>3
    <3> QED
      BY <2>3, <3>1 DEF Comes, first
  <2> QED
    BY <2>2, <2>3
<1>3. ASSUME NEW j \in DOMAIN rest, Touches(rest[j], k),
             \A i \in DOMAIN rest : i > j => ~Touches(rest[i], k)
      PROVE  Gives(rest[j], k) <=> k \in to
  <2>1. j + 1 \in DOMAIN cmds /\ rest[j] = cmds[j + 1] /\ j \in Nat
    BY <1>1
  <2>2. ASSUME NEW i \in DOMAIN cmds, i > j + 1 PROVE ~Touches(cmds[i], k)
    <3>1. i \in Nat /\ i # 1 /\ i - 1 > j
      BY <1>1, <2>1, <2>2
    <3>2. i - 1 \in DOMAIN rest /\ rest[i - 1] = cmds[i]
      BY <1>1, <3>1
    <3> QED
      BY <1>3, <3>1, <3>2
  <2> QED
    BY <1>3, <2>1, <2>2 DEF Comes
<1>4. Comes(rest, new, to, k)
  BY <1>2, <1>3 DEF Comes
<1> QED
  BY <1>4 DEF rest

LEMMA ConcatElements ==
    ASSUME NEW S, NEW s \in Seq(S), NEW t \in Seq(S)
    PROVE  /\ s \o t \in Seq(S) /\ Len(s \o t) = Len(s) + Len(t)
           /\ \A i \in 1 .. Len(s) : (s \o t)[i] = s[i]
           /\ \A i \in 1 .. Len(t) : (s \o t)[Len(s) + i] = t[i]
  OBVIOUS

LEMMA OneFirst ==
    ASSUME NEW S, NEW a \in S, NEW m \in Seq(S), NEW one \in Seq(S), one = <<a>>,
           NEW h \in Seq(S), h = one \o m
    PROVE  /\ Len(h) = 1 + Len(m) /\ h[1] = a
           /\ \A i \in 1 .. Len(m) : h[i + 1] = m[i]
<1>1. Len(one) = 1 /\ one[1] = a /\ Len(m) \in Nat
  OBVIOUS
<1>2. /\ Len(h) = Len(one) + Len(m)
      /\ \A i \in 1 .. Len(one) : h[i] = one[i]
      /\ \A i \in 1 .. Len(m) : h[Len(one) + i] = m[i]
  BY ConcatElements
<1>3. ASSUME NEW i \in 1 .. Len(m) PROVE h[i + 1] = m[i]
  <2>1. Len(one) + i = i + 1
    BY <1>1
  <2>2. h[Len(one) + i] = m[i]
    BY <1>2
  <2> QED
    BY <2>1, <2>2
<1>4. h[1] = a
  <2>1. 1 \in 1 .. Len(one)
    BY <1>1
  <2> QED
    BY <1>1, <1>2, <2>1
<1> QED
  BY <1>1, <1>2, <1>3, <1>4

LEMMA ThreeParts ==
    ASSUME NEW S, NEW a \in S, NEW m \in Seq(S), NEW p \in Seq(S),
           NEW s, s = (<<a>> \o m) \o p
    PROVE  /\ Len(s) = 1 + Len(m) + Len(p) /\ DOMAIN s = 1 .. 1 + Len(m) + Len(p)
           /\ s[1] = a
           /\ \A i \in 1 .. Len(m) : s[i + 1] = m[i]
           /\ \A i \in 1 .. Len(p) : s[Len(m) + 1 + i] = p[i]
<1>1. Len(m) \in Nat /\ Len(p) \in Nat
  OBVIOUS
<1>2. PICK one \in Seq(S) : one = <<a>>
  <2>1. <<a>> \in Seq(S)
    OBVIOUS
  <2> QED
    BY <2>1
<1>3. PICK h \in Seq(S) : h = one \o m
  BY ConcatElements
<1>4. Len(h) = 1 + Len(m) /\ h[1] = a /\ \A i \in 1 .. Len(m) : h[i + 1] = m[i]
  BY <1>2, <1>3, OneFirst
<1>5. s = h \o p
  BY <1>2, <1>3
<1>6. /\ s \in Seq(S) /\ Len(s) = Len(h) + Len(p)
      /\ \A i \in 1 .. Len(h) : s[i] = h[i]
      /\ \A i \in 1 .. Len(p) : s[Len(h) + i] = p[i]
  <2>1. s \in Seq(S) /\ Len(s) = Len(h) + Len(p)
    BY <1>5, ConcatProperties
  <2>2. \A i \in 1 .. Len(h) : s[i] = h[i]
    BY <1>5
  <2>3. \A i \in 1 .. Len(p) : s[Len(h) + i] = p[i]
    BY <1>5
  <2> QED
    BY <2>1, <2>2, <2>3
<1>7. s[1] = a /\ \A i \in 1 .. Len(m) : s[i + 1] = m[i]
  BY <1>1, <1>4, <1>6
<1>8. \A i \in 1 .. Len(p) : s[Len(m) + 1 + i] = p[i]
  <2>1. ASSUME NEW i \in 1 .. Len(p) PROVE s[Len(m) + 1 + i] = p[i]
    <3>1. Len(h) + i = Len(m) + 1 + i
      BY <1>1, <1>4
    <3> QED
      BY <1>6, <3>1
  <2> QED
    BY <2>1
<1>9. Len(s) = 1 + Len(m) + Len(p)
  BY <1>4, <1>6
<1>10. DOMAIN s = 1 .. Len(s)
  BY <1>6
<1> QED
  BY <1>7, <1>8, <1>9, <1>10

\* What InputState::replay_commands sends.
LEMMA ReplayElements ==
    ASSUME NEW in \in Input, NEW replay \in Replay(in)
    PROVE  /\ replay \in Seq(Command)
           /\ 1 \in DOMAIN replay /\ replay[1] = [type |-> "setall", on |-> in.on \cap Dip]
           /\ \A j \in DOMAIN replay :
                j = 1 \/ replay[j] = [type |-> "pause"] \/ \E k \in in.on \ Dip : replay[j] = Set(k, TRUE)
           /\ \A k \in in.on \ Dip : \E j \in DOMAIN replay : replay[j] = Set(k, TRUE)
           /\ in.paused => \E j \in DOMAIN replay : replay[j] = [type |-> "pause"]
<1> DEFINE n == Cardinality(in.on \ Dip)
           all == [type |-> "setall", on |-> in.on \cap Dip]
           stop == [type |-> "pause"]
           mask == <<all>>
           pause == IF in.paused THEN <<stop>> ELSE <<>>
<1>1. n \in Nat
  BY ControlsFinite, FS_Subset, FS_CardinalityType DEF Input
<1>2. PICK rest \in [1 .. n -> in.on \ Dip] :
        /\ \A k \in in.on \ Dip : \E i \in DOMAIN rest : rest[i] = k
        /\ replay = mask \o [i \in DOMAIN rest |-> Set(rest[i], TRUE)] \o pause
  BY DEF Replay
<1> DEFINE middle == [i \in 1 .. n |-> Set(rest[i], TRUE)]
<1>3. replay = (mask \o middle) \o pause /\ in.paused \in BOOLEAN
  BY <1>2 DEF Input
<1>4. all \in Command /\ stop \in Command /\ \A k \in in.on : Set(k, TRUE) \in Command
  BY DEF Input, Command, RunCommand, Set
<1> HIDE DEF all, stop
<1>5. /\ pause \in Seq(Command) /\ Len(pause) = (IF in.paused THEN 1 ELSE 0)
      /\ in.paused => pause[1] = stop
  <2>1. CASE in.paused
    BY <1>4, <2>1
  <2>2. CASE ~in.paused
    BY <2>2
  <2> QED
    BY <2>1, <2>2
<1>6. /\ middle \in [1 .. n -> Command]
      /\ \A i \in 1 .. n : middle[i] = Set(rest[i], TRUE) /\ rest[i] \in in.on \ Dip
  BY <1>2, <1>4
<1> HIDE DEF mask, middle, pause, n
<1>7. middle \in Seq(Command) /\ Len(middle) = n
  BY <1>1, <1>6
<1>8. replay = (<<all>> \o middle) \o pause
  BY <1>3 DEF mask
<1>9. /\ Len(replay) = 1 + n + Len(pause) /\ DOMAIN replay = 1 .. 1 + n + Len(pause)
      /\ replay[1] = all
      /\ \A i \in 1 .. n : replay[i + 1] = middle[i]
      /\ \A i \in 1 .. Len(pause) : replay[n + 1 + i] = pause[i]
  <2> DEFINE lm == Len(middle)
             lp == Len(pause)
  <2>0. all \in Command /\ middle \in Seq(Command) /\ pause \in Seq(Command)
        /\ replay = (<<all>> \o middle) \o pause
    BY <1>4, <1>5, <1>7, <1>8
  <2>1. /\ Len(replay) = 1 + lm + lp /\ DOMAIN replay = 1 .. 1 + lm + lp
        /\ replay[1] = all
        /\ \A i \in 1 .. lm : replay[i + 1] = middle[i]
        /\ \A i \in 1 .. lp : replay[lm + 1 + i] = pause[i]
    BY <2>0, ThreeParts
  <2>2. lm = n /\ lp = Len(pause)
    BY <1>7
  <2> HIDE DEF lm, lp
  <2> QED
    BY <2>1, <2>2
<1>10. Len(pause) \in {0, 1} /\ (Len(pause) = 1 => in.paused)
  BY <1>3, <1>5
<1>11. 1 \in DOMAIN replay /\ replay[1] = all
  BY <1>1, <1>9, <1>10
<1>12. \A i \in 1 .. n : i + 1 \in DOMAIN replay /\ replay[i + 1] = Set(rest[i], TRUE)
  <2>1. ASSUME NEW i \in 1 .. n PROVE i + 1 \in 1 .. 1 + n + Len(pause)
    BY <1>1, <1>10
  <2> QED
    BY <1>6, <1>9, <2>1
<1>13. in.paused => n + 2 \in DOMAIN replay /\ replay[n + 2] = stop
  <2>1. ASSUME in.paused PROVE n + 2 \in DOMAIN replay /\ replay[n + 1 + 1] = stop
    BY <1>1, <1>5, <1>9, <2>1
  <2>2. n + 1 + 1 = n + 2
    BY <1>1
  <2> QED
    BY <2>1, <2>2
<1>14. ASSUME NEW j \in DOMAIN replay
       PROVE  j = 1 \/ replay[j] = stop \/ \E k \in in.on \ Dip : replay[j] = Set(k, TRUE)
  <2>1. CASE j = 1
    BY <2>1
  <2>2. CASE j \in 2 .. n + 1
    <3>1. j - 1 \in 1 .. n
      BY <1>1, <2>2
    <3>2. (j - 1) + 1 = j
      BY <2>2, <1>1
    <3> QED
      BY <1>6, <1>12, <3>1, <3>2
  <2>3. CASE j = n + 2
    <3>1. in.paused
      BY <1>1, <1>9, <1>10, <2>3
    <3> QED
      BY <1>13, <2>3, <3>1
  <2>4. j \in Nat /\ 1 <= j /\ j <= n + 2
    BY <1>1, <1>9, <1>10
  <2>5. j = 1 \/ j \in 2 .. n + 1 \/ j = n + 2
    BY <1>1, <2>4
  <2> QED
    BY <2>1, <2>2, <2>3, <2>5
<1>15. ASSUME NEW k \in in.on \ Dip PROVE \E j \in DOMAIN replay : replay[j] = Set(k, TRUE)
  <2>1. PICK i \in 1 .. n : rest[i] = k
    BY <1>2
  <2> QED
    BY <1>12, <2>1
<1>16. replay \in Seq(Command)
  BY ReplayType
<1> QED
  BY <1>11, <1>13, <1>14, <1>15, <1>16 DEF all, stop

\* A simulator that was just started gets the inputs.
LEMMA ReplayComes ==
    ASSUME NEW in \in Input, NEW replay \in Replay(in), NEW k \in Control
    PROVE  Comes(replay, {}, in.on, k)
<1> DEFINE all == [type |-> "setall", on |-> in.on \cap Dip]
<1>1. /\ 1 \in DOMAIN replay /\ replay[1] = all
      /\ \A j \in DOMAIN replay :
           j = 1 \/ replay[j] = [type |-> "pause"] \/ \E c \in in.on \ Dip : replay[j] = Set(c, TRUE)
      /\ \A c \in in.on \ Dip : \E j \in DOMAIN replay : replay[j] = Set(c, TRUE)
  BY ReplayElements
<1>2. /\ Touches(all, k) <=> k \in Dip
      /\ ~Touches([type |-> "pause"], k)
      /\ \A c : Touches(Set(c, TRUE), k) <=> c = k
      /\ Gives(all, k) <=> k \in in.on \cap Dip
      /\ Gives(Set(k, TRUE), k)
  BY DEF Touches, Gives, Set
<1> HIDE DEF all
<1>3. ASSUME \A j \in DOMAIN replay : ~Touches(replay[j], k)
      PROVE  k \notin in.on
  <2>1. k \notin Dip
    BY <1>1, <1>2, <1>3
  <2> QED
    BY <1>1, <1>2, <1>3, <2>1
<1>4. ASSUME NEW j \in DOMAIN replay, Touches(replay[j], k)
      PROVE  Gives(replay[j], k) <=> k \in in.on
  <2>1. CASE j = 1
    BY <1>1, <1>2, <1>4, <2>1
  <2>2. CASE j # 1
    <3>1. PICK c \in in.on \ Dip : replay[j] = Set(c, TRUE)
      BY <1>1, <1>2, <1>4, <2>2
    <3>2. c = k
      BY <1>2, <1>4, <3>1
    <3> QED
      BY <1>2, <3>1, <3>2
  <2> QED
    BY <2>1, <2>2
<1> QED
  BY <1>3, <1>4 DEF Comes

\* What the simulator does with a command.
Effect(t, s, cmd) ==
    /\ t.gen = s.gen /\ t.alive = s.alive /\ t.cmds = s.cmds
    /\ \A k \in Control :
         /\ Touches(cmd, k) => (k \in t.on <=> Gives(cmd, k))
         /\ ~Touches(cmd, k) => (k \in t.on <=> k \in s.on)
    /\ Answered(cmd, s.paused) =>
         \E r \in Report : t.lines = Append(s.lines, r) /\ (r # "running" <=> t.paused = TRUE)
    /\ ~Answered(cmd, s.paused) => t.lines = s.lines /\ t.paused = s.paused

LEMMA ObeyedEffect ==
    ASSUME NEW s \in Sim, NEW cmd \in Command, NEW t, t = Obeyed(s, cmd)
    PROVE  Effect(t, s, cmd)
<1> USE DEF Effect
<1>1. "paused" \in Report /\ "running" \in Report /\ "stepped" \in Report
  BY DEF Report
<1>2. s.paused \in BOOLEAN
  BY DEF Sim
<1>3. CASE cmd.type = "pause"
  <2>1. \A k : ~Touches(cmd, k)
    BY <1>3 DEF Touches
  <2>2. CASE s.paused
    <3>1. t = s /\ ~Answered(cmd, s.paused)
      BY <1>3, <2>2 DEF Obeyed, Answered
    <3> QED
      BY <2>1, <3>1
  <2>3. CASE ~s.paused
    <3>1. t = [s EXCEPT !.paused = TRUE, !.lines = Append(s.lines, "paused")]
          /\ Answered(cmd, s.paused)
      BY <1>3, <2>3 DEF Obeyed, Answered
    <3>2. /\ t.gen = s.gen /\ t.alive = s.alive /\ t.cmds = s.cmds /\ t.on = s.on
          /\ t.paused = TRUE /\ t.lines = Append(s.lines, "paused")
      BY <3>1 DEF Sim
    <3> QED
      BY <1>1, <2>1, <3>1, <3>2
  <2> QED
    BY <2>2, <2>3
<1>4. CASE cmd.type = "resume"
  <2>1. \A k : ~Touches(cmd, k)
    BY <1>4 DEF Touches
  <2>2. CASE ~s.paused
    <3>1. t = s /\ ~Answered(cmd, s.paused)
      BY <1>4, <2>2 DEF Obeyed, Answered
    <3> QED
      BY <2>1, <3>1
  <2>3. CASE s.paused
    <3>1. t = [s EXCEPT !.paused = FALSE, !.lines = Append(s.lines, "running")]
          /\ Answered(cmd, s.paused)
      BY <1>4, <2>3 DEF Obeyed, Answered
    <3>2. /\ t.gen = s.gen /\ t.alive = s.alive /\ t.cmds = s.cmds /\ t.on = s.on
          /\ t.paused = FALSE /\ t.lines = Append(s.lines, "running")
      BY <3>1 DEF Sim
    <3> QED
      BY <1>1, <2>1, <3>1, <3>2
  <2> QED
    BY <2>2, <2>3
<1>5. CASE cmd.type = "step"
  <2>1. (\A k : ~Touches(cmd, k)) /\ Answered(cmd, s.paused)
    BY <1>5 DEF Touches, Answered
  <2>2. t = [s EXCEPT !.paused = TRUE, !.lines = Append(s.lines, "stepped")]
    BY <1>5 DEF Obeyed
  <2>3. /\ t.gen = s.gen /\ t.alive = s.alive /\ t.cmds = s.cmds /\ t.on = s.on
        /\ t.paused = TRUE /\ t.lines = Append(s.lines, "stepped")
    BY <2>2 DEF Sim
  <2> QED
    BY <1>1, <2>1, <2>3
<1>6. CASE cmd.type = "set"
  <2>1. cmd.on \in BOOLEAN /\ ~Answered(cmd, s.paused)
    BY <1>6 DEF Command, RunCommand, Answered
  <2> DEFINE on == IF cmd.on THEN s.on \cup {cmd.control} ELSE s.on \ {cmd.control}
  <2>2. t = [s EXCEPT !.on = on]
    BY <1>6 DEF Obeyed
  <2>3. \A k : k \in on <=> IF k = cmd.control THEN cmd.on = TRUE ELSE k \in s.on
    BY <2>1
  <2> HIDE DEF on
  <2>4. /\ t.gen = s.gen /\ t.alive = s.alive /\ t.cmds = s.cmds /\ t.on = on
        /\ t.paused = s.paused /\ t.lines = s.lines
    BY <2>2 DEF Sim
  <2>5. \A k : /\ Touches(cmd, k) <=> k = cmd.control
               /\ Gives(cmd, k) <=> cmd.on = TRUE
    BY <1>6 DEF Touches, Gives
  <2> QED
    BY <2>1, <2>3, <2>4, <2>5
<1>7. CASE cmd.type = "setall"
  <2>1. ~Answered(cmd, s.paused) /\ cmd.on \subseteq Dip
    BY <1>7 DEF Command, RunCommand, Answered
  <2> DEFINE on == (s.on \ Dip) \cup cmd.on
  <2>2. t = [s EXCEPT !.on = on]
    BY <1>7 DEF Obeyed
  <2>3. \A k : k \in on <=> IF k \in Dip THEN k \in cmd.on ELSE k \in s.on
    BY <2>1
  <2> HIDE DEF on
  <2>4. /\ t.gen = s.gen /\ t.alive = s.alive /\ t.cmds = s.cmds /\ t.on = on
        /\ t.paused = s.paused /\ t.lines = s.lines
    BY <2>2 DEF Sim
  <2>5. \A k : /\ Touches(cmd, k) <=> k \in Dip
               /\ Gives(cmd, k) <=> k \in cmd.on
    BY <1>7 DEF Touches, Gives
  <2> QED
    BY <2>1, <2>3, <2>4, <2>5
<1> QED
  BY <1>3, <1>4, <1>5, <1>6, <1>7 DEF Command, RunCommand

\* The session sends a command and takes it into the inputs, or leaves them alone.
LEMMA SendComes ==
    ASSUME sim \in Sim, InputsCome, NEW cmd \in Command, sim' = Send(sim, cmd),
           \A k \in Control :
             \/ Touches(cmd, k) /\ (Gives(cmd, k) <=> k \in input'.on)
             \/ ~Touches(cmd, k) /\ (k \in input'.on <=> k \in input.on),
           \/ input'.paused = input.paused
           \/ sim.paused = input'.paused
           \/ Answered(cmd, sim.paused)
    PROVE  InputsCome'
<1>1. CASE ~sim.alive
  <2>1. sim'.alive = sim.alive
    BY DEF Send, Sim
  <2> QED
    BY <1>1, <2>1 DEF InputsCome
<1>2. CASE sim.alive
  <2>1. sim.gen # 0 /\ PauseComes /\ \A k \in Control : Comes(sim.cmds, sim.on, input.on, k)
    BY <1>2 DEF InputsCome
  <2>2. sim.cmds \in Seq(Command)
    BY DEF Sim
  <2> DEFINE new == Append(sim.cmds, cmd)
  <2>3. sim' = [sim EXCEPT !.cmds = new]
    BY <2>1 DEF Send
  <2>4. /\ Len(sim.cmds) + 1 \in DOMAIN new /\ new[Len(sim.cmds) + 1] = cmd
        /\ \A j \in DOMAIN sim.cmds : j \in DOMAIN new /\ new[j] = sim.cmds[j]
    BY <2>2, AppendAgrees
  <2>5. \A k \in Control : Comes(new, sim.on, input'.on, k)
    BY <2>1, <2>2, AppendComes
  <2> HIDE DEF new
  <2>6. /\ sim'.gen = sim.gen /\ sim'.lines = sim.lines /\ sim'.paused = sim.paused
        /\ sim'.on = sim.on /\ sim'.cmds = new
    BY <2>3 DEF Sim
  <2>7. PauseComes'
    <3>1. CASE sim.lines # <<>>
      BY <2>1, <2>6, <3>1 DEF PauseComes
    <3>2. CASE sim.lines = <<>>
      <4>1. CASE sim.paused = input'.paused
        BY <2>6, <3>2, <4>1 DEF PauseComes
      <4>2. CASE Answered(cmd, sim.paused)
        BY <2>4, <2>6, <3>2, <4>2 DEF PauseComes
      <4>3. CASE input'.paused = input.paused
        BY <2>1, <2>4, <2>6, <3>2, <4>3 DEF PauseComes
      <4> QED
        BY <4>1, <4>2, <4>3
    <3> QED
      BY <3>1, <3>2
  <2> QED
    BY <2>1, <2>5, <2>6, <2>7 DEF InputsCome
<1> QED
  BY <1>1, <1>2

LEMMA ClickComes ==
    ASSUME IInv, InputsCome,
           \/ \E k \in Control, on \in BOOLEAN : SetControl(k, on)
           \/ \E type \in RunCommand : RunControl(type)
    PROVE  InputsCome'
<1>1. sim \in Sim /\ input \in Input /\ sim.paused \in BOOLEAN
  BY DEF IInv, TypeOK, Sim
<1>2. ASSUME NEW k \in Control, NEW on \in BOOLEAN, SetControl(k, on)
      PROVE  InputsCome'
  <2> DEFINE cmd == Set(k, on)
             to == IF on THEN input.on \cup {k} ELSE input.on \ {k}
  <2>1. sim' = Send(sim, cmd) /\ input' = [input EXCEPT !.on = to]
    BY <1>2 DEF SetControl
  <2>2. cmd \in Command
    BY DEF Set, Command
  <2>3. \A c : (Touches(cmd, c) <=> c = k) /\ (Gives(cmd, c) <=> on = TRUE)
    BY DEF Set, Touches, Gives
  <2>4. \A c : c \in to <=> IF c = k THEN on = TRUE ELSE c \in input.on
    OBVIOUS
  <2> HIDE DEF cmd, to
  <2>5. input'.on = to /\ input'.paused = input.paused
    BY <1>1, <2>1 DEF Input
  <2> QED
    BY <1>1, <2>1, <2>2, <2>3, <2>4, <2>5, SendComes
<1>3. ASSUME NEW type \in RunCommand, RunControl(type)
      PROVE  InputsCome'
  <2> DEFINE cmd == [type |-> type]
  <2>1. sim' = Send(sim, cmd) /\ input' = [input EXCEPT !.paused = type # "resume"]
    BY <1>3 DEF RunControl
  <2>2. cmd \in Command
    BY DEF Command
  <2>3. \A c : ~Touches(cmd, c)
    BY DEF Touches, RunCommand
  <2>4. input'.on = input.on /\ input'.paused = (type # "resume")
    BY <1>1, <2>1 DEF Input
  <2>5. sim.paused = input'.paused \/ Answered(cmd, sim.paused)
    BY <1>1, <2>4 DEF RunCommand, Answered
  <2> HIDE DEF cmd
  <2> QED
    BY <1>1, <2>1, <2>2, <2>3, <2>4, <2>5, SendComes
<1> QED
  BY <1>2, <1>3

LEMMA FlashComes ==
    ASSUME IInv, InputsCome, Flash \/ FlashDone
    PROVE  InputsCome'
<1>1. sim \in Sim
  BY DEF IInv, TypeOK
<1>2. input' = input
  BY DEF Flash, FlashDone
<1>3. ASSUME NEW type \in {"pause", "resume"}, sim' = Send(sim, [type |-> type])
      PROVE  InputsCome'
  <2> DEFINE cmd == [type |-> type]
  <2>1. cmd \in Command /\ \A c : ~Touches(cmd, c)
    BY DEF Command, RunCommand, Touches
  <2> HIDE DEF cmd
  <2>2. sim' = Send(sim, cmd)
    BY <1>3 DEF cmd
  <2> QED
    BY <1>1, <1>2, <2>1, <2>2, SendComes
<1>4. CASE sim' = sim
  BY <1>2, <1>4 DEF InputsCome, PauseComes
<1> QED
  BY <1>3, <1>4 DEF Flash, FlashDone

LEMMA SimReadsComes ==
    ASSUME IInv, InputsCome, SimReads
    PROVE  InputsCome'
<1> DEFINE cmd == Head(sim.cmds)
           rest == Tail(sim.cmds)
           s == [sim EXCEPT !.cmds = rest]
<1>1. sim \in Sim /\ sim.cmds \in Seq(Command) /\ sim.cmds # <<>> /\ sim.alive
      /\ sim.lines \in Seq(Report) /\ sim.paused \in BOOLEAN
  BY DEF IInv, TypeOK, Sim, SimReads
<1>2. /\ cmd \in Command /\ rest \in Seq(Command) /\ 1 \in DOMAIN sim.cmds /\ cmd = sim.cmds[1]
      /\ \A j \in DOMAIN sim.cmds : j = 1 \/ (j - 1 \in DOMAIN rest /\ rest[j - 1] = sim.cmds[j])
  BY <1>1, TailAgrees
<1>3. sim' = Obeyed(s, cmd) /\ input' = input
  BY DEF SimReads
<1> HIDE DEF cmd, rest
<1>4. /\ s \in Sim /\ s.gen = sim.gen /\ s.alive = sim.alive /\ s.cmds = rest /\ s.on = sim.on
      /\ s.lines = sim.lines /\ s.paused = sim.paused
  BY <1>1, <1>2 DEF Sim
<1> HIDE DEF s
<1>5. /\ sim'.gen = sim.gen /\ sim'.cmds = rest
      /\ \A k \in Control :
           /\ Touches(cmd, k) => (k \in sim'.on <=> Gives(cmd, k))
           /\ ~Touches(cmd, k) => (k \in sim'.on <=> k \in sim.on)
      /\ Answered(cmd, sim.paused) =>
           \E r \in Report : sim'.lines = Append(sim.lines, r) /\ (r # "running" <=> sim'.paused = TRUE)
      /\ ~Answered(cmd, sim.paused) => sim'.lines = sim.lines /\ sim'.paused = sim.paused
  <2>1. /\ sim'.gen = s.gen /\ sim'.cmds = s.cmds
        /\ \A k \in Control :
             /\ Touches(cmd, k) => (k \in sim'.on <=> Gives(cmd, k))
             /\ ~Touches(cmd, k) => (k \in sim'.on <=> k \in s.on)
        /\ Answered(cmd, s.paused) =>
             \E r \in Report : sim'.lines = Append(s.lines, r) /\ (r # "running" <=> sim'.paused = TRUE)
        /\ ~Answered(cmd, s.paused) => sim'.lines = s.lines /\ sim'.paused = s.paused
    <3>1. s \in Sim /\ cmd \in Command /\ sim' = Obeyed(s, cmd)
      BY <1>2, <1>3, <1>4
    <3>2. PICK t : t = Obeyed(s, cmd)
      OBVIOUS
    <3>3. Effect(t, s, cmd)
      BY <3>1, <3>2, ObeyedEffect
    <3>4. sim' = t
      BY <3>1, <3>2
    <3> QED
      BY <3>3, <3>4 DEF Effect
  <2> QED
    BY <1>4, <2>1
<1>6. sim.gen # 0 /\ PauseComes /\ \A k \in Control : Comes(sim.cmds, sim.on, input.on, k)
  BY <1>1 DEF InputsCome
<1>7. \A k \in Control : Comes(rest, sim'.on, input.on, k)
  <2>1. ASSUME NEW k \in Control PROVE Comes(rest, sim'.on, input.on, k)
    <3>1. /\ Comes(sim.cmds, sim.on, input.on, k)
          /\ Touches(Head(sim.cmds), k) => (k \in sim'.on <=> Gives(Head(sim.cmds), k))
          /\ ~Touches(Head(sim.cmds), k) => (k \in sim'.on <=> k \in sim.on)
      BY <1>5, <1>6 DEF cmd
    <3>2. Comes(Tail(sim.cmds), sim'.on, input.on, k)
      BY <1>1, <3>1, TailComes
    <3> QED
      BY <3>2 DEF rest
  <2> QED
    BY <2>1
<1>8. PauseComes'
  <2>1. CASE Answered(cmd, sim.paused)
    <3>1. PICK r \in Report : /\ sim'.lines = Append(sim.lines, r)
                              /\ (r # "running" <=> sim'.paused = TRUE)
      BY <1>5, <2>1
    <3>2. sim'.lines # <<>> /\ sim'.lines[Len(sim'.lines)] = r
      BY <1>1, <3>1
    <3> QED
      BY <3>1, <3>2 DEF PauseComes
  <2>2. CASE ~Answered(cmd, sim.paused)
    <3>1. sim'.lines = sim.lines /\ sim'.paused = sim.paused
      BY <1>5, <2>2
    <3>2. CASE sim.lines # <<>>
      BY <1>6, <3>1, <3>2 DEF PauseComes
    <3>3. CASE sim.lines = <<>> /\ sim.paused = input.paused
      BY <1>3, <3>1, <3>3 DEF PauseComes
    <3>4. CASE sim.lines = <<>> /\ \E j \in DOMAIN sim.cmds : Answered(sim.cmds[j], sim.paused)
      <4>1. PICK j \in DOMAIN sim.cmds : Answered(sim.cmds[j], sim.paused)
        BY <3>4
      <4>2. j - 1 \in DOMAIN rest /\ rest[j - 1] = sim.cmds[j]
        BY <1>2, <2>2, <4>1
      <4>3. \E i \in DOMAIN rest : Answered(rest[i], sim.paused)
        BY <4>1, <4>2
      <4> QED
        BY <1>5, <3>1, <3>4, <4>3 DEF PauseComes
    <3> QED
      BY <1>6, <3>2, <3>3, <3>4 DEF PauseComes
  <2> QED
    BY <2>1, <2>2
<1> QED
  BY <1>3, <1>5, <1>6, <1>7, <1>8 DEF InputsCome

\* A STATE line is taken for the state; the last one is right.
LEMMA SimStateComes ==
    ASSUME IInv, InputsCome, SimState
    PROVE  InputsCome'
<1>1. sim \in Sim /\ input \in Input /\ sim.lines \in Seq(Report) /\ sim.lines # <<>>
      /\ sim.paused \in BOOLEAN
  BY DEF IInv, TypeOK, Sim, SimState, ReadSim
<1> DEFINE rest == Tail(sim.lines)
           last == sim.lines[Len(sim.lines)]
<1>2. sim' = [sim EXCEPT !.lines = rest] /\ input' = [input EXCEPT !.paused = Head(sim.lines) # "running"]
  BY DEF SimState
<1>3. /\ rest # <<>> => rest[Len(rest)] = last
      /\ rest = <<>> => Head(sim.lines) = last
  <2>1. Len(rest) = Len(sim.lines) - 1 /\ Len(sim.lines) \in Nat /\ Len(sim.lines) > 0
    BY <1>1
  <2>2. ASSUME rest # <<>> PROVE rest[Len(rest)] = last
    <3>1. Len(rest) \in 1 .. Len(rest) /\ Len(rest) + 1 = Len(sim.lines)
      BY <1>1, <2>1, <2>2
    <3>2. rest[Len(rest)] = sim.lines[Len(rest) + 1]
      BY <1>1, <3>1
    <3> QED
      BY <3>1, <3>2
  <2>3. ASSUME rest = <<>> PROVE Head(sim.lines) = last
    <3>1. Len(sim.lines) = 1
      <4>1. Len(rest) = 0
        <5>1. Len(<<>>) = 0
          OBVIOUS
        <5> QED
          BY <2>3, <5>1
      <4> HIDE DEF rest
      <4> QED
        BY <2>1, <4>1
    <3> QED
      BY <1>1, <3>1
  <2> QED
    BY <2>2, <2>3
<1> HIDE DEF rest, last
<1>4. /\ sim'.gen = sim.gen /\ sim'.alive = sim.alive /\ sim'.cmds = sim.cmds /\ sim'.on = sim.on
      /\ sim'.paused = sim.paused /\ sim'.lines = rest
      /\ input'.on = input.on /\ input'.paused = (Head(sim.lines) # "running")
  BY <1>1, <1>2 DEF Sim, Input
<1>5. CASE ~sim.alive
  BY <1>4, <1>5 DEF InputsCome
<1>6. CASE sim.alive
  <2>1. sim.gen # 0 /\ PauseComes /\ \A k \in Control : Comes(sim.cmds, sim.on, input.on, k)
    BY <1>6 DEF InputsCome
  <2>2. last # "running" <=> sim.paused = TRUE
    BY <1>1, <2>1 DEF PauseComes, last
  <2>3. PauseComes'
    <3>1. CASE rest # <<>>
      BY <1>3, <1>4, <2>2, <3>1 DEF PauseComes
    <3>2. CASE rest = <<>>
      <4>1. input'.paused = sim.paused
        BY <1>1, <1>3, <1>4, <2>2, <3>2
      <4> QED
        BY <1>4, <3>2, <4>1 DEF PauseComes
    <3> QED
      BY <3>1, <3>2
  <2> QED
    BY <1>4, <2>1, <2>3 DEF InputsCome
<1> QED
  BY <1>5, <1>6

LEMMA HotSwapComes ==
    ASSUME IInv, HotSwap
    PROVE  InputsCome'
<1>1. input' = input /\ input \in Input /\ done \in Seq(Outcome) /\ done # <<>>
      /\ sim' \in FreshSims(Head(done).gen) \cup {NoSim}
  BY DEF IInv, TypeOK, HotSwap, ReadOutcome
<1>2. Head(done).gen # 0
  <2>1. Head(done) \in Outcome
    BY <1>1
  <2> QED
    BY <2>1, MaxGenPositive DEF Outcome, Gen
<1>3. CASE sim' = NoSim
  BY <1>3 DEF NoSim, InputsCome
<1>4. CASE sim' \in FreshSims(Head(done).gen)
  <2>1. PICK replay \in Replay(input) :
          sim' = [gen |-> Head(done).gen, alive |-> TRUE, on |-> {}, paused |-> FALSE,
                  cmds |-> replay, lines |-> <<"running">>]
    BY <1>4 DEF FreshSims
  <2>2. /\ sim'.gen # 0 /\ sim'.on = {} /\ sim'.cmds = replay /\ sim'.lines = <<"running">>
        /\ sim'.paused = FALSE
    BY <1>2, <2>1
  <2>3. PauseComes'
    BY <2>2 DEF PauseComes
  <2>4. \A k \in Control : Comes(sim'.cmds, sim'.on, input'.on, k)
    BY <1>1, <2>2, ReplayComes
  <2> QED
    BY <2>2, <2>3, <2>4 DEF InputsCome
<1> QED
  BY <1>1, <1>3, <1>4

LEMMA InputsComeStep ==
    ASSUME IInv, InputsCome, [Next]_vars
    PROVE  InputsCome'
<1>1. CASE UNCHANGED <<sim, input>>
  BY <1>1 DEF InputsCome, PauseComes
<1>2. CASE ~sim'.alive
  BY <1>2 DEF InputsCome
<1>3. CASE Stop \/ SimDies \/ SimExited
  <2>1. sim \in Sim
    BY DEF IInv, TypeOK
  <2>2. ~sim'.alive
    <3>1. CASE Stop \/ SimExited
      BY <3>1 DEF Stop, SimExited, NoSim
    <3>2. CASE SimDies
      BY <2>1, <3>2 DEF SimDies, Sim
    <3> QED
      BY <1>3, <3>1, <3>2
  <2> QED
    BY <1>2, <2>2
<1>4. CASE \/ Recompile \/ DropOutcome \/ BuildFailed \/ FlashEnds \/ UNCHANGED vars
           \/ \E g \in Gen : BuildNext(g)
  <2>1. UNCHANGED <<sim, input>>
    BY <1>4 DEF Recompile, DropOutcome, BuildFailed, ReadOutcome, FlashEnds, BuildNext, PrepassFails,
       StartsVerilator, VerilatorEnds, vars
  <2> QED
    BY <1>1, <2>1
<1> QED
  BY <1>3, <1>4, ClickComes, FlashComes, SimReadsComes, SimStateComes, HotSwapComes
     DEF Next, UserNext, SessionNext

\* Once its pipes are empty a simulator holds the inputs that the session would replay,
\* for any number of controls, swaps, pauses, steps and flashes (InputState, do_flash,
\* handle_sim_line, Harness::handle_command).
THEOREM InputsStayInAgreement == Spec => []InputsAgree
<1>1. Init => InputsCome
  BY DEF Init, NoSim, InputsCome
<1>2. IInv /\ InputsCome /\ [Next]_vars => InputsCome'
  BY InputsComeStep
<1>3. IInv /\ InputsCome => InputsAgree
  <2> SUFFICES ASSUME IInv, InputsCome, Settled
               PROVE  sim.on = input.on /\ sim.paused = input.paused
    BY DEF InputsAgree
  <2>1. sim.alive /\ sim.cmds = <<>> /\ sim.lines = <<>> /\ sim.on \subseteq Control
        /\ input.on \subseteq Control
    BY DEF IInv, TypeOK, Sim, Input, Settled
  <2>2. \A k \in Control : k \in sim.on <=> k \in input.on
    BY <2>1 DEF InputsCome, Comes
  <2>3. sim.paused = input.paused
    BY <2>1 DEF InputsCome, PauseComes
  <2> QED
    BY <2>1, <2>2, <2>3
<1> QED
  BY <1>1, <1>2, <1>3, Invariance, PTL DEF Spec
=============================================================================
