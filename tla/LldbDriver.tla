----------------------------- MODULE LldbDriver -----------------------------
(***************************************************************************)
(* The debug driver (jade-debug/src/driver.rs): one task that owns an lldb *)
(* child and its pipes.  It writes a command and reads its answer, which   *)
(* has no length and no end mark one can rely on: the answer ends at a     *)
(* prompt, at 150 ms of silence or after 10 s.  Between commands it reads  *)
(* what the target does by itself and looks at it after 80 ms of silence.  *)
(*                                                                         *)
(* Time is left to chance: a window of silence may end whenever the pipe   *)
(* is empty, because the biased select! prefers what can be read.  In a    *)
(* slow world that may also happen while lldb still owes an answer.        *)
(***************************************************************************)
EXTENDS Naturals, Sequences

CONSTANTS
    MaxRequests,  \* bound: calls of the UI
    MaxStops,     \* bound: times the target stops
    MaxPipe,      \* chunks that fit in the stdout pipe before the target waits
    Kinds,        \* calls the UI makes
    Worlds        \* the lldb and the user of a session, and how much they do

Kind == {"step", "look", "remove", "stop"}

ASSUME BoundsAreNat ==
    MaxRequests \in Nat /\ MaxStops \in Nat /\ MaxPipe \in Nat
ASSUME KindsAreCalls == Kinds \subseteq Kind

\* slow: lldb may be silent for 150 ms before it answers.  patient: the user
\* steps only when the IDE shows the target's stop.  prints: the target prints,
\* as often and as long as it likes.
World == [slow : BOOLEAN, patient : BOOLEAN, prints : BOOLEAN,
          requests : 0 .. MaxRequests, stops : 0 .. MaxStops]

ASSUME WorldsAreWorlds == Worlds \subseteq World

VARIABLES
    at,         \* where the task is
    op,         \* the command whose answer it reads
    buffer,     \* Session.buffer, as far as anything looks at it
    async,      \* async_deadline is set
    script,     \* what is left of the handshake in start
    reqs,       \* calls that wait for the driver, one at a time, in order
    exit_sent,
    stopped,    \* the last Stopped event; while one is put together, the next
    exits,      \* Exited events sent
    lldb,       \* the child, the target and the two pipes
    calls,      \* what the bounds count
    world       \* which world this is

session == <<at, op, buffer, async, script, exit_sent, stopped, exits>>
vars == <<session, reqs, lldb, calls, world>>

\* Every command the bounds allow: the handshake, two of a remove, two to
\* describe each stop, which is reported once.
MaxCommands == 2 + 2 * MaxRequests + 2 * MaxStops

Name == {"none", "setup", "run", "step", "look", "list", "vars", "bt", "kill", "quit"}
Cmd == [name : Name, id : 0 .. MaxCommands]

\* A piece of stdout: the answer to `id` (0: none), the stop or exit it tells,
\* the stop the target is at when lldb describes it.
Chunk == [id : 0 .. MaxCommands, stop : 0 .. MaxStops, exit : BOOLEAN,
          says : 0 .. MaxStops, prompt : BOOLEAN]

Buffer == [ids : SUBSET (0 .. MaxCommands), stop : 0 .. MaxStops, exit : BOOLEAN,
           says : SUBSET (0 .. MaxStops), prompt : BOOLEAN]
Empty == [ids |-> {}, stop |-> 0, exit |-> FALSE, says |-> {}, prompt |-> FALSE]

Event == [stop : 0 .. MaxStops, locals : SUBSET (0 .. MaxStops),
          frames : SUBSET (0 .. MaxStops)]

Text == [id |-> 0, stop |-> 0, exit |-> FALSE, says |-> 0, prompt |-> FALSE]

-----------------------------------------------------------------------------
(* lldb and its target.                                                    *)

Target == {"none", "running", "stopped", "exited"}

\* A command is executed and answered; the prompt behind the answer may stay in
\* lldb's own buffer.  `continue` and the steps answer at once and the target
\* runs on.
Executes ==
    /\ lldb.alive /\ lldb.stdin # <<>>
    /\ LET c == Head(lldb.stdin)
           resumes == \/ c.name = "run" /\ lldb.target = "none"
                      \/ c.name = "step" /\ lldb.target = "stopped"
           target == IF resumes THEN "running"
                     ELSE IF c.name = "kill" THEN "exited" ELSE lldb.target
       IN \E prompt \in BOOLEAN :
            lldb' = [lldb EXCEPT
                !.stdin = Tail(@), !.target = target, !.alive = c.name # "quit",
                !.stdout = IF c.name \in {"quit", "kill"} THEN @
                           ELSE Append(@, [Text EXCEPT
                                    !.id = c.id, !.prompt = prompt,
                                    !.says = IF target = "stopped" THEN lldb.stops ELSE 0])]
    /\ UNCHANGED <<session, reqs, calls>>

TargetStops ==
    /\ lldb.alive /\ lldb.target = "running" /\ lldb.stops < world.stops
    /\ \E prompt \in BOOLEAN :
         lldb' = [lldb EXCEPT
            !.target = "stopped", !.stops = @ + 1,
            !.stdout = Append(@, [Text EXCEPT !.stop = lldb.stops + 1, !.prompt = prompt])]
    /\ UNCHANGED <<session, reqs, calls>>

TargetExits ==
    /\ lldb.alive /\ lldb.target = "running"
    /\ lldb' = [lldb EXCEPT !.target = "exited",
                            !.stdout = Append(@, [Text EXCEPT !.exit = TRUE])]
    /\ UNCHANGED <<session, reqs, calls>>

\* Nothing bounds what a target prints but the room in the pipe.
TargetPrints ==
    /\ world.prints
    /\ lldb.alive /\ lldb.target = "running"
    /\ Len(lldb.stdout) < MaxPipe
    /\ lldb' = [lldb EXCEPT !.stdout = Append(@, Text)]
    /\ UNCHANGED <<session, reqs, calls>>

\* lldb crashes; what it wrote can still be read.
LldbDies ==
    /\ lldb.alive
    /\ lldb' = [lldb EXCEPT !.alive = FALSE]
    /\ UNCHANGED <<session, reqs, calls>>

-----------------------------------------------------------------------------
(* Writing commands and reading answers.                                   *)

\* push_byte, for all the bytes of a chunk.  The first stop is the one found.
Pushed(b, c) ==
    [ids |-> b.ids \cup {c.id},
     stop |-> IF b.stop = 0 THEN c.stop ELSE b.stop,
     exit |-> b.exit \/ c.exit,
     says |-> IF c.id = 0 THEN b.says ELSE b.says \cup {c.says},
     prompt |-> c.prompt]

\* Mutant of Sends: what is in the buffer is kept.
SendsOnTop(name) ==
    /\ at' = "reading"
    /\ op' = [name |-> name, id |-> op.id + 1]
    /\ buffer' = [buffer EXCEPT !.prompt = FALSE]
    /\ lldb' = [lldb EXCEPT !.stdin = Append(@, [name |-> name, id |-> op.id + 1])]

\* send_command up to its loop: the buffer is cleared after the write.
Sends(name) ==
    /\ at' = "reading"
    /\ op' = [name |-> name, id |-> op.id + 1]
    /\ buffer' = Empty
    /\ lldb' = [lldb EXCEPT !.stdin = Append(@, [name |-> name, id |-> op.id + 1])]

Rests ==
    /\ at' = "idle"
    /\ buffer' = Empty
    /\ UNCHANGED <<op, lldb>>

\* Mutant of EmitExit: nothing remembers that Exited was sent.
EmitExitAgain ==
    /\ exits' = exits + 1
    /\ UNCHANGED exit_sent

EmitExit ==
    /\ exits' = IF exit_sent THEN exits ELSE exits + 1
    /\ exit_sent' = TRUE

\* handle_stop_if_needed: an exit goes first and lldb is told to quit; a stop
\* starts `frame variable` and `bt`.
Inspects(output) ==
    \/ /\ output.exit
       /\ EmitExit
       /\ at' = "idle" /\ buffer' = Empty
       /\ lldb' = [lldb EXCEPT !.stdin = Append(@, [name |-> "quit", id |-> 0])]
       /\ UNCHANGED <<op, stopped>>
    \/ /\ ~output.exit /\ output.stop # 0
       /\ stopped' = [stop |-> output.stop, locals |-> {}, frames |-> {}]
       /\ Sends("vars")
       /\ UNCHANGED <<exit_sent, exits>>
    \/ /\ ~output.exit /\ output.stop = 0
       /\ Rests
       /\ UNCHANGED <<stopped, exit_sent, exits>>

\* A byte can be read: in wait_for_prompt, in send_command's loop unless the
\* prompt has ended it, or in the idle loop, where a call goes first.
ReadChunk ==
    /\ lldb.stdout # <<>>
    /\ \/ at = "banner"
       \/ at = "reading" /\ ~buffer.prompt
       \/ at = "idle" /\ reqs = <<>>
    /\ buffer' = Pushed(buffer, Head(lldb.stdout))
    /\ async' = (at = "idle")
    /\ lldb' = [lldb EXCEPT !.stdout = Tail(@)]
    /\ UNCHANGED <<at, op, script, reqs, exit_sent, stopped, exits, calls>>

\* The loop of send_command ends: at a prompt; at the end of the file; or by
\* one of the two timers, which are only looked at when nothing can be read.
AnswerEnds ==
    /\ at = "reading"
    /\ buffer.prompt \/ lldb.stdout = <<>>
    /\ ~buffer.prompt /\ lldb.alive /\ ~world.slow => lldb.stdin = <<>>

\* Mutant of Shake: the handshake does not advance.
ShakeAgain ==
    /\ script # <<>>
    /\ Sends(Head(script))
    /\ UNCHANGED script

\* The next command of the handshake in start; the last one runs the target.
Shake ==
    /\ script # <<>>
    /\ Sends(Head(script))
    /\ script' = Tail(script)

BannerEnds ==
    /\ at = "banner"
    /\ lldb.stdout = <<>> \/ world.slow
    /\ Shake
    /\ UNCHANGED <<async, reqs, exit_sent, stopped, exits, calls>>

SetupEnds ==
    /\ AnswerEnds /\ op.name = "setup"
    /\ Shake
    /\ UNCHANGED <<async, reqs, exit_sent, stopped, exits, calls>>

\* `run` and step_command.
StepEnds ==
    /\ AnswerEnds /\ op.name \in {"run", "step"}
    /\ Inspects(buffer)
    /\ UNCHANGED <<async, script, reqs, calls>>

VarsEnds ==
    /\ AnswerEnds /\ op.name = "vars"
    /\ stopped' = [stopped EXCEPT !.locals = buffer.says]
    /\ Sends("bt")
    /\ UNCHANGED <<async, script, reqs, exit_sent, exits, calls>>

\* The Stopped event is sent.
BacktraceEnds ==
    /\ AnswerEnds /\ op.name = "bt"
    /\ stopped' = [stopped EXCEPT !.frames = buffer.says]
    /\ Rests
    /\ UNCHANGED <<async, script, reqs, exit_sent, exits, calls>>

\* A breakpoint was set or deleted or a variable looked into; nobody inspects
\* the answer.  remove_breakpoint found no line to delete.
LookEnds ==
    /\ AnswerEnds /\ op.name \in {"look", "list"}
    /\ Rests
    /\ UNCHANGED <<async, script, reqs, exit_sent, stopped, exits, calls>>

\* remove_breakpoint found the line: `breakpoint delete`.
ListEnds ==
    /\ AnswerEnds /\ op.name = "list"
    /\ Sends("look")
    /\ UNCHANGED <<async, script, reqs, exit_sent, stopped, exits, calls>>

-----------------------------------------------------------------------------
(* The idle loop.                                                          *)

\* The buttons of the debug panel are always there.
Call(kind) ==
    /\ kind \in Kinds /\ calls < world.requests
    /\ world.patient /\ kind # "stop" =>
         /\ at = "idle" /\ reqs = <<>>
         /\ lldb.target = "stopped" /\ stopped.stop = lldb.stops
    /\ calls' = calls + 1
    /\ reqs' = Append(reqs, kind)
    /\ UNCHANGED <<session, lldb>>

\* handle_request: the window for unsolicited output is given up.
TakeCall ==
    /\ at = "idle" /\ reqs # <<>> /\ Head(reqs) # "stop"
    /\ async' = FALSE
    /\ Sends(IF Head(reqs) = "remove" THEN "list" ELSE Head(reqs))
    /\ reqs' = Tail(reqs)
    /\ UNCHANGED <<script, exit_sent, stopped, exits, calls>>

\* do_stop: `kill` and `quit`.
TakeStop ==
    /\ at = "idle" /\ reqs # <<>> /\ Head(reqs) = "stop"
    /\ async' = FALSE
    /\ at' = "killing"
    /\ reqs' = Tail(reqs)
    /\ lldb' = [lldb EXCEPT !.stdin = @ \o <<[name |-> "kill", id |-> 0],
                                             [name |-> "quit", id |-> 0]>>]
    /\ UNCHANGED <<op, buffer, script, exit_sent, stopped, exits, calls>>

\* Mutant of Killed: only a child that ended by itself is waited for.
KilledByQuit ==
    /\ at = "killing"
    /\ ~lldb.alive
    /\ EmitExit
    /\ at' = "closed"
    /\ UNCHANGED <<op, buffer, async, script, reqs, stopped, lldb, calls>>

\* The child ended, or is killed after a second.
Killed ==
    /\ at = "killing"
    /\ lldb' = [lldb EXCEPT !.alive = FALSE]
    /\ EmitExit
    /\ at' = "closed"
    /\ UNCHANGED <<op, buffer, async, script, reqs, stopped, calls>>

\* The session's task is gone: its channel refuses the call.
RefuseCall ==
    /\ at = "closed" /\ reqs # <<>>
    /\ reqs' = Tail(reqs)
    /\ UNCHANGED <<session, lldb, calls>>

\* on_process_closed.
SeesClosed ==
    /\ at = "idle" /\ reqs = <<>>
    /\ ~lldb.alive /\ lldb.stdout = <<>>
    /\ EmitExit
    /\ at' = "closed"
    /\ UNCHANGED <<op, buffer, async, script, reqs, stopped, lldb, calls>>

\* Mutant of QuietWindow: only an exit is looked for.
QuietWindowExit ==
    /\ at = "idle" /\ reqs = <<>>
    /\ async /\ lldb.stdout = <<>>
    /\ async' = FALSE
    /\ IF buffer.exit
       THEN Inspects(buffer)
       ELSE UNCHANGED <<at, op, buffer, exit_sent, stopped, exits, lldb>>
    /\ UNCHANGED <<script, reqs, calls>>

\* handle_async_output, after 80 ms of silence.  What holds neither a stop nor
\* an exit stays in the buffer.
QuietWindow ==
    /\ at = "idle" /\ reqs = <<>>
    /\ async /\ lldb.stdout = <<>>
    /\ async' = FALSE
    /\ IF buffer.exit \/ buffer.stop # 0
       THEN Inspects(buffer)
       ELSE UNCHANGED <<at, op, buffer, exit_sent, stopped, exits, lldb>>
    /\ UNCHANGED <<script, reqs, calls>>

-----------------------------------------------------------------------------
Init ==
    /\ at = "banner"
    /\ op = [name |-> "none", id |-> 0]
    /\ buffer = Empty
    /\ async = FALSE
    /\ script = <<"setup", "run">>
    /\ reqs = <<>>
    /\ exit_sent = FALSE /\ exits = 0
    /\ stopped = [stop |-> 0, locals |-> {}, frames |-> {}]
    /\ lldb = [alive |-> TRUE, target |-> "none", stops |-> 0,
               stdin |-> <<>>, stdout |-> <<Text>>]
    /\ calls = 0
    /\ world \in Worlds

Ends ==
    \/ BannerEnds \/ SetupEnds \/ StepEnds \/ VarsEnds \/ BacktraceEnds
    \/ LookEnds \/ ListEnds

Driver ==
    \/ ReadChunk \/ Ends \/ TakeCall \/ TakeStop \/ Killed
    \/ RefuseCall \/ SeesClosed \/ QuietWindow

Next ==
    /\ \/ Driver
       \/ Executes \/ TargetStops \/ TargetExits \/ TargetPrints \/ LldbDies
       \/ \E kind \in Kinds : Call(kind)
    /\ UNCHANGED world

Spec == Init /\ [][Next]_vars

\* The task runs.  A timer that has expired ends the answer when the task finds
\* the pipe empty again and again, for the timeout of 10 s does not start anew
\* with what is read; a task that always finds something to read never looks at
\* its timers, and nothing then ends the answer.  An lldb that answers in time
\* does answer; nothing else is assumed of it, nor of the target.
FairSpec ==
    /\ Spec
    /\ WF_vars(Driver /\ UNCHANGED world)
    /\ SF_vars(Ends /\ UNCHANGED world)
    /\ WF_vars(~world.slow /\ Executes /\ UNCHANGED world)

-----------------------------------------------------------------------------
(* Properties.                                                             *)

TypeOK ==
    /\ at \in {"banner", "idle", "reading", "killing", "closed"}
    /\ op \in Cmd
    /\ buffer \in Buffer
    /\ async \in BOOLEAN /\ exit_sent \in BOOLEAN
    /\ script \in Seq({"setup", "run"})
    /\ reqs \in Seq(Kinds)
    /\ stopped \in Event
    /\ exits \in Nat
    /\ lldb \in [alive : BOOLEAN, target : Target, stops : 0 .. MaxStops,
                 stdin : Seq(Cmd), stdout : Seq(Chunk)]
    /\ world \in World

\* The UI is told of the end of a session at most once, however it ends: an
\* exit in an answer, an exit while idle, the end of the pipe, a stop.
ExitedOnce == exits <= 1

\* An lldb that answers in time, and a user who acts on what the IDE shows.
InTime == ~world.slow /\ world.patient

\* The comment of PROMPT_LINE: only a genuine end-of-output prompt ends an
\* answer, so answers are never shifted by one command.  Then an answer is never
\* taken for that of another command, although nothing marks where it ends, and
\* the frames and the variables of a Stopped event, three answers, are those of
\* the stop it reports.
AnswersAligned ==
    InTime =>
        /\ at = "reading" => buffer.ids \subseteq {0, op.id}
        /\ stopped.locals \cup stopped.frames \subseteq {stopped.stop}

\* Nothing is on its way: no call, no answer, no window of silence.
Quiet ==
    /\ at = "idle" /\ reqs = <<>> /\ ~async
    /\ lldb.alive /\ lldb.stdin = <<>> /\ lldb.stdout = <<>>

\* While the user only steps, no stop is lost between an answer, the window of
\* silence and the next command: a target that is stopped was reported.
StopIsReported ==
    InTime /\ Quiet /\ lldb.target = "stopped" => stopped.stop = lldb.stops

\* An answer is being read and there is more to read.
Flooded == at = "reading" /\ lldb.stdout # <<>>

\* A session that is asked to stop is closed, whatever lldb does and however much
\* the target prints, unless the target writes so fast that from some time on the
\* task that reads an answer always finds more to read: then neither the silence
\* nor the timeout of send_command is looked at, against its comment ("whichever
\* comes first"), and the Stop waits behind the command.  A flood while the driver
\* is idle is no excuse: the idle loop looks at its calls before the pipe.
StopEndsSession ==
    []<>~Flooded => ((\E i \in DOMAIN reqs : reqs[i] = "stop") ~> (at = "closed"))
=============================================================================
