-------------------------- MODULE LldbDriverProofs --------------------------
(***************************************************************************)
(* Proofs about the debug driver, for any number of calls, stops and       *)
(* prints and any size of the pipe: Exited is sent once; and with an lldb  *)
(* that answers in time and a user who acts on what is shown, answers stay *)
(* with their commands, an event describes the stop it reports, and no     *)
(* stop is lost.                                                           *)
(*                                                                         *)
(* Nothing in the pipe marks where an answer ends.  What makes up for it   *)
(* is where the target is: while a command waits to be executed the target *)
(* does not run and all its output has been read, so the first prompt or   *)
(* the first silence is behind the answer.  The invariant says this.       *)
(*                                                                         *)
(* Whatever lldb's speed, a stop is reported at most once, since stops are *)
(* read in the order they happen: this bounds the commands of a session,   *)
(* each paid for by the handshake, a call or a new stop.                   *)
(***************************************************************************)
EXTENDS LldbDriver, TLAPS

\* The types, without the bounds.
Message == [name : Name, id : Nat]
Piece == [id : Nat, stop : Nat, exit : BOOLEAN, says : Nat, prompt : BOOLEAN]

Shape ==
    /\ at \in {"banner", "idle", "reading", "killing", "closed"}
    /\ op \in Message
    /\ buffer \in [ids : SUBSET Nat, stop : Nat, exit : BOOLEAN, says : SUBSET Nat, prompt : BOOLEAN]
    /\ async \in BOOLEAN
    /\ script \in Seq({"setup", "run"})
    /\ reqs \in Seq(Kinds)
    /\ stopped \in [stop : Nat, locals : SUBSET Nat, frames : SUBSET Nat]
    /\ lldb \in [alive : BOOLEAN, target : Target, stops : Nat,
                 stdin : Seq(Message), stdout : Seq(Piece)]

Reported == stopped.stop = lldb.stops

\* A command that lldb will still execute is the last one that was sent, the only
\* one, and everything before its answer is known to be no answer and no stop.
StdinOK ==
    \A k \in DOMAIN lldb.stdin :
        /\ lldb.stdin[k].id = 0 => lldb.stdin[k].name = "quit"
        /\ lldb.stdin[k].id # 0 /\ lldb.alive =>
             /\ lldb.stdin[k] = op
             /\ \A j \in DOMAIN lldb.stdin : lldb.stdin[j].id # 0 => j = k
             /\ at = "reading" /\ ~buffer.prompt /\ buffer.stop = 0
             /\ lldb.target # "running"
             /\ \A j \in DOMAIN lldb.stdout : lldb.stdout[j].id = 0 /\ lldb.stdout[j].stop = 0

\* An answer that is not read yet is the one that is awaited, no stop comes before
\* it, and it describes the stop it is asked for.
AnswerOK(k) ==
    /\ lldb.stdout[k].id = op.id
    /\ at = "reading" /\ ~buffer.prompt
    /\ \A j \in DOMAIN lldb.stdout :
         j < k => lldb.stdout[j].id = 0 /\ lldb.stdout[j].stop = 0
    /\ op.name \in {"vars", "bt"} => lldb.stdout[k].says = stopped.stop

\* A stop that is not read yet is the only one, and the target is still there.
NewsOK(k) ==
    /\ lldb.stdout[k].stop = lldb.stops /\ buffer.stop = 0
    /\ lldb.target = "stopped" /\ ~Reported
    /\ \A j \in DOMAIN lldb.stdout : lldb.stdout[j].stop # 0 => j = k

StdoutOK ==
    \A k \in DOMAIN lldb.stdout :
        /\ lldb.stdout[k].prompt => lldb.stdout[k].id # 0 \/ lldb.stdout[k].stop # 0
        /\ lldb.stdout[k].exit => lldb.target = "exited"
        /\ lldb.stdout[k].id # 0 => AnswerOK(k)
        /\ lldb.stdout[k].stop # 0 => NewsOK(k)

BufferOK ==
    /\ buffer.exit => lldb.target = "exited"
    /\ buffer.stop # 0 => buffer.stop = lldb.stops /\ lldb.target = "stopped" /\ ~Reported
    /\ at = "reading" => buffer.ids \subseteq {0, op.id}
    /\ at = "reading" /\ op.name \in {"vars", "bt"} => buffer.says \subseteq {stopped.stop}

\* Where the target is while the driver asks.
StageOK ==
    /\ at = "banner" =>
         /\ lldb.target = "none" /\ lldb.stdin = <<>>
         /\ script = <<"setup", "run">>
    /\ at = "reading" =>
         /\ op.name \in {"setup", "run", "step", "look", "list", "vars", "bt"}
         /\ op.name = "setup" => lldb.target = "none" /\ script = <<"run">>
         /\ op.name \in {"look", "list", "vars", "bt"} => lldb.target = "stopped" /\ Reported

\* Only the first call that waits may be other than a stop, and the target is where
\* it was when the user made it.
CallsOK ==
    /\ \A i \in DOMAIN reqs : i = 1 \/ reqs[i] = "stop"
    /\ reqs # <<>> /\ reqs[1] # "stop" => at = "idle" /\ lldb.target = "stopped" /\ Reported

\* Where the newest stop is until it is reported.
StopIsKnown ==
    lldb.target = "stopped" =>
        \/ Reported
        \/ \E k \in DOMAIN lldb.stdout : lldb.stdout[k].stop # 0
        \/ buffer.stop # 0 /\ (at = "reading" \/ async)

Aligned == StdinOK /\ StdoutOK /\ BufferOK /\ StageOK /\ CallsOK /\ StopIsKnown

EventOK ==
    /\ stopped.stop <= lldb.stops
    /\ stopped.locals \cup stopped.frames \subseteq {stopped.stop}

\* Once the driver is told to stop, nothing is asked any more.
InTimeInv ==
    /\ Shape /\ EventOK
    /\ at \in {"banner", "reading", "idle"} => Aligned

-----------------------------------------------------------------------------
(* Sequences.                                                              *)

LEMMA TailElements ==
    ASSUME NEW S, NEW s \in Seq(S), s # <<>>
    PROVE  /\ Head(s) \in S /\ Tail(s) \in Seq(S)
           /\ 1 \in DOMAIN s /\ Head(s) = s[1]
           /\ \A k \in DOMAIN Tail(s) : k \in Nat \ {0} /\ k + 1 \in DOMAIN s /\ Tail(s)[k] = s[k + 1]
           /\ \A k \in DOMAIN s : k \in Nat
           /\ \A k \in DOMAIN s : k = 1 \/ (k - 1 \in DOMAIN Tail(s) /\ Tail(s)[k - 1] = s[k])
  OBVIOUS

LEMMA AppendElements ==
    ASSUME NEW S, NEW s \in Seq(S), NEW e \in S
    PROVE  /\ Append(s, e) \in Seq(S)
           /\ \A k \in DOMAIN Append(s, e) :
                (k = Len(s) + 1 /\ Append(s, e)[k] = e) \/ (k \in DOMAIN s /\ Append(s, e)[k] = s[k])
           /\ \A k \in DOMAIN s : k \in DOMAIN Append(s, e) /\ Append(s, e)[k] = s[k]
           /\ Len(s) + 1 \in DOMAIN Append(s, e) /\ Append(s, e)[Len(s) + 1] = e
           /\ \A k \in DOMAIN s : k \in Nat /\ k < Len(s) + 1
  OBVIOUS

-----------------------------------------------------------------------------
(* Exited.                                                                 *)

Once == exit_sent \in BOOLEAN /\ exits = IF exit_sent THEN 1 ELSE 0

LEMMA EmitOnce == ASSUME Once, EmitExit PROVE Once'
  BY DEF Once, EmitExit

LEMMA InspectsOnce == ASSUME Once, NEW output, Inspects(output) PROVE Once'
<1>1. CASE EmitExit
  BY <1>1, EmitOnce
<1>2. CASE UNCHANGED <<exit_sent, exits>>
  BY <1>2 DEF Once
<1> QED
  BY <1>1, <1>2 DEF Inspects

LEMMA OnceStep == ASSUME Once, [Next]_vars PROVE Once'
<1>1. CASE UNCHANGED <<exit_sent, exits>>
  BY <1>1 DEF Once
<1>2. CASE StepEnds
  BY <1>2, InspectsOnce DEF StepEnds
<1>3. CASE QuietWindow
  <2>1. CASE Inspects(buffer)
    BY <2>1, InspectsOnce
  <2> QED
    BY <1>1, <1>3, <2>1 DEF QuietWindow
<1>4. CASE Killed \/ SeesClosed
  BY <1>4, EmitOnce DEF Killed, SeesClosed
<1>5. CASE BannerEnds \/ SetupEnds \/ VarsEnds \/ BacktraceEnds \/ LookEnds \/ ListEnds
  BY <1>1, <1>5 DEF BannerEnds, SetupEnds, VarsEnds, BacktraceEnds, LookEnds, ListEnds
<1>6. CASE ReadChunk \/ TakeCall \/ TakeStop \/ RefuseCall
  BY <1>1, <1>6 DEF ReadChunk, TakeCall, TakeStop, RefuseCall, session
<1>7. CASE Executes \/ TargetStops \/ TargetExits \/ TargetPrints \/ LldbDies
  BY <1>1, <1>7 DEF Executes, TargetStops, TargetExits, TargetPrints, LldbDies, session
<1>8. CASE \E kind \in Kinds : Call(kind)
  BY <1>1, <1>8 DEF Call, session
<1>9. CASE UNCHANGED vars
  BY <1>1, <1>9 DEF vars, session
<1> QED
  BY <1>2, <1>3, <1>4, <1>5, <1>6, <1>7, <1>8, <1>9 DEF Next, Driver, Ends

\* However a session ends, and however often it is seen to have ended, Exited is
\* sent at most once.
THEOREM ExitedIsSentOnce == Spec => []ExitedOnce
<1>1. Init => Once
  BY DEF Init, Once
<1>2. Once /\ [Next]_vars => Once'
  BY OnceStep
<1>3. Once => ExitedOnce
  BY DEF Once, ExitedOnce
<1> QED
  BY <1>1, <1>2, <1>3, PTL DEF Spec

-----------------------------------------------------------------------------
(* Types and fields.                                                       *)

\* The fields of the records, one by one.
LEMMA Fields ==
    ASSUME Shape
    PROVE  /\ lldb.alive \in BOOLEAN /\ lldb.target \in Target /\ lldb.stops \in Nat
           /\ lldb.stdin \in Seq(Message) /\ lldb.stdout \in Seq(Piece)
           /\ op.name \in Name /\ op.id \in Nat
           /\ buffer.ids \subseteq Nat /\ buffer.says \subseteq Nat /\ buffer.stop \in Nat
           /\ buffer.exit \in BOOLEAN /\ buffer.prompt \in BOOLEAN
           /\ stopped.stop \in Nat /\ stopped.locals \subseteq Nat /\ stopped.frames \subseteq Nat
           /\ \A k \in DOMAIN lldb.stdin :
                lldb.stdin[k].id \in Nat /\ lldb.stdin[k].name \in Name
           /\ \A k \in DOMAIN lldb.stdout :
                /\ lldb.stdout[k] \in Piece
                /\ lldb.stdout[k].id \in Nat /\ lldb.stdout[k].stop \in Nat
                /\ lldb.stdout[k].says \in Nat
                /\ lldb.stdout[k].exit \in BOOLEAN /\ lldb.stdout[k].prompt \in BOOLEAN
<1>1. /\ lldb.alive \in BOOLEAN /\ lldb.target \in Target /\ lldb.stops \in Nat
      /\ lldb.stdin \in Seq(Message) /\ lldb.stdout \in Seq(Piece)
  BY DEF Shape
<1>2. op.name \in Name /\ op.id \in Nat
  BY DEF Shape, Message
<1>3. /\ buffer.ids \subseteq Nat /\ buffer.says \subseteq Nat /\ buffer.stop \in Nat
      /\ buffer.exit \in BOOLEAN /\ buffer.prompt \in BOOLEAN
  BY DEF Shape
<1>4. stopped.stop \in Nat /\ stopped.locals \subseteq Nat /\ stopped.frames \subseteq Nat
  BY DEF Shape
<1>5. \A k \in DOMAIN lldb.stdin : lldb.stdin[k] \in Message
  BY <1>1
<1>6. \A k \in DOMAIN lldb.stdout : lldb.stdout[k] \in Piece
  BY <1>1
<1> QED
  BY <1>1, <1>2, <1>3, <1>4, <1>5, <1>6 DEF Message, Piece

\* What send_command has done before its loop.
LEMMA SendsFields ==
    ASSUME Shape, NEW name \in Name, Sends(name)
    PROVE  /\ at' = "reading" /\ op' \in Message /\ op'.name = name /\ op'.id = op.id + 1
           /\ buffer' = Empty
           /\ buffer'.ids = {} /\ buffer'.says = {} /\ buffer'.stop = 0
           /\ buffer'.exit = FALSE /\ buffer'.prompt = FALSE
           /\ buffer' \in [ids : SUBSET Nat, stop : Nat, exit : BOOLEAN, says : SUBSET Nat,
                           prompt : BOOLEAN]
           /\ lldb'.alive = lldb.alive /\ lldb'.target = lldb.target /\ lldb'.stops = lldb.stops
           /\ lldb'.stdout = lldb.stdout /\ lldb'.stdin = Append(lldb.stdin, op')
           /\ lldb' \in [alive : BOOLEAN, target : Target, stops : Nat,
                         stdin : Seq(Message), stdout : Seq(Piece)]
<1>1. op' \in Message /\ op'.name = name /\ op'.id = op.id + 1
  BY Fields DEF Sends, Message
<1>2. /\ buffer' = Empty /\ buffer'.ids = {} /\ buffer'.says = {} /\ buffer'.stop = 0
      /\ buffer'.exit = FALSE /\ buffer'.prompt = FALSE
      /\ buffer' \in [ids : SUBSET Nat, stop : Nat, exit : BOOLEAN, says : SUBSET Nat,
                      prompt : BOOLEAN]
  BY DEF Sends, Empty
<1>3. lldb' = [lldb EXCEPT !.stdin = Append(@, op')]
  BY DEF Sends
<1>4. Append(lldb.stdin, op') \in Seq(Message)
  BY <1>1, Fields
<1> QED
  BY <1>1, <1>2, <1>3, <1>4 DEF Sends, Shape

LEMMA EmptyShape ==
    /\ Empty \in [ids : SUBSET Nat, stop : Nat, exit : BOOLEAN, says : SUBSET Nat, prompt : BOOLEAN]
    /\ Empty.ids = {} /\ Empty.says = {} /\ Empty.stop = 0
    /\ Empty.exit = FALSE /\ Empty.prompt = FALSE
  BY DEF Empty

\* What one read returns is added to the buffer.
LEMMA PushedFields ==
    ASSUME Shape, NEW c \in Piece
    PROVE  /\ Pushed(buffer, c) \in [ids : SUBSET Nat, stop : Nat, exit : BOOLEAN,
                                     says : SUBSET Nat, prompt : BOOLEAN]
           /\ Pushed(buffer, c).ids = buffer.ids \cup {c.id}
           /\ Pushed(buffer, c).stop = IF buffer.stop = 0 THEN c.stop ELSE buffer.stop
           /\ Pushed(buffer, c).exit = (buffer.exit \/ c.exit)
           /\ Pushed(buffer, c).says = IF c.id = 0 THEN buffer.says ELSE buffer.says \cup {c.says}
           /\ Pushed(buffer, c).prompt = c.prompt
<1>1. /\ buffer.ids \cup {c.id} \in SUBSET Nat
      /\ (IF buffer.stop = 0 THEN c.stop ELSE buffer.stop) \in Nat
      /\ (buffer.exit \/ c.exit) \in BOOLEAN
      /\ (IF c.id = 0 THEN buffer.says ELSE buffer.says \cup {c.says}) \in SUBSET Nat
      /\ c.prompt \in BOOLEAN
  BY Fields DEF Piece
<1> QED
  BY <1>1 DEF Pushed


\* The fields of lldb after a step that changes one of its queues.
LEMMA StdinFields ==
    ASSUME Shape, NEW s \in Seq(Message), lldb' = [lldb EXCEPT !.stdin = s]
    PROVE  /\ lldb'.alive = lldb.alive /\ lldb'.target = lldb.target /\ lldb'.stops = lldb.stops
           /\ lldb'.stdout = lldb.stdout /\ lldb'.stdin = s
           /\ lldb' \in [alive : BOOLEAN, target : Target, stops : Nat,
                         stdin : Seq(Message), stdout : Seq(Piece)]
  BY DEF Shape

LEMMA StdoutFields ==
    ASSUME Shape, NEW s \in Seq(Piece), NEW target \in Target, NEW stops \in Nat,
           lldb' = [lldb EXCEPT !.target = target, !.stops = stops, !.stdout = s]
    PROVE  /\ lldb'.alive = lldb.alive /\ lldb'.target = target /\ lldb'.stops = stops
           /\ lldb'.stdout = s /\ lldb'.stdin = lldb.stdin
           /\ lldb' \in [alive : BOOLEAN, target : Target, stops : Nat,
                         stdin : Seq(Message), stdout : Seq(Piece)]
  BY DEF Shape

-----------------------------------------------------------------------------
(* lldb and its target.                                                    *)

Session == <<at, op, buffer, async, script, exit_sent, stopped, exits, reqs>>

\* A step of lldb or its target leaves the driver alone.
LEMMA OnlyLldbShape ==
    ASSUME Shape, UNCHANGED Session,
           lldb' \in [alive : BOOLEAN, target : Target, stops : Nat,
                      stdin : Seq(Message), stdout : Seq(Piece)]
    PROVE  Shape'
  BY DEF Shape, Session

\* What executing a command c does.
LEMMA ExecutesFields ==
    ASSUME Shape, Executes
    PROVE  /\ lldb.alive /\ lldb.stdin # <<>> /\ UNCHANGED Session
           /\ lldb'.stdin = Tail(lldb.stdin) /\ lldb'.stops = lldb.stops
           /\ lldb'.alive = (Head(lldb.stdin).name # "quit")
           /\ lldb'.target =
                IF \/ Head(lldb.stdin).name = "run" /\ lldb.target = "none"
                   \/ Head(lldb.stdin).name = "step" /\ lldb.target = "stopped"
                THEN "running"
                ELSE IF Head(lldb.stdin).name = "kill" THEN "exited" ELSE lldb.target
           /\ \/ Head(lldb.stdin).name \in {"quit", "kill"} /\ lldb'.stdout = lldb.stdout
              \/ /\ Head(lldb.stdin).name \notin {"quit", "kill"}
                 /\ \E p \in Piece :
                      /\ lldb'.stdout = Append(lldb.stdout, p)
                      /\ p.id = Head(lldb.stdin).id /\ p.stop = 0 /\ p.exit = FALSE
                      /\ lldb'.target = "stopped" => p.says = lldb.stops
           /\ lldb' \in [alive : BOOLEAN, target : Target, stops : Nat,
                         stdin : Seq(Message), stdout : Seq(Piece)]
<1> DEFINE c == Head(lldb.stdin)
           resumes == \/ c.name = "run" /\ lldb.target = "none"
                      \/ c.name = "step" /\ lldb.target = "stopped"
           target == IF resumes THEN "running"
                     ELSE IF c.name = "kill" THEN "exited" ELSE lldb.target
<1>1. lldb.alive /\ lldb.stdin # <<>> /\ UNCHANGED Session
  BY DEF Executes, session, Session
<1>2. lldb.stdin \in Seq(Message) /\ lldb.stdout \in Seq(Piece) /\ lldb.stops \in Nat
      /\ lldb.target \in Target
  BY Fields
<1>3. c \in Message /\ Tail(lldb.stdin) \in Seq(Message)
  BY <1>1, <1>2, TailElements
<1>4. c.id \in Nat /\ c.name \in Name
  BY <1>3 DEF Message
<1>5. target \in Target
  BY <1>2 DEF Target
<1> DEFINE says == IF target = "stopped" THEN lldb.stops ELSE 0
           p(prompt) == [Text EXCEPT !.id = c.id, !.prompt = prompt, !.says = says]
           out(prompt) == IF c.name \in {"quit", "kill"} THEN lldb.stdout
                          ELSE Append(lldb.stdout, p(prompt))
<1>6. PICK prompt \in BOOLEAN :
        lldb' = [lldb EXCEPT !.stdin = Tail(@), !.target = target, !.alive = c.name # "quit",
                             !.stdout = out(prompt)]
  BY DEF Executes
<1>7. /\ p(prompt) \in Piece /\ p(prompt).id = c.id /\ p(prompt).stop = 0
      /\ p(prompt).exit = FALSE
      /\ target = "stopped" => p(prompt).says = lldb.stops
  <2>1. says \in Nat
    BY <1>2
  <2>2. target = "stopped" => says = lldb.stops
    OBVIOUS
  <2> HIDE DEF says
  <2> QED
    BY <1>4, <2>1, <2>2 DEF Text, Piece
<1>8. out(prompt) \in Seq(Piece)
  BY <1>2, <1>7
<1> HIDE DEF c, target, p, out
<1>9. /\ lldb'.stdin = Tail(lldb.stdin) /\ lldb'.stops = lldb.stops
      /\ lldb'.alive = (c.name # "quit") /\ lldb'.target = target
      /\ lldb'.stdout = out(prompt)
      /\ lldb' \in [alive : BOOLEAN, target : Target, stops : Nat,
                    stdin : Seq(Message), stdout : Seq(Piece)]
  BY <1>3, <1>5, <1>6, <1>8 DEF Shape
<1>10. \/ c.name \in {"quit", "kill"} /\ lldb'.stdout = lldb.stdout
       \/ /\ c.name \notin {"quit", "kill"}
          /\ \E q \in Piece :
               /\ lldb'.stdout = Append(lldb.stdout, q)
               /\ q.id = c.id /\ q.stop = 0 /\ q.exit = FALSE
               /\ lldb'.target = "stopped" => q.says = lldb.stops
  BY <1>7, <1>9 DEF out
<1> QED
  BY <1>1, <1>9, <1>10 DEF c, target

LEMMA ExecutesAligned ==
    ASSUME Shape, EventOK, Aligned, Executes, at \in {"banner", "reading", "idle"}
    PROVE  Aligned'
<1> DEFINE c == Head(lldb.stdin)
<1>0. /\ UNCHANGED Session /\ lldb.alive /\ lldb.stdin # <<>>
      /\ lldb'.stops = lldb.stops /\ Shape'
  BY ExecutesFields, OnlyLldbShape
<1>1. /\ 1 \in DOMAIN lldb.stdin /\ c = lldb.stdin[1]
      /\ \A k \in DOMAIN lldb'.stdin :
           k \in Nat \ {0} /\ k + 1 \in DOMAIN lldb.stdin /\ lldb'.stdin[k] = lldb.stdin[k + 1]
  <2>1. lldb.stdin \in Seq(Message) /\ lldb'.stdin = Tail(lldb.stdin)
    BY ExecutesFields, Fields
  <2> QED
    BY <1>0, <2>1, TailElements
<1>2. CASE c.id = 0
  <2>1. c.name = "quit"
    BY <1>1, <1>2 DEF Aligned, StdinOK
  <2>2. lldb'.target = lldb.target /\ lldb'.stdout = lldb.stdout /\ lldb'.alive = FALSE
    BY <2>1, ExecutesFields
  <2>3. StdinOK'
    BY <1>1, <2>2 DEF Aligned, StdinOK
  <2>4. StdoutOK'
    BY <1>0, <2>2 DEF Aligned, StdoutOK, AnswerOK, NewsOK, Reported, Session
  <2>5. BufferOK' /\ CallsOK' /\ StopIsKnown'
    BY <1>0, <2>2 DEF Aligned, BufferOK, CallsOK, StopIsKnown, Reported, Session
  <2>6. StageOK'
    BY <1>0, <2>2 DEF Aligned, StageOK, Reported, Session
  <2> QED
    BY <2>3, <2>4, <2>5, <2>6 DEF Aligned
<1>3. CASE c.id # 0
  <2>1. /\ c = op /\ at = "reading" /\ ~buffer.prompt /\ buffer.stop = 0
        /\ \A j \in DOMAIN lldb.stdin : lldb.stdin[j].id # 0 => j = 1
        /\ lldb.target # "running"
        /\ \A j \in DOMAIN lldb.stdout : lldb.stdout[j].id = 0 /\ lldb.stdout[j].stop = 0
    BY <1>0, <1>1, <1>3 DEF Aligned, StdinOK
  <2>2. op.name \in {"setup", "run", "step", "look", "list", "vars", "bt"}
    BY <2>1 DEF Aligned, StageOK
  <2>3. PICK p \in Piece :
          /\ lldb'.stdout = Append(lldb.stdout, p)
          /\ p.id = op.id /\ p.stop = 0 /\ p.exit = FALSE
          /\ lldb'.target = "stopped" => p.says = lldb.stops
    BY <2>1, <2>2, ExecutesFields
  <2>4. /\ \A k \in DOMAIN lldb'.stdout :
             \/ k = Len(lldb.stdout) + 1 /\ lldb'.stdout[k] = p
             \/ k \in DOMAIN lldb.stdout /\ lldb'.stdout[k] = lldb.stdout[k]
        /\ \A k \in DOMAIN lldb.stdout : k \in Nat /\ k < Len(lldb.stdout) + 1
        /\ \A k \in DOMAIN lldb.stdout : k \in DOMAIN lldb'.stdout /\ lldb'.stdout[k] = lldb.stdout[k]
    BY <2>3, Fields, AppendElements
  <2>5. /\ op.name = "run" /\ lldb.target = "none" => lldb'.target = "running"
        /\ op.name = "step" /\ lldb.target = "stopped" => lldb'.target = "running"
        /\ lldb'.target \in {"running", lldb.target}
        /\ lldb'.target # lldb.target => lldb.target \in {"none", "stopped"}
        /\ op.name \notin {"run", "step"} => lldb'.target = lldb.target
    BY <2>1, <2>2, ExecutesFields
  <2>6. StdinOK'
    <3>1. \A k \in DOMAIN lldb'.stdin : lldb'.stdin[k].id = 0
      BY <1>1, <2>1
    <3>2. \A k \in DOMAIN lldb'.stdin : lldb'.stdin[k].name = "quit"
      BY <1>1, <3>1 DEF Aligned, StdinOK
    <3> QED
      BY <3>1, <3>2 DEF StdinOK
  <2>7. StdoutOK'
    <3> SUFFICES ASSUME NEW k \in DOMAIN lldb'.stdout
                 PROVE  /\ lldb'.stdout[k].prompt => lldb'.stdout[k].id # 0 \/ lldb'.stdout[k].stop # 0
                        /\ lldb'.stdout[k].exit => lldb'.target = "exited"
                        /\ lldb'.stdout[k].id # 0 => AnswerOK(k)'
                        /\ lldb'.stdout[k].stop # 0 => NewsOK(k)'
      BY DEF StdoutOK
    <3>1. CASE k \in DOMAIN lldb.stdout /\ lldb'.stdout[k] = lldb.stdout[k]
      BY <2>1, <2>5, <3>1 DEF Aligned, StdoutOK
    <3>2. CASE k = Len(lldb.stdout) + 1 /\ lldb'.stdout[k] = p
      <4>1. op'.name \in {"vars", "bt"} => p.says = stopped'.stop
        BY <1>0, <2>1, <2>3, <2>5 DEF Aligned, StageOK, Reported, Session
      <4>2. AnswerOK(k)'
        BY <1>0, <2>1, <2>3, <2>4, <3>2, <4>1 DEF AnswerOK, Session
      <4> QED
        BY <1>3, <2>1, <2>3, <3>2, <4>2
    <3> QED
      BY <2>4, <3>1, <3>2
  <2>8. BufferOK'
    BY <1>0, <2>1, <2>5 DEF Aligned, BufferOK, Session
  <2>9. StageOK' /\ CallsOK'
    BY <1>0, <2>1, <2>2, <2>5 DEF Aligned, StageOK, CallsOK, Reported, Session
  <2>10. StopIsKnown'
    BY <1>0, <2>1, <2>4, <2>5 DEF Aligned, StopIsKnown, Reported, Session
  <2> QED
    BY <2>6, <2>7, <2>8, <2>9, <2>10 DEF Aligned
<1> QED
  BY <1>2, <1>3

\* The target writes a piece by itself: a stop, its exit or a print.
Writes(p) ==
    /\ UNCHANGED Session /\ lldb.target = "running"
    /\ lldb'.alive = lldb.alive /\ lldb'.stdin = lldb.stdin
    /\ p \in Piece /\ p.id = 0 /\ lldb'.stdout = Append(lldb.stdout, p)
    /\ \/ /\ p.stop = lldb.stops + 1 /\ ~p.exit
          /\ lldb'.stops = lldb.stops + 1 /\ lldb'.target = "stopped"
       \/ /\ p.stop = 0 /\ ~p.prompt /\ (p.exit => lldb'.target = "exited")
          /\ lldb'.stops = lldb.stops /\ lldb'.target \in {"running", "exited"}
    /\ lldb' \in [alive : BOOLEAN, target : Target, stops : Nat,
                  stdin : Seq(Message), stdout : Seq(Piece)]

LEMMA TargetWrites ==
    ASSUME Shape, TargetStops \/ TargetExits \/ TargetPrints
    PROVE  \E p \in Piece : Writes(p)
<1>1. lldb.stdout \in Seq(Piece) /\ lldb.stops \in Nat
  BY Fields
<1>2. UNCHANGED Session /\ lldb.target = "running"
  BY DEF TargetStops, TargetExits, TargetPrints, session, Session
<1>3. ASSUME TargetStops PROVE \E p \in Piece : Writes(p)
  <2>1. PICK prompt \in BOOLEAN :
          lldb' = [lldb EXCEPT !.target = "stopped", !.stops = @ + 1,
                               !.stdout = Append(@, [Text EXCEPT !.stop = lldb.stops + 1,
                                                                 !.prompt = prompt])]
    BY <1>3 DEF TargetStops
  <2> DEFINE p == [Text EXCEPT !.stop = lldb.stops + 1, !.prompt = prompt]
  <2>2. p \in Piece /\ p.id = 0 /\ p.stop = lldb.stops + 1 /\ p.exit = FALSE
    <3> DEFINE n == lldb.stops + 1
    <3>1. n \in Nat
      BY <1>1
    <3> HIDE DEF n
    <3>2. /\ [Text EXCEPT !.stop = n, !.prompt = prompt] \in Piece
          /\ [Text EXCEPT !.stop = n, !.prompt = prompt].id = 0
          /\ [Text EXCEPT !.stop = n, !.prompt = prompt].stop = n
          /\ [Text EXCEPT !.stop = n, !.prompt = prompt].exit = FALSE
      BY <3>1 DEF Text, Piece
    <3> QED
      BY <3>2 DEF n
  <2>3. Append(lldb.stdout, p) \in Seq(Piece) /\ lldb.stops + 1 \in Nat /\ "stopped" \in Target
    BY <1>1, <2>2 DEF Target
  <2> HIDE DEF p
  <2>4. /\ lldb'.alive = lldb.alive /\ lldb'.stdin = lldb.stdin
        /\ lldb'.stdout = Append(lldb.stdout, p)
        /\ lldb'.stops = lldb.stops + 1 /\ lldb'.target = "stopped"
        /\ lldb' \in [alive : BOOLEAN, target : Target, stops : Nat,
                      stdin : Seq(Message), stdout : Seq(Piece)]
    BY <2>1, <2>3 DEF Shape, p
  <2> QED
    BY <1>2, <2>2, <2>4 DEF Writes
<1>4. ASSUME TargetExits PROVE \E p \in Piece : Writes(p)
  <2> DEFINE p == [Text EXCEPT !.exit = TRUE]
  <2>1. p \in Piece /\ p.id = 0 /\ p.stop = 0 /\ p.prompt = FALSE
    BY DEF Text, Piece
  <2>2. Append(lldb.stdout, p) \in Seq(Piece) /\ "exited" \in Target
    BY <1>1, <2>1 DEF Target
  <2>3. lldb' = [lldb EXCEPT !.target = "exited", !.stdout = Append(@, p)]
    BY <1>4 DEF TargetExits
  <2> HIDE DEF p
  <2>4. /\ lldb'.alive = lldb.alive /\ lldb'.stdin = lldb.stdin
        /\ lldb'.stdout = Append(lldb.stdout, p)
        /\ lldb'.stops = lldb.stops /\ lldb'.target = "exited"
        /\ lldb' \in [alive : BOOLEAN, target : Target, stops : Nat,
                      stdin : Seq(Message), stdout : Seq(Piece)]
    BY <2>2, <2>3 DEF Shape
  <2> QED
    BY <1>2, <2>1, <2>4 DEF Writes
<1>5. ASSUME TargetPrints PROVE \E p \in Piece : Writes(p)
  <2>1. Text \in Piece /\ Text.id = 0 /\ Text.stop = 0 /\ Text.prompt = FALSE /\ Text.exit = FALSE
    BY DEF Text, Piece
  <2>2. Append(lldb.stdout, Text) \in Seq(Piece)
    BY <1>1, <2>1
  <2>3. lldb' = [lldb EXCEPT !.stdout = Append(@, Text)]
    BY <1>5 DEF TargetPrints
  <2>4. /\ lldb'.alive = lldb.alive /\ lldb'.stdin = lldb.stdin
        /\ lldb'.stdout = Append(lldb.stdout, Text)
        /\ lldb'.stops = lldb.stops /\ lldb'.target = lldb.target
        /\ lldb' \in [alive : BOOLEAN, target : Target, stops : Nat,
                      stdin : Seq(Message), stdout : Seq(Piece)]
    BY <2>2, <2>3 DEF Shape
  <2> QED
    BY <1>2, <2>1, <2>4 DEF Writes
<1> QED
  BY <1>3, <1>4, <1>5

LEMMA WritesAligned ==
    ASSUME Shape, EventOK, Aligned, NEW p \in Piece, Writes(p), at \in {"banner", "reading", "idle"}
    PROVE  Aligned'
<1>0. UNCHANGED Session /\ lldb'.alive = lldb.alive /\ lldb'.stdin = lldb.stdin
  BY DEF Writes
<1>1. /\ \A k \in DOMAIN lldb'.stdout :
           \/ k = Len(lldb.stdout) + 1 /\ lldb'.stdout[k] = p
           \/ k \in DOMAIN lldb.stdout /\ lldb'.stdout[k] = lldb.stdout[k]
      /\ \A k \in DOMAIN lldb.stdout : k \in Nat /\ k < Len(lldb.stdout) + 1
      /\ \A k \in DOMAIN lldb.stdout : k \in DOMAIN lldb'.stdout /\ lldb'.stdout[k] = lldb.stdout[k]
      /\ Len(lldb.stdout) + 1 \in DOMAIN lldb'.stdout /\ Len(lldb.stdout) \in Nat
      /\ lldb'.stdout[Len(lldb.stdout) + 1] = p
  <2>1. lldb.stdout \in Seq(Piece) /\ lldb'.stdout = Append(lldb.stdout, p)
    BY Fields DEF Writes
  <2> QED
    BY <2>1, AppendElements
<1>2. /\ lldb.target = "running" /\ buffer.stop = 0 /\ ~buffer.exit
      /\ \A k \in DOMAIN lldb.stdout : lldb.stdout[k].stop = 0 /\ ~lldb.stdout[k].exit
      /\ \A k \in DOMAIN lldb.stdin : lldb.stdin[k].id = 0 \/ ~lldb.alive
      /\ lldb'.target # lldb.target => lldb'.target \in {"stopped", "exited"}
      /\ p.id = 0
  BY DEF Writes, Aligned, StdinOK, StdoutOK, BufferOK, NewsOK
<1>3. stopped.stop < lldb.stops + 1 /\ lldb.stops \in Nat /\ stopped.stop \in Nat
  BY Fields DEF EventOK
<1>4. StdinOK'
  BY <1>0, <1>2 DEF Aligned, StdinOK
<1>5. StdoutOK'
  <2> SUFFICES ASSUME NEW k \in DOMAIN lldb'.stdout
               PROVE  /\ lldb'.stdout[k].prompt => lldb'.stdout[k].id # 0 \/ lldb'.stdout[k].stop # 0
                      /\ lldb'.stdout[k].exit => lldb'.target = "exited"
                      /\ lldb'.stdout[k].id # 0 => AnswerOK(k)'
                      /\ lldb'.stdout[k].stop # 0 => NewsOK(k)'
    BY DEF StdoutOK
  <2>1. CASE k = Len(lldb.stdout) + 1 /\ lldb'.stdout[k] = p
    <3>1. CASE p.stop = lldb.stops + 1
      <4>1. p.stop # 0 /\ ~p.exit /\ lldb'.target = "stopped" /\ lldb'.stops = lldb.stops + 1
        BY <1>3, <3>1 DEF Writes
      <4>2. NewsOK(k)'
        BY <1>0, <1>1, <1>2, <1>3, <2>1, <3>1, <4>1 DEF NewsOK, Reported, Session
      <4> QED
        BY <1>2, <2>1, <4>1, <4>2
    <3>2. CASE p.stop = 0
      <4>1. ~p.prompt /\ (p.exit => lldb'.target = "exited")
        BY <1>3, <3>2 DEF Writes
      <4> QED
        BY <1>2, <2>1, <3>2, <4>1
    <3> QED
      BY <3>1, <3>2 DEF Writes
  <2>2. CASE k \in DOMAIN lldb.stdout /\ lldb'.stdout[k] = lldb.stdout[k]
    <3>1. lldb.stdout[k].id # 0 => AnswerOK(k)'
      BY <1>0, <1>1, <2>2 DEF Aligned, StdoutOK, AnswerOK, Session
    <3> QED
      BY <1>2, <2>2, <3>1 DEF Aligned, StdoutOK
  <2> QED
    BY <1>1, <2>1, <2>2
<1>6. BufferOK' /\ CallsOK'
  BY <1>0, <1>2 DEF Aligned, BufferOK, CallsOK, Session
<1>7. StageOK'
  BY <1>0, <1>2 DEF Aligned, StageOK, Session
<1>8. StopIsKnown'
  <2>1. lldb'.target = "stopped" => p.stop # 0
    BY <1>2, <1>3 DEF Writes
  <2> QED
    BY <1>1, <2>1 DEF StopIsKnown
<1> QED
  BY <1>4, <1>5, <1>6, <1>7, <1>8 DEF Aligned

LEMMA DiesAligned ==
    ASSUME Shape, Aligned, LldbDies
    PROVE  Aligned' /\ Shape' /\ lldb'.stops = lldb.stops /\ UNCHANGED Session
<1>1. lldb' = [lldb EXCEPT !.alive = FALSE] /\ UNCHANGED Session
  BY DEF LldbDies, session, Session
<1>2. /\ lldb'.target = lldb.target /\ lldb'.stops = lldb.stops /\ ~lldb'.alive
      /\ lldb'.stdin = lldb.stdin /\ lldb'.stdout = lldb.stdout
      /\ lldb' \in [alive : BOOLEAN, target : Target, stops : Nat,
                    stdin : Seq(Message), stdout : Seq(Piece)]
  BY <1>1 DEF Shape
<1>3. StdinOK'
  BY <1>1, <1>2 DEF Aligned, StdinOK
<1>4. StdoutOK'
  BY <1>1, <1>2 DEF Aligned, StdoutOK, AnswerOK, NewsOK, Reported, Session
<1>5. BufferOK' /\ StageOK' /\ CallsOK' /\ StopIsKnown'
  BY <1>1, <1>2 DEF Aligned, BufferOK, StageOK, CallsOK, StopIsKnown, Reported, Session
<1> QED
  BY <1>1, <1>2, <1>3, <1>4, <1>5, OnlyLldbShape DEF Aligned

-----------------------------------------------------------------------------
(* The driver.                                                             *)

\* The user makes a call.
LEMMA CallAligned ==
    ASSUME Shape, EventOK, at \in {"banner", "reading", "idle"} => Aligned,
           world.patient, NEW kind \in Kinds, Call(kind)
    PROVE  /\ Shape' /\ EventOK'
           /\ at' = at /\ (at \in {"banner", "reading", "idle"} => Aligned')
<1>1. /\ UNCHANGED <<at, op, buffer, async, script, stopped, lldb>>
      /\ reqs' = Append(reqs, kind)
      /\ kind # "stop" => at = "idle" /\ reqs = <<>> /\ lldb.target = "stopped" /\ Reported
  BY DEF Call, session, Reported
<1>2. reqs \in Seq(Kinds)
  BY DEF Shape
<1>3. /\ reqs' \in Seq(Kinds)
      /\ \A k \in DOMAIN reqs' :
           (k = Len(reqs) + 1 /\ reqs'[k] = kind) \/ (k \in DOMAIN reqs /\ reqs'[k] = reqs[k])
      /\ reqs # <<>> => 1 \in DOMAIN reqs /\ reqs'[1] = reqs[1]
      /\ reqs = <<>> => Len(reqs) = 0 /\ reqs'[1] = kind
  BY <1>1, <1>2
<1>4. Shape' /\ EventOK'
  BY <1>1, <1>3 DEF Shape, EventOK
<1>5. ASSUME Aligned PROVE Aligned'
  <2>1. StdinOK' /\ StdoutOK' /\ BufferOK' /\ StageOK' /\ StopIsKnown'
    BY <1>1, <1>5 DEF Aligned, StdinOK, StdoutOK, AnswerOK, NewsOK, BufferOK, StageOK,
                      StopIsKnown, Reported
  <2>2. CallsOK'
    <3>1. CASE reqs = <<>>
      BY <1>1, <1>3, <3>1 DEF CallsOK, Reported
    <3>2. CASE reqs # <<>>
      <4>1. kind = "stop"
        BY <1>1, <3>2
      <4> QED
        BY <1>1, <1>3, <1>5, <3>2, <4>1 DEF Aligned, CallsOK, Reported
    <3> QED
      BY <3>1, <3>2
  <2> QED
    BY <2>1, <2>2 DEF Aligned
<1> QED
  BY <1>1, <1>4, <1>5

\* A byte is read.
LEMMA ReadAligned ==
    ASSUME Shape, EventOK, Aligned, ReadChunk
    PROVE  Shape' /\ EventOK' /\ Aligned' /\ at' = at
<1> DEFINE c == Head(lldb.stdout)
<1>1. /\ UNCHANGED <<at, op, script, reqs, stopped>> /\ lldb.stdout # <<>>
      /\ async' = (at = "idle") /\ buffer' = Pushed(buffer, c)
      /\ lldb' = [lldb EXCEPT !.stdout = Tail(@)]
      /\ at = "reading" => ~buffer.prompt
      /\ at \in {"banner", "reading", "idle"}
  BY DEF ReadChunk
<1>2. /\ c \in Piece /\ Tail(lldb.stdout) \in Seq(Piece)
      /\ 1 \in DOMAIN lldb.stdout /\ c = lldb.stdout[1]
      /\ \A k \in DOMAIN Tail(lldb.stdout) :
           k \in Nat \ {0} /\ k + 1 \in DOMAIN lldb.stdout /\ Tail(lldb.stdout)[k] = lldb.stdout[k + 1]
      /\ \A k \in DOMAIN lldb.stdout :
           k = 1 \/ (k - 1 \in DOMAIN Tail(lldb.stdout) /\ Tail(lldb.stdout)[k - 1] = lldb.stdout[k])
      /\ \A k \in DOMAIN lldb.stdout : k \in Nat
  <2>1. lldb.stdout \in Seq(Piece)
    BY Fields
  <2> QED
    BY <1>1, <2>1, TailElements
<1>3. /\ lldb'.alive = lldb.alive /\ lldb'.target = lldb.target /\ lldb'.stops = lldb.stops
      /\ lldb'.stdin = lldb.stdin /\ lldb'.stdout = Tail(lldb.stdout)
      /\ lldb' \in [alive : BOOLEAN, target : Target, stops : Nat,
                    stdin : Seq(Message), stdout : Seq(Piece)]
  BY <1>1, <1>2 DEF Shape
<1>4. /\ buffer' \in [ids : SUBSET Nat, stop : Nat, exit : BOOLEAN, says : SUBSET Nat, prompt : BOOLEAN]
      /\ buffer'.ids = buffer.ids \cup {c.id}
      /\ buffer'.stop = IF buffer.stop = 0 THEN c.stop ELSE buffer.stop
      /\ buffer'.exit = (buffer.exit \/ c.exit)
      /\ buffer'.says = IF c.id = 0 THEN buffer.says ELSE buffer.says \cup {c.says}
      /\ buffer'.prompt = c.prompt
  BY <1>1, <1>2, PushedFields
<1>5. Shape' /\ EventOK'
  BY <1>1, <1>3, <1>4 DEF Shape, EventOK
<1>6. /\ c.prompt => c.id # 0 \/ c.stop # 0
      /\ c.exit => lldb.target = "exited"
      /\ c.id # 0 => AnswerOK(1)
      /\ c.stop # 0 => NewsOK(1)
  BY <1>2 DEF Aligned, StdoutOK
<1>7. c.id \in Nat /\ c.stop \in Nat /\ c.prompt \in BOOLEAN /\ c.says \in Nat
  BY <1>2 DEF Piece
<1>8. StdinOK'
  <2> SUFFICES ASSUME NEW k \in DOMAIN lldb.stdin, lldb.stdin[k].id # 0, lldb.alive
               PROVE  /\ buffer'.stop = 0 /\ ~buffer'.prompt
                      /\ \A j \in DOMAIN lldb'.stdout : lldb'.stdout[j].id = 0 /\ lldb'.stdout[j].stop = 0
    BY <1>1, <1>3 DEF Aligned, StdinOK
  <2>1. /\ buffer.stop = 0
        /\ \A j \in DOMAIN lldb.stdout : lldb.stdout[j].id = 0 /\ lldb.stdout[j].stop = 0
    BY DEF Aligned, StdinOK
  <2>2. c.id = 0 /\ c.stop = 0
    BY <1>2, <2>1
  <2> QED
    BY <1>2, <1>3, <1>4, <1>6, <1>7, <2>1, <2>2
<1>9. StdoutOK'
  <2> SUFFICES ASSUME NEW k \in DOMAIN lldb'.stdout
               PROVE  /\ lldb'.stdout[k].prompt => lldb'.stdout[k].id # 0 \/ lldb'.stdout[k].stop # 0
                      /\ lldb'.stdout[k].exit => lldb'.target = "exited"
                      /\ lldb'.stdout[k].id # 0 => AnswerOK(k)'
                      /\ lldb'.stdout[k].stop # 0 => NewsOK(k)'
    BY DEF StdoutOK
  <2>1. k \in Nat \ {0} /\ k + 1 \in DOMAIN lldb.stdout /\ lldb'.stdout[k] = lldb.stdout[k + 1]
    BY <1>2, <1>3
  <2>2. ASSUME lldb'.stdout[k].id # 0 PROVE AnswerOK(k)'
    <3>1. AnswerOK(k + 1)
      BY <2>1, <2>2 DEF Aligned, StdoutOK
    <3>2. c.id = 0 /\ c.stop = 0
      BY <1>2, <2>1, <3>1 DEF AnswerOK
    <3>3. \A j \in DOMAIN lldb'.stdout :
            j < k => lldb'.stdout[j].id = 0 /\ lldb'.stdout[j].stop = 0
      BY <1>2, <1>3, <2>1, <3>1 DEF AnswerOK
    <3>4. ~buffer'.prompt
      BY <1>4, <1>6, <1>7, <3>2
    <3> QED
      BY <1>1, <2>1, <3>1, <3>3, <3>4 DEF AnswerOK
  <2>3. ASSUME lldb'.stdout[k].stop # 0 PROVE NewsOK(k)'
    <3>1. NewsOK(k + 1)
      BY <2>1, <2>3 DEF Aligned, StdoutOK
    <3>2. c.stop = 0
      BY <1>2, <2>1, <3>1 DEF NewsOK
    <3>3. \A j \in DOMAIN lldb'.stdout : lldb'.stdout[j].stop # 0 => j = k
      <4> SUFFICES ASSUME NEW j \in DOMAIN lldb'.stdout, lldb'.stdout[j].stop # 0 PROVE j = k
        OBVIOUS
      <4>1. j \in Nat /\ j + 1 \in DOMAIN lldb.stdout /\ lldb.stdout[j + 1].stop # 0
        BY <1>2, <1>3
      <4>2. j + 1 = k + 1
        BY <3>1, <4>1 DEF NewsOK
      <4> QED
        BY <2>1, <4>1, <4>2
    <3>4. buffer'.stop = 0
      BY <1>4, <3>1, <3>2 DEF NewsOK
    <3> QED
      BY <1>1, <1>3, <2>1, <3>1, <3>3, <3>4 DEF NewsOK, Reported
  <2> QED
    BY <1>3, <2>1, <2>2, <2>3 DEF Aligned, StdoutOK
<1>10. BufferOK'
  <2>1. buffer'.exit => lldb'.target = "exited"
    BY <1>3, <1>4, <1>6 DEF Aligned, BufferOK
  <2>2. buffer'.stop # 0 => buffer'.stop = lldb'.stops /\ lldb'.target = "stopped" /\ ~Reported'
    BY <1>1, <1>3, <1>4, <1>6 DEF Aligned, BufferOK, NewsOK, Reported
  <2>3. at' = "reading" => buffer'.ids \subseteq {0, op'.id}
    BY <1>1, <1>2, <1>4, <1>6 DEF Aligned, BufferOK, AnswerOK
  <2>4. at' = "reading" /\ op'.name \in {"vars", "bt"} => buffer'.says \subseteq {stopped'.stop}
    BY <1>1, <1>2, <1>4, <1>6 DEF Aligned, BufferOK, AnswerOK
  <2> QED
    BY <2>1, <2>2, <2>3, <2>4 DEF BufferOK
<1>11. StageOK' /\ CallsOK'
  BY <1>1, <1>3 DEF Aligned, StageOK, CallsOK, Reported
<1>12. StopIsKnown'
  <2> SUFFICES ASSUME lldb.target = "stopped", ~Reported
               PROVE  \/ \E k \in DOMAIN lldb'.stdout : lldb'.stdout[k].stop # 0
                      \/ buffer'.stop # 0 /\ (at' = "reading" \/ async')
    BY <1>1, <1>3 DEF StopIsKnown, Reported
  <2>1. at # "banner"
    BY DEF Aligned, StageOK
  <2>2. CASE \E k \in DOMAIN lldb.stdout : lldb.stdout[k].stop # 0
    <3>1. PICK k \in DOMAIN lldb.stdout : lldb.stdout[k].stop # 0
      BY <2>2
    <3>2. CASE k = 1
      <4>1. c.stop # 0 /\ buffer.stop = 0
        BY <1>2, <1>6, <3>1, <3>2 DEF NewsOK
      <4> QED
        BY <1>1, <1>4, <2>1, <4>1
    <3>3. CASE k # 1
      <4>1. k - 1 \in DOMAIN lldb'.stdout /\ lldb'.stdout[k - 1] = lldb.stdout[k]
        BY <1>2, <1>3, <3>3
      <4> QED
        BY <3>1, <4>1
    <3> QED
      BY <3>2, <3>3
  <2>3. CASE buffer.stop # 0
    BY <1>1, <1>4, <2>1, <2>3
  <2> QED
    BY <2>2, <2>3 DEF Aligned, StopIsKnown
<1> QED
  BY <1>1, <1>5, <1>8, <1>9, <1>10, <1>11, <1>12 DEF Aligned

\* Nothing is owed, nothing new is unread, and nothing more will come.
Clear ==
    /\ \A k \in DOMAIN lldb.stdin :
         (lldb.stdin[k].id = 0 => lldb.stdin[k].name = "quit") /\ (lldb.alive => lldb.stdin[k].id = 0)
    /\ \A k \in DOMAIN lldb.stdout :
         /\ lldb.stdout[k].id = 0 /\ lldb.stdout[k].stop = 0 /\ ~lldb.stdout[k].prompt
         /\ lldb.stdout[k].exit => lldb.target = "exited"
    /\ lldb.target # "running"

Asked == {"setup", "run", "step", "look", "list", "vars", "bt"}

\* A command that is sent when all is clear starts an answer.
LEMMA SendsAligned ==
    ASSUME Shape, Clear, NEW name \in Asked, Sends(name)
    PROVE  StdinOK' /\ StdoutOK' /\ BufferOK'
<1>1. name \in Name /\ op.id \in Nat
  BY Fields DEF Asked, Name
<1>2. /\ at' = "reading" /\ op' \in Message /\ op'.name = name /\ op'.id = op.id + 1
      /\ buffer'.ids = {} /\ buffer'.says = {} /\ buffer'.stop = 0
      /\ buffer'.exit = FALSE /\ buffer'.prompt = FALSE
      /\ lldb'.alive = lldb.alive /\ lldb'.target = lldb.target /\ lldb'.stops = lldb.stops
      /\ lldb'.stdout = lldb.stdout /\ lldb'.stdin = Append(lldb.stdin, op')
  BY <1>1, SendsFields
<1>3. \A k \in DOMAIN lldb'.stdin :
         (k = Len(lldb.stdin) + 1 /\ lldb'.stdin[k] = op')
         \/ (k \in DOMAIN lldb.stdin /\ lldb'.stdin[k] = lldb.stdin[k])
  <2>1. lldb.stdin \in Seq(Message)
    BY Fields
  <2> QED
    BY <1>2, <2>1, AppendElements
<1>4. StdinOK'
  BY <1>1, <1>2, <1>3 DEF StdinOK, Clear
<1>5. StdoutOK'
  BY <1>2 DEF StdoutOK, Clear
<1>6. BufferOK'
  BY <1>2 DEF BufferOK
<1> QED
  BY <1>4, <1>5, <1>6

\* Behind the answer nothing is owed.
LEMMA EndedIsClear ==
    ASSUME Shape, Aligned, InTime, AnswerEnds
    PROVE  /\ \A k \in DOMAIN lldb.stdin :
                /\ lldb.stdin[k].id = 0 => lldb.stdin[k].name = "quit"
                /\ lldb.alive => lldb.stdin[k].id = 0
           /\ \A k \in DOMAIN lldb.stdout :
                /\ lldb.stdout[k].id = 0
                /\ lldb.stdout[k].prompt => lldb.stdout[k].stop # 0
                /\ lldb.stdout[k].exit => lldb.target = "exited"
<1>1. \A k \in DOMAIN lldb.stdin : lldb.stdin[k].id = 0 => lldb.stdin[k].name = "quit"
  BY DEF Aligned, StdinOK
<1>2. CASE buffer.prompt
  BY <1>1, <1>2 DEF Aligned, StdinOK, StdoutOK, AnswerOK
<1>3. CASE ~buffer.prompt
  <2>1. lldb.stdout = <<>> /\ (lldb.alive => lldb.stdin = <<>>)
    BY <1>3 DEF AnswerEnds, InTime
  <2> QED
    BY <1>1, <2>1
<1> QED
  BY <1>2, <1>3

\* Between commands nothing is owed either.
LEMMA IdleIsClear ==
    ASSUME Shape, Aligned, at # "reading"
    PROVE  /\ \A k \in DOMAIN lldb.stdin :
                /\ lldb.stdin[k].id = 0 => lldb.stdin[k].name = "quit"
                /\ lldb.alive => lldb.stdin[k].id = 0
           /\ \A k \in DOMAIN lldb.stdout :
                /\ lldb.stdout[k].id = 0
                /\ lldb.stdout[k].prompt => lldb.stdout[k].stop # 0
                /\ lldb.stdout[k].exit => lldb.target = "exited"
  BY DEF Aligned, StdinOK, StdoutOK, AnswerOK

\* While the target is at a stop that was reported, or has not been run, no stop is
\* unread.
LEMMA NoNews ==
    ASSUME Aligned, lldb.target # "stopped" \/ Reported
    PROVE  buffer.stop = 0 /\ \A k \in DOMAIN lldb.stdout : lldb.stdout[k].stop = 0
  BY DEF Aligned, BufferOK, StdoutOK, NewsOK

\* The types of what a command that is sent changes.
LEMMA SendsShape ==
    ASSUME Shape, NEW name \in Asked, Sends(name), async' \in BOOLEAN,
           script' \in Seq({"setup", "run"}), reqs' \in Seq(Kinds),
           stopped' \in [stop : Nat, locals : SUBSET Nat, frames : SUBSET Nat]
    PROVE  Shape'
<1>1. name \in Name
  BY DEF Asked, Name
<1> QED
  BY <1>1, SendsFields DEF Shape

\* The driver rests: the buffer is emptied, and nothing was new in it.
LEMMA RestsAligned ==
    ASSUME Shape, EventOK, Aligned, InTime, AnswerEnds, Rests,
           UNCHANGED <<async, script, reqs>>,
           stopped'.stop = stopped.stop,
           lldb.target = "stopped" => Reported \/ buffer.stop = 0
    PROVE  Aligned'
<1>1. /\ at = "reading" /\ at' = "idle" /\ op' = op /\ lldb' = lldb
      /\ buffer'.ids = {} /\ buffer'.says = {} /\ buffer'.stop = 0
      /\ buffer'.exit = FALSE /\ buffer'.prompt = FALSE
  BY EmptyShape DEF Rests, AnswerEnds
<1>2. StdinOK'
  BY <1>1, EndedIsClear DEF StdinOK
<1>3. StdoutOK'
  <2>1. \A k \in DOMAIN lldb.stdout : lldb.stdout[k].id = 0
    BY EndedIsClear
  <2> QED
    BY <1>1, <2>1 DEF Aligned, StdoutOK, NewsOK, Reported
<1>4. BufferOK' /\ StageOK'
  BY <1>1 DEF BufferOK, StageOK
<1>5. CallsOK'
  BY <1>1 DEF Aligned, CallsOK, Reported
<1>6. StopIsKnown'
  BY <1>1 DEF Aligned, StopIsKnown, Reported
<1> QED
  BY <1>2, <1>3, <1>4, <1>5, <1>6 DEF Aligned

LEMMA RestsShape ==
    ASSUME Shape, Rests, async' \in BOOLEAN, UNCHANGED <<script, reqs>>,
           stopped' \in [stop : Nat, locals : SUBSET Nat, frames : SUBSET Nat]
    PROVE  Shape'
  BY EmptyShape DEF Shape, Rests

\* An exit or a stop in what was read.
LEMMA InspectsAligned ==
    ASSUME Shape, EventOK, Aligned, Inspects(buffer), buffer.exit \/ buffer.stop # 0,
           UNCHANGED <<script, reqs>>, async' \in BOOLEAN,
           reqs # <<>> => reqs[1] = "stop",
           \A k \in DOMAIN lldb.stdin :
             /\ lldb.stdin[k].id = 0 => lldb.stdin[k].name = "quit"
             /\ lldb.alive => lldb.stdin[k].id = 0,
           \A k \in DOMAIN lldb.stdout :
             /\ lldb.stdout[k].id = 0
             /\ lldb.stdout[k].prompt => lldb.stdout[k].stop # 0
             /\ lldb.stdout[k].exit => lldb.target = "exited"
    PROVE  Shape' /\ EventOK' /\ Aligned'
<1>1. ASSUME buffer.exit PROVE Shape' /\ EventOK' /\ Aligned'
  <2> DEFINE c == [name |-> "quit", id |-> 0]
  <2>1. /\ at' = "idle" /\ buffer' = Empty /\ UNCHANGED <<op, stopped>>
        /\ lldb' = [lldb EXCEPT !.stdin = Append(@, c)]
    BY <1>1 DEF Inspects
  <2>2. c \in Message /\ lldb.stdin \in Seq(Message) /\ lldb.target = "exited"
    BY <1>1, Fields DEF Message, Name, Aligned, BufferOK
  <2>3. /\ Append(lldb.stdin, c) \in Seq(Message)
        /\ \A k \in DOMAIN Append(lldb.stdin, c) :
             \/ Append(lldb.stdin, c)[k] = c
             \/ k \in DOMAIN lldb.stdin /\ Append(lldb.stdin, c)[k] = lldb.stdin[k]
    BY <2>2, AppendElements
  <2>4. /\ lldb'.alive = lldb.alive /\ lldb'.target = lldb.target /\ lldb'.stops = lldb.stops
        /\ lldb'.stdout = lldb.stdout /\ lldb'.stdin = Append(lldb.stdin, c)
        /\ lldb' \in [alive : BOOLEAN, target : Target, stops : Nat,
                      stdin : Seq(Message), stdout : Seq(Piece)]
    BY <2>1, <2>3, StdinFields
  <2>5. Shape' /\ EventOK'
    BY <2>1, <2>4, EmptyShape DEF Shape, EventOK
  <2>6. StdinOK'
    BY <2>3, <2>4 DEF StdinOK
  <2>7. StdoutOK' /\ BufferOK'
    BY <2>1, <2>2, <2>4, EmptyShape DEF Aligned, StdoutOK, NewsOK, BufferOK
  <2>8. StageOK' /\ CallsOK' /\ StopIsKnown'
    BY <2>1, <2>2, <2>4 DEF Aligned, StageOK, CallsOK, StopIsKnown
  <2> QED
    BY <2>5, <2>6, <2>7, <2>8 DEF Aligned
<1>2. ASSUME ~buffer.exit, buffer.stop # 0 PROVE Shape' /\ EventOK' /\ Aligned'
  <2>1. Sends("vars") /\ stopped' = [stop |-> buffer.stop, locals |-> {}, frames |-> {}]
    BY <1>2 DEF Inspects
  <2>2. "vars" \in Asked /\ "vars" \in Name
    BY DEF Asked, Name
  <2>3. /\ at' = "reading" /\ op'.name = "vars"
        /\ lldb'.target = lldb.target /\ lldb'.stops = lldb.stops
    BY <2>1, <2>2, SendsFields
  <2>4. buffer.stop = lldb.stops /\ lldb.target = "stopped" /\ lldb.stops \in Nat
    BY <1>2, Fields DEF Aligned, BufferOK
  <2>5. stopped'.stop = lldb.stops /\ stopped'.locals = {} /\ stopped'.frames = {}
        /\ stopped' \in [stop : Nat, locals : SUBSET Nat, frames : SUBSET Nat]
    BY <2>1, <2>4
  <2>6. Clear
    BY <1>2, <2>4 DEF Clear, Aligned, StdoutOK, NewsOK
  <2>7. StdinOK' /\ StdoutOK' /\ BufferOK'
    BY <2>1, <2>2, <2>6, SendsAligned
  <2>8. Shape'
    <3>1. script' \in Seq({"setup", "run"}) /\ reqs' \in Seq(Kinds)
      BY DEF Shape
    <3> QED
      BY <2>1, <2>2, <2>5, <3>1, SendsShape
  <2>9. EventOK' /\ StopIsKnown'
    BY <2>3, <2>4, <2>5 DEF EventOK, StopIsKnown, Reported
  <2>10. StageOK' /\ CallsOK'
    BY <2>3, <2>4, <2>5 DEF Aligned, StageOK, CallsOK, Reported
  <2> QED
    BY <2>7, <2>8, <2>9, <2>10 DEF Aligned
<1> QED
  BY <1>1, <1>2

\* The next command, while the target is at a reported stop or was not run.
LEMMA GoesOnAligned ==
    ASSUME Shape, EventOK, Aligned, NEW name \in Asked, Sends(name),
           at \in {"banner", "reading", "idle"},
           \A k \in DOMAIN lldb.stdin :
             /\ lldb.stdin[k].id = 0 => lldb.stdin[k].name = "quit"
             /\ lldb.alive => lldb.stdin[k].id = 0,
           \A k \in DOMAIN lldb.stdout :
             /\ lldb.stdout[k].id = 0
             /\ lldb.stdout[k].prompt => lldb.stdout[k].stop # 0
             /\ lldb.stdout[k].exit => lldb.target = "exited",
           lldb.target \in {"none", "stopped"}, lldb.target = "stopped" => Reported,
           name = "setup" => lldb.target = "none" /\ script' = <<"run">>,
           name \in {"look", "list", "vars", "bt"} => lldb.target = "stopped",
           async' \in BOOLEAN, script' \in Seq({"setup", "run"}), reqs' \in Seq(Kinds),
           \A i \in DOMAIN reqs' : reqs'[i] = "stop",
           stopped' \in [stop : Nat, locals : SUBSET Nat, frames : SUBSET Nat],
           stopped'.stop = stopped.stop,
           stopped'.locals \cup stopped'.frames \subseteq {stopped.stop}
    PROVE  Shape' /\ EventOK' /\ Aligned'
<1>1. name \in Name
  BY DEF Asked, Name
<1>2. /\ at' = "reading" /\ op'.name = name /\ op'.id = op.id + 1
      /\ lldb'.target = lldb.target /\ lldb'.stops = lldb.stops
  BY <1>1, SendsFields
<1>3. Clear
  BY NoNews DEF Clear
<1>4. StdinOK' /\ StdoutOK' /\ BufferOK'
  BY <1>3, SendsAligned
<1>5. Shape'
  BY SendsShape
<1>6. EventOK' /\ StopIsKnown'
  BY <1>2 DEF EventOK, StopIsKnown, Reported
<1>7. StageOK'
  BY <1>2 DEF StageOK, Reported, Asked
<1>8. CallsOK'
  <2>1. reqs' # <<>> => 1 \in DOMAIN reqs'
    OBVIOUS
  <2> QED
    BY <2>1 DEF CallsOK
<1> QED
  BY <1>4, <1>5, <1>6, <1>7, <1>8 DEF Aligned

\* While an answer is read, only stops wait.
LEMMA OnlyStops ==
    ASSUME Shape, Aligned, at # "idle"
    PROVE  /\ \A i \in DOMAIN reqs : reqs[i] = "stop"
           /\ reqs # <<>> => reqs[1] = "stop"
           /\ reqs \in Seq(Kinds) /\ script \in Seq({"setup", "run"}) /\ async \in BOOLEAN
           /\ stopped \in [stop : Nat, locals : SUBSET Nat, frames : SUBSET Nat]
  BY DEF Aligned, CallsOK, Shape

LEMMA BannerEndsAligned ==
    ASSUME Shape, EventOK, Aligned, InTime, BannerEnds
    PROVE  Shape' /\ EventOK' /\ Aligned'
<1>1. /\ at = "banner" /\ lldb.stdout = <<>> /\ lldb.stdin = <<>> /\ lldb.target = "none"
      /\ script = <<"setup", "run">>
      /\ UNCHANGED <<async, reqs, stopped>>
  BY DEF BannerEnds, InTime, Aligned, StageOK
<1>2. Sends("setup") /\ script' = <<"run">> /\ "setup" \in Asked
  BY <1>1 DEF BannerEnds, Shake, Asked
<1>3. script' \in Seq({"setup", "run"})
  BY <1>2
<1> QED
  BY <1>1, <1>2, <1>3, OnlyStops, GoesOnAligned DEF EventOK

LEMMA SetupEndsAligned ==
    ASSUME Shape, EventOK, Aligned, InTime, SetupEnds
    PROVE  Shape' /\ EventOK' /\ Aligned'
<1>1. /\ at = "reading" /\ lldb.target = "none" /\ script = <<"run">> /\ AnswerEnds
      /\ UNCHANGED <<async, reqs, stopped>>
  BY DEF SetupEnds, AnswerEnds, Aligned, StageOK
<1>2. Sends("run") /\ script' = <<>> /\ "run" \in Asked
  BY <1>1 DEF SetupEnds, Shake, Asked
<1>3. script' \in Seq({"setup", "run"})
  BY <1>2
<1> QED
  BY <1>1, <1>2, <1>3, OnlyStops, EndedIsClear, GoesOnAligned DEF EventOK

LEMMA StepEndsAligned ==
    ASSUME Shape, EventOK, Aligned, InTime, StepEnds
    PROVE  Shape' /\ EventOK' /\ Aligned'
<1>1. /\ AnswerEnds /\ at = "reading" /\ Inspects(buffer)
      /\ UNCHANGED <<async, script, reqs>>
  BY DEF StepEnds, AnswerEnds
<1>2. CASE buffer.exit \/ buffer.stop # 0
  BY <1>1, <1>2, OnlyStops, EndedIsClear, InspectsAligned
<1>3. CASE ~buffer.exit /\ buffer.stop = 0
  <2>1. Rests /\ stopped' = stopped
    BY <1>1, <1>3 DEF Inspects
  <2>2. Aligned' /\ Shape'
    BY <1>1, <1>3, <2>1, OnlyStops, RestsAligned, RestsShape
  <2> QED
    BY <2>1, <2>2 DEF EventOK, Rests
<1> QED
  BY <1>2, <1>3

LEMMA VarsEndsAligned ==
    ASSUME Shape, EventOK, Aligned, InTime, VarsEnds
    PROVE  Shape' /\ EventOK' /\ Aligned'
<1>1. /\ at = "reading" /\ lldb.target = "stopped" /\ Reported /\ AnswerEnds
      /\ buffer.says \subseteq {stopped.stop} /\ buffer.says \subseteq Nat
      /\ UNCHANGED <<async, reqs, script>> /\ Sends("bt") /\ "bt" \in Asked
  BY Fields DEF VarsEnds, AnswerEnds, Aligned, StageOK, BufferOK, Asked
<1>2. stopped' = [stopped EXCEPT !.locals = buffer.says]
  BY DEF VarsEnds
<1>3. /\ stopped' \in [stop : Nat, locals : SUBSET Nat, frames : SUBSET Nat]
      /\ stopped'.stop = stopped.stop /\ stopped'.locals = buffer.says
      /\ stopped'.frames = stopped.frames
  BY <1>1, <1>2 DEF Shape
<1>4. stopped'.locals \cup stopped'.frames \subseteq {stopped.stop}
  BY <1>1, <1>3 DEF EventOK
<1> QED
  BY <1>1, <1>3, <1>4, OnlyStops, EndedIsClear, GoesOnAligned

LEMMA BacktraceEndsAligned ==
    ASSUME Shape, EventOK, Aligned, InTime, BacktraceEnds
    PROVE  Shape' /\ EventOK' /\ Aligned'
<1>1. /\ at = "reading" /\ lldb.target = "stopped" /\ Reported /\ AnswerEnds
      /\ buffer.says \subseteq {stopped.stop} /\ buffer.says \subseteq Nat
      /\ UNCHANGED <<async, reqs, script>> /\ Rests
  BY Fields DEF BacktraceEnds, AnswerEnds, Aligned, StageOK, BufferOK
<1>2. stopped' = [stopped EXCEPT !.frames = buffer.says]
  BY DEF BacktraceEnds
<1>3. /\ stopped' \in [stop : Nat, locals : SUBSET Nat, frames : SUBSET Nat]
      /\ stopped'.stop = stopped.stop /\ stopped'.locals = stopped.locals
      /\ stopped'.frames = buffer.says
  BY <1>1, <1>2 DEF Shape
<1>4. EventOK'
  BY <1>1, <1>3 DEF EventOK, Rests
<1> QED
  BY <1>1, <1>3, <1>4, OnlyStops, RestsAligned, RestsShape

LEMMA LookEndsAligned ==
    ASSUME Shape, EventOK, Aligned, InTime, LookEnds
    PROVE  Shape' /\ EventOK' /\ Aligned'
<1>1. /\ at = "reading" /\ Reported /\ AnswerEnds
      /\ UNCHANGED <<async, reqs, script, stopped>> /\ Rests
  BY DEF LookEnds, AnswerEnds, Aligned, StageOK
<1>2. EventOK'
  BY <1>1 DEF EventOK, Rests
<1> QED
  BY <1>1, <1>2, OnlyStops, RestsAligned, RestsShape

LEMMA ListEndsAligned ==
    ASSUME Shape, EventOK, Aligned, InTime, ListEnds
    PROVE  Shape' /\ EventOK' /\ Aligned'
<1>1. /\ at = "reading" /\ lldb.target = "stopped" /\ Reported /\ AnswerEnds
      /\ UNCHANGED <<async, reqs, script, stopped>> /\ Sends("look") /\ "look" \in Asked
  BY DEF ListEnds, AnswerEnds, Aligned, StageOK, Asked
<1> QED
  BY <1>1, OnlyStops, EndedIsClear, GoesOnAligned DEF EventOK

LEMMA TakeCallAligned ==
    ASSUME Shape, EventOK, Aligned, TakeCall
    PROVE  Shape' /\ EventOK' /\ Aligned'
<1> DEFINE name == IF Head(reqs) = "remove" THEN "list" ELSE Head(reqs)
<1>1. /\ at = "idle" /\ reqs # <<>> /\ Head(reqs) # "stop" /\ reqs' = Tail(reqs)
      /\ async' = FALSE /\ Sends(name) /\ UNCHANGED <<script, stopped>>
  BY DEF TakeCall
<1>2. reqs \in Seq(Kinds) /\ script \in Seq({"setup", "run"})
      /\ stopped \in [stop : Nat, locals : SUBSET Nat, frames : SUBSET Nat]
  BY DEF Shape
<1>3. /\ Head(reqs) \in Kinds /\ Tail(reqs) \in Seq(Kinds) /\ Head(reqs) = reqs[1]
      /\ \A k \in DOMAIN Tail(reqs) :
           k \in Nat \ {0} /\ k + 1 \in DOMAIN reqs /\ Tail(reqs)[k] = reqs[k + 1]
  BY <1>1, <1>2, TailElements
<1>4. name \in {"step", "look", "list"} /\ name \in Asked
  BY <1>1, <1>3, KindsAreCalls DEF Kind, Asked
<1>5. lldb.target = "stopped" /\ Reported
  BY <1>1, <1>3 DEF Aligned, CallsOK
<1>6. \A i \in DOMAIN reqs' : reqs'[i] = "stop"
  BY <1>1, <1>3 DEF Aligned, CallsOK
<1> HIDE DEF name
<1> QED
  BY <1>1, <1>2, <1>3, <1>4, <1>5, <1>6, IdleIsClear, GoesOnAligned DEF EventOK

LEMMA QuietWindowAligned ==
    ASSUME Shape, EventOK, Aligned, QuietWindow
    PROVE  Shape' /\ EventOK' /\ Aligned'
<1>1. /\ at = "idle" /\ reqs = <<>> /\ lldb.stdout = <<>> /\ async' = FALSE
      /\ UNCHANGED <<script, reqs>>
  BY DEF QuietWindow
<1>2. CASE buffer.exit \/ buffer.stop # 0
  <2>1. Inspects(buffer)
    BY <1>2 DEF QuietWindow
  <2> QED
    BY <1>1, <1>2, <2>1, IdleIsClear, InspectsAligned
<1>3. CASE ~(buffer.exit \/ buffer.stop # 0)
  <2>1. UNCHANGED <<at, op, buffer, stopped, lldb>>
    BY <1>3 DEF QuietWindow
  <2>2. Shape' /\ EventOK'
    BY <1>1, <2>1 DEF Shape, EventOK
  <2>3. StdinOK' /\ StdoutOK' /\ BufferOK' /\ StageOK' /\ CallsOK'
    BY <1>1, <2>1 DEF Aligned, StdinOK, StdoutOK, BufferOK, StageOK, CallsOK, Reported
  <2>4. StopIsKnown'
    BY <1>1, <1>3, <2>1 DEF Aligned, StopIsKnown, Reported
  <2> QED
    BY <2>2, <2>3, <2>4 DEF Aligned
<1> QED
  BY <1>2, <1>3

-----------------------------------------------------------------------------
(* The session ends.                                                       *)

\* The driver is told to stop or finds lldb gone: nothing is asked from then on.
LEMMA LeavesInv ==
    ASSUME Shape, EventOK, TakeStop \/ Killed \/ SeesClosed \/ RefuseCall
    PROVE  Shape' /\ EventOK' /\ at' \in {"killing", "closed"}
<1>1. ASSUME TakeStop PROVE Shape' /\ EventOK' /\ at' \in {"killing", "closed"}
  <2> DEFINE s == lldb.stdin \o <<[name |-> "kill", id |-> 0], [name |-> "quit", id |-> 0]>>
  <2>1. [name |-> "kill", id |-> 0] \in Message /\ [name |-> "quit", id |-> 0] \in Message
    BY DEF Message, Name
  <2>2. s \in Seq(Message)
    BY <2>1, Fields
  <2>3. lldb' = [lldb EXCEPT !.stdin = s] /\ at' = "killing" /\ async' = FALSE
        /\ UNCHANGED <<op, buffer, script, stopped>>
    BY <1>1 DEF TakeStop
  <2> HIDE DEF s
  <2>4. /\ lldb'.stops = lldb.stops
        /\ lldb' \in [alive : BOOLEAN, target : Target, stops : Nat,
                      stdin : Seq(Message), stdout : Seq(Piece)]
    BY <2>2, <2>3, StdinFields
  <2>5. reqs \in Seq(Kinds) /\ reqs # <<>> /\ reqs' = Tail(reqs)
    BY <1>1 DEF TakeStop, Shape
  <2>6. reqs' \in Seq(Kinds)
    BY <2>5, TailElements
  <2>7. EventOK'
    BY <2>3, <2>4 DEF EventOK
  <2> QED
    BY <2>3, <2>4, <2>6, <2>7 DEF Shape
<1>2. ASSUME Killed PROVE Shape' /\ EventOK' /\ at' \in {"killing", "closed"}
  <2>1. lldb' = [lldb EXCEPT !.alive = FALSE] /\ at' = "closed"
        /\ UNCHANGED <<op, buffer, async, script, reqs, stopped>>
    BY <1>2 DEF Killed
  <2>2. /\ lldb'.stops = lldb.stops
        /\ lldb' \in [alive : BOOLEAN, target : Target, stops : Nat,
                      stdin : Seq(Message), stdout : Seq(Piece)]
    BY <2>1 DEF Shape
  <2> QED
    BY <2>1, <2>2 DEF Shape, EventOK
<1>3. ASSUME SeesClosed PROVE Shape' /\ EventOK' /\ at' \in {"killing", "closed"}
  BY <1>3 DEF SeesClosed, Shape, EventOK
<1>4. ASSUME RefuseCall PROVE Shape' /\ EventOK' /\ at' \in {"killing", "closed"}
  BY <1>4 DEF RefuseCall, session, Shape, EventOK
<1> QED
  BY <1>1, <1>2, <1>3, <1>4

\* Steps of lldb and its target keep the types and the event, whatever the driver does.
LEMMA LldbInv ==
    ASSUME InTimeInv, Executes \/ TargetStops \/ TargetExits \/ TargetPrints \/ LldbDies
    PROVE  InTimeInv'
<1>0. Shape /\ EventOK /\ stopped.stop \in Nat /\ lldb.stops \in Nat
      /\ at \in {"banner", "reading", "idle", "killing", "closed"}
  BY Fields DEF InTimeInv, Shape
<1>1. CASE Executes
  <2>1. Shape' /\ UNCHANGED Session /\ lldb'.stops = lldb.stops
    BY <1>0, <1>1, ExecutesFields, OnlyLldbShape
  <2> QED
    BY <1>0, <1>1, <2>1, ExecutesAligned DEF InTimeInv, EventOK, Session
<1>2. CASE TargetStops \/ TargetExits \/ TargetPrints
  <2>1. PICK p \in Piece : Writes(p)
    BY <1>0, <1>2, TargetWrites
  <2>2. Shape' /\ UNCHANGED Session /\ lldb'.stops \in {lldb.stops, lldb.stops + 1}
    BY <1>0, <2>1, OnlyLldbShape DEF Writes
  <2>3. EventOK'
    BY <1>0, <2>2 DEF EventOK, Session
  <2> QED
    BY <1>0, <2>1, <2>2, <2>3, WritesAligned DEF InTimeInv, Session
<1>3. CASE LldbDies
  <2>1. lldb' = [lldb EXCEPT !.alive = FALSE] /\ UNCHANGED Session
    BY <1>3 DEF LldbDies, session, Session
  <2>2. /\ lldb'.stops = lldb.stops
        /\ lldb' \in [alive : BOOLEAN, target : Target, stops : Nat,
                      stdin : Seq(Message), stdout : Seq(Piece)]
    BY <1>0, <2>1 DEF Shape
  <2>3. Shape' /\ EventOK'
    BY <1>0, <2>1, <2>2, OnlyLldbShape DEF EventOK, Session
  <2> QED
    BY <1>0, <1>3, <2>1, <2>3, DiesAligned DEF InTimeInv, Session
<1> QED
  BY <1>1, <1>2, <1>3

LEMMA DriverInv ==
    ASSUME InTimeInv, InTime, Driver
    PROVE  InTimeInv'
<1>0. Shape /\ EventOK
  BY DEF InTimeInv
<1>1. CASE ReadChunk
  <2>1. at \in {"banner", "reading", "idle"}
    BY <1>1 DEF ReadChunk
  <2> QED
    BY <1>0, <1>1, <2>1, ReadAligned DEF InTimeInv
<1>2. CASE Ends
  <2>1. at \in {"banner", "reading", "idle"}
    BY <1>2 DEF Ends, BannerEnds, SetupEnds, StepEnds, VarsEnds, BacktraceEnds, LookEnds,
                ListEnds, AnswerEnds
  <2> QED
    BY <1>0, <1>2, <2>1, BannerEndsAligned, SetupEndsAligned, StepEndsAligned, VarsEndsAligned,
       BacktraceEndsAligned, LookEndsAligned, ListEndsAligned DEF InTimeInv, Ends
<1>3. CASE TakeCall
  BY <1>0, <1>3, TakeCallAligned DEF InTimeInv, TakeCall
<1>4. CASE QuietWindow
  BY <1>0, <1>4, QuietWindowAligned DEF InTimeInv, QuietWindow
<1>5. CASE TakeStop \/ Killed \/ SeesClosed \/ RefuseCall
  BY <1>0, <1>5, LeavesInv DEF InTimeInv
<1> QED
  BY <1>1, <1>2, <1>3, <1>4, <1>5 DEF Driver

LEMMA InTimeStep ==
    ASSUME InTime => InTimeInv, [Next]_vars
    PROVE  (InTime => InTimeInv)'
<1> SUFFICES ASSUME InTime' PROVE InTimeInv'
  OBVIOUS
<1>1. world' = world
  BY DEF Next, vars
<1>2. InTime /\ InTimeInv
  BY <1>1 DEF InTime
<1>3. CASE UNCHANGED vars
  BY <1>2, <1>3 DEF vars, session, InTimeInv, Shape, EventOK, Aligned, StdinOK, StdoutOK, AnswerOK,
                    NewsOK, BufferOK, StageOK, CallsOK, StopIsKnown, Reported
<1>4. CASE Driver
  BY <1>2, <1>4, DriverInv
<1>5. CASE Executes \/ TargetStops \/ TargetExits \/ TargetPrints \/ LldbDies
  BY <1>2, <1>5, LldbInv
<1>6. ASSUME NEW kind \in Kinds, Call(kind) PROVE InTimeInv'
  BY <1>2, <1>6, CallAligned DEF InTimeInv, InTime
<1> QED
  BY <1>3, <1>4, <1>5, <1>6 DEF Next

LEMMA InitInTime == ASSUME Init PROVE InTimeInv
<1>1. /\ at = "banner" /\ op = [name |-> "none", id |-> 0] /\ buffer = Empty
      /\ script = <<"setup", "run">> /\ reqs = <<>> /\ async = FALSE
      /\ stopped = [stop |-> 0, locals |-> {}, frames |-> {}]
      /\ lldb = [alive |-> TRUE, target |-> "none", stops |-> 0, stdin |-> <<>>, stdout |-> <<Text>>]
  BY DEF Init
<1>2. Text \in Piece /\ Text.id = 0 /\ Text.stop = 0 /\ Text.exit = FALSE /\ Text.prompt = FALSE
  BY DEF Text, Piece
<1>3. <<Text>> \in Seq(Piece) /\ \A k \in DOMAIN <<Text>> : <<Text>>[k] = Text
  BY <1>2
<1>4. /\ lldb.target = "none" /\ lldb.stops = 0 /\ lldb.stdin = <<>> /\ lldb.stdout = <<Text>>
      /\ stopped.stop = 0 /\ stopped.locals = {} /\ stopped.frames = {}
      /\ lldb \in [alive : BOOLEAN, target : Target, stops : Nat,
                   stdin : Seq(Message), stdout : Seq(Piece)]
  BY <1>1, <1>3 DEF Target
<1>5. Shape
  <2>1. op \in Message
    BY <1>1 DEF Message, Name
  <2>2. stopped \in [stop : Nat, locals : SUBSET Nat, frames : SUBSET Nat]
    BY <1>1
  <2>3. script \in Seq({"setup", "run"}) /\ reqs \in Seq(Kinds)
    BY <1>1
  <2> QED
    BY <1>1, <1>4, <2>1, <2>2, <2>3, EmptyShape DEF Shape
<1>6. StdinOK /\ StdoutOK
  BY <1>2, <1>3, <1>4 DEF StdinOK, StdoutOK
<1>7. BufferOK /\ StageOK /\ CallsOK /\ StopIsKnown /\ EventOK
  BY <1>1, <1>4, EmptyShape DEF BufferOK, StageOK, CallsOK, StopIsKnown, EventOK
<1> QED
  BY <1>5, <1>6, <1>7 DEF InTimeInv, Aligned

\* Answers stay with their commands for any number of calls, stops and prints:
\* what is read belongs to the command that was sent last, and the three answers of a
\* Stopped event describe the same stop.
THEOREM AnswersStayAligned == Spec => []AnswersAligned
<1>1. Init => (InTime => InTimeInv)
  BY InitInTime
<1>2. (InTime => InTimeInv) /\ [Next]_vars => (InTime => InTimeInv)'
  BY InTimeStep
<1>3. (InTime => InTimeInv) => AnswersAligned
  BY DEF InTimeInv, AnswersAligned, Aligned, BufferOK, EventOK
<1> QED
  BY <1>1, <1>2, <1>3, PTL DEF Spec

\* A stop of the target is reported, for any number of calls, stops and prints: it
\* is unread, or in the buffer with a command or the window of silence still to look
\* at it, or in the last event.
THEOREM StopsAreReported == Spec => []StopIsReported
<1>1. Init => (InTime => InTimeInv)
  BY InitInTime
<1>2. (InTime => InTimeInv) /\ [Next]_vars => (InTime => InTimeInv)'
  BY InTimeStep
<1>3. (InTime => InTimeInv) => StopIsReported
  BY DEF InTimeInv, StopIsReported, Quiet, Aligned, StopIsKnown, Reported
<1> QED
  BY <1>1, <1>2, <1>3, PTL DEF Spec
-----------------------------------------------------------------------------
(* Types with their bounds.                                                *)

\* The calls that were made wait or were taken.
Counted ==
    /\ world \in World
    /\ calls \in Nat /\ calls <= world.requests /\ Len(reqs) <= calls
    /\ lldb.stops <= world.stops

\* Stops come in the order they happened, and none comes after it was reported.
StopsInOrder ==
    /\ stopped.stop <= lldb.stops
    /\ buffer.stop # 0 => stopped.stop < buffer.stop /\ buffer.stop <= lldb.stops
    /\ \A k \in DOMAIN lldb.stdout : lldb.stdout[k].stop # 0 =>
         /\ stopped.stop < lldb.stdout[k].stop /\ buffer.stop < lldb.stdout[k].stop
         /\ lldb.stdout[k].stop <= lldb.stops
    /\ \A j, k \in DOMAIN lldb.stdout :
         j < k /\ lldb.stdout[j].stop # 0 /\ lldb.stdout[k].stop # 0
            => lldb.stdout[j].stop < lldb.stdout[k].stop

\* A command that is followed by another one of its own.
Owed == IF at = "reading" /\ op.name \in {"vars", "list"} THEN 1 ELSE 0

\* The handshake has two commands, a call and a stop that is reported at most two.
Budget == op.id + Len(script) + Owed <= 2 + 2 * (calls - Len(reqs)) + 2 * stopped.stop

\* What is on its way, or was read, is about commands that were sent and stops that
\* happened.
Numbers ==
    /\ \A k \in DOMAIN lldb.stdin : lldb.stdin[k].id <= op.id
    /\ \A k \in DOMAIN lldb.stdout :
         lldb.stdout[k].id <= op.id /\ lldb.stdout[k].says <= lldb.stops
    /\ \A i \in buffer.ids : i <= op.id
    /\ \A s \in buffer.says \cup stopped.locals \cup stopped.frames : s <= lldb.stops

Counts == Counted /\ StopsInOrder /\ Budget /\ Numbers

LEMMA SequenceOf ==
    ASSUME NEW S, NEW T, NEW s \in Seq(S), \A k \in DOMAIN s : s[k] \in T
    PROVE  s \in Seq(T)
  OBVIOUS

LEMMA CountFields ==
    ASSUME Shape, Counts
    PROVE  /\ op.id \in Nat /\ Len(script) \in Nat /\ Len(reqs) \in Nat /\ calls \in Nat
           /\ Owed \in {0, 1} /\ stopped.stop \in Nat /\ lldb.stops \in Nat /\ buffer.stop \in Nat
           /\ world.requests \in 0 .. MaxRequests /\ world.stops \in 0 .. MaxStops
           /\ MaxRequests \in Nat /\ MaxStops \in Nat
           /\ calls <= world.requests /\ lldb.stops <= world.stops /\ Len(reqs) <= calls
           /\ stopped.stop <= lldb.stops
<1>1. op.id \in Nat /\ stopped.stop \in Nat /\ lldb.stops \in Nat /\ buffer.stop \in Nat
  BY Fields
<1>2. Len(script) \in Nat /\ Len(reqs) \in Nat
  BY DEF Shape
<1>3. world.requests \in 0 .. MaxRequests /\ world.stops \in 0 .. MaxStops
  BY DEF Counts, Counted, World
<1> QED
  BY <1>1, <1>2, <1>3, BoundsAreNat DEF Counts, Counted, Owed, StopsInOrder

\* lldb executes, and the target writes: p is what is new in the pipe.
LEMMA WritesCount ==
    ASSUME Shape, Counts, UNCHANGED <<Session, calls, world>>, NEW p \in Piece,
           lldb' \in [alive : BOOLEAN, target : Target, stops : Nat,
                      stdin : Seq(Message), stdout : Seq(Piece)],
           lldb'.stdout = lldb.stdout \/ lldb'.stdout = Append(lldb.stdout, p),
           \A k \in DOMAIN lldb'.stdin : \E j \in DOMAIN lldb.stdin : lldb'.stdin[k] = lldb.stdin[j],
           lldb.stops <= lldb'.stops, lldb'.stops <= world.stops,
           p.id <= op.id, p.says <= lldb'.stops,
           p.stop # 0 => p.stop = lldb'.stops /\ lldb.stops < lldb'.stops
    PROVE  Shape' /\ Counts'
<1>1. Shape'
  BY OnlyLldbShape
<1>2. /\ lldb.stops \in Nat /\ lldb'.stops \in Nat /\ stopped.stop \in Nat /\ buffer.stop \in Nat
      /\ lldb.stdout \in Seq(Piece) /\ stopped.stop <= lldb.stops
  BY CountFields, Fields
<1>3. UNCHANGED <<at, op, buffer, script, stopped, reqs, calls, world>>
  BY DEF Session
<1>4. \A k \in DOMAIN lldb'.stdout :
        \/ k \in DOMAIN lldb.stdout /\ lldb'.stdout[k] = lldb.stdout[k]
        \/ lldb'.stdout[k] = p /\ \A j \in DOMAIN lldb.stdout : j < k
  <2>1. CASE lldb'.stdout = lldb.stdout
    BY <2>1
  <2>2. CASE lldb'.stdout = Append(lldb.stdout, p)
    <3>1. \A k \in DOMAIN lldb'.stdout :
            (k = Len(lldb.stdout) + 1 /\ lldb'.stdout[k] = p)
            \/ (k \in DOMAIN lldb.stdout /\ lldb'.stdout[k] = lldb.stdout[k])
      BY <1>2, <2>2, AppendElements
    <3>2. \A j \in DOMAIN lldb.stdout : j < Len(lldb.stdout) + 1
      BY <1>2, AppendElements
    <3> QED
      BY <3>1, <3>2
  <2> QED
    BY <2>1, <2>2
<1>5. \A k \in DOMAIN lldb.stdout :
        /\ lldb.stdout[k].id \in Nat /\ lldb.stdout[k].stop \in Nat /\ lldb.stdout[k].says \in Nat
        /\ lldb.stdout[k].id <= op.id /\ lldb.stdout[k].says <= lldb.stops
        /\ lldb.stdout[k].stop # 0 =>
             /\ stopped.stop < lldb.stdout[k].stop /\ buffer.stop < lldb.stdout[k].stop
             /\ lldb.stdout[k].stop <= lldb.stops
  BY Fields DEF Counts, Numbers, StopsInOrder
<1>6. p.id \in Nat /\ p.stop \in Nat /\ p.says \in Nat
  BY DEF Piece
<1>7. buffer.stop <= lldb.stops
  BY <1>2 DEF Counts, StopsInOrder
<1>8. Counted'
  BY <1>3 DEF Counts, Counted
<1>9. Budget'
  BY <1>3 DEF Counts, Budget, Owed
<1>10. StopsInOrder'
  <2>1. stopped'.stop <= lldb'.stops
        /\ (buffer'.stop # 0 => stopped'.stop < buffer'.stop /\ buffer'.stop <= lldb'.stops)
    BY <1>2, <1>3, <1>7 DEF Counts, StopsInOrder
  <2>2. ASSUME NEW k \in DOMAIN lldb'.stdout, lldb'.stdout[k].stop # 0
        PROVE  /\ stopped'.stop < lldb'.stdout[k].stop /\ buffer'.stop < lldb'.stdout[k].stop
               /\ lldb'.stdout[k].stop <= lldb'.stops
    <3>1. CASE k \in DOMAIN lldb.stdout /\ lldb'.stdout[k] = lldb.stdout[k]
      BY <1>2, <1>3, <1>5, <2>2, <3>1
    <3>2. CASE lldb'.stdout[k] = p
      BY <1>2, <1>3, <1>7, <2>2, <3>2
    <3> QED
      BY <1>4, <3>1, <3>2
  <2>3. ASSUME NEW j \in DOMAIN lldb'.stdout, NEW k \in DOMAIN lldb'.stdout,
               j < k, lldb'.stdout[j].stop # 0, lldb'.stdout[k].stop # 0
        PROVE  lldb'.stdout[j].stop < lldb'.stdout[k].stop
    <3>0. j \in Nat /\ k \in Nat
      BY DEF Shape
    <3>1. j \in DOMAIN lldb.stdout /\ lldb'.stdout[j] = lldb.stdout[j]
      <4>1. CASE lldb'.stdout = lldb.stdout
        BY <4>1
      <4>2. CASE lldb'.stdout = Append(lldb.stdout, p)
        BY <1>2, <2>3, <3>0, <4>2
      <4> QED
        BY <4>1, <4>2
    <3>2. CASE k \in DOMAIN lldb.stdout /\ lldb'.stdout[k] = lldb.stdout[k]
      BY <2>3, <3>1, <3>2 DEF Counts, StopsInOrder
    <3>3. CASE lldb'.stdout[k] = p
      BY <1>2, <1>5, <1>6, <2>3, <3>1, <3>3
    <3> QED
      BY <1>4, <3>2, <3>3
  <2> QED
    BY <2>1, <2>2, <2>3 DEF StopsInOrder
<1>11. Numbers'
  <2>1. \A k \in DOMAIN lldb'.stdin : lldb'.stdin[k].id <= op'.id
    BY <1>3 DEF Counts, Numbers
  <2>2. \A k \in DOMAIN lldb'.stdout :
          lldb'.stdout[k].id <= op'.id /\ lldb'.stdout[k].says <= lldb'.stops
    BY <1>2, <1>3, <1>4, <1>5
  <2>3. \A i \in buffer'.ids : i <= op'.id
    BY <1>3 DEF Counts, Numbers
  <2>4. \A s \in buffer'.says \cup stopped'.locals \cup stopped'.frames : s <= lldb'.stops
    <3>1. buffer.says \cup stopped.locals \cup stopped.frames \subseteq Nat
      BY Fields
    <3> QED
      BY <1>2, <1>3, <3>1 DEF Counts, Numbers
  <2> QED
    BY <2>1, <2>2, <2>3, <2>4 DEF Numbers
<1> QED
  BY <1>1, <1>8, <1>9, <1>10, <1>11 DEF Counts

LEMMA LldbCounts ==
    ASSUME Shape, Counts, UNCHANGED world,
           Executes \/ TargetStops \/ TargetExits \/ TargetPrints \/ LldbDies
    PROVE  Shape' /\ Counts'
<1>1. /\ lldb.stops \in Nat /\ lldb.stops <= world.stops /\ world.stops \in Nat /\ op.id \in Nat
      /\ lldb.stdin \in Seq(Message) /\ lldb.stdout \in Seq(Piece)
  BY CountFields, Fields
<1>2. UNCHANGED <<Session, calls>>
  BY DEF Executes, TargetStops, TargetExits, TargetPrints, LldbDies, session, Session
<1>3. Text \in Piece /\ Text.stop = 0 /\ Text.id = 0 /\ Text.says = 0
  BY DEF Text, Piece
<1>4. CASE Executes
  <2> DEFINE c == Head(lldb.stdin)
  <2>1. /\ lldb.stdin # <<>> /\ lldb'.stdin = Tail(lldb.stdin) /\ lldb'.stops = lldb.stops
        /\ lldb' \in [alive : BOOLEAN, target : Target, stops : Nat,
                      stdin : Seq(Message), stdout : Seq(Piece)]
    BY <1>4, ExecutesFields
  <2>2. /\ 1 \in DOMAIN lldb.stdin /\ c = lldb.stdin[1]
        /\ \A k \in DOMAIN lldb'.stdin : \E j \in DOMAIN lldb.stdin : lldb'.stdin[k] = lldb.stdin[j]
    BY <1>1, <2>1, TailElements
  <2>3. c.id <= op.id
    BY <2>2 DEF Counts, Numbers
  <2>4. CASE lldb'.stdout = lldb.stdout
    BY <1>1, <1>2, <1>3, <2>1, <2>2, <2>4, WritesCount
  <2>5. CASE lldb'.stdout # lldb.stdout
    <3>1. \E p \in Piece : /\ lldb'.stdout = Append(lldb.stdout, p)
                           /\ p.id = c.id /\ p.stop = 0 /\ p.says <= lldb.stops
      <4>1. PICK prompt \in BOOLEAN :
              lldb'.stdout = Append(lldb.stdout, [Text EXCEPT
                                    !.id = c.id, !.prompt = prompt,
                                    !.says = IF lldb'.target = "stopped" THEN lldb.stops ELSE 0])
        BY <1>1, <1>4, <2>5 DEF Executes, Shape
      <4>2. c \in Message
        BY <1>1, <2>1, TailElements
      <4> DEFINE p == [Text EXCEPT !.id = c.id, !.prompt = prompt,
                                   !.says = IF lldb'.target = "stopped" THEN lldb.stops ELSE 0]
      <4>3. p \in Piece /\ p.id = c.id /\ p.stop = 0 /\ p.says <= lldb.stops
        <5> DEFINE says == IF lldb'.target = "stopped" THEN lldb.stops ELSE 0
        <5>1. says \in Nat /\ says <= lldb.stops /\ c.id \in Nat
          BY <1>1, <4>2 DEF Message
        <5> HIDE DEF says, c
        <5>2. p = [Text EXCEPT !.id = c.id, !.prompt = prompt, !.says = says]
          BY DEF says
        <5> QED
          BY <5>1, <5>2 DEF Text, Piece
      <4> QED
        BY <4>1, <4>3
    <3>2. PICK p \in Piece : /\ lldb'.stdout = Append(lldb.stdout, p)
                             /\ p.id = c.id /\ p.stop = 0 /\ p.says <= lldb.stops
      BY <3>1
    <3> QED
      BY <1>1, <1>2, <2>1, <2>2, <2>3, <3>2, WritesCount
  <2> QED
    BY <2>4, <2>5
<1>5. CASE TargetStops
  <2>1. PICK prompt \in BOOLEAN :
          lldb' = [lldb EXCEPT
            !.target = "stopped", !.stops = lldb.stops + 1,
            !.stdout = Append(lldb.stdout, [Text EXCEPT !.stop = lldb.stops + 1, !.prompt = prompt])]
    BY <1>5 DEF TargetStops
  <2> DEFINE p == [Text EXCEPT !.stop = lldb.stops + 1, !.prompt = prompt]
             new == Append(lldb.stdout, p)
             n == lldb.stops + 1
  <2>2. p \in Piece /\ p.stop = lldb.stops + 1 /\ p.id = 0 /\ p.says = 0
    <3>1. lldb.stops + 1 \in Nat
      BY <1>1
    <3>2. n = lldb.stops + 1 /\ p = [Text EXCEPT !.stop = n, !.prompt = prompt]
      OBVIOUS
    <3> HIDE DEF n
    <3> QED
      BY <3>1, <3>2 DEF Text, Piece
  <2>3. lldb.stops + 1 \in Nat /\ "stopped" \in Target /\ new \in Seq(Piece)
        /\ lldb.stops + 1 <= world.stops
    <3>1. lldb.stops < world.stops
      BY <1>5 DEF TargetStops
    <3> QED
      BY <1>1, <2>2, <3>1 DEF Target
  <2>4. /\ lldb'.stops = lldb.stops + 1 /\ lldb'.stdout = new /\ lldb'.stdin = lldb.stdin
        /\ lldb' \in [alive : BOOLEAN, target : Target, stops : Nat,
                      stdin : Seq(Message), stdout : Seq(Piece)]
    <3> HIDE DEF new
    <3>1. lldb' = [lldb EXCEPT !.target = "stopped", !.stops = n, !.stdout = new]
      BY <2>1 DEF new
    <3> HIDE DEF n
    <3>2. n \in Nat
      BY <2>3 DEF n
    <3>3. lldb'.stops = n /\ lldb'.stdout = new /\ lldb'.stdin = lldb.stdin
          /\ lldb' \in [alive : BOOLEAN, target : Target, stops : Nat,
                      stdin : Seq(Message), stdout : Seq(Piece)]
      BY <2>3, <3>1, <3>2, StdoutFields
    <3> QED
      BY <3>3 DEF n
  <2> HIDE DEF p
  <2> QED
    BY <1>1, <1>2, <2>2, <2>3, <2>4, WritesCount
<1>6. CASE TargetExits \/ TargetPrints
  <2> DEFINE p == [Text EXCEPT !.exit = TRUE]
  <2>1. p \in Piece /\ p.stop = 0 /\ p.id = 0 /\ p.says = 0
    BY DEF Text, Piece
  <2>2. PICK q \in {p, Text}, target \in Target :
          lldb' = [lldb EXCEPT !.target = target, !.stdout = Append(lldb.stdout, q)]
    <3>1. CASE TargetExits
      BY <3>1 DEF TargetExits, Target
    <3>2. CASE TargetPrints
      <4>1. lldb' = [lldb EXCEPT !.stdout = Append(lldb.stdout, Text)]
        BY <3>2 DEF TargetPrints
      <4>2. lldb' = [lldb EXCEPT !.target = lldb.target, !.stdout = Append(lldb.stdout, Text)]
        BY <4>1 DEF Shape
      <4>3. lldb.target \in Target
        BY Fields
      <4> QED
        BY <4>2, <4>3
    <3> QED
      BY <1>6, <3>1, <3>2
  <2> HIDE DEF p
  <2>3. q \in Piece /\ q.stop = 0 /\ q.id = 0 /\ q.says = 0
    BY <1>3, <2>1
  <2> DEFINE new == Append(lldb.stdout, q)
  <2>4. new \in Seq(Piece)
    BY <1>1, <2>3
  <2>5. lldb' = [lldb EXCEPT !.target = target, !.stops = lldb.stops, !.stdout = new]
    BY <2>2 DEF Shape
  <2>6. /\ lldb'.stops = lldb.stops /\ lldb'.stdout = new /\ lldb'.stdin = lldb.stdin
        /\ lldb' \in [alive : BOOLEAN, target : Target, stops : Nat,
                      stdin : Seq(Message), stdout : Seq(Piece)]
    <3> HIDE DEF new
    <3> QED
      BY <1>1, <2>4, <2>5, StdoutFields
  <2> QED
    BY <1>1, <1>2, <2>3, <2>6, WritesCount
<1>7. CASE LldbDies
  <2>1. /\ lldb'.stops = lldb.stops /\ lldb'.stdout = lldb.stdout /\ lldb'.stdin = lldb.stdin
        /\ lldb' \in [alive : BOOLEAN, target : Target, stops : Nat,
                      stdin : Seq(Message), stdout : Seq(Piece)]
    BY <1>7 DEF LldbDies, Shape
  <2> QED
    BY <1>1, <1>2, <1>3, <2>1, WritesCount
<1> QED
  BY <1>4, <1>5, <1>6, <1>7

LEMMA OneMore == ASSUME NEW i \in Nat, NEW j \in Nat, i <= j PROVE i <= j + 1
  OBVIOUS

LEMMA LessOwed ==
    ASSUME NEW i \in Nat, NEW n \in Nat, NEW o \in {0, 1}, NEW x \in Nat, NEW y \in Nat,
           NEW s \in Nat, x <= y, i + n + o <= 2 + 2 * x + 2 * s
    PROVE  i + n + 0 <= 2 + 2 * y + 2 * s
  OBVIOUS

\* A chunk is read.
LEMMA ReadCounts ==
    ASSUME Shape, Counts, UNCHANGED world, ReadChunk
    PROVE  Shape' /\ Counts'
<1> DEFINE c == Head(lldb.stdout)
           b == Pushed(buffer, c)
<1>1. /\ lldb.stdout # <<>> /\ buffer' = b /\ lldb' = [lldb EXCEPT !.stdout = Tail(lldb.stdout)]
      /\ async' \in BOOLEAN
      /\ UNCHANGED <<at, op, script, reqs, stopped, calls>>
  BY DEF ReadChunk
<1>2. /\ lldb.stdout \in Seq(Piece) /\ stopped.stop \in Nat /\ buffer.stop \in Nat
      /\ lldb.stops \in Nat
      /\ \A k \in DOMAIN lldb.stdout : lldb.stdout[k].stop \in Nat
  BY Fields
<1>3. /\ c \in Piece /\ Tail(lldb.stdout) \in Seq(Piece)
      /\ 1 \in DOMAIN lldb.stdout /\ c = lldb.stdout[1]
      /\ \A k \in DOMAIN Tail(lldb.stdout) :
           k \in Nat \ {0} /\ k + 1 \in DOMAIN lldb.stdout /\ Tail(lldb.stdout)[k] = lldb.stdout[k + 1]
  BY <1>1, <1>2, TailElements
<1>4. /\ lldb'.stops = lldb.stops /\ lldb'.stdout = Tail(lldb.stdout) /\ lldb'.stdin = lldb.stdin
      /\ lldb' \in [alive : BOOLEAN, target : Target, stops : Nat,
                    stdin : Seq(Message), stdout : Seq(Piece)]
  BY <1>1, <1>3 DEF Shape
<1>5. /\ b \in [ids : SUBSET Nat, stop : Nat, exit : BOOLEAN, says : SUBSET Nat, prompt : BOOLEAN]
      /\ b.ids = buffer.ids \cup {c.id}
      /\ b.stop = IF buffer.stop = 0 THEN c.stop ELSE buffer.stop
      /\ b.says = IF c.id = 0 THEN buffer.says ELSE buffer.says \cup {c.says}
  BY <1>3, PushedFields
<1> HIDE DEF b, c
<1>6. Shape'
  BY <1>1, <1>4, <1>5 DEF Shape
<1>7. Counted' /\ Budget'
  BY <1>1, <1>4 DEF Counts, Counted, Budget, Owed
<1>8. /\ c.id <= op.id /\ c.says <= lldb.stops /\ c.stop \in Nat
      /\ c.stop # 0 => stopped.stop < c.stop /\ c.stop <= lldb.stops
  BY <1>2, <1>3 DEF Counts, Numbers, StopsInOrder
<1>9. StopsInOrder'
  <2>1. stopped'.stop <= lldb'.stops
        /\ (buffer'.stop # 0 => stopped'.stop < buffer'.stop /\ buffer'.stop <= lldb'.stops)
    BY <1>1, <1>4, <1>5, <1>8 DEF Counts, StopsInOrder
  <2>2. ASSUME NEW k \in DOMAIN lldb'.stdout, lldb'.stdout[k].stop # 0
        PROVE  /\ stopped'.stop < lldb'.stdout[k].stop /\ buffer'.stop < lldb'.stdout[k].stop
               /\ lldb'.stdout[k].stop <= lldb'.stops
    <3>1. k + 1 \in DOMAIN lldb.stdout /\ lldb'.stdout[k] = lldb.stdout[k + 1] /\ 1 < k + 1
      BY <1>3, <1>4
    <3>2. /\ stopped.stop < lldb.stdout[k + 1].stop /\ buffer.stop < lldb.stdout[k + 1].stop
          /\ lldb.stdout[k + 1].stop <= lldb.stops
          /\ c.stop # 0 => c.stop < lldb.stdout[k + 1].stop
      BY <1>3, <2>2, <3>1 DEF Counts, StopsInOrder
    <3>3. buffer'.stop < lldb.stdout[k + 1].stop
      <4>1. lldb.stdout[k + 1].stop \in Nat /\ lldb.stdout[k + 1].stop # 0
        BY <1>2, <2>2, <3>1
      <4> QED
        BY <1>1, <1>2, <1>5, <1>8, <3>2, <4>1
    <3> QED
      BY <1>1, <1>4, <3>1, <3>2, <3>3
  <2>3. ASSUME NEW j \in DOMAIN lldb'.stdout, NEW k \in DOMAIN lldb'.stdout,
               j < k, lldb'.stdout[j].stop # 0, lldb'.stdout[k].stop # 0
        PROVE  lldb'.stdout[j].stop < lldb'.stdout[k].stop
    <3>1. /\ k + 1 \in DOMAIN lldb.stdout /\ lldb'.stdout[k] = lldb.stdout[k + 1]
          /\ j + 1 \in DOMAIN lldb.stdout /\ lldb'.stdout[j] = lldb.stdout[j + 1]
          /\ j + 1 < k + 1
      BY <1>3, <1>4, <2>3
    <3> QED
      BY <2>3, <3>1 DEF Counts, StopsInOrder
  <2> QED
    BY <2>1, <2>2, <2>3 DEF StopsInOrder
<1>10. Numbers'
  <2>1. \A k \in DOMAIN lldb'.stdin : lldb'.stdin[k].id <= op'.id
    BY <1>1, <1>4 DEF Counts, Numbers
  <2>2. \A k \in DOMAIN lldb'.stdout :
          lldb'.stdout[k].id <= op'.id /\ lldb'.stdout[k].says <= lldb'.stops
    BY <1>1, <1>3, <1>4 DEF Counts, Numbers
  <2>3. \A i \in buffer'.ids : i <= op'.id
    BY <1>1, <1>5, <1>8 DEF Counts, Numbers
  <2>4. \A s \in buffer'.says \cup stopped'.locals \cup stopped'.frames : s <= lldb'.stops
    BY <1>1, <1>4, <1>5, <1>8 DEF Counts, Numbers
  <2> QED
    BY <2>1, <2>2, <2>3, <2>4 DEF Numbers
<1> QED
  BY <1>6, <1>7, <1>9, <1>10 DEF Counts

\* A command is sent; what may be sent is left to the caller.
LEMMA SendsCounts ==
    ASSUME Shape, Counts, NEW name \in Name, Sends(name), UNCHANGED <<world, calls>>,
           async' \in BOOLEAN, script' \in Seq({"setup", "run"}), reqs' \in Seq(Kinds),
           Len(reqs') <= Len(reqs),
           stopped' \in [stop : Nat, locals : SUBSET Nat, frames : SUBSET Nat],
           stopped'.stop = stopped.stop \/ (buffer.stop # 0 /\ stopped'.stop = buffer.stop),
           \A s \in stopped'.locals \cup stopped'.frames : s <= lldb.stops,
           Budget'
    PROVE  Shape' /\ Counts'
<1>1. /\ at' = "reading" /\ op' \in Message /\ op'.id = op.id + 1
      /\ buffer'.ids = {} /\ buffer'.says = {} /\ buffer'.stop = 0
      /\ buffer' \in [ids : SUBSET Nat, stop : Nat, exit : BOOLEAN, says : SUBSET Nat,
                      prompt : BOOLEAN]
      /\ lldb'.stops = lldb.stops /\ lldb'.stdout = lldb.stdout /\ lldb'.stdin = Append(lldb.stdin, op')
      /\ lldb' \in [alive : BOOLEAN, target : Target, stops : Nat,
                    stdin : Seq(Message), stdout : Seq(Piece)]
  BY SendsFields
<1>2. /\ op.id \in Nat /\ lldb.stops \in Nat /\ stopped.stop \in Nat /\ buffer.stop \in Nat
      /\ Len(reqs) <= calls /\ calls \in Nat /\ Len(reqs) \in Nat /\ Len(reqs') \in Nat
      /\ stopped.stop <= lldb.stops
  BY CountFields
<1>3. /\ lldb.stdin \in Seq(Message)
      /\ \A k \in DOMAIN lldb.stdin : lldb.stdin[k].id \in Nat
      /\ \A k \in DOMAIN lldb.stdout : lldb.stdout[k].id \in Nat /\ lldb.stdout[k].stop \in Nat
  BY Fields
<1>4. Shape'
  BY <1>1 DEF Shape
<1>5. Counted'
  BY <1>1, <1>2 DEF Counts, Counted
<1>6. StopsInOrder'
  <2>1. stopped'.stop <= lldb.stops
    BY <1>2 DEF Counts, StopsInOrder
  <2>2. \A k \in DOMAIN lldb.stdout : lldb.stdout[k].stop # 0 =>
          stopped'.stop < lldb.stdout[k].stop /\ lldb.stdout[k].stop <= lldb.stops
    BY DEF Counts, StopsInOrder
  <2>3. \A k \in DOMAIN lldb.stdout : lldb.stdout[k].stop # 0 => 0 < lldb.stdout[k].stop
    BY <1>3
  <2> QED
    BY <1>1, <2>1, <2>2, <2>3 DEF Counts, StopsInOrder
<1>7. Numbers'
  <2>1. ASSUME NEW k \in DOMAIN lldb'.stdin PROVE lldb'.stdin[k].id <= op'.id
    <3>1. \/ lldb'.stdin[k] = op'
          \/ k \in DOMAIN lldb.stdin /\ lldb'.stdin[k] = lldb.stdin[k]
      BY <1>1, <1>3, AppendElements
    <3>2. CASE lldb'.stdin[k] = op'
      BY <1>1, <1>2, <3>2
    <3>3. CASE k \in DOMAIN lldb.stdin /\ lldb'.stdin[k] = lldb.stdin[k]
      <4>1. lldb.stdin[k].id <= op.id
        BY <3>3 DEF Counts, Numbers
      <4> QED
        <5>1. lldb'.stdin[k].id <= op.id /\ lldb'.stdin[k].id \in Nat
          BY <1>3, <3>3, <4>1
        <5> QED
          <6>1. lldb'.stdin[k].id <= op.id + 1
            BY <1>2, <5>1, OneMore
          <6>2. op'.id = op.id + 1
            BY <1>1
          <6> QED
            BY <6>1, <6>2
    <3> QED
      BY <3>1, <3>2, <3>3
  <2>2. \A k \in DOMAIN lldb'.stdout :
          lldb'.stdout[k].id <= op'.id /\ lldb'.stdout[k].says <= lldb'.stops
    BY <1>1, <1>2, <1>3 DEF Counts, Numbers
  <2> QED
    BY <1>1, <2>1, <2>2 DEF Numbers
<1> QED
  BY <1>4, <1>5, <1>6, <1>7 DEF Counts

\* Nothing is asked: the driver rests, and lldb may be told to end.
LEMMA NothingAsked ==
    ASSUME Shape, Counts, UNCHANGED <<world, calls, op, script>>,
           at' \in {"idle", "killing", "closed"},
           buffer' = buffer \/ buffer' = Empty, async' \in BOOLEAN,
           reqs' \in Seq(Kinds), Len(reqs') <= Len(reqs),
           stopped' \in [stop : Nat, locals : SUBSET Nat, frames : SUBSET Nat],
           stopped'.stop = stopped.stop,
           \A s \in stopped'.locals \cup stopped'.frames : s <= lldb.stops,
           lldb' \in [alive : BOOLEAN, target : Target, stops : Nat,
                      stdin : Seq(Message), stdout : Seq(Piece)],
           lldb'.stops = lldb.stops, lldb'.stdout = lldb.stdout,
           \A k \in DOMAIN lldb'.stdin :
             lldb'.stdin[k].id = 0 \/ \E j \in DOMAIN lldb.stdin : lldb'.stdin[k] = lldb.stdin[j]
    PROVE  Shape' /\ Counts'
<1>1. /\ op.id \in Nat /\ lldb.stops \in Nat /\ stopped.stop \in Nat /\ buffer.stop \in Nat
      /\ Len(reqs) <= calls /\ calls \in Nat /\ Len(reqs) \in Nat /\ Len(reqs') \in Nat
      /\ Len(script) \in Nat /\ Owed \in {0, 1}
  BY CountFields
<1>2. \A k \in DOMAIN lldb.stdout : lldb.stdout[k].stop \in Nat
  BY Fields
<1>3. Shape'
  BY EmptyShape DEF Shape
<1>4. Counted'
  BY <1>1 DEF Counts, Counted
<1>5. Budget'
  <2>1. Owed' = 0
    BY DEF Owed
  <2>2. op.id + Len(script) + Owed <= 2 + 2 * (calls - Len(reqs)) + 2 * stopped.stop
    BY DEF Counts, Budget
  <2>3. calls - Len(reqs) <= calls - Len(reqs')
    BY <1>1
  <2>4. calls - Len(reqs) \in Nat /\ calls - Len(reqs') \in Nat
    BY <1>1
  <2>5. op.id + Len(script) + 0 <= 2 + 2 * (calls - Len(reqs')) + 2 * stopped.stop
    <3> HIDE DEF Owed
    <3> QED
      BY <1>1, <2>2, <2>3, <2>4, LessOwed
  <2> QED
    BY <2>1, <2>5 DEF Budget
<1>6. StopsInOrder'
  <2>1. \A k \in DOMAIN lldb.stdout : lldb.stdout[k].stop # 0 => 0 < lldb.stdout[k].stop
    BY <1>2
  <2>2. buffer'.stop \in {buffer.stop, 0}
    BY EmptyShape
  <2> QED
    BY <2>1, <2>2 DEF Counts, StopsInOrder
<1>7. Numbers'
  <2>1. \A i \in buffer'.ids : i <= op'.id
    BY EmptyShape DEF Counts, Numbers
  <2>2. \A s \in buffer'.says : s <= lldb'.stops
    BY EmptyShape DEF Counts, Numbers
  <2>3. \A k \in DOMAIN lldb'.stdin : lldb'.stdin[k].id <= op'.id
    BY <1>1 DEF Counts, Numbers
  <2> QED
    BY <2>1, <2>2, <2>3 DEF Counts, Numbers
<1> QED
  BY <1>3, <1>4, <1>5, <1>6, <1>7 DEF Counts

LEMMA Spent ==
    ASSUME NEW i \in Nat, NEW n \in Nat, NEW o \in {0, 1}, NEW r \in Nat, NEW s \in Nat,
           NEW c \in Nat, NEW m \in Nat, NEW p \in {0, 1}, NEW q \in Nat, NEW t \in Nat,
           r <= c, q <= r,
           i + n + o <= 2 + 2 * (c - r) + 2 * s,
           1 + m + p + 2 * q + 2 * s <= n + o + 2 * r + 2 * t
    PROVE  i + 1 + m + p <= 2 + 2 * (c - q) + 2 * t
  OBVIOUS

\* What a command costs is paid by the handshake, by the command before it, by the call
\* that it is for, or by the stop that it describes.
LEMMA SendsBudget ==
    ASSUME Shape, Counts, NEW name \in Name, Sends(name), UNCHANGED calls,
           script' \in Seq({"setup", "run"}), reqs' \in Seq(Kinds), Len(reqs') <= Len(reqs),
           stopped'.stop \in Nat,
           NEW owed \in {0, 1}, owed = (IF name \in {"vars", "list"} THEN 1 ELSE 0),
           1 + Len(script') + owed + 2 * Len(reqs') + 2 * stopped.stop
             <= Len(script) + Owed + 2 * Len(reqs) + 2 * stopped'.stop
    PROVE  Budget'
<1>1. at' = "reading" /\ op'.name = name /\ op'.id = op.id + 1
  BY SendsFields
<1>2. Owed' = owed
  BY <1>1 DEF Owed
<1>3. op.id + Len(script) + Owed <= 2 + 2 * (calls - Len(reqs)) + 2 * stopped.stop
  BY DEF Counts, Budget
<1>4. /\ op.id \in Nat /\ Len(script) \in Nat /\ Len(reqs) \in Nat /\ calls \in Nat
      /\ Owed \in {0, 1} /\ stopped.stop \in Nat /\ Len(reqs) <= calls
  BY CountFields
<1>5. Len(script') \in Nat /\ Len(reqs') \in Nat
  OBVIOUS
<1> DEFINE i == op.id
           n == Len(script)
           o == Owed
           r == Len(reqs)
           s == stopped.stop
           m == Len(script')
           q == Len(reqs')
           t == stopped'.stop
<1>6. /\ i \in Nat /\ n \in Nat /\ o \in {0, 1} /\ r \in Nat /\ s \in Nat /\ m \in Nat /\ q \in Nat
      /\ t \in Nat /\ calls \in Nat /\ r <= calls /\ q <= r
      /\ i + n + o <= 2 + 2 * (calls - r) + 2 * s
      /\ 1 + m + owed + 2 * q + 2 * s <= n + o + 2 * r + 2 * t
  BY <1>3, <1>4, <1>5
<1>7. /\ op'.id = i + 1 /\ calls' = calls
      /\ Budget' = (op'.id + m + Owed' <= 2 + 2 * (calls' - q) + 2 * t)
  BY <1>1 DEF Budget
<1> HIDE DEF i, n, o, r, s, m, q, t
<1>8. i + 1 + m + owed <= 2 + 2 * (calls - q) + 2 * t
  BY <1>6, Spent
<1> QED
  BY <1>2, <1>7, <1>8

LEMMA ShakeCounts ==
    ASSUME Shape, Counts, Shake, at = "banner" \/ op.name = "setup",
           UNCHANGED <<world, calls, async, reqs, stopped>>
    PROVE  Shape' /\ Counts'
<1>1. script # <<>> /\ Sends(Head(script)) /\ script' = Tail(script) /\ script \in Seq({"setup", "run"})
  BY DEF Shake, Shape
<1>2. Head(script) \in {"setup", "run"} /\ Tail(script) \in Seq({"setup", "run"})
      /\ Len(Tail(script)) = Len(script) - 1 /\ Len(script) \in Nat /\ Len(script) > 0
  BY <1>1
<1>3. Head(script) \in Name
  BY <1>2 DEF Name
<1>4. Owed = 0 /\ stopped.stop \in Nat /\ Len(reqs) \in Nat
      /\ \A s \in stopped.locals \cup stopped.frames : s <= lldb.stops
  BY CountFields DEF Owed, Counts, Numbers
<1>5. Budget'
  <2>1. 1 + Len(script') + 0 + 2 * Len(reqs') + 2 * stopped.stop
          <= Len(script) + Owed + 2 * Len(reqs) + 2 * stopped'.stop
    BY <1>1, <1>2, <1>4
  <2>2. 0 = IF Head(script) \in {"vars", "list"} THEN 1 ELSE 0
    BY <1>2
  <2> QED
    BY <1>1, <1>2, <1>3, <1>4, <2>1, <2>2, SendsBudget DEF Shape
<1> QED
  BY <1>1, <1>2, <1>3, <1>4, <1>5, SendsCounts DEF Shape

\* A stop that is reported pays for its two commands, because it is a new one.
LEMMA InspectsCounts ==
    ASSUME Shape, Counts, Inspects(buffer), Owed = 0,
           UNCHANGED <<world, calls, script, reqs>>, async' \in BOOLEAN
    PROVE  Shape' /\ Counts'
<1>1. /\ stopped \in [stop : Nat, locals : SUBSET Nat, frames : SUBSET Nat]
      /\ script \in Seq({"setup", "run"}) /\ reqs \in Seq(Kinds)
      /\ lldb.stdin \in Seq(Message)
      /\ \A s \in stopped.locals \cup stopped.frames : s <= lldb.stops
  BY Fields DEF Shape, Counts, Numbers
<1>2. Len(reqs) \in Nat /\ Len(script) \in Nat /\ stopped.stop \in Nat /\ buffer.stop \in Nat
  BY CountFields
<1>3. CASE buffer.exit
  <2> DEFINE c == [name |-> "quit", id |-> 0]
  <2>1. /\ at' = "idle" /\ buffer' = Empty /\ UNCHANGED <<op, stopped>>
        /\ lldb' = [lldb EXCEPT !.stdin = Append(lldb.stdin, c)]
    BY <1>3 DEF Inspects
  <2>2. c \in Message /\ c.id = 0
    BY DEF Message, Name
  <2> HIDE DEF c
  <2>3. /\ Append(lldb.stdin, c) \in Seq(Message)
        /\ \A k \in DOMAIN Append(lldb.stdin, c) :
             \/ Append(lldb.stdin, c)[k] = c
             \/ k \in DOMAIN lldb.stdin /\ Append(lldb.stdin, c)[k] = lldb.stdin[k]
    BY <1>1, <2>2, AppendElements
  <2>4. /\ lldb'.stops = lldb.stops /\ lldb'.stdout = lldb.stdout
        /\ lldb'.stdin = Append(lldb.stdin, c)
        /\ lldb' \in [alive : BOOLEAN, target : Target, stops : Nat,
                      stdin : Seq(Message), stdout : Seq(Piece)]
    BY <2>1, <2>3, StdinFields
  <2>5. \A k \in DOMAIN lldb'.stdin :
          lldb'.stdin[k].id = 0 \/ \E j \in DOMAIN lldb.stdin : lldb'.stdin[k] = lldb.stdin[j]
    BY <2>2, <2>3, <2>4
  <2> QED
    BY <1>1, <1>2, <2>1, <2>4, <2>5, NothingAsked
<1>4. CASE ~buffer.exit /\ buffer.stop # 0
  <2>1. Sends("vars") /\ stopped' = [stop |-> buffer.stop, locals |-> {}, frames |-> {}]
    BY <1>4 DEF Inspects
  <2>2. "vars" \in Name
    BY DEF Name
  <2>3. stopped.stop < buffer.stop
    BY <1>4 DEF Counts, StopsInOrder
  <2>4. /\ stopped'.stop = buffer.stop /\ stopped'.locals = {} /\ stopped'.frames = {}
        /\ stopped' \in [stop : Nat, locals : SUBSET Nat, frames : SUBSET Nat]
    BY <1>2, <2>1
  <2>5. 1 + Len(script') + 1 + 2 * Len(reqs') + 2 * stopped.stop
          <= Len(script) + Owed + 2 * Len(reqs) + 2 * stopped'.stop
    BY <1>2, <2>3, <2>4
  <2>6. Budget'
    BY <1>1, <1>2, <2>1, <2>2, <2>4, <2>5, SendsBudget
  <2> QED
    BY <1>1, <1>2, <1>4, <2>1, <2>2, <2>4, <2>6, SendsCounts
<1>5. CASE ~buffer.exit /\ buffer.stop = 0
  <2>1. at' = "idle" /\ buffer' = Empty /\ UNCHANGED <<op, lldb, stopped>>
    BY <1>5 DEF Inspects, Rests
  <2>2. lldb \in [alive : BOOLEAN, target : Target, stops : Nat,
                  stdin : Seq(Message), stdout : Seq(Piece)]
    BY DEF Shape
  <2> QED
    BY <1>1, <1>2, <2>1, <2>2, NothingAsked
<1> QED
  BY <1>3, <1>4, <1>5

LEMMA EndsCounts ==
    ASSUME Shape, Counts, UNCHANGED world, Ends
    PROVE  Shape' /\ Counts'
<1>1. /\ stopped \in [stop : Nat, locals : SUBSET Nat, frames : SUBSET Nat]
      /\ script \in Seq({"setup", "run"}) /\ reqs \in Seq(Kinds) /\ async \in BOOLEAN
      /\ \A s \in buffer.says \cup stopped.locals \cup stopped.frames : s <= lldb.stops
      /\ lldb \in [alive : BOOLEAN, target : Target, stops : Nat,
                   stdin : Seq(Message), stdout : Seq(Piece)]
  BY DEF Shape, Counts, Numbers
<1>2. Len(reqs) \in Nat /\ Len(script) \in Nat /\ stopped.stop \in Nat /\ buffer.says \subseteq Nat
  BY CountFields, Fields
<1>3. CASE BannerEnds \/ SetupEnds
  BY <1>3, ShakeCounts DEF BannerEnds, SetupEnds
<1>4. CASE StepEnds
  <2>1. Owed = 0
    BY <1>4 DEF StepEnds, Owed
  <2> QED
    BY <1>1, <1>4, <2>1, InspectsCounts DEF StepEnds
<1>5. CASE VarsEnds
  <2>1. /\ Sends("bt") /\ "bt" \in Name /\ UNCHANGED <<calls, async, script, reqs>>
        /\ stopped' = [stopped EXCEPT !.locals = buffer.says]
    BY <1>5 DEF VarsEnds, Name
  <2>2. /\ stopped'.stop = stopped.stop /\ stopped'.locals = buffer.says
        /\ stopped'.frames = stopped.frames
        /\ stopped' \in [stop : Nat, locals : SUBSET Nat, frames : SUBSET Nat]
    BY <1>1, <1>2, <2>1
  <2>3. Owed = 1
    BY <1>5 DEF VarsEnds, AnswerEnds, Owed
  <2>6. /\ Len(reqs') <= Len(reqs) /\ reqs' \in Seq(Kinds) /\ script' \in Seq({"setup", "run"})
        /\ async' \in BOOLEAN /\ stopped'.stop \in Nat
    BY <1>1, <1>2, <2>1, <2>2
  <2>7. \A s \in stopped'.locals \cup stopped'.frames : s <= lldb.stops
    BY <1>1, <2>2
  <2>4. 1 + Len(script') + 0 + 2 * Len(reqs') + 2 * stopped.stop
          <= Len(script) + Owed + 2 * Len(reqs) + 2 * stopped'.stop
    BY <1>2, <2>1, <2>2, <2>3
  <2>5. Budget'
    <3>1. 0 = IF "bt" \in {"vars", "list"} THEN 1 ELSE 0
      OBVIOUS
    <3> QED
      BY <1>1, <1>2, <2>1, <2>2, <2>4, <2>6, <3>1, SendsBudget
  <2> QED
    BY <1>1, <1>2, <2>1, <2>2, <2>5, <2>6, <2>7, SendsCounts
<1>6. CASE BacktraceEnds
  <2>1. /\ Rests /\ UNCHANGED <<calls, async, script, reqs>>
        /\ stopped' = [stopped EXCEPT !.frames = buffer.says]
    BY <1>6 DEF BacktraceEnds
  <2>2. /\ stopped'.stop = stopped.stop /\ stopped'.locals = stopped.locals
        /\ stopped'.frames = buffer.says
        /\ stopped' \in [stop : Nat, locals : SUBSET Nat, frames : SUBSET Nat]
    BY <1>1, <1>2, <2>1
  <2>3. \A s \in stopped'.locals \cup stopped'.frames : s <= lldb.stops
    BY <1>1, <2>2
  <2>4. /\ at' \in {"idle", "killing", "closed"} /\ buffer' = Empty /\ UNCHANGED <<op, lldb>>
        /\ Len(reqs') <= Len(reqs)
    BY <1>2, <2>1 DEF Rests
  <2> QED
    BY <1>1, <2>1, <2>2, <2>3, <2>4, NothingAsked
<1>7. CASE LookEnds
  <2>1. Rests /\ UNCHANGED <<calls, async, script, reqs, stopped>>
    BY <1>7 DEF LookEnds
  <2> QED
    BY <1>1, <1>2, <2>1, NothingAsked DEF Rests
<1>8. CASE ListEnds
  <2>1. Sends("look") /\ "look" \in Name /\ UNCHANGED <<calls, async, script, reqs, stopped>>
    BY <1>8 DEF ListEnds, Name
  <2>2. Owed = 1
    BY <1>8 DEF ListEnds, AnswerEnds, Owed
  <2>3. 1 + Len(script') + 0 + 2 * Len(reqs') + 2 * stopped.stop
          <= Len(script) + Owed + 2 * Len(reqs) + 2 * stopped'.stop
    BY <1>2, <2>1, <2>2
  <2>4. Budget'
    <3>1. /\ 0 = IF "look" \in {"vars", "list"} THEN 1 ELSE 0
          /\ Len(reqs') <= Len(reqs) /\ stopped'.stop \in Nat
      BY <1>2, <2>1
    <3> QED
      BY <1>1, <2>1, <2>3, <3>1, SendsBudget
  <2> QED
    BY <1>1, <1>2, <2>1, <2>4, SendsCounts
<1> QED
  BY <1>3, <1>4, <1>5, <1>6, <1>7, <1>8 DEF Ends

LEMMA IdleCounts ==
    ASSUME Shape, Counts, UNCHANGED world,
           TakeCall \/ TakeStop \/ Killed \/ RefuseCall \/ SeesClosed \/ QuietWindow
    PROVE  Shape' /\ Counts'
<1>1. /\ stopped \in [stop : Nat, locals : SUBSET Nat, frames : SUBSET Nat]
      /\ script \in Seq({"setup", "run"}) /\ reqs \in Seq(Kinds) /\ async \in BOOLEAN
      /\ \A s \in stopped.locals \cup stopped.frames : s <= lldb.stops
      /\ lldb \in [alive : BOOLEAN, target : Target, stops : Nat,
                   stdin : Seq(Message), stdout : Seq(Piece)]
      /\ lldb.stdin \in Seq(Message)
  BY DEF Shape, Counts, Numbers
<1>2. Len(reqs) \in Nat /\ Len(script) \in Nat /\ stopped.stop \in Nat
  BY CountFields
<1>3. reqs # <<>> => /\ Head(reqs) \in Kinds /\ Tail(reqs) \in Seq(Kinds)
                     /\ Len(Tail(reqs)) = Len(reqs) - 1 /\ Len(reqs) > 0
  BY <1>1
<1>4. CASE TakeCall
  <2> DEFINE name == IF Head(reqs) = "remove" THEN "list" ELSE Head(reqs)
             owed == IF name \in {"vars", "list"} THEN 1 ELSE 0
  <2>1. /\ Sends(name) /\ reqs # <<>> /\ reqs' = Tail(reqs) /\ at = "idle" /\ async' = FALSE
        /\ UNCHANGED <<script, stopped, calls>> /\ Head(reqs) # "stop"
    BY <1>4 DEF TakeCall
  <2>2. name \in {"step", "look", "list"}
    BY <1>3, <2>1, KindsAreCalls DEF Kind
  <2>3. name \in Name
    BY <2>2 DEF Name
  <2> HIDE DEF name
  <2>4. Owed = 0 /\ owed \in {0, 1}
    BY <2>1 DEF Owed
  <2> HIDE DEF owed
  <2>5. 1 + Len(script') + owed + 2 * Len(reqs') + 2 * stopped.stop
          <= Len(script) + Owed + 2 * Len(reqs) + 2 * stopped'.stop
    BY <1>2, <1>3, <2>1, <2>4
  <2>6. owed = IF name \in {"vars", "list"} THEN 1 ELSE 0
    BY DEF owed
  <2>7. Len(reqs') <= Len(reqs) /\ reqs' \in Seq(Kinds) /\ stopped'.stop \in Nat
    BY <1>2, <1>3, <2>1
  <2>8. Budget'
    BY <1>1, <2>1, <2>3, <2>4, <2>5, <2>6, <2>7, SendsBudget
  <2> QED
    BY <1>1, <2>1, <2>3, <2>7, <2>8, SendsCounts
<1>5. CASE TakeStop
  <2> DEFINE kill == [name |-> "kill", id |-> 0]
             quit == [name |-> "quit", id |-> 0]
             both == Append(Append(lldb.stdin, kill), quit)
  <2>1. /\ reqs # <<>> /\ at' = "killing" /\ async' = FALSE /\ reqs' = Tail(reqs)
        /\ lldb' = [lldb EXCEPT !.stdin = lldb.stdin \o <<kill, quit>>]
        /\ UNCHANGED <<op, buffer, script, stopped, calls>>
    BY <1>5 DEF TakeStop
  <2>2. kill \in Message /\ quit \in Message /\ kill.id = 0 /\ quit.id = 0
    BY DEF Message, Name
  <2> HIDE DEF kill, quit
  <2>3. lldb.stdin \o <<kill, quit>> = both
    BY <1>1, <2>2
  <2>4. /\ both \in Seq(Message)
        /\ \A k \in DOMAIN both :
             both[k] \in {kill, quit} \/ (k \in DOMAIN lldb.stdin /\ both[k] = lldb.stdin[k])
    <3>1. Append(lldb.stdin, kill) \in Seq(Message)
      BY <1>1, <2>2
    <3> QED
      BY <1>1, <2>2, <3>1, AppendElements
  <2> HIDE DEF both
  <2>5. /\ lldb'.stops = lldb.stops /\ lldb'.stdout = lldb.stdout /\ lldb'.stdin = both
        /\ lldb' \in [alive : BOOLEAN, target : Target, stops : Nat,
                      stdin : Seq(Message), stdout : Seq(Piece)]
    BY <2>1, <2>3, <2>4, StdinFields
  <2>6. \A k \in DOMAIN lldb'.stdin :
          lldb'.stdin[k].id = 0 \/ \E j \in DOMAIN lldb.stdin : lldb'.stdin[k] = lldb.stdin[j]
    BY <2>2, <2>4, <2>5
  <2>7. Len(reqs') <= Len(reqs) /\ reqs' \in Seq(Kinds)
    BY <1>2, <1>3, <2>1
  <2> QED
    BY <1>1, <2>1, <2>5, <2>6, <2>7, NothingAsked
<1>6. CASE Killed
  <2>1. /\ at' = "closed" /\ lldb' = [lldb EXCEPT !.alive = FALSE]
        /\ UNCHANGED <<op, buffer, async, script, reqs, stopped, calls>>
    BY <1>6 DEF Killed
  <2>2. /\ lldb'.stops = lldb.stops /\ lldb'.stdout = lldb.stdout /\ lldb'.stdin = lldb.stdin
        /\ lldb' \in [alive : BOOLEAN, target : Target, stops : Nat,
                      stdin : Seq(Message), stdout : Seq(Piece)]
    BY <1>1, <2>1
  <2> QED
    BY <1>1, <1>2, <2>1, <2>2, NothingAsked
<1>7. CASE RefuseCall
  <2>1. /\ reqs # <<>> /\ at = "closed" /\ reqs' = Tail(reqs)
        /\ UNCHANGED <<at, op, buffer, async, script, stopped, lldb, calls>>
    BY <1>7 DEF RefuseCall, session
  <2>2. Len(reqs') <= Len(reqs) /\ reqs' \in Seq(Kinds)
    BY <1>2, <1>3, <2>1
  <2> QED
    BY <1>1, <2>1, <2>2, NothingAsked
<1>8. CASE SeesClosed
  <2>1. at' = "closed" /\ UNCHANGED <<op, buffer, async, script, reqs, stopped, lldb, calls>>
    BY <1>8 DEF SeesClosed
  <2> QED
    BY <1>1, <1>2, <2>1, NothingAsked
<1>9. CASE QuietWindow
  <2>1. at = "idle" /\ async' = FALSE /\ UNCHANGED <<script, reqs, calls>>
        /\ (Inspects(buffer) \/ UNCHANGED <<at, op, buffer, stopped, lldb>>)
    BY <1>9 DEF QuietWindow
  <2>2. Owed = 0
    BY <2>1 DEF Owed
  <2>3. CASE Inspects(buffer)
    BY <2>1, <2>2, <2>3, InspectsCounts
  <2>4. CASE UNCHANGED <<at, op, buffer, stopped, lldb>>
    <3>1. /\ at' \in {"idle", "killing", "closed"} /\ async' \in BOOLEAN
          /\ script' = script /\ calls' = calls
      <4>1. at' = at /\ at = "idle" /\ async' = FALSE /\ script' = script /\ calls' = calls
        BY <2>1, <2>4
      <4> QED
        BY <4>1
    <3>5. reqs' \in Seq(Kinds) /\ Len(reqs') <= Len(reqs)
      <4>1. reqs' = reqs
        BY <2>1
      <4> QED
        BY <1>1, <1>2, <4>1
    <3>2. /\ op' = op /\ buffer' = buffer /\ stopped' = stopped /\ lldb' = lldb
      BY <2>4
    <3>3. stopped' \in [stop : Nat, locals : SUBSET Nat, frames : SUBSET Nat]
          /\ stopped'.stop = stopped.stop
          /\ \A s \in stopped'.locals \cup stopped'.frames : s <= lldb.stops
      BY <1>1, <3>2
    <3>4. /\ lldb' \in [alive : BOOLEAN, target : Target, stops : Nat,
                         stdin : Seq(Message), stdout : Seq(Piece)]
          /\ lldb'.stops = lldb.stops /\ lldb'.stdout = lldb.stdout
          /\ \A k \in DOMAIN lldb'.stdin : \E j \in DOMAIN lldb.stdin : lldb'.stdin[k] = lldb.stdin[j]
      BY <1>1, <3>2
    <3> QED
      BY <3>1, <3>2, <3>3, <3>4, <3>5, NothingAsked
  <2> QED
    BY <2>1, <2>3, <2>4
<1> QED
  BY <1>4, <1>5, <1>6, <1>7, <1>8, <1>9

LEMMA CallCounts ==
    ASSUME Shape, Counts, UNCHANGED world, NEW kind \in Kinds, Call(kind)
    PROVE  Shape' /\ Counts'
<1>1. /\ reqs' = Append(reqs, kind) /\ calls' = calls + 1 /\ calls < world.requests
      /\ UNCHANGED <<session, lldb>>
  BY DEF Call
<1>2. /\ reqs \in Seq(Kinds) /\ calls \in Nat /\ Len(reqs) \in Nat /\ Len(reqs) <= calls
      /\ world.requests \in Nat
  BY CountFields DEF Shape
<1>3. reqs' \in Seq(Kinds) /\ Len(reqs') = Len(reqs) + 1
  BY <1>1, <1>2
<1>4. Shape'
  BY <1>1, <1>3 DEF Shape, session
<1>5. Counted'
  BY <1>1, <1>2, <1>3 DEF Counts, Counted
<1>6. Budget'
  <2>1. calls' - Len(reqs') = calls - Len(reqs)
    BY <1>1, <1>2, <1>3
  <2>2. UNCHANGED <<op, script, at, stopped>>
    BY <1>1 DEF session
  <2> QED
    BY <2>1, <2>2 DEF Counts, Budget, Owed
<1>7. StopsInOrder' /\ Numbers'
  BY <1>1 DEF Counts, StopsInOrder, Numbers, session
<1> QED
  BY <1>4, <1>5, <1>6, <1>7 DEF Counts

LEMMA CountsStep ==
    ASSUME Shape, Counts, [Next]_vars
    PROVE  Shape' /\ Counts'
<1>1. CASE UNCHANGED vars
  BY <1>1 DEF vars, session, Shape, Counts, Counted, StopsInOrder, Budget, Owed, Numbers
<1>2. CASE Next
  BY <1>2, ReadCounts, EndsCounts, IdleCounts, LldbCounts, CallCounts DEF Next, Driver
<1> QED
  BY <1>1, <1>2

LEMMA CountsInit ==
    ASSUME Init
    PROVE  Shape /\ Counts
<1>1. script \in Seq({"setup", "run"}) /\ Len(script) = 2
  BY DEF Init
<1>2. Text \in Piece /\ Text.stop = 0 /\ Text.id = 0 /\ Text.says = 0
  BY DEF Text, Piece
<1>3. /\ reqs = <<>> /\ reqs \in Seq(Kinds) /\ Len(reqs) = 0
      /\ op.id = 0 /\ op.name = "none" /\ op \in Message
      /\ lldb.stdin = <<>> /\ lldb.stdout = <<Text>> /\ lldb.stops = 0
      /\ stopped.stop = 0 /\ stopped.locals = {} /\ stopped.frames = {} /\ calls = 0
      /\ buffer = Empty
  BY DEF Init, Message, Name
<1>4. lldb \in [alive : BOOLEAN, target : Target, stops : Nat,
                stdin : Seq(Message), stdout : Seq(Piece)]
  BY <1>2 DEF Init, Target
<1>5. Shape
  BY <1>1, <1>3, <1>4, EmptyShape DEF Init, Shape
<1>6. world \in World
  BY WorldsAreWorlds DEF Init
<1>7. Counted
  <2>1. world.requests \in Nat /\ world.stops \in Nat
    BY <1>6, BoundsAreNat DEF World
  <2> QED
    BY <1>3, <1>6, <2>1 DEF Counted
<1>8. Budget
  BY <1>1, <1>3 DEF Budget, Owed, Init
<1>9. \A k \in DOMAIN lldb.stdout : lldb.stdout[k] = Text
  BY <1>3
<1>10. StopsInOrder
  BY <1>2, <1>3, <1>9, EmptyShape DEF StopsInOrder
<1>11. Numbers
  BY <1>2, <1>3, <1>9, EmptyShape DEF Numbers
<1> QED
  BY <1>5, <1>7, <1>8, <1>10, <1>11 DEF Counts

LEMMA AtMost ==
    ASSUME NEW i \in Nat, NEW n \in Nat, NEW o \in {0, 1}, NEW r \in Nat, NEW s \in Nat,
           NEW c \in Nat, r <= c, i + n + o <= 2 + 2 * (c - r) + 2 * s
    PROVE  i <= 2 + 2 * c + 2 * s
  OBVIOUS

LEMMA CountsAreTypes ==
    ASSUME Shape, Counts, Once
    PROVE  TypeOK
<1>1. /\ op.id \in Nat /\ Len(script) \in Nat /\ Len(reqs) \in Nat /\ calls \in Nat
      /\ Owed \in {0, 1} /\ stopped.stop \in Nat /\ lldb.stops \in Nat /\ buffer.stop \in Nat
      /\ world.requests \in 0 .. MaxRequests /\ world.stops \in 0 .. MaxStops
      /\ MaxRequests \in Nat /\ MaxStops \in Nat
      /\ calls <= world.requests /\ lldb.stops <= world.stops /\ Len(reqs) <= calls
      /\ stopped.stop <= lldb.stops
  BY CountFields
<1>2. op.id <= MaxCommands /\ MaxCommands \in Nat /\ lldb.stops <= MaxStops
  <2>1. op.id + Len(script) + Owed <= 2 + 2 * (calls - Len(reqs)) + 2 * stopped.stop
    BY DEF Counts, Budget
  <2>2. op.id <= 2 + 2 * calls + 2 * stopped.stop
    <3> DEFINE i == op.id
               n == Len(script)
               r == Len(reqs)
               s == stopped.stop
    <3>1. /\ i \in Nat /\ n \in Nat /\ Owed \in {0, 1} /\ r \in Nat /\ s \in Nat
          /\ calls \in Nat /\ r <= calls /\ i + n + Owed <= 2 + 2 * (calls - r) + 2 * s
      BY <1>1, <2>1
    <3> HIDE DEF i, n, r, s, Owed
    <3>2. i <= 2 + 2 * calls + 2 * s
      BY <3>1, AtMost
    <3> QED
      BY <3>2 DEF i, s
  <2>3. calls <= MaxRequests /\ stopped.stop <= MaxStops /\ lldb.stops <= MaxStops
    BY <1>1
  <2> QED
    BY <1>1, <2>2, <2>3 DEF MaxCommands
<1>3. \A i \in Nat : i <= op.id => i \in 0 .. MaxCommands
  BY <1>1, <1>2
<1>4. \A s \in Nat : s <= lldb.stops => s \in 0 .. MaxStops
  BY <1>1, <1>2
<1>5. op \in Cmd
  BY <1>1, <1>3 DEF Shape, Message, Cmd
<1>6. buffer.stop \in 0 .. MaxStops
  <2>1. buffer.stop <= lldb.stops
    BY <1>1 DEF Counts, StopsInOrder
  <2> QED
    BY <1>1, <1>4, <2>1
<1>7. buffer \in Buffer
  <2>1. buffer.ids \subseteq 0 .. MaxCommands
    BY <1>3, Fields DEF Counts, Numbers
  <2>2. buffer.says \subseteq 0 .. MaxStops
    BY <1>4, Fields DEF Counts, Numbers
  <2> QED
    BY <1>6, <2>1, <2>2 DEF Shape, Buffer
<1>8. stopped \in Event
  <2>1. stopped.locals \subseteq 0 .. MaxStops /\ stopped.frames \subseteq 0 .. MaxStops
    BY <1>4, Fields DEF Counts, Numbers
  <2>2. stopped.stop \in 0 .. MaxStops
    BY <1>1, <1>4
  <2> QED
    BY <2>1, <2>2 DEF Shape, Event
<1>9. lldb.stdin \in Seq(Cmd)
  <2>1. \A k \in DOMAIN lldb.stdin : lldb.stdin[k] \in Message /\ lldb.stdin[k].id <= op.id
    BY DEF Shape, Counts, Numbers
  <2>2. \A k \in DOMAIN lldb.stdin : lldb.stdin[k] \in Cmd
    BY <1>3, <2>1 DEF Message, Cmd
  <2> QED
    BY <2>2, Fields, SequenceOf
<1>10. lldb.stdout \in Seq(Chunk)
  <2>1. \A k \in DOMAIN lldb.stdout :
          /\ lldb.stdout[k] \in Piece /\ lldb.stdout[k].id <= op.id
          /\ lldb.stdout[k].says <= lldb.stops /\ lldb.stdout[k].stop <= lldb.stops
    BY <1>1, Fields DEF Counts, Numbers, StopsInOrder
  <2>2. ASSUME NEW k \in DOMAIN lldb.stdout PROVE lldb.stdout[k] \in Chunk
    <3>1. lldb.stdout[k] \in Piece
      BY <2>1
    <3>2. /\ lldb.stdout[k].id \in 0 .. MaxCommands /\ lldb.stdout[k].says \in 0 .. MaxStops
          /\ lldb.stdout[k].stop \in 0 .. MaxStops
      BY <1>3, <1>4, <2>1, <3>1 DEF Piece
    <3> QED
      BY <3>1, <3>2 DEF Piece, Chunk
  <2> QED
    BY <2>2, Fields, SequenceOf
<1>11. lldb \in [alive : BOOLEAN, target : Target, stops : 0 .. MaxStops,
                 stdin : Seq(Cmd), stdout : Seq(Chunk)]
  <2>1. lldb.stops \in 0 .. MaxStops
    BY <1>1, <1>4
  <2> QED
    BY <1>9, <1>10, <2>1 DEF Shape
<1>12. exits \in Nat /\ exit_sent \in BOOLEAN
  BY DEF Once
<1> QED
  BY <1>5, <1>7, <1>8, <1>11, <1>12 DEF Shape, Counts, Counted, TypeOK

\* Types, with the number of commands a session can ever send: two for the handshake,
\* at most two for a call and two for each stop, which is reported once and in the
\* order in which stops happen, also when lldb is slow and answers are misread
\* (start, send_command, handle_request, handle_stop_if_needed).
THEOREM DriverTypes == Spec => []TypeOK
<1>1. Init => Shape /\ Counts /\ Once
  BY CountsInit DEF Init, Once
<1>2. Shape /\ Counts /\ Once /\ [Next]_vars => (Shape /\ Counts /\ Once)'
  BY CountsStep, OnceStep
<1>3. Shape /\ Counts /\ Once => TypeOK
  BY CountsAreTypes
<1> QED
  BY <1>1, <1>2, <1>3, PTL DEF Spec
=============================================================================
