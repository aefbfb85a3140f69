-------------------------- MODULE LspClientProofs --------------------------
(***************************************************************************)
(* The clangd session keeps the promise of LspCalls for any number of      *)
(* calls, notifications and requests of clangd, and any size of the pipe.  *)
(*                                                                         *)
(* Two things are needed beside the types.  A number stands for one call,  *)
(* wherever it is met: the strengthening names the function from numbers   *)
(* to calls.  And a call that waits is queued, being written or pending,   *)
(* so that the end of the session, which goes through these three, misses  *)
(* none.                                                                   *)
(*                                                                         *)
(* A request of clangd that waits for its reply is in one place, as a      *)
(* request or as the reply to it, and no number that does not wait is met: *)
(* so each is replied to, once.                                            *)
(***************************************************************************)
EXTENDS LspClient, SequenceTheorems, FiniteSetTheorems, TLAPS

\* A message, wherever it is, that carries the number and the call of a request.
Agrees(msg, owner) ==
    msg.what \in {"request", "answer"} => msg.of = owner[msg.id] /\ msg.id < next_id

\* One number, one call.
Owned(owner) ==
    /\ \A i \in DOMAIN pending : pending[i] = owner[i]
    /\ Agrees(out, owner)
    /\ \A k \in DOMAIN stdin : Agrees(stdin[k], owner)
    /\ \A msg \in clangd.todo : Agrees(msg, owner)
    /\ \A k \in DOMAIN incoming : Agrees(incoming[k], owner)

NumbersAreOwned == \E owner \in [Nat -> All] : Owned(owner)

\* Where a call that waits is.
Queued(c) == \E k \in DOMAIN cmds : cmds[k].what = "request" /\ cmds[k].of = c
Written(c) == out.what = "request" /\ out.of = c
Pending(c) == \E i \in DOMAIN pending : pending[i] = c

WaitingIsSomewhere ==
    \A c \in All : call[c] = "waiting" => Queued(c) \/ Written(c) \/ Pending(c)

\* Nobody calls before the actor runs, nothing is written after it ended, and
\* shutdown is the last call.
Stages ==
    /\ at = "handshake" => handle = "none" /\ \A c \in All : call[c] = "idle"
    /\ at = "ended" => out = Nothing
    /\ handle \in {"none", "held"} => call[Bye] = "idle"

\* An answer that a caller was given is the one to its call.
AnswersAreRight == \A c \in All : got[c] = c

\* A request that is being written was given its number.
OutIsNumbered ==
    /\ next_id > 0
    /\ out.what = "request" => out.id \in 1 .. next_id - 1

IInv ==
    /\ TypeOK /\ OutIsNumbered
    /\ NumbersAreOwned /\ WaitingIsSomewhere /\ Stages /\ AnswersAreRight

Message == Request \cup Note \cup Reply
Frame == Answer \cup AskMsg \cup Publish

-----------------------------------------------------------------------------
(* Sequences.                                                              *)

\* What holds of every element of a sequence holds of every element of its tail.
LEMMA TailElements ==
    ASSUME NEW S, NEW s \in Seq(S), s # <<>>
    PROVE  /\ Head(s) \in S /\ Tail(s) \in Seq(S)
           /\ 1 \in DOMAIN s /\ Head(s) = s[1]
           /\ \A k \in DOMAIN Tail(s) : k + 1 \in DOMAIN s /\ Tail(s)[k] = s[k + 1]
           /\ \A k \in DOMAIN s : k = 1 \/ (k - 1 \in DOMAIN Tail(s) /\ Tail(s)[k - 1] = s[k])
  OBVIOUS

\* The elements after an Append.
LEMMA AppendElements ==
    ASSUME NEW S, NEW s \in Seq(S), NEW e \in S
    PROVE  /\ Append(s, e) \in Seq(S)
           /\ \A k \in DOMAIN Append(s, e) :
                Append(s, e)[k] = e \/ (k \in DOMAIN s /\ Append(s, e)[k] = s[k])
           /\ \A k \in DOMAIN s : k \in DOMAIN Append(s, e) /\ Append(s, e)[k] = s[k]
           /\ Len(s) + 1 \in DOMAIN Append(s, e) /\ Append(s, e)[Len(s) + 1] = e
  OBVIOUS

\* The elements of a concatenation.
LEMMA ConcatElements ==
    ASSUME NEW S, NEW s \in Seq(S), NEW t \in Seq(S)
    PROVE  /\ s \o t \in Seq(S)
           /\ \A k \in DOMAIN s : k \in DOMAIN (s \o t) /\ (s \o t)[k] = s[k]
           /\ \A k \in DOMAIN t : Len(s) + k \in DOMAIN (s \o t) /\ (s \o t)[Len(s) + k] = t[k]
  OBVIOUS

-----------------------------------------------------------------------------
(* Types.                                                                  *)

\* The commands and messages have their types.
LEMMA CommandTypes ==
    ASSUME NEW c \in All
    PROVE  /\ [what |-> "request", of |-> c] \in Cmd
           /\ [what |-> "note"] \in Cmd /\ [what |-> "kill"] \in Cmd
           /\ [what |-> "note"] \in Message
           /\ \A i \in Nat : /\ [what |-> "request", id |-> i, of |-> c] \in Request
                             /\ [what |-> "reply", id |-> i] \in Reply
                             /\ [what |-> "answer", id |-> i, of |-> c] \in Frame
                             /\ [what |-> "ask", id |-> i] \in Frame
           /\ [what |-> "publish"] \in Frame
  BY DEF Cmd, Message, Request, Note, Reply, Frame, Answer, AskMsg, Publish

\* What is known of a message by what it is.
LEMMA MessageKinds ==
    /\ \A msg \in Message \cup {Nothing} :
         /\ msg.what = "request" <=> msg \in Request
         /\ msg \in Request => msg.id \in Nat /\ msg.of \in All
         /\ msg # Nothing => msg \in Message
         /\ msg.what = "answer" => FALSE
    /\ \A msg \in Frame :
         /\ msg.what = "answer" => msg.id \in Nat /\ msg.of \in All
         /\ msg.what = "ask" => msg.id \in Nat
         /\ msg.what = "request" => FALSE
    /\ \A cmd \in Cmd : cmd.what = "request" => cmd.of \in All
  BY DEF Cmd, Message, Nothing, Request, Note, Reply, Frame, Answer, AskMsg, Publish

Typed ==
    /\ cmds \in Seq(Cmd) /\ out \in Message \cup {Nothing}
    /\ stdin \in Seq(Message) /\ incoming \in Seq(Frame)
    /\ next_id \in Nat /\ call \in [All -> {"idle", "waiting", "answered", "gone", "timeout"}]
    /\ DOMAIN pending \subseteq 1 .. next_id - 1 /\ pending \in [DOMAIN pending -> All]
    /\ got \in [All -> All]

LEMMA TypedIsTyped == TypeOK => Typed
  BY DEF TypeOK, Typed, Message, Frame

\* The end of a session keeps the types.
LEMMA EndsType ==
    ASSUME TypeOK, NEW n \in {0, 1}, Ends(n)
    PROVE  TypeOK'
<1>1. call' \in [All -> {"idle", "waiting", "answered", "gone", "timeout"}]
  BY DEF Ends, TypeOK
<1>2. exits' \in Nat /\ cmds' \in Seq(Cmd)
  BY DEF Ends, TypeOK
<1>3. DOMAIN pending' \subseteq 1 .. next_id' - 1 /\ pending' \in [DOMAIN pending' -> All]
  BY DEF Ends, TypeOK
<1>4. clangd' \in [alive : BOOLEAN, hung : BOOLEAN, todo : SUBSET Request,
                   asks : SUBSET Nat, asked : Nat]
  BY DEF Ends, TypeOK
<1> QED
  BY <1>1, <1>2, <1>3, <1>4 DEF Ends, TypeOK

\* So do a command that is sent and a call.
LEMMA SendType ==
    ASSUME Typed, NEW new \in Seq(Cmd), Send(new)
    PROVE  cmds' \in Seq(Cmd)
<1>1. cmds \in Seq(Cmd)
  BY DEF Typed
<1>2. cmds' = cmds \o new
  BY DEF Send
<1> QED
  BY <1>1, <1>2, ConcatProperties

LEMMA CallingType ==
    ASSUME TypeOK, NEW c \in All, Calling(c)
    PROVE  /\ call' \in [All -> {"idle", "waiting", "answered", "gone", "timeout"}]
           /\ cmds' \in Seq(Cmd)
<1>1. <<[what |-> "request", of |-> c]>> \in Seq(Cmd)
  BY CommandTypes
<1>2. cmds' = cmds \/ Send(<<[what |-> "request", of |-> c]>>)
  BY DEF Calling
<1>3. cmds' \in Seq(Cmd)
  BY <1>1, <1>2, SendType, TypedIsTyped DEF Typed
<1> QED
  BY <1>3 DEF Calling, TypeOK

\* The IDE's steps keep the types.
LEMMA IdeType ==
    ASSUME TypeOK, MaxNotes \in Nat,
           \/ Ide \/ ShutdownGoesOn \/ \E c \in All : TimeOut(c)
    PROVE  TypeOK'
<1>1. CASE \E c \in Calls : CallRequest(c)
  <2>1. PICK c \in Calls : CallRequest(c)
    BY <1>1
  <2> QED
    BY <2>1, CallingType DEF CallRequest, ActorRests, TypeOK, All
<1>2. CASE Notify
  <2>1. <<[what |-> "note"]>> \in Seq(Cmd)
    BY DEF Cmd
  <2>2. cmds' \in Seq(Cmd)
    <3>1. cmds' = cmds \/ Send(<<[what |-> "note"]>>)
      BY <1>2 DEF Notify
    <3> QED
      BY <2>1, <3>1, SendType, TypedIsTyped DEF Typed
  <2>3. notes' \in 0 .. MaxNotes
    BY <1>2 DEF Notify, TypeOK
  <2> QED
    BY <1>2, <2>2, <2>3 DEF Notify, ActorRests, TypeOK
<1>3. CASE DropHandle
  BY <1>3 DEF DropHandle, ActorRests, TypeOK
<1>4. CASE Shutdown
  <2>1. Bye \in All
    BY DEF All
  <2> QED
    BY <1>4, <2>1, CallingType DEF Shutdown, ActorRests, TypeOK
<1>5. CASE ShutdownGoesOn
  <2>1. <<[what |-> "note"], [what |-> "kill"]>> \in Seq(Cmd)
    BY DEF Cmd
  <2>2. cmds' \in Seq(Cmd)
    <3>1. cmds' = cmds \/ Send(<<[what |-> "note"], [what |-> "kill"]>>)
      BY <1>5 DEF ShutdownGoesOn
    <3> QED
      BY <2>1, <3>1, SendType, TypedIsTyped DEF Typed
  <2> QED
    BY <1>5, <2>2 DEF ShutdownGoesOn, ActorRests, TypeOK
<1>6. CASE \E c \in All : TimeOut(c)
  BY <1>6 DEF TimeOut, ActorRests, TypeOK
<1> QED
  BY <1>1, <1>2, <1>3, <1>4, <1>5, <1>6 DEF Ide

\* clangd's steps keep the types.
LEMMA ClangdType ==
    ASSUME TypeOK, Clangd
    PROVE  TypeOK'
<1> DEFINE ClangdT == [alive : BOOLEAN, hung : BOOLEAN, todo : SUBSET Request,
                       asks : SUBSET Nat, asked : Nat]
<1> USE DEF ClientRests, ide
<1>1. CASE ClangdReads
  <2>1. Head(stdin) \in Message /\ stdin' \in Seq(Message)
    BY <1>1, TypedIsTyped, TailElements DEF ClangdReads, Typed
  <2>2. Head(stdin).what = "request" => Head(stdin) \in Request
    BY <2>1, MessageKinds
  <2>3. clangd' \in ClangdT
    BY <1>1, <2>2 DEF ClangdReads, TypeOK
  <2> QED
    BY <1>1, <2>1, <2>3 DEF ClangdReads, TypeOK, Message
<1>2. CASE ClangdAnswers
  <2>1. PICK msg \in clangd.todo :
          /\ clangd' = [clangd EXCEPT !.todo = @ \ {msg}]
          /\ incoming' = Append(incoming, [what |-> "answer", id |-> msg.id, of |-> msg.of])
    BY <1>2 DEF ClangdAnswers
  <2>2. msg.id \in Nat /\ msg.of \in All
    BY <2>1 DEF TypeOK, Request
  <2>3. incoming' \in Seq(Frame)
    <3>1. [what |-> "answer", id |-> msg.id, of |-> msg.of] \in Frame
      BY <2>2, CommandTypes
    <3> QED
      BY <2>1, <3>1, AppendElements, TypedIsTyped DEF Typed
  <2>4. clangd' \in ClangdT
    BY <2>1 DEF TypeOK
  <2> QED
    BY <1>2, <2>3, <2>4 DEF ClangdAnswers, TypeOK, Frame
<1>3. CASE ClangdAsks
  <2>1. incoming' \in Seq(Frame)
    <3>1. clangd.asked \in Nat
      BY DEF TypeOK
    <3>2. [what |-> "ask", id |-> clangd.asked] \in Frame
      BY <3>1 DEF Frame, AskMsg
    <3> QED
      BY <1>3, <3>2, AppendElements, TypedIsTyped DEF ClangdAsks, Typed
  <2>2. clangd' \in ClangdT
    <3>1. clangd \in ClangdT /\ clangd.asked \in Nat
      BY DEF TypeOK
    <3>2. clangd' = [clangd EXCEPT !.asked = clangd.asked + 1,
                                   !.asks = clangd.asks \cup {clangd.asked}]
      BY <1>3 DEF ClangdAsks
    <3>3. clangd.asked + 1 \in Nat /\ clangd.asks \cup {clangd.asked} \in SUBSET Nat
      BY <3>1
    <3> QED
      BY <3>1, <3>2, <3>3
  <2> QED
    BY <1>3, <2>1, <2>2 DEF ClangdAsks, TypeOK, Frame
<1>4. CASE ClangdPublishes
  <2>1. incoming' \in Seq(Frame)
    BY <1>4 DEF ClangdPublishes, Frame, Publish
  <2> QED
    BY <1>4, <2>1 DEF ClangdPublishes, TypeOK, Frame
<1>5. CASE ClangdHangs
  BY <1>5 DEF ClangdHangs, TypeOK
<1>6. CASE ClangdDies
  BY <1>6 DEF ClangdDies, TypeOK
<1> QED
  BY <1>1, <1>2, <1>3, <1>4, <1>5, <1>6 DEF Clangd

\* A response keeps the types of what the callers know.
LEMMA ResolveType ==
    ASSUME TypeOK, NEW id \in Nat, NEW of \in All, Resolve(id, of)
    PROVE  /\ call' \in [All -> {"idle", "waiting", "answered", "gone", "timeout"}]
           /\ got' \in [All -> All]
           /\ DOMAIN pending' \subseteq 1 .. next_id - 1
           /\ pending' \in [DOMAIN pending' -> All]
<1>1. CASE id \in DOMAIN pending
  <2>1. pending[id] \in All
    BY <1>1 DEF TypeOK
  <2>2. pending' = [i \in DOMAIN pending \ {id} |-> pending[i]]
    BY <1>1 DEF Resolve, Without
  <2>3. DOMAIN pending' = DOMAIN pending \ {id} /\ pending' \in [DOMAIN pending' -> All]
    BY <2>2 DEF TypeOK
  <2>4. /\ call' \in [All -> {"idle", "waiting", "answered", "gone", "timeout"}]
        /\ got' \in [All -> All]
    BY <1>1, <2>1 DEF Resolve, TypeOK
  <2> QED
    BY <2>3, <2>4 DEF TypeOK
<1>2. CASE id \notin DOMAIN pending
  BY <1>2 DEF Resolve, TypeOK
<1> QED
  BY <1>1, <1>2

\* The actor's steps keep the types.
LEMMA ActorType ==
    ASSUME TypeOK, OutIsNumbered, Actor
    PROVE  TypeOK'
<1> USE DEF ide
<1>1. CASE Handshake
  <2>1. Head(incoming) \in Frame /\ incoming' \in Seq(Frame)
    BY <1>1, TypedIsTyped, TailElements DEF Handshake, Typed
  <2>2. out' \in Message \cup {Nothing}
    BY <1>1, <2>1, MessageKinds, TypedIsTyped DEF Handshake, Typed, Message, Reply
  <2>3. at' \in {"handshake", "select", "ended"} /\ handle' \in {"none", "held", "leaving", "dropped"}
    BY <1>1 DEF Handshake, TypeOK
  <2> QED
    BY <1>1, <2>1, <2>2, <2>3 DEF Handshake, TypeOK, Message, Frame
<1>2. CASE HandshakeFails
  BY <1>2 DEF HandshakeFails, TypeOK
<1>3. CASE TakeCommand
  <2>1. Head(cmds) \in Cmd /\ cmds' \in Seq(Cmd)
    BY <1>3, TypedIsTyped, TailElements DEF TakeCommand, Typed
  <2>2. next_id \in Nat /\ next_id' \in Nat /\ next_id' >= next_id
    BY <1>3 DEF TakeCommand, TypeOK
  <2>3. out' \in Message
    BY <1>3, <2>1, <2>2, MessageKinds, CommandTypes DEF TakeCommand, Message, Request, Note
  <2>4. DOMAIN pending \subseteq 1 .. next_id' - 1
    BY <2>2 DEF TypeOK
  <2> QED
    BY <1>3, <2>1, <2>2, <2>3, <2>4 DEF TakeCommand, TypeOK, Message
<1>4. CASE TakeKill
  BY <1>4, EndsType DEF TakeKill
<1>5. CASE WriteEnds
  <2>1. out \in Message
    BY <1>5, MessageKinds, TypedIsTyped DEF WriteEnds, Typed
  <2>2. stdin' \in Seq(Message)
    BY <1>5, <2>1, AppendElements, TypedIsTyped DEF WriteEnds, Typed
  <2>3. DOMAIN pending' \subseteq 1 .. next_id - 1 /\ pending' \in [DOMAIN pending' -> All]
    <3>1. CASE out.what = "request"
      <4>1. out.of \in All
        BY <2>1, <3>1, MessageKinds
      <4>2. pending' = [i \in DOMAIN pending \cup {out.id} |->
                          IF i = out.id THEN out.of ELSE pending[i]]
        BY <1>5, <3>1 DEF WriteEnds
      <4> QED
        BY <3>1, <4>1, <4>2 DEF TypeOK, OutIsNumbered
    <3>2. CASE out.what # "request"
      BY <1>5, <3>2 DEF WriteEnds, TypeOK
    <3> QED
      BY <3>1, <3>2
  <2> QED
    BY <1>5, <2>2, <2>3 DEF WriteEnds, TypeOK, Message
<1>6. CASE WriteFails
  <2>1. call' \in [All -> {"idle", "waiting", "answered", "gone", "timeout"}]
    BY <1>6 DEF WriteFails, TypeOK
  <2> QED
    BY <1>6, <2>1 DEF WriteFails, TypeOK
<1>7. CASE Dispatch
  <2>1. Head(incoming) \in Frame /\ incoming' \in Seq(Frame)
    BY <1>7, TypedIsTyped, TailElements DEF Dispatch, Typed
  <2>2. CASE Head(incoming).what = "answer"
    <3>1. Resolve(Head(incoming).id, Head(incoming).of) /\ out' = out
      BY <1>7, <2>2 DEF Dispatch
    <3>2. Head(incoming).id \in Nat /\ Head(incoming).of \in All
      BY <2>1, <2>2, MessageKinds
    <3> QED
      BY <1>7, <2>1, <3>1, <3>2, ResolveType DEF Dispatch, TypeOK, Frame
  <2>3. CASE Head(incoming).what # "answer"
    <3>1. out' \in Message \cup {Nothing}
      BY <1>7, <2>1, <2>3, MessageKinds, TypedIsTyped DEF Dispatch, Typed, Message, Reply
    <3>2. UNCHANGED <<pending, call, got>>
      BY <1>7, <2>3 DEF Dispatch
    <3> QED
      BY <1>7, <2>1, <3>1, <3>2 DEF Dispatch, TypeOK, Message, Frame
  <2> QED
    BY <2>2, <2>3
<1>8. CASE StdoutCloses
  BY <1>8, EndsType DEF StdoutCloses
<1>9. CASE AllDropped
  BY <1>9, EndsType DEF AllDropped
<1> QED
  BY <1>1, <1>2, <1>3, <1>4, <1>5, <1>6, <1>7, <1>8, <1>9 DEF Actor

\* Only TakeCommand starts to write a request, with the number after which the
\* next one comes.
LEMMA OutNumbered ==
    ASSUME TypeOK, OutIsNumbered, Next
    PROVE  OutIsNumbered'
<1>1. Nothing.what # "request"
  BY DEF Nothing
<1>2. CASE UNCHANGED <<out, next_id>>
  BY <1>2 DEF OutIsNumbered
<1>3. CASE out'.what # "request" /\ UNCHANGED next_id
  BY <1>3 DEF OutIsNumbered
<1>4. CASE TakeCommand
  <2>1. next_id \in Nat \ {0}
    BY DEF TypeOK, OutIsNumbered
  <2> QED
    BY <1>4, <2>1 DEF TakeCommand, OutIsNumbered
<1>5. CASE Ide \/ ShutdownGoesOn \/ (\E c \in All : TimeOut(c)) \/ Clangd
  BY <1>2, <1>5 DEF Ide, CallRequest, Notify, DropHandle, Shutdown, ShutdownGoesOn, TimeOut,
     ActorRests, Clangd, ClangdReads, ClangdAnswers, ClangdAsks, ClangdPublishes,
     ClangdHangs, ClangdDies, ClientRests
<1>6. CASE Actor /\ ~TakeCommand
  BY <1>1, <1>2, <1>3, <1>6 DEF Actor, Handshake, HandshakeFails, TakeKill, WriteEnds,
     WriteFails, Dispatch, StdoutCloses, AllDropped, Ends
<1> QED
  BY <1>4, <1>5, <1>6 DEF Next

-----------------------------------------------------------------------------
(* Numbers.                                                                *)

\* A step that brings no numbered message keeps the numbers owned.
LEMMA OwnedQuietly ==
    ASSUME TypeOK, NEW owner \in [Nat -> All], Owned(owner),
           UNCHANGED next_id,
           \A i \in DOMAIN pending' : i \in DOMAIN pending /\ pending'[i] = pending[i],
           out' = out \/ out'.what \notin {"request", "answer"},
           stdin' = stdin, clangd'.todo \subseteq clangd.todo, incoming' = incoming
    PROVE  Owned(owner)'
  BY DEF Owned, Agrees

\* Taking a frame from clangd's stdout takes no number away from its owner.
LEMMA OwnedByReading ==
    ASSUME TypeOK, NEW owner \in [Nat -> All], Owned(owner),
           incoming # <<>>, incoming' = Tail(incoming), UNCHANGED <<next_id, stdin, clangd>>,
           \A i \in DOMAIN pending' : i \in DOMAIN pending /\ pending'[i] = pending[i],
           out' = out \/ out'.what \notin {"request", "answer"}
    PROVE  Owned(owner)'
<1>1. \A k \in DOMAIN incoming' : k + 1 \in DOMAIN incoming /\ incoming'[k] = incoming[k + 1]
  BY TypedIsTyped, TailElements DEF Typed
<1> QED
  BY <1>1 DEF Owned, Agrees

\* A response removes at most what was pending.
LEMMA ResolveRemoves ==
    ASSUME NEW id, NEW of, Resolve(id, of)
    PROVE  \A i \in DOMAIN pending' : i \in DOMAIN pending /\ pending'[i] = pending[i]
  BY DEF Resolve, Without

\* Every number goes on standing for one call.
LEMMA OwnedStep ==
    ASSUME TypeOK, OutIsNumbered, NumbersAreOwned, Next
    PROVE  NumbersAreOwned'
<1> USE DEF ide
<1>1. PICK owner \in [Nat -> All] : Owned(owner)
  BY DEF NumbersAreOwned
<1>2. SUFFICES ASSUME ~TakeCommand PROVE Owned(owner)'
  <2>1. CASE ~TakeCommand
    BY <1>2, <2>1 DEF NumbersAreOwned
  <2>2. CASE TakeCommand
    <3>1. Head(cmds) \in Cmd /\ next_id \in Nat
      BY <2>2, TypedIsTyped, TailElements DEF TakeCommand, Typed
    <3>2. CASE Head(cmds).what = "request"
      <4>1. PICK new \in [Nat -> All] : new = [owner EXCEPT ![next_id] = Head(cmds).of]
        BY <3>1, <3>2, MessageKinds
      <4>2. /\ new[next_id] = Head(cmds).of
            /\ \A i \in Nat : i < next_id => new[i] = owner[i]
        BY <3>1, <4>1
      <4>3. out' = [what |-> "request", id |-> next_id, of |-> Head(cmds).of]
            /\ next_id' = next_id + 1
            /\ UNCHANGED <<pending, stdin, incoming, clangd>>
        BY <2>2, <3>2 DEF TakeCommand
      <4>4. \A i \in DOMAIN pending : pending[i] = new[i]
        BY <1>1, <3>1, <4>2 DEF Owned, TypeOK
      <4>5. ASSUME NEW msg, msg.what \in {"request", "answer"} => msg.id \in Nat,
                   Agrees(msg, owner)
            PROVE  msg.what \in {"request", "answer"} =>
                        msg.of = new[msg.id] /\ msg.id < next_id'
        BY <3>1, <4>2, <4>3, <4>5 DEF Agrees
      <4>6. \A k \in DOMAIN stdin : stdin[k] \in Message
        BY TypedIsTyped DEF Typed
      <4>7. \A k \in DOMAIN incoming : incoming[k] \in Frame
        BY TypedIsTyped DEF Typed
      <4>8. \A msg \in clangd.todo : msg \in Message
        BY DEF TypeOK, Message
      <4>9. /\ \A k \in DOMAIN stdin : Agrees(stdin[k], new)'
            /\ \A msg \in clangd.todo : Agrees(msg, new)'
            /\ \A k \in DOMAIN incoming : Agrees(incoming[k], new)'
        BY <1>1, <4>3, <4>5, <4>6, <4>7, <4>8, MessageKinds DEF Owned, Agrees
      <4>10. Agrees(out, new)'
        BY <3>1, <4>2, <4>3 DEF Agrees
      <4> QED
        BY <4>1, <4>3, <4>4, <4>9, <4>10 DEF NumbersAreOwned, Owned
    <3>3. CASE Head(cmds).what # "request"
      <4>1. out' = [what |-> "note"] /\ UNCHANGED <<pending, next_id, stdin, incoming, clangd>>
        BY <2>2, <3>3 DEF TakeCommand
      <4>2. Owned(owner)'
        BY <1>1, <4>1, OwnedQuietly
      <4> QED
        BY <4>2 DEF NumbersAreOwned
    <3> QED
      BY <3>2, <3>3
  <2> QED
    BY <2>1, <2>2
<1>3. CASE Ide \/ ShutdownGoesOn \/ (\E c \in All : TimeOut(c))
  <2>1. ActorRests
    BY <1>3 DEF Ide, CallRequest, Notify, DropHandle, Shutdown, ShutdownGoesOn, TimeOut
  <2> QED
    BY <1>1, <2>1, OwnedQuietly DEF ActorRests
<1>4. CASE Handshake
  BY <1>1, <1>4, OwnedByReading DEF Handshake
<1>5. CASE HandshakeFails \/ WriteFails
  <2>1. clangd'.todo = clangd.todo
    BY <1>5 DEF HandshakeFails, WriteFails, TypeOK
  <2>2. out' = out \/ out'.what \notin {"request", "answer"}
    BY <1>5 DEF HandshakeFails, WriteFails, Nothing
  <2>3. UNCHANGED <<next_id, pending, stdin, incoming>>
    BY <1>5 DEF HandshakeFails, WriteFails
  <2> QED
    BY <1>1, <2>1, <2>2, <2>3, OwnedQuietly
<1>6. CASE TakeKill \/ StdoutCloses \/ AllDropped
  <2>1. PICK n \in {0, 1} : Ends(n)
    BY <1>6 DEF TakeKill, StdoutCloses, AllDropped
  <2>2. DOMAIN pending' = {}
    BY <2>1 DEF Ends
  <2>3. clangd'.todo = clangd.todo
    BY <2>1 DEF Ends, TypeOK
  <2> QED
    BY <1>1, <2>1, <2>2, <2>3, OwnedQuietly DEF Ends
<1>7. CASE WriteEnds
  <2>1. out \in Message /\ (out.what = "request" => out.id \in Nat)
    BY <1>7, MessageKinds, TypedIsTyped DEF WriteEnds, Typed
  <2>2. \A k \in DOMAIN stdin' : stdin'[k] = out \/ (k \in DOMAIN stdin /\ stdin'[k] = stdin[k])
    BY <1>7, <2>1, AppendElements, TypedIsTyped DEF WriteEnds, Typed
  <2>3. \A i \in DOMAIN pending' : pending'[i] = owner[i]
    BY <1>1, <1>7 DEF WriteEnds, Owned, Agrees
  <2>4. UNCHANGED <<next_id, incoming, clangd>> /\ out' = Nothing
    BY <1>7 DEF WriteEnds
  <2> QED
    BY <1>1, <2>2, <2>3, <2>4 DEF Owned, Agrees, Nothing
<1>8. CASE Dispatch
  <2>1. \A i \in DOMAIN pending' : i \in DOMAIN pending /\ pending'[i] = pending[i]
    BY <1>8, ResolveRemoves DEF Dispatch
  <2>2. out' = out \/ out'.what \notin {"request", "answer"}
    BY <1>8 DEF Dispatch
  <2> QED
    BY <1>1, <1>8, <2>1, <2>2, OwnedByReading DEF Dispatch
<1>9. CASE ClangdReads
  <2>1. Head(stdin) = stdin[1] /\ 1 \in DOMAIN stdin
        /\ \A k \in DOMAIN stdin' : k + 1 \in DOMAIN stdin /\ stdin'[k] = stdin[k + 1]
    BY <1>9, TypedIsTyped, TailElements DEF ClangdReads, Typed
  <2>2. \A msg \in clangd'.todo : msg \in clangd.todo \/ msg = stdin[1]
    BY <1>9, <2>1 DEF ClangdReads, TypeOK
  <2>3. UNCHANGED <<next_id, pending, out, incoming>>
    BY <1>9 DEF ClangdReads, ClientRests
  <2> QED
    BY <1>1, <2>1, <2>2, <2>3 DEF Owned, Agrees
<1>10. CASE ClangdAnswers
  <2>1. PICK msg \in clangd.todo :
          /\ clangd' = [clangd EXCEPT !.todo = @ \ {msg}]
          /\ incoming' = Append(incoming, [what |-> "answer", id |-> msg.id, of |-> msg.of])
    BY <1>10 DEF ClangdAnswers
  <2> DEFINE answer == [what |-> "answer", id |-> msg.id, of |-> msg.of]
  <2>2. msg.what = "request" /\ answer \in Frame
    BY <2>1, CommandTypes DEF TypeOK, Request
  <2>3. \A k \in DOMAIN incoming' :
          incoming'[k] = answer \/ (k \in DOMAIN incoming /\ incoming'[k] = incoming[k])
    BY <2>1, <2>2, AppendElements, TypedIsTyped DEF Typed
  <2>4. Agrees(answer, owner)
    BY <1>1, <2>2 DEF Owned, Agrees
  <2>5. clangd'.todo \subseteq clangd.todo
    BY <2>1 DEF TypeOK
  <2>6. UNCHANGED <<next_id, pending, out, stdin>>
    BY <1>10 DEF ClangdAnswers, ClientRests
  <2> HIDE DEF answer
  <2> QED
    BY <1>1, <2>3, <2>4, <2>5, <2>6 DEF Owned, Agrees
<1>11. CASE ClangdAsks
  <2> DEFINE ask == [what |-> "ask", id |-> clangd.asked]
  <2>1. ask \in Frame /\ ask.what = "ask"
    BY DEF TypeOK, Frame, AskMsg
  <2>2. \A k \in DOMAIN incoming' :
          incoming'[k] = ask \/ (k \in DOMAIN incoming /\ incoming'[k] = incoming[k])
    BY <1>11, <2>1, AppendElements, TypedIsTyped DEF ClangdAsks, Typed
  <2>3. clangd'.todo = clangd.todo
    BY <1>11 DEF ClangdAsks, TypeOK
  <2>4. UNCHANGED <<next_id, pending, out, stdin>>
    BY <1>11 DEF ClangdAsks, ClientRests
  <2> HIDE DEF ask
  <2> QED
    BY <1>1, <2>1, <2>2, <2>3, <2>4 DEF Owned, Agrees
<1>12. CASE ClangdPublishes
  BY <1>1, <1>12 DEF ClangdPublishes, ClientRests, Owned, Agrees
<1>13. CASE ClangdHangs \/ ClangdDies
  <2>1. clangd'.todo = clangd.todo
    BY <1>13 DEF ClangdHangs, ClangdDies, TypeOK
  <2> QED
    BY <1>1, <1>13, <2>1, OwnedQuietly DEF ClangdHangs, ClangdDies, ClientRests
<1> QED
  BY <1>2, <1>3, <1>4, <1>5, <1>6, <1>7, <1>8, <1>9, <1>10, <1>11, <1>12, <1>13
     DEF Next, Actor, Clangd

-----------------------------------------------------------------------------
(* Calls that wait.                                                        *)

\* A call that is queued stays queued when something else is sent.
LEMMA QueuedStays ==
    ASSUME Typed, NEW new \in Seq(Cmd), Send(new) \/ UNCHANGED cmds
    PROVE  \A c \in All : Queued(c) => Queued(c)'
<1>1. CASE UNCHANGED cmds
  BY <1>1 DEF Queued
<1>2. CASE Send(new)
  <2>1. \A k \in DOMAIN cmds : k \in DOMAIN cmds' /\ cmds'[k] = cmds[k]
    BY <1>2, ConcatElements DEF Send, Typed
  <2> QED
    BY <2>1 DEF Queued
<1> QED
  BY <1>1, <1>2

\* A call waits in the queue, or is refused at once.
LEMMA CallingWaits ==
    ASSUME TypeOK, WaitingIsSomewhere, NEW c \in All, Calling(c), UNCHANGED <<out, pending>>
    PROVE  WaitingIsSomewhere'
<1> DEFINE new == <<[what |-> "request", of |-> c]>>
<1>1. new \in Seq(Cmd) /\ Len(new) = 1
  BY CommandTypes
<1>2. \A b \in All : Queued(b) => Queued(b)'
  BY <1>1, QueuedStays, TypedIsTyped DEF Calling
<1>3. \A b \in All \ {c} : call'[b] = call[b]
  BY DEF Calling, TypeOK
<1>4. call'[c] = "waiting" => Queued(c)'
  <2>1. CASE at = "ended"
    BY <2>1 DEF Calling, TypeOK
  <2>2. CASE at # "ended"
    <3>1. cmds' = cmds \o new
      BY <2>2 DEF Calling, Send
    <3>2. \A k \in DOMAIN new : Len(cmds) + k \in DOMAIN cmds' /\ cmds'[Len(cmds) + k] = new[k]
      BY <1>1, <3>1, ConcatElements, TypedIsTyped DEF Typed
    <3>3. Len(cmds) + 1 \in DOMAIN cmds' /\ cmds'[Len(cmds) + 1] = [what |-> "request", of |-> c]
      BY <1>1, <3>2
    <3> QED
      BY <3>3 DEF Queued
  <2> QED
    BY <2>1, <2>2
<1> QED
  BY <1>2, <1>3, <1>4 DEF WaitingIsSomewhere, Written, Pending

\* The end of the session leaves no call waiting.
LEMMA EndsEveryCall ==
    ASSUME TypeOK, WaitingIsSomewhere, out = Nothing, NEW n \in {0, 1}, Ends(n)
    PROVE  /\ \A c \in All : call'[c] # "waiting"
           /\ call' = [c \in All |-> IF call[c] = "waiting" THEN "gone" ELSE call[c]]
<1>1. \A c \in All : call[c] = "waiting" => Queued(c) \/ Pending(c)
  BY DEF WaitingIsSomewhere, Written, Nothing
<1>2. call' = [c \in All |-> IF call[c] = "waiting" /\ (Pending(c) \/ Queued(c))
                            THEN "gone" ELSE call[c]]
  BY DEF Ends, Pending, Queued
<1> QED
  BY <1>1, <1>2

\* A step that neither lets a call wait nor takes it from where it is.
LEMMA WaitsQuietly ==
    ASSUME WaitingIsSomewhere,
           \A c \in All : call'[c] = "waiting" => call[c] = "waiting",
           UNCHANGED <<cmds, out, pending>>
    PROVE  WaitingIsSomewhere'
  BY DEF WaitingIsSomewhere, Queued, Written, Pending

\* A call that waits goes from the queue to the pipe and to the map, and leaves
\* the map when it is answered.
LEMMA WaitingStep ==
    ASSUME TypeOK, OutIsNumbered, NumbersAreOwned, WaitingIsSomewhere, Stages, Next
    PROVE  WaitingIsSomewhere'
<1> USE DEF ide
<1>1. CASE (\E c \in Calls : CallRequest(c)) \/ Shutdown
  <2>1. PICK c \in All : Calling(c) /\ UNCHANGED <<out, pending>>
    BY <1>1 DEF CallRequest, Shutdown, ActorRests, All
  <2> QED
    BY <2>1, CallingWaits
<1>2. CASE Notify \/ ShutdownGoesOn
  <2>1. <<[what |-> "note"]>> \in Seq(Cmd) /\ <<[what |-> "note"], [what |-> "kill"]>> \in Seq(Cmd)
    BY DEF Cmd
  <2>2. UNCHANGED cmds \/ Send(<<[what |-> "note"]>>)
        \/ Send(<<[what |-> "note"], [what |-> "kill"]>>)
    BY <1>2 DEF Notify, ShutdownGoesOn
  <2>3. \A c \in All : Queued(c) => Queued(c)'
    BY <2>1, <2>2, QueuedStays, TypedIsTyped
  <2>4. UNCHANGED <<call, out, pending>>
    BY <1>2 DEF Notify, ShutdownGoesOn, ActorRests
  <2> QED
    BY <2>3, <2>4 DEF WaitingIsSomewhere, Written, Pending
<1>3. CASE DropHandle \/ (\E c \in All : TimeOut(c)) \/ HandshakeFails \/ Clangd
  <2>1. \A c \in All : call'[c] = "waiting" => call[c] = "waiting"
    BY <1>3 DEF DropHandle, TimeOut, HandshakeFails, Clangd, ClangdReads, ClangdAnswers,
       ClangdAsks, ClangdPublishes, ClangdHangs, ClangdDies, ClientRests, TypeOK
  <2>2. UNCHANGED <<cmds, out, pending>>
    BY <1>3 DEF DropHandle, TimeOut, HandshakeFails, Clangd, ClangdReads, ClangdAnswers,
       ClangdAsks, ClangdPublishes, ClangdHangs, ClangdDies, ClientRests, ActorRests
  <2> QED
    BY <2>1, <2>2, WaitsQuietly
<1>4. CASE Handshake
  BY <1>4 DEF Handshake, Stages, WaitingIsSomewhere
<1>5. CASE TakeCommand
  <2>1. /\ Head(cmds) = cmds[1]
        /\ \A k \in DOMAIN cmds : k = 1 \/ (k - 1 \in DOMAIN cmds' /\ cmds'[k - 1] = cmds[k])
    BY <1>5, TypedIsTyped, TailElements DEF TakeCommand, Typed
  <2>2. ASSUME NEW c \in All, Queued(c) PROVE Queued(c)' \/ Written(c)'
    <3>1. PICK k \in DOMAIN cmds : cmds[k].what = "request" /\ cmds[k].of = c
      BY <2>2 DEF Queued
    <3>2. CASE k = 1
      BY <1>5, <2>1, <3>1, <3>2 DEF TakeCommand, Written
    <3>3. CASE k # 1
      BY <2>1, <3>1, <3>3 DEF Queued
    <3> QED
      BY <3>2, <3>3
  <2>3. \A c \in All : ~Written(c)
    BY <1>5 DEF TakeCommand, Written, Nothing
  <2>4. UNCHANGED <<call, pending>>
    BY <1>5 DEF TakeCommand
  <2> QED
    BY <2>2, <2>3, <2>4 DEF WaitingIsSomewhere, Pending
<1>6. CASE TakeKill \/ StdoutCloses \/ AllDropped
  <2>1. PICK n \in {0, 1} : Ends(n) /\ out = Nothing
    BY <1>6 DEF TakeKill, StdoutCloses, AllDropped, Listens
  <2> QED
    BY <2>1, EndsEveryCall DEF WaitingIsSomewhere
<1>7. CASE WriteEnds
  <2>1. PICK owner \in [Nat -> All] : Owned(owner)
    BY DEF NumbersAreOwned
  <2>2. ASSUME NEW c \in All, Pending(c) PROVE Pending(c)'
    <3>1. PICK i \in DOMAIN pending : pending[i] = c
      BY <2>2 DEF Pending
    <3>2. i \in DOMAIN pending' /\ pending'[i] = c
      BY <1>7, <2>1, <3>1 DEF WriteEnds, Owned, Agrees
    <3> QED
      BY <3>2 DEF Pending
  <2>3. ASSUME NEW c \in All, Written(c) PROVE Pending(c)'
    <3>1. out.id \in DOMAIN pending' /\ pending'[out.id] = c
      BY <1>7, <2>3 DEF WriteEnds, Written
    <3> QED
      BY <3>1 DEF Pending
  <2>4. UNCHANGED <<call, cmds>>
    BY <1>7 DEF WriteEnds
  <2> QED
    BY <2>2, <2>3, <2>4 DEF WaitingIsSomewhere, Queued
<1>8. CASE WriteFails
  <2>1. \A c \in All : call'[c] = "waiting" => call[c] = "waiting" /\ ~Written(c)
    BY <1>8 DEF WriteFails, Written, TypeOK
  <2>2. UNCHANGED <<cmds, pending>>
    BY <1>8 DEF WriteFails
  <2> QED
    BY <2>1, <2>2 DEF WaitingIsSomewhere, Queued, Pending
<1>9. CASE Dispatch
  <2>1. UNCHANGED cmds /\ \A c \in All : ~Written(c)
    BY <1>9 DEF Dispatch, Listens, Written, Nothing
  <2>2. ASSUME NEW id, NEW of, Resolve(id, of), NEW c \in All, call'[c] = "waiting", Pending(c)
        PROVE  Pending(c)'
    <3>1. PICK i \in DOMAIN pending : pending[i] = c
      BY <2>2 DEF Pending
    <3>2. CASE i # id \/ id \notin DOMAIN pending
      BY <2>2, <3>1, <3>2 DEF Resolve, Without, Pending
    <3>3. CASE i = id /\ id \in DOMAIN pending
      BY <2>2, <3>1, <3>3 DEF Resolve, TypeOK
    <3> QED
      BY <3>1, <3>2, <3>3
  <2>3. ASSUME NEW id, NEW of, Resolve(id, of), NEW c \in All, call'[c] = "waiting"
        PROVE  call[c] = "waiting"
    BY <2>3 DEF Resolve, TypeOK
  <2>4. UNCHANGED <<pending, call>> \/ Resolve(Head(incoming).id, Head(incoming).of)
    BY <1>9 DEF Dispatch
  <2> QED
    BY <2>1, <2>2, <2>3, <2>4 DEF WaitingIsSomewhere, Queued, Pending
<1> QED
  BY <1>1, <1>2, <1>3, <1>4, <1>5, <1>6, <1>7, <1>8, <1>9 DEF Next, Ide, Actor

\* The stages of a session.
LEMMA StagesStep ==
    ASSUME TypeOK, Stages, Next
    PROVE  Stages'
<1> USE DEF ide
<1>1. at' = "handshake" => handle' = "none" /\ \A c \in All : call'[c] = "idle"
  BY DEF Stages, TypeOK, Next, Ide, CallRequest, Notify, DropHandle, Shutdown, ShutdownGoesOn,
     TimeOut, ActorRests, Actor, Handshake, HandshakeFails, TakeCommand, TakeKill, WriteEnds,
     WriteFails, Dispatch, StdoutCloses, AllDropped, Listens, Ends, Clangd, ClangdReads,
     ClangdAnswers, ClangdAsks, ClangdPublishes, ClangdHangs, ClangdDies, ClientRests
<1>2. at' = "ended" => out' = Nothing
  BY DEF Stages, TypeOK, Next, Ide, CallRequest, Notify, DropHandle, Shutdown, ShutdownGoesOn,
     TimeOut, ActorRests, Actor, Handshake, HandshakeFails, TakeCommand, TakeKill, WriteEnds,
     WriteFails, Dispatch, StdoutCloses, AllDropped, Listens, Ends, Clangd, ClangdReads,
     ClangdAnswers, ClangdAsks, ClangdPublishes, ClangdHangs, ClangdDies, ClientRests
<1>3. handle' \in {"none", "held"} => call'[Bye] = "idle"
  <2>1. Bye \in All /\ Bye \notin Calls
    BY ByeIsNoCall DEF All
  <2>2. CASE Ide \/ ShutdownGoesOn \/ (\E c \in All : TimeOut(c))
    BY <2>1, <2>2 DEF Stages, TypeOK, Ide, CallRequest, Calling, Notify, DropHandle, Shutdown,
       ShutdownGoesOn, TimeOut, ActorRests
  <2>3. CASE Actor
    <3>1. handle' \in {"none", "held"} => call[Bye] = "idle"
      BY <2>1, <2>3 DEF Stages, Actor, Handshake, HandshakeFails, TakeCommand, TakeKill,
         WriteEnds, WriteFails, Dispatch, StdoutCloses, AllDropped, Ends
    <3>2. call[Bye] = "idle" => call'[Bye] = "idle"
      BY <2>1, <2>3 DEF TypeOK, Actor, Handshake, HandshakeFails, TakeCommand, TakeKill,
         WriteEnds, WriteFails, Dispatch, Resolve, StdoutCloses, AllDropped, Ends
    <3> QED
      BY <3>1, <3>2
  <2>4. CASE Clangd
    BY <2>4 DEF Stages, Clangd, ClangdReads, ClangdAnswers, ClangdAsks, ClangdPublishes,
       ClangdHangs, ClangdDies, ClientRests
  <2> QED
    BY <2>2, <2>3, <2>4 DEF Next
<1> QED
  BY <1>1, <1>2, <1>3 DEF Stages

-----------------------------------------------------------------------------
(* Answers.                                                                *)

\* A response that is taken from clangd's stdout goes to the call it answers:
\* both are the call that the number stands for.
LEMMA RightAnswer ==
    ASSUME TypeOK, NumbersAreOwned, Dispatch, Head(incoming).what = "answer",
           Head(incoming).id \in DOMAIN pending
    PROVE  pending[Head(incoming).id] = Head(incoming).of
<1>1. PICK owner \in [Nat -> All] : Owned(owner)
  BY DEF NumbersAreOwned
<1>2. 1 \in DOMAIN incoming /\ Head(incoming) = incoming[1]
  BY TypedIsTyped, TailElements DEF Dispatch, Typed
<1> QED
  BY <1>1, <1>2 DEF Owned, Agrees

\* What a step of Dispatch does to the calls.
LEMMA DispatchAnswers ==
    ASSUME TypeOK, NumbersAreOwned, AnswersAreRight, Dispatch
    PROVE  \/ UNCHANGED <<call, got>>
           \/ \E c \in All : /\ call[c] = "waiting"
                             /\ call' = [call EXCEPT ![c] = "answered"]
                             /\ got' = got
<1>1. CASE Head(incoming).what = "answer" /\ Head(incoming).id \in DOMAIN pending
  <2> DEFINE c == pending[Head(incoming).id]
  <2>1. Resolve(Head(incoming).id, Head(incoming).of) /\ c = Head(incoming).of /\ c \in All
    BY <1>1, RightAnswer DEF Dispatch, TypeOK
  <2>2. CASE call[c] # "waiting"
    BY <1>1, <2>1, <2>2 DEF Resolve
  <2>3. CASE call[c] = "waiting"
    <3>1. call' = [call EXCEPT ![c] = "answered"] /\ got' = [got EXCEPT ![c] = c]
      BY <1>1, <2>1, <2>3 DEF Resolve
    <3>2. got' = got
      BY <2>1, <3>1 DEF AnswersAreRight, TypeOK
    <3> QED
      BY <2>1, <2>3, <3>1, <3>2
  <2> QED
    BY <2>2, <2>3
<1>2. CASE Head(incoming).what = "answer" /\ Head(incoming).id \notin DOMAIN pending
  BY <1>2 DEF Dispatch, Resolve
<1>3. CASE Head(incoming).what # "answer"
  BY <1>3 DEF Dispatch
<1> QED
  BY <1>1, <1>2, <1>3

LEMMA AnswersStep ==
    ASSUME TypeOK, NumbersAreOwned, AnswersAreRight, Next
    PROVE  AnswersAreRight'
<1> USE DEF ide
<1>1. CASE Dispatch
  BY <1>1, DispatchAnswers DEF AnswersAreRight
<1>2. CASE ~Dispatch
  <2>1. UNCHANGED got
    BY <1>2 DEF Next, Ide, CallRequest, Notify, DropHandle, Shutdown, ShutdownGoesOn, TimeOut,
       ActorRests, Actor, Handshake, HandshakeFails, TakeCommand, TakeKill, WriteEnds, WriteFails,
       StdoutCloses, AllDropped, Ends, Clangd, ClangdReads, ClangdAnswers, ClangdAsks,
       ClangdPublishes, ClangdHangs, ClangdDies, ClientRests
  <2> QED
    BY <2>1 DEF AnswersAreRight
<1> QED
  BY <1>1, <1>2

-----------------------------------------------------------------------------
(* The invariant and the promise.                                          *)

LEMMA InitIInv == Init => IInv
<1> SUFFICES ASSUME Init PROVE IInv
  OBVIOUS
<1>1. Bye \in All
  BY DEF All
<1>2. TypeOK
  <2>1. stdin \in Seq(Message)
    BY <1>1 DEF Init, Message, Request
  <2>2. DOMAIN pending \subseteq 1 .. next_id - 1 /\ pending \in [DOMAIN pending -> All]
    BY DEF Init
  <2>3. clangd \in [alive : BOOLEAN, hung : BOOLEAN, todo : SUBSET Request,
                    asks : SUBSET Nat, asked : Nat]
    BY DEF Init
  <2> QED
    BY <2>1, <2>2, <2>3, BoundsAreNat DEF Init, TypeOK, Message
<1>3. OutIsNumbered /\ WaitingIsSomewhere /\ Stages /\ AnswersAreRight
  BY <1>1 DEF Init, OutIsNumbered, WaitingIsSomewhere, Stages, AnswersAreRight, Nothing
<1>4. NumbersAreOwned
  <2>1. PICK owner \in [Nat -> All] : owner = [i \in Nat |-> Bye]
    BY <1>1
  <2>2. Owned(owner)
    BY <2>1 DEF Init, Owned, Agrees, Nothing
  <2> QED
    BY <2>2 DEF NumbersAreOwned
<1> QED
  BY <1>2, <1>3, <1>4 DEF IInv

LEMMA NextIInv == IInv /\ [Next]_vars => IInv'
<1> SUFFICES ASSUME IInv, [Next]_vars PROVE IInv'
  OBVIOUS
<1>1. CASE Next
  <2>1. TypeOK'
    BY <1>1, IdeType, ClangdType, ActorType, BoundsAreNat DEF IInv, Next
  <2> QED
    BY <1>1, <2>1, OutNumbered, OwnedStep, WaitingStep, StagesStep, AnswersStep DEF IInv
<1>2. CASE UNCHANGED vars
  <2> USE <1>2 DEF vars, ide
  <2>1. TypeOK'
    BY DEF IInv, TypeOK
  <2>2. NumbersAreOwned'
    BY DEF IInv, NumbersAreOwned, Owned, Agrees
  <2>3. WaitingIsSomewhere'
    BY DEF IInv, WaitingIsSomewhere, Queued, Written, Pending
  <2>4. OutIsNumbered' /\ Stages' /\ AnswersAreRight'
    BY DEF IInv, OutIsNumbered, Stages, AnswersAreRight
  <2> QED
    BY <2>1, <2>2, <2>3, <2>4 DEF IInv
<1> QED
  BY <1>1, <1>2

LEMMA Invariance == Spec => []IInv
  BY InitIInv, NextIInv, PTL DEF Spec

\* Every request has a number that was given out, every message is one that its
\* reader knows, and a bound is a bound: the types of TypeOK, from the handshake to
\* the end of one session (initialize, Actor::run, on_incoming).
THEOREM TypeCorrect == Spec => []TypeOK
<1>1. IInv => TypeOK
  BY DEF IInv
<1> QED
  BY <1>1, Invariance, PTL

\* What a caller sees, and the promise about it.
Seen == [c \in All |-> IF call[c] = "answered" /\ got[c] # c
                      THEN "answer of another" ELSE call[c]]

LEMMA SeenIsCall == IInv => Seen = call
<1> SUFFICES ASSUME IInv PROVE Seen = call
  OBVIOUS
<1>1. call = [c \in All |-> call[c]]
  BY DEF IInv, TypeOK
<1>2. \A c \in All : got[c] = c
  BY DEF IInv, AnswersAreRight
<1>3. Seen = [c \in All |-> call[c]]
  BY <1>2 DEF Seen
<1> QED
  BY <1>1, <1>3

\* A step of the session is a step of the promise, or changes nothing that a
\* caller sees.
LEMMA StepKeepsPromise == IInv /\ IInv' /\ [Next]_vars => [Promise!Next]_Promise!vars
<1> SUFFICES ASSUME IInv, IInv', [Next]_vars PROVE [Promise!Next]_Promise!vars
  OBVIOUS
<1> USE DEF ide
<1>1. Seen = call /\ Seen' = call'
  <2>1. Seen = call
    BY SeenIsCall
  <2>2. (Seen = call)'
    BY SeenIsCall, PTL
  <2> QED
    BY <2>1, <2>2
<1> DEFINE Quiet == call' = call /\ (at' # "ended" <=> at # "ended")
<1>2. CASE (\E c \in Calls : CallRequest(c)) \/ Shutdown
  <2>1. PICK c \in All : call[c] = "idle" /\ Calling(c) /\ UNCHANGED at
    BY <1>2 DEF IInv, Stages, CallRequest, Shutdown, ActorRests, All
  <2>2. Promise!Ask(c)
    BY <1>1, <2>1 DEF Promise!Ask, Calling, Seen
  <2> QED
    BY <2>1, <2>2 DEF Promise!Next
<1>3. CASE \E c \in All : TimeOut(c)
  <2>1. PICK c \in All : TimeOut(c)
    BY <1>3
  <2>2. Promise!TimeOut(c)
    BY <1>1, <2>1 DEF Promise!TimeOut, TimeOut, ActorRests, Seen
  <2> QED
    BY <2>1, <2>2 DEF Promise!Next
<1>4. CASE Notify \/ DropHandle \/ ShutdownGoesOn \/ Handshake \/ TakeCommand \/ WriteEnds \/ Clangd
           \/ UNCHANGED vars
  <2>1. Quiet
    BY <1>4 DEF vars, Notify, DropHandle, ShutdownGoesOn, ActorRests, Handshake, TakeCommand, WriteEnds,
       Clangd, ClangdReads, ClangdAnswers, ClangdAsks, ClangdPublishes, ClangdHangs, ClangdDies,
       ClientRests
  <2> QED
    BY <1>1, <2>1 DEF Promise!vars, Seen
<1>5. CASE HandshakeFails
  <2>1. \A c \in All : call[c] = "idle"
    BY <1>5 DEF IInv, Stages, HandshakeFails
  <2>2. call' = [c \in All |-> IF call[c] = "waiting" THEN "gone" ELSE call[c]]
    BY <1>5, <2>1 DEF HandshakeFails, IInv, TypeOK
  <2>3. Promise!End
    BY <1>1, <1>5, <2>2 DEF Promise!End, HandshakeFails, Seen
  <2> QED
    BY <2>3 DEF Promise!Next
<1>6. CASE TakeKill \/ StdoutCloses \/ AllDropped
  <2>1. PICK n \in {0, 1} : Ends(n) /\ out = Nothing /\ at = "select"
    BY <1>6 DEF TakeKill, StdoutCloses, AllDropped, Listens
  <2>2. call' = [c \in All |-> IF call[c] = "waiting" THEN "gone" ELSE call[c]]
    BY <2>1, EndsEveryCall DEF IInv
  <2>3. Promise!End
    BY <1>1, <2>1, <2>2 DEF Promise!End, Ends, Seen
  <2> QED
    BY <2>3 DEF Promise!Next
<1>7. CASE WriteFails
  <2>1. at # "ended" /\ UNCHANGED at
    BY <1>7 DEF WriteFails, IInv, Stages
  <2>2. CASE out.what = "request" /\ call[out.of] = "waiting"
    <3>1. out.of \in All
      BY <1>7, <2>2, TypedIsTyped, MessageKinds DEF IInv, Typed
    <3>2. PICK c \in All : c = out.of
      BY <3>1
    <3>3. Promise!Refuse(c)
      BY <1>1, <1>7, <2>1, <2>2, <3>2 DEF Promise!Refuse, WriteFails, Seen
    <3> QED
      BY <3>3 DEF Promise!Next
  <2>3. CASE ~(out.what = "request" /\ call[out.of] = "waiting")
    <3>1. Quiet
      BY <1>7, <2>3 DEF WriteFails
    <3> QED
      BY <1>1, <3>1 DEF Promise!vars, Seen
  <2> QED
    BY <2>2, <2>3
<1>8. CASE Dispatch
  <2>1. at = "select" /\ UNCHANGED at
    BY <1>8 DEF Dispatch, Listens
  <2>2. CASE UNCHANGED call
    BY <1>1, <2>1, <2>2 DEF Promise!vars, Seen
  <2>3. CASE \E c \in All : call[c] = "waiting" /\ call' = [call EXCEPT ![c] = "answered"]
    <3>1. PICK c \in All : call[c] = "waiting" /\ call' = [call EXCEPT ![c] = "answered"]
      BY <2>3
    <3>2. Promise!Answer(c)
      BY <1>1, <2>1, <3>1 DEF Promise!Answer, Seen
    <3> QED
      BY <3>2, Zenon DEF Promise!Next
  <2> QED
    BY <1>8, <2>2, <2>3, DispatchAnswers DEF IInv
<1> QED
  BY <1>2, <1>3, <1>4, <1>5, <1>6, <1>7, <1>8 DEF Next, Ide, Actor

\* For any number of calls, numbers that overlap with those of clangd, answers
\* too late and ends of clangd at any point: a call ends once, an answer is the
\* one to this call, and the end of the session ends every call (LspHandle::request,
\* Actor::run, on_incoming).
THEOREM PromiseKept == Spec => KeepsPromise
<1>1. Init => Promise!Init
  <2>1. SUFFICES ASSUME Init PROVE Promise!Init
    OBVIOUS
  <2>2. Seen = call
    BY <2>1, InitIInv, SeenIsCall
  <2> QED
    BY <2>1, <2>2 DEF Init, Promise!Init, Seen
<1> QED
  BY <1>1, Invariance, StepKeepsPromise, PTL DEF Spec, KeepsPromise, Promise!Spec


-----------------------------------------------------------------------------
(* The requests of clangd.                                                 *)

Places(s, m) == {k \in DOMAIN s : s[k] = m}
AskOf(i) == [what |-> "ask", id |-> i]
ReplyOf(i) == [what |-> "reply", id |-> i]

One(S) == \E k : S = {k}

\* Request i, or its reply, is in one place, or in none.
Coming(i) ==
    \/ One(Places(incoming, AskOf(i))) /\ Places(stdin, ReplyOf(i)) = {} /\ out # ReplyOf(i)
    \/ Places(incoming, AskOf(i)) = {} /\ One(Places(stdin, ReplyOf(i))) /\ out # ReplyOf(i)
    \/ Places(incoming, AskOf(i)) = {} /\ Places(stdin, ReplyOf(i)) = {} /\ out = ReplyOf(i)

Nowhere(i) ==
    Places(incoming, AskOf(i)) = {} /\ Places(stdin, ReplyOf(i)) = {} /\ out # ReplyOf(i)

Accounted(i) == IF i \in clangd.asks THEN Coming(i) ELSE Nowhere(i)

\* Requests that clangd waits for are on their way, and no other is.
RepliesCome ==
    at # "ended" /\ clangd.alive =>
        /\ \A i \in clangd.asks : i < clangd.asked
        /\ \A i \in Nat : Accounted(i)

LEMMA TailPlaces ==
    ASSUME NEW S, NEW s \in Seq(S), s # <<>>, NEW m
    PROVE  /\ Head(s) = m => /\ Places(s, m) # {}
                             /\ One(Places(s, m)) => Places(Tail(s), m) = {}
           /\ Head(s) # m => /\ Places(s, m) = {} => Places(Tail(s), m) = {}
                             /\ One(Places(s, m)) => One(Places(Tail(s), m))
<1>1. /\ 1 \in DOMAIN s /\ Head(s) = s[1]
      /\ \A k \in DOMAIN Tail(s) : k + 1 \in DOMAIN s /\ Tail(s)[k] = s[k + 1]
      /\ \A k \in DOMAIN s : k = 1 \/ (k - 1 \in DOMAIN Tail(s) /\ Tail(s)[k - 1] = s[k])
  BY TailElements
<1>2. DOMAIN s \subseteq Nat /\ DOMAIN Tail(s) \subseteq Nat /\ 0 \notin DOMAIN Tail(s)
  OBVIOUS
<1>3. ASSUME Head(s) = m
      PROVE  Places(s, m) # {} /\ (One(Places(s, m)) => Places(Tail(s), m) = {})
  <2>1. 1 \in Places(s, m)
    BY <1>1, <1>3 DEF Places
  <2>2. ASSUME One(Places(s, m)), NEW k \in Places(Tail(s), m) PROVE FALSE
    <3>1. k \in Nat /\ k # 0 /\ k + 1 \in Places(s, m)
      BY <1>1, <1>2, <2>2 DEF Places
    <3>2. k + 1 = 1
      BY <2>1, <2>2, <3>1 DEF One
    <3> QED
      BY <3>1, <3>2
  <2> QED
    BY <2>1, <2>2
<1>4. ASSUME Head(s) # m, Places(s, m) = {}
      PROVE  Places(Tail(s), m) = {}
  BY <1>1, <1>4 DEF Places
<1>5. ASSUME Head(s) # m, One(Places(s, m))
      PROVE  One(Places(Tail(s), m))
  <2>1. PICK k : Places(s, m) = {k}
    BY <1>5 DEF One
  <2>2. k \in DOMAIN s /\ s[k] = m /\ k # 1 /\ k \in Nat
    BY <1>1, <1>2, <1>5, <2>1 DEF Places
  <2>3. k - 1 \in DOMAIN Tail(s) /\ Tail(s)[k - 1] = m
    BY <1>1, <2>2
  <2>4. ASSUME NEW j \in Places(Tail(s), m) PROVE j = k - 1
    <3>1. j \in Nat /\ j + 1 \in Places(s, m)
      BY <1>1, <1>2, <2>4 DEF Places
    <3> QED
      BY <2>1, <2>2, <3>1
  <2>5. Places(Tail(s), m) = {k - 1}
    BY <2>3, <2>4 DEF Places
  <2> QED
    BY <2>5 DEF One
<1> QED
  BY <1>3, <1>4, <1>5

LEMMA AppendPlaces ==
    ASSUME NEW S, NEW s \in Seq(S), NEW e \in S, NEW m
    PROVE  /\ e # m => Places(Append(s, e), m) = Places(s, m)
           /\ e = m /\ Places(s, m) = {} => One(Places(Append(s, e), m))
<1>1. /\ DOMAIN s = 1 .. Len(s) /\ DOMAIN Append(s, e) = 1 .. Len(s) + 1 /\ Len(s) \in Nat
      /\ \A k \in DOMAIN s : k # Len(s) + 1 /\ Append(s, e)[k] = s[k]
      /\ Append(s, e)[Len(s) + 1] = e
  OBVIOUS
<1>2. \A k \in DOMAIN Append(s, e) : k \in DOMAIN s \/ k = Len(s) + 1
  BY <1>1
<1>3. \A k \in DOMAIN s : k \in DOMAIN Append(s, e)
  BY <1>1
<1>4. Len(s) + 1 \in DOMAIN Append(s, e)
  BY <1>1
<1>5. ASSUME e # m PROVE Places(Append(s, e), m) = Places(s, m)
  BY <1>1, <1>2, <1>3, <1>5 DEF Places
<1>6. ASSUME e = m, Places(s, m) = {} PROVE One(Places(Append(s, e), m))
  <2>1. Places(Append(s, e), m) = {Len(s) + 1}
    BY <1>1, <1>2, <1>4, <1>6 DEF Places
  <2> QED
    BY <2>1 DEF One
<1> QED
  BY <1>5, <1>6

\* What is read of the messages to find its request.
LEMMA AskFields ==
    /\ \A i, j : (AskOf(i) = AskOf(j) <=> i = j) /\ (ReplyOf(i) = ReplyOf(j) <=> i = j)
    /\ \A i \in Nat : AskOf(i) \in Frame /\ ReplyOf(i) \in Message /\ ReplyOf(i) # Nothing
    /\ \A msg \in Frame : msg.what = "ask" => msg = AskOf(msg.id) /\ msg.id \in Nat
    /\ \A msg \in Frame : \A i : msg.what # "ask" => msg # AskOf(i)
    /\ \A msg \in Message : msg.what = "reply" => msg = ReplyOf(msg.id) /\ msg.id \in Nat
    /\ \A msg \in Message : \A i : msg.what # "reply" => msg # ReplyOf(i)
<1>1. \A i, j : (AskOf(i) = AskOf(j) <=> i = j) /\ (ReplyOf(i) = ReplyOf(j) <=> i = j)
  <2>1. ASSUME NEW i PROVE AskOf(i).id = i /\ ReplyOf(i).id = i
    BY DEF AskOf, ReplyOf
  <2> QED
    BY <2>1
<1>2. ASSUME NEW i \in Nat PROVE AskOf(i) \in Frame /\ ReplyOf(i) \in Message /\ ReplyOf(i) # Nothing
  <2>1. ReplyOf(i).what = "reply" /\ Nothing.what = "nothing"
    BY DEF ReplyOf, Nothing
  <2> QED
    BY <2>1 DEF AskOf, ReplyOf, Frame, AskMsg, Message, Reply
<1>3. ASSUME NEW msg \in Frame, msg.what = "ask" PROVE msg = AskOf(msg.id) /\ msg.id \in Nat
  <2>1. msg \in AskMsg
    BY <1>3 DEF Frame, Answer, AskMsg, Publish
  <2> QED
    BY <2>1 DEF AskMsg, AskOf
<1>4. ASSUME NEW msg \in Message, msg.what = "reply" PROVE msg = ReplyOf(msg.id) /\ msg.id \in Nat
  <2>1. msg \in Reply
    BY <1>4 DEF Message, Request, Note, Reply
  <2> QED
    BY <2>1 DEF Reply, ReplyOf
<1>5. \A i : AskOf(i).what = "ask" /\ ReplyOf(i).what = "reply"
  BY DEF AskOf, ReplyOf
<1> QED
  BY <1>1, <1>2, <1>3, <1>4, <1>5

\* What holds after a step that neither a request nor a reply takes part in.
LEMMA NoneMoves ==
    ASSUME NEW i, Accounted(i), clangd'.asks = clangd.asks,
           Places(incoming', AskOf(i)) = Places(incoming, AskOf(i)),
           Places(stdin', ReplyOf(i)) = Places(stdin, ReplyOf(i)),
           out' = ReplyOf(i) <=> out = ReplyOf(i)
    PROVE  Accounted(i)'
  BY DEF Accounted, Coming, Nowhere

\* The client reads a frame, and answers it if it is a request.
LEMMA FrameRead ==
    ASSUME Typed, incoming # <<>>, incoming' = Tail(incoming), out = Nothing,
           UNCHANGED <<stdin, clangd>>, NEW i \in Nat, Accounted(i),
           out' = IF Head(incoming).what = "ask" THEN ReplyOf(Head(incoming).id) ELSE Nothing
    PROVE  Accounted(i)'
<1> DEFINE m == Head(incoming)
<1>1. m \in Frame /\ incoming \in Seq(Frame)
  BY TailElements DEF Typed
<1>2. out # ReplyOf(i) /\ Nothing # ReplyOf(i)
  BY AskFields
<1>3. /\ m = AskOf(i) => /\ Places(incoming, AskOf(i)) # {}
                         /\ One(Places(incoming, AskOf(i))) => Places(incoming', AskOf(i)) = {}
      /\ m # AskOf(i) => /\ Places(incoming, AskOf(i)) = {} => Places(incoming', AskOf(i)) = {}
                         /\ One(Places(incoming, AskOf(i))) => One(Places(incoming', AskOf(i)))
  BY <1>1, TailPlaces
<1>4. m = AskOf(i) <=> out' = ReplyOf(i)
  <2>1. CASE m.what = "ask"
    BY <1>1, <2>1, AskFields
  <2>2. CASE m.what # "ask"
    BY <1>1, <1>2, <2>2, AskFields
  <2> QED
    BY <2>1, <2>2
<1> HIDE DEF m
<1>5. CASE m = AskOf(i)
  BY <1>2, <1>3, <1>4, <1>5 DEF Accounted, Coming, Nowhere
<1>6. CASE m # AskOf(i)
  BY <1>2, <1>3, <1>4, <1>6 DEF Accounted, Coming, Nowhere
<1> QED
  BY <1>5, <1>6

\* A write of the client ends.
LEMMA OutWritten ==
    ASSUME Typed, out # Nothing, stdin' = Append(stdin, out), out' = Nothing,
           UNCHANGED <<incoming, clangd>>, NEW i \in Nat, Accounted(i)
    PROVE  Accounted(i)'
<1>1. out \in Message /\ stdin \in Seq(Message)
  BY DEF Typed
<1>2. out' # ReplyOf(i)
  BY AskFields
<1>3. /\ out # ReplyOf(i) => Places(stdin', ReplyOf(i)) = Places(stdin, ReplyOf(i))
      /\ out = ReplyOf(i) /\ Places(stdin, ReplyOf(i)) = {} => One(Places(stdin', ReplyOf(i)))
  BY <1>1, AppendPlaces
<1>4. CASE out = ReplyOf(i)
  BY <1>2, <1>3, <1>4 DEF Accounted, Coming, Nowhere
<1>5. CASE out # ReplyOf(i)
  BY <1>2, <1>3, <1>5 DEF Accounted, Coming, Nowhere
<1> QED
  BY <1>4, <1>5

\* clangd reads a message, and no longer waits for a reply that it has.
LEMMA StdinRead ==
    ASSUME Typed, stdin # <<>>, stdin' = Tail(stdin), UNCHANGED <<incoming, out>>,
           clangd'.asks = IF Head(stdin).what = "reply" THEN clangd.asks \ {Head(stdin).id}
                          ELSE clangd.asks,
           NEW i \in Nat, Accounted(i)
    PROVE  Accounted(i)'
<1> DEFINE m == Head(stdin)
<1>1. m \in Message /\ stdin \in Seq(Message)
  BY TailElements DEF Typed
<1>2. /\ m = ReplyOf(i) => /\ Places(stdin, ReplyOf(i)) # {}
                           /\ One(Places(stdin, ReplyOf(i))) => Places(stdin', ReplyOf(i)) = {}
      /\ m # ReplyOf(i) => /\ Places(stdin, ReplyOf(i)) = {} => Places(stdin', ReplyOf(i)) = {}
                           /\ One(Places(stdin, ReplyOf(i))) => One(Places(stdin', ReplyOf(i)))
  BY <1>1, TailPlaces
<1>3. i \in clangd'.asks <=> i \in clangd.asks /\ m # ReplyOf(i)
  <2>1. CASE m.what = "reply"
    BY <1>1, <2>1, AskFields
  <2>2. CASE m.what # "reply"
    BY <1>1, <2>2, AskFields
  <2> QED
    BY <2>1, <2>2
<1> HIDE DEF m
<1>4. CASE m = ReplyOf(i)
  BY <1>2, <1>3, <1>4 DEF Accounted, Coming, Nowhere
<1>5. CASE m # ReplyOf(i)
  BY <1>2, <1>3, <1>5 DEF Accounted, Coming, Nowhere
<1> QED
  BY <1>4, <1>5

\* clangd makes a request, with a number that is new.
LEMMA Asked ==
    ASSUME Typed, clangd.asked \in Nat, clangd.asked \notin clangd.asks,
           incoming' = Append(incoming, AskOf(clangd.asked)),
           clangd'.asks = clangd.asks \cup {clangd.asked}, UNCHANGED <<stdin, out>>,
           NEW i \in Nat, Accounted(i)
    PROVE  Accounted(i)'
<1> DEFINE e == AskOf(clangd.asked)
<1>1. e \in Frame /\ incoming \in Seq(Frame) /\ (e = AskOf(i) <=> i = clangd.asked)
  BY AskFields DEF Typed
<1> HIDE DEF e
<1>2. /\ e # AskOf(i) => Places(incoming', AskOf(i)) = Places(incoming, AskOf(i))
      /\ e = AskOf(i) /\ Places(incoming, AskOf(i)) = {} => One(Places(incoming', AskOf(i)))
  BY <1>1, AppendPlaces DEF e
<1>3. CASE e = AskOf(i)
  BY <1>1, <1>2, <1>3 DEF Accounted, Coming, Nowhere
<1>4. CASE e # AskOf(i)
  BY <1>1, <1>2, <1>4 DEF Accounted, Coming, Nowhere
<1> QED
  BY <1>3, <1>4

LEMMA RepliesStep ==
    ASSUME TypeOK, RepliesCome, [Next]_vars
    PROVE  RepliesCome'
<1> USE DEF ide, ClientRests, ActorRests
<1>1. Typed /\ clangd.asks \subseteq Nat /\ clangd.asked \in Nat
      /\ clangd \in [alive : BOOLEAN, hung : BOOLEAN, todo : SUBSET Request,
                     asks : SUBSET Nat, asked : Nat]
  BY TypedIsTyped DEF TypeOK
<1>2. CASE UNCHANGED <<incoming, stdin, out>> /\ clangd'.asks = clangd.asks
           /\ clangd'.asked = clangd.asked /\ (clangd'.alive => clangd.alive)
           /\ (at = "ended" => at' = "ended")
  BY <1>2 DEF RepliesCome, Accounted, Coming, Nowhere
<1>3. CASE ~clangd'.alive \/ at' = "ended"
  BY <1>3 DEF RepliesCome
<1>4. ASSUME UNCHANGED <<clangd>>, at # "ended", \A i \in Nat : Accounted(i) => Accounted(i)'
      PROVE  RepliesCome'
  BY <1>4 DEF RepliesCome
<1>5. CASE Handshake
  <2>1. /\ out = Nothing /\ incoming # <<>> /\ incoming' = Tail(incoming)
        /\ UNCHANGED <<stdin, clangd>> /\ at # "ended"
    BY <1>5 DEF Handshake
  <2>2. out' = IF Head(incoming).what = "ask" THEN ReplyOf(Head(incoming).id) ELSE Nothing
    BY <1>5 DEF Handshake, ReplyOf
  <2> QED
    BY <1>1, <1>4, <2>1, <2>2, FrameRead
<1>6. CASE TakeCommand
  <2>1. /\ UNCHANGED <<stdin, incoming, clangd>> /\ at = "select" /\ out = Nothing
        /\ out'.what \in {"request", "note"}
    BY <1>6 DEF TakeCommand
  <2>2. \A i \in Nat : out # ReplyOf(i) /\ out' # ReplyOf(i)
    BY <2>1, AskFields DEF ReplyOf
  <2> QED
    BY <1>4, <2>1, <2>2, NoneMoves
<1>7. CASE WriteEnds
  <2>1. out # Nothing /\ stdin' = Append(stdin, out) /\ out' = Nothing
        /\ UNCHANGED <<at, incoming, clangd>>
    BY <1>7 DEF WriteEnds
  <2>2. CASE at = "ended"
    BY <1>3, <2>1, <2>2
  <2> QED
    BY <1>1, <1>4, <2>1, <2>2, OutWritten
<1>8. CASE Dispatch
  <2>1. /\ out = Nothing /\ incoming # <<>> /\ incoming' = Tail(incoming)
        /\ UNCHANGED <<stdin, clangd>> /\ at # "ended"
    BY <1>8 DEF Dispatch, Listens
  <2>2. out' = IF Head(incoming).what = "ask" THEN ReplyOf(Head(incoming).id) ELSE Nothing
    BY <1>8, <2>1 DEF Dispatch, ReplyOf
  <2> QED
    BY <1>1, <1>4, <2>1, <2>2, FrameRead
<1>9. CASE ClangdReads
  <2>1. /\ stdin # <<>> /\ stdin' = Tail(stdin) /\ UNCHANGED <<incoming, out, at>>
        /\ clangd'.asked = clangd.asked /\ clangd'.alive = clangd.alive
        /\ clangd'.asks = IF Head(stdin).what = "reply" THEN clangd.asks \ {Head(stdin).id}
                          ELSE clangd.asks
    BY <1>1, <1>9 DEF ClangdReads
  <2>2. \A i \in Nat : Accounted(i) => Accounted(i)'
    BY <1>1, <2>1, StdinRead
  <2> QED
    BY <2>1, <2>2 DEF RepliesCome
<1>10. CASE ClangdAnswers
  <2>1. PICK msg \in clangd.todo :
          /\ clangd' = [clangd EXCEPT !.todo = @ \ {msg}]
          /\ incoming' = Append(incoming, [what |-> "answer", id |-> msg.id, of |-> msg.of])
    BY <1>10 DEF ClangdAnswers
  <2> DEFINE e == [what |-> "answer", id |-> msg.id, of |-> msg.of]
  <2>2. e \in Frame /\ e.what # "ask"
    <3>1. msg.id \in Nat /\ msg.of \in All
      BY <1>1, <2>1 DEF Request
    <3> QED
      BY <3>1, CommandTypes
  <2>3. \A i \in Nat : e # AskOf(i)
    BY <2>2, AskFields
  <2> HIDE DEF e
  <2>4. \A i \in Nat : Places(incoming', AskOf(i)) = Places(incoming, AskOf(i))
    BY <1>1, <2>1, <2>2, <2>3, AppendPlaces DEF Typed, e
  <2>5. UNCHANGED <<stdin, out, at>> /\ clangd'.asks = clangd.asks
        /\ clangd'.asked = clangd.asked /\ clangd'.alive = clangd.alive
    BY <1>1, <1>10, <2>1 DEF ClangdAnswers
  <2>6. \A i \in Nat : Accounted(i) => Accounted(i)'
    BY <2>4, <2>5, NoneMoves
  <2> QED
    BY <2>5, <2>6 DEF RepliesCome
<1>11. CASE ClangdAsks
  <2>1. /\ incoming' = Append(incoming, AskOf(clangd.asked)) /\ UNCHANGED <<stdin, out, at>>
        /\ clangd'.asks = clangd.asks \cup {clangd.asked}
        /\ clangd'.asked = clangd.asked + 1 /\ clangd'.alive = clangd.alive
    BY <1>1, <1>11 DEF ClangdAsks, AskOf
  <2>2. CASE at = "ended" \/ ~clangd.alive
    BY <1>3, <2>1, <2>2
  <2>3. CASE at # "ended" /\ clangd.alive
    <3>1. clangd.asked \notin clangd.asks
      BY <1>1, <2>3 DEF RepliesCome
    <3>2. \A i \in Nat : Accounted(i) => Accounted(i)'
      BY <1>1, <2>1, <3>1, Asked
    <3>3. \A i \in clangd'.asks : i < clangd'.asked
      BY <1>1, <2>1, <2>3 DEF RepliesCome
    <3> QED
      BY <2>3, <3>2, <3>3 DEF RepliesCome
  <2> QED
    BY <2>2, <2>3
<1>12. CASE ClangdPublishes
  <2>1. /\ incoming = <<>> /\ incoming' = <<[what |-> "publish"]>>
        /\ UNCHANGED <<stdin, out, at, clangd>>
    BY <1>12 DEF ClangdPublishes
  <2>2. \A i : [what |-> "publish"] # AskOf(i)
    BY DEF AskOf
  <2>3. \A i : Places(incoming', AskOf(i)) = {} /\ Places(incoming, AskOf(i)) = {}
    BY <2>1, <2>2 DEF Places
  <2>4. \A i \in Nat : Accounted(i) => Accounted(i)'
    BY <2>1, <2>3, NoneMoves
  <2> QED
    BY <2>1, <2>4 DEF RepliesCome
<1>13. CASE Ide \/ ShutdownGoesOn \/ (\E c \in All : TimeOut(c)) \/ UNCHANGED vars
            \/ ClangdHangs \/ ClangdDies
  <2>1. UNCHANGED <<incoming, stdin, out, at>> /\ clangd'.asks = clangd.asks
        /\ clangd'.asked = clangd.asked /\ (clangd'.alive => clangd.alive)
    BY <1>1, <1>13 DEF Ide, ShutdownGoesOn, TimeOut, vars, ClangdHangs, ClangdDies, CallRequest,
       Notify, DropHandle, Shutdown
  <2> QED
    BY <1>2, <2>1
<1>14. CASE HandshakeFails \/ TakeKill \/ StdoutCloses \/ AllDropped
  <2>1. at' = "ended"
    BY <1>14 DEF HandshakeFails, TakeKill, StdoutCloses, AllDropped, Ends
  <2> QED
    BY <1>3, <2>1
<1>15. CASE WriteFails
  <2>1. ~clangd'.alive
    BY <1>15 DEF WriteFails
  <2> QED
    BY <1>3, <2>1
<1> QED
  BY <1>5, <1>6, <1>7, <1>8, <1>9, <1>10, <1>11, <1>12, <1>13, <1>14, <1>15 DEF Next, Actor, Clangd

LEMMA InitReplies == ASSUME Init PROVE RepliesCome
<1>1. \A i : Places(incoming, AskOf(i)) = {} /\ out # ReplyOf(i)
  BY DEF Init, Places, Nothing, ReplyOf
<1>2. \A i : Places(stdin, ReplyOf(i)) = {}
  <2>1. stdin = <<[what |-> "request", id |-> 0, of |-> Bye]>>
    BY DEF Init
  <2>2. \A k \in DOMAIN stdin : stdin[k].what = "request"
    BY <2>1
  <2> QED
    BY <2>2 DEF Places, ReplyOf
<1>3. clangd.asks = {}
  BY DEF Init
<1> QED
  BY <1>1, <1>2, <1>3 DEF RepliesCome, Accounted, Nowhere

LEMMA ComingOnce == ASSUME NEW i, Coming(i) PROVE OnItsWay(i) = 1
<1>1. \A S : One(S) => Cardinality(S) = 1
  BY FS_Singleton DEF One
<1>2. Cardinality({}) = 0
  BY FS_EmptySet
<1> DEFINE a == Cardinality(Places(incoming, AskOf(i)))
           r == Cardinality(Places(stdin, ReplyOf(i)))
           w == IF out = ReplyOf(i) THEN 1 ELSE 0
<1>3. OnItsWay(i) = a + r + w
  BY DEF OnItsWay, Places, AskOf, ReplyOf
<1>4. \/ a = 1 /\ r = 0 /\ w = 0
      \/ a = 0 /\ r = 1 /\ w = 0
      \/ a = 0 /\ r = 0 /\ w = 1
  BY <1>1, <1>2 DEF Coming
<1> HIDE DEF a, r, w
<1> QED
  BY <1>3, <1>4

\* Every request of clangd has exactly one reply coming, for any number of requests,
\* any traffic of the IDE and any size of the pipe: from the handshake's loop, from
\* on_incoming, or in the pipe (answer_server_request).
THEOREM AsksStayReplied == Spec => []AsksAreReplied
<1>1. Init => RepliesCome
  BY InitReplies
<1>2. IInv /\ RepliesCome /\ [Next]_vars => RepliesCome'
  BY RepliesStep DEF IInv
<1>3. IInv /\ RepliesCome => AsksAreReplied
  BY ComingOnce DEF IInv, TypeOK, RepliesCome, Accounted, AsksAreReplied
<1> QED
  BY <1>1, <1>2, <1>3, Invariance, PTL DEF Spec
=============================================================================
