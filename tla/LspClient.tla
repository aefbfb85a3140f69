----------------------------- MODULE LspClient -----------------------------
(***************************************************************************)
(* A clangd session (jade-lsp/src/client.rs): the handshake, then an actor *)
(* that owns clangd's stdin, the child and the map of pending requests.    *)
(* Callers hold an LspHandle; a request is a oneshot that the actor fills, *)
(* guarded by a timer of 15 s.  Both sides number their requests, and the  *)
(* numbers overlap.                                                        *)
(*                                                                         *)
(* A write waits while the pipe is full, and with it the actor.  The       *)
(* reader task and its channel have no bound: they are part of incoming.   *)
(***************************************************************************)
EXTENDS Naturals, Sequences, FiniteSets

CONSTANTS
    Calls,      \* the requests of the IDE
    Bye,        \* the request of shutdown
    MaxNotes,   \* bound: notifications of the IDE
    MaxAsks,    \* bound: requests of clangd
    PipeCap     \* messages that fit in clangd's stdin

ASSUME ByeIsNoCall == Bye \notin Calls
ASSUME BoundsAreNat == MaxNotes \in Nat /\ MaxAsks \in Nat /\ PipeCap \in Nat \ {0}

All == Calls \cup {Bye}

VARIABLES
    call,      \* per request: what its caller knows
    got,       \* per request: whose answer it was given
    handle,    \* who holds the LspHandle
    notes,     \* notifications sent
    cmds,      \* the command channel
    at,        \* where initialize or the actor is
    out,       \* the message that is being written
    pending, next_id,
    stdin, incoming,
    clangd,    \* the server
    exits      \* Exited events sent

ide == <<call, got, handle, notes>>
vars == <<ide, cmds, at, out, pending, next_id, stdin, incoming, clangd, exits>>

Request == [what : {"request"}, id : Nat, of : All]
Note == [what : {"note"}]
Reply == [what : {"reply"}, id : Nat]
Nothing == [what |-> "nothing"]

Cmd == [what : {"request"}, of : All] \cup [what : {"note", "kill"}]

Answer == [what : {"answer"}, id : Nat, of : All]
AskMsg == [what : {"ask"}, id : Nat]
Publish == [what : {"publish"}]

\* A partial function without the entries of some keys.
Without(f, ids) == [i \in DOMAIN f \ ids |-> f[i]]

Waiting == {c \in All : call[c] = "waiting"}

-----------------------------------------------------------------------------
(* Callers.                                                                *)

Send(new) == cmds' = cmds \o new

Calling(c) ==
    IF at = "ended"
    THEN call' = [call EXCEPT ![c] = "gone"] /\ UNCHANGED cmds
    ELSE /\ call' = [call EXCEPT ![c] = "waiting"]
         /\ Send(<<[what |-> "request", of |-> c]>>)

ActorRests == UNCHANGED <<at, out, pending, next_id, stdin, incoming, clangd, exits>>

CallRequest(c) ==
    /\ handle = "held" /\ call[c] = "idle"
    /\ Calling(c)
    /\ UNCHANGED <<got, handle, notes>> /\ ActorRests

\* did_open, did_change, did_save, did_close.
Notify ==
    /\ handle = "held" /\ notes < MaxNotes
    /\ notes' = notes + 1
    /\ IF at = "ended" THEN UNCHANGED cmds ELSE Send(<<[what |-> "note"]>>)
    /\ UNCHANGED <<call, got, handle>> /\ ActorRests

\* The caller's timer.
TimeOut(c) ==
    /\ call[c] = "waiting"
    /\ call' = [call EXCEPT ![c] = "timeout"]
    /\ UNCHANGED <<got, handle, notes, cmds>> /\ ActorRests

\* The IDE forgets the handle; calls that wait keep it alive.
DropHandle ==
    /\ handle = "held"
    /\ handle' = "dropped"
    /\ UNCHANGED <<call, got, notes, cmds>> /\ ActorRests

\* shutdown consumes the handle: nobody else has it.
Shutdown ==
    /\ handle = "held" /\ Waiting = {}
    /\ handle' = "leaving"
    /\ Calling(Bye)
    /\ UNCHANGED <<got, notes>> /\ ActorRests

ShutdownGoesOn ==
    /\ handle = "leaving" /\ call[Bye] # "waiting"
    /\ handle' = "dropped"
    /\ IF at = "ended" THEN UNCHANGED cmds
       ELSE Send(<<[what |-> "note"], [what |-> "kill"]>>)
    /\ UNCHANGED <<call, got, notes>> /\ ActorRests

-----------------------------------------------------------------------------
(* initialize and the actor.                                               *)

\* The session is over: what is pending fails, what is queued is dropped with
\* its oneshot, and so is the child, which dies of it.
Ends(exited) ==
    /\ at' = "ended"
    /\ call' = [c \in All |->
                  IF call[c] = "waiting"
                     /\ \/ \E i \in DOMAIN pending : pending[i] = c
                        \/ \E k \in DOMAIN cmds : cmds[k].what = "request" /\ cmds[k].of = c
                  THEN "gone" ELSE call[c]]
    /\ pending' = <<>> /\ cmds' = <<>>
    /\ clangd' = [clangd EXCEPT !.alive = FALSE]
    /\ exits' = exits + exited
    /\ UNCHANGED <<got, handle, notes, out, next_id, stdin, incoming>>

\* The next frame in the handshake: an early request is answered at once, the
\* answer to initialize, which is number 0, starts the actor.
Handshake ==
    /\ at = "handshake" /\ out = Nothing /\ incoming # <<>>
    /\ incoming' = Tail(incoming)
    /\ LET msg == Head(incoming)
       IN \/ /\ msg.what = "answer"
             /\ at' = "select" /\ handle' = "held" /\ UNCHANGED out
          \/ /\ msg.what = "ask"
             /\ out' = [what |-> "reply", id |-> msg.id] /\ UNCHANGED <<at, handle>>
          \/ /\ msg.what = "publish"
             /\ UNCHANGED <<at, handle, out>>
    /\ UNCHANGED <<call, got, notes, cmds, pending, next_id, stdin, clangd, exits>>

\* No frame for 15 s, or the end of stdout: the child is dropped.
HandshakeFails ==
    /\ at = "handshake" /\ out = Nothing /\ incoming = <<>>
    /\ at' = "ended"
    /\ clangd' = [clangd EXCEPT !.alive = FALSE]
    /\ UNCHANGED <<ide, cmds, out, pending, next_id, stdin, incoming, exits>>

\* Mutant of TakeCommand: the number is not advanced.
TakeSameId ==
    /\ at = "select" /\ out = Nothing
    /\ cmds # <<>> /\ Head(cmds).what # "kill"
    /\ cmds' = Tail(cmds)
    /\ IF Head(cmds).what = "request"
       THEN out' = [what |-> "request", id |-> next_id, of |-> Head(cmds).of]
       ELSE out' = [what |-> "note"]
    /\ UNCHANGED <<ide, at, pending, next_id, stdin, incoming, clangd, exits>>

TakeCommand ==
    /\ at = "select" /\ out = Nothing
    /\ cmds # <<>> /\ Head(cmds).what # "kill"
    /\ cmds' = Tail(cmds)
    /\ IF Head(cmds).what = "request"
       THEN /\ out' = [what |-> "request", id |-> next_id, of |-> Head(cmds).of]
            /\ next_id' = next_id + 1
       ELSE /\ out' = [what |-> "note"]
            /\ UNCHANGED next_id
    /\ UNCHANGED <<ide, at, pending, stdin, incoming, clangd, exits>>

TakeKill ==
    /\ at = "select" /\ out = Nothing
    /\ cmds # <<>> /\ Head(cmds).what = "kill"
    /\ Ends(1)

\* The write ends; a request is pending from then on.
WriteEnds ==
    /\ out # Nothing /\ clangd.alive /\ Len(stdin) < PipeCap
    /\ stdin' = Append(stdin, out)
    /\ out' = Nothing
    /\ pending' = IF out.what = "request"
                  THEN [i \in DOMAIN pending \cup {out.id} |->
                          IF i = out.id THEN out.of ELSE pending[i]]
                  ELSE pending
    /\ UNCHANGED <<ide, cmds, at, next_id, incoming, clangd, exits>>

\* clangd is gone, which a write is the first to notice.
WriteFails ==
    /\ out # Nothing /\ ~clangd.alive
    /\ out' = Nothing
    /\ call' = IF out.what = "request" /\ call[out.of] = "waiting"
               THEN [call EXCEPT ![out.of] = "gone"] ELSE call
    /\ UNCHANGED <<got, handle, notes, cmds, at, pending, next_id, stdin, incoming,
                   clangd, exits>>

\* Nobody holds a sender of the command channel any more.
Abandoned == handle = "dropped" /\ Waiting = {}

\* Commands go first, and so does their end: the select is biased.
Listens == at = "select" /\ out = Nothing /\ cmds = <<>> /\ ~Abandoned

\* A response: its waiter gets it if it still waits, and is forgotten.
Resolve(id, of) ==
    IF id \in DOMAIN pending
    THEN /\ pending' = Without(pending, {id})
         /\ IF call[pending[id]] = "waiting"
            THEN /\ call' = [call EXCEPT ![pending[id]] = "answered"]
                 /\ got' = [got EXCEPT ![pending[id]] = of]
            ELSE UNCHANGED <<call, got>>
    ELSE UNCHANGED <<pending, call, got>>

\* Mutant of Dispatch: a message with a number that is pending is taken for the
\* response, whether it has a method or not.
DispatchById ==
    /\ Listens /\ incoming # <<>>
    /\ incoming' = Tail(incoming)
    /\ LET msg == Head(incoming)
       IN \/ /\ msg.what = "answer"
             /\ Resolve(msg.id, msg.of) /\ UNCHANGED out
          \/ /\ msg.what = "ask"
             /\ IF msg.id \in DOMAIN pending
                THEN Resolve(msg.id, Bye) /\ UNCHANGED out
                ELSE out' = [what |-> "reply", id |-> msg.id] /\ UNCHANGED <<pending, call, got>>
          \/ /\ msg.what = "publish"
             /\ UNCHANGED <<out, pending, call, got>>
    /\ UNCHANGED <<handle, notes, cmds, at, next_id, stdin, clangd, exits>>

\* on_incoming.
Dispatch ==
    /\ Listens /\ incoming # <<>>
    /\ incoming' = Tail(incoming)
    /\ LET msg == Head(incoming)
       IN \/ /\ msg.what = "answer"
             /\ Resolve(msg.id, msg.of) /\ UNCHANGED out
          \/ /\ msg.what = "ask"
             /\ out' = [what |-> "reply", id |-> msg.id] /\ UNCHANGED <<pending, call, got>>
          \/ /\ msg.what = "publish"
             /\ UNCHANGED <<out, pending, call, got>>
    /\ UNCHANGED <<handle, notes, cmds, at, next_id, stdin, clangd, exits>>

\* stdout is closed and all of it was read.
StdoutCloses ==
    /\ Listens /\ incoming = <<>> /\ ~clangd.alive
    /\ Ends(1)

\* Mutant of AllDropped: the child is not killed with its owner.
AllDroppedKeepsChild ==
    /\ at = "select" /\ out = Nothing /\ cmds = <<>> /\ Abandoned
    /\ at' = "ended"
    /\ UNCHANGED <<ide, cmds, out, pending, next_id, stdin, incoming, clangd, exits>>

\* `None => break`: the child dies with the actor.
AllDropped ==
    /\ at = "select" /\ out = Nothing /\ cmds = <<>> /\ Abandoned
    /\ Ends(0)

-----------------------------------------------------------------------------
(* clangd.                                                                 *)

ClientRests == UNCHANGED <<ide, cmds, at, out, pending, next_id, exits>>

ClangdReads ==
    /\ clangd.alive /\ ~clangd.hung /\ stdin # <<>>
    /\ stdin' = Tail(stdin)
    /\ LET msg == Head(stdin)
       IN clangd' = [clangd EXCEPT
            !.todo = IF msg.what = "request" THEN @ \cup {msg} ELSE @,
            !.asks = IF msg.what = "reply" THEN @ \ {msg.id} ELSE @]
    /\ UNCHANGED incoming /\ ClientRests

\* Answers come in any order.
ClangdAnswers ==
    /\ clangd.alive
    /\ \E msg \in clangd.todo :
         /\ clangd' = [clangd EXCEPT !.todo = @ \ {msg}]
         /\ incoming' = Append(incoming, [what |-> "answer", id |-> msg.id, of |-> msg.of])
    /\ UNCHANGED stdin /\ ClientRests

ClangdAsks ==
    /\ clangd.alive /\ clangd.asked < MaxAsks
    /\ clangd' = [clangd EXCEPT !.asked = @ + 1, !.asks = @ \cup {clangd.asked}]
    /\ incoming' = Append(incoming, [what |-> "ask", id |-> clangd.asked])
    /\ UNCHANGED stdin /\ ClientRests

ClangdPublishes ==
    /\ clangd.alive /\ incoming = <<>>
    /\ incoming' = <<[what |-> "publish"]>>
    /\ UNCHANGED <<stdin, clangd>> /\ ClientRests

\* It stops reading for good, or ends.
ClangdHangs ==
    /\ clangd.alive /\ ~clangd.hung
    /\ clangd' = [clangd EXCEPT !.hung = TRUE]
    /\ UNCHANGED <<stdin, incoming>> /\ ClientRests

ClangdDies ==
    /\ clangd.alive
    /\ clangd' = [clangd EXCEPT !.alive = FALSE]
    /\ UNCHANGED <<stdin, incoming>> /\ ClientRests

-----------------------------------------------------------------------------
\* initialize has spawned clangd and written its request, number 0.
Init ==
    /\ call = [c \in All |-> "idle"]
    /\ got = [c \in All |-> c]
    /\ handle = "none" /\ notes = 0
    /\ cmds = <<>>
    /\ at = "handshake" /\ out = Nothing
    /\ pending = <<>> /\ next_id = 1
    /\ stdin = <<[what |-> "request", id |-> 0, of |-> Bye]>>
    /\ incoming = <<>>
    /\ clangd = [alive |-> TRUE, hung |-> FALSE, todo |-> {}, asks |-> {}, asked |-> 0]
    /\ exits = 0

Ide ==
    \/ \E c \in Calls : CallRequest(c)
    \/ Notify \/ DropHandle \/ Shutdown

Actor ==
    \/ Handshake \/ HandshakeFails
    \/ TakeCommand \/ TakeKill \/ WriteEnds \/ WriteFails
    \/ Dispatch \/ StdoutCloses \/ AllDropped

Clangd ==
    \/ ClangdReads \/ ClangdAnswers \/ ClangdAsks \/ ClangdPublishes
    \/ ClangdHangs \/ ClangdDies

Next ==
    \/ Ide \/ ShutdownGoesOn \/ (\E c \in All : TimeOut(c))
    \/ Actor \/ Clangd

Spec == Init /\ [][Next]_vars

\* Tasks run and timers expire.  clangd reads unless it hangs; whether it ever
\* answers is its own affair.
FairSpec ==
    /\ Spec
    /\ WF_vars(Actor) /\ WF_vars(ShutdownGoesOn) /\ WF_vars(ClangdReads)
    /\ \A c \in All : WF_vars(TimeOut(c))

-----------------------------------------------------------------------------
(* Properties.                                                             *)

TypeOK ==
    /\ call \in [All -> {"idle", "waiting", "answered", "gone", "timeout"}]
    /\ got \in [All -> All]
    /\ handle \in {"none", "held", "leaving", "dropped"}
    /\ notes \in 0 .. MaxNotes
    /\ cmds \in Seq(Cmd)
    /\ at \in {"handshake", "select", "ended"}
    /\ out \in Request \cup Note \cup Reply \cup {Nothing}
    /\ next_id \in Nat
    /\ DOMAIN pending \subseteq 1 .. next_id - 1 /\ pending \in [DOMAIN pending -> All]
    /\ stdin \in Seq(Request \cup Note \cup Reply)
    /\ incoming \in Seq(Answer \cup AskMsg \cup Publish)
    /\ clangd \in [alive : BOOLEAN, hung : BOOLEAN, todo : SUBSET Request,
                   asks : SUBSET Nat, asked : Nat]
    /\ exits \in Nat

\* What the callers see is what the handle promises: an answer is the one to
\* this call, although clangd's own requests carry the same numbers and late
\* answers meet new requests, and the end of the session ends every call.
Promise == INSTANCE LspCalls WITH
    Calls <- All,
    up <- at # "ended",
    call <- [c \in All |-> IF call[c] = "answered" /\ got[c] # c
                           THEN "answer of another" ELSE call[c]]

KeepsPromise == Promise!Spec

\* Where clangd's request number i, or the reply to it, is.
OnItsWay(i) ==
    Cardinality({k \in DOMAIN incoming : incoming[k] = [what |-> "ask", id |-> i]})
  + Cardinality({k \in DOMAIN stdin : stdin[k] = [what |-> "reply", id |-> i]})
  + (IF out = [what |-> "reply", id |-> i] THEN 1 ELSE 0)

\* The comment of answer_server_request: clangd "never stalls waiting on the
\* client".  Every request of clangd has one reply coming, from the handshake on,
\* as long as there is a client.
AsksAreReplied ==
    at # "ended" /\ clangd.alive => \A i \in clangd.asks : OnItsWay(i) = 1

\* The actor writes to a clangd that has stopped reading, and the pipe is full.
Stuck == out # Nothing /\ clangd.hung /\ Len(stdin) = PipeCap

\* The comment of LspHandle: "Dropping the handle drops cmd_tx; the actor then
\* kills clangd".  So it does, after a shutdown as well, unless it is stuck in a
\* write.
DroppedClangdEnds == (handle = "dropped") ~> (~clangd.alive \/ Stuck)
=============================================================================
