----------------------------- MODULE ChatCards -----------------------------
(***************************************************************************)
(* The Explain and Visualize cards of the app (app.rs, explain.rs,         *)
(* visualize.rs), the lanes of the chat backend that stream their answers  *)
(* (jade-ai/src/chat/mod.rs), the render of a scene (jade-build/manim.rs), *)
(* and the completion server of AiBackend, which serves them when there is *)
(* no key and is started for them when it is off:                          *)
(*                                                                         *)
(*   card --lookup--> chat.start --stream--> sink --forward--> app's queue *)
(*   AiBackend's status --watch--> app's queue --> seen, parked cards      *)
(*                                                                         *)
(* What is said, and rows and edits under a card, are left out.            *)
(***************************************************************************)
EXTENDS AiBackend

CONSTANTS
    ChatBounds   \* per bound: how often the user acts on cards, and with which model

Lanes == {"explain", "visualize"}

\* "keyed": a Claude model and its key; "keyless": without one; "local": the local tier.
ASSUME ChatBoundsAreBounds ==
    ChatBounds \in [Bounds -> [asks : Nat, tier : {"keyed", "keyless", "local"}, lanes : SUBSET Lanes]]

VARIABLES
    seen,     \* JadeApp.ai_status.state, which ChatBackend.local mirrors
    unsent,   \* the watch channel holds a status that was not forwarded
    queue,    \* AppEvents on their way to the pump
    resume,   \* explain_resume_pending
    app,      \* the cards, and what runs for them
    asks

chatVars == <<seen, unsent, queue, resume, app, asks>>
allVars == <<vars, chatVars>>

Limit == ChatBounds[bound]

\* `says`: the requests whose text the card shows.  `left`: its tab was closed since.
NoCard == [phase |-> "none", gen |-> 0, says |-> {}, left |-> FALSE]

\* `slot` and `render` are indices, or 0; `open` tells whether the card's tab is.
NoApp ==
    [card |-> [l \in Lanes |-> NoCard], gen |-> [l \in Lanes |-> 0],
     open |-> [l \in Lanes |-> TRUE],
     lookups |-> {}, slot |-> [l \in Lanes |-> 0], streams |-> <<>>,
     render |-> 0, renders |-> <<>>]

Event(what, lane, gen, says) == [what |-> what, lane |-> lane, gen |-> gen, says |-> says]

-----------------------------------------------------------------------------
(* The chat backend.                                                       *)

\* effective_provider, as far as a card may go on.
CanServe == Limit.tier = "keyed" \/ seen = "ready"

\* ensure_chat_model starts the server for a card that nothing can serve.
Wakes == Limit.tier = "keyless" /\ seen \notin {"ready", "starting"}

\* The error such a card gets: it is parked on "the local model is starting", or
\* has failed, since a user who chose the local tier gets no other one.
Blocked == IF Wakes \/ seen = "starting" THEN "parked" ELSE "failed"

\* Slot::abort.
Aborts(a, l) ==
    IF a.slot[l] = 0 THEN a
    ELSE [a EXCEPT !.slot[l] = 0,
                   !.streams[a.slot[l]].state = IF @ = "live" THEN "aborted" ELSE @]

\* ChatBackend::start: it supersedes what the lane was doing.
StartsStream(a, l, g) ==
    [Aborts(a, l) EXCEPT
        !.streams = Append(@, [lane |-> l, gen |-> g, state |-> "live", said |-> FALSE, sink |-> <<>>]),
        !.slot[l] = Len(a.streams) + 1]

\* Slot::clear_if.  A slot counts the requests of its lane, the app its cards.
Finished(a, l, g) ==
    LET starts == {k \in 1 .. a.slot[l] : a.streams[k].lane = l}
    IN IF Cardinality(starts) = g THEN [a EXCEPT !.slot[l] = 0] ELSE a

-----------------------------------------------------------------------------
(* The cards.                                                              *)

\* Mutant of StopsWork: the handle of the render stays.
StopsButKeeps(a, l) ==
    LET quiet == Aborts(a, l) IN
    IF l = "explain" \/ a.render = 0 THEN quiet
    ELSE [quiet EXCEPT !.renders[a.render] = [@ EXCEPT !.state = "stopped"]]

\* stop_visualize_work; close_explain cancels its lane alone.
StopsWork(a, l) ==
    LET quiet == Aborts(a, l) IN
    IF l = "explain" \/ a.render = 0 THEN quiet
    ELSE [quiet EXCEPT !.renders[a.render].state = IF @ = "running" THEN "stopped" ELSE @,
                       !.render = 0]

Shows(a, l, phase) ==
    [a EXCEPT !.card[l] = [NoCard EXCEPT !.phase = phase, !.gen = a.gen[l]]]

\* start_explain, and start_visualize, which stops the work of its last card
\* and takes no model but one with a key.
Starts(a, l) ==
    LET before == IF l = "visualize" THEN StopsWork(a, l) ELSE a
        next == [before EXCEPT !.gen[l] = @ + 1]
    IN CASE l = "visualize" /\ Limit.tier # "keyed" -> Shows(next, l, "refused")
         [] CanServe -> [Shows(next, l, "asking") EXCEPT !.lookups = @ \cup {<<l, next.gen[l]>>}]
         [] OTHER -> Shows(next, l, Blocked)

Current(a, l, g) == a.gen[l] = g /\ a.card[l].phase # "none" /\ a.card[l].gen = g

\* on_explain_ready, on_visualize_ready.
OnReady(a, l, g) ==
    IF ~Current(a, l, g) \/ a.card[l].phase # "asking" THEN a
    ELSE IF CanServe THEN StartsStream(a, l, g)
    ELSE [a EXCEPT !.card[l].phase = Blocked]

\* ExplainCard::apply_at and VisualizeCard::apply_chat: an end state stays.
Told(c, l, g, says) ==
    IF c.phase # "asking" THEN c
    ELSE CASE says = "text" -> [c EXCEPT !.says = @ \cup {g}]
           [] says = "done" -> [c EXCEPT !.phase = IF l = "explain" THEN "done" ELSE "rendering"]
           [] OTHER -> [c EXCEPT !.phase = "failed"]

\* spawn_visualize_render: once, when the script has come.
Renders(a) ==
    IF a.card["visualize"].phase = "rendering" /\ a.render = 0
    THEN [a EXCEPT !.renders = Append(@, [gen |-> a.gen["visualize"], state |-> "running"]),
                   !.render = Len(a.renders) + 1]
    ELSE a

\* Mutant of OnDelta: the generation is not compared.
OnAnyDelta(a, l, g, says) ==
    IF a.card[l].phase = "none" THEN a
    ELSE LET told == [a EXCEPT !.card[l] = Told(@, l, g, says)]
         IN Renders(IF says = "text" THEN told ELSE Finished(told, l, g))

\* on_explain, on_visualize.
OnDelta(a, l, g, says) ==
    IF ~Current(a, l, g) THEN a
    ELSE LET told == [a EXCEPT !.card[l] = Told(@, l, g, says)]
         IN Renders(IF says = "text" THEN told ELSE Finished(told, l, g))

\* on_visualize_render.
OnRender(a, g, says) ==
    IF ~Current(a, "visualize", g) \/ a.card["visualize"].phase # "rendering" THEN a
    ELSE [a EXCEPT !.card["visualize"].phase = says, !.render = 0]

-----------------------------------------------------------------------------
(* The user.  The UI is one thread, and a batch of events ends with        *)
(* after_events.                                                           *)

Acts == jade.state = "up" /\ ~resume /\ asks < Limit.asks /\ asks' = asks + 1

\* A card starts, and with it the server when it is needed.
Begins(a, l) ==
    /\ app' = Starts(a, l)
    /\ IF Wakes /\ l = "explain" THEN HasSlot /\ tasks' = Spawns(tasks, Task("start"))
                                 ELSE UNCHANGED tasks
    /\ UNCHANGED <<user, lock, life, stopped, pids, status, world, seen, unsent, queue, resume>>

\* explain_trigger, visualize_trigger on another selection, of the tab in front.
Asks(l) ==
    /\ Acts /\ l \in Limit.lanes
    /\ l = "visualize" => Limit.tier # "local"
    /\ Begins([app EXCEPT !.open[l] = TRUE], l)

\* The buttons of a card in front, for most failures, for an answer without text, and
\* for a video, which is made again.
Retries(l) ==
    /\ Acts /\ app.open[l]
    /\ \/ app.card[l].phase \in {"failed", "parked"}
       \/ app.card[l].phase = "done" /\ app.card[l].says = {}
       \/ app.card[l].phase = "ready"
    /\ Begins(app, l)

\* close_explain, close_visualize.
Closes(l) ==
    /\ Acts /\ app.card[l].phase # "none"
    /\ app' = [StopsWork(app, l) EXCEPT !.gen[l] = @ + 1, !.card[l] = NoCard]
    /\ UNCHANGED <<vars, seen, unsent, queue, resume>>

\* The card stays when its tab goes, and is seen again when it comes back.
TogglesTab(l) ==
    /\ Acts /\ app.card[l].phase # "none"
    /\ app' = [app EXCEPT !.open[l] = ~@, !.card[l].left = TRUE]
    /\ UNCHANGED <<vars, seen, unsent, queue, resume>>

-----------------------------------------------------------------------------
(* What runs for the cards.                                                *)

Sends(e) == queue' = Append(queue, e)
OnlyApp == UNCHANGED <<vars, seen, unsent, resume, asks>>

\* The declarations of the selection were looked up, or the budget is over.
LookupEnds(l, g) ==
    /\ <<l, g>> \in app.lookups
    /\ app' = [app EXCEPT !.lookups = @ \ {<<l, g>>}]
    /\ Sends(Event("ready", l, g, "")) /\ OnlyApp

\* run: text may come, once is enough for the properties.
StreamSays(k) ==
    /\ app.streams[k].state = "live" /\ ~app.streams[k].said
    /\ app' = [app EXCEPT !.streams[k] = [@ EXCEPT !.said = TRUE, !.sink = <<"text">>]]
    /\ UNCHANGED queue /\ OnlyApp

\* run: one end, whatever the connection does, within the request's timeout.
StreamEnds(k) ==
    /\ app.streams[k].state = "live"
    /\ \E says \in {"done", "failed"} :
         app' = [app EXCEPT !.streams[k].state = "ended", !.streams[k].sink = Append(@, says)]
    /\ UNCHANGED queue /\ OnlyApp

\* A request that was aborted while its task ran still sends what it was at.
Straggles(k) ==
    /\ app.streams[k].state = "aborted"
    /\ \E says \in {"text", "done", "failed"} :
         app' = [app EXCEPT !.streams[k].state = "ended", !.streams[k].sink = Append(@, says)]
    /\ UNCHANGED queue /\ OnlyApp

\* The task that forwards a request's deltas, those of an aborted one too.
Forwards(k) ==
    /\ app.streams[k].sink # <<>>
    /\ app' = [app EXCEPT !.streams[k].sink = Tail(@)]
    /\ Sends(Event("delta", app.streams[k].lane, app.streams[k].gen, Head(app.streams[k].sink)))
    /\ OnlyApp

\* run_render: a video or a failure.  A render that was told to stop may still
\* have a video, from the cache or because it ended at that time.
RenderEnds(i) ==
    /\ app.renders[i].state # "ended"
    /\ app' = [app EXCEPT !.renders[i].state = "ended"]
    /\ \E says \in {"ready", "failed"} :
         Sends(Event("render", "visualize", app.renders[i].gen, says))
    /\ OnlyApp

\* The task that forwards the status, the last one when there were several.
ForwardsStatus ==
    /\ unsent /\ unsent' = FALSE
    /\ Sends(Event("ai", "", 0, status.state))
    /\ UNCHANGED <<vars, seen, resume, app, asks>>

-----------------------------------------------------------------------------
(* The pump.                                                               *)

\* apply_app_event.
Applies(e) ==
    CASE e.what = "ready"  -> OnReady(app, e.lane, e.gen)
      [] e.what = "delta"  -> OnDelta(app, e.lane, e.gen, e.says)
      [] e.what = "render" -> OnRender(app, e.gen, e.says)
      [] OTHER             -> app

Pump ==
    /\ queue # <<>> /\ queue' = Tail(queue)
    /\ LET e == Head(queue)
           parks == e.what = "ready" /\ Applies(e).card[e.lane].phase # app.card[e.lane].phase
       IN /\ app' = Applies(e)
          /\ seen' = IF e.what = "ai" THEN e.says ELSE seen
          /\ resume' = (resume \/ e.what = "ai")
          /\ IF parks /\ Wakes THEN HasSlot /\ tasks' = Spawns(tasks, Task("start"))
                               ELSE UNCHANGED tasks
    /\ UNCHANGED <<user, lock, life, stopped, pids, status, world, unsent, asks>>

\* Mutant of AfterEvents: nothing is resumed.
AfterEventsForgets ==
    /\ resume /\ resume' = FALSE
    /\ UNCHANGED <<vars, seen, unsent, queue, app, asks>>

\* after_events: a parked card goes on when a model can serve it and its tab is open.
AfterEvents ==
    /\ resume /\ resume' = FALSE
    /\ app' = IF app.card["explain"].phase = "parked" /\ CanServe /\ app.open["explain"]
              THEN Starts(app, "explain") ELSE app
    /\ UNCHANGED <<vars, seen, unsent, queue, asks>>

-----------------------------------------------------------------------------
\* A status that is published is on its way to the app (set_status).  Bound: not
\* where all cards have a key, which do not look at it.
Publishes ==
    unsent' = (Limit.tier # "keyed" /\ (unsent \/ status' # status \/ jade'.run # jade.run))

\* A step of the backend, as long as Jade runs.
Backend(step) == step /\ Publishes /\ UNCHANGED <<seen, queue, resume, app, asks>>

\* The process ends, and everything it had in memory.
Ends ==
    /\ Dies
    /\ seen' = "disabled" /\ unsent' = FALSE /\ queue' = <<>> /\ resume' = FALSE
    /\ app' = NoApp
    /\ UNCHANGED asks

ChatInit ==
    /\ Init
    /\ seen = "disabled" /\ unsent = FALSE /\ queue = <<>> /\ resume = FALSE
    /\ app = NoApp /\ asks = 0

User == \E l \in Lanes : Asks(l) \/ Retries(l) \/ Closes(l) \/ TogglesTab(l)

Runs ==
    \/ \E l \in Lanes, g \in 1 .. app.gen["explain"] + app.gen["visualize"] : LookupEnds(l, g)
    \/ \E k \in DOMAIN app.streams : StreamEnds(k) \/ Forwards(k)
    \/ \E i \in DOMAIN app.renders : RenderEnds(i)
    \/ ForwardsStatus

\* The pump of a window that is open.
Drains == jade.state = "up" /\ (Pump \/ AfterEvents)

ChatNext ==
    \/ Backend((\E t \in Tasks : TaskSteps(t)) \/ (Environment /\ jade'.state # "gone"))
    \/ Ends
    \/ User \/ Runs \/ Drains
    \/ \E k \in DOMAIN app.streams : StreamSays(k) \/ Straggles(k)

ChatSpec == ChatInit /\ [][ChatNext]_allVars

\* FairSpec, and: lookups, requests and renders have their timeouts, the tasks
\* that forward run, and the pump drains.
ChatFairSpec ==
    /\ ChatSpec
    /\ \A t \in Tasks : WF_allVars(Backend(TaskSteps(t)))
    /\ SF_allVars(\E t \in Tasks : Backend(PollGivesUp(t)))
    /\ WF_allVars(Runs)
    /\ WF_allVars(Drains)

-----------------------------------------------------------------------------
(* Properties.                                                             *)

Phases == {"none", "refused", "asking", "parked", "rendering", "done", "ready", "failed"}

\* Types, with the lock of the backend.
ChatTypeOK ==
    /\ TypeOK
    /\ seen \in {"disabled", "starting", "ready", "error"}
    /\ {unsent, resume} \subseteq BOOLEAN
    /\ \A l \in Lanes :
         /\ app.card[l].phase \in Phases /\ app.card[l].gen \in 0 .. app.gen[l]
         /\ app.slot[l] \in 0 .. Len(app.streams)
    /\ app.render \in 0 .. Len(app.renders)

\* A card shows its own answer: no text of a request it superseded, or that was
\* aborted with deltas on their way, gets into it.  And nothing runs for a card
\* that is gone: a request that streams is the one its lane can cancel and has a
\* card, and a scene that renders is the one of the card that waits for it
\* (on_explain, on_visualize, on_visualize_render, close_explain, start_visualize).
ChatsStayWithTheirCards ==
    /\ \A l \in Lanes : app.card[l].says \subseteq {app.card[l].gen}
    /\ \A k \in DOMAIN app.streams : app.streams[k].state = "live" =>
         /\ app.slot[app.streams[k].lane] = k
         /\ app.card[app.streams[k].lane].phase # "none"
    /\ \A i \in DOMAIN app.renders : app.renders[i].state = "running" =>
         /\ app.render = i
         /\ app.card["visualize"].phase = "rendering"
         /\ app.card["visualize"].gen = app.renders[i].gen

Busy(l) == app.card[l].phase \in {"asking", "rendering"}
ShouldResume ==
    /\ app.card["explain"].phase = "parked" /\ ~app.card["explain"].left
    /\ status.state = "ready"
Unsettled == ShouldResume \/ \E l \in Lanes : Busy(l)

\* No card spins for ever, whatever the model, clangd, the server and the render do;
\* and a card that waits for the local model goes on once the server is ready and
\* stays so, unless its tab was closed meanwhile (run, on_explain_ready,
\* ensure_chat_model, after_events).
CardsSettle == Unsettled ~> ~Unsettled
=============================================================================
