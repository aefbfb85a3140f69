-------------------------- MODULE TelemetrySystem --------------------------
(***************************************************************************)
(* The telemetry server between its two peers: the probe injected into     *)
(* each launched program (probe/jade_probe.mm), which keys its gating by   *)
(* the current name of a buffer, and the sidebar of the app (registry.rs,  *)
(* prefs.rs and AppModel::apply in app.rs), which replays the events of    *)
(* the server into rows with checkboxes.  Three parties rename and toggle  *)
(* the same rows over FIFO queues:                                         *)
(*                                                                         *)
(*   probe --wire--> server --state.events--> sidebar                      *)
(*   probe <--state.out-- server <--set_track (a call)-- sidebar           *)
(***************************************************************************)
EXTENDS TelemetryServer

CONSTANTS
    Buf,           \* the buffers a program allocates
    Placeholder,   \* Placeholder[b]: the name before setLabel, the same every run
    Label,         \* the labels the program may give
    InitPrefs,     \* checkbox preferences the last session may have stored
    MaxToggles,    \* bound: checkbox clicks
    MaxLag         \* bound: a frame is flushed only while the queues are shorter

ASSUME PlaceholdersAreNames == Placeholder \in [Buf -> Name] /\ Label \subseteq Name
ASSUME BuffersFinite == IsFiniteSet(Buf)
ASSUME PrefsArePrefs == InitPrefs \subseteq [Name -> {"on", "off", "none"}]
ASSUME TogglesBounded == MaxToggles \in Nat

VARIABLES
    wire,       \* per client: lines written to the socket, not yet read
    probe,      \* per client: the state of its probe
    ui,         \* the sidebar's registry and the preferences
    toggles     \* checkbox clicks so far

sysVars == <<vars, wire, probe, ui, toggles>>

\* `name[b] = None`: not allocated yet.  `tracked`: JadeBufInfo.tracked.
\* `pending`: g_pendingTracked.  `owed`: the line the program's thread sends next,
\* having released g_bufLock.  `snaps`: what the control thread sends next.
ProbeState == [name : [Buf -> MaybeName], tracked : SUBSET Buf,
               pending : SUBSET Name, owed : Seq(Line), snaps : SUBSET Buf,
               exited : BOOLEAN]

\* `rows`: the registered items, `on` those checked, `seeded` those put there
\* from the preferences and not confirmed.  `prefs[n]`: "on", "off" or "none".
UiState == [rows : SUBSET Name, on : SUBSET Name, seeded : SUBSET Name,
            prefs : [Name -> {"on", "off", "none"}]]

-----------------------------------------------------------------------------
(* The probe.                                                              *)

Running(c) == conn[c] = "open" /\ ~probe[c].exited

DeclLine(n)         == [type |-> "decl", name |-> n, meta |-> TRUE, sited |-> TRUE]
RenameLine(from, n) == [type |-> "rename", from |-> from, name |-> n]
TensorLine(n)       == [type |-> "tensor", name |-> n, good |-> TRUE]

Writes(c, lines) == wire' = [wire EXCEPT ![c] = @ \o lines]

\* Under g_bufLock: buffer b gets name n, a track for which may have come.
\* The line about it is sent after the lock.
Names(c, b, n, line) ==
    /\ probe[c].owed = <<>>
    /\ probe' = [probe EXCEPT
          ![c].name[b] = n,
          ![c].tracked = IF n \in probe[c].pending THEN @ \cup {b} ELSE @,
          ![c].owed = <<line>>]
    /\ UNCHANGED <<vars, wire, ui, toggles>>

\* register_buffer: an unlabelled buffer declares its fallback name and its site.
Register(c, b) ==
    /\ Running(c)
    /\ probe[c].name[b] = None
    /\ Names(c, b, Placeholder[b], DeclLine(Placeholder[b]))

\* The setLabel: hook.  `tracked` stays set when it was; bound: a buffer is
\* labelled once.
SetLabel(c, b, label) ==
    /\ Running(c)
    /\ probe[c].name[b] = Placeholder[b]
    /\ label # Placeholder[b]
    /\ Names(c, b, label, RenameLine(Placeholder[b], label))

\* emit_json at the end of register_buffer and of the hook.
EmitOwed(c) ==
    /\ Running(c)
    /\ probe[c].owed # <<>>
    /\ Writes(c, probe[c].owed)
    /\ probe' = [probe EXCEPT ![c].owed = <<>>]
    /\ UNCHANGED <<vars, ui, toggles>>

\* handle_control_line: remember the name for buffers to come and set every
\* buffer of that name.  Those that become tracked are sent at once.
HandleControlLine(c) ==
    /\ Running(c)
    /\ probe[c].snaps = {}
    /\ state.out[c] # <<>>
    /\ LET track == Head(state.out[c])
           named == {b \in Buf : probe[c].name[b] = track.name}
       IN  probe' = [probe EXCEPT
              ![c].pending = IF track.enabled THEN @ \cup {track.name}
                                              ELSE @ \ {track.name},
              ![c].tracked = IF track.enabled THEN @ \cup named ELSE @ \ named,
              ![c].snaps = IF track.enabled THEN named \ probe[c].tracked ELSE {}]
    /\ ClientReads(c)
    /\ UNCHANGED <<wire, ui, toggles>>

\* The end of handle_control_line, after the lock: the frame has the name of now.
Snapshot(c, b) ==
    /\ Running(c)
    /\ b \in probe[c].snaps
    /\ Writes(c, <<TensorLine(probe[c].name[b])>>)
    /\ probe' = [probe EXCEPT ![c].snaps = @ \ {b}]
    /\ UNCHANGED <<vars, ui, toggles>>

\* flush_tracked_buffers after GPU work, one buffer of it.
Flush(c, b) ==
    /\ Running(c)
    /\ b \in probe[c].tracked
    /\ Len(wire[c]) + Len(state.events) < MaxLag
    /\ Writes(c, <<TensorLine(probe[c].name[b])>>)
    /\ UNCHANGED <<vars, probe, ui, toggles>>

\* The program ends, in the middle of anything when it crashes, with a last
\* flush when its destructors run.  What it wrote can still be read.
Exit(c) ==
    /\ Running(c)
    /\ probe' = [probe EXCEPT ![c].exited = TRUE, ![c].owed = <<>>, ![c].snaps = {}]
    /\ \/ UNCHANGED wire
       \/ /\ probe[c].owed = <<>>
          /\ \E last \in {q \in [1 .. Cardinality(probe[c].tracked) -> probe[c].tracked] :
                           \A b \in probe[c].tracked : \E i \in DOMAIN q : q[i] = b} :
                Writes(c, [i \in DOMAIN last |-> TensorLine(probe[c].name[last[i]])])
    /\ UNCHANGED <<vars, ui, toggles>>

-----------------------------------------------------------------------------
(* The server, driven by what its peers wrote.                             *)

\* A program is launched and its probe connects.
Launch(c) ==
    /\ Accept(c)
    /\ UNCHANGED <<wire, probe, ui, toggles>>

ServerReads(c) ==
    /\ wire[c] # <<>>
    /\ HandleLine(c, Head(wire[c]))
    /\ wire' = [wire EXCEPT ![c] = Tail(@)]
    /\ UNCHANGED <<probe, ui, toggles>>

ServerSeesExit(c) ==
    /\ probe[c].exited
    /\ wire[c] = <<>>
    /\ Disconnect(c)
    /\ UNCHANGED <<wire, probe, ui, toggles>>

Symbolicated(p) ==
    /\ Resolve(p)
    /\ UNCHANGED <<wire, probe, ui, toggles>>

-----------------------------------------------------------------------------
(* The sidebar.                                                            *)

\* Mutants of UiRename: a collision keeps the old row, the checkbox stays behind,
\* the preference is not migrated.
RenameKeepsCollided(u, from, to) ==
    IF to \in u.rows \ {from}
    THEN [u EXCEPT !.prefs[from] = "none"]
    ELSE [rows |-> IF from \in u.rows THEN (u.rows \ {from}) \cup {to} ELSE u.rows,
          on |-> IF from \in u.on THEN (u.on \ {from}) \cup {to} ELSE u.on,
          seeded |-> u.seeded \ {from},
          prefs |-> [u.prefs EXCEPT ![from] = "none"]]

RenameLeavesBox(u, from, to) ==
    [u EXCEPT !.rows = IF from \in @ THEN (@ \ {from}) \cup {to} ELSE @,
              !.seeded = @ \ {from},
              !.prefs[from] = "none"]

RenameLeavesPref(u, from, to) ==
    [u EXCEPT !.rows = IF from \in @ THEN (@ \ {from}) \cup {to} ELSE @,
              !.on = @ \ {from},
              !.seeded = @ \ {from}]

\* TelemetryRegistry::rename, then TelemetryPrefs::migrate.
UiRename(u, from, to) ==
    LET rest == u.rows \ {from}
        moves == from \in u.rows /\ to \notin rest
        checked == CASE u.prefs[to] = "on"  -> {to}
                     [] u.prefs[to] = "off" -> {}
                     [] OTHER -> IF from \in u.on THEN {to} ELSE {}
    IN  [rows |-> IF moves THEN rest \cup {to} ELSE rest,
         on |-> (u.on \ {from}) \cup (IF moves THEN checked ELSE {}),
         seeded |-> (u.seeded \ {from})
                      \cup (IF moves /\ from \in u.seeded THEN {to} ELSE {}),
         prefs |-> [u.prefs EXCEPT
                      ![from] = "none",
                      ![to] = IF @ = "none" THEN u.prefs[from] ELSE @]]

\* TelemetryRegistry::declare.
UiDeclare(u, n) ==
    IF n \in u.rows
    THEN [u EXCEPT !.seeded = @ \ {n}]
    ELSE [u EXCEPT !.rows = @ \cup {n},
                   !.on = IF u.prefs[n] = "on" THEN @ \cup {n} ELSE @ \ {n}]

\* DeclareOutcome.pref_enabled: the row's track has to go to the server.
PrefEnabled(u, n) ==
    \/ n \notin u.rows /\ u.prefs[n] = "on"
    \/ n \in u.seeded /\ n \in u.on

\* AppModel::apply for one event.
Apply ==
    /\ state.events # <<>>
    /\ LET e == Head(state.events)
           popped == [state EXCEPT !.events = Tail(@)]
           renamed == IF e.from \in {None, e.name} THEN ui
                                                   ELSE UiRename(ui, e.from, e.name)
       IN  /\ ui' = UiDeclare(renamed, e.name)
           /\ state' = IF PrefEnabled(renamed, e.name)
                       THEN SetTrack(popped, e.name, TRUE)
                       ELSE popped
    /\ UNCHANGED <<conn, listening, wire, probe, toggles>>

\* toggle_enabled: the user clicks the checkbox of a row.
Toggle(n) ==
    /\ toggles < MaxToggles
    /\ n \in ui.rows
    /\ LET on == n \notin ui.on IN
       /\ ui' = [ui EXCEPT !.on = IF on THEN @ \cup {n} ELSE @ \ {n},
                           !.prefs[n] = IF on THEN "on" ELSE "off"]
       /\ UiSetTrack(n, on)
    /\ toggles' = toggles + 1
    /\ UNCHANGED <<wire, probe>>

\* prune_stale_seeded, at the end of a run.  It keeps everything when nothing at
\* all was declared, but every probe declares the scalar probe.attached.
RunEnds ==
    /\ \E c \in Client : probe[c].exited
    /\ ui.seeded # {}
    /\ ui' = [ui EXCEPT !.rows = @ \ ui.seeded,
                        !.on = @ \ ui.seeded,
                        !.seeded = {},
                        !.prefs = [n \in Name |-> IF n \in ui.seeded THEN "off"
                                                                     ELSE @[n]]]
    /\ UNCHANGED <<vars, wire, probe, toggles>>

-----------------------------------------------------------------------------
\* seed_registry_from_prefs: a checked preference is a seeded row.
SeededUi(prefs) ==
    LET checked == {n \in Name : prefs[n] = "on"}
    IN  [rows |-> checked, on |-> checked, seeded |-> checked, prefs |-> prefs]

\* The build installs the symbolicator before the program is launched.
SysInit ==
    /\ state = [InitState EXCEPT !.symbolicator = TRUE]
    /\ conn = [c \in Client |-> "new"]
    /\ listening = TRUE
    /\ wire = [c \in Client |-> <<>>]
    /\ probe = [c \in Client |-> [name |-> [b \in Buf |-> None], tracked |-> {},
                                  pending |-> {}, owed |-> <<>>, snaps |-> {},
                                  exited |-> FALSE]]
    /\ ui \in {SeededUi(prefs) : prefs \in InitPrefs}
    /\ toggles = 0

ProbeNext ==
    \E c \in Client :
        \/ \E b \in Buf : Register(c, b) \/ Snapshot(c, b) \/ Flush(c, b)
        \/ \E b \in Buf, label \in Label : SetLabel(c, b, label)
        \/ EmitOwed(c) \/ HandleControlLine(c) \/ Exit(c)

ServerNext ==
    \/ \E c \in Client : Launch(c) \/ ServerReads(c) \/ ServerSeesExit(c)
    \/ \E p \in Name : Symbolicated(p)

UiNext ==
    \/ Apply
    \/ \E n \in Name : Toggle(n)
    \/ RunEnds

SysNext == ProbeNext \/ ServerNext \/ UiNext

SysSpec == SysInit /\ [][SysNext]_sysVars

-----------------------------------------------------------------------------
(* Properties.                                                             *)

SysTypeOK ==
    /\ TypeOK
    /\ wire \in [Client -> Seq(Line)]
    /\ probe \in [Client -> ProbeState]
    /\ ui \in UiState
    /\ ui.on \cup ui.seeded \subseteq ui.rows
    /\ toggles \in 0 .. MaxToggles

\* Nothing is on its way to or from client c, and no symbolication is running.
Settled(c) ==
    /\ Running(c)
    /\ probe[c].owed = <<>> /\ probe[c].snaps = {}
    /\ wire[c] = <<>>
    /\ state.out[c] = <<>>
    /\ state.events = <<>>
    /\ state.alias_pending = {}

\* Once everything in flight has arrived, a row whose checkbox the server holds
\* checked is streamed by every probe that has labelled a buffer so: selecting
\* before the launch, before the label and while the label's decl is in flight
\* all end the same (the replay on connect, g_pendingTracked, and the second
\* broadcast of handle_line).  CheckedRowReachesItsBuffer is about the buffers
\* that are known by an alias too.
CheckedLabelIsStreamed ==
    \A c \in Client, b \in Buf :
        (/\ Settled(c)
         /\ probe[c].name[b] \in state.enabled \ {Placeholder[b]})
            => b \in probe[c].tracked

\* The rows of the sidebar, apart from seeds, are the rows of the server once
\* the sidebar has applied every event: no row is left behind by a rename, none
\* is lost to a collision, whatever it was seeded with and wherever it pruned.
\* And at any time a checkbox preference that is on has a row to switch it off
\* again (prefs are migrated with every rename and cleared by every prune).
SidebarMatchesServer ==
    /\ state.events = <<>> => ui.rows \ ui.seeded = state.items
    /\ \A n \in Name : ui.prefs[n] = "on" => n \in ui.rows

\* A checked row reaches the buffer whose frames it would show.
CheckedRowReachesItsBuffer ==
    \A c \in Client, b \in Buf :
        (/\ Settled(c)
         /\ probe[c].name[b] # None
         /\ DisplayName(state, probe[c].name[b]) \in state.enabled)
            => b \in probe[c].tracked

\* A probe streams only the buffers whose names it was told to stream: the
\* names of the last enabled:true tracks are what g_pendingTracked holds.
StreamsOnlyWhatItWasTold ==
    \A c \in Client, b \in Buf :
        Settled(c) /\ b \in probe[c].tracked
            => probe[c].name[b] \in probe[c].pending
=============================================================================
