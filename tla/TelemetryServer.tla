-------------------------- MODULE TelemetryServer --------------------------
(***************************************************************************)
(* The telemetry server of the IDE (jade-telemetry/src/server.rs): the     *)
(* registry of rows behind one mutex, the two-way alias maps, the          *)
(* symbolication jobs in flight, one outgoing control queue per client     *)
(* and the event queue to the UI.                                          *)
(*                                                                         *)
(* Every registry key starts with the kind, so scalars, timers and buffers *)
(* never meet.  This module is about the buffers, the only kind with       *)
(* aliases and gating.  Of an Item it keeps `enabled`; max_dim, meta and   *)
(* the shape hint are data that no property tells apart.                   *)
(*                                                                         *)
(* `state` is the Rust struct State.  The methods of State are operators   *)
(* from a state to the next one, because a handler makes several calls     *)
(* under one lock; an action is one critical section.                      *)
(***************************************************************************)
EXTENDS Naturals, Sequences, FiniteSets

CONSTANTS
    Name,       \* buffer names: placeholders, labels and aliases
    Client,     \* connections; the ids are never used twice
    Base,       \* the dotted scope chains symbolication can recover
    Suffix,     \* Suffix[a] = <<a, "a#2", "a#3", ...>> for a \in Base
    None        \* no name

ASSUME NamesFinite == IsFiniteSet(Name)
ASSUME NoneIsNoName == None \notin Name
ASSUME SuffixesAreNames == Base \subseteq Name /\ Suffix \in [Base -> Seq(Name)]

VARIABLES
    state,      \* the struct State under the mutex
    conn,       \* per client: "new", "open" (its reader runs) or "closed"
    listening   \* the accept task runs

vars == <<state, conn, listening>>

MaybeName == Name \cup {None}

Track == [name : Name, enabled : BOOLEAN]
Event == [type : {"decl", "tensor"}, name : Name, from : MaybeName]
\* What a client sends.  `meta`: the decl carries a meta object; `sited`: that
\* meta holds a non-empty addrs array and a load address; `good`: the payload
\* of the tensor decodes.
Line ==
    [type : {"decl"}, name : Name, meta : BOOLEAN, sited : BOOLEAN]
      \cup [type : {"rename"}, from : Name, name : Name]
      \cup [type : {"tensor"}, name : Name, good : BOOLEAN]

State ==
    [items : SUBSET Name,                  \* registered rows
     enabled : SUBSET Name,                \* rows whose Item.enabled is set
     probe_names : [Name -> MaybeName],    \* alias -> probe name
     display_names : [Name -> MaybeName],  \* probe name -> alias
     clients : SUBSET Client,
     out : [Client -> Seq(Track)],         \* queued and unread control lines
     events : Seq(Event),
     alias_pending : SUBSET Name,
     symbolicator : BOOLEAN]

InitState ==
    [items |-> {}, enabled |-> {},
     probe_names |-> [n \in Name |-> None],
     display_names |-> [n \in Name |-> None],
     clients |-> {}, out |-> [c \in Client |-> <<>>],
     events |-> <<>>, alias_pending |-> {}, symbolicator |-> FALSE]

-----------------------------------------------------------------------------
(* The methods of State.                                                   *)

DisplayName(s, n) == IF s.display_names[n] = None THEN n ELSE s.display_names[n]
ProbeName(s, n)   == IF s.probe_names[n] = None THEN n ELSE s.probe_names[n]

Decl(n, from) == [type |-> "decl", name |-> n, from |-> from]
Frame(n)      == [type |-> "tensor", name |-> n, from |-> None]

Emit(s, e) == [s EXCEPT !.events = Append(@, e)]

\* A new row is announced; a known one is announced again when meta came along.
Declare(s, n, meta) ==
    IF n \in s.items /\ ~meta
    THEN s
    ELSE Emit([s EXCEPT !.items = @ \cup {n}], Decl(n, None))

\* Mutant of Rename: the old name keeps its checkbox.
RenameKeepsOldBox(s, from, to) ==
    LET rest == s.items \ {from}
        moved == IF from \in s.enabled /\ to \notin rest THEN {to} ELSE {}
    IN  Emit([s EXCEPT !.items = rest \cup {to}, !.enabled = @ \cup moved],
             Decl(to, from))

\* The entry moves with its checkbox unless the destination is a row already.
Rename(s, from, to) ==
    LET rest == s.items \ {from}
        moved == IF from \in s.enabled /\ to \notin rest THEN {to} ELSE {}
    IN  Emit([s EXCEPT !.items = rest \cup {to},
                       !.enabled = (@ \ {from}) \cup moved],
             Decl(to, from))

TrackLine(s, n) == [name |-> ProbeName(s, n), enabled |-> n \in s.enabled]

Broadcast(s, n) ==
    [s EXCEPT !.out = [c \in Client |-> IF c \in s.clients
                                        THEN Append(@[c], TrackLine(s, n))
                                        ELSE @[c]]]

\* Mutant of UniqueAlias: the suffix is never tried.
AliasUnsuffixed(s, base, alias) == alias = base

\* The first variant of the chain that is no alias yet.  Rows are not consulted.
UniqueAlias(s, base, alias) ==
    \E k \in DOMAIN Suffix[base] :
        /\ alias = Suffix[base][k]
        /\ s.probe_names[alias] = None
        /\ \A j \in 1 .. k - 1 : s.probe_names[Suffix[base][j]] # None

\* apply_symbolicated_alias; alias = None when no variable name was recovered.
ApplyAlias(s, p, alias) ==
    LET done == [s EXCEPT !.alias_pending = @ \ {p}]
    IN  IF alias \in {None, p}
        THEN done
        ELSE Rename([done EXCEPT !.probe_names[alias] = p,
                                 !.display_names[p] = alias],
                    p, alias)

-----------------------------------------------------------------------------
(* The handlers of one line of a client (handle_line).                     *)

\* Mutants of ProbeRenames: the reverse translation survives; the track is not
\* sent again.
RenameKeepsReverse(s, from, to) ==
    LET moved == Rename([s EXCEPT !.display_names[from] = None],
                        DisplayName(s, from), to)
    IN  IF to \in moved.enabled THEN Broadcast(moved, to) ELSE moved

RenameIsSilent(s, from, to) ==
    LET alias == s.display_names[from]
        forgot == [s EXCEPT !.display_names[from] = None,
                            !.probe_names = IF alias = None
                                            THEN @
                                            ELSE [@ EXCEPT ![alias] = None]]
    IN  Rename(forgot, DisplayName(s, from), to)

\* The client now speaks the new name: its alias is dropped, the row moves, and
\* the track of an enabled row goes out again under the new name.
ProbeRenames(s, from, to) ==
    LET alias == s.display_names[from]
        forgot == [s EXCEPT !.display_names[from] = None,
                            !.probe_names = IF alias = None
                                            THEN @
                                            ELSE [@ EXCEPT ![alias] = None]]
        moved == Rename(forgot, DisplayName(s, from), to)
    IN  IF to \in moved.enabled THEN Broadcast(moved, to) ELSE moved

\* maybe_symbolicate: a site is looked up once at a time.
Queue(s, n, sited) ==
    [s EXCEPT !.alias_pending = @ \cup IF sited /\ s.symbolicator THEN {n} ELSE {}]

\* Mutant of ProbeDeclares: a buffer that has an alias is queued again.
DeclareRequeues(s, n, meta, sited) ==
    Queue(Declare(s, DisplayName(s, n), meta), n, sited)

\* A buffer that has an alias is declared under it.  Another one is declared as
\* it is, and its site is queued for symbolication.
ProbeDeclares(s, n, meta, sited) ==
    LET declared == Declare(s, DisplayName(s, n), meta)
    IN  IF s.display_names[n] = None THEN Queue(declared, n, sited) ELSE declared

\* A frame registers its row, and goes on to the UI only when that is enabled.
ProbeSendsTensor(s, n, good) ==
    LET row == DisplayName(s, n)
        declared == Declare(s, row, TRUE)
    IN  IF row \in s.enabled /\ good THEN Emit(declared, Frame(row)) ELSE declared

Handle(s, l) ==
    CASE l.type = "decl"   -> ProbeDeclares(s, l.name, l.meta, l.sited)
      [] l.type = "rename" -> ProbeRenames(s, l.from, l.name)
      [] l.type = "tensor" -> ProbeSendsTensor(s, l.name, l.good)

\* UI -> server.
SetTrack(s, n, on) ==
    LET declared == Declare(s, n, FALSE)
    IN  Broadcast([declared EXCEPT !.enabled = IF on THEN @ \cup {n} ELSE @ \ {n}],
                  n)

-----------------------------------------------------------------------------
(* The critical sections.                                                  *)

\* The lines replayed to a new client: one per enabled row, in any order (the
\* registry is a hash map).
Replays(s) ==
    {[i \in DOMAIN order |-> TrackLine(s, order[i])] :
        order \in {q \in [1 .. Cardinality(s.enabled) -> s.enabled] :
                      \A n \in s.enabled : \E i \in DOMAIN q : q[i] = n}}

\* A client connects: replay and registration under one lock.
Accept(c) ==
    /\ listening
    /\ conn[c] = "new"
    /\ conn' = [conn EXCEPT ![c] = "open"]
    /\ \E lines \in Replays(state) :
          state' = [state EXCEPT !.clients = @ \cup {c}, !.out[c] = lines]
    /\ UNCHANGED listening

HandleLine(c, l) ==
    /\ conn[c] = "open"
    /\ state' = Handle(state, l)
    /\ UNCHANGED <<conn, listening>>

\* End of file: the client is forgotten and its writer task aborted.
Disconnect(c) ==
    /\ conn[c] = "open"
    /\ conn' = [conn EXCEPT ![c] = "closed"]
    /\ state' = [state EXCEPT !.clients = @ \ {c}, !.out[c] = <<>>]
    /\ UNCHANGED listening

\* A write fails: the writer task ends with its queue, and the next broadcast
\* forgets the client, whose lines are still read.
WriterFails(c) ==
    /\ conn[c] = "open"
    /\ c \in state.clients
    /\ state' = [state EXCEPT !.clients = @ \ {c}, !.out[c] = <<>>]
    /\ UNCHANGED <<conn, listening>>

\* The sidebar ticks or unticks a row.
UiSetTrack(n, on) ==
    /\ state' = SetTrack(state, n, on)
    /\ UNCHANGED <<conn, listening>>

SetSymbolicator ==
    /\ state' = [state EXCEPT !.symbolicator = TRUE]
    /\ UNCHANGED <<conn, listening>>

\* The worker applies one resolved job.  The jobs in flight are exactly the
\* names in alias_pending.  Batches and groups form as the jobs happen to
\* arrive, so a group applied under one lock is a run of such steps.
Resolve(p) ==
    /\ p \in state.alias_pending
    /\ \/ state' = ApplyAlias(state, p, None)
       \/ \E base \in Base, alias \in Name :
             /\ UniqueAlias(state, base, alias)
             /\ state' = ApplyAlias(state, p, alias)
    /\ UNCHANGED <<conn, listening>>

\* Senders are dropped; readers that are still connected keep running.
Stop ==
    /\ listening
    /\ listening' = FALSE
    /\ state' = [state EXCEPT !.clients = {}]
    /\ UNCHANGED conn

\* The far ends of the queues: the UI and the clients read what was queued.
UiReads ==
    /\ state.events # <<>>
    /\ state' = [state EXCEPT !.events = Tail(@)]
    /\ UNCHANGED <<conn, listening>>

ClientReads(c) ==
    /\ state.out[c] # <<>>
    /\ state' = [state EXCEPT !.out[c] = Tail(@)]
    /\ UNCHANGED <<conn, listening>>

-----------------------------------------------------------------------------
Init ==
    /\ state = InitState
    /\ conn = [c \in Client |-> "new"]
    /\ listening = TRUE

\* `from # to`: a decl whose renamedFrom is its own name is a plain decl.
Renames == {l \in Line : l.type = "rename" /\ l.from # l.name}
Decls   == {l \in Line : l.type = "decl" /\ (l.sited => l.meta)}
Tensors == {l \in Line : l.type = "tensor"}

Next ==
    \/ \E c \in Client :
          Accept(c) \/ Disconnect(c) \/ WriterFails(c) \/ ClientReads(c)
    \/ \E c \in Client, l \in Renames \cup Decls \cup Tensors : HandleLine(c, l)
    \/ \E n \in Name, on \in BOOLEAN : UiSetTrack(n, on)
    \/ \E p \in Name : Resolve(p)
    \/ SetSymbolicator \/ Stop \/ UiReads

Spec == Init /\ [][Next]_vars

-----------------------------------------------------------------------------
(* Properties.                                                             *)

\* The types of the server's state; an enabled row is a registered row.
TypeOK ==
    /\ state \in State
    /\ state.enabled \subseteq state.items
    /\ conn \in [Client -> {"new", "open", "closed"}]
    /\ listening \in BOOLEAN

\* The two alias maps are inverse to each other, whatever order symbolication
\* results, labels, re-declarations and frames of several clients arrive in:
\* no alias serves two probe names, and the track of an aliased row goes back
\* under the name its probe speaks (State.probe_names and display_names).
AliasMapsInverse ==
    \A p, a \in Name : state.display_names[p] = a <=> state.probe_names[a] = p

\* A name whose symbolication is in flight has no alias, so applying the
\* result overwrites none (alias_pending in maybe_symbolicate).
PendingUnaliased ==
    \A p \in state.alias_pending : state.display_names[p] = None

\* An alias is given away only by the rename of the buffer it stands for: it
\* never passes from one probe name to another in one step.
AliasNeverReassigned ==
    [][\A a \in Name :
          state.probe_names[a] # None
            => state'.probe_names[a] \in {None, state.probe_names[a]}]_vars
=============================================================================
