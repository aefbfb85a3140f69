----------------------- MODULE TelemetryServerProofs -----------------------
(***************************************************************************)
(* The invariants of TelemetryServer and of TelemetrySystem, the server    *)
(* between its probes and the sidebar, hold for any set of names, clients  *)
(* and buffers, any chains of alias variants, any order of the handlers    *)
(* and queues of any length.                                               *)
(*                                                                         *)
(* AliasMapsInverse is not inductive by itself: the alias of a finished    *)
(* symbolication may overwrite an older one unless the name had none,      *)
(* which is PendingUnaliased.  Both are about the record `state` alone, so *)
(* they are proved of the operators first, one lemma each.                 *)
(*                                                                         *)
(* The two invariants of the composed system speak of empty queues only.   *)
(* What is inductive says what a queue on its way will do to a name: the   *)
(* last event about it decides whether it is a row (Told), the last track  *)
(* about it whether the probe remembers it (Relayed).                      *)
(***************************************************************************)
EXTENDS TelemetrySystem, FiniteSetTheorems, TLAPS

\* The inductive invariant, as a predicate on the struct State.
Sound(s) ==
    /\ s \in State
    /\ s.enabled \subseteq s.items
    /\ \A p, a \in Name : s.display_names[p] = a <=> s.probe_names[a] = p
    /\ \A p \in s.alias_pending : s.display_names[p] = None

IInv ==
    /\ Sound(state)
    /\ conn \in [Client -> {"new", "open", "closed"}]
    /\ listening \in BOOLEAN

\* The registry operators leave the alias maps and the jobs alone.
SameAliases(s, t) ==
    /\ t.display_names = s.display_names
    /\ t.probe_names = s.probe_names
    /\ t.alias_pending = s.alias_pending
    /\ t.symbolicator = s.symbolicator
    /\ t.clients = s.clients

\* No alias passes from one probe name to another.
AliasesStay(s, t) ==
    \A a \in Name : s.probe_names[a] # None
                      => t.probe_names[a] \in {None, s.probe_names[a]}

-----------------------------------------------------------------------------
(* Types.                                                                  *)

\* DisplayName and ProbeName return names.
LEMMA NamesOfNames ==
    ASSUME NEW s \in State, NEW n \in Name
    PROVE  DisplayName(s, n) \in Name /\ ProbeName(s, n) \in Name
BY DEF State, MaybeName, DisplayName, ProbeName

\* An announcement is an event.
LEMMA DeclType ==
    ASSUME NEW n \in Name, NEW from \in MaybeName
    PROVE  Decl(n, from) \in Event
BY DEF Decl, Event

LEMMA FrameType ==
    ASSUME NEW n \in Name
    PROVE  Frame(n) \in Event
BY DEF Frame, Event, MaybeName

LEMMA TrackLineType ==
    ASSUME NEW s \in State, NEW n \in Name
    PROVE  TrackLine(s, n) \in Track
BY NamesOfNames DEF TrackLine, Track

-----------------------------------------------------------------------------
(* The operators on State.                                                 *)

\* An event changes only the event queue.
LEMMA EmitSound ==
    ASSUME NEW s, Sound(s), NEW e \in Event
    PROVE  /\ Sound(Emit(s, e))
           /\ SameAliases(s, Emit(s, e))
           /\ Emit(s, e).items = s.items
           /\ Emit(s, e).enabled = s.enabled
<1>1. s \in State /\ Append(s.events, e) \in Seq(Event)
  BY DEF Sound, State
<1>2. Emit(s, e) \in State
  BY <1>1 DEF State, Emit
<1>3. Emit(s, e) = [s EXCEPT !.events = Append(@, e)]
  BY DEF Emit
<1>4. SameAliases(s, Emit(s, e)) /\ Emit(s, e).items = s.items
                                 /\ Emit(s, e).enabled = s.enabled
  BY <1>1, <1>3 DEF SameAliases, State
<1> QED
  BY <1>2, <1>4 DEF Sound, SameAliases

\* A declared row is registered; nothing but rows and events changes.
LEMMA DeclareSound ==
    ASSUME NEW s, Sound(s), NEW n \in Name, NEW meta \in BOOLEAN
    PROVE  /\ Sound(Declare(s, n, meta))
           /\ SameAliases(s, Declare(s, n, meta))
           /\ Declare(s, n, meta).items = s.items \cup {n}
           /\ Declare(s, n, meta).enabled = s.enabled
<1> DEFINE t == [s EXCEPT !.items = @ \cup {n}]
<1>1. CASE n \in s.items /\ ~meta
  <2>1. Declare(s, n, meta) = s
    BY <1>1 DEF Declare
  <2> QED
    BY <1>1, <2>1 DEF SameAliases
<1>2. CASE ~(n \in s.items /\ ~meta)
  <2>1. Declare(s, n, meta) = Emit(t, Decl(n, None))
    BY <1>2 DEF Declare
  <2>2. s \in State /\ s.items \cup {n} \in SUBSET Name
    BY DEF Sound, State
  <2>3. t \in State
    BY <2>2 DEF State
  <2>4. SameAliases(s, t) /\ t.items = s.items \cup {n} /\ t.enabled = s.enabled
    BY <2>2 DEF State, SameAliases
  <2>5. Sound(t)
    BY <2>3, <2>4 DEF Sound, SameAliases
  <2>6. Decl(n, None) \in Event
    BY DeclType DEF MaybeName
  <2> HIDE DEF t
  <2> QED
    BY <2>1, <2>4, <2>5, <2>6, EmitSound DEF SameAliases
<1> QED
  BY <1>1, <1>2

\* A rename moves a row and its checkbox; the alias maps are the caller's.
LEMMA RenameSound ==
    ASSUME NEW s, Sound(s), NEW from \in Name, NEW to \in Name
    PROVE  /\ Sound(Rename(s, from, to))
           /\ SameAliases(s, Rename(s, from, to))
           /\ to \in Rename(s, from, to).items
<1> DEFINE rest == s.items \ {from}
           moved == IF from \in s.enabled /\ to \notin rest THEN {to} ELSE {}
           t == [s EXCEPT !.items = rest \cup {to},
                          !.enabled = (@ \ {from}) \cup moved]
<1>1. Rename(s, from, to) = Emit(t, Decl(to, from))
  BY DEF Rename
<1>2. /\ s \in State
      /\ rest \cup {to} \in SUBSET Name
      /\ (s.enabled \ {from}) \cup moved \in SUBSET Name
      /\ (s.enabled \ {from}) \cup moved \subseteq rest \cup {to}
  BY DEF Sound, State
<1>3. t \in State
  BY <1>2 DEF State
<1>4. /\ SameAliases(s, t)
      /\ t.items = rest \cup {to} /\ t.enabled = (s.enabled \ {from}) \cup moved
  BY <1>2 DEF State, SameAliases
<1> HIDE DEF t, rest, moved
<1>5. Sound(t)
  BY <1>2, <1>3, <1>4 DEF Sound, SameAliases
<1>6. Decl(to, from) \in Event
  BY DeclType DEF MaybeName
<1> QED
  BY <1>1, <1>4, <1>5, <1>6, EmitSound DEF SameAliases

\* A track reaches every connected client and changes nothing else.
LEMMA BroadcastSound ==
    ASSUME NEW s, Sound(s), NEW n \in Name
    PROVE  Sound(Broadcast(s, n)) /\ SameAliases(s, Broadcast(s, n))
<1> DEFINE queues == [c \in Client |-> IF c \in s.clients
                                       THEN Append(s.out[c], TrackLine(s, n))
                                       ELSE s.out[c]]
<1>1. s \in State /\ TrackLine(s, n) \in Track
  BY TrackLineType DEF Sound
<1>2. queues \in [Client -> Seq(Track)]
  BY <1>1 DEF State
<1>3. Broadcast(s, n) = [s EXCEPT !.out = queues]
  BY DEF Broadcast
<1> HIDE DEF queues
<1>4. Broadcast(s, n) \in State
  BY <1>1, <1>2, <1>3 DEF State
<1>5. /\ SameAliases(s, Broadcast(s, n))
      /\ Broadcast(s, n).items = s.items
      /\ Broadcast(s, n).enabled = s.enabled
  BY <1>1, <1>3 DEF State, SameAliases
<1> QED
  BY <1>4, <1>5 DEF Sound, SameAliases

\* The state in which alias a stands for p, before the row moves.
Aliased(s, p, a) ==
    [[s EXCEPT !.alias_pending = @ \ {p}] EXCEPT !.probe_names[a] = p,
                                                 !.display_names[p] = a]

\* The registry and the queues of two states are the same.
SameRegistry(s, t) ==
    /\ t.items = s.items
    /\ t.enabled = s.enabled
    /\ t.clients = s.clients
    /\ t.out = s.out
    /\ t.events = s.events

\* A name in alias_pending takes an alias that stands for no other name: the
\* maps stay inverse.
LEMMA AliasedSound ==
    ASSUME NEW s, Sound(s), NEW p \in s.alias_pending, NEW alias \in Name,
           s.probe_names[alias] = None
    PROVE  /\ Sound(Aliased(s, p, alias))
           /\ AliasesStay(s, Aliased(s, p, alias))
           /\ SameRegistry(s, Aliased(s, p, alias))
           /\ Aliased(s, p, alias).probe_names = [s.probe_names EXCEPT ![alias] = p]
           /\ Aliased(s, p, alias).alias_pending = s.alias_pending \ {p}
<1> DEFINE t == Aliased(s, p, alias)
           probes == [s.probe_names EXCEPT ![alias] = p]
           displays == [s.display_names EXCEPT ![p] = alias]
<1>1. s \in State /\ p \in Name
  BY DEF Sound, State
<1>2. probes \in [Name -> MaybeName] /\ displays \in [Name -> MaybeName]
  BY <1>1 DEF State, MaybeName
<1>3. t = [s EXCEPT !.alias_pending = s.alias_pending \ {p},
                    !.probe_names = probes, !.display_names = displays]
  BY <1>1 DEF Aliased, State
<1> HIDE DEF t
<1>4. /\ SameRegistry(s, t)
      /\ t.probe_names = probes /\ t.display_names = displays
      /\ t.alias_pending = s.alias_pending \ {p}
  <2> HIDE DEF probes, displays
  <2> QED
    BY <1>1, <1>3 DEF State, SameRegistry
<1>5. t \in State
  <2> HIDE DEF probes, displays
  <2> QED
    BY <1>1, <1>2, <1>3 DEF State
<1>6. s.display_names[p] = None
  BY DEF Sound
<1>7. ASSUME NEW q \in Name, NEW a \in Name
      PROVE  t.display_names[q] = a <=> t.probe_names[a] = q
  <2>1. s.display_names[q] = a <=> s.probe_names[a] = q
    BY DEF Sound
  <2>2. t.display_names[q] = IF q = p THEN alias ELSE s.display_names[q]
    BY <1>1, <1>4 DEF State
  <2>3. t.probe_names[a] = IF a = alias THEN p ELSE s.probe_names[a]
    BY <1>1, <1>4 DEF State
  <2> QED
    BY <1>6, <2>1, <2>2, <2>3, NoneIsNoName
<1>8. ASSUME NEW q \in t.alias_pending
      PROVE  t.display_names[q] = None
  <2>1. q \in s.alias_pending /\ q # p /\ q \in Name
    BY <1>1, <1>4 DEF State
  <2>2. t.display_names[q] = s.display_names[q]
    BY <1>1, <1>4, <2>1 DEF State
  <2> QED
    BY <2>1, <2>2 DEF Sound
<1>9. t.enabled \subseteq t.items
  BY <1>4 DEF SameRegistry, Sound
<1>10. Sound(t)
  BY <1>5, <1>7, <1>8, <1>9 DEF Sound
<1>11. AliasesStay(s, t)
  BY <1>1, <1>4 DEF State, AliasesStay
<1> QED
  BY <1>4, <1>10, <1>11 DEF t

\* A result is applied to a name without an alias, or comes to nothing.
LEMMA ApplyAliasSound ==
    ASSUME NEW s, Sound(s), NEW p \in s.alias_pending, NEW alias \in MaybeName,
           alias # None => s.probe_names[alias] = None
    PROVE  Sound(ApplyAlias(s, p, alias)) /\ AliasesStay(s, ApplyAlias(s, p, alias))
<1> DEFINE done == [s EXCEPT !.alias_pending = @ \ {p}]
<1>1. s \in State /\ p \in Name
  BY DEF Sound, State
<1>2. CASE alias \in {None, p}
  <2>1. done \in State
    BY <1>1 DEF State
  <2>2. /\ done.items = s.items /\ done.enabled = s.enabled
        /\ done.probe_names = s.probe_names
        /\ done.display_names = s.display_names
        /\ done.alias_pending = s.alias_pending \ {p}
    BY <1>1 DEF State
  <2>3. Sound(done)
    BY <2>1, <2>2 DEF Sound
  <2> QED
    BY <1>2, <2>2, <2>3 DEF ApplyAlias, AliasesStay
<1>3. CASE alias \notin {None, p}
  <2>1. ApplyAlias(s, p, alias) = Rename(Aliased(s, p, alias), p, alias)
    BY <1>3 DEF ApplyAlias, Aliased
  <2>2. alias \in Name /\ s.probe_names[alias] = None
    BY <1>3 DEF MaybeName
  <2>3. Sound(Aliased(s, p, alias)) /\ AliasesStay(s, Aliased(s, p, alias))
    BY <2>2, AliasedSound
  <2>4. /\ Sound(Rename(Aliased(s, p, alias), p, alias))
        /\ SameAliases(Aliased(s, p, alias), Rename(Aliased(s, p, alias), p, alias))
    BY <1>1, <2>2, <2>3, RenameSound
  <2> QED
    BY <2>1, <2>3, <2>4 DEF AliasesStay, SameAliases
<1> QED
  BY <1>2, <1>3

\* A site that is queued belongs to a name without an alias.
LEMMA QueueSound ==
    ASSUME NEW s, Sound(s), NEW n \in Name, s.display_names[n] = None,
           NEW sited \in BOOLEAN
    PROVE  Sound(Queue(s, n, sited))
<1> DEFINE more == s.alias_pending \cup IF sited /\ s.symbolicator THEN {n} ELSE {}
<1>1. s \in State /\ more \in SUBSET Name
  BY DEF Sound, State
<1>2. Queue(s, n, sited) = [s EXCEPT !.alias_pending = more]
  BY DEF Queue
<1>3. \A q \in more : s.display_names[q] = None
  BY DEF Sound
<1> HIDE DEF more
<1>4. Queue(s, n, sited) \in State
  BY <1>1, <1>2 DEF State
<1>5. /\ Queue(s, n, sited).items = s.items
      /\ Queue(s, n, sited).enabled = s.enabled
      /\ Queue(s, n, sited).probe_names = s.probe_names
      /\ Queue(s, n, sited).display_names = s.display_names
      /\ Queue(s, n, sited).alias_pending = more
  BY <1>1, <1>2 DEF State
<1> QED
  BY <1>3, <1>4, <1>5 DEF Sound

-----------------------------------------------------------------------------
(* The handlers.                                                           *)

\* A declaration never gives a name an alias, and queues only what has none.
LEMMA ProbeDeclaresSound ==
    ASSUME NEW s, Sound(s), NEW n \in Name,
           NEW meta \in BOOLEAN, NEW sited \in BOOLEAN
    PROVE  /\ Sound(ProbeDeclares(s, n, meta, sited))
           /\ ProbeDeclares(s, n, meta, sited).probe_names = s.probe_names
<1> DEFINE declared == Declare(s, DisplayName(s, n), meta)
<1>1. DisplayName(s, n) \in Name
  BY NamesOfNames DEF Sound
<1>2. Sound(declared) /\ SameAliases(s, declared)
  BY <1>1, DeclareSound
<1>3. ProbeDeclares(s, n, meta, sited)
        = IF s.display_names[n] = None THEN Queue(declared, n, sited) ELSE declared
  BY DEF ProbeDeclares
<1> HIDE DEF declared
<1>4. Queue(declared, n, sited).probe_names = declared.probe_names
  BY <1>2 DEF Queue, Sound, State
<1> QED
  BY <1>2, <1>3, <1>4, QueueSound DEF SameAliases

\* A frame touches rows and events only.
LEMMA ProbeSendsTensorSound ==
    ASSUME NEW s, Sound(s), NEW n \in Name, NEW good \in BOOLEAN
    PROVE  /\ Sound(ProbeSendsTensor(s, n, good))
           /\ ProbeSendsTensor(s, n, good).probe_names = s.probe_names
<1> DEFINE row == DisplayName(s, n)
           declared == Declare(s, row, TRUE)
<1>1. row \in Name
  BY NamesOfNames DEF Sound
<1>2. Sound(declared) /\ SameAliases(s, declared)
  BY <1>1, DeclareSound
<1>3. Frame(row) \in Event
  BY <1>1, FrameType
<1>4. ProbeSendsTensor(s, n, good) \in {declared, Emit(declared, Frame(row))}
  BY DEF ProbeSendsTensor
<1> HIDE DEF row, declared
<1> QED
  BY <1>2, <1>3, <1>4, EmitSound DEF SameAliases

\* The state in which the buffer `from` has no alias, before its row moves.
Forgot(s, from) ==
    [s EXCEPT !.display_names[from] = None,
              !.probe_names = IF s.display_names[from] = None
                              THEN @
                              ELSE [@ EXCEPT ![s.display_names[from]] = None]]

\* Both directions of an alias are dropped.
LEMMA ForgotSound ==
    ASSUME NEW s, Sound(s), NEW from \in Name
    PROVE  /\ Sound(Forgot(s, from))
           /\ SameRegistry(s, Forgot(s, from))
           /\ Forgot(s, from).alias_pending = s.alias_pending
           /\ \A a \in Name : /\ Forgot(s, from).probe_names[a]
                                   \in {None, s.probe_names[a]}
                              /\ Forgot(s, from).display_names[a]
                                   \in {None, s.display_names[a]}
<1> DEFINE alias == s.display_names[from]
           probes == IF alias = None THEN s.probe_names
                     ELSE [s.probe_names EXCEPT ![alias] = None]
           displays == [s.display_names EXCEPT ![from] = None]
           t == Forgot(s, from)
<1>1. s \in State /\ alias \in MaybeName
  BY DEF Sound, State
<1>2. probes \in [Name -> MaybeName] /\ displays \in [Name -> MaybeName]
  BY <1>1 DEF State, MaybeName
<1>3. t = [s EXCEPT !.display_names = displays, !.probe_names = probes]
  BY <1>1 DEF State, Forgot
<1>4. \A a \in Name : probes[a] = IF a = alias THEN None ELSE s.probe_names[a]
  BY <1>1, NoneIsNoName DEF State, MaybeName
<1>5. \A q \in Name : displays[q] = IF q = from THEN None ELSE s.display_names[q]
  BY <1>1 DEF State
<1> HIDE DEF probes, displays, t
<1>6. /\ SameRegistry(s, t) /\ t.alias_pending = s.alias_pending
      /\ t.probe_names = probes /\ t.display_names = displays
  BY <1>1, <1>3 DEF State, SameRegistry
<1>7. t \in State
  BY <1>1, <1>2, <1>3 DEF State
<1>8. ASSUME NEW q \in Name, NEW a \in Name
      PROVE  t.display_names[q] = a <=> t.probe_names[a] = q
  <2>1. s.display_names[q] = a <=> s.probe_names[a] = q
    BY DEF Sound
  <2>2. s.display_names[from] = a <=> s.probe_names[a] = from
    BY DEF Sound
  <2> QED
    BY <1>4, <1>5, <1>6, <2>1, <2>2, NoneIsNoName
<1>9. ASSUME NEW q \in t.alias_pending
      PROVE  t.display_names[q] = None
  <2>1. q \in Name /\ s.display_names[q] = None
    BY <1>1, <1>6 DEF Sound, State
  <2> QED
    BY <1>5, <1>6, <2>1
<1>10. t.enabled \subseteq t.items
  BY <1>6 DEF SameRegistry, Sound
<1>11. Sound(t)
  BY <1>7, <1>8, <1>9, <1>10 DEF Sound
<1> QED
  BY <1>4, <1>5, <1>6, <1>11 DEF t

\* What a label does: the alias goes, the row moves, the track may go out again.
LEMMA ProbeRenamesIs ==
    ASSUME NEW s, NEW from, NEW to
    PROVE  ProbeRenames(s, from, to)
             = LET moved == Rename(Forgot(s, from), DisplayName(s, from), to)
               IN  IF to \in moved.enabled THEN Broadcast(moved, to) ELSE moved
BY DEF ProbeRenames, Forgot

\* A label drops both directions of its buffer's alias before the row moves.
LEMMA ProbeRenamesSound ==
    ASSUME NEW s, Sound(s), NEW from \in Name, NEW to \in Name
    PROVE  /\ Sound(ProbeRenames(s, from, to))
           /\ \A a \in Name : ProbeRenames(s, from, to).probe_names[a]
                                \in {None, s.probe_names[a]}
<1> DEFINE forgot == Forgot(s, from)
           moved == Rename(forgot, DisplayName(s, from), to)
<1>1. DisplayName(s, from) \in Name
  BY NamesOfNames DEF Sound
<1>2. /\ Sound(forgot)
      /\ \A a \in Name : forgot.probe_names[a] \in {None, s.probe_names[a]}
  BY ForgotSound
<1> HIDE DEF forgot
<1>3. Sound(moved) /\ SameAliases(forgot, moved)
  BY <1>1, <1>2, RenameSound
<1>4. ProbeRenames(s, from, to) \in {moved, Broadcast(moved, to)}
  BY ProbeRenamesIs DEF forgot
<1> HIDE DEF moved
<1>5. /\ Sound(ProbeRenames(s, from, to))
      /\ ProbeRenames(s, from, to).probe_names = forgot.probe_names
  BY <1>3, <1>4, BroadcastSound DEF SameAliases
<1> QED
  BY <1>2, <1>5

\* Whatever a client sends, the maps stay inverse and no alias moves.
LEMMA HandleSound ==
    ASSUME NEW s, Sound(s), NEW l \in Line
    PROVE  /\ Sound(Handle(s, l))
           /\ AliasesStay(s, Handle(s, l))
<1>1. CASE l.type = "decl"
  <2>1. Handle(s, l) = ProbeDeclares(s, l.name, l.meta, l.sited)
    BY <1>1 DEF Handle
  <2>2. l.name \in Name /\ l.meta \in BOOLEAN /\ l.sited \in BOOLEAN
    BY <1>1 DEF Line
  <2> QED
    <3>1. /\ Sound(ProbeDeclares(s, l.name, l.meta, l.sited))
          /\ ProbeDeclares(s, l.name, l.meta, l.sited).probe_names = s.probe_names
      BY <2>2, ProbeDeclaresSound
    <3> QED
      BY <2>1, <3>1 DEF AliasesStay
<1>2. CASE l.type = "rename"
  <2>1. Handle(s, l) = ProbeRenames(s, l.from, l.name)
    BY <1>2 DEF Handle
  <2>2. l.from \in Name /\ l.name \in Name
    BY <1>2 DEF Line
  <2> QED
    <3>1. /\ Sound(ProbeRenames(s, l.from, l.name))
          /\ \A a \in Name : ProbeRenames(s, l.from, l.name).probe_names[a]
                               \in {None, s.probe_names[a]}
      BY <2>2, ProbeRenamesSound
    <3> QED
      BY <2>1, <3>1 DEF AliasesStay
<1>3. CASE l.type = "tensor"
  <2>1. Handle(s, l) = ProbeSendsTensor(s, l.name, l.good)
    BY <1>3 DEF Handle
  <2>2. l.name \in Name /\ l.good \in BOOLEAN
    BY <1>3 DEF Line
  <2> QED
    <3>1. /\ Sound(ProbeSendsTensor(s, l.name, l.good))
          /\ ProbeSendsTensor(s, l.name, l.good).probe_names = s.probe_names
      BY <2>2, ProbeSendsTensorSound
    <3> QED
      BY <2>1, <3>1 DEF AliasesStay
<1> QED
  BY <1>1, <1>2, <1>3 DEF Line

\* A toggle registers its row, so an enabled row is a registered one.
LEMMA SetTrackSound ==
    ASSUME NEW s, Sound(s), NEW n \in Name, NEW on \in BOOLEAN
    PROVE  Sound(SetTrack(s, n, on)) /\ SameAliases(s, SetTrack(s, n, on))
<1> DEFINE declared == Declare(s, n, FALSE)
           boxes == IF on THEN declared.enabled \cup {n} ELSE declared.enabled \ {n}
           t == [declared EXCEPT !.enabled = boxes]
<1>1. /\ Sound(declared) /\ SameAliases(s, declared)
      /\ declared.items = s.items \cup {n}
  BY DeclareSound
<1> HIDE DEF declared
<1>2. declared \in State /\ boxes \in SUBSET Name /\ boxes \subseteq declared.items
  BY <1>1 DEF Sound, State
<1>3. SetTrack(s, n, on) = Broadcast(t, n)
  BY DEF SetTrack, declared
<1> HIDE DEF boxes
<1>4. t \in State
  BY <1>2 DEF State
<1>5. SameAliases(declared, t) /\ t.items = declared.items /\ t.enabled = boxes
  BY <1>2 DEF State, SameAliases
<1>6. Sound(t)
  BY <1>1, <1>2, <1>4, <1>5 DEF Sound, SameAliases
<1> HIDE DEF t
<1> QED
  BY <1>1, <1>3, <1>5, <1>6, BroadcastSound DEF SameAliases

\* The lines replayed to a new client are track lines.
LEMMA ReplaysType ==
    ASSUME NEW s, Sound(s), NEW lines \in Replays(s)
    PROVE  lines \in Seq(Track)
<1>1. s \in State /\ s.enabled \subseteq Name
  BY DEF Sound, State
<1>2. Cardinality(s.enabled) \in Nat
  BY <1>1, NamesFinite, FS_Subset, FS_CardinalityType
<1>3. PICK q \in [1 .. Cardinality(s.enabled) -> s.enabled] :
        lines = [i \in DOMAIN q |-> TrackLine(s, q[i])]
  BY DEF Replays
<1>4. \A i \in 1 .. Cardinality(s.enabled) : TrackLine(s, q[i]) \in Track
  BY <1>1, <1>3, TrackLineType
<1>5. lines \in [1 .. Cardinality(s.enabled) -> Track]
  BY <1>3, <1>4
<1> QED
  BY <1>2, <1>5

-----------------------------------------------------------------------------
(* The actions.                                                            *)

\* The server starts with no rows and no aliases.
LEMMA InitSound == Init => IInv
<1> SUFFICES ASSUME Init PROVE IInv
  OBVIOUS
<1>1. InitState \in State
  BY DEF InitState, State, MaybeName
<1>2. /\ InitState.enabled \subseteq InitState.items
      /\ InitState.alias_pending = {}
      /\ \A n \in Name : InitState.display_names[n] = None
      /\ \A n \in Name : InitState.probe_names[n] = None
  BY DEF InitState
<1>3. Sound(InitState)
  BY <1>1, <1>2, NoneIsNoName DEF Sound
<1> QED
  BY <1>3 DEF Init, IInv

\* A client comes, reads or goes: only its queue and its registration change.
LEMMA ClientStep ==
    ASSUME IInv, NEW c \in Client,
           Accept(c) \/ Disconnect(c) \/ WriterFails(c) \/ ClientReads(c)
    PROVE  IInv' /\ AliasesStay(state, state')
<1> DEFINE Registry(s, t) == /\ t.items = s.items /\ t.enabled = s.enabled
                             /\ t.probe_names = s.probe_names
                             /\ t.display_names = s.display_names
                             /\ t.alias_pending = s.alias_pending
<1>1. state \in State
  BY DEF IInv, Sound
<1>2. ASSUME NEW lines \in Seq(Track), NEW cs \in SUBSET Client,
             state' = [state EXCEPT !.clients = cs, !.out[c] = lines]
      PROVE  state' \in State /\ Registry(state, state')
  <2>1. [state.out EXCEPT ![c] = lines] \in [Client -> Seq(Track)]
    BY <1>1, <1>2 DEF State
  <2>2. state' = [state EXCEPT !.clients = cs,
                               !.out = [state.out EXCEPT ![c] = lines]]
    BY <1>1, <1>2 DEF State
  <2> QED
    BY <1>1, <1>2, <2>1, <2>2 DEF State
<1>3. /\ conn' \in [Client -> {"new", "open", "closed"}] /\ listening' \in BOOLEAN
      /\ state' \in State /\ Registry(state, state')
  <2>1. CASE Accept(c)
    <3>1. PICK lines \in Replays(state) :
            state' = [state EXCEPT !.clients = @ \cup {c}, !.out[c] = lines]
      BY <2>1 DEF Accept
    <3>2. lines \in Seq(Track) /\ state.clients \cup {c} \in SUBSET Client
      BY <1>1, ReplaysType DEF IInv, State
    <3>3. state' \in State /\ Registry(state, state')
      BY <1>2, <3>1, <3>2
    <3> QED
      BY <2>1, <3>3 DEF Accept, IInv
  <2>2. CASE Disconnect(c) \/ WriterFails(c)
    <3>1. state' = [state EXCEPT !.clients = @ \ {c}, !.out[c] = <<>>]
      BY <2>2 DEF Disconnect, WriterFails
    <3>2. <<>> \in Seq(Track) /\ state.clients \ {c} \in SUBSET Client
      BY <1>1 DEF State
    <3>3. state' \in State /\ Registry(state, state')
      BY <1>2, <3>1, <3>2
    <3> QED
      BY <2>2, <3>3 DEF Disconnect, WriterFails, IInv
  <2>3. CASE ClientReads(c)
    <3>1. state.out[c] \in Seq(Track) /\ state.out[c] # <<>>
      BY <1>1, <2>3 DEF ClientReads, State
    <3>2. Tail(state.out[c]) \in Seq(Track) /\ state.clients \in SUBSET Client
      BY <1>1, <3>1 DEF State
    <3>3. state' = [state EXCEPT !.clients = state.clients,
                                 !.out[c] = Tail(state.out[c])]
      BY <1>1, <2>3 DEF ClientReads, State
    <3>4. state' \in State /\ Registry(state, state')
      BY <1>2, <3>2, <3>3
    <3> QED
      BY <2>3, <3>4 DEF ClientReads, IInv
  <2> QED
    BY <2>1, <2>2, <2>3
<1> QED
  BY <1>3 DEF IInv, Sound, AliasesStay

\* The UI's and the server's own steps outside the handlers.
LEMMA QuietStep ==
    ASSUME IInv, SetSymbolicator \/ Stop \/ UiReads
    PROVE  IInv' /\ AliasesStay(state, state')
<1>1. state \in State
  BY DEF IInv, Sound
<1>2. /\ state' \in State
      /\ state'.items = state.items /\ state'.enabled = state.enabled
      /\ state'.probe_names = state.probe_names
      /\ state'.display_names = state.display_names
      /\ state'.alias_pending = state.alias_pending
  <2>1. CASE SetSymbolicator
    BY <1>1, <2>1 DEF SetSymbolicator, State
  <2>2. CASE Stop
    BY <1>1, <2>2 DEF Stop, State
  <2>3. CASE UiReads
    <3>1. state.events \in Seq(Event) /\ state.events # <<>>
      BY <1>1, <2>3 DEF UiReads, State
    <3>2. Tail(state.events) \in Seq(Event)
      BY <3>1
    <3> QED
      BY <1>1, <2>3, <3>2 DEF UiReads, State
  <2> QED
    BY <2>1, <2>2, <2>3
<1>3. conn' = conn /\ listening' \in BOOLEAN
  BY DEF SetSymbolicator, Stop, UiReads, IInv
<1> QED
  BY <1>2, <1>3 DEF IInv, Sound, AliasesStay

\* A result takes an alias that is free, or none.
LEMMA ResolveStep ==
    ASSUME IInv, NEW p \in Name, Resolve(p)
    PROVE  IInv' /\ AliasesStay(state, state')
<1>1. p \in state.alias_pending /\ UNCHANGED <<conn, listening>>
  BY DEF Resolve
<1>2. CASE state' = ApplyAlias(state, p, None)
  <2>1. Sound(state') /\ AliasesStay(state, state')
    BY <1>1, <1>2, ApplyAliasSound DEF IInv, MaybeName
  <2> QED
    BY <1>1, <2>1 DEF IInv
<1>3. ASSUME NEW base \in Base, NEW alias \in Name, UniqueAlias(state, base, alias),
             state' = ApplyAlias(state, p, alias)
      PROVE  IInv' /\ AliasesStay(state, state')
  <2>1. state.probe_names[alias] = None
    BY <1>3 DEF UniqueAlias
  <2>2. Sound(state') /\ AliasesStay(state, state')
    BY <1>1, <1>3, <2>1, ApplyAliasSound DEF IInv, MaybeName
  <2> QED
    BY <1>1, <2>2 DEF IInv
<1> QED
  BY <1>2, <1>3 DEF Resolve

\* Every step keeps the invariant, and no step reassigns an alias.
LEMMA NextSound == IInv /\ [Next]_vars => IInv' /\ AliasesStay(state, state')
<1> SUFFICES ASSUME IInv, [Next]_vars PROVE IInv' /\ AliasesStay(state, state')
  OBVIOUS
<1>1. CASE UNCHANGED vars
  BY <1>1 DEF vars, IInv, AliasesStay
<1>2. CASE \E c \in Client :
             Accept(c) \/ Disconnect(c) \/ WriterFails(c) \/ ClientReads(c)
  BY <1>2, ClientStep
<1>3. CASE \E c \in Client, l \in Renames \cup Decls \cup Tensors : HandleLine(c, l)
  <2>1. PICK c \in Client, l \in Renames \cup Decls \cup Tensors : HandleLine(c, l)
    BY <1>3
  <2>2. l \in Line /\ state' = Handle(state, l) /\ UNCHANGED <<conn, listening>>
    BY <2>1 DEF HandleLine, Renames, Decls, Tensors
  <2>3. Sound(state') /\ AliasesStay(state, state')
    BY <2>2, HandleSound DEF IInv
  <2> QED
    BY <2>2, <2>3 DEF IInv
<1>4. CASE \E n \in Name, on \in BOOLEAN : UiSetTrack(n, on)
  <2>1. PICK n \in Name, on \in BOOLEAN : UiSetTrack(n, on)
    BY <1>4
  <2>2. state' = SetTrack(state, n, on) /\ UNCHANGED <<conn, listening>>
    BY <2>1 DEF UiSetTrack
  <2>3. Sound(state') /\ SameAliases(state, state')
    BY <2>2, SetTrackSound DEF IInv
  <2> QED
    BY <2>2, <2>3 DEF IInv, SameAliases, AliasesStay
<1>5. CASE \E p \in Name : Resolve(p)
  BY <1>5, ResolveStep
<1>6. CASE SetSymbolicator \/ Stop \/ UiReads
  BY <1>6, QuietStep
<1> QED
  BY <1>1, <1>2, <1>3, <1>4, <1>5, <1>6 DEF Next

-----------------------------------------------------------------------------
(* The theorems.                                                           *)

\* The inductive invariant of the server holds in every reachable state.
THEOREM Invariance == Spec => []IInv
<1>1. IInv /\ [Next]_vars => IInv'
  BY NextSound
<1> QED
  BY InitSound, <1>1, PTL DEF Spec

\* The server's state keeps its types, and an enabled row is a registered row.
THEOREM TypeCorrect == Spec => []TypeOK
<1>1. IInv => TypeOK
  BY DEF IInv, Sound, TypeOK
<1> QED
  BY <1>1, Invariance, PTL

\* State.probe_names and State.display_names are inverse to each other after
\* any sequence of declarations, labels, frames and symbolication results.
THEOREM AliasesCorrect == Spec => []AliasMapsInverse
<1>1. IInv => AliasMapsInverse
  BY DEF IInv, Sound, AliasMapsInverse
<1> QED
  BY <1>1, Invariance, PTL

\* A name whose symbolication is in flight (alias_pending) has no alias.
THEOREM PendingCorrect == Spec => []PendingUnaliased
<1>1. IInv => PendingUnaliased
  BY DEF IInv, Sound, PendingUnaliased
<1> QED
  BY <1>1, Invariance, PTL

\* No step of the server passes an alias from one probe name to another.
THEOREM AliasesNeverReassigned == Spec => AliasNeverReassigned
<1>1. IInv /\ [Next]_vars
        => [\A a \in Name :
               state.probe_names[a] # None
                 => state'.probe_names[a] \in {None, state.probe_names[a]}]_vars
  BY NextSound DEF AliasesStay
<1> QED
  BY <1>1, Invariance, PTL DEF Spec, AliasNeverReassigned

-----------------------------------------------------------------------------
(* The queue of events between the server and the sidebar.                 *)

\* An event is about the row it names and the row it moves.
Touches(e, n) == n \in {e.name, e.from}

\* The last event about a name says whether it is a row; a name that no event
\* is about is a row when the sidebar shows it as one.
Told(evs, rows, shown) ==
    \A n \in Name :
        /\ \A i \in 1 .. Len(evs) :
              Touches(evs[i], n) /\ (\A j \in i + 1 .. Len(evs) : ~Touches(evs[j], n))
                => (n \in rows <=> evs[i].name = n)
        /\ (\A i \in 1 .. Len(evs) : ~Touches(evs[i], n))
              => (n \in rows <=> n \in shown)

Tells(s, shown) == Told(s.events, s.items, shown)

\* What an event does to the rows.
Moved(rows, e) == (rows \ {e.from}) \cup {e.name}

\* An event that says what became of its rows keeps the queue truthful.
LEMMA ToldAppend ==
    ASSUME NEW evs \in Seq(Event), NEW e \in Event, NEW rows, NEW shown,
           Told(evs, rows, shown)
    PROVE  Told(Append(evs, e), Moved(rows, e), shown)
<1> DEFINE more == Append(evs, e)
<1>1. Len(evs) \in Nat /\ Len(more) = Len(evs) + 1
  OBVIOUS
<1>2. /\ \A i \in 1 .. Len(evs) : more[i] = evs[i]
      /\ more[Len(evs) + 1] = e
  OBVIOUS
<1> HIDE DEF more
<1> SUFFICES ASSUME NEW n \in Name
             PROVE  /\ \A i \in 1 .. Len(more) :
                         (/\ Touches(more[i], n)
                          /\ \A j \in i + 1 .. Len(more) : ~Touches(more[j], n))
                            => (n \in Moved(rows, e) <=> more[i].name = n)
                    /\ (\A i \in 1 .. Len(more) : ~Touches(more[i], n))
                         => (n \in Moved(rows, e) <=> n \in shown)
  BY DEF Told, more
<1>3. CASE Touches(e, n)
  <2>1. n \in Moved(rows, e) <=> e.name = n
    BY <1>3 DEF Touches, Moved
  <2>2. ASSUME NEW i \in 1 .. Len(more), i # Len(evs) + 1
        PROVE  \E j \in i + 1 .. Len(more) : Touches(more[j], n)
    <3>1. Len(evs) + 1 \in i + 1 .. Len(more)
      BY <1>1, <2>2
    <3> QED
      BY <3>1, <1>2, <1>3
  <2>3. Len(evs) + 1 \in 1 .. Len(more)
    BY <1>1
  <2> QED
    BY <1>2, <1>3, <2>1, <2>2, <2>3
<1>4. CASE ~Touches(e, n)
  <2>1. n \in Moved(rows, e) <=> n \in rows
    BY <1>4 DEF Touches, Moved
  <2>2. ASSUME NEW i \in 1 .. Len(more), Touches(more[i], n),
               \A j \in i + 1 .. Len(more) : ~Touches(more[j], n)
        PROVE  n \in rows <=> more[i].name = n
    <3>1. i \in 1 .. Len(evs)
      BY <1>1, <1>2, <1>4, <2>2
    <3>2. ASSUME NEW j \in i + 1 .. Len(evs) PROVE ~Touches(evs[j], n)
      BY <1>1, <1>2, <2>2, <3>1
    <3> QED
      BY <1>2, <2>2, <3>1, <3>2 DEF Told
  <2>3. ASSUME \A i \in 1 .. Len(more) : ~Touches(more[i], n)
        PROVE  n \in rows <=> n \in shown
    <3>1. ASSUME NEW i \in 1 .. Len(evs) PROVE ~Touches(evs[i], n)
      BY <1>1, <1>2, <2>3
    <3> QED
      BY <3>1 DEF Told
  <2> QED
    BY <2>1, <2>2, <2>3
<1> QED
  BY <1>3, <1>4

\* The sidebar applies the first event: the rest of the queue says the rest.
LEMMA ToldTail ==
    ASSUME NEW evs \in Seq(Event), evs # <<>>, NEW rows, NEW shown,
           Told(evs, rows, shown)
    PROVE  Told(Tail(evs), rows, Moved(shown, Head(evs)))
<1> DEFINE e == Head(evs)
           rest == Tail(evs)
<1>1. Len(evs) \in Nat /\ Len(evs) >= 1 /\ Len(rest) = Len(evs) - 1
  OBVIOUS
<1>2. e = evs[1] /\ \A i \in 1 .. Len(rest) : rest[i] = evs[i + 1]
  OBVIOUS
<1> HIDE DEF e, rest
<1> SUFFICES ASSUME NEW n \in Name
             PROVE  /\ \A i \in 1 .. Len(rest) :
                         (/\ Touches(rest[i], n)
                          /\ \A j \in i + 1 .. Len(rest) : ~Touches(rest[j], n))
                            => (n \in rows <=> rest[i].name = n)
                    /\ (\A i \in 1 .. Len(rest) : ~Touches(rest[i], n))
                         => (n \in rows <=> n \in Moved(shown, e))
  BY DEF Told, e, rest
<1>3. ASSUME NEW i \in 1 .. Len(evs), i # 1
      PROVE  i - 1 \in 1 .. Len(rest) /\ rest[i - 1] = evs[i]
  <2>1. i - 1 \in 1 .. Len(rest) /\ (i - 1) + 1 = i
    BY <1>1, <1>3
  <2> QED
    BY <2>1, <1>2
<1>4. ASSUME NEW i \in 1 .. Len(rest), Touches(rest[i], n),
             \A j \in i + 1 .. Len(rest) : ~Touches(rest[j], n)
      PROVE  n \in rows <=> rest[i].name = n
  <2>1. i + 1 \in 1 .. Len(evs) /\ rest[i] = evs[i + 1]
    BY <1>1, <1>2
  <2>2. ASSUME NEW j \in (i + 1) + 1 .. Len(evs) PROVE ~Touches(evs[j], n)
    <3>1. j \in 1 .. Len(evs) /\ j # 1 /\ j - 1 \in i + 1 .. Len(rest)
      BY <1>1
    <3> QED
      BY <3>1, <1>3, <1>4
  <2> QED
    BY <1>4, <2>1, <2>2 DEF Told
<1>5. ASSUME \A i \in 1 .. Len(rest) : ~Touches(rest[i], n)
      PROVE  n \in rows <=> n \in Moved(shown, e)
  <2>1. \A j \in 1 .. Len(evs) : j # 1 => ~Touches(evs[j], n)
    BY <1>3, <1>5
  <2>2. CASE Touches(e, n)
    <3>1. n \in Moved(shown, e) <=> e.name = n
      BY <2>2 DEF Touches, Moved
    <3>2. 1 \in 1 .. Len(evs) /\ \A j \in 1 + 1 .. Len(evs) : j \in 1 .. Len(evs) /\ j # 1
      BY <1>1
    <3>3. n \in rows <=> evs[1].name = n
      BY <1>2, <2>1, <2>2, <3>2 DEF Told
    <3> QED
      BY <1>2, <3>1, <3>3
  <2>3. CASE ~Touches(e, n)
    <3>1. n \in Moved(shown, e) <=> n \in shown
      BY <2>3 DEF Touches, Moved
    <3>2. \A j \in 1 .. Len(evs) : ~Touches(evs[j], n)
      BY <1>2, <2>1, <2>3
    <3> QED
      BY <3>1, <3>2 DEF Told
  <2> QED
    BY <2>2, <2>3
<1> QED
  BY <1>4, <1>5

\* Every method of State emits the event of what it does to the rows.
LEMMA EmitTells ==
    ASSUME NEW s \in State, NEW t \in State, NEW e \in Event, NEW shown,
           Tells(s, shown), t.events = s.events, t.items = Moved(s.items, e)
    PROVE  Tells(Emit(t, e), shown)
<1>1. s.events \in Seq(Event)
  BY DEF State
<1>2. Emit(t, e).events = Append(s.events, e) /\ Emit(t, e).items = Moved(s.items, e)
  BY DEF Emit, State
<1>3. Told(s.events, s.items, shown)
  BY DEF Tells
<1>4. Told(Append(s.events, e), Moved(s.items, e), shown)
  BY <1>1, <1>3, ToldAppend
<1> QED
  BY <1>2, <1>4 DEF Tells

LEMMA DeclareTells ==
    ASSUME NEW s, Sound(s), NEW n \in Name, NEW meta \in BOOLEAN, NEW shown,
           Tells(s, shown)
    PROVE  Tells(Declare(s, n, meta), shown)
<1> DEFINE t == [s EXCEPT !.items = @ \cup {n}]
<1>1. s \in State /\ s.items \in SUBSET Name
  BY DEF Sound, State
<1>2. CASE n \in s.items /\ ~meta
  BY <1>2 DEF Declare
<1>3. CASE ~(n \in s.items /\ ~meta)
  <2>1. Declare(s, n, meta) = Emit(t, Decl(n, None))
    BY <1>3 DEF Declare
  <2>2. t \in State /\ t.events = s.events /\ t.items = s.items \cup {n}
    BY <1>1 DEF State
  <2>3. Moved(s.items, Decl(n, None)) = s.items \cup {n}
    BY <1>1, NoneIsNoName DEF Moved, Decl
  <2>4. Decl(n, None) \in Event
    BY DeclType DEF MaybeName
  <2> HIDE DEF t
  <2> QED
    BY <1>1, <2>1, <2>2, <2>3, <2>4, EmitTells
<1> QED
  BY <1>2, <1>3

LEMMA RenameTells ==
    ASSUME NEW s, Sound(s), NEW from \in Name, NEW to \in Name, NEW shown,
           Tells(s, shown)
    PROVE  Tells(Rename(s, from, to), shown)
<1> DEFINE rest == s.items \ {from}
           boxes == (s.enabled \ {from})
                      \cup IF from \in s.enabled /\ to \notin rest THEN {to} ELSE {}
           t == [s EXCEPT !.items = rest \cup {to}, !.enabled = boxes]
<1>1. s \in State /\ rest \cup {to} \in SUBSET Name /\ boxes \in SUBSET Name
  BY DEF Sound, State
<1>2. Rename(s, from, to) = Emit(t, Decl(to, from))
  BY <1>1 DEF Rename, State
<1> HIDE DEF boxes
<1>3. t \in State /\ t.events = s.events /\ t.items = rest \cup {to}
  BY <1>1 DEF State
<1>4. Moved(s.items, Decl(to, from)) = rest \cup {to}
  BY DEF Moved, Decl
<1>5. Decl(to, from) \in Event
  BY DeclType DEF MaybeName
<1> HIDE DEF t, rest
<1> QED
  BY <1>1, <1>2, <1>3, <1>4, <1>5, EmitTells

LEMMA BroadcastTells ==
    ASSUME NEW s, Sound(s), NEW n \in Name
    PROVE  Broadcast(s, n).events = s.events /\ Broadcast(s, n).items = s.items
BY DEF Broadcast, Sound, State

LEMMA ApplyAliasTells ==
    ASSUME NEW s, Sound(s), NEW p \in s.alias_pending, NEW alias \in MaybeName,
           alias # None => s.probe_names[alias] = None, NEW shown, Tells(s, shown)
    PROVE  Tells(ApplyAlias(s, p, alias), shown)
<1>1. s \in State /\ p \in Name
  BY DEF Sound, State
<1>2. CASE alias \in {None, p}
  <2>1. ApplyAlias(s, p, alias) = [s EXCEPT !.alias_pending = @ \ {p}]
    BY <1>2 DEF ApplyAlias
  <2> QED
    BY <1>1, <2>1 DEF State, Tells
<1>3. CASE alias \notin {None, p}
  <2>1. ApplyAlias(s, p, alias) = Rename(Aliased(s, p, alias), p, alias)
    BY <1>3 DEF ApplyAlias, Aliased
  <2>2. alias \in Name /\ s.probe_names[alias] = None
    BY <1>3 DEF MaybeName
  <2>3. Sound(Aliased(s, p, alias)) /\ SameRegistry(s, Aliased(s, p, alias))
    BY <2>2, AliasedSound
  <2>4. Tells(Aliased(s, p, alias), shown)
    BY <2>3 DEF Tells, SameRegistry
  <2> QED
    BY <1>1, <2>1, <2>2, <2>3, <2>4, RenameTells
<1> QED
  BY <1>2, <1>3

\* Whatever a client sends, the events say what became of the rows.
LEMMA HandleTells ==
    ASSUME NEW s, Sound(s), NEW ln \in Line, NEW shown, Tells(s, shown)
    PROVE  Tells(Handle(s, ln), shown)
<1>1. s \in State
  BY DEF Sound
<1>2. CASE ln.type = "decl"
  <2> DEFINE declared == Declare(s, DisplayName(s, ln.name), ln.meta)
  <2>1. ln.name \in Name /\ ln.meta \in BOOLEAN /\ ln.sited \in BOOLEAN
    BY <1>2 DEF Line
  <2>2. DisplayName(s, ln.name) \in Name
    BY <1>1, <2>1, NamesOfNames
  <2>3. Sound(declared) /\ Tells(declared, shown)
    BY <2>1, <2>2, DeclareSound, DeclareTells
  <2>4. Handle(s, ln) \in {declared, Queue(declared, ln.name, ln.sited)}
    BY <1>2 DEF Handle, ProbeDeclares
  <2> HIDE DEF declared
  <2>5. Tells(Queue(declared, ln.name, ln.sited), shown)
    BY <2>3 DEF Queue, Tells, Sound, State
  <2> QED
    BY <2>3, <2>4, <2>5
<1>3. CASE ln.type = "rename"
  <2> DEFINE forgot == Forgot(s, ln.from)
             moved == Rename(forgot, DisplayName(s, ln.from), ln.name)
  <2>1. ln.name \in Name /\ ln.from \in Name
    BY <1>3 DEF Line
  <2>2. DisplayName(s, ln.from) \in Name
    BY <1>1, <2>1, NamesOfNames
  <2>3. Sound(forgot) /\ SameRegistry(s, forgot)
    BY <2>1, ForgotSound
  <2>4. Tells(forgot, shown)
    BY <2>3 DEF Tells, SameRegistry
  <2>5. Handle(s, ln) \in {moved, Broadcast(moved, ln.name)}
    BY <1>3, ProbeRenamesIs DEF Handle
  <2> HIDE DEF forgot
  <2>6. Sound(moved) /\ Tells(moved, shown)
    BY <2>1, <2>2, <2>3, <2>4, RenameSound, RenameTells
  <2> HIDE DEF moved
  <2>7. Tells(Broadcast(moved, ln.name), shown)
    BY <2>1, <2>6, BroadcastTells DEF Tells
  <2> QED
    BY <2>5, <2>6, <2>7
<1>4. CASE ln.type = "tensor"
  <2> DEFINE row == DisplayName(s, ln.name)
             declared == Declare(s, row, TRUE)
  <2>1. ln.name \in Name
    BY <1>4 DEF Line
  <2>2. row \in Name
    BY <1>1, <2>1, NamesOfNames
  <2>3. Handle(s, ln) \in {declared, Emit(declared, Frame(row))}
    BY <1>4 DEF Handle, ProbeSendsTensor
  <2> HIDE DEF row
  <2>4. /\ Sound(declared) /\ Tells(declared, shown)
        /\ declared.items = s.items \cup {row}
    BY <2>2, DeclareSound, DeclareTells
  <2> HIDE DEF declared
  <2>5. Frame(row) \in Event /\ declared \in State
    BY <2>2, <2>4, FrameType DEF Sound
  <2>6. declared.items = Moved(declared.items, Frame(row))
    <3>1. None \notin declared.items
      BY <2>5, NoneIsNoName DEF State
    <3> QED
      BY <2>4, <3>1 DEF Moved, Frame
  <2>7. Tells(Emit(declared, Frame(row)), shown)
    BY <2>4, <2>5, <2>6, EmitTells
  <2> QED
    BY <2>3, <2>4, <2>7
<1> QED
  BY <1>2, <1>3, <1>4 DEF Line

\* A toggle announces its row when that is new.
LEMMA SetTrackTells ==
    ASSUME NEW s, Sound(s), NEW n \in Name, NEW on \in BOOLEAN, NEW shown,
           Tells(s, shown)
    PROVE  Tells(SetTrack(s, n, on), shown)
<1> DEFINE declared == Declare(s, n, FALSE)
           boxes == IF on THEN declared.enabled \cup {n} ELSE declared.enabled \ {n}
           t == [declared EXCEPT !.enabled = boxes]
<1>1. /\ Sound(declared) /\ Tells(declared, shown)
      /\ declared.items = s.items \cup {n}
  BY DeclareSound, DeclareTells
<1>2. SetTrack(s, n, on) = Broadcast(t, n)
  BY DEF SetTrack
<1> HIDE DEF declared
<1>3. declared \in State /\ boxes \in SUBSET Name /\ boxes \subseteq declared.items
  BY <1>1 DEF Sound, State
<1> HIDE DEF boxes
<1>4. t \in State /\ t.events = declared.events /\ t.items = declared.items
  BY <1>3 DEF State
<1>5. Broadcast(t, n).events = t.events /\ Broadcast(t, n).items = t.items
  BY <1>4 DEF Broadcast, State
<1> QED
  BY <1>1, <1>2, <1>4, <1>5 DEF Tells

-----------------------------------------------------------------------------
(* The sidebar's own operators.                                            *)

\* The rows of the sidebar that the server has confirmed.
Shown(u) == u.rows \ u.seeded

\* What holds of a sidebar: every box and every seed is a row, and a checkbox
\* preference that is on has a row.
UiOK(u) ==
    /\ u \in UiState
    /\ u.on \cup u.seeded \subseteq u.rows
    /\ \A n \in Name : u.prefs[n] = "on" => n \in u.rows

\* A declaration confirms its row.
LEMMA UiDeclareOK ==
    ASSUME NEW u, UiOK(u), NEW n \in Name
    PROVE  UiOK(UiDeclare(u, n)) /\ Shown(UiDeclare(u, n)) = Shown(u) \cup {n}
<1>1. /\ u \in UiState
      /\ u.rows \in SUBSET Name /\ u.on \in SUBSET Name /\ u.seeded \in SUBSET Name
      /\ u.on \cup u.seeded \subseteq u.rows
  BY DEF UiOK, UiState
<1>2. CASE n \in u.rows
  <2>1. UiDeclare(u, n) = [u EXCEPT !.seeded = u.seeded \ {n}]
    BY <1>1, <1>2 DEF UiDeclare, UiState
  <2>2. /\ UiDeclare(u, n).rows = u.rows /\ UiDeclare(u, n).on = u.on
        /\ UiDeclare(u, n).seeded = u.seeded \ {n}
        /\ UiDeclare(u, n).prefs = u.prefs
        /\ UiDeclare(u, n) \in UiState
    BY <1>1, <2>1 DEF UiState
  <2>3. Shown(UiDeclare(u, n)) = Shown(u) \cup {n}
    BY <1>2, <2>2 DEF Shown
  <2> QED
    BY <1>1, <2>2, <2>3 DEF UiOK
<1>3. CASE n \notin u.rows
  <2> DEFINE boxes == IF u.prefs[n] = "on" THEN u.on \cup {n} ELSE u.on \ {n}
  <2>1. UiDeclare(u, n) = [u EXCEPT !.rows = u.rows \cup {n}, !.on = boxes]
    BY <1>1, <1>3 DEF UiDeclare, UiState
  <2>2. boxes \in SUBSET Name /\ boxes \subseteq u.rows \cup {n}
    BY <1>1
  <2> HIDE DEF boxes
  <2> DEFINE rows == u.rows \cup {n}
  <2>3. rows \in SUBSET Name /\ UiDeclare(u, n) = [u EXCEPT !.rows = rows, !.on = boxes]
    BY <1>1, <2>1
  <2> HIDE DEF rows
  <2>4. /\ UiDeclare(u, n).rows = rows /\ UiDeclare(u, n).on = boxes
        /\ UiDeclare(u, n).seeded = u.seeded
        /\ UiDeclare(u, n).prefs = u.prefs
        /\ UiDeclare(u, n) \in UiState
    BY <1>1, <2>2, <2>3 DEF UiState
  <2>5. Shown(UiDeclare(u, n)) = Shown(u) \cup {n}
    BY <1>1, <1>3, <2>4 DEF Shown, rows
  <2>6. \A m \in Name : u.prefs[m] = "on" => m \in u.rows
    BY DEF UiOK
  <2> QED
    BY <1>1, <2>2, <2>4, <2>5, <2>6 DEF UiOK, rows
<1> QED
  BY <1>2, <1>3

\* A rename takes its row away, or gives it the new name with its seed: once
\* the new name is declared, the confirmed rows are what the event says.
LEMMA UiRenameOK ==
    ASSUME NEW u, UiOK(u), NEW from \in Name, NEW to \in Name, from # to
    PROVE  /\ UiOK(UiRename(u, from, to))
           /\ Shown(UiRename(u, from, to)) \cup {to} = (Shown(u) \ {from}) \cup {to}
<1> DEFINE v == UiRename(u, from, to)
           moves == from \in u.rows /\ to \notin u.rows \ {from}
           checked == CASE u.prefs[to] = "on"  -> {to}
                        [] u.prefs[to] = "off" -> {}
                        [] OTHER -> IF from \in u.on THEN {to} ELSE {}
           prefs == [u.prefs EXCEPT ![from] = "none",
                                    ![to] = IF @ = "none" THEN u.prefs[from] ELSE @]
<1>1. /\ u \in UiState
      /\ u.rows \in SUBSET Name /\ u.on \in SUBSET Name /\ u.seeded \in SUBSET Name
      /\ u.on \cup u.seeded \subseteq u.rows
      /\ u.prefs \in [Name -> {"on", "off", "none"}]
  BY DEF UiOK, UiState
<1>2. checked \subseteq {to}
  BY <1>1
<1>3. /\ v.rows = (u.rows \ {from}) \cup (IF moves THEN {to} ELSE {})
      /\ v.on = (u.on \ {from}) \cup (IF moves THEN checked ELSE {})
      /\ v.seeded = (u.seeded \ {from})
                      \cup (IF moves /\ from \in u.seeded THEN {to} ELSE {})
      /\ v.prefs = prefs
  BY DEF UiRename
<1>4. v = [rows |-> v.rows, on |-> v.on, seeded |-> v.seeded, prefs |-> v.prefs]
  BY DEF UiRename
<1>5. \A n \in Name : prefs[n] = IF n = to THEN IF u.prefs[to] = "none" THEN u.prefs[from]
                                                                   ELSE u.prefs[to]
                                 ELSE IF n = from THEN "none" ELSE u.prefs[n]
  BY <1>1
<1>6. prefs \in [Name -> {"on", "off", "none"}]
  BY <1>1
<1> HIDE DEF v, checked, prefs
<1>7. /\ v.rows \in SUBSET Name /\ v.on \in SUBSET Name /\ v.seeded \in SUBSET Name
      /\ v.on \cup v.seeded \subseteq v.rows
  BY <1>1, <1>2, <1>3
<1>8. v \in UiState
  BY <1>3, <1>4, <1>6, <1>7 DEF UiState
<1>9. ASSUME NEW n \in Name, v.prefs[n] = "on" PROVE n \in v.rows
  <2>1. \A m \in Name : u.prefs[m] = "on" => m \in u.rows
    BY DEF UiOK
  <2>2. CASE n = to
    BY <1>3, <1>5, <1>9, <2>1, <2>2
  <2>3. CASE n # to
    BY <1>3, <1>5, <1>9, <2>1, <2>3
  <2> QED
    BY <2>2, <2>3
<1>10. Shown(v) \cup {to} = (Shown(u) \ {from}) \cup {to}
  BY <1>1, <1>3 DEF Shown
<1> QED
  BY <1>7, <1>8, <1>9, <1>10 DEF UiOK, v

-----------------------------------------------------------------------------
(* The inductive invariant of the three parties.                           *)

\* The probe streams and is asked for buffers that have a name.
ProbesOK ==
    /\ wire \in [Client -> Seq(Line)]
    /\ probe \in [Client -> ProbeState]
    /\ \A c \in Client : \A b \in probe[c].tracked \cup probe[c].snaps :
          probe[c].name[b] \in Name

SysIInv ==
    /\ IInv
    /\ ProbesOK
    /\ UiOK(ui)
    /\ toggles \in 0 .. MaxToggles
    /\ Tells(state, Shown(ui))

\* The probe's lines are lines.
LEMMA LineTypes ==
    ASSUME NEW n \in Name
    PROVE  /\ DeclLine(n) \in Line
           /\ TensorLine(n) \in Line
           /\ \A from \in Name : RenameLine(from, n) \in Line
BY DEF DeclLine, TensorLine, RenameLine, Line

\* Lines written at the end of the socket.
LEMMA WritesType ==
    ASSUME wire \in [Client -> Seq(Line)], NEW c \in Client, NEW lines \in Seq(Line),
           Writes(c, lines)
    PROVE  wire' \in [Client -> Seq(Line)]
<1>1. wire[c] \o lines \in Seq(Line)
  OBVIOUS
<1>2. wire' = [wire EXCEPT ![c] = wire[c] \o lines]
  BY DEF Writes
<1> QED
  BY <1>1, <1>2

\* One probe takes a new state.
LEMMA ProbeTakes ==
    ASSUME ProbesOK, NEW c \in Client, NEW ps \in ProbeState,
           probe' = [probe EXCEPT ![c] = ps], wire' \in [Client -> Seq(Line)],
           \A b \in ps.tracked \cup ps.snaps : ps.name[b] \in Name
    PROVE  ProbesOK'
<1>1. probe \in [Client -> ProbeState]
  BY DEF ProbesOK
<1>2. probe' \in [Client -> ProbeState]
  BY <1>1
<1>3. probe'[c] = ps /\ \A d \in Client : d # c => probe'[d] = probe[d]
  BY <1>1
<1>4. ASSUME NEW d \in Client
      PROVE  \A b \in probe'[d].tracked \cup probe'[d].snaps : probe'[d].name[b] \in Name
  <2>1. CASE d = c
    BY <1>3, <2>1
  <2>2. CASE d # c
    BY <1>3, <2>2 DEF ProbesOK
  <2> QED
    BY <2>1, <2>2
<1> QED
  BY <1>2, <1>4 DEF ProbesOK

\* A buffer gets a name.
LEMMA NamesStep ==
    ASSUME ProbesOK, NEW c \in Client, NEW b \in Buf, NEW n \in Name,
           NEW line \in Line, Names(c, b, n, line)
    PROVE  ProbesOK'
<1> DEFINE names == [probe[c].name EXCEPT ![b] = n]
           told == IF n \in probe[c].pending THEN probe[c].tracked \cup {b}
                                             ELSE probe[c].tracked
           ps == [probe[c] EXCEPT !.name = names, !.tracked = told, !.owed = <<line>>]
<1>1. probe \in [Client -> ProbeState] /\ probe[c] \in ProbeState
  BY DEF ProbesOK
<1>2. /\ names \in [Buf -> MaybeName] /\ told \in SUBSET Buf
      /\ <<line>> \in Seq(Line)
  BY <1>1 DEF ProbeState, MaybeName
<1>3. probe' = [probe EXCEPT ![c] = ps]
  BY <1>1 DEF Names, ProbeState
<1>4. names[b] = n /\ \A d \in Buf : d # b => names[d] = probe[c].name[d]
  BY <1>1 DEF ProbeState
<1>5. told \subseteq probe[c].tracked \cup {b}
  OBVIOUS
<1> HIDE DEF names, told
<1>6. /\ ps \in ProbeState
      /\ ps.name = names /\ ps.tracked = told /\ ps.snaps = probe[c].snaps
  BY <1>1, <1>2 DEF ProbeState
<1>7. ASSUME NEW d \in ps.tracked \cup ps.snaps PROVE ps.name[d] \in Name
  <2>1. d \in Buf
    BY <1>1, <1>2, <1>6 DEF ProbeState
  <2>2. d # b => probe[c].name[d] \in Name
    BY <1>5, <1>6 DEF ProbesOK
  <2> QED
    BY <1>4, <1>6, <2>1, <2>2
<1>8. wire' \in [Client -> Seq(Line)]
  BY DEF Names, ProbesOK
<1> HIDE DEF ps
<1> QED
  BY <1>3, <1>6, <1>7, <1>8, ProbeTakes

\* A track arrives.
LEMMA ControlStep ==
    ASSUME SysIInv, NEW c \in Client, HandleControlLine(c)
    PROVE  ProbesOK'
<1> DEFINE track == Head(state.out[c])
           named == {b \in Buf : probe[c].name[b] = track.name}
           p == probe[c]
           ps == [p EXCEPT
                    !.pending = IF track.enabled THEN p.pending \cup {track.name}
                                                 ELSE p.pending \ {track.name},
                    !.tracked = IF track.enabled THEN p.tracked \cup named
                                                 ELSE p.tracked \ named,
                    !.snaps = IF track.enabled THEN named \ p.tracked ELSE {}]
<1>1. probe \in [Client -> ProbeState] /\ p \in ProbeState
  BY DEF SysIInv, ProbesOK
<1>2. track \in Track
  <2>1. state.out[c] \in Seq(Track) /\ state.out[c] # <<>>
    BY DEF SysIInv, IInv, Sound, State, HandleControlLine
  <2> QED
    BY <2>1
<1>3. track.name \in Name
  BY <1>2 DEF Track
<1>4. probe' = [probe EXCEPT ![c] = ps]
  BY <1>1 DEF HandleControlLine, ProbeState
<1>5. \A b \in named : b \in Buf /\ p.name[b] \in Name
  BY <1>3
<1> HIDE DEF track, named
<1>6. /\ ps \in ProbeState /\ ps.name = p.name
      /\ ps.tracked \subseteq p.tracked \cup named
      /\ ps.snaps \subseteq named
  BY <1>1, <1>3, <1>5 DEF ProbeState
<1>7. \A b \in ps.tracked \cup ps.snaps : ps.name[b] \in Name
  <2>1. \A b \in p.tracked : p.name[b] \in Name
    BY DEF SysIInv, ProbesOK
  <2> QED
    BY <1>5, <1>6, <2>1
<1>8. wire' \in [Client -> Seq(Line)]
  BY DEF HandleControlLine, SysIInv, ProbesOK
<1> HIDE DEF ps
<1> QED
  BY <1>4, <1>6, <1>7, <1>8, ProbeTakes DEF SysIInv

\* The frames of the last flush are lines.
LEMMA LastFlushType ==
    ASSUME ProbesOK, NEW c \in Client,
           NEW last \in [1 .. Cardinality(probe[c].tracked) -> probe[c].tracked]
    PROVE  [i \in DOMAIN last |-> TensorLine(probe[c].name[last[i]])] \in Seq(Line)
<1>1. probe[c].tracked \in SUBSET Buf
  BY DEF ProbesOK, ProbeState
<1>2. Cardinality(probe[c].tracked) \in Nat
  BY <1>1, BuffersFinite, FS_Subset, FS_CardinalityType
<1>3. ASSUME NEW i \in 1 .. Cardinality(probe[c].tracked)
      PROVE  TensorLine(probe[c].name[last[i]]) \in Line
  <2>1. probe[c].name[last[i]] \in Name
    BY DEF ProbesOK
  <2> QED
    BY <2>1, LineTypes
<1>4. [i \in DOMAIN last |-> TensorLine(probe[c].name[last[i]])]
        \in [1 .. Cardinality(probe[c].tracked) -> Line]
  BY <1>3
<1> QED
  BY <1>2, <1>4

\* The program ends.
LEMMA ExitStep ==
    ASSUME ProbesOK, NEW c \in Client, Exit(c)
    PROVE  ProbesOK'
<1> DEFINE ps == [probe[c] EXCEPT !.exited = TRUE, !.owed = <<>>, !.snaps = {}]
<1>1. probe \in [Client -> ProbeState] /\ probe[c] \in ProbeState
  BY DEF ProbesOK
<1>2. probe' = [probe EXCEPT ![c] = ps]
  BY <1>1 DEF Exit, ProbeState
<1>3. /\ ps \in ProbeState /\ ps.name = probe[c].name
      /\ ps.tracked = probe[c].tracked /\ ps.snaps = {}
  <2>1. <<>> \in Seq(Line)
    OBVIOUS
  <2> QED
    BY <1>1, <2>1 DEF ProbeState
<1>4. \A b \in ps.tracked \cup ps.snaps : ps.name[b] \in Name
  BY <1>3 DEF ProbesOK
<1>5. wire' \in [Client -> Seq(Line)]
  <2>1. CASE UNCHANGED wire
    BY <2>1 DEF ProbesOK
  <2>2. ASSUME NEW last \in [1 .. Cardinality(probe[c].tracked) -> probe[c].tracked],
               Writes(c, [i \in DOMAIN last |-> TensorLine(probe[c].name[last[i]])])
        PROVE  wire' \in [Client -> Seq(Line)]
    <3> DEFINE lines == [i \in DOMAIN last |-> TensorLine(probe[c].name[last[i]])]
    <3>1. lines \in Seq(Line)
      BY LastFlushType
    <3>2. Writes(c, lines)
      BY <2>2
    <3> HIDE DEF lines
    <3> QED
      BY <3>1, <3>2, WritesType DEF ProbesOK
  <2> QED
    BY <2>1, <2>2 DEF Exit
<1> HIDE DEF ps
<1> QED
  BY <1>2, <1>3, <1>4, <1>5, ProbeTakes

\* The line owed and a snapshot go out.
LEMMA EmitOwedStep ==
    ASSUME ProbesOK, NEW c \in Client, EmitOwed(c)
    PROVE  ProbesOK'
<1> DEFINE ps == [probe[c] EXCEPT !.owed = <<>>]
<1>1. /\ probe \in [Client -> ProbeState] /\ probe[c] \in ProbeState
      /\ wire \in [Client -> Seq(Line)]
  BY DEF ProbesOK
<1>2. probe' = [probe EXCEPT ![c] = ps]
  BY <1>1 DEF EmitOwed, ProbeState
<1>3. probe[c].owed \in Seq(Line) /\ Writes(c, probe[c].owed)
  BY <1>1 DEF EmitOwed, ProbeState
<1>4. wire' \in [Client -> Seq(Line)]
  BY <1>1, <1>3, WritesType
<1>5. /\ ps \in ProbeState /\ ps.name = probe[c].name
      /\ ps.tracked = probe[c].tracked /\ ps.snaps = probe[c].snaps
  <2>1. <<>> \in Seq(Line)
    OBVIOUS
  <2> QED
    BY <1>1, <2>1 DEF ProbeState
<1>6. \A b \in ps.tracked \cup ps.snaps : ps.name[b] \in Name
  BY <1>5 DEF ProbesOK
<1> HIDE DEF ps
<1> QED
  BY <1>2, <1>4, <1>5, <1>6, ProbeTakes

LEMMA SnapshotStep ==
    ASSUME ProbesOK, NEW c \in Client, NEW b \in Buf, Snapshot(c, b)
    PROVE  ProbesOK'
<1> DEFINE ps == [probe[c] EXCEPT !.snaps = probe[c].snaps \ {b}]
<1>1. /\ probe \in [Client -> ProbeState] /\ probe[c] \in ProbeState
      /\ wire \in [Client -> Seq(Line)]
  BY DEF ProbesOK
<1>2. probe' = [probe EXCEPT ![c] = ps]
  BY <1>1 DEF Snapshot, ProbeState
<1>3. probe[c].name[b] \in Name
  BY DEF Snapshot, ProbesOK
<1>4. /\ <<TensorLine(probe[c].name[b])>> \in Seq(Line)
      /\ Writes(c, <<TensorLine(probe[c].name[b])>>)
  BY <1>3, LineTypes DEF Snapshot
<1>5. wire' \in [Client -> Seq(Line)]
  BY <1>1, <1>4, WritesType
<1>6. /\ ps \in ProbeState /\ ps.name = probe[c].name
      /\ ps.tracked = probe[c].tracked /\ ps.snaps \subseteq probe[c].snaps
  BY <1>1 DEF ProbeState
<1>7. \A d \in ps.tracked \cup ps.snaps : ps.name[d] \in Name
  BY <1>6 DEF ProbesOK
<1> HIDE DEF ps
<1> QED
  BY <1>2, <1>5, <1>6, <1>7, ProbeTakes

\* A flush sends the frame of a named buffer.
LEMMA FlushStep ==
    ASSUME ProbesOK, NEW c \in Client, NEW b \in Buf, Flush(c, b)
    PROVE  ProbesOK'
<1>1. probe[c].name[b] \in Name
  BY DEF Flush, ProbesOK
<1>2. /\ <<TensorLine(probe[c].name[b])>> \in Seq(Line)
      /\ Writes(c, <<TensorLine(probe[c].name[b])>>)
  BY <1>1, LineTypes DEF Flush
<1>3. wire' \in [Client -> Seq(Line)]
  BY <1>2, WritesType DEF ProbesOK
<1> QED
  BY <1>3 DEF Flush, ProbesOK

\* The two ways a probe names a buffer.
LEMMA NamingStep ==
    ASSUME ProbesOK, NEW c \in Client, NEW b \in Buf,
           Register(c, b) \/ (\E label \in Label : SetLabel(c, b, label))
    PROVE  ProbesOK' /\ UNCHANGED <<vars, wire, ui, toggles>>
<1>1. Placeholder[b] \in Name /\ Label \subseteq Name
  BY PlaceholdersAreNames
<1>2. CASE Register(c, b)
  <2>1. Names(c, b, Placeholder[b], DeclLine(Placeholder[b]))
    BY <1>2 DEF Register
  <2>2. DeclLine(Placeholder[b]) \in Line
    BY <1>1, LineTypes
  <2>3. ProbesOK'
    BY <1>1, <2>1, <2>2, NamesStep
  <2> QED
    BY <2>1, <2>3 DEF Names
<1>3. ASSUME NEW label \in Label, SetLabel(c, b, label)
      PROVE  ProbesOK' /\ UNCHANGED <<vars, wire, ui, toggles>>
  <2>1. Names(c, b, label, RenameLine(Placeholder[b], label))
    BY <1>3 DEF SetLabel
  <2>2. RenameLine(Placeholder[b], label) \in Line /\ label \in Name
    BY <1>1, LineTypes
  <2>3. ProbesOK'
    BY <2>1, <2>2, NamesStep
  <2> QED
    BY <2>1, <2>3 DEF Names
<1> QED
  BY <1>2, <1>3

\* A step of a probe.
ProbeAction(c) ==
    \/ \E b \in Buf : Register(c, b) \/ Snapshot(c, b) \/ Flush(c, b)
    \/ \E b \in Buf, label \in Label : SetLabel(c, b, label)
    \/ EmitOwed(c) \/ HandleControlLine(c) \/ Exit(c)

\* It touches its socket and its own state, and at most reads its queue.
LEMMA ProbeStep ==
    ASSUME SysIInv, NEW c \in Client, ProbeAction(c)
    PROVE  SysIInv'
<1>1. ProbesOK /\ state \in State
  BY DEF SysIInv, IInv, Sound
<1>2. ASSUME ~HandleControlLine(c) PROVE ProbesOK' /\ UNCHANGED <<vars, ui, toggles>>
  <2>1. CASE \E b \in Buf : Register(c, b)
    BY <1>1, <2>1, NamingStep
  <2>2. CASE \E b \in Buf, label \in Label : SetLabel(c, b, label)
    BY <1>1, <2>2, NamingStep
  <2>3. CASE \E b \in Buf : Snapshot(c, b)
    BY <1>1, <2>3, SnapshotStep DEF Snapshot
  <2>4. CASE \E b \in Buf : Flush(c, b)
    BY <1>1, <2>4, FlushStep DEF Flush
  <2>5. CASE EmitOwed(c)
    BY <1>1, <2>5, EmitOwedStep DEF EmitOwed
  <2>6. CASE Exit(c)
    BY <1>1, <2>6, ExitStep DEF Exit
  <2> QED
    BY <1>2, <2>1, <2>2, <2>3, <2>4, <2>5, <2>6 DEF ProbeAction
<1>3. CASE ~HandleControlLine(c)
  BY <1>2, <1>3 DEF SysIInv, IInv, vars
<1>4. CASE HandleControlLine(c)
  <2>1. ProbesOK' /\ UNCHANGED <<ui, toggles>>
    BY <1>4, ControlStep DEF HandleControlLine
  <2>2. IInv'
    BY <1>4, ClientStep DEF HandleControlLine, SysIInv
  <2>3. state'.events = state.events /\ state'.items = state.items
    BY <1>1, <1>4 DEF HandleControlLine, ClientReads, State
  <2> QED
    BY <2>1, <2>2, <2>3 DEF SysIInv, Tells
<1> QED
  BY <1>3, <1>4

\* A step of the server.
ServerAction ==
    \/ \E c \in Client : Launch(c) \/ ServerReads(c) \/ ServerSeesExit(c)
    \/ \E p \in Name : Symbolicated(p)

\* It takes lines of the sockets, and its events say what it does to its rows.
LEMMA ServerStep ==
    ASSUME SysIInv, ServerAction
    PROVE  SysIInv'
<1>1. /\ IInv /\ ProbesOK /\ Sound(state) /\ state \in State
      /\ wire \in [Client -> Seq(Line)] /\ Tells(state, Shown(ui))
  BY DEF SysIInv, IInv, Sound, ProbesOK
<1>2. UNCHANGED <<probe, ui, toggles>>
  BY DEF ServerAction, Launch, ServerReads, ServerSeesExit, Symbolicated
<1>3. ASSUME NEW c \in Client, Launch(c) \/ ServerSeesExit(c)
      PROVE  IInv' /\ wire' = wire /\ Tells(state', Shown(ui))
  <2>1. Accept(c) \/ Disconnect(c)
    BY <1>3 DEF Launch, ServerSeesExit
  <2>2. IInv'
    BY <1>1, <2>1, ClientStep
  <2>3. state'.events = state.events /\ state'.items = state.items
    BY <1>1, <2>1 DEF Accept, Disconnect, State
  <2> QED
    BY <1>1, <1>3, <2>2, <2>3 DEF Tells, Launch, ServerSeesExit
<1>4. ASSUME NEW c \in Client, ServerReads(c)
      PROVE  IInv' /\ wire' \in [Client -> Seq(Line)] /\ Tells(state', Shown(ui))
  <2>1. wire[c] \in Seq(Line) /\ wire[c] # <<>>
    BY <1>1, <1>4 DEF ServerReads
  <2>2. Head(wire[c]) \in Line /\ Tail(wire[c]) \in Seq(Line)
    BY <2>1
  <2>3. state' = Handle(state, Head(wire[c])) /\ UNCHANGED <<conn, listening>>
    BY <1>4 DEF ServerReads, HandleLine
  <2>4. wire' \in [Client -> Seq(Line)]
    BY <1>1, <1>4, <2>2 DEF ServerReads
  <2>5. Sound(state') /\ Tells(state', Shown(ui))
    BY <1>1, <2>2, <2>3, HandleSound, HandleTells
  <2> QED
    BY <1>1, <2>3, <2>4, <2>5 DEF IInv
<1>5. ASSUME NEW p \in Name, Symbolicated(p)
      PROVE  IInv' /\ wire' = wire /\ Tells(state', Shown(ui))
  <2>1. Resolve(p) /\ wire' = wire
    BY <1>5 DEF Symbolicated
  <2>2. IInv'
    BY <1>1, <2>1, ResolveStep
  <2>3. PICK alias \in MaybeName : /\ alias # None => state.probe_names[alias] = None
                                   /\ state' = ApplyAlias(state, p, alias)
    BY <2>1 DEF Resolve, UniqueAlias, MaybeName
  <2>4. p \in state.alias_pending
    BY <2>1 DEF Resolve
  <2>5. Tells(state', Shown(ui))
    BY <1>1, <2>3, <2>4, ApplyAliasTells
  <2> QED
    BY <2>1, <2>2, <2>5
<1>6. IInv' /\ wire' \in [Client -> Seq(Line)] /\ Tells(state', Shown(ui))
  BY <1>1, <1>3, <1>4, <1>5 DEF ServerAction
<1> QED
  BY <1>2, <1>6 DEF SysIInv, ProbesOK

\* The sidebar applies an event: its confirmed rows become what it says.
LEMMA ApplyStep ==
    ASSUME SysIInv, Apply
    PROVE  SysIInv'
<1> DEFINE e == Head(state.events)
           popped == [state EXCEPT !.events = Tail(@)]
           renamed == IF e.from \in {None, e.name} THEN ui
                                                   ELSE UiRename(ui, e.from, e.name)
<1>1. /\ Sound(state) /\ state \in State /\ UiOK(ui)
      /\ Told(state.events, state.items, Shown(ui))
  BY DEF SysIInv, IInv, Sound, Tells
<1>2. /\ state.events \in Seq(Event) /\ state.events # <<>>
      /\ Shown(ui) \subseteq Name
  BY <1>1 DEF Apply, State, UiOK, UiState, Shown
<1>3. e \in Event /\ Tail(state.events) \in Seq(Event)
  BY <1>2
<1>4. e.name \in Name /\ e.from \in MaybeName
  BY <1>3 DEF Event
<1>5. /\ ui' = UiDeclare(renamed, e.name)
      /\ state' = IF PrefEnabled(renamed, e.name) THEN SetTrack(popped, e.name, TRUE)
                                                  ELSE popped
      /\ UNCHANGED <<conn, listening, wire, probe, toggles>>
  BY DEF Apply
<1>6. /\ popped \in State /\ popped.events = Tail(state.events)
      /\ popped.items = state.items /\ popped.enabled = state.enabled
      /\ popped.display_names = state.display_names
      /\ popped.probe_names = state.probe_names
      /\ popped.alias_pending = state.alias_pending
  BY <1>1, <1>3 DEF State
<1> HIDE DEF popped
<1>7. Sound(popped)
  BY <1>1, <1>6 DEF Sound
<1>8. Told(Tail(state.events), state.items, Moved(Shown(ui), e))
  BY <1>1, <1>2, ToldTail
<1>9. UiOK(renamed) /\ Shown(renamed) \cup {e.name} = Moved(Shown(ui), e)
  <2>1. CASE e.from \in {None, e.name}
    <3>1. None \notin Shown(ui)
      BY <1>2, NoneIsNoName
    <3> QED
      BY <1>1, <2>1, <3>1 DEF Moved
  <2>2. CASE e.from \notin {None, e.name}
    <3>1. e.from \in Name /\ e.from # e.name
      BY <1>4, <2>2 DEF MaybeName
    <3>2. renamed = UiRename(ui, e.from, e.name)
      BY <2>2
    <3> HIDE DEF renamed, e
    <3> QED
      BY <1>1, <1>4, <3>1, <3>2, UiRenameOK DEF Moved
  <2> QED
    BY <2>1, <2>2
<1> HIDE DEF e, renamed
<1>10. UiOK(ui') /\ Shown(ui') = Moved(Shown(ui), e)
  <2>1. /\ UiOK(UiDeclare(renamed, e.name))
        /\ Shown(UiDeclare(renamed, e.name)) = Shown(renamed) \cup {e.name}
    BY <1>4, <1>9, UiDeclareOK
  <2> QED
    BY <1>5, <1>9, <2>1
<1>11. Tells(popped, Shown(ui'))
  BY <1>6, <1>8, <1>10 DEF Tells
<1>12. Sound(state') /\ Tells(state', Shown(ui'))
  <2>1. /\ Sound(SetTrack(popped, e.name, TRUE))
        /\ Tells(SetTrack(popped, e.name, TRUE), Shown(ui'))
    BY <1>4, <1>7, <1>11, SetTrackSound, SetTrackTells
  <2> QED
    BY <1>5, <1>7, <1>11, <2>1
<1> QED
  BY <1>5, <1>10, <1>12 DEF SysIInv, IInv, ProbesOK

\* A click changes the box and the preference of one row.
LEMMA ToggleStep ==
    ASSUME SysIInv, NEW n \in Name, Toggle(n)
    PROVE  SysIInv'
<1> DEFINE on == n \notin ui.on
           boxes == IF on THEN ui.on \cup {n} ELSE ui.on \ {n}
           prefs == [ui.prefs EXCEPT ![n] = IF on THEN "on" ELSE "off"]
<1>1. /\ Sound(state) /\ UiOK(ui) /\ ui \in UiState /\ n \in ui.rows
      /\ Tells(state, Shown(ui))
  BY DEF SysIInv, IInv, UiOK, Toggle
<1>2. /\ state' = SetTrack(state, n, on)
      /\ UNCHANGED <<conn, listening, wire, probe>>
      /\ toggles' = toggles + 1 /\ toggles < MaxToggles
  BY DEF Toggle, UiSetTrack
<1>3. ui' = [ui EXCEPT !.on = boxes, !.prefs = prefs]
  BY <1>1 DEF Toggle, UiState
<1>4. /\ boxes \in SUBSET Name /\ boxes \subseteq ui.rows
      /\ prefs \in [Name -> {"on", "off", "none"}]
      /\ \A m \in Name : prefs[m] = "on" => m \in ui.rows
  BY <1>1 DEF UiState, UiOK
<1> HIDE DEF boxes, prefs
<1>5. /\ ui' \in UiState /\ ui'.rows = ui.rows /\ ui'.on = boxes
      /\ ui'.seeded = ui.seeded /\ ui'.prefs = prefs
  BY <1>1, <1>3, <1>4 DEF UiState
<1>6. UiOK(ui') /\ Shown(ui') = Shown(ui)
  BY <1>1, <1>4, <1>5 DEF UiOK, Shown
<1>7. on \in BOOLEAN
  OBVIOUS
<1> HIDE DEF on
<1>8. Sound(state') /\ Tells(state', Shown(ui))
  BY <1>1, <1>2, <1>7, SetTrackSound, SetTrackTells
<1>9. toggles' \in 0 .. MaxToggles
  BY <1>2, TogglesBounded DEF SysIInv
<1> QED
  BY <1>2, <1>6, <1>8, <1>9 DEF SysIInv, IInv, ProbesOK

\* The end of a run prunes the rows that were never confirmed.
LEMMA RunEndsStep ==
    ASSUME SysIInv, RunEnds
    PROVE  SysIInv'
<1> DEFINE rows == ui.rows \ ui.seeded
           boxes == ui.on \ ui.seeded
           prefs == [n \in Name |-> IF n \in ui.seeded THEN "off" ELSE ui.prefs[n]]
<1>1. UiOK(ui) /\ ui \in UiState
  BY DEF SysIInv, UiOK
<1>2. ui' = [ui EXCEPT !.rows = rows, !.on = boxes, !.seeded = {}, !.prefs = prefs]
  BY <1>1 DEF RunEnds, UiState
<1>3. /\ rows \in SUBSET Name /\ boxes \in SUBSET Name /\ boxes \subseteq rows
      /\ prefs \in [Name -> {"on", "off", "none"}]
      /\ \A n \in Name : prefs[n] = "on" => n \in rows
  BY <1>1 DEF UiState, UiOK
<1>4. rows = Shown(ui)
  BY DEF Shown
<1> HIDE DEF rows, boxes, prefs
<1>5. /\ ui' \in UiState /\ ui'.rows = rows /\ ui'.on = boxes
      /\ ui'.seeded = {} /\ ui'.prefs = prefs
  BY <1>1, <1>2, <1>3 DEF UiState
<1>6. UiOK(ui') /\ Shown(ui') = Shown(ui)
  BY <1>3, <1>4, <1>5 DEF UiOK, Shown
<1>7. UNCHANGED <<vars, wire, probe, toggles>>
  BY DEF RunEnds
<1> QED
  BY <1>6, <1>7 DEF SysIInv, IInv, ProbesOK, vars

\* Every step of the three parties keeps the invariant.
LEMMA SysNextStep == SysIInv /\ [SysNext]_sysVars => SysIInv'
<1> SUFFICES ASSUME SysIInv, [SysNext]_sysVars PROVE SysIInv'
  OBVIOUS
<1>1. CASE ProbeNext
  <2>1. PICK c \in Client : ProbeAction(c)
    BY <1>1 DEF ProbeNext, ProbeAction
  <2> QED
    BY <2>1, ProbeStep
<1>2. CASE ServerNext
  BY <1>2, ServerStep DEF ServerNext, ServerAction
<1>3. CASE UiNext
  BY <1>3, ApplyStep, ToggleStep, RunEndsStep DEF UiNext
<1>4. CASE UNCHANGED sysVars
  BY <1>4 DEF sysVars, vars, SysIInv, IInv, ProbesOK
<1> QED
  BY <1>1, <1>2, <1>3, <1>4 DEF SysNext

\* The sidebar starts with its seeds, the server with nothing.
LEMMA SysInitHolds == SysInit => SysIInv
<1> SUFFICES ASSUME SysInit PROVE SysIInv
  OBVIOUS
<1> DEFINE s0 == [InitState EXCEPT !.symbolicator = TRUE]
<1>1. InitState \in State
  BY DEF InitState, State, MaybeName
<1>2. /\ s0 \in State /\ s0.enabled = {} /\ s0.items = {} /\ s0.events = <<>>
      /\ s0.alias_pending = {}
      /\ s0.display_names = [n \in Name |-> None]
      /\ s0.probe_names = [n \in Name |-> None]
  BY <1>1 DEF InitState, State
<1>3. state = s0
  BY DEF SysInit
<1> HIDE DEF s0
<1>4. Sound(state)
  BY <1>2, <1>3, NoneIsNoName DEF Sound
<1>5. IInv
  BY <1>4 DEF IInv, SysInit
<1>6. ProbesOK
  <2>1. <<>> \in Seq(Line)
    OBVIOUS
  <2> DEFINE p0 == [name |-> [b \in Buf |-> None], tracked |-> {}, pending |-> {},
                    owed |-> <<>>, snaps |-> {}, exited |-> FALSE]
  <2>2. p0 \in ProbeState /\ p0.tracked = {} /\ p0.snaps = {}
    BY <2>1 DEF ProbeState, MaybeName
  <2>3. probe = [c \in Client |-> p0] /\ wire = [c \in Client |-> <<>>]
    BY DEF SysInit
  <2> HIDE DEF p0
  <2> QED
    BY <2>1, <2>2, <2>3 DEF ProbesOK
<1>7. PICK prefs \in InitPrefs : ui = SeededUi(prefs)
  BY DEF SysInit
<1>8. prefs \in [Name -> {"on", "off", "none"}]
  BY PrefsArePrefs
<1>9. UiOK(ui) /\ Shown(ui) = {}
  BY <1>7, <1>8 DEF SeededUi, UiOK, UiState, Shown
<1>10. toggles \in 0 .. MaxToggles
  BY TogglesBounded DEF SysInit
<1>11. Tells(state, Shown(ui))
  <2>1. Len(<<>>) = 0
    OBVIOUS
  <2> QED
    BY <1>2, <1>3, <1>9, <2>1 DEF Tells, Told
<1> QED
  BY <1>5, <1>6, <1>9, <1>10, <1>11 DEF SysIInv

\* The inductive invariant of the server between its peers.
THEOREM SysInvariance == SysSpec => []SysIInv
BY SysInitHolds, SysNextStep, PTL DEF SysSpec

\* Server, sockets, probes and sidebar keep their types; a box and a seed of
\* the sidebar are always a row.
THEOREM SysTypeCorrect == SysSpec => []SysTypeOK
<1>1. SysIInv => SysTypeOK
  BY DEF SysIInv, IInv, Sound, TypeOK, ProbesOK, UiOK, SysTypeOK
<1> QED
  BY <1>1, SysInvariance, PTL

\* When the sidebar has applied every event its confirmed rows are the rows of
\* the server, whatever moved while they were in flight, and a preference that
\* is on always has a row (registry.rs, prefs.rs and AppModel::apply).
THEOREM SidebarStaysWithServer == SysSpec => []SidebarMatchesServer
<1>1. SysIInv => SidebarMatchesServer
  <2> SUFFICES ASSUME SysIInv PROVE SidebarMatchesServer
    OBVIOUS
  <2>1. ASSUME state.events = <<>> PROVE ui.rows \ ui.seeded = state.items
    <3>1. Len(state.events) = 0
      BY <2>1
    <3>2. \A n \in Name : n \in state.items <=> n \in Shown(ui)
      BY <3>1 DEF SysIInv, Tells, Told
    <3>3. state.items \subseteq Name /\ Shown(ui) \subseteq Name
      BY DEF SysIInv, IInv, Sound, State, UiOK, UiState, Shown
    <3> QED
      BY <3>2, <3>3 DEF Shown
  <2> QED
    BY <2>1 DEF SysIInv, UiOK, SidebarMatchesServer
<1> QED
  BY <1>1, SysInvariance, PTL

-----------------------------------------------------------------------------
(* What a probe knows of the checkboxes.                                   *)

\* The last track on its way for a name says whether its row is checked; when
\* none is, the probe remembers the name exactly when its row is.
Relayed(out, pending, n, checked) ==
    /\ \A i \in 1 .. Len(out) :
          out[i].name = n /\ (\A j \in i + 1 .. Len(out) : out[j].name # n)
            => (out[i].enabled <=> checked)
    /\ (\A i \in 1 .. Len(out) : out[i].name # n) => (n \in pending <=> checked)

\* A name that neither is an alias nor has one, now or when the symbolications
\* in flight have come back.
Plain(s, n) ==
    /\ s.display_names[n] = None
    /\ s.probe_names[n] = None
    /\ n \notin s.alias_pending

\* From s to t nothing is lost of what the clients are told of n.
KeepsTold(s, t, n) ==
    /\ Plain(t, n)
    /\ t.clients = s.clients
    /\ \A c \in s.clients, pending \in SUBSET Name :
          Relayed(s.out[c], pending, n, n \in s.enabled)
            => Relayed(t.out[c], pending, n, n \in t.enabled)

\* A track for another name is no news.
LEMMA RelayedOther ==
    ASSUME NEW out \in Seq(Track), NEW line \in Track, NEW n, line.name # n,
           NEW pending, NEW checked \in BOOLEAN, Relayed(out, pending, n, checked)
    PROVE  Relayed(Append(out, line), pending, n, checked)
<1> DEFINE more == Append(out, line)
<1>1. Len(out) \in Nat /\ Len(more) = Len(out) + 1
  OBVIOUS
<1>2. (\A i \in 1 .. Len(out) : more[i] = out[i]) /\ more[Len(out) + 1] = line
  OBVIOUS
<1> HIDE DEF more
<1>3. ASSUME NEW i \in 1 .. Len(more), more[i].name = n,
             \A j \in i + 1 .. Len(more) : more[j].name # n
      PROVE  more[i].enabled <=> checked
  <2>1. i \in 1 .. Len(out)
    BY <1>1, <1>2, <1>3
  <2>2. ASSUME NEW j \in i + 1 .. Len(out) PROVE out[j].name # n
    BY <1>1, <1>2, <1>3, <2>1
  <2> QED
    BY <1>2, <1>3, <2>1, <2>2 DEF Relayed
<1>4. ASSUME \A i \in 1 .. Len(more) : more[i].name # n
      PROVE  n \in pending <=> checked
  <2>1. ASSUME NEW i \in 1 .. Len(out) PROVE out[i].name # n
    BY <1>1, <1>2, <1>4
  <2> QED
    BY <2>1 DEF Relayed
<1> QED
  BY <1>3, <1>4 DEF Relayed, more

\* A track for the name itself is the last word.
LEMMA RelayedOwn ==
    ASSUME NEW out \in Seq(Track), NEW line \in Track, NEW n, line.name = n,
           NEW pending
    PROVE  Relayed(Append(out, line), pending, n, line.enabled)
<1> DEFINE more == Append(out, line)
<1>1. Len(out) \in Nat /\ Len(more) = Len(out) + 1 /\ more[Len(out) + 1] = line
  OBVIOUS
<1> HIDE DEF more
<1>2. Len(more) \in 1 .. Len(more)
  BY <1>1
<1>3. ASSUME NEW i \in 1 .. Len(more), \A j \in i + 1 .. Len(more) : more[j].name # n
      PROVE  more[i].enabled <=> line.enabled
  <2>1. CASE i = Len(more)
    BY <1>1, <2>1
  <2>2. CASE i # Len(more)
    <3>1. Len(more) \in i + 1 .. Len(more)
      BY <1>1, <2>2
    <3> QED
      BY <1>1, <1>3, <3>1
  <2> QED
    BY <2>1, <2>2
<1> QED
  BY <1>1, <1>2, <1>3 DEF Relayed, more

\* The probe reads the first track.
LEMMA RelayedTail ==
    ASSUME NEW out \in Seq(Track), out # <<>>, NEW pending, NEW n,
           NEW checked \in BOOLEAN, Relayed(out, pending, n, checked)
    PROVE  Relayed(Tail(out), IF Head(out).enabled THEN pending \cup {Head(out).name}
                                                   ELSE pending \ {Head(out).name},
                   n, checked)
<1> DEFINE h == Head(out)
           rest == Tail(out)
           after == IF h.enabled THEN pending \cup {h.name} ELSE pending \ {h.name}
<1>1. Len(out) \in Nat /\ Len(out) >= 1 /\ Len(rest) = Len(out) - 1
  OBVIOUS
<1>2. h = out[1] /\ (\A i \in 1 .. Len(rest) : rest[i] = out[i + 1]) /\ h \in Track
  OBVIOUS
<1>3. h.enabled \in BOOLEAN
  BY <1>2 DEF Track
<1> HIDE DEF h, rest
<1>4. ASSUME NEW i \in 1 .. Len(out), i # 1
      PROVE  i - 1 \in 1 .. Len(rest) /\ rest[i - 1] = out[i]
  <2>1. i - 1 \in 1 .. Len(rest) /\ (i - 1) + 1 = i
    BY <1>1, <1>4
  <2> QED
    BY <2>1, <1>2
<1>5. ASSUME NEW i \in 1 .. Len(rest), rest[i].name = n,
             \A j \in i + 1 .. Len(rest) : rest[j].name # n
      PROVE  rest[i].enabled <=> checked
  <2>1. i + 1 \in 1 .. Len(out) /\ rest[i] = out[i + 1]
    BY <1>1, <1>2
  <2>2. ASSUME NEW j \in (i + 1) + 1 .. Len(out) PROVE out[j].name # n
    <3>1. j \in 1 .. Len(out) /\ j # 1 /\ j - 1 \in i + 1 .. Len(rest)
      BY <1>1
    <3> QED
      BY <3>1, <1>4, <1>5
  <2> QED
    BY <1>5, <2>1, <2>2 DEF Relayed
<1>6. ASSUME \A i \in 1 .. Len(rest) : rest[i].name # n
      PROVE  n \in after <=> checked
  <2>1. \A j \in 1 .. Len(out) : j # 1 => out[j].name # n
    BY <1>4, <1>6
  <2>2. CASE h.name = n
    <3>1. n \in after <=> h.enabled
      BY <1>3, <2>2
    <3>2. 1 \in 1 .. Len(out) /\ \A j \in 1 + 1 .. Len(out) : j \in 1 .. Len(out) /\ j # 1
      BY <1>1
    <3>3. out[1].enabled <=> checked
      BY <1>2, <2>1, <2>2, <3>2 DEF Relayed
    <3> QED
      BY <1>2, <3>1, <3>3
  <2>3. CASE h.name # n
    <3>1. n \in after <=> n \in pending
      BY <2>3
    <3>2. \A j \in 1 .. Len(out) : out[j].name # n
      BY <1>2, <2>1, <2>3
    <3> QED
      BY <3>1, <3>2 DEF Relayed
  <2> QED
    BY <2>2, <2>3
<1> QED
  BY <1>5, <1>6 DEF Relayed, h, rest

-----------------------------------------------------------------------------
(* The operators on State, for a plain name.                               *)

\* No other name is shown or sent as a plain one.
LEMMA PlainNames ==
    ASSUME NEW s, Sound(s), NEW n \in Name, Plain(s, n), NEW m \in Name, m # n
    PROVE  DisplayName(s, m) # n /\ ProbeName(s, m) # n
<1>1. /\ s.display_names[m] = n <=> s.probe_names[n] = m
      /\ s.display_names[n] = m <=> s.probe_names[m] = n
  BY DEF Sound
<1> QED
  BY <1>1, NoneIsNoName DEF Plain, DisplayName, ProbeName

\* A change that leaves aliases, queues and the box of n alone.
LEMMA UntouchedKeeps ==
    ASSUME NEW s, NEW t, NEW n, Plain(s, n),
           t.display_names = s.display_names, t.probe_names = s.probe_names,
           n \notin t.alias_pending, t.clients = s.clients, t.out = s.out,
           n \in t.enabled <=> n \in s.enabled
    PROVE  KeepsTold(s, t, n)
<1>1. (n \in t.enabled) = (n \in s.enabled)
  OBVIOUS
<1> QED
  BY <1>1 DEF KeepsTold, Plain

LEMMA KeepsComposes ==
    ASSUME NEW s, NEW t, NEW u, NEW n, KeepsTold(s, t, n), KeepsTold(t, u, n)
    PROVE  KeepsTold(s, u, n)
BY DEF KeepsTold

LEMMA DeclareKeeps ==
    ASSUME NEW s, Sound(s), NEW m \in Name, NEW meta \in BOOLEAN,
           NEW n \in Name, Plain(s, n)
    PROVE  KeepsTold(s, Declare(s, m, meta), n)
<1>1. /\ SameAliases(s, Declare(s, m, meta))
      /\ Declare(s, m, meta).enabled = s.enabled
  BY DeclareSound
<1>2. Declare(s, m, meta).out = s.out
  BY DEF Sound, State, Declare, Emit
<1> QED
  BY <1>1, <1>2, UntouchedKeeps DEF SameAliases, Plain

LEMMA EmitKeeps ==
    ASSUME NEW s, Sound(s), NEW e \in Event, NEW n \in Name, Plain(s, n)
    PROVE  KeepsTold(s, Emit(s, e), n)
<1>1. SameAliases(s, Emit(s, e)) /\ Emit(s, e).enabled = s.enabled
  BY EmitSound
<1>2. Emit(s, e).out = s.out
  BY DEF Sound, State, Emit
<1> QED
  BY <1>1, <1>2, UntouchedKeeps DEF SameAliases, Plain

\* A rename gives a box to its destination only, and takes none from it.
LEMMA RenameBoxes ==
    ASSUME NEW s, Sound(s), NEW from \in Name, NEW to \in Name
    PROVE  /\ Rename(s, from, to).out = s.out
           /\ \A n \in Name \ {from, to} : n \in Rename(s, from, to).enabled
                                             <=> n \in s.enabled
           /\ from # to /\ to \in s.enabled => to \in Rename(s, from, to).enabled
<1> DEFINE moved == IF from \in s.enabled /\ to \notin s.items \ {from} THEN {to} ELSE {}
           boxes == (s.enabled \ {from}) \cup moved
<1>1. s \in State
  BY DEF Sound
<1>2. Rename(s, from, to).out = s.out /\ Rename(s, from, to).enabled = boxes
  BY <1>1 DEF Rename, Emit, State
<1>3. moved \subseteq {to}
  OBVIOUS
<1> HIDE DEF moved
<1> QED
  BY <1>2, <1>3

LEMMA RenameKeeps ==
    ASSUME NEW s, Sound(s), NEW from \in Name, NEW to \in Name,
           NEW n \in Name \ {from, to}, Plain(s, n)
    PROVE  KeepsTold(s, Rename(s, from, to), n)
<1>1. SameAliases(s, Rename(s, from, to))
  BY RenameSound
<1>2. /\ Rename(s, from, to).out = s.out
      /\ n \in Rename(s, from, to).enabled <=> n \in s.enabled
  BY RenameBoxes
<1> QED
  BY <1>1, <1>2, UntouchedKeeps DEF SameAliases, Plain

\* What a broadcast appends.
LEMMA BroadcastOut ==
    ASSUME NEW s, Sound(s), NEW m \in Name
    PROVE  /\ Broadcast(s, m).enabled = s.enabled
           /\ Broadcast(s, m).clients = s.clients
           /\ \A c \in s.clients :
                 Broadcast(s, m).out[c] = Append(s.out[c], TrackLine(s, m))
BY DEF Sound, State, Broadcast

\* The broadcast of the name itself settles it, whatever was told before.
LEMMA BroadcastOwn ==
    ASSUME NEW s, Sound(s), NEW n \in Name, Plain(s, n),
           NEW c \in s.clients, NEW pending
    PROVE  Relayed(Broadcast(s, n).out[c], pending, n, n \in Broadcast(s, n).enabled)
<1>1. s.out[c] \in Seq(Track) /\ TrackLine(s, n) \in Track
  BY TrackLineType DEF Sound, State
<1>2. TrackLine(s, n).name = n /\ TrackLine(s, n).enabled = (n \in s.enabled)
  BY DEF TrackLine, ProbeName, Plain
<1>3. Relayed(Append(s.out[c], TrackLine(s, n)), pending, n, TrackLine(s, n).enabled)
  BY <1>1, <1>2, RelayedOwn
<1> QED
  BY <1>2, <1>3, BroadcastOut

LEMMA BroadcastKeeps ==
    ASSUME NEW s, Sound(s), NEW m \in Name, NEW n \in Name, Plain(s, n)
    PROVE  KeepsTold(s, Broadcast(s, m), n)
<1>1. Plain(Broadcast(s, m), n) /\ Broadcast(s, m).clients = s.clients
  BY BroadcastSound DEF SameAliases, Plain
<1>2. ASSUME NEW c \in s.clients, NEW pending \in SUBSET Name,
             Relayed(s.out[c], pending, n, n \in s.enabled)
      PROVE  Relayed(Broadcast(s, m).out[c], pending, n, n \in Broadcast(s, m).enabled)
  <2>1. CASE m = n
    BY <2>1, BroadcastOwn
  <2>2. CASE m # n
    <3>1. s.out[c] \in Seq(Track) /\ TrackLine(s, m) \in Track
      BY TrackLineType DEF Sound, State
    <3>2. TrackLine(s, m).name # n
      BY <2>2, PlainNames DEF TrackLine
    <3>3. (n \in s.enabled) \in BOOLEAN
      OBVIOUS
    <3>4. Relayed(Append(s.out[c], TrackLine(s, m)), pending, n, n \in s.enabled)
      BY <1>2, <3>1, <3>2, <3>3, RelayedOther
    <3> QED
      BY <3>4, BroadcastOut
  <2> QED
    BY <2>1, <2>2
<1> QED
  BY <1>1, <1>2 DEF KeepsTold

\* The label of a buffer reaches its own row: whether or not that is checked,
\* the clients know it.
LEMMA ProbeRenamesKeeps ==
    ASSUME NEW s, Sound(s), NEW from \in Name, NEW to \in Name,
           NEW n \in Name \ {from}, Plain(s, n)
    PROVE  KeepsTold(s, ProbeRenames(s, from, to), n)
<1> DEFINE forgot == Forgot(s, from)
           row == DisplayName(s, from)
           moved == Rename(forgot, row, to)
<1>1. row \in Name /\ row # n
  BY PlainNames, NamesOfNames DEF Sound
<1>2. Sound(forgot) /\ SameRegistry(s, forgot) /\ Plain(forgot, n)
  BY ForgotSound DEF Plain
<1>3. ProbeRenames(s, from, to)
        = IF to \in moved.enabled THEN Broadcast(moved, to) ELSE moved
  BY ProbeRenamesIs
<1> HIDE DEF forgot, row
<1>4. Sound(moved) /\ SameAliases(forgot, moved)
  BY <1>1, <1>2, RenameSound
<1>5. /\ moved.out = forgot.out
      /\ n # to => (n \in moved.enabled <=> n \in forgot.enabled)
      /\ n = to /\ n \in forgot.enabled => n \in moved.enabled
  BY <1>1, <1>2, RenameBoxes
<1> HIDE DEF moved
<1>6. Plain(moved, n) /\ moved.clients = s.clients
  BY <1>2, <1>4 DEF SameAliases, SameRegistry, Plain
<1>7. CASE n # to \/ to \notin moved.enabled
  <2>1. (n \in moved.enabled) = (n \in s.enabled)
    BY <1>2, <1>5, <1>7 DEF SameRegistry
  <2>2. KeepsTold(s, moved, n)
    BY <1>2, <1>5, <1>6, <2>1 DEF KeepsTold, SameRegistry
  <2>3. KeepsTold(moved, Broadcast(moved, to), n)
    BY <1>4, <1>6, BroadcastKeeps
  <2> QED
    BY <1>3, <2>2, <2>3, KeepsComposes
<1>8. CASE n = to /\ to \in moved.enabled
  <2>1. Plain(Broadcast(moved, n), n) /\ Broadcast(moved, n).clients = moved.clients
    BY <1>4, <1>6, BroadcastKeeps DEF KeepsTold
  <2>2. \A c \in moved.clients, pending \in SUBSET Name :
           Relayed(Broadcast(moved, n).out[c], pending, n, n \in Broadcast(moved, n).enabled)
    BY <1>4, <1>6, BroadcastOwn
  <2> QED
    BY <1>3, <1>6, <1>8, <2>1, <2>2 DEF KeepsTold
<1> QED
  BY <1>7, <1>8

\* The row of another name takes an alias.
LEMMA ApplyAliasKeeps ==
    ASSUME NEW s, Sound(s), NEW p \in s.alias_pending, NEW alias \in MaybeName,
           alias # None => s.probe_names[alias] = None,
           NEW n \in Name \ {alias}, Plain(s, n)
    PROVE  KeepsTold(s, ApplyAlias(s, p, alias), n)
<1>1. s \in State /\ p \in Name /\ p # n
  BY DEF Sound, State, Plain
<1>2. CASE alias \in {None, p}
  <2> DEFINE done == [s EXCEPT !.alias_pending = @ \ {p}]
  <2>1. ApplyAlias(s, p, alias) = done
    BY <1>2 DEF ApplyAlias
  <2>2. /\ done.display_names = s.display_names /\ done.probe_names = s.probe_names
        /\ n \notin done.alias_pending /\ done.clients = s.clients
        /\ done.out = s.out /\ done.enabled = s.enabled
    BY <1>1 DEF State, Plain
  <2> HIDE DEF done
  <2> QED
    BY <2>1, <2>2, UntouchedKeeps
<1>3. CASE alias \notin {None, p}
  <2> DEFINE t == Aliased(s, p, alias)
  <2>1. ApplyAlias(s, p, alias) = Rename(t, p, alias)
    BY <1>3 DEF ApplyAlias, Aliased
  <2>2. alias \in Name /\ s.probe_names[alias] = None
    BY <1>3 DEF MaybeName
  <2>3. /\ Sound(t) /\ SameRegistry(s, t)
        /\ t.probe_names = [s.probe_names EXCEPT ![alias] = p]
        /\ t.alias_pending = s.alias_pending \ {p}
    BY <2>2, AliasedSound
  <2>4. t.display_names[n] = s.display_names[n]
    BY <1>1 DEF Aliased, State
  <2> HIDE DEF t
  <2>5. t.probe_names[n] = s.probe_names[n]
    BY <1>1, <2>3 DEF State
  <2>6. Plain(t, n)
    BY <2>3, <2>4, <2>5 DEF Plain
  <2>7. KeepsTold(s, t, n)
    BY <2>3, <2>6 DEF KeepsTold, SameRegistry
  <2>8. KeepsTold(t, Rename(t, p, alias), n)
    BY <1>1, <2>2, <2>3, <2>6, RenameKeeps
  <2> QED
    BY <2>1, <2>7, <2>8, KeepsComposes
<1> QED
  BY <1>2, <1>3

\* A toggle of any row.
LEMMA SetTrackKeeps ==
    ASSUME NEW s, Sound(s), NEW m \in Name, NEW on \in BOOLEAN,
           NEW n \in Name, Plain(s, n)
    PROVE  KeepsTold(s, SetTrack(s, m, on), n)
<1> DEFINE declared == Declare(s, m, FALSE)
           boxes == IF on THEN declared.enabled \cup {m} ELSE declared.enabled \ {m}
           t == [declared EXCEPT !.enabled = boxes]
<1>1. /\ Sound(declared) /\ KeepsTold(s, declared, n)
      /\ declared.items = s.items \cup {m}
  BY DeclareSound, DeclareKeeps
<1>2. SetTrack(s, m, on) = Broadcast(t, m)
  BY DEF SetTrack
<1> HIDE DEF declared
<1>3. /\ declared \in State /\ boxes \in SUBSET Name /\ boxes \subseteq declared.items
      /\ n # m => (n \in boxes <=> n \in declared.enabled)
  BY <1>1 DEF Sound, State
<1> HIDE DEF boxes
<1>4. /\ t \in State /\ SameAliases(declared, t) /\ t.out = declared.out
      /\ t.items = declared.items /\ t.enabled = boxes
  BY <1>3 DEF State, SameAliases
<1>5. Sound(t) /\ Plain(t, n)
  BY <1>1, <1>3, <1>4 DEF Sound, SameAliases, KeepsTold, Plain
<1> HIDE DEF t
<1>6. CASE n # m
  <2>1. KeepsTold(declared, t, n)
    BY <1>1, <1>3, <1>4, <1>6, UntouchedKeeps DEF SameAliases, KeepsTold, Plain
  <2>2. KeepsTold(t, Broadcast(t, m), n)
    BY <1>5, BroadcastKeeps
  <2> QED
    BY <1>1, <1>2, <2>1, <2>2, KeepsComposes
<1>7. CASE n = m
  <2>1. Plain(Broadcast(t, n), n) /\ Broadcast(t, n).clients = t.clients
    BY <1>5, BroadcastKeeps DEF KeepsTold
  <2>2. \A c \in t.clients, pending \in SUBSET Name :
           Relayed(Broadcast(t, n).out[c], pending, n, n \in Broadcast(t, n).enabled)
    BY <1>5, BroadcastOwn
  <2>3. t.clients = s.clients
    BY <1>1, <1>4 DEF SameAliases, KeepsTold
  <2> QED
    BY <1>2, <1>7, <2>1, <2>2, <2>3 DEF KeepsTold
<1> QED
  BY <1>6, <1>7

\* The fallback names of the buffers.
Fallbacks == {Placeholder[b] : b \in Buf}

\* A probe declares and renames fallback names only.
Sited(ln) ==
    /\ ln.type = "decl" => ln.name \in Fallbacks
    /\ ln.type = "rename" => ln.from \in Fallbacks

SitedLines(lines) == \A i \in 1 .. Len(lines) : Sited(lines[i])

\* Whatever a probe sends.
LEMMA HandleKeeps ==
    ASSUME NEW s, Sound(s), NEW ln \in Line, Sited(ln),
           NEW n \in Name \ Fallbacks, Plain(s, n)
    PROVE  KeepsTold(s, Handle(s, ln), n)
<1>1. s \in State
  BY DEF Sound
<1>2. CASE ln.type = "decl"
  <2> DEFINE declared == Declare(s, DisplayName(s, ln.name), ln.meta)
             queued == Queue(declared, ln.name, ln.sited)
  <2>1. ln.name \in Name /\ ln.meta \in BOOLEAN /\ ln.sited \in BOOLEAN
    BY <1>2 DEF Line
  <2>2. DisplayName(s, ln.name) \in Name /\ ln.name # n
    BY <1>1, <1>2, <2>1, NamesOfNames DEF Sited
  <2>3. Handle(s, ln) \in {declared, queued}
    BY <1>2 DEF Handle, ProbeDeclares
  <2>4. Sound(declared) /\ KeepsTold(s, declared, n)
    BY <2>1, <2>2, DeclareSound, DeclareKeeps
  <2> HIDE DEF declared
  <2>5. /\ queued.display_names = declared.display_names
        /\ queued.probe_names = declared.probe_names
        /\ queued.alias_pending \subseteq declared.alias_pending \cup {ln.name}
        /\ queued.clients = declared.clients
        /\ queued.out = declared.out /\ queued.enabled = declared.enabled
    BY <2>4 DEF Queue, Sound, State
  <2> HIDE DEF queued
  <2>6. KeepsTold(declared, queued, n)
    BY <2>2, <2>4, <2>5, UntouchedKeeps DEF KeepsTold, Plain
  <2> QED
    BY <2>3, <2>4, <2>6, KeepsComposes
<1>3. CASE ln.type = "rename"
  <2>1. Handle(s, ln) = ProbeRenames(s, ln.from, ln.name)
    BY <1>3 DEF Handle
  <2>2. ln.name \in Name /\ ln.from \in Name /\ ln.from # n
    BY <1>3 DEF Line, Sited
  <2> QED
    BY <2>1, <2>2, ProbeRenamesKeeps
<1>4. CASE ln.type = "tensor"
  <2> DEFINE row == DisplayName(s, ln.name)
             declared == Declare(s, row, TRUE)
  <2>1. ln.name \in Name
    BY <1>4 DEF Line
  <2>2. row \in Name
    BY <1>1, <2>1, NamesOfNames
  <2>3. Handle(s, ln) \in {declared, Emit(declared, Frame(row))}
    BY <1>4 DEF Handle, ProbeSendsTensor
  <2> HIDE DEF row
  <2>4. Sound(declared) /\ KeepsTold(s, declared, n)
    BY <2>2, DeclareSound, DeclareKeeps
  <2>5. Frame(row) \in Event
    BY <2>2, FrameType
  <2> HIDE DEF declared
  <2>6. KeepsTold(declared, Emit(declared, Frame(row)), n)
    BY <2>4, <2>5, EmitKeeps DEF KeepsTold
  <2> QED
    BY <2>3, <2>4, <2>6, KeepsComposes
<1> QED
  BY <1>2, <1>3, <1>4 DEF Line

\* The replay tells a new client of every checked row.
LEMMA ReplayTells ==
    ASSUME NEW s, Sound(s), NEW lines \in Replays(s), NEW n \in Name, Plain(s, n)
    PROVE  Relayed(lines, {}, n, n \in s.enabled)
<1>1. s \in State /\ s.enabled \subseteq Name
  BY DEF Sound, State
<1>2. Cardinality(s.enabled) \in Nat
  BY <1>1, NamesFinite, FS_Subset, FS_CardinalityType
<1>3. PICK q \in [1 .. Cardinality(s.enabled) -> s.enabled] :
        /\ \A m \in s.enabled : \E i \in DOMAIN q : q[i] = m
        /\ lines = [i \in DOMAIN q |-> TrackLine(s, q[i])]
  BY DEF Replays
<1>4. Len(lines) = Cardinality(s.enabled)
  BY <1>2, <1>3
<1>5. ASSUME NEW i \in 1 .. Len(lines), lines[i].name = n
      PROVE  n \in s.enabled /\ lines[i].enabled
  <2>1. lines[i] = TrackLine(s, q[i]) /\ q[i] \in s.enabled
    BY <1>3, <1>4
  <2>2. q[i] \in Name /\ ProbeName(s, q[i]) = n
    BY <1>1, <1>5, <2>1 DEF TrackLine
  <2>3. q[i] = n
    BY <2>2, PlainNames
  <2>4. lines[i].enabled = (q[i] \in s.enabled)
    BY <2>1 DEF TrackLine
  <2> QED
    BY <2>1, <2>3, <2>4
<1>6. ASSUME n \in s.enabled PROVE \E i \in 1 .. Len(lines) : lines[i].name = n
  <2>1. PICK i \in 1 .. Len(lines) : q[i] = n
    BY <1>3, <1>4, <1>6
  <2>2. lines[i].name = n
    BY <1>3, <1>4, <2>1 DEF TrackLine, ProbeName, Plain
  <2> QED
    BY <2>2
<1> QED
  BY <1>5, <1>6 DEF Relayed

-----------------------------------------------------------------------------
(* The labels.                                                             *)

\* No label is the fallback name of a buffer or a variant of an alias: the
\* labels are names of their own.
LabelsAreTheirOwn ==
    /\ Label \cap Fallbacks = {}
    /\ \A base \in Base : \A k \in DOMAIN Suffix[base] : Suffix[base][k] \notin Label

\* What a probe has written and will write, its names, and its memory of the
\* tracks: a buffer whose name it remembers is tracked (g_pendingTracked).
ProbeSays(c) ==
    /\ SitedLines(wire[c])
    /\ SitedLines(probe[c].owed)
    /\ \A b \in Buf : probe[c].name[b] \in {None, Placeholder[b]} \cup Label
    /\ \A b \in Buf : probe[c].name[b] \in probe[c].pending => b \in probe[c].tracked

\* What the server says to a client.
ServerSays(c) ==
    /\ conn[c] = "new" => probe[c].pending = {}
    /\ conn[c] = "open"
         => \A n \in Label :
               /\ c \in state.clients
               /\ Relayed(state.out[c], probe[c].pending, n, n \in state.enabled)

LabelInv ==
    /\ \A n \in Label : Plain(state, n)
    /\ \A c \in Client : ProbeSays(c) /\ ServerSays(c)

\* Lines of a probe behind lines of a probe, and without the first.
LEMMA SitedAppend ==
    ASSUME NEW lines \in Seq(Line), SitedLines(lines),
           NEW more \in Seq(Line), SitedLines(more)
    PROVE  SitedLines(lines \o more)
<1> DEFINE all == lines \o more
<1>1. /\ Len(lines) \in Nat /\ Len(more) \in Nat
      /\ Len(all) = Len(lines) + Len(more)
  OBVIOUS
<1>2. \A i \in 1 .. Len(all) :
         all[i] = IF i <= Len(lines) THEN lines[i] ELSE more[i - Len(lines)]
  OBVIOUS
<1> HIDE DEF all
<1>3. ASSUME NEW i \in 1 .. Len(all) PROVE Sited(all[i])
  <2>1. CASE i <= Len(lines)
    <3>1. i \in 1 .. Len(lines)
      BY <1>1, <2>1
    <3> QED
      BY <1>2, <2>1, <3>1 DEF SitedLines
  <2>2. CASE ~(i <= Len(lines))
    <3>1. i - Len(lines) \in 1 .. Len(more)
      BY <1>1, <2>2
    <3> QED
      BY <1>2, <2>2, <3>1 DEF SitedLines
  <2> QED
    BY <2>1, <2>2
<1> QED
  BY <1>3 DEF SitedLines, all

LEMMA SitedTail ==
    ASSUME NEW lines \in Seq(Line), lines # <<>>, SitedLines(lines)
    PROVE  Sited(Head(lines)) /\ SitedLines(Tail(lines))
<1>1. /\ Len(lines) \in Nat /\ Len(lines) >= 1
      /\ Len(Tail(lines)) = Len(lines) - 1
      /\ Head(lines) = lines[1]
  OBVIOUS
<1>2. \A i \in 1 .. Len(Tail(lines)) : Tail(lines)[i] = lines[i + 1]
  OBVIOUS
<1>3. \A i \in 1 .. Len(Tail(lines)) : i + 1 \in 1 .. Len(lines)
  BY <1>1
<1>4. 1 \in 1 .. Len(lines)
  BY <1>1
<1> QED
  BY <1>1, <1>2, <1>3, <1>4 DEF SitedLines

\* Frames declare and rename nothing.
LEMMA FramesAreSited ==
    ASSUME NEW lines \in Seq(Line), \A i \in 1 .. Len(lines) : lines[i].type = "tensor"
    PROVE  SitedLines(lines)
BY DEF SitedLines, Sited

\* What is written to the socket of one client.
LEMMA WritesSited ==
    ASSUME wire \in [Client -> Seq(Line)], NEW c \in Client, NEW lines \in Seq(Line),
           Writes(c, lines), SitedLines(lines), SitedLines(wire[c])
    PROVE  SitedLines(wire'[c]) /\ \A d \in Client : d # c => wire'[d] = wire[d]
<1>1. wire' = [wire EXCEPT ![c] = wire[c] \o lines]
  BY DEF Writes
<1>2. wire'[c] = wire[c] \o lines
  BY <1>1
<1>3. SitedLines(wire[c] \o lines)
  BY SitedAppend
<1> QED
  BY <1>1, <1>2, <1>3

\* A buffer that gets a name the probe remembers is tracked.
LEMMA NamesSays ==
    ASSUME ProbesOK, NEW c \in Client, NEW b \in Buf, NEW n \in Name,
           NEW line \in Line, Sited(line), n \in {Placeholder[b]} \cup Label,
           Names(c, b, n, line), ProbeSays(c)
    PROVE  /\ ProbeSays(c)' /\ probe'[c].pending = probe[c].pending
           /\ \A d \in Client : d # c => probe'[d] = probe[d] /\ wire'[d] = wire[d]
<1> DEFINE names == [probe[c].name EXCEPT ![b] = n]
           told == IF n \in probe[c].pending THEN probe[c].tracked \cup {b}
                                             ELSE probe[c].tracked
           ps == [probe[c] EXCEPT !.name = names, !.tracked = told, !.owed = <<line>>]
<1>1. probe \in [Client -> ProbeState] /\ probe[c] \in ProbeState
  BY DEF ProbesOK
<1>2. probe' = [probe EXCEPT ![c] = ps] /\ wire' = wire
  BY <1>1 DEF Names, ProbeState
<1>3. \A d \in Buf : names[d] = IF d = b THEN n ELSE probe[c].name[d]
  BY <1>1 DEF ProbeState
<1> HIDE DEF names
<1>4. /\ ps.name = names /\ ps.tracked = told /\ ps.owed = <<line>>
      /\ ps.pending = probe[c].pending
  BY <1>1 DEF ProbeState
<1> HIDE DEF ps
<1>5. probe'[c] = ps /\ \A d \in Client : d # c => probe'[d] = probe[d]
  BY <1>1, <1>2
<1>6. SitedLines(<<line>>)
  BY DEF SitedLines
<1>7. \A d \in Buf : names[d] \in {None, Placeholder[d]} \cup Label
  BY <1>3 DEF ProbeSays
<1>8. \A d \in Buf : names[d] \in probe[c].pending => d \in told
  BY <1>3 DEF ProbeSays
<1>9. ProbeSays(c)'
  BY <1>2, <1>4, <1>5, <1>6, <1>7, <1>8 DEF ProbeSays
<1> QED
  BY <1>2, <1>4, <1>5, <1>9

\* A step of a probe that reads no track.
LEMMA ProbeWritesSays ==
    ASSUME SysIInv, NEW c \in Client, ProbeAction(c), ~HandleControlLine(c), ProbeSays(c)
    PROVE  /\ ProbeSays(c)' /\ probe'[c].pending = probe[c].pending
           /\ \A d \in Client : d # c => probe'[d] = probe[d] /\ wire'[d] = wire[d]
           /\ UNCHANGED vars
<1>1. /\ ProbesOK /\ probe \in [Client -> ProbeState] /\ probe[c] \in ProbeState
      /\ wire \in [Client -> Seq(Line)] /\ SitedLines(wire[c])
  BY DEF SysIInv, ProbesOK, ProbeSays
<1> DEFINE Goal == /\ ProbeSays(c)' /\ probe'[c].pending = probe[c].pending
                   /\ \A d \in Client : d # c => probe'[d] = probe[d] /\ wire'[d] = wire[d]
<1>2. ASSUME NEW b \in Buf, Register(c, b)
      PROVE  Goal /\ UNCHANGED vars
  <2>1. Names(c, b, Placeholder[b], DeclLine(Placeholder[b]))
    BY <1>2 DEF Register
  <2>2. /\ Placeholder[b] \in Name /\ DeclLine(Placeholder[b]) \in Line
        /\ Sited(DeclLine(Placeholder[b]))
    BY PlaceholdersAreNames, LineTypes DEF Sited, DeclLine, Fallbacks
  <2>3. Goal
    BY <1>1, <2>1, <2>2, NamesSays
  <2> QED
    BY <2>1, <2>3 DEF Names
<1>3. ASSUME NEW b \in Buf, NEW label \in Label, SetLabel(c, b, label)
      PROVE  Goal /\ UNCHANGED vars
  <2>1. Names(c, b, label, RenameLine(Placeholder[b], label))
    BY <1>3 DEF SetLabel
  <2>2. /\ label \in Name /\ RenameLine(Placeholder[b], label) \in Line
        /\ Sited(RenameLine(Placeholder[b], label))
    BY PlaceholdersAreNames, LineTypes DEF Sited, RenameLine, Fallbacks
  <2>3. Goal
    BY <1>1, <2>1, <2>2, NamesSays
  <2> QED
    BY <2>1, <2>3 DEF Names
<1>4. ASSUME NEW ps \in ProbeState, probe' = [probe EXCEPT ![c] = ps],
             ps.name = probe[c].name, ps.tracked = probe[c].tracked,
             ps.pending = probe[c].pending, SitedLines(ps.owed), SitedLines(wire'[c]),
             \A d \in Client : d # c => wire'[d] = wire[d]
      PROVE  Goal
  <2>1. probe'[c] = ps /\ \A d \in Client : d # c => probe'[d] = probe[d]
    BY <1>1, <1>4
  <2> QED
    BY <1>4, <2>1 DEF ProbeSays
<1>5. ASSUME NEW n \in Name
      PROVE  <<TensorLine(n)>> \in Seq(Line) /\ SitedLines(<<TensorLine(n)>>)
  <2>1. <<TensorLine(n)>> \in Seq(Line)
    BY LineTypes
  <2>2. TensorLine(n).type = "tensor"
    BY DEF TensorLine
  <2>3. SitedLines(<<TensorLine(n)>>)
    BY <2>2 DEF SitedLines, Sited
  <2> QED
    BY <2>1, <2>3
<1>6. <<>> \in Seq(Line) /\ SitedLines(<<>>)
  <2>1. <<>> \in Seq(Line) /\ Len(<<>>) = 0
    OBVIOUS
  <2> QED
    BY <2>1 DEF SitedLines
<1>7. ASSUME NEW b \in Buf, Snapshot(c, b)
      PROVE  Goal /\ UNCHANGED vars
  <2> DEFINE ps == [probe[c] EXCEPT !.snaps = probe[c].snaps \ {b}]
  <2>1. probe[c].name[b] \in Name
    BY <1>1, <1>7 DEF Snapshot, ProbesOK
  <2>2. SitedLines(wire'[c]) /\ \A d \in Client : d # c => wire'[d] = wire[d]
    <3>1. Writes(c, <<TensorLine(probe[c].name[b])>>)
      BY <1>7 DEF Snapshot
    <3> QED
      BY <1>1, <1>5, <2>1, <3>1, WritesSited
  <2>3. probe' = [probe EXCEPT ![c] = ps]
    BY <1>1, <1>7 DEF Snapshot, ProbeState
  <2>4. /\ ps \in ProbeState /\ ps.name = probe[c].name
        /\ ps.tracked = probe[c].tracked /\ ps.pending = probe[c].pending
        /\ ps.owed = probe[c].owed
    BY <1>1 DEF ProbeState
  <2> HIDE DEF ps
  <2>5. SitedLines(ps.owed)
    BY <2>4 DEF ProbeSays
  <2>6. Goal
    BY <1>4, <2>2, <2>3, <2>4, <2>5
  <2> QED
    BY <1>7, <2>6 DEF Snapshot
<1>8. ASSUME NEW b \in Buf, Flush(c, b)
      PROVE  Goal /\ UNCHANGED vars
  <2>1. probe[c].name[b] \in Name
    BY <1>1, <1>8 DEF Flush, ProbesOK
  <2>2. SitedLines(wire'[c]) /\ \A d \in Client : d # c => wire'[d] = wire[d]
    <3>1. Writes(c, <<TensorLine(probe[c].name[b])>>)
      BY <1>8 DEF Flush
    <3> QED
      BY <1>1, <1>5, <2>1, <3>1, WritesSited
  <2>3. probe' = probe
    BY <1>8 DEF Flush
  <2> QED
    BY <1>8, <2>2, <2>3 DEF Flush, ProbeSays
<1>9. CASE EmitOwed(c)
  <2> DEFINE ps == [probe[c] EXCEPT !.owed = <<>>]
  <2>1. SitedLines(wire'[c]) /\ \A d \in Client : d # c => wire'[d] = wire[d]
    <3>1. Writes(c, probe[c].owed) /\ probe[c].owed \in Seq(Line)
      BY <1>1, <1>9 DEF EmitOwed, ProbeState
    <3>2. SitedLines(probe[c].owed)
      BY DEF ProbeSays
    <3> QED
      BY <1>1, <3>1, <3>2, WritesSited
  <2>2. probe' = [probe EXCEPT ![c] = ps]
    BY <1>1, <1>9 DEF EmitOwed, ProbeState
  <2>3. /\ ps \in ProbeState /\ ps.name = probe[c].name
        /\ ps.tracked = probe[c].tracked /\ ps.pending = probe[c].pending
        /\ ps.owed = <<>>
    BY <1>1, <1>6 DEF ProbeState
  <2> HIDE DEF ps
  <2>4. Goal
    BY <1>4, <1>6, <2>1, <2>2, <2>3
  <2> QED
    BY <1>9, <2>4 DEF EmitOwed
<1>10. CASE Exit(c)
  <2> DEFINE ps == [probe[c] EXCEPT !.exited = TRUE, !.owed = <<>>, !.snaps = {}]
  <2>1. SitedLines(wire'[c]) /\ \A d \in Client : d # c => wire'[d] = wire[d]
    <3>1. CASE UNCHANGED wire
      BY <1>1, <3>1
    <3>2. ASSUME NEW last \in [1 .. Cardinality(probe[c].tracked) -> probe[c].tracked],
                 Writes(c, [i \in DOMAIN last |-> TensorLine(probe[c].name[last[i]])])
          PROVE  SitedLines(wire'[c]) /\ \A d \in Client : d # c => wire'[d] = wire[d]
      <4> DEFINE lines == [i \in DOMAIN last |-> TensorLine(probe[c].name[last[i]])]
      <4>1. lines \in Seq(Line)
        BY <1>1, LastFlushType
      <4>2. Cardinality(probe[c].tracked) \in Nat
        BY <1>1, BuffersFinite, FS_Subset, FS_CardinalityType DEF ProbeState
      <4>3. \A i \in 1 .. Len(lines) : lines[i].type = "tensor"
        BY <4>2 DEF TensorLine
      <4>4. Writes(c, lines)
        BY <3>2
      <4> HIDE DEF lines
      <4>5. SitedLines(lines)
        BY <4>1, <4>3, FramesAreSited
      <4> QED
        BY <1>1, <4>1, <4>4, <4>5, WritesSited
    <3> QED
      BY <1>10, <3>1, <3>2 DEF Exit
  <2>2. probe' = [probe EXCEPT ![c] = ps]
    BY <1>1, <1>10 DEF Exit, ProbeState
  <2>3. /\ ps \in ProbeState /\ ps.name = probe[c].name
        /\ ps.tracked = probe[c].tracked /\ ps.pending = probe[c].pending
        /\ ps.owed = <<>>
    BY <1>1, <1>6 DEF ProbeState
  <2> HIDE DEF ps
  <2>4. Goal
    BY <1>4, <1>6, <2>1, <2>2, <2>3
  <2> QED
    BY <1>10, <2>4 DEF Exit
<1> QED
  BY <1>2, <1>3, <1>7, <1>8, <1>9, <1>10 DEF ProbeAction

\* What a probe says depends on its socket and its state only.
LEMMA ProbeSaysSame ==
    ASSUME NEW c \in Client, ProbeSays(c), probe'[c] = probe[c], wire'[c] = wire[c]
    PROVE  ProbeSays(c)'
BY DEF ProbeSays

\* A probe reads a track.
LEMMA ControlSays ==
    ASSUME SysIInv, LabelInv, NEW c \in Client, HandleControlLine(c)
    PROVE  LabelInv'
<1> DEFINE track == Head(state.out[c])
           named == {b \in Buf : probe[c].name[b] = track.name}
           p == probe[c]
           pend == IF track.enabled THEN p.pending \cup {track.name}
                                    ELSE p.pending \ {track.name}
           told == IF track.enabled THEN p.tracked \cup named ELSE p.tracked \ named
           ps == [p EXCEPT !.pending = pend, !.tracked = told,
                           !.snaps = IF track.enabled THEN named \ p.tracked ELSE {}]
<1>1. /\ probe \in [Client -> ProbeState] /\ p \in ProbeState
      /\ state \in State /\ ProbeSays(c) /\ ServerSays(c)
  BY DEF SysIInv, IInv, Sound, ProbesOK, LabelInv
<1>2. state.out[c] \in Seq(Track) /\ state.out[c] # <<>> /\ conn[c] = "open"
  BY <1>1 DEF HandleControlLine, Running, State
<1>3. track \in Track
  BY <1>2
<1>4. track.name \in Name /\ track.enabled \in BOOLEAN
  BY <1>3 DEF Track
<1>5. probe' = [probe EXCEPT ![c] = ps]
  BY <1>1 DEF HandleControlLine, ProbeState
<1>6. /\ ps.name = p.name /\ ps.owed = p.owed
      /\ ps.pending = pend /\ ps.tracked = told
  BY <1>1 DEF ProbeState
<1> HIDE DEF ps
<1>7. probe'[c] = ps /\ \A d \in Client : d # c => probe'[d] = probe[d]
  BY <1>1, <1>5
<1>8. /\ wire' = wire /\ conn' = conn
      /\ state' = [state EXCEPT !.out[c] = Tail(state.out[c])]
  BY <1>1 DEF HandleControlLine, ClientReads, State
<1>9. /\ state'.out[c] = Tail(state.out[c])
      /\ \A d \in Client : d # c => state'.out[d] = state.out[d]
      /\ state'.enabled = state.enabled /\ state'.clients = state.clients
      /\ state'.display_names = state.display_names
      /\ state'.probe_names = state.probe_names
      /\ state'.alias_pending = state.alias_pending
  BY <1>1, <1>8 DEF State
<1>10. ASSUME NEW b \in Buf, p.name[b] \in pend PROVE b \in told
  <2>1. p.name[b] \in p.pending => b \in p.tracked
    BY <1>1 DEF ProbeSays
  <2>2. b \in named <=> p.name[b] = track.name
    OBVIOUS
  <2> HIDE DEF named, track, p
  <2> QED
    BY <1>10, <2>1, <2>2
<1>11. ProbeSays(c)'
  <2> HIDE DEF pend, told
  <2> QED
    BY <1>1, <1>6, <1>7, <1>8, <1>10 DEF ProbeSays
<1>12. ServerSays(c)'
  <2>1. ASSUME NEW n \in Label
        PROVE  Relayed(Tail(state.out[c]), pend, n, n \in state.enabled)
    <3>1. Relayed(state.out[c], p.pending, n, n \in state.enabled)
      BY <1>1, <1>2 DEF ServerSays
    <3>2. (n \in state.enabled) \in BOOLEAN
      OBVIOUS
    <3> QED
      BY <1>2, <3>1, <3>2, RelayedTail
  <2> HIDE DEF pend, told
  <2> QED
    BY <1>1, <1>2, <1>6, <1>7, <1>8, <1>9, <2>1 DEF ServerSays
<1>13. ASSUME NEW d \in Client, d # c PROVE ProbeSays(d)' /\ ServerSays(d)'
  <2>1. ProbeSays(d)'
    BY <1>7, <1>8, <1>13, ProbeSaysSame DEF LabelInv
  <2>2. ServerSays(d)'
    BY <1>7, <1>8, <1>9, <1>13 DEF LabelInv, ServerSays
  <2> QED
    BY <2>1, <2>2
<1>14. \A n \in Label : Plain(state', n)
  BY <1>9 DEF LabelInv, Plain
<1> QED
  BY <1>11, <1>12, <1>13, <1>14 DEF LabelInv

\* Any other step of a probe.
LEMMA ProbeLabels ==
    ASSUME SysIInv, LabelInv, NEW c \in Client, ProbeAction(c)
    PROVE  LabelInv'
<1>1. CASE HandleControlLine(c)
  BY <1>1, ControlSays
<1>2. CASE ~HandleControlLine(c)
  <2>1. /\ ProbeSays(c)' /\ probe'[c].pending = probe[c].pending
        /\ \A d \in Client : d # c => probe'[d] = probe[d] /\ wire'[d] = wire[d]
        /\ UNCHANGED vars
    BY <1>2, ProbeWritesSays DEF LabelInv
  <2>2. ASSUME NEW d \in Client PROVE ProbeSays(d)'
    BY <2>1, ProbeSaysSame DEF LabelInv
  <2>3. ASSUME NEW d \in Client PROVE ServerSays(d)'
    <3>1. probe'[d].pending = probe[d].pending
      BY <2>1
    <3> QED
      BY <2>1, <3>1 DEF LabelInv, ServerSays, vars
  <2> QED
    BY <2>1, <2>2, <2>3 DEF LabelInv, vars
<1> QED
  BY <1>1, <1>2

\* The server's state changes in a way that loses nothing for the labels.
LEMMA KeptLabels ==
    ASSUME SysIInv, LabelInv, \A n \in Label : KeepsTold(state, state', n),
           conn' = conn, probe' = probe,
           \A c \in Client : SitedLines(wire'[c])
    PROVE  LabelInv'
<1>1. ASSUME NEW c \in Client PROVE ProbeSays(c)'
  BY DEF LabelInv, ProbeSays
<1>2. ASSUME NEW c \in Client PROVE ServerSays(c)'
  <2>1. ServerSays(c) /\ probe[c].pending \in SUBSET Name
    BY DEF LabelInv, SysIInv, ProbesOK, ProbeState
  <2> QED
    BY <2>1 DEF ServerSays, KeepsTold
<1> QED
  BY <1>1, <1>2 DEF LabelInv, KeepsTold

\* A probe connects: the replay tells it of every label.
LEMMA LaunchLabels ==
    ASSUME SysIInv, LabelInv, NEW c \in Client, Launch(c)
    PROVE  LabelInv'
<1>1. PICK lines \in Replays(state) :
        state' = [state EXCEPT !.clients = @ \cup {c}, !.out[c] = lines]
  BY DEF Launch, Accept
<1>2. /\ Sound(state) /\ state \in State /\ conn[c] = "new"
      /\ conn \in [Client -> {"new", "open", "closed"}]
      /\ conn' = [conn EXCEPT ![c] = "open"] /\ wire' = wire /\ probe' = probe
  BY DEF SysIInv, IInv, Sound, Launch, Accept
<1>3. /\ state'.out[c] = lines /\ c \in state'.clients
      /\ \A d \in Client : d # c => /\ state'.out[d] = state.out[d]
                                    /\ d \in state.clients => d \in state'.clients
      /\ state'.enabled = state.enabled
      /\ state'.display_names = state.display_names
      /\ state'.probe_names = state.probe_names
      /\ state'.alias_pending = state.alias_pending
  BY <1>1, <1>2 DEF State
<1>4. conn'[c] = "open" /\ \A d \in Client : d # c => conn'[d] = conn[d]
  BY <1>2
<1>5. ServerSays(c)'
  <2>1. probe[c].pending = {}
    BY <1>2 DEF LabelInv, ServerSays
  <2>2. ASSUME NEW n \in Label PROVE Relayed(lines, {}, n, n \in state.enabled)
    <3>1. n \in Name /\ Plain(state, n)
      BY PlaceholdersAreNames DEF LabelInv
    <3> QED
      BY <1>2, <3>1, ReplayTells
  <2> QED
    BY <1>2, <1>3, <1>4, <2>1, <2>2 DEF ServerSays
<1>6. ASSUME NEW d \in Client, d # c PROVE ServerSays(d)'
  <2>1. /\ conn'[d] = conn[d] /\ probe'[d] = probe[d]
        /\ state'.out[d] = state.out[d]
        /\ d \in state.clients => d \in state'.clients
        /\ state'.enabled = state.enabled
    BY <1>2, <1>3, <1>4, <1>6
  <2>2. ServerSays(d)
    BY DEF LabelInv
  <2> QED
    BY <2>1, <2>2 DEF ServerSays
<1>7. \A d \in Client : ProbeSays(d)'
  BY <1>2 DEF LabelInv, ProbeSays
<1>8. \A n \in Label : Plain(state', n)
  BY <1>3 DEF LabelInv, Plain
<1> QED
  BY <1>5, <1>6, <1>7, <1>8 DEF LabelInv

\* A probe's socket is at its end: nothing more is said to it.
LEMMA ExitLabels ==
    ASSUME SysIInv, LabelInv, NEW c \in Client, ServerSeesExit(c)
    PROVE  LabelInv'
<1>1. /\ state \in State /\ conn \in [Client -> {"new", "open", "closed"}]
      /\ state' = [state EXCEPT !.clients = @ \ {c}, !.out[c] = <<>>]
      /\ conn' = [conn EXCEPT ![c] = "closed"] /\ wire' = wire /\ probe' = probe
  BY DEF SysIInv, IInv, Sound, ServerSeesExit, Disconnect
<1>2. /\ \A d \in Client : d # c => /\ state'.out[d] = state.out[d]
                                    /\ d \in state.clients => d \in state'.clients
      /\ state'.enabled = state.enabled
      /\ state'.display_names = state.display_names
      /\ state'.probe_names = state.probe_names
      /\ state'.alias_pending = state.alias_pending
  BY <1>1 DEF State
<1>3. conn'[c] = "closed" /\ \A d \in Client : d # c => conn'[d] = conn[d]
  BY <1>1
<1>4. ServerSays(c)'
  BY <1>1, <1>3 DEF ServerSays
<1>5. ASSUME NEW d \in Client, d # c PROVE ServerSays(d)'
  BY <1>1, <1>2, <1>3, <1>5 DEF LabelInv, ServerSays
<1>6. \A d \in Client : ProbeSays(d)'
  BY <1>1 DEF LabelInv, ProbeSays
<1>7. \A n \in Label : Plain(state', n)
  BY <1>2 DEF LabelInv, Plain
<1> QED
  BY <1>4, <1>5, <1>6, <1>7 DEF LabelInv

\* The steps of the server.
LEMMA ServerLabels ==
    ASSUME LabelsAreTheirOwn, SysIInv, LabelInv, ServerAction
    PROVE  LabelInv'
<1>1. /\ Sound(state) /\ wire \in [Client -> Seq(Line)]
      /\ \A n \in Label : n \in Name \ Fallbacks /\ Plain(state, n)
      /\ \A c \in Client : SitedLines(wire[c])
  BY PlaceholdersAreNames
     DEF SysIInv, IInv, ProbesOK, LabelInv, ProbeSays, LabelsAreTheirOwn
<1>2. ASSUME NEW c \in Client, ServerReads(c)
      PROVE  LabelInv'
  <2>1. /\ wire[c] \in Seq(Line) /\ wire[c] # <<>>
        /\ wire' = [wire EXCEPT ![c] = Tail(wire[c])]
        /\ state' = Handle(state, Head(wire[c])) /\ conn' = conn /\ probe' = probe
    BY <1>1, <1>2 DEF ServerReads, HandleLine
  <2>2. Head(wire[c]) \in Line
    BY <2>1
  <2>3. Sited(Head(wire[c])) /\ SitedLines(Tail(wire[c]))
    BY <1>1, <2>1, SitedTail
  <2>4. \A n \in Label : KeepsTold(state, state', n)
    BY <1>1, <2>1, <2>2, <2>3, HandleKeeps
  <2>5. \A d \in Client : SitedLines(wire'[d])
    BY <1>1, <2>1, <2>3
  <2> QED
    BY <2>1, <2>4, <2>5, KeptLabels
<1>3. ASSUME NEW p \in Name, Symbolicated(p)
      PROVE  LabelInv'
  <2>1. Resolve(p) /\ wire' = wire /\ conn' = conn /\ probe' = probe
    BY <1>3 DEF Symbolicated, Resolve
  <2>2. PICK alias \in MaybeName : /\ alias # None => state.probe_names[alias] = None
                                   /\ alias \notin Label \/ alias = None
                                   /\ state' = ApplyAlias(state, p, alias)
    <3>1. CASE state' = ApplyAlias(state, p, None)
      BY <3>1 DEF MaybeName
    <3>2. ASSUME NEW base \in Base, NEW alias \in Name, UniqueAlias(state, base, alias),
                 state' = ApplyAlias(state, p, alias)
          PROVE  /\ alias \in MaybeName /\ state.probe_names[alias] = None
                 /\ alias \notin Label
      BY <3>2 DEF MaybeName, UniqueAlias, LabelsAreTheirOwn
    <3> QED
      BY <2>1, <3>1, <3>2 DEF Resolve
  <2>3. p \in state.alias_pending
    BY <2>1 DEF Resolve
  <2>4. ASSUME NEW n \in Label PROVE KeepsTold(state, state', n)
    <3>1. n \in Name \ {alias}
      BY <1>1, <2>2, NoneIsNoName
    <3> QED
      BY <1>1, <2>2, <2>3, <3>1, ApplyAliasKeeps
  <2> QED
    BY <1>1, <2>1, <2>4, KeptLabels
<1> QED
  BY <1>2, <1>3, LaunchLabels, ExitLabels DEF ServerAction

\* The steps of the sidebar.
LEMMA UiLabels ==
    ASSUME SysIInv, LabelInv, UiNext
    PROVE  LabelInv'
<1>1. /\ Sound(state) /\ state \in State
      /\ \A n \in Label : n \in Name /\ Plain(state, n)
      /\ \A c \in Client : SitedLines(wire[c])
  BY PlaceholdersAreNames DEF SysIInv, IInv, Sound, LabelInv, ProbeSays
<1>2. conn' = conn /\ probe' = probe /\ wire' = wire
  BY DEF UiNext, Apply, Toggle, UiSetTrack, RunEnds, vars
<1>3. ASSUME NEW n \in Label PROVE KeepsTold(state, state', n)
  <2>1. n \in Name /\ Plain(state, n)
    BY <1>1
  <2>2. CASE Apply
    <3> DEFINE e == Head(state.events)
               popped == [state EXCEPT !.events = Tail(@)]
    <3>1. state.events \in Seq(Event) /\ state.events # <<>>
      BY <1>1, <2>2 DEF Apply, State
    <3>2. e \in Event /\ Tail(state.events) \in Seq(Event)
      BY <3>1
    <3>3. e.name \in Name
      BY <3>2 DEF Event
    <3>4. state' \in {popped, SetTrack(popped, e.name, TRUE)}
      BY <2>2 DEF Apply
    <3> HIDE DEF e
    <3>5. /\ popped \in State
          /\ popped.items = state.items /\ popped.enabled = state.enabled
          /\ popped.display_names = state.display_names
          /\ popped.probe_names = state.probe_names
          /\ popped.alias_pending = state.alias_pending
          /\ popped.clients = state.clients /\ popped.out = state.out
      BY <1>1, <3>2 DEF State
    <3> HIDE DEF popped
    <3>6. Sound(popped) /\ Plain(popped, n)
      BY <1>1, <2>1, <3>5 DEF Sound, Plain
    <3>7. KeepsTold(state, popped, n)
      BY <3>5, <3>6 DEF KeepsTold
    <3>8. KeepsTold(popped, SetTrack(popped, e.name, TRUE), n)
      BY <2>1, <3>3, <3>6, SetTrackKeeps
    <3> QED
      BY <3>4, <3>7, <3>8, KeepsComposes
  <2>3. ASSUME NEW m \in Name, Toggle(m) PROVE KeepsTold(state, state', n)
    <3>1. state' = SetTrack(state, m, m \notin ui.on) /\ (m \notin ui.on) \in BOOLEAN
      BY <2>3 DEF Toggle, UiSetTrack
    <3> QED
      BY <1>1, <2>1, <3>1, SetTrackKeeps
  <2>4. CASE RunEnds
    <3>1. state' = state
      BY <2>4 DEF RunEnds, vars
    <3> QED
      BY <2>1, <3>1 DEF KeepsTold
  <2> QED
    BY <2>2, <2>3, <2>4 DEF UiNext
<1> QED
  BY <1>1, <1>2, <1>3, KeptLabels

\* Every step.
LEMMA LabelNext ==
    LabelsAreTheirOwn /\ SysIInv /\ LabelInv /\ [SysNext]_sysVars => LabelInv'
<1> SUFFICES ASSUME LabelsAreTheirOwn, SysIInv, LabelInv, [SysNext]_sysVars
             PROVE  LabelInv'
  OBVIOUS
<1>1. CASE ProbeNext
  <2>1. PICK c \in Client : ProbeAction(c)
    BY <1>1 DEF ProbeNext, ProbeAction
  <2> QED
    BY <2>1, ProbeLabels
<1>2. CASE ServerNext
  BY <1>2, ServerLabels DEF ServerNext, ServerAction
<1>3. CASE UiNext
  BY <1>3, UiLabels
<1>4. CASE UNCHANGED sysVars
  BY <1>4 DEF sysVars, vars, LabelInv, ProbeSays, ServerSays
<1> QED
  BY <1>1, <1>2, <1>3, <1>4 DEF SysNext

\* Nothing is named, told or remembered at the start.
LEMMA LabelInit == SysInit => LabelInv
<1> SUFFICES ASSUME SysInit PROVE LabelInv
  OBVIOUS
<1>1. /\ state.alias_pending = {}
      /\ \A n \in Name : state.display_names[n] = None /\ state.probe_names[n] = None
  BY DEF SysInit, InitState
<1>2. \A n \in Label : Plain(state, n)
  BY <1>1, PlaceholdersAreNames DEF Plain
<1>3. ASSUME NEW c \in Client PROVE ProbeSays(c) /\ ServerSays(c)
  <2>1. /\ wire[c] = <<>> /\ probe[c].owed = <<>> /\ probe[c].pending = {}
        /\ \A b \in Buf : probe[c].name[b] = None
        /\ conn[c] = "new"
    BY DEF SysInit
  <2>2. Len(<<>>) = 0
    OBVIOUS
  <2> QED
    BY <2>1, <2>2 DEF ProbeSays, ServerSays, SitedLines
<1> QED
  BY <1>2, <1>3 DEF LabelInv

\* The labels stay what they are, and the probes know of their checkboxes.
THEOREM LabelInvariance ==
    ASSUME LabelsAreTheirOwn
    PROVE  SysSpec => []LabelInv
<1>1. SysInit => LabelInv
  BY LabelInit
<1>2. SysIInv /\ LabelInv /\ [SysNext]_sysVars => LabelInv'
  BY LabelNext
<1> QED
  BY <1>1, <1>2, SysInvariance, PTL DEF SysSpec

\* A checked label is streamed by every probe that has given it to a buffer,
\* once everything in flight has arrived, whether it was checked before the
\* launch, before the label or while the label's line was on its way (the
\* replay of a connect, g_pendingTracked, the second broadcast of handle_line).
\* The hypothesis is needed: the run alias_race gives a label that is an alias.
THEOREM CheckedLabelsAreStreamed ==
    ASSUME LabelsAreTheirOwn
    PROVE  SysSpec => []CheckedLabelIsStreamed
<1>1. SysIInv /\ LabelInv => CheckedLabelIsStreamed
  <2> SUFFICES ASSUME SysIInv, LabelInv, NEW c \in Client, NEW b \in Buf, Settled(c),
                      probe[c].name[b] \in state.enabled \ {Placeholder[b]}
               PROVE  b \in probe[c].tracked
    BY DEF CheckedLabelIsStreamed
  <2> DEFINE n == probe[c].name[b]
  <2>1. /\ state.out[c] = <<>> /\ conn[c] = "open"
        /\ ProbeSays(c) /\ ServerSays(c)
    BY DEF Settled, Running, LabelInv
  <2>2. n \in Label
    <3>1. None \notin state.enabled
      BY NoneIsNoName DEF SysIInv, IInv, Sound, State
    <3> QED
      BY <2>1, <3>1 DEF ProbeSays
  <2>3. Relayed(<<>>, probe[c].pending, n, n \in state.enabled)
    BY <2>1, <2>2 DEF ServerSays
  <2>4. Len(<<>>) = 0
    OBVIOUS
  <2>5. n \in probe[c].pending
    BY <2>3, <2>4 DEF Relayed
  <2> QED
    BY <2>1, <2>5 DEF ProbeSays
<1> QED
  BY <1>1, SysInvariance, LabelInvariance, PTL

=============================================================================
