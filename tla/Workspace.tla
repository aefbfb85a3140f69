----------------------------- MODULE Workspace -----------------------------
(***************************************************************************)
(* The open projects, their panes and tabs, and the documents that clangd  *)
(* holds of them (jade/src/app.rs, panes.rs, editor_view.rs).              *)
(*                                                                         *)
(* A text is a number: what the disk holds, then one more for each edit.   *)
(* Notifications reach clangd in order (module LspClient), so a document   *)
(* of a session is what was sent.  LspReady and Exited come back through   *)
(* app_tx and say nothing about the project they are of.                   *)
(***************************************************************************)
EXTENDS EditorPanes, FiniteSets, Functions

CONSTANTS
    Files,
    Eligible,      \* the files of the C family
    Roots,         \* folders that can be opened
    Nowhere,       \* no folder is open
    FirstFile,     \* what a folder shows on its first visit
    Worlds         \* bounds: the files that are opened, panes, edits and changes
                   \* on the disk, calls of open_project, sessions of clangd, and
                   \* whether one may crash

ASSUME EligibleAreFiles == Eligible \subseteq Files
ASSUME NowhereIsNoRoot == Nowhere \notin Roots
ASSUME FirstFilesAreFiles == FirstFile \in [Roots -> Files]
ASSUME WorldsAreBounds ==
    Worlds \subseteq [files : SUBSET Files, panes : Nat \ {0}, texts : Nat, opens : Nat, sessions : Nat,
                crashes : BOOLEAN]

VARIABLES
    world,
    root,       \* workspace_root, or Nowhere
    projects,   \* open_projects
    layout,     \* the live editor and the panes
    stash,      \* project_editors
    saved_ui,   \* the ui blob of each folder
    lsp,        \* the session whose handle the IDE holds, or 0
    init_started,
    sessions,   \* every clangd that was started
    inbox,      \* app_tx, as far as it is about clangd
    disk, texts, opens,
    drifted     \* a document was sent to the wrong session, or not at all

workspace == <<world, root, projects, stash, saved_ui, opens>>
clangd == <<lsp, init_started, sessions, inbox>>
vars == <<workspace, layout, clangd, disk, texts, drifted>>

Torn == [text |-> 0, version |-> 0]

Tab == [path : Files, preview : BOOLEAN, text : Nat, saved : Nat,
        version : Nat, opened : BOOLEAN]

\* A slot is None, or the editor that is parked in it.
Editor == [tabs : Seq(Tab), active : Nat]
ASSUME LiveIsNoEditor == Live \notin Editor

FreshTab(path, preview) ==
    [path |-> path, preview |-> preview, text |-> disk[path], saved |-> disk[path],
     version |-> 1, opened |-> FALSE]

Dirty(tab) == tab.text # tab.saved

-----------------------------------------------------------------------------
(* The session.                                                            *)

Starting == [state |-> "starting", docs |-> <<>>]
Ended == [state |-> "ended", docs |-> <<>>]

\* What is sent to a clangd that has ended is lost.
Told(s, docs) ==
    IF sessions[s].state = "up" THEN [sessions EXCEPT ![s].docs = docs] ELSE sessions

\* didClose of some tabs, then didOpen of others, to the docs of a session.
Synced(docs, closed, opened) ==
    LET left == Restrict(docs, DOMAIN docs \ {t.path : t \in closed})
        new == {t.path : t \in opened}
    IN [p \in DOMAIN left \cup new |->
            IF p \in new
            THEN LET t == CHOOSE u \in opened : u.path = p
                 IN [text |-> t.text, version |-> t.version]
            ELSE left[p]]

\* after_open_active on some files of l, after didClose of some tabs: clangd is
\* started once per project, and what is not open yet is opened.
Mark(l, paths) ==
    OnEveryTab(l, LAMBDA t : [t EXCEPT !.opened = t.opened \/ t.path \in paths])

Shows(l, closed, front) ==
    LET new == IF lsp = 0 THEN {}
               ELSE {t \in AllTabs(l) : t.path \in front \cap Eligible /\ ~t.opened}
        told == IF lsp = 0 THEN sessions
                ELSE Told(lsp, Synced(sessions[lsp].docs, {t \in closed : t.opened}, new))
    IN /\ layout' = Mark(l, {t.path : t \in new})
       /\ IF front # {} /\ ~init_started
          THEN /\ Len(sessions) < world.sessions
               /\ init_started' = TRUE
               /\ sessions' = Append(told, Starting)
          ELSE sessions' = told /\ UNCHANGED init_started

OnlyTabs == UNCHANGED <<workspace, lsp, inbox, disk, texts, drifted>>

-----------------------------------------------------------------------------
(* Tabs and panes.                                                         *)

InProject == root # Nowhere

\* A file that another pane holds brings that pane and its tab to the front.
OpenElsewhere(path) ==
    /\ InProject /\ IndexOf(layout.editor, path) = 0
    /\ \E i \in Panes(layout) :
         /\ IndexOf(PaneEditor(layout, i), path) # 0
         /\ LET l == FocusedOn(layout, i)
            IN Shows([l EXCEPT !.editor = Switched(@, IndexOf(@, path))], {}, ActivePaths(l.editor))
    /\ OnlyTabs

Replaced(path) ==
    IF IndexOf(layout.editor, path) # 0 THEN {}
    ELSE {layout.editor.tabs[i] :
            i \in {j \in Previews(layout.editor) : j = Min(Previews(layout.editor))}}

\* Mutant of OpenFile: the panes in the background are not asked.
OpenFileAnywhere(path) ==
    /\ InProject
    /\ Shows([layout EXCEPT !.editor = Previewed(@, FreshTab(path, TRUE))],
             Replaced(path), {path})
    /\ OnlyTabs

OpenFile(path) ==
    /\ InProject
    /\ \/ IndexOf(layout.editor, path) # 0
       \/ path \notin UNION {PathsOf(e) : e \in Editors(layout)}
    /\ Shows([layout EXCEPT !.editor = Previewed(@, FreshTab(path, TRUE))],
             Replaced(path), {path})
    /\ OnlyTabs

\* The file cannot be read: the preview tab it would have replaced is closed at
\* clangd and stays in the editor.
OpenFails(path) ==
    /\ InProject /\ path \notin UNION {PathsOf(e) : e \in Editors(layout)}
    /\ Replaced(path) # {}
    /\ Shows(layout, Replaced(path), {})
    /\ drifted' = (drifted \/ (lsp # 0 /\ \E t \in Replaced(path) : t.opened))
    /\ UNCHANGED <<workspace, lsp, inbox, disk, texts>>

\* A click on a tab, in any pane.
SwitchTab(i, k) ==
    /\ InProject
    /\ LET l == FocusedOn(layout, i)
       IN Shows([l EXCEPT !.editor = Switched(@, k)], {},
                IF l = layout THEN {} ELSE ActivePaths(l.editor))
    /\ OnlyTabs

\* The cross of a tab.  The last tab of a pane takes the pane with it.
CloseTab(i, k) ==
    /\ InProject
    /\ LET l == FocusedOn(layout, i)
           rest == [l EXCEPT !.editor = Removed(@, k)]
           tidy == Tidied(rest, Focused(rest))
           front == IF tidy # rest THEN ActivePaths(tidy.editor) ELSE {}
       IN Shows(tidy, {l.editor.tabs[k]},
                front \cup (IF l = layout THEN {} ELSE ActivePaths(l.editor)))
    /\ OnlyTabs

SplitPane ==
    /\ InProject /\ Len(layout.panes) < world.panes
    /\ LET i == Focused(layout) + 1
       IN Shows(FocusedOn(PaneAdded(layout, i, NoTabs), i), {}, {})
    /\ OnlyTabs

FocusPane(i) ==
    /\ InProject /\ layout.panes[i] # Live
    /\ LET l == FocusedOn(layout, i) IN Shows(l, {}, ActivePaths(l.editor))
    /\ OnlyTabs

ClosePane(i) ==
    /\ InProject /\ SplitMode(layout)
    /\ LET l == PaneClosed(layout, i)
       IN Shows(l, TabsOf(PaneEditor(layout, i)),
                IF layout.panes[i] = Live THEN ActivePaths(l.editor) ELSE {})
    /\ OnlyTabs

\* A tab is dropped on a chip of a pane, on its strip, or to the right of it.
DropTab(from, k, to, before) ==
    /\ InProject
    /\ IF from = to
       THEN /\ before # 0
            /\ Shows(WithPane(layout, from, Reordered(PaneEditor(layout, from), k, before)), {}, {})
       ELSE LET m == Moved(layout, from, k, to, before)
            IN Shows(m.layout, {}, m.front \cup ActivePaths(m.layout.editor))
    /\ OnlyTabs

DropBeside(from, k, after) ==
    /\ InProject /\ Len(layout.panes) < world.panes
    /\ LET m == SplitOff(layout, from, k, after)
       IN Shows(m.layout, {}, m.front \cup ActivePaths(m.layout.editor))
    /\ OnlyTabs

-----------------------------------------------------------------------------
(* Texts.                                                                  *)

\* didChange: an edit is made to the text that clangd has.
Changed(docs, tab, new, full) ==
    IF tab.path \in DOMAIN docs
       /\ docs[tab.path].version < tab.version + 1
       /\ (full \/ docs[tab.path].text = tab.text)
    THEN [docs EXCEPT ![tab.path] = [text |-> new, version |-> tab.version + 1]]
    ELSE [p \in DOMAIN docs \cup {tab.path} |-> IF p = tab.path THEN Torn ELSE docs[p]]

\* Mutant of Edit: undo and redo are not forwarded.
EditUnlessHistory(k, full) ==
    /\ k \in DOMAIN layout.editor.tabs /\ texts < world.texts
    /\ full => k = layout.editor.active
    /\ texts' = texts + 1
    /\ LET tab == layout.editor.tabs[k]
       IN /\ layout' = [layout EXCEPT !.editor.tabs[k] =
                [tab EXCEPT !.text = texts', !.version = tab.version + 1, !.preview = FALSE]]
          /\ sessions' = IF lsp # 0 /\ tab.opened /\ ~full
                         THEN Told(lsp, Changed(sessions[lsp].docs, tab, texts', full))
                         ELSE sessions
    /\ UNCHANGED <<workspace, lsp, init_started, inbox, disk, drifted>>

\* after_edit and editor_history on the active tab, sync_rewrite_file on any tab
\* of the live editor.  Undo and redo send the whole text.
Edit(k, full) ==
    /\ k \in DOMAIN layout.editor.tabs /\ texts < world.texts
    /\ full => k = layout.editor.active
    /\ texts' = texts + 1
    /\ LET tab == layout.editor.tabs[k]
       IN /\ layout' = [layout EXCEPT !.editor.tabs[k] =
                [tab EXCEPT !.text = texts', !.version = tab.version + 1, !.preview = FALSE]]
          /\ sessions' = IF lsp # 0 /\ tab.opened
                         THEN Told(lsp, Changed(sessions[lsp].docs, tab, texts', full))
                         ELSE sessions
    /\ UNCHANGED <<workspace, lsp, init_started, inbox, disk, drifted>>

Save ==
    /\ layout.editor.active # 0
    /\ LET k == layout.editor.active
           tab == layout.editor.tabs[k]
       IN /\ disk' = [disk EXCEPT ![tab.path] = tab.text]
          /\ layout' = [layout EXCEPT !.editor.tabs[k].saved = tab.text]
    /\ UNCHANGED <<workspace, clangd, texts, drifted>>

\* Another program writes a file.
DiskChanges(path) ==
    /\ texts < world.texts
    /\ texts' = texts + 1
    /\ disk' = [disk EXCEPT ![path] = texts']
    /\ UNCHANGED <<workspace, clangd, layout, drifted>>

\* Mutant of Reload: a tab with edits is reloaded too.
ReloadDirty ==
    LET stale(t) == disk[t.path] # t.text
        anew(t) == IF stale(t) THEN [FreshTab(t.path, t.preview) EXCEPT !.opened = t.opened] ELSE t
    IN /\ \E t \in TabsOf(layout.editor) : stale(t)
       /\ layout' = [layout EXCEPT !.editor.tabs =
                        [i \in DOMAIN layout.editor.tabs |-> anew(layout.editor.tabs[i])]]
       /\ drifted' = (drifted \/ (lsp # 0 /\ \E t \in TabsOf(layout.editor) : stale(t) /\ t.opened))
       /\ UNCHANGED <<workspace, clangd, disk, texts>>

\* TreeChanged: the clean tabs of the live editor follow the disk.  A buffer is
\* made anew, counts its versions anew, and clangd is not told.
Reload ==
    LET stale(t) == ~Dirty(t) /\ disk[t.path] # t.text
        anew(t) == IF stale(t) THEN [FreshTab(t.path, t.preview) EXCEPT !.opened = t.opened] ELSE t
    IN /\ \E t \in TabsOf(layout.editor) : stale(t)
       /\ layout' = [layout EXCEPT !.editor.tabs =
                        [i \in DOMAIN layout.editor.tabs |-> anew(layout.editor.tabs[i])]]
       /\ drifted' = (drifted \/ (lsp # 0 /\ \E t \in TabsOf(layout.editor) : stale(t) /\ t.opened))
       /\ UNCHANGED <<workspace, clangd, disk, texts>>

-----------------------------------------------------------------------------
(* Projects.                                                               *)

Blob(l) ==
    LET of(e) == [paths |-> [i \in DOMAIN e.tabs |-> e.tabs[i].path], active |-> e.active]
    IN [editor |-> of(l.editor), focused |-> Focused(l),
        panes |-> IF SplitMode(l) THEN [i \in Panes(l) |-> of(PaneEditor(l, i))] ELSE <<>>]

NoBlob == [editor |-> [paths |-> <<>>, active |-> 0], focused |-> 1, panes |-> <<>>]

EditorOf(b) ==
    [tabs |-> [i \in DOMAIN b.paths |-> FreshTab(b.paths[i], FALSE)], active |-> b.active]

\* The n-th smallest of some numbers.
Nth(S, n) == CHOOSE i \in S : Cardinality({j \in S : j <= i}) = n

\* restore_panes: panes without tabs drop out, and one pane is no split.
Restored(dir) ==
    LET blob == saved_ui'[dir]
        single == IF blob.editor.paths # <<>> THEN EditorOf(blob.editor)
                  ELSE Pushed(NoTabs, FreshTab(FirstFile[dir], FALSE))
        kept == {i \in DOMAIN blob.panes : blob.panes[i].paths # <<>>}
        full == [n \in 1 .. Cardinality(kept) |-> blob.panes[Nth(kept, n)]]
        focused == Min({blob.focused, Len(full)})
    IN IF Len(full) < 2 THEN OnePane(single)
       ELSE [panes |-> [i \in DOMAIN full |-> IF i = focused THEN Live ELSE EditorOf(full[i])],
             editor |-> EditorOf(full[focused])]

Closed(l) == OnEveryTab(l, LAMBDA t : [t EXCEPT !.opened = FALSE])

\* The editors of every project, once the project that is left is put away.
Stashed ==
    [dir \in DOMAIN stash \cup ({root} \ {Nowhere}) |-> IF dir = root THEN layout ELSE stash[dir]]

\* The session whose handle is dropped ends.
Dropped(all) == IF lsp = 0 THEN all ELSE [all EXCEPT ![lsp] = Ended]

\* Mutant of Enter: the flags of the stashed tabs are kept.
EnterKeepingFlags(dir) ==
    /\ root' = dir
    /\ saved_ui' = IF InProject THEN [saved_ui EXCEPT ![root] = Blob(layout)] ELSE saved_ui
    /\ LET kept == Stashed
           l == IF dir \in DOMAIN kept THEN kept[dir] ELSE Restored(dir)
       IN /\ stash' = Restrict(kept, DOMAIN kept \ {dir})
          /\ lsp' = 0 /\ layout' = l
          /\ init_started' = (ActivePaths(l.editor) # {})
          /\ IF init_started'
             THEN Len(sessions) < world.sessions /\ sessions' = Append(Dropped(sessions), Starting)
             ELSE sessions' = Dropped(sessions)

\* open_project from the stash on: the session is dropped, the folder's editor
\* comes from memory or from the ui blob, and its front tab starts a session.
Enter(dir) ==
    /\ root' = dir
    /\ saved_ui' = IF InProject THEN [saved_ui EXCEPT ![root] = Blob(layout)] ELSE saved_ui
    /\ LET kept == Stashed
           l == IF dir \in DOMAIN kept THEN Closed(kept[dir]) ELSE Restored(dir)
       IN /\ stash' = Restrict(kept, DOMAIN kept \ {dir})
          /\ lsp' = 0 /\ layout' = l
          /\ init_started' = (ActivePaths(l.editor) # {})
          /\ IF init_started'
             THEN Len(sessions) < world.sessions /\ sessions' = Append(Dropped(sessions), Starting)
             ELSE sessions' = Dropped(sessions)

OpenProject(dir) ==
    /\ dir # root /\ opens < world.opens
    /\ opens' = opens + 1
    /\ projects' = IF Contains(projects, dir) THEN projects ELSE Append(projects, dir)
    /\ Enter(dir) /\ drifted' = FALSE
    /\ UNCHANGED <<world, inbox, disk, texts>>

\* The stash of a project that is not active goes with it; the active one is
\* left for its neighbour, which stashes it.
CloseProject(dir) ==
    /\ Contains(projects, dir) /\ Len(projects) > 1
    /\ LET i == CHOOSE k \in DOMAIN projects : projects[k] = dir
           rest == RemoveAt(projects, i)
       IN /\ projects' = rest
          /\ IF dir # root
             THEN /\ stash' = Restrict(stash, DOMAIN stash \ {dir})
                  /\ UNCHANGED <<root, saved_ui, opens, layout, lsp, init_started, sessions, drifted>>
             ELSE /\ opens < world.opens /\ opens' = opens + 1
                  /\ Enter(rest[Min({i, Len(rest)})]) /\ drifted' = FALSE
    /\ UNCHANGED <<world, inbox, disk, texts>>

-----------------------------------------------------------------------------
(* clangd.                                                                 *)

\* initialize ends: it fails, or LspReady is sent, by then perhaps behind the
\* Exited that a task of its own forwards.
Initialized(s, end) ==
    /\ sessions[s].state = "starting" /\ (end = "crashed" => world.crashes)
    /\ sessions' = [sessions EXCEPT ![s] = IF end = "up" THEN [sessions[s] EXCEPT !.state = "up"] ELSE Ended]
    /\ inbox' = inbox \o [up      |-> <<[name |-> "ready", of |-> s]>>,
                          failed  |-> <<>>,
                          crashed |-> <<[name |-> "exited", of |-> s],
                                        [name |-> "ready", of |-> s]>>][end]
    /\ UNCHANGED <<workspace, layout, lsp, init_started, disk, texts, drifted>>

Crashes(s) ==
    /\ sessions[s].state = "up" /\ world.crashes
    /\ sessions' = [sessions EXCEPT ![s] = Ended]
    /\ inbox' = Append(inbox, [name |-> "exited", of |-> s])
    /\ UNCHANGED <<workspace, layout, lsp, init_started, disk, texts, drifted>>

Arrives(name) == inbox # <<>> /\ Head(inbox).name = name /\ inbox' = Tail(inbox)

\* on_lsp_ready: didOpen of every tab of the live editor that has no flag.  The
\* handle that is replaced ends its session.
LspReady ==
    /\ Arrives("ready")
    /\ LET s == Head(inbox).of
           new == {t \in TabsOf(layout.editor) : t.path \in Eligible /\ ~t.opened}
           old == {t \in AllTabs(layout) : t.opened}
       IN /\ lsp' = s
          /\ sessions' = Dropped(Told(s, Synced(sessions[s].docs, {}, new)))
          /\ layout' = Mark(layout, {t.path : t \in new})
          /\ drifted' = (drifted \/ (lsp # 0 /\ old # {}))
    /\ UNCHANGED <<workspace, init_started, disk, texts>>

\* Mutant of LspExited: the flags of the tabs are kept.
LspExitedKeepsFlags ==
    /\ Arrives("exited")
    /\ lsp' = 0
    /\ sessions' = Dropped(sessions)
    /\ UNCHANGED <<workspace, layout, init_started, disk, texts, drifted>>

LspExited ==
    /\ Arrives("exited")
    /\ lsp' = 0
    /\ layout' = Closed(layout)
    /\ sessions' = Dropped(sessions)
    /\ UNCHANGED <<workspace, init_started, disk, texts, drifted>>

-----------------------------------------------------------------------------
Init ==
    /\ world \in Worlds
    /\ root = Nowhere /\ projects = <<>>
    /\ layout = OnePane(NoTabs)
    /\ stash = <<>>
    /\ saved_ui = [dir \in Roots |-> NoBlob]
    /\ lsp = 0 /\ init_started = FALSE /\ sessions = <<>> /\ inbox = <<>>
    /\ disk = [p \in Files |-> 1] /\ texts = 1
    /\ opens = 0 /\ drifted = FALSE

Chips == {c \in Panes(layout) \X (1 .. Cardinality(Files)) :
            c[2] \in DOMAIN PaneEditor(layout, c[1]).tabs}

TabAction ==
    \/ \E path \in world.files : OpenElsewhere(path) \/ OpenFile(path) \/ OpenFails(path)
    \/ \E c \in Chips : SwitchTab(c[1], c[2]) \/ CloseTab(c[1], c[2])
    \/ SplitPane
    \/ \E i \in Panes(layout) : FocusPane(i) \/ ClosePane(i)
    \/ \E c \in Chips, i \in Panes(layout) :
         \/ DropBeside(c[1], c[2], i)
         \/ \E before \in 0 .. Len(PaneEditor(layout, i).tabs) : DropTab(c[1], c[2], i, before)

TextAction ==
    \/ \E k \in 1 .. Cardinality(Files), full \in BOOLEAN : Edit(k, full)
    \/ Save \/ Reload
    \/ \E path \in Files : DiskChanges(path)

ProjectAction == \E dir \in Roots : OpenProject(dir) \/ CloseProject(dir)

ClangdAction ==
    \/ \E s \in DOMAIN sessions : Crashes(s) \/ (\E end \in {"up", "failed", "crashed"} : Initialized(s, end))
    \/ LspReady \/ LspExited

Next == TabAction \/ TextAction \/ ProjectAction \/ ClangdAction

Spec == Init /\ [][Next]_vars

-----------------------------------------------------------------------------
(* Properties.                                                             *)

EditorOK(e) ==
    /\ TabsOf(e) \subseteq Tab
    /\ e.active \in DOMAIN e.tabs \/ (e.active = 0 /\ e.tabs = <<>>)

\* One slot is the live editor's.
LayoutOK(l) ==
    /\ Len(l.panes) \in 1 .. world.panes
    /\ Cardinality({i \in Panes(l) : l.panes[i] = Live}) = 1
    /\ \A e \in Editors(l) : EditorOK(e)

TypeOK ==
    /\ root \in Roots \cup {Nowhere}
    /\ LayoutOK(layout)
    /\ DOMAIN stash \subseteq Roots \ {root}
    /\ \A dir \in DOMAIN stash : LayoutOK(stash[dir])
    /\ lsp \in 0 .. Len(sessions)

\* "A file lives in one pane at most" (open_file): there is one buffer per file,
\* so no save overwrites the edits of another pane.
OneBufferPerFile ==
    \A l \in {layout} \cup Range(stash) :
        \A i, j \in Panes(l) : \A k \in DOMAIN PaneEditor(l, i).tabs :
            \A m \in DOMAIN PaneEditor(l, j).tabs :
                PaneEditor(l, i).tabs[k].path = PaneEditor(l, j).tabs[m].path
                    => i = j /\ k = m

\* The edits of a project that are in memory only.
Unsaved(dir, r, l, st) ==
    LET at == IF dir = r THEN {l} ELSE IF dir \in DOMAIN st THEN {st[dir]} ELSE {}
    IN UNION {{[path |-> t.path, text |-> t.text] : t \in {u \in AllTabs(k) : Dirty(u)}} : k \in at}

\* A user action that may drop the unsaved text u of dir.
GivesUp(dir, u) ==
    \/ CloseProject(dir)
    \/ /\ dir = root
       /\ \/ Save /\ u.path \in ActivePaths(layout.editor)
          \/ \E k \in DOMAIN layout.editor.tabs, full \in BOOLEAN :
                layout.editor.tabs[k].path = u.path /\ Edit(k, full)
          \/ \E c \in Chips :
                PaneEditor(layout, c[1]).tabs[c[2]].path = u.path /\ CloseTab(c[1], c[2])
          \/ \E i \in Panes(layout) :
                u.path \in PathsOf(PaneEditor(layout, i)) /\ ClosePane(i)

\* An unsaved text goes when its tab, pane or project is closed, when it is saved
\* and when it is edited on: no move, split, preview, reload from the disk,
\* change of the project or close of something else loses it (open_preview,
\* move_tab, reload_clean_from_disk, open_project).
EditsSurvive ==
    [][\A dir \in Roots :
         \A u \in Unsaved(dir, root, layout, stash) \ Unsaved(dir, root', layout', stash') :
            GivesUp(dir, u)]_vars

\* Unless a tab was reloaded from the disk, its file could not be read or a
\* second session arrived, a clangd that runs holds the very text of each tab
\* that is marked as opened, and no other document (lsp_opened, did_close).
ClangdFollows ==
    lsp # 0 /\ ~drifted /\ sessions[lsp].state = "up" =>
        LET opened == {t \in AllTabs(layout) : t.opened}
        IN /\ DOMAIN sessions[lsp].docs = {t.path : t \in opened}
           /\ \A t \in opened :
                sessions[lsp].docs[t.path] = [text |-> t.text, version |-> t.version]
=============================================================================
