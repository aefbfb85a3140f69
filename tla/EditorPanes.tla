---------------------------- MODULE EditorPanes ----------------------------
(***************************************************************************)
(* Tabs and panes (jade/src/editor_view.rs, panes.rs) as operators: a tab  *)
(* set is an editor, one editor is live and the others are parked in their *)
(* panes, and what moves a tab returns the layout it leaves.               *)
(*                                                                         *)
(* Indexes start at 1; 0 stands for None.  Scroll positions, palettes and  *)
(* the widths of panes are left out.                                       *)
(***************************************************************************)
EXTENDS Naturals, SequencesExt

CONSTANT
    Live        \* the slot of the pane whose editor is the live one

NoTabs == [tabs |-> <<>>, active |-> 0]
OnePane(editor) == [panes |-> <<Live>>, editor |-> editor]

-----------------------------------------------------------------------------
(* One editor.                                                             *)

PathsOf(e) == {e.tabs[i].path : i \in DOMAIN e.tabs}

\* index_of: two spellings of a path count as one.
IndexOf(e, path) ==
    IF path \in PathsOf(e) THEN CHOOSE i \in DOMAIN e.tabs : e.tabs[i].path = path ELSE 0

ActivePaths(e) == IF e.active = 0 THEN {} ELSE {e.tabs[e.active].path}

Previews(e) == {i \in DOMAIN e.tabs : e.tabs[i].preview}

\* switch.
Switched(e, i) == IF i \in DOMAIN e.tabs THEN [e EXCEPT !.active = i] ELSE e

\* push_tab and open.
Pushed(e, tab) ==
    IF IndexOf(e, tab.path) # 0 THEN Switched(e, IndexOf(e, tab.path))
    ELSE [tabs |-> Append(e.tabs, tab), active |-> Len(e.tabs) + 1]

\* open_preview: the tab takes the place of the preview tab.
Previewed(e, tab) ==
    IF IndexOf(e, tab.path) = 0 /\ Previews(e) # {}
    THEN LET i == Min(Previews(e))
         IN [tabs |-> [e.tabs EXCEPT ![i] = tab], active |-> i]
    ELSE Pushed(e, tab)

\* Mutant of ActiveAfterRemoval: the last tab has no right neighbour.
ActiveAfterRemovalRight(e, i) ==
    IF Len(e.tabs) = 1 THEN 0 ELSE IF i < e.active THEN e.active - 1 ELSE e.active

\* close and detach.
ActiveAfterRemoval(e, i) ==
    IF Len(e.tabs) = 1 THEN 0
    ELSE IF e.active = i THEN Min({i, Len(e.tabs) - 1})
    ELSE IF i < e.active THEN e.active - 1
    ELSE e.active

Removed(e, i) ==
    [tabs |-> RemoveAt(e.tabs, i), active |-> ActiveAfterRemoval(e, i)]

\* insert_tab: before 0 is the end; a tab of the same path wins.
Inserted(e, tab, before) ==
    IF IndexOf(e, tab.path) # 0 THEN Switched(e, IndexOf(e, tab.path))
    ELSE LET at == IF before = 0 THEN Len(e.tabs) + 1 ELSE Min({before, Len(e.tabs) + 1})
         IN [tabs |-> InsertAt(e.tabs, at, tab), active |-> at]

\* reorder: the active tab stays the same tab.
Reordered(e, from, to) ==
    LET target == Min({to, Len(e.tabs) + 1})
        dest == IF target > from THEN target - 1 ELSE target
        moved == [e EXCEPT !.tabs = InsertAt(RemoveAt(e.tabs, from), dest, e.tabs[from])]
    IN [moved EXCEPT !.active =
            IF e.active = 0 THEN 0 ELSE IndexOf(moved, e.tabs[e.active].path)]

-----------------------------------------------------------------------------
(* The panes.                                                              *)

Panes(l) == DOMAIN l.panes
SplitMode(l) == Len(l.panes) > 1
Focused(l) == CHOOSE i \in Panes(l) : l.panes[i] = Live
PaneEditor(l, i) == IF l.panes[i] = Live THEN l.editor ELSE l.panes[i]
WithPane(l, i, e) ==
    IF l.panes[i] = Live THEN [l EXCEPT !.editor = e] ELSE [l EXCEPT !.panes[i] = e]

Editors(l) == {PaneEditor(l, i) : i \in Panes(l)}
TabsOf(e) == {e.tabs[i] : i \in DOMAIN e.tabs}
AllTabs(l) == UNION {TabsOf(e) : e \in Editors(l)}

\* A change of every tab in every pane.
OnEveryTab(l, F(_)) ==
    LET on(e) == [e EXCEPT !.tabs = [i \in DOMAIN e.tabs |-> F(e.tabs[i])]]
    IN [panes |-> [i \in Panes(l) |-> IF l.panes[i] = Live THEN Live ELSE on(l.panes[i])],
        editor |-> on(l.editor)]

\* focus_pane: the two editors change places.
FocusedOn(l, i) ==
    IF i \notin Panes(l) \/ l.panes[i] = Live THEN l
    ELSE [panes |-> [l.panes EXCEPT ![Focused(l)] = l.editor, ![i] = Live],
          editor |-> l.panes[i]]

\* close_pane: the keyboard goes to the pane that slid into the slot.
PaneClosed(l, i) ==
    IF ~SplitMode(l) THEN l
    ELSE LET rest == RemoveAt(l.panes, i)
             next == Min({i, Len(rest)})
         IN IF l.panes[i] # Live THEN [l EXCEPT !.panes = rest]
            ELSE [panes |-> [rest EXCEPT ![next] = Live], editor |-> rest[next]]

\* split_pane, before the new pane is focused.
PaneAdded(l, i, e) == [l EXCEPT !.panes = InsertAt(l.panes, i, e)]

\* A pane that lost its last tab closes.
Tidied(l, i) ==
    IF PaneEditor(l, i).tabs = <<>> /\ SplitMode(l) THEN PaneClosed(l, i) ELSE l

\* What a pane that closes under the keyboard brings to the front on the way.
FrontOnTheWay(l, i) ==
    IF l.panes[i] = Live /\ Tidied(l, i) # l THEN ActivePaths(Tidied(l, i).editor) ELSE {}

\* Where the pane j is once the pane i has been tidied away.
After(l, i, j) == IF Tidied(l, i) # l /\ i < j THEN j - 1 ELSE j

\* Mutant of Moved: the pane that lost its last tab is closed first.
MovedLate(l, from, k, to, before) ==
    LET tab == PaneEditor(l, from).tabs[k]
        taken == WithPane(l, from, Removed(PaneEditor(l, from), k))
        tidy == Tidied(taken, from)
        put == IF to \in Panes(tidy) THEN WithPane(tidy, to, Inserted(PaneEditor(tidy, to), tab, before)) ELSE tidy
    IN [layout |-> FocusedOn(put, After(taken, from, to)),
        front |-> FrontOnTheWay(taken, from)]

\* move_tab between panes: the layout and the tabs it brings to the front.
Moved(l, from, k, to, before) ==
    LET tab == PaneEditor(l, from).tabs[k]
        taken == WithPane(l, from, Removed(PaneEditor(l, from), k))
        put == WithPane(taken, to, Inserted(PaneEditor(taken, to), tab, before))
    IN [layout |-> FocusedOn(Tidied(put, from), After(put, from, to)),
        front |-> FrontOnTheWay(put, from)]

\* split_with_tab below the limit: a new pane to the right of a pane.
SplitOff(l, from, k, after) ==
    LET tab == PaneEditor(l, from).tabs[k]
        taken == WithPane(l, from, Removed(PaneEditor(l, from), k))
        put == PaneAdded(taken, after + 1, Inserted(NoTabs, tab, 0))
        source == IF from > after THEN from + 1 ELSE from
    IN [layout |-> FocusedOn(Tidied(put, source), After(put, source, after + 1)),
        front |-> FrontOnTheWay(put, source)]
=============================================================================
