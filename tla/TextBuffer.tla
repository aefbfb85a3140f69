----------------------------- MODULE TextBuffer -----------------------------
(***************************************************************************)
(* One open file under the keyboard: the keys, clicks and commands of      *)
(* app.rs that change the buffer of the active tab (jade-buffer), what is  *)
(* on disk, the document clangd has, which follows the incremental         *)
(* didChange of every edit and the full one of undo and redo, and the      *)
(* matches the find bar holds, which it finds anew after most edits.  The  *)
(* bar is open: while it is closed nothing uses what it held.              *)
(***************************************************************************)
EXTENDS TextEdits

CONSTANTS
    Texts,      \* what the file may hold when it is opened
    Typed,      \* characters the user types
    Pasted,     \* texts of the clipboard, of a suggestion, of a replacement
    Widths,     \* bound: how many characters a selection by hand or a textEdit spans
    Shifts,     \* bound: whether Shift is held when several carets move
    MaxLen,     \* bound: length of the text
    MaxEdits,   \* bound: edits, with the undos and redos before them
    MaxGroups,  \* bound: groups that can be undone when an edit begins
    MaxVersion  \* bound: the undos and redos, with everything before them

ASSUME TextsAreTexts == Texts \subseteq Seq(Char) /\ Typed \subseteq Char /\ Pasted \subseteq Seq(Char)
ASSUME BoundsAreNat ==
    /\ {MaxLen, MaxEdits, MaxGroups, MaxVersion} \subseteq Nat /\ MaxEdits <= MaxVersion
    /\ Widths \subseteq Int /\ Shifts \subseteq BOOLEAN

VARIABLES
    buf,      \* the buffer
    disk,     \* the file
    clangd,   \* the document clangd has
    matches,  \* where the matches of the find bar start
    rewritten,  \* a suggestion rewrote the file after they were found
    strayed,  \* ranges of a batch overlapped: what follows is not modelled
    crashed   \* the rope panicked

vars == <<buf, disk, clangd, matches, rewritten, strayed, crashed>>

Sel == buf.cursors[1]

-----------------------------------------------------------------------------
(* with_edit and after_edit.                                               *)

\* A panic ends the run; ranges that overlapped end what is modelled.
Intact == ~crashed /\ ~strayed

Ready == Intact /\ buf.version < MaxEdits /\ Len(buf.done) < MaxGroups

\* The buffer after an edit of b, and what clangd is told.
After(b, edit) == Transacted(b, edit.plans, edit.sels, edit.coalesce)

Panics ==
    /\ crashed' = TRUE
    /\ UNCHANGED <<buf, disk, clangd, matches, rewritten>>

\* clangd may refuse ranges that overlap, or put them elsewhere.
Tells(edit) ==
    /\ strayed' = Overlap(edit.plans)
    /\ clangd' = IF strayed' THEN clangd ELSE Sent(clangd, edit.plans)

\* The find bar looks for a word character.
Matches(t) == {i \in 0 .. Len(t) - 1 : t[i + 1] = "w"}

\* find_resync.
Scans == matches' = Matches(buf'.text) /\ rewritten' = FALSE

\* An edit leaves the buffer c.
Leaves(c, edit) ==
    /\ buf' = c /\ Len(c.text) <= MaxLen
    /\ Tells(edit) /\ Scans
    /\ UNCHANGED <<disk, crashed>>

Changes(b, edit) ==
    /\ Ready
    /\ IF Applied(b.text, edit.plans).ok THEN Leaves(After(b, edit), edit)
       ELSE Panics /\ strayed' = Overlap(edit.plans)

-----------------------------------------------------------------------------
(* Keys that edit.                                                         *)

\* replace_text_in_range: one range whatever the carets, then the alignment of a
\* closer, each with its own didChange.
Types(ch) ==
    LET edit == Replaces(Lo(Sel), Hi(Sel), <<ch>>, TRUE)
        typed == After(buf, edit)
    IN /\ Ready
       /\ IF ch = "}" /\ Aligns(typed)
          THEN /\ buf' = Aligned(typed) /\ Len(buf'.text) <= MaxLen
               /\ clangd' = Sent(Sent(clangd, edit.plans), Alignment(typed).plans)
               /\ Scans
               /\ UNCHANGED <<disk, strayed, crashed>>
          ELSE Changes(buf, edit)

\* replace_and_mark_text_in_range: the input method replaces the n characters
\* before the caret that it composed.
Composes(n, ch) ==
    /\ IsEmpty(Sel) /\ n <= Sel.head
    /\ Changes(buf, Replaces(Sel.head - n, Sel.head, <<ch>>, TRUE))

Backspace == Changes(buf, Deletes(buf, Before(buf.text)))
DeleteKey == Changes(buf, Deletes(buf, Behind(buf.text)))
DeleteWord == Changes(buf, Deletes(buf, WordBefore(buf.text)))
Cut == ~IsEmpty(Sel) /\ Backspace

DeleteLine ==
    Changes(buf, Replaces(RowStart(buf.text, Lo(Sel)),
                          NextRow(buf.text, RowStart(buf.text, Hi(Sel))), <<>>, FALSE))

Enter == Changes(buf, Newlines(buf))

SpansRows ==
    \E i \in DOMAIN buf.cursors :
        RowStart(buf.text, Lo(buf.cursors[i])) # RowStart(buf.text, Hi(buf.cursors[i]))

TabKey == Changes(buf, IF SpansRows THEN Indents(buf) ELSE Inserts(buf, Tabs(1), TRUE))
ShiftTab == Changes(buf, Outdents(buf))

\* Paste, and a ghost text or a word of it that is accepted.
Paste(text) == Changes(buf, Inserts(buf, text, FALSE))

\* completion_accept: the word before the caret, or the range of clangd's textEdit,
\* which more typing may have left behind.
AcceptCompletion(s, e, text) ==
    LET row == RowStart(buf.text, Sel.head)
    IN /\ row <= s /\ s <= e /\ e <= RowEnd(buf.text, row)
       /\ Changes(buf, Replaces(s, e, text, FALSE))

\* Where a stub starts: at the word before the caret, or at the return type that is
\* all there is before it (replace_start_col).
StubStart ==
    LET row == RowStart(buf.text, Sel.head)
        word == Min({k \in row .. Sel.head : \A j \in k + 1 .. Sel.head : buf.text[j] = "w"})
        first == row + Indent(buf.text, row, word)
    IN IF \A j \in first + 1 .. word : buf.text[j] \in {"w", "tab"} THEN first ELSE word

\* The stub arm of completion_accept: the caret goes into the body.
AcceptStub(n, text) ==
    LET edit == Replaces(StubStart, Sel.head, text, FALSE)
    IN /\ Ready /\ n <= Len(text)
       /\ Leaves([After(buf, edit) EXCEPT !.cursors = <<At(StubStart + n)>>], edit)

-----------------------------------------------------------------------------
(* The find bar, and suggestions to edit what is alike.                    *)

\* What the bar holds may be where the file was longer.
InText(m) == m < Len(buf.text)

\* select_from and find_select_current: the first match from `from` on, or from the
\* start, is selected.
Found(b, from) ==
    LET past == {m \in Matches(b.text) : m >= from}
        next == IF past = {} THEN Min(Matches(b.text)) ELSE Min(past)
    IN IF Matches(b.text) = {} THEN b
       ELSE [b EXCEPT !.cursors = <<[anchor |-> next, head |-> next + 1]>>]

\* open_find, find_toggle_case.
FindOpens ==
    /\ Ready
    /\ buf' = Found(buf, Sel.head)
    /\ Scans
    /\ UNCHANGED <<disk, clangd, strayed, crashed>>

\* A match outside the text: the rope panics, here or when the caret is drawn.
Misses == Panics /\ UNCHANGED strayed

\* find_next, find_prev.
FindNext(i) ==
    /\ Ready
    /\ IF InText(i)
       THEN /\ buf' = [buf EXCEPT !.cursors = <<[anchor |-> i, head |-> i + 1]>>]
            /\ UNCHANGED <<disk, clangd, matches, rewritten, strayed, crashed>>
       ELSE Misses

\* find_replace_current.
FindReplaceCurrent(i, text) ==
    LET edit == Replaces(i, i + 1, text, FALSE)
    IN /\ Ready
       /\ IF InText(i) THEN Leaves(Found(After(buf, edit), i + Len(text)), edit) ELSE Misses

\* The same text over what is n characters long at each of the sites.
Everywhere(sites, n, text) ==
    LET at == Sorted(sites)
    IN Batch([k \in DOMAIN at |-> Plan(at[k], at[k] + n, text)])

\* find_replace_all.
FindReplaceAll(text) ==
    /\ Ready /\ matches # {}
    /\ IF \A m \in matches : InText(m) THEN Changes(buf, Everywhere(matches, 1, text)) ELSE Misses

\* sync_apply, to the lines alike: the token may be gone by now.
SyncApply(ch, text) ==
    Changes([buf EXCEPT !.boundary = TRUE],
            Everywhere({i \in 0 .. Len(buf.text) - 1 : buf.text[i + 1] = ch}, 1, text))

\* Names and values are runs of word characters.
Word(n) == [i \in 1 .. n |-> "w"]
Words(t, n) ==
    {i \in 0 .. Len(t) - n : /\ \A k \in i + 1 .. i + n : t[k] = "w"
                             /\ i > 0 => t[i] # "w"
                             /\ i + n < Len(t) => t[i + n + 1] # "w"}

\* sync_apply, to other files (sync_rewrite_file): a kernel or a parameter gets a
\* name or a value of m characters for one of n.  The find bar is not told.
SyncRewrite(n, m) ==
    LET edit == Everywhere(Words(buf.text, n), n, Word(m))
        c == After([buf EXCEPT !.boundary = TRUE], edit)
    IN /\ Ready /\ Words(buf.text, n) # {}
       /\ buf' = c /\ Len(c.text) <= MaxLen
       /\ Tells(edit)
       /\ rewritten' = TRUE
       /\ UNCHANGED <<disk, matches, crashed>>

-----------------------------------------------------------------------------
(* Undo, redo and save.                                                    *)

\* Mutant of History: clangd is not told.
HistoryUntold(b) ==
    /\ buf' = b /\ Scans
    /\ UNCHANGED <<disk, clangd, strayed, crashed>>

\* Mutant of History: the find bar is not.
HistoryUnseen(b) ==
    /\ buf' = b /\ clangd' = b.text
    /\ UNCHANGED <<disk, matches, rewritten, strayed, crashed>>

\* editor_history: clangd gets the whole text.
History(b) ==
    /\ buf' = b /\ Scans
    /\ clangd' = b.text
    /\ UNCHANGED <<disk, strayed, crashed>>

Undo == Intact /\ buf.version < MaxVersion /\ buf.done # <<>> /\ History(Undone(buf))
Redo == Intact /\ buf.version < MaxVersion /\ buf.undone # <<>> /\ History(Redone(buf))

Save ==
    /\ Intact
    /\ disk' = buf.text
    /\ buf' = [buf EXCEPT !.saved = buf.version]
    /\ UNCHANGED <<clangd, matches, rewritten, strayed, crashed>>

-----------------------------------------------------------------------------
(* Carets and time.  They matter to the next edit only.                     *)

OnlyTheBuffer == UNCHANGED <<disk, clangd, matches, rewritten, strayed, crashed>>

\* A click, a drag, a double click, Select all.
Selects(anchor, head) ==
    /\ Ready
    /\ buf' = [buf EXCEPT !.cursors = <<[anchor |-> anchor, head |-> head]>>]
    /\ OnlyTheBuffer

\* Where the keys lead that move every caret: to a word, the end of a row, the ends
\* of the text; with Shift, to the next character too.
Edges(extend) ==
    LET t == buf.text
    IN {WordBefore(t), WordBehind(t), [off \in Offsets(t) |-> RowEnd(t, RowStart(t, off))],
        [off \in Offsets(t) |-> 0], [off \in Offsets(t) |-> Len(t)]}
       \cup IF extend THEN {Before(t), Behind(t)} ELSE {}

\* With one caret, Selects leads wherever these keys do.
ArrowKeys ==
    /\ Ready /\ Len(buf.cursors) > 1
    /\ \/ \E right \in BOOLEAN : buf' = Stepped(buf, right)
       \/ \E extend \in Shifts : \E edge \in Edges(extend) : buf' = Moved(buf, edge, extend)
    /\ OnlyTheBuffer

\* COALESCE_MS pass.
TimePasses ==
    /\ Ready /\ buf.recent
    /\ buf' = [buf EXCEPT !.recent = FALSE]
    /\ OnlyTheBuffer

-----------------------------------------------------------------------------
Init ==
    /\ \E text \in Texts : buf = NewBuffer(text) /\ disk = text /\ clangd = text
    /\ matches = Matches(buf.text) /\ rewritten = FALSE
    /\ strayed = FALSE /\ crashed = FALSE

Edits ==
    \/ \E ch \in Typed : Types(ch) \/ \E n \in 1 .. 2 : Composes(n, ch)
    \/ Backspace \/ DeleteKey \/ DeleteWord \/ Cut \/ DeleteLine
    \/ Enter \/ TabKey \/ ShiftTab
    \/ \E text \in Pasted :
          \/ Paste(text) \/ FindReplaceAll(text)
          \/ \E s, e \in Offsets(buf.text) : e - s \in Widths /\ AcceptCompletion(s, e, text)
          \/ \E n \in 0 .. Len(text) : AcceptStub(n, text)
    \/ \E i \in matches, text \in Pasted \cup {<<>>} : FindReplaceCurrent(i, text)
    \/ \E ch \in Typed, text \in Pasted : SyncApply(ch, text)
    \/ \E n, m \in 1 .. 2 : SyncRewrite(n, m)

Carets ==
    \/ \E anchor, head \in Offsets(buf.text) : head - anchor \in Widths /\ Selects(anchor, head)
    \/ ArrowKeys

Finds == FindOpens \/ \E i \in matches : FindNext(i)

Next == Edits \/ Undo \/ Redo \/ Save \/ Carets \/ Finds \/ TimePasses

Spec == Init /\ [][Next]_vars

-----------------------------------------------------------------------------
(* Properties.                                                             *)

Selection == [anchor : Nat, head : Nat]
Group == [ops : Seq([start : Nat, old : Seq(Char), new : Seq(Char)]),
          before : Seq(Selection), after : Seq(Selection)]

TypeOK ==
    /\ buf \in [text : Seq(Char), cursors : Seq(Selection), version : 0 .. MaxVersion + 2,
                saved : 0 .. MaxVersion + 2, done : Seq(Group), undone : Seq(Group),
                boundary : BOOLEAN, recent : BOOLEAN,
                kind : {"none", "insert", "delete", "other"}, carets : Seq(Nat)]
    /\ buf.cursors # <<>>
    /\ disk \in Seq(Char) /\ clangd \in Seq(Char)
    /\ matches \in SUBSET Nat /\ rewritten \in BOOLEAN
    /\ strayed \in BOOLEAN /\ crashed \in BOOLEAN

\* A tab without the dirty dot shows what is on disk, whatever was undone or
\* redone since it was saved (is_dirty, mark_saved).
CleanIsSaved == buf.version = buf.saved => buf.text = disk

\* clangd has the text of the buffer after every key, batch, undo and redo, unless
\* the ranges of a batch overlapped ("Ranges within one batch must be
\* non-overlapping", PlannedEdit): the changes of one record are right in order.
ClangdFollowsText == strayed \/ clangd = buf.text

\* The buffer keeps its shape, a caret at least among it; carets that a shift, an
\* undo or a redo leaves are in the text; and the find bar holds the matches of the
\* text that is there ("Without it the stored byte ranges go stale", find_resync),
\* but for a suggestion that rewrote the file since.  The rope panics only after
\* such a suggestion (the bar then uses a match that is no longer in the text) or
\* when the ranges of a batch overlapped; what follows an overlap is left open.
StaysInside ==
    /\ TypeOK
    /\ rewritten \/ matches = Matches(buf.text)
    /\ crashed => rewritten \/ strayed
    /\ strayed \/ \A i \in DOMAIN buf.cursors :
                     {buf.cursors[i].anchor, buf.cursors[i].head} \subseteq Offsets(buf.text)

\* The undo stacks of b as the documents they lead to, from the operations alone.
Groups(b) == b.done \o Reverse(b.undone)

\* The text when the first k groups have been made.
TextAfter(b) ==
    LET groups == Groups(b)
        here == Len(b.done)
        back[k \in 0 .. here] ==
          IF k = here THEN b.text ELSE Reverted(back[k + 1], groups[k + 1].ops)
        forth[k \in here .. Len(groups)] ==
          IF k = here THEN b.text ELSE Repeated(forth[k - 1], groups[k].ops)
    IN [k \in 0 .. Len(groups) |-> IF k <= here THEN back[k] ELSE forth[k]]

StepsOf(b) ==
    LET groups == Groups(b)
        text == TextAfter(b)
    IN [k \in DOMAIN groups |-> [from |-> [text |-> text[k - 1], sels |-> groups[k].before],
                                 to |-> [text |-> text[k], sels |-> groups[k].after]]]

Timeline == INSTANCE UndoTimeline WITH
    doc <- [text |-> buf.text, sels |-> buf.cursors],
    at <- Len(buf.done),
    steps <- StepsOf(buf)

\* The stacks of operations act as the promised line of documents: undo and redo
\* lead to the very texts and selections that were there, a group that grows keeps
\* where it started, and nothing else is ever rewritten.
KeepsTimeline == Timeline!Spec
=============================================================================
