----------------------------- MODULE TextEdits -----------------------------
(***************************************************************************)
(* The text buffer (jade-buffer: buffer.rs, edit.rs, typing.rs, indent.rs, *)
(* movement.rs) as operators: what each key plans, and what a batch of     *)
(* plans does to the text, the carets and the undo stacks of a buffer.     *)
(*                                                                         *)
(* A text is a sequence of characters and an offset the number of those    *)
(* before it: bytes, graphemes and UTF-16 columns count alike.  A word     *)
(* character, a line end, a tab and a pair of braces stand for all of      *)
(* them; the file is of a brace language.                                  *)
(***************************************************************************)
EXTENDS Naturals, Integers, SequencesExt

Char == {"w", "nl", "tab", "{", "}"}

-----------------------------------------------------------------------------
(* Texts and rows.  A row is named by the offset it starts at.             *)

Slice(t, s, e) == SubSeq(t, s + 1, e)

\* raw_splice.
Spliced(t, s, e, new) == SubSeq(t, 1, s) \o new \o SubSeq(t, e + 1, Len(t))

Offsets(t) == 0 .. Len(t)

RowStarts(t) == {s \in Offsets(t) : s = 0 \/ t[s] = "nl"}
RowStart(t, off) == Max({s \in RowStarts(t) : s <= off})
RowEnd(t, row) == Min({e \in row .. Len(t) : e = Len(t) \/ t[e + 1] = "nl"})
NextRow(t, row) == IF RowEnd(t, row) = Len(t) THEN Len(t) ELSE RowEnd(t, row) + 1

Count(t, s, e, ch) == Cardinality({i \in s + 1 .. e : t[i] = ch})

\* Some numbers, the smallest first.
Sorted(S) == [n \in 1 .. Cardinality(S) |-> CHOOSE x \in S : Cardinality({y \in S : y <= x}) = n]

Tabs(n) == [i \in 1 .. n |-> "tab"]

\* leading_ws_len of the row, not beyond `to`.
Indent(t, row, to) ==
    Max({e \in row .. to : \A i \in row + 1 .. e : t[i] = "tab"}) - row

-----------------------------------------------------------------------------
(* Selections and plans.                                                   *)

At(off) == [anchor |-> off, head |-> off]
IsEmpty(sel) == sel.anchor = sel.head
Lo(sel) == Min({sel.anchor, sel.head})
Hi(sel) == Max({sel.anchor, sel.head})

Plan(s, e, text) == [start |-> s, end |-> e, text |-> text]

Grows(plan) == Len(plan.text) - (plan.end - plan.start)
Delta(plans, i) ==
    LET sum[k \in 0 .. Len(plans)] == IF k = 0 THEN 0 ELSE sum[k - 1] + Grows(plans[k])
    IN sum[i - 1]

\* Every edit but the indents: the caret goes to the end of what was inserted.
CaretsAfter(plans) ==
    [i \in DOMAIN plans |-> At(plans[i].start + Delta(plans, i) + Len(plans[i].text))]

\* Mutant of Mapped: an offset moves with an indent that starts where it is.
MappedEager(plans, off) ==
    off + Delta(plans, Cardinality({i \in DOMAIN plans : plans[i].start <= off}) + 1)

\* map_offset: an offset inside an indent that goes away moves to the row's start (a
\* tab has no inside; an indent of spaces does).
Mapped(plans, off) ==
    LET cut == {i \in DOMAIN plans : plans[i].start < off /\ off < plans[i].end}
    IN IF cut # {} THEN plans[Min(cut)].start + Delta(plans, Min(cut))
       ELSE off + Delta(plans, Cardinality({i \in DOMAIN plans : plans[i].end <= off}) + 1)

Overlap(plans) ==
    \E i, j \in DOMAIN plans : i < j /\ plans[i].end > plans[j].start

-----------------------------------------------------------------------------
(* transact.                                                               *)

\* Left to right, each range moved by what the plans before it added.  The rope
\* panics on a range that is not in the text.
Applied(text, plans) ==
    LET step(acc, i) ==
          LET s == plans[i].start + Delta(plans, i)
              e == plans[i].end + Delta(plans, i)
          IN IF ~acc.ok \/ s < 0 \/ e > Len(acc.text)
             THEN [ok |-> FALSE, text |-> acc.text, ops |-> acc.ops]
             ELSE [ok |-> TRUE,
                   text |-> Spliced(acc.text, s, e, plans[i].text),
                   ops |-> Append(acc.ops, [start |-> s, new |-> plans[i].text,
                                            old |-> Slice(acc.text, s, e)])]
        done[i \in 0 .. Len(plans)] ==
          IF i = 0 THEN [ok |-> TRUE, text |-> text, ops |-> <<>>] ELSE step(done[i - 1], i)
    IN done[Len(plans)]

\* EditKind::of.
KindOf(plans) ==
    IF \A i \in DOMAIN plans : plans[i].start = plans[i].end /\ plans[i].text # <<>>
    THEN "insert"
    ELSE IF \A i \in DOMAIN plans : plans[i].start < plans[i].end /\ plans[i].text = <<>>
    THEN "delete" ELSE "other"

\* EditKind::continues, for carets in the order of the text.
Continues(plans, carets) ==
    /\ Len(plans) = Len(carets)
    /\ \A i \in DOMAIN plans :
         \/ KindOf(plans) \in {"insert", "delete"} /\ plans[i].start = carets[i]
         \/ KindOf(plans) = "delete" /\ plans[i].end = carets[i]

\* A buffer as from_text makes it.
NewBuffer(text) ==
    [text |-> text, cursors |-> <<At(0)>>, version |-> 0, saved |-> 0,
     done |-> <<>>, undone |-> <<>>,
     boundary |-> FALSE, recent |-> FALSE, kind |-> "none", carets |-> <<>>]

\* Mutant of OrStart: no selection stays none.
OrStartNone(sels) == sels

\* set_from_selections.
OrStart(sels) == IF sels = <<>> THEN <<At(0)>> ELSE sels

\* The undo stacks after an edit: it joins the newest group or is one of its own.
Joins(b, plans, coalesce) ==
    /\ coalesce /\ b.recent /\ ~b.boundary /\ b.done # <<>>
    /\ b.kind = KindOf(plans) /\ Continues(plans, b.carets)

Recorded(b, plans, sels, coalesce) ==
    LET ops == Applied(b.text, plans).ops
        newest == Len(b.done)
    IN IF Joins(b, plans, coalesce)
       THEN [b.done EXCEPT ![newest].ops = @ \o ops, ![newest].after = sels]
       ELSE Append(b.done, [ops |-> ops, before |-> b.cursors, after |-> sels])

Anchors(sels) ==
    IF \A i \in DOMAIN sels : IsEmpty(sels[i]) THEN [i \in DOMAIN sels |-> sels[i].head] ELSE <<>>

\* Mutant of Transacted: an edit leaves what was undone to be redone.
TransactedKeepsUndone(b, plans, sels, coalesce) ==
    IF plans = <<>> THEN [b EXCEPT !.cursors = OrStart(sels)]
    ELSE [text |-> Applied(b.text, plans).text, cursors |-> OrStart(sels),
          version |-> b.version + 1, saved |-> b.saved,
          done |-> Recorded(b, plans, sels, coalesce), undone |-> b.undone,
          boundary |-> ~coalesce, recent |-> TRUE, kind |-> KindOf(plans),
          carets |-> Anchors(sels)]

Transacted(b, plans, sels, coalesce) ==
    IF plans = <<>> THEN [b EXCEPT !.cursors = OrStart(sels)]
    ELSE [text |-> Applied(b.text, plans).text, cursors |-> OrStart(sels),
          version |-> b.version + 1, saved |-> b.saved,
          done |-> Recorded(b, plans, sels, coalesce), undone |-> <<>>,
          boundary |-> ~coalesce, recent |-> TRUE, kind |-> KindOf(plans),
          carets |-> Anchors(sels)]

\* Mutant of Sent: the changes go out in the order of the text.
SentAscending(text, plans) ==
    FoldLeft(LAMBDA t, plan : Spliced(t, plan.start, plan.end, plan.text), text, plans)

\* The changes of the EditRecord as clangd applies them: in order, the last
\* range first, so that none is moved by the one before it.
Sent(text, plans) ==
    LET from[i \in 1 .. Len(plans) + 1] ==
          IF i > Len(plans) THEN text
          ELSE Spliced(from[i + 1], plans[i].start, plans[i].end, plans[i].text)
    IN from[1]

-----------------------------------------------------------------------------
(* Keys: what each one plans, the selections it leaves and whether it joins *)
(* the run of typing around it.                                            *)

Edit(plans, sels, coalesce) == [plans |-> plans, sels |-> sels, coalesce |-> coalesce]

\* insert_text, insert_tab: the same text over every selection.
Inserts(b, text, coalesce) ==
    LET plans == [i \in DOMAIN b.cursors |-> Plan(Lo(b.cursors[i]), Hi(b.cursors[i]), text)]
    IN Edit(plans, CaretsAfter(plans), coalesce)

\* edit and edit_typed.
Replaces(s, e, text, coalesce) ==
    Edit(<<Plan(s, e, text)>>, <<At(s + Len(text))>>, coalesce)

\* batch_edit: one text over ranges in the order of the text.
Batch(ranges) == Edit(ranges, CaretsAfter(ranges), FALSE)

\* word_left: white space, then a run of one class.
Class(ch) == IF ch = "w" THEN "word" ELSE IF ch \in {"nl", "tab"} THEN "white" ELSE "punct"
WordLeft(t, off) ==
    LET edge == Max({k \in 0 .. off : k = 0 \/ Class(t[k]) # "white"})
    IN Min({k \in 0 .. edge : \A j \in k + 1 .. edge : Class(t[j]) = Class(t[edge])})

\* word_right: the same, the other way.
WordRight(t, off) ==
    LET edge == Min({k \in off .. Len(t) : k = Len(t) \/ Class(t[k + 1]) # "white"})
    IN Max({k \in edge .. Len(t) : \A j \in edge + 1 .. k : Class(t[j]) = Class(t[edge + 1])})

\* delete_with: an empty selection takes the text up to the edge its key names.
Deletes(b, edge) ==
    LET of(sel) == IF IsEmpty(sel)
                   THEN Plan(Min({sel.head, edge[sel.head]}), Max({sel.head, edge[sel.head]}), <<>>)
                   ELSE Plan(Lo(sel), Hi(sel), <<>>)
        all == [i \in DOMAIN b.cursors |-> of(b.cursors[i])]
        some(plan) == plan.start # plan.end
        kept == Sorted({i \in DOMAIN all : some(all[i])})
    IN Edit([k \in DOMAIN kept |-> all[kept[k]]], CaretsAfter(all), TRUE)

Before(t) == [off \in Offsets(t) |-> Max({0, off - 1})]
Behind(t) == [off \in Offsets(t) |-> Min({Len(t), off + 1})]
WordBefore(t) == [off \in Offsets(t) |-> WordLeft(t, off)]
WordBehind(t) == [off \in Offsets(t) |-> WordRight(t, off)]

\* insert_newline_auto: a step deeper behind an opener, the closer that follows it
\* on a row of its own.
NewRow(t, sel) ==
    LET row == RowStart(t, Lo(sel))
        base == Indent(t, row, Lo(sel))
        opens == Count(t, row, Lo(sel), "{") > Count(t, row, Lo(sel), "}")
        closes == \E c \in Hi(sel) .. RowEnd(t, RowStart(t, Hi(sel))) - 1 :
                     t[c + 1] = "}" /\ \A k \in Hi(sel) + 1 .. c : t[k] = "tab"
    IN [text |-> <<"nl">> \o Tabs(IF opens THEN base + 1 ELSE base)
                 \o IF opens /\ closes THEN <<"nl">> \o Tabs(base) ELSE <<>>,
        caret |-> IF opens THEN base + 2 ELSE base + 1]

Newlines(b) ==
    LET new == [i \in DOMAIN b.cursors |-> NewRow(b.text, b.cursors[i])]
        plans == [i \in DOMAIN new |-> Plan(Lo(b.cursors[i]), Hi(b.cursors[i]), new[i].text)]
    IN Edit(plans, [i \in DOMAIN new |-> At(plans[i].start + Delta(plans, i) + new[i].caret)], FALSE)

\* selected_rows: a selection that ends where a row starts does not reach it.
SelectedRows(b) ==
    {row \in RowStarts(b.text) : \E i \in DOMAIN b.cursors :
        LET sel == b.cursors[i]
        IN /\ RowStart(b.text, Lo(sel)) <= row /\ row <= Hi(sel)
           /\ row = Hi(sel) => row = RowStart(b.text, Lo(sel))}

Reindents(b, plans) ==
    Edit(plans, [i \in DOMAIN b.cursors |-> [anchor |-> Mapped(plans, b.cursors[i].anchor),
                                             head |-> Mapped(plans, b.cursors[i].head)]], FALSE)

\* indent_lines: an empty row stays empty.  outdent_lines.
Indents(b) ==
    LET rows == Sorted({r \in SelectedRows(b) : RowEnd(b.text, r) # r})
    IN Reindents(b, [i \in DOMAIN rows |-> Plan(rows[i], rows[i], Tabs(1))])

Outdents(b) ==
    LET rows == Sorted({r \in SelectedRows(b) : Indent(b.text, r, RowEnd(b.text, r)) # 0})
    IN Reindents(b, [i \in DOMAIN rows |-> Plan(rows[i], rows[i] + 1, <<>>)])

\* auto_reindent_line: a row that is a closer so far gets the indent of the row
\* of its opener, if there is one and the indent differs.
Opener(t, row) ==
    {i \in 0 .. row - 1 : Count(t, i, row, "{") = Count(t, i, row, "}") + 1}

Aligns(b) ==
    /\ Len(b.cursors) = 1 /\ IsEmpty(b.cursors[1])
    /\ LET caret == b.cursors[1].head
           row == RowStart(b.text, caret)
       IN /\ row + Indent(b.text, row, caret) + 1 = caret /\ b.text[caret] = "}"
          /\ Opener(b.text, row) # {}

Alignment(b) ==
    LET caret == b.cursors[1].head
        row == RowStart(b.text, caret)
        old == Indent(b.text, row, caret)
        from == RowStart(b.text, Max(Opener(b.text, row)))
        new == Indent(b.text, from, RowEnd(b.text, from))
    IN Edit(IF new = old THEN <<>> ELSE <<Plan(row, row + old, Tabs(new))>>,
            <<At(caret + new - old)>>, TRUE)

\* The alignment folds into the group of the keystroke that caused it.
Aligned(b) ==
    LET shift == Alignment(b)
        c == Transacted(b, shift.plans, shift.sels, TRUE)
        n == Len(c.done)
        folds == shift.plans # <<>> /\ ~b.boundary /\ b.kind = "insert" /\ b.done # <<>> /\ n >= 2
    IN IF ~folds THEN c
       ELSE [c EXCEPT !.done = Append(SubSeq(c.done, 1, n - 2),
                                  [ops |-> c.done[n - 1].ops \o c.done[n].ops,
                                   before |-> c.done[n - 1].before, after |-> c.done[n].after]),
                      !.kind = b.kind, !.carets = <<shift.sels[1].head>>]

-----------------------------------------------------------------------------
(* undo and redo.                                                          *)

\* What both leave: nothing joins the group on either side.
Closed(b, text, sels, done, undone) ==
    [text |-> text, cursors |-> OrStart(sels), version |-> b.version + 1, saved |-> b.saved,
     done |-> done, undone |-> undone,
     boundary |-> TRUE, recent |-> FALSE, kind |-> b.kind, carets |-> <<>>]

\* Mutant of Reverted: the operations are undone first one first.
RevertedForward(text, ops) ==
    FoldLeft(LAMBDA t, op : Spliced(t, op.start, Min({op.start + Len(op.new), Len(t)}), op.old),
             text, ops)

\* Each operation's text is where it was put once those after it are undone.
Reverted(text, ops) ==
    LET from[i \in 1 .. Len(ops) + 1] ==
          IF i > Len(ops) THEN text
          ELSE Spliced(from[i + 1], ops[i].start, ops[i].start + Len(ops[i].new), ops[i].old)
    IN from[1]

Repeated(text, ops) ==
    LET upto[i \in 0 .. Len(ops)] ==
          IF i = 0 THEN text
          ELSE Spliced(upto[i - 1], ops[i].start, ops[i].start + Len(ops[i].old), ops[i].new)
    IN upto[Len(ops)]

\* Mutant of Undone: undo does not count as a change of the text.
UndoneQuietly(b) ==
    LET group == Last(b.done)
    IN [Closed(b, Reverted(b.text, group.ops), group.before,
               Front(b.done), Append(b.undone, group)) EXCEPT !.version = b.version]

Undone(b) ==
    LET group == Last(b.done)
    IN Closed(b, Reverted(b.text, group.ops), group.before,
              Front(b.done), Append(b.undone, group))

Redone(b) ==
    LET group == Last(b.undone)
    IN Closed(b, Repeated(b.text, group.ops), group.after,
              Append(b.done, group), Front(b.undone))

-----------------------------------------------------------------------------
(* Movement: every caret goes to the edge its key names.                   *)

\* move_all.
Moved(b, edge, extend) ==
    [b EXCEPT !.cursors = [i \in DOMAIN b.cursors |->
        IF extend THEN [b.cursors[i] EXCEPT !.head = edge[b.cursors[i].head]]
        ELSE At(edge[b.cursors[i].head])]]

\* collapse_horizontal: a selection collapses to its edge.
Stepped(b, right) ==
    LET of(sel) == IF ~IsEmpty(sel) THEN IF right THEN Hi(sel) ELSE Lo(sel)
                   ELSE IF right THEN Behind(b.text)[sel.head] ELSE Before(b.text)[sel.head]
    IN [b EXCEPT !.cursors = [i \in DOMAIN b.cursors |-> At(of(b.cursors[i]))]]
=============================================================================
