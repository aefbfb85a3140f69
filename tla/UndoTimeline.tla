---------------------------- MODULE UndoTimeline ----------------------------
(***************************************************************************)
(* What undo and redo promise: a line of steps, each from one document to  *)
(* the next, of which some have been taken back.  A document is a text and *)
(* the selections in it.                                                   *)
(***************************************************************************)
EXTENDS Naturals, Sequences

VARIABLES
    doc,    \* the document of now
    steps,  \* the steps that can be taken back or again
    at      \* how many of them have been taken

timeline == <<doc, steps, at>>

Init == steps = <<>> /\ at = 0

\* A caret moves, or nothing happens.
Moves == at' = at /\ doc'.text = doc.text /\ steps' = steps

Past == SubSeq(steps, 1, at)

\* An edit is a step of its own; what could come after it is forgotten.  The carets
\* of doc may have moved since the step was made (a replacement selects the next
\* match).
Steps ==
    /\ at' = at + 1
    /\ \E line \in {steps'} :
        /\ Len(line) = at + 1 /\ SubSeq(line, 1, at) = Past
        /\ line[at + 1].from = doc /\ line[at + 1].to.text = doc'.text

\* Or it makes the newest step longer.
Lengthens ==
    /\ at' = at /\ at > 0
    /\ \E line \in {steps'} :
        /\ Len(line) = at /\ line[at].to.text = doc'.text
        /\ line = [Past EXCEPT ![at].to = line[at].to]

\* Or it is two steps: a closer typed over a selection, and its alignment.
StepsTwice ==
    /\ at' = at + 2
    /\ \E i \in DOMAIN doc.sels : doc.sels[i].anchor # doc.sels[i].head
    /\ \E line \in {steps'} :
        /\ Len(line) = at + 2 /\ SubSeq(line, 1, at) = Past
        /\ line[at + 1].from = doc /\ line[at + 2] = [from |-> line[at + 1].to, to |-> doc']

Undoes ==
    /\ at > 0 /\ at' = at - 1
    /\ doc' = steps[at].from /\ steps' = steps

Redoes ==
    /\ at' = at + 1 /\ at < Len(steps)
    /\ doc' = steps[at + 1].to /\ steps' = steps

Next == Moves \/ Steps \/ Lengthens \/ StepsTwice \/ Undoes \/ Redoes

Spec == Init /\ [][Next]_timeline
=============================================================================
