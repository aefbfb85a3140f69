--------------------------- MODULE RebuildOnSave ---------------------------
(***************************************************************************)
(* What hardware mode promises about the simulation on screen: every save  *)
(* is resolved unless later ones keep coming, and a build shows only when  *)
(* no later save is waiting.                                               *)
(***************************************************************************)
EXTENDS Naturals

VARIABLES
    saved,      \* number of the newest save; the project as opened is save 1
    pending,    \* the newest save is neither shown nor refused yet
    shown,      \* the save the running simulation was built for; 0: none runs
    open        \* hardware mode is open

vars == <<saved, pending, shown, open>>

Init == saved = 1 /\ pending = TRUE /\ shown = 0 /\ open = TRUE

Save ==
    /\ open
    /\ saved' = saved + 1
    /\ pending' = TRUE
    /\ UNCHANGED <<shown, open>>

\* The newest save is shown, or its simulation does not start.
Show ==
    /\ open /\ pending
    /\ pending' = FALSE
    /\ shown' \in {saved, 0}
    /\ UNCHANGED <<saved, open>>

\* The newest save does not build; what is on screen stays.
Refuse ==
    /\ open /\ pending
    /\ pending' = FALSE
    /\ UNCHANGED <<saved, shown, open>>

\* The simulation ends by itself.
Lose ==
    /\ open /\ shown # 0
    /\ shown' = 0
    /\ UNCHANGED <<saved, pending, open>>

Close ==
    /\ open
    /\ open' = FALSE
    /\ shown' = 0
    /\ UNCHANGED <<saved, pending>>

Resolve == Show \/ Refuse

Next == Save \/ Resolve \/ Lose \/ Close

SafetySpec == Init /\ [][Next]_vars

\* A save is resolved once the user pauses: a build takes its time, and every
\* further save starts it again.
Liveness == []<><<Save>>_vars \/ WF_vars(Resolve)

Spec == SafetySpec /\ Liveness
=============================================================================
