------------------------------ MODULE LspCalls ------------------------------
(***************************************************************************)
(* What an LspHandle promises its callers (jade-lsp/src/client.rs): a call *)
(* ends once, with the server's answer to this very call, an answer too    *)
(* late or none; when the session is over, every call is over with it.     *)
(***************************************************************************)
CONSTANT Calls

VARIABLES call, up

vars == <<call, up>>

Ended == {"answered", "gone", "timeout"}

Init ==
    /\ call = [c \in Calls |-> "idle"]
    /\ up = TRUE

Ask(c) ==
    /\ call[c] = "idle"
    /\ call' = [call EXCEPT ![c] = IF up THEN "waiting" ELSE "gone"]
    /\ UNCHANGED up

Answer(c) ==
    /\ up /\ call[c] = "waiting"
    /\ call' = [call EXCEPT ![c] = "answered"]
    /\ UNCHANGED up

\* The server is gone although the session is not over yet.
Refuse(c) ==
    /\ up /\ call[c] = "waiting"
    /\ call' = [call EXCEPT ![c] = "gone"]
    /\ UNCHANGED up

TimeOut(c) ==
    /\ call[c] = "waiting"
    /\ call' = [call EXCEPT ![c] = "timeout"]
    /\ UNCHANGED up

End ==
    /\ up /\ up' = FALSE
    /\ call' = [c \in Calls |-> IF call[c] = "waiting" THEN "gone" ELSE call[c]]

Next ==
    \/ \E c \in Calls : Ask(c) \/ Answer(c) \/ Refuse(c) \/ TimeOut(c)
    \/ End

Spec == Init /\ [][Next]_vars
=============================================================================
