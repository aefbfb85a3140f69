---------------------------- MODULE MCLldbDriver ----------------------------
(***************************************************************************)
(* LldbDriver in four worlds: an lldb that answers in time with a user who *)
(* acts on what is shown, and an lldb that may be slow with a user who     *)
(* does not; each with a silent target, and for a shorter session with one *)
(* that prints without end.                                                *)
(***************************************************************************)
EXTENDS LldbDriver

MCWorlds ==
    {[slow |-> FALSE, patient |-> TRUE, prints |-> FALSE, requests |-> 4, stops |-> 3],
     [slow |-> FALSE, patient |-> TRUE, prints |-> TRUE, requests |-> 2, stops |-> 2],
     [slow |-> TRUE, patient |-> FALSE, prints |-> FALSE, requests |-> 2, stops |-> 1],
     [slow |-> TRUE, patient |-> FALSE, prints |-> TRUE, requests |-> 2, stops |-> 0]}
=============================================================================
