---------------------------- MODULE MCWorkspace ----------------------------
(***************************************************************************)
(* Workspace with two folders and two source files, in two worlds: two     *)
(* panes of one folder, and two folders that come and go.                  *)
(***************************************************************************)
EXTENDS Workspace

CONSTANTS a, b, d1, d2

MCFirstFile == (d1 :> a) @@ (d2 :> b)

MCWorlds ==
    {[files |-> {a, b}, panes |-> 2, texts |-> 2, opens |-> 1, sessions |-> 1, crashes |-> TRUE],
     [files |-> {a}, panes |-> 1, texts |-> 2, opens |-> 2, sessions |-> 2, crashes |-> TRUE],
     [files |-> {}, panes |-> 1, texts |-> 2, opens |-> 3, sessions |-> 3, crashes |-> FALSE],
     [files |-> {}, panes |-> 2, texts |-> 1, opens |-> 3, sessions |-> 3, crashes |-> FALSE]}
=============================================================================
