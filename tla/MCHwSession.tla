---------------------------- MODULE MCHwSession ----------------------------
(***************************************************************************)
(* HwSession with a DIP switch, whose replay is part of a mask, and a      *)
(* button, whose replay is a command of its own.                           *)
(***************************************************************************)
EXTENDS HwSession

CONSTANTS d, b

MCControl == {d, b}
MCDip == {d}
=============================================================================
