---------------------------- MODULE MCTextBuffer ----------------------------
(* Files of a word, and of a block whose closer is still to be typed.      *)
EXTENDS TextBuffer

MCTexts == {<<"w", "w">>, <<"{", "nl", "tab">>}
MCTyped == {"w", "}"}
MCPasted == {<<"nl">>, <<"w", "w">>}
MCWidths == {0, 1}
MCShifts == {FALSE}
=============================================================================
