------------------------- MODULE MCTelemetrySystem -------------------------
EXTENDS TelemetrySystem, TLC

CONSTANTS b1, b2, p, q, l, a

MCName        == {p, q, l, a}
MCBase        == {a}
MCSuffix      == [base \in MCBase |-> <<a>>]
MCPlaceholder == [b \in Buf |-> IF b = b1 THEN p ELSE q]
MCLabel       == {l}

\* The label is the name of the variable the buffer is stored in.
MCBaseLabel   == {l}
MCSuffixLabel == [base \in MCBaseLabel |-> <<l>>]
MCNoPrefs     == {[n \in MCName |-> "none"]}

\* One checked label, or an unchecked label and a checked alias.
MCPrefs ==
    {[n \in MCName |-> CASE n = l -> "on"  [] OTHER -> "none"],
     [n \in MCName |-> CASE n = l -> "off" [] n = a -> "on" [] OTHER -> "none"]}

\* The two buffers are interchangeable together with their placeholders.
MCSwap == {b1 :> b2 @@ b2 :> b1 @@ p :> q @@ q :> p}
=============================================================================
