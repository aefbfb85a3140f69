------------------------- MODULE MCTelemetryServer -------------------------
(* TelemetryServer with one allocation-site name that two buffers share.   *)
EXTENDS TelemetryServer

CONSTANTS p, q, a, a2

MCName   == {p, q, a, a2}
MCBase   == {a}
MCSuffix == [base \in MCBase |-> <<a, a2>>]

\* What is queued for the UI and for the clients is written and never read by
\* the server, so states that differ only there are one state.  This keeps the
\* run finite with unbounded queues.
MCView ==
    <<[state EXCEPT !.events = <<>>, !.out = [c \in Client |-> <<>>]],
      conn, listening>>
=============================================================================
