---------------------------- MODULE MCAiBackend ----------------------------
(***************************************************************************)
(* The completion server and the cards it serves.  The server alone: one   *)
(* run of Jade with two clicks, where the stored tier is another than the  *)
(* default, or with one click and two tiers to pick; and two runs, the     *)
(* first of which may be killed.  With cards: a user without a key or with *)
(* the local tier, who also turns the completion on or off, and one with a *)
(* key and cards of both kinds.                                            *)
(***************************************************************************)
EXTENDS ChatCards

MCAlone ==
    {[clicks |-> 2, launches |-> 1, servers |-> 2, tiers |-> {"big"}, outside |-> {FALSE}],
     [clicks |-> 1, launches |-> 1, servers |-> 2, tiers |-> {"fast", "big"}, outside |-> {FALSE}],
     [clicks |-> 1, launches |-> 2, servers |-> 2, tiers |-> {"fast"}, outside |-> BOOLEAN]}

MCServed(clicked, servers_, tier, running) ==
    [clicks |-> clicked, launches |-> 1, servers |-> servers_, tiers |-> {tier}, outside |-> {running}]

MCCards(acts, tier, lane) == [asks |-> acts, tier |-> tier, lanes |-> {lane}]

\* A key, one kind of card each; no key, with a server of somebody else, which
\* answers at once, or a managed one; and the local tier.
MCWithCards ==
    {<<MCServed(0, 0, "fast", FALSE), MCCards(2, "keyed", "visualize")>>,
     <<MCServed(0, 0, "big", FALSE), MCCards(2, "keyed", "explain")>>,
     <<MCServed(0, 0, "fast", TRUE), MCCards(2, "keyless", "explain")>>,
     <<MCServed(1, 0, "fast", TRUE), MCCards(1, "keyless", "explain")>>,
     <<MCServed(0, 1, "fast", FALSE), MCCards(1, "keyless", "explain")>>,
     <<MCServed(0, 0, "big", TRUE), MCCards(1, "keyless", "visualize")>>,
     <<MCServed(1, 0, "big", TRUE), MCCards(1, "local", "explain")>>}

MCBounds == MCAlone \cup {p[1] : p \in MCWithCards}

MCChatBounds ==
    [b \in MCBounds |->
        IF b \in MCAlone THEN [asks |-> 0, tier |-> "keyed", lanes |-> {}]
        ELSE (CHOOSE p \in MCWithCards : p[1] = b)[2]]
=============================================================================
