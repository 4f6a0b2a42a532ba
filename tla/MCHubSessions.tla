--------------------------- MODULE MCHubSessions ---------------------------
(* Instances of HubSessions for TLC: two sessions at one server. *)
EXTENDS HubSessions

CONSTANTS s1, s2, alice, bob, east

\* Both sessions log in with one id.
OneId     == [s \in Sessions |-> alice]
OneServer == [s \in Sessions |-> east]

\* Every session has an id of its own.
TwoIds    == [s \in Sessions |-> IF s = s1 THEN alice ELSE bob]
=============================================================================
