--------------------------- MODULE MCClientPumps ---------------------------
(* Instances of ClientPumps for TLC. *)
EXTENDS ClientPumps

\* The second of the peer's frames is not a JSON message.
SecondMalformed == {2}
=============================================================================
