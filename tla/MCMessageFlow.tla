--------------------------- MODULE MCMessageFlow ---------------------------
(* Instances of MessageFlow for TLC: u1 logs in at one server, also while it *)
(* is there already, and gets messages of u12, who is at the other.          *)
EXTENDS MessageFlow

CONSTANTS s1, s2, s3, u1, u12, m1, m2, east, west

Users    == [s \in Sessions |-> IF s = s3 THEN u12 ELSE u1]
Homes    == [s \in Sessions |-> IF s = s3 THEN east ELSE west]
Sources  == [m \in Msgs |-> s3]
\* m1 is a match message in the name of u1.
Kinds    == [m \in Msgs |-> IF m = m1 THEN {"match"} ELSE {"chat"}]
Claims   == [m \in Msgs |-> {u1}]
\* Named twice, u1 can have its client's channel full when its turn comes again.
Targets  == [m \in Msgs |-> IF m = m1 THEN <<>> ELSE <<u1, u1, u12>>]
\* "u1" is a prefix of "u12".
Longer   == [i \in Ids |-> IF i = u1 THEN {u12} ELSE {}]
=============================================================================
