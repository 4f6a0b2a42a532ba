--------------------------- MODULE RouteDirectory ---------------------------
(***************************************************************************)
(* What the sessions of all servers promise about the routes in etcd, with *)
(* no goroutine, lease or lock in it: entry[i] is the session (and so the  *)
(* server) that messages for the id i are sent to, Test where a match      *)
(* message has put a value that names no server.                           *)
(***************************************************************************)
CONSTANTS Sessions, Ids, IdOf, Test, Nil

VARIABLES phase, entry

dirVars == <<phase, entry>>

DirectoryInit ==
    /\ phase = [c \in Sessions |-> "new"]
    /\ entry = [i \in Ids |-> Nil]

\* A session that has not retired routes its own id to itself.
Publish(c) ==
    /\ phase[c] \in {"new", "serving"}
    /\ phase' = [phase EXCEPT ![c] = "serving"]
    /\ entry' = [entry EXCEPT ![IdOf[c]] = c]

\* A session retires once, and takes at most its own route away.
Retire(c) ==
    /\ phase[c] = "serving"
    /\ phase' = [phase EXCEPT ![c] = "retired"]
    /\ entry' \in {entry, [i \in Ids |-> IF entry[i] = c THEN Nil ELSE entry[i]]}

\* A route to a session lapses when nobody renews it.
Lapse(i) ==
    /\ entry[i] \in Sessions
    /\ entry' = [entry EXCEPT ![i] = Nil]
    /\ UNCHANGED phase

\* A match message takes the key of any id; only the next Publish of that id
\* gives it back.
Usurp(i) ==
    /\ entry' = [entry EXCEPT ![i] = Test]
    /\ UNCHANGED phase

DirectoryNext ==
    \/ \E c \in Sessions : Publish(c) \/ Retire(c)
    \/ \E i \in Ids : Lapse(i) \/ Usurp(i)

Spec == DirectoryInit /\ [][DirectoryNext]_dirVars
=============================================================================
