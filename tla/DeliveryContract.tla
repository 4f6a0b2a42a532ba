-------------------------- MODULE DeliveryContract --------------------------
(***************************************************************************)
(* What sending a message promises: only its targets get it, only after it *)
(* was sent, and no more often than there are copies of it.  A copy more   *)
(* arises only when the broker never hears an acknowledgement.             *)
(***************************************************************************)
EXTENDS Naturals

CONSTANTS Msgs, Ids,
          Wanted(_, _)   \* how often an id is among the targets of a message

VARIABLES copies,   \* copies of a message, 0 before it is sent
          got       \* how often a client of an id was given a message

contractVars == <<copies, got>>

ContractInit ==
    /\ copies = [m \in Msgs |-> 0]
    /\ got = [m \in Msgs |-> [i \in Ids |-> 0]]

Send(m) ==
    /\ copies[m] = 0
    /\ copies' = [copies EXCEPT ![m] = 1]
    /\ UNCHANGED got

LoseAck(m) ==
    /\ copies[m] > 0
    /\ copies' = [copies EXCEPT ![m] = @ + 1]
    /\ UNCHANGED got

Give(m, i) ==
    /\ got[m][i] < copies[m] * Wanted(m, i)
    /\ got' = [got EXCEPT ![m][i] = @ + 1]
    /\ UNCHANGED copies

ContractNext ==
    \E m \in Msgs : Send(m) \/ LoseAck(m) \/ \E i \in Ids : Give(m, i)

Spec == ContractInit /\ [][ContractNext]_contractVars
=============================================================================
