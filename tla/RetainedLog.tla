---------------------------- MODULE RetainedLog ----------------------------
(***************************************************************************)
(* What a log with daily rotation promises, whatever files it is made of:  *)
(* lines are stored in the order in which they were accepted, and a line   *)
(* that is stored stays until it is KeepDays days old (for ever when       *)
(* KeepDays is 0).                                                         *)
(***************************************************************************)
EXTENDS Naturals, Sequences

CONSTANT KeepDays

VARIABLES
  now,        \* the day
  accepted,   \* accepted[l] is the day on which line l was accepted
  kept        \* the lines that can be read

vars == <<now, accepted, kept>>

Init == now = 0 /\ accepted = <<>> /\ kept = {}

Tick == now' = now + 1 /\ UNCHANGED <<accepted, kept>>

Accept == accepted' = Append(accepted, now) /\ UNCHANGED <<now, kept>>

Store(l) ==
  /\ \A k \in kept : k < l
  /\ kept' = kept \union {l}
  /\ UNCHANGED <<now, accepted>>

Expire ==
  /\ KeepDays > 0
  /\ kept' \subseteq kept
  /\ \A l \in kept \ kept' : accepted[l] + KeepDays <= now
  /\ UNCHANGED <<now, accepted>>

Next == Tick \/ Accept \/ (\E l \in 1..Len(accepted) : Store(l)) \/ Expire

Spec == Init /\ [][Next]_vars
=============================================================================
