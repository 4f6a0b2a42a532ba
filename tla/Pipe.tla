-------------------------------- MODULE Pipe --------------------------------
(***************************************************************************)
(* What each direction of a session promises: messages come out in the     *)
(* order they went in, none twice and none skipped, until the end that     *)
(* takes them out stops.                                                   *)
(***************************************************************************)
EXTENDS Sequences, Naturals

CONSTANT Message

VARIABLES in,      \* the messages accepted so far
          out,     \* the messages that came out so far
          stopped  \* nothing comes out any more

pipeVars == <<in, out, stopped>>

PipeInit == in = <<>> /\ out = <<>> /\ stopped = FALSE

Accept ==
    /\ \E m \in Message : in' = Append(in, m)
    /\ UNCHANGED <<out, stopped>>

\* One message, or several in one frame.
Emit ==
    /\ ~stopped
    /\ \E n \in Len(out) + 1 .. Len(in) : out' = SubSeq(in, 1, n)
    /\ UNCHANGED <<in, stopped>>

Stop ==
    /\ ~stopped
    /\ stopped' = TRUE
    /\ UNCHANGED <<in, out>>

Spec == PipeInit /\ [][Accept \/ Emit \/ Stop]_pipeVars
=============================================================================
