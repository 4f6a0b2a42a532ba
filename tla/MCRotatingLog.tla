--------------------------- MODULE MCRotatingLog ---------------------------
(* Instances of RotatingLog for TLC. *)
EXTENDS RotatingLog
=============================================================================
