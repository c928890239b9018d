---------------------------- MODULE MCTimingWheel ----------------------------
(* A small instance of TimingWheel with serial callers for TLC. *)
EXTENDS TimingWheel

=============================================================================
