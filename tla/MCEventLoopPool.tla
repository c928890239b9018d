-------------------------- MODULE MCEventLoopPool --------------------------
(* A small instance of EventLoopPool for TLC. *)
EXTENDS EventLoopPool

=============================================================================
