------------------------------- MODULE MCTask -------------------------------
(* Task as MCCoroutines explores it and as the proofs are about it. *)
EXTENDS Integers, Sequences, FiniteSets

CONSTANTS Coros, Main, None, MaxOps
VARIABLES state, continuation, calls, point, awaits, done, freed, made, used, eager, cancelled,
          abandoned, raced, wrong

T == INSTANCE Task

ASSUME TasksAssumption == T!TaskAssumption

\* Task: used as it expects, no coroutine is resumed twice, no result missing, no
\* destroyed frame used.
SoundIfUsedWell == T!TypeOK /\ T!SoundIfUsedWell
=============================================================================
