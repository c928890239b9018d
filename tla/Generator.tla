----------------------------- MODULE Generator ------------------------------
(***************************************************************************)
(* coroutine/generator.hpp: a body that yields values, returns or throws,  *)
(* and range-for loops over it, which may be left early, may follow each   *)
(* other and may be nested.  Only the innermost loop takes steps; a loop   *)
(* reads the value as soon as its iterator has one.                        *)
(***************************************************************************)
EXTENDS Integers, Sequences

CONSTANTS Values, None,
          MaxYields,   \* bound: values a body yields
          MaxLoops     \* bound: loops begun

GeneratorAssumption == None \notin Values /\ MaxLoops \in Nat

VARIABLES body,            \* created, suspended (at a yield), done
          current_value,   \* of the promise; None: not set
          exception,       \* of the promise
          depth,           \* loops under way
          reading,         \* the innermost one has advanced and not read yet
          yielded, seen,   \* history: values yielded; values the loops read
          begins,          \* history: calls of begin()
          finished,        \* history: a loop has come to the end
          caught,          \* history: an exception reached a loop
          undefined        \* history: a body that was done was resumed; the model stops there

vars == <<body, current_value, exception, depth, reading, yielded, seen, begins, finished, caught,
          undefined>>

Init ==
  /\ body = "created" /\ current_value = None /\ exception = FALSE
  /\ depth = 0 /\ reading = FALSE
  /\ yielded = <<>> /\ seen = <<>> /\ begins = 0
  /\ finished = FALSE /\ caught = FALSE /\ undefined = FALSE

\* the body runs to its next yield, its end or an exception
resume ==
  \/ /\ Len(yielded) < MaxYields
     /\ \E v \in Values : current_value' = v /\ yielded' = Append(yielded, v)
     /\ body' = "suspended"
     /\ UNCHANGED exception
  \/ /\ body' = "done"
     /\ exception' \in BOOLEAN
     /\ UNCHANGED <<current_value, yielded>>

ResumeDone == undefined' = TRUE /\ UNCHANGED <<body, current_value, exception, depth, reading,
                                               yielded, finished, caught>>

\* mutant: done() is not tested and the iterator is never the end
LoopAtNoTest(d) == depth' = d /\ reading' = TRUE /\ UNCHANGED finished
\* the iterator after a resume: the loop, number d, goes on at it or comes to its end
LoopAt(d) ==
  /\ depth' = IF body' = "done" THEN d - 1 ELSE d
  /\ reading' = (body' # "done")
  /\ finished' = (finished \/ body' = "done")

\* the exception is looked at only if the body is not done
begin ==
  /\ ~undefined /\ ~reading /\ begins < MaxLoops
  /\ begins' = begins + 1
  /\ \/ body = "done" /\ ResumeDone
     \/ /\ body # "done" /\ resume /\ LoopAt(depth + 1)
        /\ caught' = (caught \/ (body' # "done" /\ exception'))
        /\ UNCHANGED undefined
  /\ UNCHANGED seen

\* operator++, which does not look at the exception
increment ==
  /\ ~undefined /\ ~reading /\ depth > 0
  /\ \/ body = "done" /\ ResumeDone
     \/ body # "done" /\ resume /\ LoopAt(depth) /\ UNCHANGED <<caught, undefined>>
  /\ UNCHANGED <<seen, begins>>

\* operator*
dereference ==
  /\ ~undefined /\ reading
  /\ seen' = Append(seen, current_value) /\ reading' = FALSE
  /\ UNCHANGED <<body, current_value, exception, depth, yielded, begins, finished, caught, undefined>>

\* a break of the innermost loop
leave ==
  /\ ~undefined /\ ~reading /\ depth > 0
  /\ depth' = depth - 1
  /\ UNCHANGED <<body, current_value, exception, reading, yielded, seen, begins, finished, caught,
                 undefined>>

Next == begin \/ increment \/ dereference \/ leave
Spec == Init /\ [][Next]_vars

-----------------------------------------------------------------------------
\* Every variable has its type.
TypeOK ==
  /\ body \in {"created", "suspended", "done"} /\ current_value \in Values \cup {None}
  /\ exception \in BOOLEAN /\ reading \in BOOLEAN /\ depth \in 0..MaxLoops /\ begins \in 0..MaxLoops

\* Loops that are left and taken up again by another begin(), or nested in each other,
\* share one sequence: together they read every value that is yielded, once and in
\* order, up to the one the innermost is about to read.  A body that is done is resumed
\* only by a loop that goes on, or begins, after one has come to the end.  A body that
\* throws looks to every loop like one that returns: the check in begin() comes after
\* the test of done() and operator++ has none.
SeesAll ==
  /\ yielded = IF reading THEN Append(seen, current_value) ELSE seen
  /\ undefined => finished
  /\ ~caught
=============================================================================
