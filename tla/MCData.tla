------------------------------- MODULE MCData -------------------------------
(* The data of one thread as MCStructures explores it and as the proofs are *)
(* about it: Buffer, Generator and the IDL parser.                          *)
EXTENDS Integers, Sequences

CONSTANTS Buffers, Bytes, BlockSize, Capacities, MaxSize, MaxBlocks, MaxCapacity, MaxChain, MaxReads,
          Values, None, MaxYields, MaxLoops,
          MaxLines
VARIABLES blocks, buf, chain, reads, unread, linked, spoiled,
          body, current_value, exception, depth, reading, yielded, seen, begins, finished, caught, undefined,
          lines, in_block, namespace_name, doc

B == INSTANCE Buffer
G == INSTANCE Generator
I == INSTANCE IdlParser WITH block <- in_block

ASSUME BuffersAssumption == B!BufferAssumption
ASSUME ValuesAssumption == G!GeneratorAssumption

-----------------------------------------------------------------------------
(* The properties of the modules, each with the type invariant of its module. *)

\* Buffer and BufferChain: they hold exactly what was written or appended and not read.
HoldsUnread == B!TypeOK /\ B!HoldsUnread

\* Generator: the loops over it see every value that was yielded.
SeesAll == G!TypeOK /\ G!SeesAll

\* IdlParser: the definitions of a document are found, if its blocks end the way the code
\* expects.
ParsesQuoted == I!TypeOK /\ I!ParsesQuoted
=============================================================================
