---------------------------- MODULE MCStructures ----------------------------
(***************************************************************************)
(* The data structures and codecs on small instances: TLC explores the     *)
(* timing wheel, Buffer, the load balancer, the serializer, the IDL parser *)
(* or Generator, as `unit' says.                                           *)
(***************************************************************************)
EXTENDS TimingWheel, MCData, MCBalancer, TLC

CONSTANTS Radix, LenWidth, MaxItems

VARIABLES unit,
          items, buffer, sent, whole, offset, values, failed

bufs == <<blocks, buf, chain, reads, unread, linked, spoiled>>
balancer == <<services_, kind, endpoints_, weighted_indices_, current_, idx, picks, gone, fresh, torn>>
codec == <<items, buffer, sent, whole, offset, values, failed>>
parser == <<lines, in_block, namespace_name, doc>>
generator == <<body, current_value, exception, depth, reading, yielded, seen, begins, finished,
               caught, undefined>>
all == <<unit, vars, bufs, balancer, codec, parser, generator>>

\* values of every type of encode(), with two-digit numbers and nested vectors
Of(type, vs) == {[type |-> type, value |-> v] : v \in vs}
Items ==
  UNION {Of(<<"bool">>, {TRUE, FALSE}), Of(<<"int", 2>>, {-8, -1, 5, 7}), Of(<<"uint", 1>>, {0, 3}),
         Of(<<"string">>, {<<>>, <<2, 1>>}), Of(<<"vector", <<"string">>>>, {<<>>, <<<<1>>, <<>>>>}),
         Of(<<"vector", <<"vector", <<"int", 1>>>>>>, {<<<<-2, 1>>, <<-1>>>>})}

S == INSTANCE Serializer

MCInit ==
  /\ unit \in {"wheel", "buffer", "balancer", "codec", "parser", "generator"}
  /\ Init /\ B!Init /\ H!Init /\ S!Init /\ I!Init /\ G!Init
  /\ unit # "balancer" => kind = "Random"

WheelNext == unit = "wheel" /\ Next /\ UNCHANGED <<unit, bufs, balancer, codec, parser, generator>>
BufferNext == unit = "buffer" /\ B!Next /\ UNCHANGED <<unit, vars, balancer, codec, parser, generator>>
BalancerNext == unit = "balancer" /\ H!Next /\ UNCHANGED <<unit, vars, bufs, codec, parser, generator>>
CodecNext == unit = "codec" /\ S!Next /\ UNCHANGED <<unit, vars, bufs, balancer, parser, generator>>
ParserNext == unit = "parser" /\ I!Next /\ UNCHANGED <<unit, vars, bufs, balancer, codec, generator>>
GeneratorNext == unit = "generator" /\ G!Next /\ UNCHANGED <<unit, vars, bufs, balancer, codec, parser>>
MCNext == WheelNext \/ BufferNext \/ BalancerNext \/ CodecNext \/ ParserNext \/ GeneratorNext

MCSpec == MCInit /\ [][MCNext]_all

\* nothing tells one buffer from another
Symmetry == Permutations(Buffers)

-----------------------------------------------------------------------------
\* BinarySerializer: what is decoded is what was encoded, however the bytes are cut.
RoundTrip == S!TypeOK /\ S!RoundTrip
=============================================================================
