----------------------------- MODULE Serializer -----------------------------
(***************************************************************************)
(* rpc/serializer.hpp, BinarySerializer: values encoded one after another, *)
(* a prefix of the bytes delivered, and the values decoded in order, as    *)
(* the code that idl/code_generator.hpp generates for a struct does.       *)
(* std::map can be encoded only.                                           *)
(***************************************************************************)
EXTENDS Integers, Sequences, FiniteSets

CONSTANTS Radix,       \* 256 in the code: values of a byte
          LenWidth,    \* 4 in the code: bytes of a length
          Items,       \* values that may be encoded: [type, value]
          MaxItems     \* bound

\* Types: <<"bool">>, <<"int", width>>, <<"uint", width>> (float and double are their
\* bits), <<"string">>, <<"vector", type>>.
VARIABLES items,     \* what was encoded
          buffer,    \* the bytes, cut by the transport when `sent'
          sent, whole,
          offset, values, failed   \* the receiver

vars == <<items, buffer, sent, whole, offset, values, failed>>

Init == items = <<>> /\ buffer = <<>> /\ sent = FALSE /\ whole = TRUE /\ offset = 0 /\ values = <<>> /\ failed = FALSE

Flat(ss) == LET f[i \in 0..Len(ss)] == IF i = 0 THEN <<>> ELSE f[i - 1] \o ss[i] IN f[Len(ss)]
Drop(s, n) == SubSeq(s, n + 1, Len(s))

\* (value >> 8i) & 0xFF
Digits(v, w) == [i \in 1..w |-> (v \div Radix^(i - 1)) % Radix]
Number(s, w) == LET f[i \in 0..w] == IF i = 0 THEN 0 ELSE f[i - 1] + s[i] * Radix^(i - 1) IN f[w]
\* mutant: no sign
SignedNot(n, w) == n
Signed(n, w) == IF 2 * n >= Radix^w THEN n - Radix^w ELSE n

RECURSIVE encode(_, _)
encode(t, v) ==
  CASE t[1] = "bool" -> <<IF v THEN 1 ELSE 0>>
    [] t[1] \in {"int", "uint"} -> Digits(v, t[2])
    [] t[1] = "string" -> Digits(Len(v), LenWidth) \o v
    [] t[1] = "vector" -> Digits(Len(v), LenWidth) \o Flat([i \in DOMAIN v |-> encode(t[2], v[i])])

Fail == [bytes_read |-> 0, success |-> FALSE, value |-> <<>>]
Ok(n, v) == [bytes_read |-> n, success |-> TRUE, value |-> v]

StringFits(n, s) == Len(s) >= LenWidth + n

RECURSIVE decode(_, _), decode_items(_, _, _, _)
decode(t, s) ==
  CASE t[1] = "bool" -> IF Len(s) < 1 THEN Fail ELSE Ok(1, s[1] # 0)
    [] t[1] = "int" -> IF Len(s) < t[2] THEN Fail ELSE Ok(t[2], Signed(Number(s, t[2]), t[2]))
    [] t[1] = "uint" -> IF Len(s) < t[2] THEN Fail ELSE Ok(t[2], Number(s, t[2]))
    [] t[1] = "string" ->
         IF Len(s) < LenWidth \/ ~StringFits(Number(s, LenWidth), s) THEN Fail
         ELSE Ok(LenWidth + Number(s, LenWidth), SubSeq(s, LenWidth + 1, LenWidth + Number(s, LenWidth)))
    [] t[1] = "vector" -> IF Len(s) < LenWidth THEN Fail ELSE decode_items(t[2], s, LenWidth, Number(s, LenWidth))
\* the loop over the elements of a vector: n are left, from position o
decode_items(t, s, o, n) ==
  IF n = 0 THEN Ok(o, <<>>)
  ELSE LET r == decode(t, Drop(s, o)) IN
       IF ~r.success THEN Fail
       ELSE LET rest == decode_items(t, s, o + r.bytes_read, n - 1)
            IN IF rest.success THEN Ok(rest.bytes_read, <<r.value>> \o rest.value) ELSE Fail

serialize(x) ==
  /\ ~sent /\ Len(items) < MaxItems
  /\ items' = Append(items, x)
  /\ buffer' = buffer \o encode(x.type, x.value)
  /\ UNCHANGED <<sent, whole, offset, values, failed>>

\* the peer receives the first n bytes
Deliver(n) ==
  /\ ~sent /\ items # <<>>
  /\ sent' = TRUE /\ whole' = (n = Len(buffer))
  /\ buffer' = SubSeq(buffer, 1, n)
  /\ UNCHANGED <<items, offset, values, failed>>

Advanced(n) == offset + n

\* one field of a generated deserialize()
deserialize ==
  /\ sent /\ ~failed /\ Len(values) < Len(items)
  /\ LET r == decode(items[Len(values) + 1].type, Drop(buffer, offset)) IN
     IF r.success THEN /\ values' = Append(values, r.value) /\ offset' = Advanced(r.bytes_read)
                       /\ UNCHANGED failed
                  ELSE /\ failed' = TRUE
                       /\ UNCHANGED <<values, offset>>
  /\ UNCHANGED <<items, buffer, sent, whole>>

Next == deserialize \/ (\E x \in Items : serialize(x)) \/ (\E n \in 0..Len(buffer) : Deliver(n))
Spec == Init /\ [][Next]_vars

-----------------------------------------------------------------------------
\* Every byte is a byte, and the receiver stays within what was delivered.
TypeOK == buffer \in Seq(0..(Radix - 1)) /\ offset \in 0..Len(buffer) /\ Len(values) <= Len(items)

\* Every value the receiver decodes is the one that was encoded, negative numbers and
\* nested vectors included, however the bytes were cut; and it fails only if they were.
RoundTrip ==
  /\ \A i \in DOMAIN values : values[i] = items[i].value
  /\ failed => ~whole
=============================================================================
