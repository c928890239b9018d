------------------------------ MODULE Protocol ------------------------------
(***************************************************************************)
(* rpc/protocol.hpp: messages and their wire format.  A frame is a         *)
(* sequence of cells, the pieces in which a stream can be cut: the header  *)
(* is two cells (magic and type; the two lengths), the meta data one, and  *)
(* the payload any number.  Names, ids and payload bytes are opaque.       *)
(***************************************************************************)
EXTENDS Integers, Sequences

HeaderSize == 2
MetaSize == 1

NoName == "none"     \* a name cut out of bytes that hold none
GarbageId == -1      \* an id cut out of bytes that hold none

Zero == [cell |-> "zero"]                     \* bytes of a fresh std::vector
Data(v) == [cell |-> "data", value |-> v]

create_request(request_id, service, method, payload) ==
  [type |-> "Request", request_id |-> request_id, service |-> service, method |-> method,
   payload |-> payload, error_code |-> "OK"]

create_response(request_id, payload) ==
  [type |-> "Response", request_id |-> request_id, service |-> NoName, method |-> NoName,
   payload |-> payload, error_code |-> "OK"]

\* mutant: the id of the request is not copied
create_errorNoId(request_id, error) == [create_response(0, <<>>) EXCEPT !.error_code = error]
create_error(request_id, error) ==
  [create_response(request_id, <<>>) EXCEPT !.error_code = error]

serialize(m) ==
  <<[cell |-> "magic", type |-> m.type],
    [cell |-> "lengths", meta_len |-> MetaSize, payload_len |-> Len(m.payload)],
    IF m.type = "Request"
    THEN [cell |-> "request_meta", request_id |-> m.request_id,
          service |-> m.service, method |-> m.method]
    ELSE [cell |-> "response_meta", request_id |-> m.request_id, error_code |-> m.error_code]>>
  \o m.payload

\* ProtocolHeader::valid on the first bytes of data
valid(data) == data[1].cell = "magic"

\* the lengths a header announces; zeroed bytes announce none
meta_len(data) == IF data[2].cell = "lengths" THEN data[2].meta_len ELSE 0
payload_len(data) == IF data[2].cell = "lengths" THEN data[2].payload_len ELSE 0
total_size(data) == HeaderSize + meta_len(data) + payload_len(data)

\* the memcpy of the meta data: whatever lies at its place is taken for it
ReadMeta(cell, kind) ==
  IF cell.cell = kind THEN cell
  ELSE [cell |-> kind, service |-> NoName, method |-> NoName,
        request_id |-> IF cell = Zero THEN 0 ELSE GarbageId,
        error_code |-> IF cell = Zero THEN "OK" ELSE "Unknown"]

\* deserialize(data, size, msg) when it returns true.  The meta data is read
\* whatever meta_len says, and for Request and Response only.
Deserialized(data) ==
  LET type == data[1].type
      start == HeaderSize + (IF type \in {"Request", "Response"} THEN MetaSize ELSE 0)
      payload == SubSeq(data, start + 1, start + payload_len(data))
  IN CASE type = "Request" ->
            LET meta == ReadMeta(data[HeaderSize + 1], "request_meta")
            IN create_request(meta.request_id, meta.service, meta.method, payload)
       [] type = "Response" ->
            LET meta == ReadMeta(data[HeaderSize + 1], "response_meta")
            IN [create_response(meta.request_id, payload) EXCEPT !.error_code = meta.error_code]
       [] OTHER -> [create_response(0, payload) EXCEPT !.type = type]

CanDeserialize(data, size) ==
  /\ size >= HeaderSize
  /\ valid(data)
  /\ size >= total_size(data)

=============================================================================
