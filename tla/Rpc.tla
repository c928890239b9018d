-------------------------------- MODULE Rpc ---------------------------------
(***************************************************************************)
(* rpc/rpc_server.hpp, rpc/rpc_client.hpp and rpc/service_registry.hpp:    *)
(* one client and one server coroutine joined by a TCP connection, and the *)
(* registry that other threads change meanwhile.  The two directions of    *)
(* the connection are streams of cells (see Protocol).  A read or a write  *)
(* may move fewer cells than it was asked to: at most MaxTorn times.       *)
(***************************************************************************)
EXTENDS Protocol, FiniteSets

CONSTANTS Services, Methods,
          MaxSend,            \* bound: messages the client sends
          MaxChange,          \* bound: changes of the registry
          MaxTorn,            \* bound: short reads and writes
          PayloadSizes,       \* sizes of a call's argument, in cells
          InitialSize,        \* of a receive buffer, in cells (4096 bytes in the code)
          max_request_size    \* RpcServerConfig, in cells

\* a fresh buffer has room for a header and the meta data
ASSUME RpcAssumption ==
  PayloadSizes \subseteq Nat /\ InitialSize \in Nat /\ InitialSize >= HeaderSize + MetaSize

VARIABLES services_,          \* ServiceRegistry: registered name -> its methods
          changes,            \* registry changes so far (bounded)
          c2s, s2c,           \* cells on their way to the server, to the client
          open,               \* FALSE once either side has closed
          spc, buffer,        \* handle_connection: where it stands, its buffer
          msg, response,      \* the request being handled, the reply to write
          total_requests_, total_errors_,
          cpc, response_buffer, call,   \* RpcClient::call: the same for it
          request_id_,
          torn,               \* history: short transfers so far
          strays,             \* history: messages sent whose reply nobody reads
          asked, replied,     \* history: requests sent, replies written, in order
          results             \* history: what each finished call returned

registry == <<services_, changes>>
server == <<spc, buffer, msg, response, total_requests_, total_errors_>>
client == <<cpc, response_buffer, call, request_id_>>
history == <<torn, strays, asked, replied, results>>
vars == <<registry, c2s, s2c, open, server, client, history>>

Fresh == [i \in 1..InitialSize |-> Zero]
NoMessage == create_response(GarbageId, <<>>)

Init ==
  /\ services_ = <<>> /\ changes = 0
  /\ c2s = <<>> /\ s2c = <<>> /\ open = TRUE
  /\ spc = "header" /\ buffer = Fresh /\ msg = NoMessage /\ response = <<>>
  /\ total_requests_ = 0 /\ total_errors_ = 0
  /\ cpc = "idle" /\ response_buffer = Fresh /\ call = NoMessage /\ request_id_ = 0
  /\ torn = 0 /\ strays = 0 /\ asked = <<>> /\ replied = <<>> /\ results = {}

(***************************************************************************)
(* What co_await conn->async_read / async_write can bring about: n cells   *)
(* of the size that was asked for, n < size being a short transfer.        *)
(***************************************************************************)
Moves(size, available) ==
  {n \in 1..(IF size < available THEN size ELSE available) : n = size \/ torn < MaxTorn}
CountTorn(n, size) == torn' = IF n < size THEN torn + 1 ELSE torn
Store(buf, offset, cells) ==
  [i \in DOMAIN buf |-> IF i \in offset + 1..offset + Len(cells) THEN cells[i - offset] ELSE buf[i]]
\* buffer.resize(size), if it is smaller
Resized(buf, size) ==
  [i \in 1..(IF size > Len(buf) THEN size ELSE Len(buf)) |-> IF i <= Len(buf) THEN buf[i] ELSE Zero]
Rest(stream, n) == SubSeq(stream, n + 1, Len(stream))
Remaining(buf) == total_size(buf) - HeaderSize
AtEnd(stream) == stream = <<>> /\ ~open

(***************************************************************************)
(* ServiceRegistry, each operation under its exclusive lock.               *)
(***************************************************************************)
register_service(s) ==
  services_' = [t \in DOMAIN services_ \cup {s} |-> IF t = s THEN {} ELSE services_[t]]
register_method(s, m) ==
  services_' = [t \in DOMAIN services_ \cup {s} |->
                  (IF t \in DOMAIN services_ THEN services_[t] ELSE {})
                    \cup (IF t = s THEN {m} ELSE {})]
unregister_service(s) ==
  services_' = [t \in DOMAIN services_ \ {s} |-> services_[t]]
find_method(s, m) == s \in DOMAIN services_ /\ m \in services_[s]

ChangeRegistry ==
  /\ changes < MaxChange
  /\ changes' = changes + 1
  /\ \E s \in Services : \/ register_service(s)
                         \/ \E m \in Methods : register_method(s, m)
                         \/ unregister_service(s)
  /\ UNCHANGED <<c2s, s2c, open, server, client, history>>

(***************************************************************************)
(* RpcServer::handle_connection.                                           *)
(***************************************************************************)
\* mutant: nobody closes the connection when the coroutine ends
EndConnectionLeaveOpen == spc' = "ended" /\ UNCHANGED open
\* the coroutine leaves its loop; TcpServer then closes the connection
EndConnection == spc' = "ended" /\ open' = FALSE

\* the header read, its checks, room for the rest, and the decision to read on
AcceptHeader(buf) ==
  IF ~valid(buf) \/ total_size(buf) > max_request_size
  THEN EndConnection /\ total_errors_' = total_errors_ + 1 /\ buffer' = buf
  ELSE /\ spc' = IF total_size(buf) > HeaderSize THEN "body" ELSE "message"
       /\ buffer' = Resized(buf, total_size(buf))
       /\ UNCHANGED <<total_errors_, open>>

ReadHeader ==
  /\ spc = "header"
  /\ \/ /\ AtEnd(c2s)
        /\ EndConnection
        /\ UNCHANGED <<c2s, buffer, total_errors_, torn>>
     \/ \E n \in Moves(HeaderSize, Len(c2s)) :
          /\ c2s' = Rest(c2s, n)
          /\ CountTorn(n, HeaderSize)
          /\ AcceptHeader(Store(buffer, 0, SubSeq(c2s, 1, n)))
  /\ UNCHANGED <<registry, s2c, msg, response, total_requests_, client, strays,
                 asked, replied, results>>

ReadBody ==
  /\ spc = "body"
  /\ LET remaining == Remaining(buffer)
     IN \/ /\ AtEnd(c2s)
           /\ EndConnection
           /\ UNCHANGED <<c2s, buffer, torn>>
        \/ \E n \in Moves(remaining, Len(c2s)) :
             /\ buffer' = Store(buffer, HeaderSize, SubSeq(c2s, 1, n))
             /\ c2s' = Rest(c2s, n)
             /\ CountTorn(n, remaining)
             /\ spc' = "message"
             /\ UNCHANGED open
  /\ UNCHANGED <<registry, s2c, msg, response, total_requests_, total_errors_, client,
                 strays, asked, replied, results>>

\* handle_message up to the call of the handler found
HandleMessage ==
  /\ spc = "message"
  /\ IF CanDeserialize(buffer, total_size(buffer))
     THEN LET m == Deserialized(buffer) IN
          /\ msg' = m
          /\ total_requests_' = total_requests_ + 1
          /\ UNCHANGED total_errors_
          /\ CASE m.type = "Request" /\ find_method(m.service, m.method) ->
                    spc' = "invoke" /\ response' = <<>>
               [] m.type = "Request" /\ ~find_method(m.service, m.method) ->
                    spc' = "reply" /\ response' = serialize(create_error(m.request_id, "ServiceNotFound"))
               [] m.type = "Heartbeat" ->
                    spc' = "reply" /\ response' = serialize(create_response(m.request_id, <<>>))
               [] OTHER -> spc' = "header" /\ response' = <<>>
     ELSE /\ total_errors_' = total_errors_ + 1
          /\ spc' = "header" /\ response' = <<>>
          /\ UNCHANGED <<msg, total_requests_>>
  /\ UNCHANGED <<registry, c2s, s2c, open, buffer, client, history>>

\* the handler ends: it returns (here: its argument) or throws
Invoke ==
  /\ spc = "invoke"
  /\ \/ /\ response' = serialize(create_response(msg.request_id, msg.payload))
        /\ UNCHANGED total_errors_
     \/ /\ response' = serialize(create_error(msg.request_id, "Unknown"))
        /\ total_errors_' = total_errors_ + 1
  /\ spc' = "reply"
  /\ UNCHANGED <<registry, c2s, s2c, open, buffer, msg, total_requests_, client, history>>

\* conn->async_write(response): one call, n > 0 is taken for success
WriteReply ==
  /\ spc = "reply"
  /\ IF open
     THEN \E n \in Moves(Len(response), Len(response)) :
            /\ s2c' = s2c \o SubSeq(response, 1, n)
            /\ CountTorn(n, Len(response))
            /\ spc' = "header"
            /\ replied' = Append(replied, Deserialized(response))
            /\ UNCHANGED open
     ELSE EndConnection /\ UNCHANGED <<s2c, torn, replied>>
  /\ UNCHANGED <<registry, c2s, buffer, msg, response, total_requests_, total_errors_, client,
                 strays, asked, results>>

(***************************************************************************)
(* RpcClient.  next_request_id numbers the messages from 0; a request's    *)
(* payload is tagged with its id.                                          *)
(***************************************************************************)
Return(code, payload, rid) ==
  /\ cpc' = "idle"
  /\ results' = results \cup {[id |-> call.request_id, code |-> code, payload |-> payload, rid |-> rid]}

Send(m) ==
  /\ request_id_ < MaxSend
  /\ request_id_' = request_id_ + 1
  /\ open
  /\ \E n \in Moves(Len(serialize(m)), Len(serialize(m))) :
       /\ c2s' = c2s \o SubSeq(serialize(m), 1, n)
       /\ CountTorn(n, Len(serialize(m)))
  /\ asked' = Append(asked, m)

\* a send that fails: ConnectionError from call, false from async_call
SendFails ==
  /\ cpc = "idle" /\ ~open
  /\ request_id_ < MaxSend
  /\ request_id_' = request_id_ + 1
  /\ UNCHANGED <<registry, c2s, s2c, open, server, cpc, response_buffer, call, history>>

NewRequest(s, m, k) == create_request(request_id_, s, m, [i \in 1..k |-> Data(request_id_)])

\* call: send the request, then wait for a header in a fresh buffer
Call(s, m, k) ==
  /\ cpc = "idle"
  /\ Send(NewRequest(s, m, k))
  /\ call' = NewRequest(s, m, k) /\ cpc' = "header" /\ response_buffer' = Fresh
  /\ UNCHANGED <<registry, s2c, open, server, strays, replied, results>>

\* async_call: send the request and never read its reply
async_call(s, m) ==
  /\ cpc = "idle"
  /\ Send(NewRequest(s, m, 1))
  /\ strays' = strays + 1
  /\ UNCHANGED <<registry, s2c, open, server, cpc, response_buffer, call, replied, results>>

\* a heartbeat of the wire protocol
Heartbeat ==
  /\ cpc = "idle"
  /\ Send([create_response(request_id_, <<>>) EXCEPT !.type = "Heartbeat"])
  /\ strays' = strays + 1
  /\ UNCHANGED <<registry, s2c, open, server, cpc, response_buffer, call, replied, results>>

RecvHeader ==
  /\ cpc = "header"
  /\ \/ /\ AtEnd(s2c)
        /\ Return("ConnectionError", <<>>, GarbageId)
        /\ UNCHANGED <<s2c, response_buffer, torn>>
     \/ \E n \in Moves(HeaderSize, Len(s2c)) :
          /\ s2c' = Rest(s2c, n)
          /\ CountTorn(n, HeaderSize)
          /\ LET buf == Store(response_buffer, 0, SubSeq(s2c, 1, n))
             IN IF valid(buf)
                THEN /\ cpc' = IF total_size(buf) > HeaderSize THEN "body" ELSE "message"
                     /\ response_buffer' = Resized(buf, total_size(buf))
                     /\ UNCHANGED results
                ELSE /\ Return("InvalidRequest", <<>>, GarbageId)
                     /\ response_buffer' = buf
  /\ UNCHANGED <<registry, c2s, open, server, call, request_id_, strays, asked, replied>>

\* mutant: the payload is left in the stream
ReplyRemainingMeta(buf) == meta_len(buf)
ReplyRemaining(buf) == Remaining(buf)

RecvBody ==
  /\ cpc = "body"
  /\ LET remaining == ReplyRemaining(response_buffer)
     IN \/ /\ AtEnd(s2c)
           /\ Return("ConnectionError", <<>>, GarbageId)
           /\ UNCHANGED <<s2c, response_buffer, torn>>
        \/ \E n \in Moves(remaining, Len(s2c)) :
             /\ response_buffer' = Store(response_buffer, HeaderSize, SubSeq(s2c, 1, n))
             /\ s2c' = Rest(s2c, n)
             /\ CountTorn(n, remaining)
             /\ cpc' = "message"
             /\ UNCHANGED results
  /\ UNCHANGED <<registry, c2s, open, server, call, request_id_, strays, asked, replied>>

\* the reply is decoded; its request_id is not looked at
FinishCall ==
  /\ cpc = "message"
  /\ IF ~CanDeserialize(response_buffer, total_size(response_buffer))
     THEN Return("SerializationError", <<>>, GarbageId)
     ELSE LET r == Deserialized(response_buffer) IN
          CASE r.error_code # "OK" -> Return(r.error_code, <<>>, r.request_id)
            [] r.error_code = "OK" /\ r.payload = <<>> ->
                 Return("SerializationError", <<>>, r.request_id)
            [] OTHER -> Return("OK", r.payload, r.request_id)
  /\ UNCHANGED <<registry, c2s, s2c, open, server, response_buffer, call, request_id_, torn,
                 strays, asked, replied>>

disconnect ==
  /\ cpc = "idle" /\ open
  /\ open' = FALSE
  /\ UNCHANGED <<registry, c2s, s2c, server, client, history>>

Serve == ReadHeader \/ ReadBody \/ HandleMessage \/ Invoke \/ WriteReply
Receive == RecvHeader \/ RecvBody \/ FinishCall

Next ==
  \/ ChangeRegistry
  \/ Serve
  \/ \E s \in Services, m \in Methods : \/ async_call(s, m)
                                        \/ \E k \in PayloadSizes : Call(s, m, k)
  \/ Heartbeat \/ SendFails \/ disconnect
  \/ Receive

\* the event loop keeps resuming both coroutines
Spec == Init /\ [][Next]_vars /\ WF_vars(Serve) /\ WF_vars(Receive)

-----------------------------------------------------------------------------
Codes == {"OK", "ServiceNotFound", "Unknown", "InvalidRequest", "SerializationError",
          "ConnectionError"}

Answers(reply, request) ==
  /\ request.type = "Request" => reply.request_id = request.request_id
  /\ reply.error_code = "OK" /\ request.type = "Request" => reply.payload = request.payload

\* As long as every read and write moved all it was asked for, the server's
\* k-th reply answers the k-th message of the connection, with its id and the
\* value its handler computed: whatever the registry does meanwhile, whether
\* the handler throws, and whether anyone reads the replies.
RepliesInOrder ==
  torn = 0 =>
    /\ Len(replied) <= Len(asked)
    /\ \A k \in DOMAIN replied : Answers(replied[k], asked[k])

\* A call returns the reply to its own request, as long as no transfer was
\* short and no async_call or heartbeat was sent before on this connection:
\* call does not compare the reply's request_id, it relies on the order.
OwnReply ==
  torn = 0 /\ strays = 0 =>
    \A r \in results : /\ r.rid # GarbageId => r.rid = r.id
                       /\ r.code = "OK" => r.payload[1] = Data(r.id)

\* A call comes back: with a reply, or with an error when the connection is
\* closed.  (After a short transfer both sides may wait for cells for ever.)
CallReturns == (cpc # "idle") ~> (cpc = "idle" \/ torn > 0)
=============================================================================
