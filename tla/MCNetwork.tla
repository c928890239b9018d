----------------------------- MODULE MCNetwork ------------------------------
(***************************************************************************)
(* The server and the client on small instances: TLC explores one of them, *)
(* as `unit' says.  The server is explored with every closer but a single  *)
(* start(), and with several starts whose connections only handlers close. *)
(***************************************************************************)
EXTENDS TcpServer

CONSTANTS Tasks, max_reconnect_attempts, pool_size, MaxSockets, MaxCalls

VARIABLES unit,
          auto_reconnect, enable_connection_pool, connected_, connection_, pool_, conn_state,
          fd_open, freed, sockets, total_connections_, pc, obj, tries, blocked, calls,
          established, overlap, no_socket, uaf, null_use

tcp_client == <<auto_reconnect, enable_connection_pool, connected_, connection_, pool_, conn_state,
                fd_open, freed, sockets, total_connections_, pc, obj, tries, blocked, calls,
                established, overlap, no_socket, uaf, null_use>>
all == <<unit, vars, tcp_client>>

C == INSTANCE TcpClient WITH state_ <- conn_state

ASSUME ClientAssumption == C!TcpClientAssumption

MCInit ==
  /\ unit \in {"closers", "starts", "client"} /\ Init /\ C!Init
  /\ unit # "closers" => has_handler
  /\ unit # "client" => auto_reconnect /\ enable_connection_pool

OneStart == starts <= 1
HandlersClose == \A c \in Clients : "user" \notin closing[c]

ServerNext ==
  /\ unit # "client" /\ Next /\ UNCHANGED <<unit, tcp_client>>
  /\ unit = "closers" => OneStart'
  /\ unit = "starts" => HandlersClose'
ClientNext == unit = "client" /\ C!Next /\ UNCHANGED <<unit, vars>>
MCNext == ServerNext \/ ClientNext

\* the fairness of the modules, for the unit explored
MCSpec ==
  /\ MCInit /\ [][MCNext]_all
  /\ \A c \in Clients : WF_vars(unit # "client" /\ HandlerStep(c))

-----------------------------------------------------------------------------
(* The properties of the modules, each with the type invariant of its module. *)

\* TcpClient: calls that do not overlap use no destroyed Connection and no null pointer,
\* and connected() is right after them; an established connection is closed when dropped.
ClientSound == C!TypeOK /\ C!ClientSound

\* TcpClient: the pool blocks the event loop only while pool_size coroutines hold its connections.
BlockedByHolders == C!BlockedByHolders
=============================================================================
