----------------------------- MODULE TcpClient ------------------------------
(***************************************************************************)
(* net/tcp_client.hpp over the Connections of net/connection.hpp, in both  *)
(* modes: one connection with automatic reconnection, and connections      *)
(* taken from the pool.  The tasks are coroutines of one event loop that   *)
(* share a client; each await is a point where others run.  A Connection   *)
(* is named by the number of its socket.                                   *)
(***************************************************************************)
EXTENDS Integers, FiniteSets

CONSTANTS Tasks,
          max_reconnect_attempts, pool_size,    \* TcpClientConfig
          MaxSockets,                           \* bound: sockets, after which socket() fails
          MaxCalls                              \* bound: calls made on the client

TcpClientAssumption ==
  /\ IsFiniteSet(Tasks)
  /\ max_reconnect_attempts \in Nat /\ pool_size \in Nat /\ MaxSockets \in Nat /\ MaxCalls \in Nat

Sockets == 1..MaxSockets

VARIABLES auto_reconnect, enable_connection_pool,   \* TcpClientConfig
          connected_, connection_, pool_,           \* connection_: 0 for none
          state_, fd_open, freed,   \* per Connection: state, socket open, object destroyed
          sockets,                  \* sockets made so far
          total_connections_,       \* of the pool
          pc, obj, tries,           \* per task: its await, the Connection used, reconnect attempt
          blocked,                  \* the loop thread waits in ConnectionPool::acquire
          calls,
          established,              \* history: connections that were established
          overlap,                  \* history: a call was made while another was under way
          no_socket,                \* history: socket() has failed
          uaf, null_use             \* history: freed Connection, null pointer used

config == <<auto_reconnect, enable_connection_pool>>
conns == <<state_, fd_open, freed>>
tasks == <<pc, obj, tries>>
history == <<established, overlap, no_socket, uaf, null_use>>
vars == <<config, connected_, connection_, pool_, conns, sockets, total_connections_, tasks, blocked,
          calls, history>>

Init ==
  /\ auto_reconnect \in BOOLEAN /\ enable_connection_pool \in BOOLEAN
  /\ connected_ = FALSE /\ connection_ = 0 /\ pool_ = FALSE
  /\ state_ = [s \in Sockets |-> "Disconnected"]
  /\ fd_open = [s \in Sockets |-> FALSE] /\ freed = [s \in Sockets |-> FALSE]
  /\ sockets = 0 /\ total_connections_ = 0
  /\ pc = [t \in Tasks |-> "idle"] /\ obj = [t \in Tasks |-> 0] /\ tries = [t \in Tasks |-> 0]
  /\ blocked = FALSE /\ calls = 0
  /\ established = {} /\ overlap = FALSE /\ no_socket = FALSE /\ uaf = FALSE /\ null_use = FALSE

Idle == \A t \in Tasks : pc[t] = "idle"
LoopRuns == ~blocked /\ ~null_use

CallMade ==
  /\ LoopRuns /\ calls < MaxCalls
  /\ calls' = calls + 1
  /\ overlap' = (overlap \/ ~Idle)

(***************************************************************************)
(* Connection: close() acts in state Connected only; dropping the last     *)
(* reference runs the destructor, which calls close().                     *)
(***************************************************************************)
Close(s) ==
  IF s # 0 /\ state_[s] = "Connected"
  THEN state_' = [state_ EXCEPT ![s] = "Closed"] /\ fd_open' = [fd_open EXCEPT ![s] = FALSE]
  ELSE UNCHANGED <<state_, fd_open>>

Drop(s) ==
  /\ Close(s)
  /\ freed' = IF s = 0 THEN freed ELSE [freed EXCEPT ![s] = TRUE]

\* mutant: nobody keeps a reference to the new Connection
ReplaceUnowned(old, new, state) ==
  /\ sockets' = new
  /\ state_' = [state_ EXCEPT ![new] = state] /\ fd_open' = [fd_open EXCEPT ![new] = TRUE]
  /\ freed' = [freed EXCEPT ![new] = TRUE]
\* a new Connection on a new socket takes the place of the old one (0: of none)
Replace(old, new, state) ==
  /\ sockets' = new
  /\ state_' = [s \in Sockets |-> CASE s = new -> state
                                    [] s = old /\ state_[s] = "Connected" -> "Closed"
                                    [] OTHER -> state_[s]]
  /\ fd_open' = [s \in Sockets |-> s = new \/ (fd_open[s] /\ ~(s = old /\ state_[s] = "Connected"))]
  /\ freed' = [s \in Sockets |-> freed[s] \/ s = old]

Step(t, where, on, try) ==
  /\ pc' = [pc EXCEPT ![t] = where]
  /\ obj' = [obj EXCEPT ![t] = on]
  /\ tries' = [tries EXCEPT ![t] = try]

(***************************************************************************)
(* connect and try_reconnect.  tries is 0 in a connect() of the user.      *)
(***************************************************************************)
ConnectReturns(t, ok) ==
  IF ok \/ tries[t] \in {0, max_reconnect_attempts}
  THEN Step(t, "idle", 0, 0)
  ELSE Step(t, "sleep", 0, tries[t] + 1)

ConnectDirect(t) ==
  IF sockets < MaxSockets
  THEN /\ Replace(connection_, sockets + 1, "Connecting")
       /\ connection_' = sockets + 1
       /\ Step(t, "connect", sockets + 1, tries[t])
       /\ UNCHANGED no_socket
  ELSE /\ no_socket' = TRUE
       /\ ConnectReturns(t, FALSE)
       /\ UNCHANGED <<conns, sockets, connection_>>

connect(t) ==
  /\ pc[t] = "idle" /\ CallMade
  /\ IF enable_connection_pool
     THEN pool_' = TRUE /\ UNCHANGED <<conns, sockets, connection_, tasks, no_socket>>
     ELSE ConnectDirect(t) /\ UNCHANGED pool_
  /\ UNCHANGED <<config, connected_, total_connections_, blocked, established, uaf, null_use>>

ConnectCompletes(t) ==
  /\ LoopRuns /\ pc[t] = "connect"
  /\ \E ok \in BOOLEAN :
       /\ connected_' = ok
       /\ state_' = IF freed[obj[t]] THEN state_
                    ELSE [state_ EXCEPT ![obj[t]] = IF ok THEN "Connected" ELSE "Disconnected"]
       /\ established' = IF ok /\ ~freed[obj[t]] THEN established \cup {obj[t]} ELSE established
       /\ ConnectReturns(t, ok)
  /\ uaf' = (uaf \/ freed[obj[t]])
  /\ UNCHANGED <<config, connection_, pool_, fd_open, freed, sockets, total_connections_, blocked,
                 calls, overlap, no_socket, null_use>>

SleepEnds(t) ==
  /\ LoopRuns /\ pc[t] = "sleep"
  /\ ConnectDirect(t)
  /\ UNCHANGED <<config, connected_, pool_, total_connections_, blocked, calls, established, overlap,
                 uaf, null_use>>

\* an operation has returned n <= 0
OperationFails(t) ==
  IF auto_reconnect /\ max_reconnect_attempts > 0
  THEN Step(t, "sleep", 0, 1) ELSE Step(t, "idle", 0, 0)

(***************************************************************************)
(* send, recv, send_all, and request, which sends and then receives.  Each *)
(* tests the client first, and in pool mode takes a connection of its own. *)
(* A task is in send, recv, send_all, or in the send of a request.         *)
(***************************************************************************)
InOperation == {"send", "recv", "send_all", "request"}

Operate(t, where) ==
  CASE connection_ = 0 \/ ~connected_ -> Step(t, "idle", 0, 0)
    [] connection_ # 0 /\ connected_ /\ state_[connection_] # "Connected" -> OperationFails(t)
    [] OTHER -> Step(t, where, connection_, 0)

PoolFull == total_connections_ >= pool_size

\* pool_->acquire(): a new socket, which nobody connects, or the wait for one
OperatePooled(t, where) ==
  CASE PoolFull ->
         blocked' = TRUE /\ UNCHANGED <<conns, sockets, total_connections_, tasks, no_socket, null_use>>
    [] ~PoolFull /\ sockets < MaxSockets ->
         /\ Replace(0, sockets + 1, "Connected")
         /\ total_connections_' = total_connections_ + 1
         /\ Step(t, where, sockets + 1, 0)
         /\ UNCHANGED <<blocked, no_socket, null_use>>
    [] OTHER ->
         /\ no_socket' = TRUE /\ null_use' = TRUE
         /\ UNCHANGED <<conns, sockets, total_connections_, tasks, blocked>>

Call(t, where) ==
  /\ pc[t] = "idle" /\ CallMade
  /\ IF pool_
     THEN OperatePooled(t, where)
     ELSE /\ Operate(t, where)
          /\ UNCHANGED <<conns, sockets, total_connections_, blocked, no_socket, null_use>>
  /\ UNCHANGED <<config, connected_, connection_, pool_, established, uaf>>

send(t) == Call(t, "send")
recv(t) == Call(t, "recv")
send_all(t) == Call(t, "send_all")
request(t) == Call(t, "request")

\* an operation has succeeded; send_all has sent all it had to
Completes(t, where) ==
  /\ LoopRuns /\ pc[t] = where /\ ~enable_connection_pool
  /\ uaf' = (uaf \/ freed[obj[t]])
  /\ UNCHANGED <<config, connected_, connection_, pool_, conns, sockets, total_connections_, blocked,
                 calls, established, overlap, no_socket, null_use>>

\* the socket of a pooled connection is not connected: no operation on it succeeds
OperationCompletes(t) ==
  /\ \E where \in {"send", "recv", "send_all"} : Completes(t, where)
  /\ Step(t, "idle", 0, 0)

\* the send of a request
SendCompletes(t) == Completes(t, "request") /\ Operate(t, "recv")

\* async_write_all: part was sent, and the rest follows while the connection is open
PartSent(t) ==
  /\ Completes(t, "send_all")
  /\ IF freed[obj[t]] \/ state_[obj[t]] = "Connected" THEN UNCHANGED tasks ELSE OperationFails(t)

\* handle_error() closes the connection; then try_reconnect
OperationErrs(t) ==
  /\ LoopRuns /\ pc[t] \in InOperation /\ ~enable_connection_pool
  /\ uaf' = (uaf \/ freed[obj[t]])
  /\ IF freed[obj[t]] THEN UNCHANGED <<state_, fd_open>> ELSE Close(obj[t])
  /\ OperationFails(t)
  /\ UNCHANGED <<config, connected_, connection_, pool_, freed, sockets, total_connections_, blocked,
                 calls, established, overlap, no_socket, null_use>>

\* mutant: the pool is not told that the connection is gone
PooledErrsUncounted(t) ==
  /\ LoopRuns /\ pc[t] \in InOperation /\ enable_connection_pool
  /\ Drop(obj[t]) /\ Step(t, "idle", 0, 0)
  /\ UNCHANGED <<config, connected_, connection_, pool_, sockets, total_connections_, blocked, calls,
                 history>>
\* handle_error() and pool_->release(); disconnect() may have reset pool_
PooledErrs(t) ==
  /\ LoopRuns /\ pc[t] \in InOperation /\ enable_connection_pool
  /\ Drop(obj[t]) /\ Step(t, "idle", 0, 0)
  /\ IF pool_ THEN total_connections_' = total_connections_ - 1 /\ UNCHANGED null_use
              ELSE null_use' = TRUE /\ UNCHANGED total_connections_
  /\ UNCHANGED <<config, connected_, connection_, pool_, sockets, blocked, calls, established, overlap,
                 no_socket, uaf>>

disconnect ==
  /\ CallMade
  /\ connected_' = FALSE /\ connection_' = 0 /\ pool_' = FALSE
  /\ Drop(connection_)
  /\ UNCHANGED <<config, sockets, total_connections_, tasks, blocked, established, no_socket, uaf,
                 null_use>>

Next ==
  \/ disconnect
  \/ \E t \in Tasks :
       \/ connect(t) \/ ConnectCompletes(t) \/ SleepEnds(t)
       \/ send(t) \/ recv(t) \/ send_all(t) \/ request(t)
       \/ OperationCompletes(t) \/ SendCompletes(t) \/ PartSent(t) \/ OperationErrs(t) \/ PooledErrs(t)

Spec == Init /\ [][Next]_vars

-----------------------------------------------------------------------------
\* Every variable has its type, and no task works on a Connection without number.
TypeOK ==
  /\ connected_ \in BOOLEAN /\ connection_ \in 0..sockets /\ pool_ \in BOOLEAN
  /\ state_ \in [Sockets -> {"Disconnected", "Connecting", "Connected", "Closed"}]
  /\ fd_open \in [Sockets -> BOOLEAN] /\ freed \in [Sockets -> BOOLEAN]
  /\ sockets \in 0..MaxSockets /\ total_connections_ \in 0..pool_size
  /\ pc \in [Tasks -> {"idle", "connect", "sleep"} \cup InOperation]
  /\ \A t \in Tasks : obj[t] \in IF pc[t] \in {"idle", "sleep"} THEN {0} ELSE 1..sockets
  /\ tries \in [Tasks -> 0..max_reconnect_attempts]

\* If the calls on a client never overlap, no coroutine comes back to a Connection
\* that was destroyed meanwhile, nor to a pool_ that was reset; only running out of
\* sockets makes send() use a null connection.  Then too, with reconnection,
\* connected() is right whenever no call is under way.  In any case a connection that
\* was once established is closed when it is dropped: what reconnection and
\* disconnect() leave open are sockets whose connect failed or was under way.
ClientSound ==
  /\ ~overlap =>
       /\ ~uaf
       /\ ~no_socket => ~null_use
       /\ (Idle /\ ~no_socket /\ auto_reconnect /\ max_reconnect_attempts > 0 /\ ~enable_connection_pool)
          => (connected_ <=> connection_ # 0 /\ state_[connection_] = "Connected")
  /\ \A s \in Sockets : freed[s] /\ s \in established => ~fd_open[s]

\* The pool blocks the event loop only while pool_size of its coroutines, which
\* the blocked loop alone could resume, hold a connection each.
BlockedByHolders == blocked => Cardinality({t \in Tasks : pc[t] \in InOperation}) >= pool_size

=============================================================================
