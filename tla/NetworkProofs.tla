--------------------------- MODULE NetworkProofs ----------------------------
(***************************************************************************)
(* The TCP server for any number of clients, starts and any limit: the     *)
(* count of connections is exact, the limit holds, and after stop() each   *)
(* accept loop lets in at most one more connection.  The TCP client for    *)
(* any number of coroutines, sockets and reconnect attempts: calls that do *)
(* not overlap are sound, established connections are closed, and the      *)
(* pool blocks the loop only while its connections are all held.           *)
(***************************************************************************)
EXTENDS MCNetwork, TLAPS

\* the connections that count: open ones, and closed ones whose callback is still to come
OpenSet == {c \in Clients : Open(c) \/ calling[c] # {}}
Admitted == {c \in Clients : client[c] \in {"posted", "handling", "done"}}
Started == {l \in Loops : loop[l] # "none"}
Pending == {l \in Loops : loop[l] \in {"submit", "accept"}}

\* The types, without the counters.
TInv ==
  /\ running_ \in BOOLEAN /\ has_handler \in BOOLEAN
  /\ starting \subseteq Loops /\ leaked \subseteq Loops /\ stopping \in Nat
  /\ listen_fd_ \in 0..MaxStarts /\ starts \in 0..MaxStarts
  /\ loop \in [Loops -> {"none", "posted", "test", "submit", "accept", "ended"}]
  /\ accept_fd \in [Loops -> 0..MaxStarts] /\ queued_on \in [Clients -> 0..MaxStarts]
  /\ client \in [Clients -> {"new", "queued", "refused", "posted", "handling", "done"}]
  /\ state_ \in [Clients -> {"Disconnected", "Connected", "Closing", "Closed"}]
  /\ callback \in [Clients -> BOOLEAN] /\ closing \in [Clients -> SUBSET Closers]
  /\ calling \in [Clients -> SUBSET Closers] /\ peer_closed \subseteq Clients

\* One caller at a time is inside close(), and only once the callback is set.
ConnOK(c) ==
  /\ client[c] \in {"new", "queued", "refused"} => state_[c] = "Disconnected"
  /\ client[c] = "posted" => state_[c] = "Connected"
  /\ client[c] \in {"posted", "handling"} => has_handler
  /\ client[c] = "done" /\ ~has_handler => state_[c] = "Closed"
  /\ client[c] \in {"handling", "done"} /\ has_handler => callback[c]
  /\ state_[c] = "Closing" <=> closing[c] # {}
  /\ calling[c] # {} => state_[c] = "Closed" /\ has_handler /\ callback[c]
  /\ \A v, w \in closing[c] \cup calling[c] : v = w
ConnInv == \A c \in Clients : ConnOK(c)

LEMMA TInvInit == Init => TInv /\ ConnInv
<1>1. 0 \in 0..MaxStarts
  BY TcpServerAssumption
<1>2. Init => TInv
  <2> SUFFICES ASSUME Init PROVE TInv
    BY Zenon
  <2>1. /\ running_ \in BOOLEAN /\ has_handler \in BOOLEAN /\ callback \in [Clients -> BOOLEAN]
        /\ peer_closed \subseteq Clients
    BY Zenon DEF Init
  <2>2. /\ closing \in [Clients -> SUBSET Closers] /\ calling \in [Clients -> SUBSET Closers]
        /\ starting \subseteq Loops /\ leaked \subseteq Loops
    BY Zenon DEF Init
  <2>3. /\ listen_fd_ \in 0..MaxStarts /\ starts \in 0..MaxStarts
        /\ accept_fd \in [Loops -> 0..MaxStarts] /\ queued_on \in [Clients -> 0..MaxStarts]
    BY <1>1, Zenon DEF Init
  <2>4. /\ loop \in [Loops -> {"none", "posted", "test", "submit", "accept", "ended"}]
        /\ client \in [Clients -> {"new", "queued", "refused", "posted", "handling", "done"}]
        /\ state_ \in [Clients -> {"Disconnected", "Connected", "Closing", "Closed"}]
    BY Zenon DEF Init
  <2>5. stopping \in Nat
    BY DEF Init
  <2> QED
    BY <2>1, <2>2, <2>3, <2>4, <2>5, Zenon DEF TInv
<1>3. Init => ConnInv
  BY Zenon DEF Init, ConnInv, ConnOK
<1> QED
  BY <1>2, <1>3, Zenon

\* Steps of the server that touch no connection.
LEMMA ConnKept ==
  ASSUME ConnInv, UNCHANGED <<has_handler, client, state_, callback, closing, calling>>
  PROVE  ConnInv'
BY Zenon DEF ConnInv, ConnOK

LEMMA ServerStep ==
  ASSUME TInv, ConnInv, start \/ stop \/ StopCloses \/ UNCHANGED vars
  PROVE  TInv' /\ ConnInv'
<1>0. 0 \in 0..MaxStarts /\ \A g \in Loops : g \in 0..MaxStarts
  BY TcpServerAssumption DEF Loops
<1>1. CASE start
  <2>1. starts + 1 \in Loops /\ {listen_fd_} \ {0} \subseteq Loops
    BY <1>1, TcpServerAssumption DEF start, TInv, Loops
  <2>2. ConnInv'
    BY <1>1, Zenon DEF start, conns, ConnInv, ConnOK
  <2>3. starting' \subseteq Loops /\ leaked' \subseteq Loops /\ starts' \in 0..MaxStarts
        /\ listen_fd_' \in 0..MaxStarts
    BY <1>0, <1>1, <2>1, Zenon DEF start, TInv
  <2>4. UNCHANGED <<running_, stopping, has_handler, loop, accept_fd, client, queued_on, state_, callback,
                    closing, calling, peer_closed>>
    BY <1>1, Zenon DEF start, conns
  <2> QED
    BY <2>2, <2>3, <2>4, Zenon DEF TInv
<1>2. CASE stop
  <2>1. stopping' \in Nat
    BY <1>2 DEF stop, TInv
  <2> QED
    BY <1>2, <2>1, ConnKept, Zenon DEF stop, conns, TInv
<1>3. CASE StopCloses
  <2>1. stopping' \in Nat
    BY <1>3 DEF StopCloses, TInv
  <2> QED
    BY <1>0, <1>3, <2>1, ConnKept, Zenon DEF StopCloses, conns, TInv
<1>4. CASE UNCHANGED vars
  BY <1>4, ConnKept, Zenon DEF vars, TInv
<1> QED
  BY <1>1, <1>2, <1>3, <1>4, Zenon

LEMMA StartEnds ==
  ASSUME TInv, ConnInv, NEW g \in Loops, StartFails(g) \/ StartRuns(g)
  PROVE  TInv' /\ ConnInv'
<1>0. 0 \in 0..MaxStarts
  BY TcpServerAssumption
<1>1. CASE StartFails(g)
  BY <1>0, <1>1, ConnKept, Zenon DEF StartFails, conns, TInv
<1>2. CASE StartRuns(g)
  BY <1>2, ConnKept, Zenon DEF StartRuns, conns, TInv
<1> QED
  BY <1>1, <1>2, Zenon

LEMMA LoopMoves ==
  ASSUME TInv, ConnInv, NEW l \in Loops, TestRunning(l) \/ SubmitAccept(l) \/ AcceptFails(l)
  PROVE  TInv' /\ ConnInv'
BY DEF TestRunning, SubmitAccept, AcceptFails, Goto, server, counters, conns, TInv, ConnInv, ConnOK

LEMMA ClientMoves ==
  ASSUME TInv, ConnInv, NEW c \in Clients, ClientConnects(c) \/ ClientCloses(c)
  PROVE  TInv' /\ ConnInv'
<1>1. Loops \subseteq 0..MaxStarts
  BY TcpServerAssumption DEF Loops
<1>2. CASE ClientConnects(c)
  BY <1>1, <1>2 DEF ClientConnects, server, counters, conns, TInv, ConnInv, ConnOK
<1>3. CASE ClientCloses(c)
  BY <1>3, ConnKept, Zenon DEF ClientCloses, server, conns, TInv
<1> QED
  BY <1>2, <1>3, Zenon

LEMMA Accepts ==
  ASSUME TInv, ConnInv, NEW l \in Loops, NEW c \in Clients, Accepted(l, c)
  PROVE  TInv' /\ ConnInv'
<1>1. CASE Refuse(l, c)
  BY <1>1 DEF Accepted, Refuse, Goto, server, counters, conns, TInv, ConnInv, ConnOK
<1>2. CASE Admit(l, c)
  BY <1>2 DEF Accepted, Admit, Goto, server, TInv, ConnInv, ConnOK
<1> QED
  BY <1>1, <1>2, Zenon DEF Accepted

LEMMA HandlerMoves ==
  ASSUME TInv, ConnInv, NEW c \in Clients,
         HandlerBegins(c) \/ HandlerIoFails(c) \/ HandlerEnds(c) \/ UserCloses(c)
  PROVE  TInv' /\ ConnInv'
<1>1. CASE HandlerBegins(c)
  BY <1>1 DEF HandlerBegins, server, counters, TInv, ConnInv, ConnOK
<1>2. CASE HandlerIoFails(c)
  BY <1>2 DEF HandlerIoFails, CloseCas, server, counters, TInv, ConnInv, ConnOK, Closers
<1>3. CASE HandlerEnds(c)
  BY <1>3 DEF HandlerEnds, CloseCas, server, counters, TInv, ConnInv, ConnOK, Closers
<1>4. CASE UserCloses(c)
  BY <1>4 DEF UserCloses, CloseCas, server, counters, TInv, ConnInv, ConnOK, Closers
<1> QED
  BY <1>1, <1>2, <1>3, <1>4, Zenon

LEMMA CloseEnds ==
  ASSUME TInv, ConnInv, NEW c \in Clients, NEW who \in Closers,
         CloseFinish(c, who) \/ CloseCallback(c, who)
  PROVE  TInv' /\ ConnInv'
<1>1. CASE CloseFinish(c, who)
  BY <1>1 DEF CloseFinish, server, counters, TInv, ConnInv, ConnOK
<1>2. CASE CloseCallback(c, who)
  BY <1>2 DEF CloseCallback, server, TInv, ConnInv, ConnOK
<1> QED
  BY <1>1, <1>2, Zenon

LEMMA TInvNext ==
  ASSUME TInv, ConnInv, [Next]_vars
  PROVE  TInv' /\ ConnInv'
BY ServerStep, StartEnds, LoopMoves, ClientMoves, Accepts, HandlerMoves, CloseEnds, Zenon DEF Next, LoopStep, HandlerStep

-----------------------------------------------------------------------------
(***************************************************************************)
(* The client.  Neither property is inductive.  What connected() says of a *)
(* connection at rest depends on which Connection a call under way uses;   *)
(* that an established one is closed when dropped depends on the states in *)
(* which close() acts; and the wait of the pool depends on its count.      *)
(***************************************************************************)
Where == {"idle", "connect", "sleep"} \cup C!InOperation
ConnStates == {"Disconnected", "Connecting", "Connected", "Closed"}

\* A task has a Connection while it awaits an operation of it.
TaskOK(t) == obj[t] \in IF pc[t] \in {"idle", "sleep"} THEN {0} ELSE 1..sockets

ClientTypes ==
  /\ connection_ \in 0..sockets
  /\ conn_state \in [C!Sockets -> ConnStates]
  /\ fd_open \in [C!Sockets -> BOOLEAN] /\ freed \in [C!Sockets -> BOOLEAN]
  /\ sockets \in 0..MaxSockets
  /\ pc \in [Tasks -> Where] /\ obj \in [Tasks -> 0..MaxSockets]
  /\ tries \in [Tasks -> 0..max_reconnect_attempts]
  /\ \A t \in Tasks : TaskOK(t)

Flags ==
  /\ connected_ \in BOOLEAN /\ pool_ \in BOOLEAN
  /\ auto_reconnect \in BOOLEAN /\ enable_connection_pool \in BOOLEAN
  /\ blocked \in BOOLEAN /\ overlap \in BOOLEAN
  /\ no_socket \in BOOLEAN /\ uaf \in BOOLEAN /\ null_use \in BOOLEAN

\* The two modes do not mix, and the pool counts the connections the tasks hold.
Senders == {t \in Tasks : pc[t] \in C!InOperation}
PoolInv ==
  /\ enable_connection_pool =>
       connection_ = 0 /\ ~connected_ /\ \A t \in Tasks : pc[t] \in {"idle"} \cup C!InOperation
  /\ ~enable_connection_pool => ~pool_ /\ total_connections_ = 0 /\ ~blocked /\ ~null_use
  /\ total_connections_ \in 0..pool_size
  /\ enable_connection_pool /\ ~null_use => total_connections_ = Cardinality(Senders)
  /\ C!BlockedByHolders

\* A dropped Connection is not connected, and close() has been called on an established one
\* that is not; a Connection has one connect under way, which finds it not yet established.
SocketOK(s) ==
  /\ s > sockets => ~freed[s]
  /\ freed[s] => conn_state[s] # "Connected"
  /\ s \in established /\ fd_open[s] => conn_state[s] = "Connected"
Connecting(t) ==
  pc[t] = "connect" =>
    /\ obj[t] \notin established
    /\ conn_state[obj[t]] = "Connecting"
    /\ \A u \in Tasks : pc[u] = "connect" /\ obj[u] = obj[t] => u = t
SocketInv ==
  /\ established \subseteq 1..sockets
  /\ \A s \in C!Sockets : SocketOK(s)
  /\ \A t \in Tasks : Connecting(t)

\* Of calls that do not overlap the only one under way uses the client's own connection, or
\* one of the pool, and neither has been dropped.
UsesOwn(t) ==
  /\ ~enable_connection_pool =>
       /\ pc[t] \in {"connect"} \cup C!InOperation => obj[t] = connection_
       /\ pc[t] \in C!InOperation => connected_ /\ conn_state[connection_] = "Connected"
  /\ enable_connection_pool /\ pc[t] \in C!InOperation => pool_ /\ ~freed[obj[t]]
SaysConnected == connected_ <=> connection_ # 0 /\ conn_state[connection_] = "Connected"
Reconnects == auto_reconnect /\ max_reconnect_attempts > 0 /\ ~enable_connection_pool
SerialCalls ==
  /\ ~uaf
  /\ ~no_socket => ~null_use
  /\ connection_ # 0 => ~freed[connection_]
  /\ \A t, u \in Tasks : pc[t] # "idle" /\ pc[u] # "idle" => t = u
  /\ \A t \in Tasks : UsesOwn(t)
  /\ C!Idle /\ ~no_socket /\ Reconnects => SaysConnected

ClientInv == ClientTypes /\ Flags /\ PoolInv /\ SocketInv /\ (~overlap => SerialCalls)

LEMMA ClientSizes ==
  /\ IsFiniteSet(Tasks) /\ max_reconnect_attempts \in Nat /\ pool_size \in Nat
  /\ MaxSockets \in Nat /\ MaxCalls \in Nat
BY ClientAssumption, Zenon DEF C!TcpClientAssumption, IsFiniteSet, C!IsFiniteSet

LEMMA SameCardinality == \A S : C!Cardinality(S) = Cardinality(S)
BY Zenon DEF C!Cardinality, Cardinality

-----------------------------------------------------------------------------
(* What the parts of an action do. *)

\* A task moves; the others stay where they are.
LEMMA TaskMoves ==
  ASSUME ClientTypes, NEW t \in Tasks, NEW w \in Where, NEW o \in 0..MaxSockets,
         NEW n \in 0..max_reconnect_attempts, C!Step(t, w, o, n)
  PROVE  /\ pc' \in [Tasks -> Where] /\ obj' \in [Tasks -> 0..MaxSockets]
         /\ tries' \in [Tasks -> 0..max_reconnect_attempts]
         /\ pc'[t] = w /\ obj'[t] = o
         /\ \A u \in Tasks : u # t => pc'[u] = pc[u] /\ obj'[u] = obj[u]
BY Zenon DEF ClientTypes, C!Step

\* While calls do not overlap, the task that acts is the only one under way.
Alone(t) == ~overlap' => SerialCalls /\ \A u \in Tasks : u # t => pc[u] = "idle"

LEMMA CallAlone ==
  ASSUME ClientInv, NEW t \in Tasks, pc[t] = "idle", C!CallMade
  PROVE  Alone(t) /\ overlap' \in BOOLEAN
BY Zenon DEF ClientInv, Flags, C!CallMade, Alone, C!Idle

LEMMA OtherAlone ==
  ASSUME ClientInv, NEW t \in Tasks, pc[t] # "idle", overlap' = overlap
  PROVE  Alone(t) /\ overlap' \in BOOLEAN
BY Zenon DEF ClientInv, Flags, Alone, SerialCalls

\* The numbers of the Connections, and a new one.
LEMMA Numbers ==
  ASSUME ClientTypes
  PROVE  /\ sockets \in Nat /\ 0 \in 0..MaxSockets /\ 0 \in 0..sockets
         /\ 0 \in 0..max_reconnect_attempts
         /\ \A s \in C!Sockets : s \in Nat /\ s # 0
         /\ \A c \in 1..sockets : c \in 0..sockets /\ c \in C!Sockets /\ c # 0
         /\ \A c \in 0..sockets : ~(c > sockets)
BY ClientSizes DEF ClientTypes, C!Sockets

LEMMA NewNumber ==
  ASSUME ClientTypes, sockets < MaxSockets, NEW n, n = sockets + 1
  PROVE  /\ n \in C!Sockets /\ n \in 0..MaxSockets /\ n > sockets
         /\ n \in 0..n /\ n \in 1..n /\ n # 0
         /\ \A c \in 0..sockets : c \in 0..n /\ c # n
         /\ \A c \in 1..sockets : c \in 1..n /\ c # n
         /\ \A s \in C!Sockets : s > n => s > sockets
<1>1. sockets \in Nat /\ sockets \in 0..MaxSockets /\ MaxSockets \in Nat
  BY ClientSizes DEF ClientTypes
<1> QED
  BY <1>1 DEF C!Sockets

\* The Connection a task works on is one of the sockets.
LEMMA ObjIsSocket ==
  ASSUME ClientTypes, NEW t \in Tasks, pc[t] \in {"connect"} \cup C!InOperation
  PROVE  obj[t] \in 1..sockets /\ obj[t] \in C!Sockets
<1>1. TaskOK(t) /\ sockets \in 0..MaxSockets
  BY Zenon DEF ClientTypes
<1>2. obj[t] \in 1..sockets
  BY <1>1, Zenon DEF TaskOK, C!InOperation
<1> QED
  BY <1>1, <1>2, ClientSizes DEF C!Sockets

\* A step that moves no task and leaves the pool's count alone keeps what the pool promises.
LEMMA SendersKept ==
  ASSUME PoolInv, UNCHANGED <<total_connections_, blocked, null_use, enable_connection_pool>>,
         \A t \in Tasks : enable_connection_pool => pc'[t] = pc[t],
         enable_connection_pool => connection_' = 0 /\ ~connected_',
         ~enable_connection_pool => ~pool_'
  PROVE  PoolInv'
<1>1. enable_connection_pool => Senders' = Senders
  BY Zenon DEF Senders
<1>2. C!BlockedByHolders'
  <2>1. CASE enable_connection_pool
    <3>1. {t \in Tasks : pc'[t] \in C!InOperation} = {t \in Tasks : pc[t] \in C!InOperation}
      BY <2>1, Zenon
    <3> QED
      BY <3>1, Zenon DEF PoolInv, C!BlockedByHolders
  <2>2. CASE ~enable_connection_pool
    BY <2>2, Zenon DEF PoolInv, C!BlockedByHolders
  <2> QED
    BY <2>1, <2>2, Zenon
<1> QED
  BY <1>1, <1>2, Zenon DEF PoolInv

-----------------------------------------------------------------------------
(* One connection with automatic reconnection. *)

\* A new Connection in the place of the client's: the old one is closed if it is connected.
LEMMA ConnectionReplaced ==
  ASSUME ClientInv, ~enable_connection_pool, NEW t \in Tasks, pc[t] \in {"idle", "sleep"},
         Alone(t), overlap' \in BOOLEAN, sockets < MaxSockets,
         C!Replace(connection_, sockets + 1, "Connecting"), connection_' = sockets + 1,
         C!Step(t, "connect", sockets + 1, tries[t]),
         UNCHANGED <<no_socket, auto_reconnect, enable_connection_pool, connected_, pool_,
                     total_connections_, blocked, established, uaf, null_use>>
  PROVE  ClientInv'
<1> PICK n : n = sockets + 1
  BY Zenon
<1>0. ClientTypes /\ connection_ \in 0..sockets
  BY Zenon DEF ClientInv, ClientTypes
<1>1. /\ n \in C!Sockets /\ n \in 0..MaxSockets /\ n > sockets
      /\ n \in 0..n /\ n \in 1..n /\ n # 0
      /\ \A c \in 0..sockets : c \in 0..n /\ c # n
      /\ \A c \in 1..sockets : c \in 1..n /\ c # n
      /\ \A s \in C!Sockets : s > n => s > sockets
  BY <1>0, NewNumber, Zenon
<1>2. /\ pc' \in [Tasks -> Where] /\ obj' \in [Tasks -> 0..MaxSockets]
      /\ tries' \in [Tasks -> 0..max_reconnect_attempts]
      /\ pc'[t] = "connect" /\ obj'[t] = n
      /\ \A u \in Tasks : u # t => pc'[u] = pc[u] /\ obj'[u] = obj[u]
  <2>1. tries[t] \in 0..max_reconnect_attempts
    BY <1>0, Zenon DEF ClientTypes
  <2>2. "connect" \in Where
    BY Zenon DEF Where
  <2> QED
    BY <1>0, <1>1, <2>1, <2>2, TaskMoves, ZenonT(30)
<1>3. /\ sockets' = n /\ connection_' = n
      /\ conn_state'[n] = "Connecting" /\ freed'[n] = freed[n]
      /\ \A s \in C!Sockets : s # n =>
           /\ conn_state'[s] = IF s = connection_ /\ conn_state[s] = "Connected"
                               THEN "Closed" ELSE conn_state[s]
           /\ fd_open'[s] = (fd_open[s] /\ ~(s = connection_ /\ conn_state[s] = "Connected"))
           /\ freed'[s] = (freed[s] \/ s = connection_)
  BY <1>0, <1>1, Zenon DEF C!Replace, ClientTypes
<1>4. ClientTypes'
  <2>1. conn_state' \in [C!Sockets -> ConnStates]
    BY <1>0, <1>1, Zenon DEF C!Replace, ClientTypes, ConnStates
  <2>2. fd_open' \in [C!Sockets -> BOOLEAN] /\ freed' \in [C!Sockets -> BOOLEAN]
    BY <1>0, Zenon DEF C!Replace, ClientTypes
  <2>3. ASSUME NEW u \in Tasks PROVE TaskOK(u)'
    <3>1. CASE u = t
      <4>1. pc'[u] = "connect" /\ obj'[u] \in 1..sockets'
        BY <1>1, <1>2, <1>3, <3>1, Zenon
      <4> QED
        BY <4>1, Zenon DEF TaskOK
    <3>2. CASE u # t
      <4>1. pc'[u] = pc[u] /\ obj'[u] = obj[u] /\ TaskOK(u)
        BY <1>0, <1>2, <3>2, Zenon DEF ClientTypes
      <4>2. \A c \in 1..sockets : c \in 1..sockets'
        BY <1>1, <1>3, Zenon
      <4> QED
        BY <4>1, <4>2, Zenon DEF TaskOK
    <3> QED
      BY <3>1, <3>2, Zenon
  <2>4. connection_' \in 0..sockets' /\ sockets' \in 0..MaxSockets
    BY <1>1, <1>3, Zenon
  <2> QED
    BY <1>2, <2>1, <2>2, <2>3, <2>4, Zenon DEF ClientTypes
<1>5. Flags'
  BY Zenon DEF ClientInv, Flags
<1>6. PoolInv'
  <2>1. PoolInv /\ ~pool_'
    BY Zenon DEF ClientInv, PoolInv
  <2> QED
    BY <2>1, SendersKept, Zenon
<1>7. SocketInv'
  <2>0. SocketInv
    BY Zenon DEF ClientInv
  <2>1. established \subseteq 1..sockets
    BY <2>0, Zenon DEF SocketInv
  <2>2. established' \subseteq 1..sockets' /\ n \notin established
    BY <1>1, <1>3, <2>1, Zenon
  <2>3. ASSUME NEW s \in C!Sockets PROVE SocketOK(s)'
    <3>1. SocketOK(s) /\ SocketOK(n)
      BY <1>1, <2>0, Zenon DEF SocketInv
    <3>2. CASE s = n
      BY <1>1, <1>3, <2>2, <3>1, <3>2, Zenon DEF SocketOK
    <3>3. CASE s # n
      <4>1. s > sockets' => s > sockets /\ s # connection_
        BY <1>0, <1>1, <1>3, Numbers, Zenon
      <4>2. conn_state'[s] # "Closed" => conn_state'[s] = conn_state[s]
                                         /\ ~(s = connection_ /\ conn_state[s] = "Connected")
        BY <1>3, <3>3, Zenon
      <4>3. /\ freed'[s] <=> (freed[s] \/ s = connection_)
            /\ fd_open'[s] <=> (fd_open[s] /\ ~(s = connection_ /\ conn_state[s] = "Connected"))
        BY <1>3, <3>3, Zenon
      <4>4. s > sockets' => ~freed'[s]
        BY <3>1, <4>1, <4>3, Zenon DEF SocketOK
      <4>5. freed'[s] => conn_state'[s] # "Connected"
        BY <3>1, <4>2, <4>3, Zenon DEF SocketOK
      <4>6. s \in established' /\ fd_open'[s] => conn_state'[s] = "Connected"
        BY <1>3, <3>1, <3>3, <4>3, Zenon DEF SocketOK
      <4> QED
        BY <4>4, <4>5, <4>6, Zenon DEF SocketOK
    <3> QED
      BY <3>2, <3>3, Zenon
  <2>4. ASSUME NEW u \in Tasks PROVE Connecting(u)'
    <3>1. \A v \in Tasks : pc[v] = "connect" => obj[v] \in C!Sockets /\ obj[v] # n
      BY <1>0, <1>1, ObjIsSocket, Zenon
    <3>2. CASE u = t
      BY <1>2, <1>3, <2>2, <3>1, <3>2, ZenonT(30) DEF Connecting
    <3>3. CASE u # t
      <4> SUFFICES ASSUME pc[u] = "connect" PROVE Connecting(u)'
        BY <1>2, <3>3, Zenon DEF Connecting
      <4>1. Connecting(u)
        BY <2>0, Zenon DEF SocketInv
      <4>2. conn_state[obj[u]] = "Connecting" /\ obj[u] \notin established
        BY <4>1, ZenonT(30) DEF Connecting
      <4>3. conn_state'[obj[u]] = "Connecting" /\ obj'[u] = obj[u]
        BY <1>2, <1>3, <3>1, <3>3, <4>2, ZenonT(30)
      <4>4. \A v \in Tasks : pc'[v] = "connect" /\ obj'[v] = obj[u] => v = u
        BY <1>2, <3>1, <4>1, Zenon DEF Connecting
      <4> QED
        BY <4>2, <4>3, <4>4, Zenon DEF Connecting
    <3> QED
      BY <3>2, <3>3, Zenon
  <2> QED
    BY <2>2, <2>3, <2>4, Zenon DEF SocketInv
<1>8. ASSUME ~overlap' PROVE SerialCalls'
  <2>1. SerialCalls /\ \A u \in Tasks : u # t => pc'[u] = "idle"
    BY <1>2, <1>8, Zenon DEF Alone
  <2>2. ~freed'[connection_'] /\ ~C!Idle'
    BY <1>1, <1>2, <1>3, ZenonT(30) DEF ClientInv, SocketInv, SocketOK, C!Idle
  <2>3. ASSUME NEW u \in Tasks PROVE UsesOwn(u)'
    BY <1>2, <1>3, <2>1, ZenonT(30) DEF UsesOwn, C!InOperation
  <2> QED
    BY <2>1, <2>2, <2>3, Zenon DEF SerialCalls
<1> QED
  BY <1>4, <1>5, <1>6, <1>7, <1>8, Zenon DEF ClientInv

\* What a step that leaves the connections and the pool alone leaves alone.
connections == <<auto_reconnect, enable_connection_pool, connected_, connection_, pool_, conn_state,
                 fd_open, freed, sockets, total_connections_, blocked, established, null_use>>

LEMMA ConnectionsKept ==
  ASSUME ClientInv, UNCHANGED connections, overlap' \in BOOLEAN, uaf' \in BOOLEAN,
         no_socket' \in BOOLEAN,
         \A u \in Tasks : enable_connection_pool => pc'[u] = pc[u]
  PROVE  /\ Flags' /\ PoolInv' /\ established' \subseteq 1..sockets'
         /\ \A s \in C!Sockets : SocketOK(s)'
<1>1. Flags'
  BY Zenon DEF ClientInv, Flags, connections
<1>2. PoolInv'
  <2>1. PoolInv /\ UNCHANGED <<total_connections_, blocked, null_use, enable_connection_pool>>
        /\ connection_' = connection_ /\ connected_' = connected_ /\ pool_' = pool_
    BY Zenon DEF ClientInv, connections
  <2>2. /\ enable_connection_pool => connection_ = 0 /\ ~connected_
        /\ ~enable_connection_pool => ~pool_
    BY <2>1, Zenon DEF PoolInv
  <2> QED
    BY <2>1, <2>2, SendersKept, Zenon
<1> QED
  BY <1>1, <1>2, Zenon DEF ClientInv, SocketInv, SocketOK, connections

\* A call returns, or waits before it connects again.
LEMMA CallRests ==
  ASSUME ClientInv, NEW t \in Tasks, Alone(t), overlap' \in BOOLEAN,
         NEW w \in {"idle", "sleep"}, NEW n \in 0..max_reconnect_attempts, C!Step(t, w, 0, n),
         UNCHANGED connections, uaf' \in BOOLEAN, no_socket' \in BOOLEAN,
         no_socket => no_socket', ~overlap' => ~uaf',
         enable_connection_pool => pc[t] = "idle" /\ w = "idle",
         ~overlap' /\ w = "idle" /\ ~no_socket' /\ Reconnects => SaysConnected
  PROVE  ClientInv'
<1>1. /\ pc' \in [Tasks -> Where] /\ obj' \in [Tasks -> 0..MaxSockets]
      /\ tries' \in [Tasks -> 0..max_reconnect_attempts]
      /\ pc'[t] = w /\ obj'[t] = 0
      /\ \A u \in Tasks : u # t => pc'[u] = pc[u] /\ obj'[u] = obj[u]
  <2>1. ClientTypes /\ w \in Where /\ 0 \in 0..MaxSockets
    BY ClientSizes, SMTT(30) DEF ClientInv, Where
  <2> QED
    BY <2>1, TaskMoves, Zenon
<1>2. /\ Flags' /\ PoolInv' /\ established' \subseteq 1..sockets'
      /\ \A s \in C!Sockets : SocketOK(s)'
  BY <1>1, ConnectionsKept, Zenon
<1>3. ClientTypes'
  BY <1>1, Zenon DEF ClientInv, ClientTypes, TaskOK, connections
<1>4. ASSUME NEW u \in Tasks PROVE Connecting(u)'
  <2>1. CASE u = t
    BY <1>1, <2>1, Zenon DEF Connecting
  <2>2. CASE u # t
    <3>1. Connecting(u) /\ conn_state' = conn_state /\ established' = established
      BY Zenon DEF ClientInv, SocketInv, connections
    <3> QED
      BY <1>1, <2>2, <3>1, Zenon DEF Connecting
  <2> QED
    BY <2>1, <2>2, Zenon
<1>5. ASSUME ~overlap' PROVE SerialCalls'
  <2>1. SerialCalls /\ \A u \in Tasks : u # t => pc'[u] = "idle"
    BY <1>1, <1>5, Zenon DEF Alone
  <2>2. \A u \in Tasks : UsesOwn(u)'
    BY <1>1, <2>1, ZenonT(30) DEF UsesOwn, C!InOperation
  <2>3. C!Idle' /\ ~no_socket' /\ Reconnects' => SaysConnected'
    BY <1>1, <1>5, ZenonT(30) DEF C!Idle, Reconnects, SaysConnected, connections
  <2>4. ~uaf' /\ (~no_socket' => ~null_use') /\ (connection_' # 0 => ~freed'[connection_'])
    BY <1>5, <2>1, Zenon DEF SerialCalls, connections
  <2> QED
    BY <2>1, <2>2, <2>3, <2>4, Zenon DEF SerialCalls
<1> QED
  BY <1>2, <1>3, <1>4, <1>5, Zenon DEF ClientInv, SocketInv

\* An operation starts on the client's connection, which is connected.
LEMMA OperationStarts ==
  ASSUME ClientInv, NEW t \in Tasks, Alone(t), overlap' \in BOOLEAN,
         NEW w \in C!InOperation, C!Step(t, w, connection_, 0),
         ~enable_connection_pool, connection_ # 0, connected_, conn_state[connection_] = "Connected",
         UNCHANGED connections, uaf' \in BOOLEAN, no_socket' = no_socket, ~overlap' => ~uaf'
  PROVE  ClientInv'
<1>0. connection_ \in 1..sockets /\ connection_ \in 0..MaxSockets
  BY ClientSizes DEF ClientInv, ClientTypes
<1>1. /\ pc' \in [Tasks -> Where] /\ obj' \in [Tasks -> 0..MaxSockets]
      /\ tries' \in [Tasks -> 0..max_reconnect_attempts]
      /\ pc'[t] = w /\ obj'[t] = connection_
      /\ \A u \in Tasks : u # t => pc'[u] = pc[u] /\ obj'[u] = obj[u]
  <2>1. ClientTypes /\ w \in Where /\ 0 \in 0..max_reconnect_attempts
    BY ClientSizes DEF ClientInv, Where
  <2> QED
    BY <1>0, <2>1, TaskMoves, Zenon
<1>2. /\ Flags' /\ PoolInv' /\ established' \subseteq 1..sockets'
      /\ \A s \in C!Sockets : SocketOK(s)'
  <2>1. no_socket' \in BOOLEAN
    BY Zenon DEF ClientInv, Flags
  <2> QED
    BY <2>1, ConnectionsKept, Zenon
<1>3. ClientTypes'
  BY <1>0, <1>1, Zenon DEF ClientInv, ClientTypes, TaskOK, connections, C!InOperation
<1>4. ASSUME NEW u \in Tasks PROVE Connecting(u)'
  <2>1. CASE u = t
    BY <1>1, <2>1, Zenon DEF Connecting, C!InOperation
  <2>2. CASE u # t
    <3>1. Connecting(u) /\ conn_state' = conn_state /\ established' = established
      BY Zenon DEF ClientInv, SocketInv, connections
    <3> QED
      BY <1>1, <2>2, <3>1, ZenonT(30) DEF Connecting
  <2> QED
    BY <2>1, <2>2, Zenon
<1>5. ASSUME ~overlap' PROVE SerialCalls'
  <2>1. SerialCalls /\ \A u \in Tasks : u # t => pc'[u] = "idle"
    BY <1>1, <1>5, Zenon DEF Alone
  <2>2. ASSUME NEW u \in Tasks PROVE UsesOwn(u)'
    BY <1>1, <2>1, ZenonT(30) DEF UsesOwn, connections, C!InOperation
  <2>3. ~C!Idle'
    BY <1>1, ZenonT(30) DEF C!Idle, C!InOperation
  <2>4. ~uaf' /\ (~no_socket' => ~null_use') /\ (connection_' # 0 => ~freed'[connection_'])
    BY <1>5, <2>1, Zenon DEF SerialCalls, connections
  <2> QED
    BY <2>1, <2>2, <2>3, <2>4, ZenonT(30) DEF SerialCalls
<1> QED
  BY <1>2, <1>3, <1>4, <1>5, Zenon DEF ClientInv, SocketInv

LEMMA ConnectReturnsTo ==
  ASSUME ClientTypes, NEW t \in Tasks, NEW ok \in BOOLEAN, C!ConnectReturns(t, ok)
  PROVE  \E w \in {"idle", "sleep"}, n \in 0..max_reconnect_attempts : C!Step(t, w, 0, n)
<1>1. tries[t] \in 0..max_reconnect_attempts /\ max_reconnect_attempts \in Nat
  BY ClientSizes, Zenon DEF ClientTypes
<1>2. CASE ok \/ tries[t] \in {0, max_reconnect_attempts}
  BY <1>1, <1>2 DEF C!ConnectReturns
<1>3. CASE ~(ok \/ tries[t] \in {0, max_reconnect_attempts})
  <2>1. tries[t] + 1 \in 0..max_reconnect_attempts
    BY <1>1, <1>3
  <2> QED
    BY <1>3, <2>1, Zenon DEF C!ConnectReturns
<1> QED
  BY <1>2, <1>3, Zenon

LEMMA FailureReturnsTo ==
  ASSUME NEW t \in Tasks, C!OperationFails(t)
  PROVE  \E w \in {"idle", "sleep"}, n \in 0..max_reconnect_attempts :
           C!Step(t, w, 0, n) /\ (w = "idle" => ~Reconnects)
<1>1. CASE auto_reconnect /\ max_reconnect_attempts > 0
  <2>1. 1 \in 0..max_reconnect_attempts
    BY <1>1, ClientSizes
  <2>2. C!Step(t, "sleep", 0, 1)
    BY <1>1, Zenon DEF C!OperationFails
  <2> QED
    BY <2>1, <2>2, Zenon
<1>2. CASE ~(auto_reconnect /\ max_reconnect_attempts > 0)
  <2>1. 0 \in 0..max_reconnect_attempts
    BY ClientSizes
  <2>2. C!Step(t, "idle", 0, 0)
    BY <1>2, Zenon DEF C!OperationFails
  <2> QED
    BY <1>2, <2>1, <2>2, Zenon DEF Reconnects
<1> QED
  BY <1>1, <1>2, Zenon

\* send() or recv() on the client's connection, from its tests to its await.
LEMMA OperateKeeps ==
  ASSUME ClientInv, NEW t \in Tasks, Alone(t), overlap' \in BOOLEAN,
         NEW where \in C!InOperation, C!Operate(t, where),
         pc[t] = "idle" \/ (pc[t] \in C!InOperation /\ ~enable_connection_pool),
         UNCHANGED connections, uaf' \in BOOLEAN, no_socket' = no_socket, ~overlap' => ~uaf'
  PROVE  ClientInv'
<1>0. no_socket' \in BOOLEAN /\ (no_socket => no_socket') /\ 0 \in 0..max_reconnect_attempts
  BY ClientSizes DEF ClientInv, Flags
<1>1. CASE connection_ = 0 \/ ~connected_
  <2>1. C!Step(t, "idle", 0, 0)
    BY <1>1, Zenon DEF C!Operate
  <2>2. ASSUME ~overlap', ~no_socket', Reconnects PROVE SaysConnected
    <3>1. SerialCalls /\ \A u \in Tasks : u # t => pc[u] = "idle"
      BY <2>2, Zenon DEF Alone
    <3>2. pc[t] = "idle"
      <4> SUFFICES ASSUME pc[t] \in C!InOperation, ~enable_connection_pool PROVE FALSE
        BY Zenon
      <4>1. UsesOwn(t)
        BY <3>1, Zenon DEF SerialCalls
      <4>2. connected_ /\ obj[t] = connection_
        BY <4>1, Zenon DEF UsesOwn
      <4>3. obj[t] \in 1..sockets
        BY ObjIsSocket, Zenon DEF ClientInv
      <4>4. obj[t] # 0
        BY <4>3
      <4> QED
        BY <1>1, <4>2, <4>4, Zenon
    <3>3. C!Idle
      BY <3>1, <3>2, Zenon DEF C!Idle
    <3> QED
      BY <1>0, <2>2, <3>1, <3>3, Zenon DEF SerialCalls
  <2> QED
    BY <1>0, <2>1, <2>2, CallRests, Zenon
<1>2. CASE connection_ # 0 /\ connected_
  <2>0. ~enable_connection_pool
    BY <1>2, Zenon DEF ClientInv, PoolInv
  <2>1. CASE conn_state[connection_] = "Connected"
    <3>1. C!Step(t, where, connection_, 0)
      BY <1>2, <2>1, Zenon DEF C!Operate
    <3> QED
      BY <1>2, <2>0, <2>1, <3>1, OperationStarts, Zenon
  <2>2. CASE conn_state[connection_] # "Connected"
    <3>1. C!OperationFails(t)
      BY <1>2, <2>2, Zenon DEF C!Operate
    <3>2. PICK w \in {"idle", "sleep"}, n \in 0..max_reconnect_attempts :
            C!Step(t, w, 0, n) /\ (w = "idle" => ~Reconnects)
      BY <3>1, FailureReturnsTo, Zenon
    <3> QED
      BY <1>0, <2>0, <3>2, CallRests, Zenon
  <2> QED
    BY <2>1, <2>2, Zenon
<1> QED
  BY <1>1, <1>2, Zenon

LEMMA ConnectDirectKeeps ==
  ASSUME ClientInv, ~enable_connection_pool, NEW t \in Tasks, pc[t] \in {"idle", "sleep"},
         Alone(t), overlap' \in BOOLEAN, C!ConnectDirect(t),
         UNCHANGED <<auto_reconnect, enable_connection_pool, connected_, pool_,
                     total_connections_, blocked, established, uaf, null_use>>
  PROVE  ClientInv'
<1>1. CASE sockets < MaxSockets
  <2>1. /\ C!Replace(connection_, sockets + 1, "Connecting") /\ connection_' = sockets + 1
        /\ C!Step(t, "connect", sockets + 1, tries[t]) /\ no_socket' = no_socket
    BY <1>1, Zenon DEF C!ConnectDirect
  <2> QED
    BY <1>1, <2>1, ConnectionReplaced, Zenon
<1>2. CASE ~(sockets < MaxSockets)
  <2>1. /\ no_socket' = TRUE /\ C!ConnectReturns(t, FALSE)
        /\ UNCHANGED <<conn_state, fd_open, freed, sockets, connection_>>
    BY <1>2, Zenon DEF C!ConnectDirect, C!conns
  <2>2. PICK w \in {"idle", "sleep"}, n \in 0..max_reconnect_attempts : C!Step(t, w, 0, n)
    BY <2>1, ConnectReturnsTo, Zenon DEF ClientInv
  <2>3. UNCHANGED connections
    BY <2>1, Zenon DEF connections
  <2>4. uaf' \in BOOLEAN /\ (~overlap' => ~uaf') /\ no_socket' \in BOOLEAN
    BY <2>1, Zenon DEF ClientInv, Flags, Alone, SerialCalls
  <2> QED
    BY <2>1, <2>2, <2>3, <2>4, CallRests, ZenonT(30)
<1> QED
  BY <1>1, <1>2, Zenon

\* A connection that a call which does not overlap others works on has not been dropped.
LEMMA OwnNotFreed ==
  ASSUME ClientTypes, SerialCalls, ~enable_connection_pool,
         NEW t \in Tasks, pc[t] \in {"connect"} \cup C!InOperation
  PROVE  obj[t] = connection_ /\ connection_ # 0 /\ ~freed[obj[t]]
<1>1. obj[t] \in 1..sockets
  BY ObjIsSocket, Zenon
<1>2. obj[t] = connection_
  BY Zenon DEF SerialCalls, UsesOwn
<1> QED
  BY <1>1, <1>2 DEF SerialCalls

LEMMA ConnectCompletesKeeps ==
  ASSUME ClientInv, NEW t \in Tasks, C!ConnectCompletes(t)
  PROVE  ClientInv'
<1>0. pc[t] = "connect" /\ ~enable_connection_pool
  BY Zenon DEF C!ConnectCompletes, ClientInv, PoolInv, C!InOperation
<1>1. PICK o : o = obj[t]
  BY Zenon
<1>2. PICK ok \in BOOLEAN :
        /\ connected_' = ok
        /\ conn_state' = IF freed[o] THEN conn_state
                         ELSE [conn_state EXCEPT ![o] = IF ok THEN "Connected" ELSE "Disconnected"]
        /\ established' = IF ok /\ ~freed[o] THEN established \cup {o} ELSE established
        /\ C!ConnectReturns(t, ok)
  BY <1>1, Zenon DEF C!ConnectCompletes
<1>3. /\ uaf' = (uaf \/ freed[o])
      /\ UNCHANGED <<auto_reconnect, enable_connection_pool, connection_, pool_, fd_open, freed,
                     sockets, total_connections_, blocked, overlap, no_socket, null_use>>
  BY <1>1, Zenon DEF C!ConnectCompletes, C!config
<1>4. PICK w \in {"idle", "sleep"}, n \in 0..max_reconnect_attempts : C!Step(t, w, 0, n)
  BY <1>2, ConnectReturnsTo, Zenon DEF ClientInv
<1>5. /\ pc' \in [Tasks -> Where] /\ obj' \in [Tasks -> 0..MaxSockets]
      /\ tries' \in [Tasks -> 0..max_reconnect_attempts]
      /\ pc'[t] = w /\ obj'[t] = 0
      /\ \A u \in Tasks : u # t => pc'[u] = pc[u] /\ obj'[u] = obj[u]
  <2>1. ClientTypes /\ w \in Where /\ 0 \in 0..MaxSockets
    BY ClientSizes, SMTT(30) DEF ClientInv, Where
  <2> QED
    BY <1>4, <2>1, TaskMoves, Zenon
<1>6. o \in 1..sockets /\ o \in C!Sockets
  BY <1>0, <1>1, ObjIsSocket, Zenon DEF ClientInv
<1>7. ClientTypes'
  <2>1. conn_state' \in [C!Sockets -> ConnStates]
    BY <1>2, ZenonT(30) DEF ClientInv, ClientTypes, ConnStates
  <2>2. \A u \in Tasks : TaskOK(u)'
    BY <1>3, <1>5, Zenon DEF ClientInv, ClientTypes, TaskOK
  <2> QED
    BY <1>3, <1>5, <2>1, <2>2, Zenon DEF ClientInv, ClientTypes
<1>8. Flags'
  BY <1>2, <1>3, <1>6, ZenonT(30) DEF ClientInv, ClientTypes, Flags
<1>9. PoolInv'
  <2>1. PoolInv /\ ~pool_'
    BY <1>0, <1>3, Zenon DEF ClientInv, PoolInv
  <2> QED
    BY <1>0, <1>3, <2>1, SendersKept, Zenon
<1>10. SocketInv'
  <2>1. Connecting(t) /\ o \notin established
    BY <1>0, <1>1, Zenon DEF ClientInv, SocketInv, Connecting
  <2>2. established' \subseteq 1..sockets'
    BY <1>2, <1>3, <1>6, Zenon DEF ClientInv, SocketInv
  <2>3. ASSUME NEW s \in C!Sockets PROVE SocketOK(s)'
    <3>1. SocketOK(s)
      BY Zenon DEF ClientInv, SocketInv
    <3>2. CASE s = o /\ ~freed[o]
      <4>1. conn_state'[s] = IF ok THEN "Connected" ELSE "Disconnected"
        BY <1>2, <1>6, <3>2, Zenon DEF ClientInv, ClientTypes
      <4>2. ~ok => s \notin established'
        BY <1>2, <2>1, <3>2, Zenon
      <4> QED
        BY <1>3, <3>1, <3>2, <4>1, <4>2, Zenon DEF SocketOK
    <3>3. CASE ~(s = o /\ ~freed[o])
      <4>1. conn_state'[s] = conn_state[s] /\ (s \in established' => s \in established)
        BY <1>2, <3>3, Zenon DEF ClientInv, ClientTypes
      <4> QED
        BY <1>3, <3>1, <4>1, Zenon DEF SocketOK
    <3> QED
      BY <3>2, <3>3, Zenon
  <2>4. ASSUME NEW u \in Tasks PROVE Connecting(u)'
    <3>1. CASE u = t
      BY <1>5, <3>1, Zenon DEF Connecting
    <3>2. CASE u # t
      <4> SUFFICES ASSUME pc[u] = "connect" PROVE Connecting(u)'
        BY <1>5, <3>2, Zenon DEF Connecting
      <4>1. Connecting(u) /\ obj[u] # o /\ obj[u] \in C!Sockets
        BY <1>0, <1>1, <3>2, ObjIsSocket, ZenonT(30) DEF ClientInv, SocketInv, Connecting
      <4>2. conn_state'[obj[u]] = conn_state[obj[u]] /\ obj[u] \notin established'
        BY <1>2, <4>1, ZenonT(30) DEF ClientInv, ClientTypes, Connecting
      <4> QED
        BY <1>5, <3>2, <4>1, <4>2, Zenon DEF Connecting
    <3> QED
      BY <3>1, <3>2, Zenon
  <2> QED
    BY <2>2, <2>3, <2>4, Zenon DEF SocketInv
<1>11. ASSUME ~overlap' PROVE SerialCalls'
  <2>1. SerialCalls /\ \A u \in Tasks : u # t => pc'[u] = "idle"
    BY <1>0, <1>3, <1>5, <1>11, OtherAlone, Zenon DEF Alone
  <2>2. o = connection_ /\ connection_ # 0 /\ ~freed[o]
    BY <1>0, <1>1, <2>1, OwnNotFreed, Zenon DEF ClientInv
  <2>3. \A u \in Tasks : UsesOwn(u)'
    BY <1>0, <1>3, <1>5, <2>1, Zenon DEF UsesOwn, C!InOperation
  <2>4. conn_state'[o] = IF ok THEN "Connected" ELSE "Disconnected"
    BY <1>2, <1>6, <2>2, Zenon DEF ClientInv, ClientTypes
  <2>5. SaysConnected'
    <3>1. /\ connected_' = ok /\ connection_' = o /\ connection_' # 0
          /\ conn_state'[connection_'] = IF ok THEN "Connected" ELSE "Disconnected"
      BY <1>2, <1>3, <2>2, <2>4, ZenonT(30)
    <3> QED
      BY <3>1, Zenon DEF SaysConnected
  <2>6. ~uaf' /\ (~no_socket' => ~null_use') /\ (connection_' # 0 => ~freed'[connection_'])
    BY <1>3, <2>1, <2>2, Zenon DEF SerialCalls
  <2> QED
    BY <2>1, <2>3, <2>5, <2>6, Zenon DEF SerialCalls
<1> QED
  BY <1>7, <1>8, <1>9, <1>10, <1>11, Zenon DEF ClientInv

\* close() takes a connected Connection to Closed and its socket with it.
LEMMA CloseActs ==
  ASSUME ClientTypes, NEW c, C!Close(c)
  PROVE  /\ conn_state' \in [C!Sockets -> ConnStates] /\ fd_open' \in [C!Sockets -> BOOLEAN]
         /\ \A s \in C!Sockets : s = c /\ s # 0 /\ conn_state[s] = "Connected"
              => conn_state'[s] = "Closed" /\ ~fd_open'[s]
         /\ \A s \in C!Sockets : ~(s = c /\ s # 0 /\ conn_state[s] = "Connected")
              => conn_state'[s] = conn_state[s] /\ fd_open'[s] = fd_open[s]
<1>1. CASE c # 0 /\ conn_state[c] = "Connected"
  BY <1>1, ZenonT(30) DEF C!Close, ClientTypes, ConnStates
<1>2. CASE ~(c # 0 /\ conn_state[c] = "Connected")
  BY <1>2, Zenon DEF C!Close, ClientTypes
<1> QED
  BY <1>1, <1>2, Zenon

\* Closing a Connection, whether it is then dropped or not, keeps the sockets as they should be.
LEMMA CloseKeepsSockets ==
  ASSUME ClientInv, NEW c \in 0..sockets, C!Close(c),
         \A s \in C!Sockets : freed'[s] => freed[s] \/ s = c,
         UNCHANGED <<sockets, established>>,
         \A u \in Tasks : pc'[u] = "connect" => pc[u] = "connect" /\ obj'[u] = obj[u]
  PROVE  SocketInv'
<1>0. /\ \A s \in C!Sockets : s # 0
      /\ ~(c > sockets)
  BY Numbers, Zenon DEF ClientInv
<1>1. /\ \A s \in C!Sockets : s = c /\ s # 0 /\ conn_state[s] = "Connected"
           => conn_state'[s] = "Closed" /\ ~fd_open'[s]
      /\ \A s \in C!Sockets : ~(s = c /\ s # 0 /\ conn_state[s] = "Connected")
           => conn_state'[s] = conn_state[s] /\ fd_open'[s] = fd_open[s]
  BY CloseActs, ZenonT(30) DEF ClientInv
<1>2. ASSUME NEW s \in C!Sockets PROVE SocketOK(s)'
  <2>1. SocketOK(s) /\ s # 0
    BY <1>0, Zenon DEF ClientInv, SocketInv
  <2>2. s > sockets => s # c
    BY <1>0, Zenon
  <2>3. CASE s = c /\ conn_state[s] = "Connected"
    BY <1>1, <2>1, <2>2, <2>3, Zenon DEF SocketOK
  <2>4. CASE ~(s = c /\ conn_state[s] = "Connected")
    <3>1. conn_state'[s] = conn_state[s] /\ fd_open'[s] = fd_open[s]
      BY <1>1, <2>4, Zenon
    <3>2. freed'[s] => conn_state[s] # "Connected"
      BY <2>1, <2>4, Zenon DEF SocketOK
    <3> QED
      BY <2>1, <2>2, <3>1, <3>2, Zenon DEF SocketOK
  <2> QED
    BY <2>3, <2>4, Zenon
<1>3. ASSUME NEW u \in Tasks PROVE Connecting(u)'
  <2> SUFFICES ASSUME pc'[u] = "connect" PROVE Connecting(u)'
    BY Zenon DEF Connecting
  <2>1. pc[u] = "connect" /\ obj'[u] = obj[u] /\ Connecting(u) /\ obj[u] \in C!Sockets
    BY ObjIsSocket, Zenon DEF ClientInv, SocketInv
  <2>2. conn_state'[obj[u]] = "Connecting"
    BY <1>1, <2>1, Zenon DEF Connecting
  <2> QED
    BY <2>1, <2>2, Zenon DEF Connecting
<1> QED
  BY <1>2, <1>3, Zenon DEF ClientInv, SocketInv

LEMMA OperationErrsKeeps ==
  ASSUME ClientInv, NEW t \in Tasks, C!OperationErrs(t)
  PROVE  ClientInv'
<1>0. /\ pc[t] \in C!InOperation /\ ~enable_connection_pool
      /\ uaf' = (uaf \/ freed[obj[t]])
      /\ UNCHANGED <<auto_reconnect, enable_connection_pool, connected_, connection_, pool_, freed,
                     sockets, total_connections_, blocked, established, overlap, no_socket, null_use>>
  BY Zenon DEF C!OperationErrs, C!config
<1>1. obj[t] \in 1..sockets /\ obj[t] \in C!Sockets
  BY <1>0, ObjIsSocket, Zenon DEF ClientInv
<1>2. PICK w \in {"idle", "sleep"}, n \in 0..max_reconnect_attempts :
        C!Step(t, w, 0, n) /\ (w = "idle" => ~Reconnects)
  BY FailureReturnsTo, Zenon DEF C!OperationErrs
<1>3. /\ pc' \in [Tasks -> Where] /\ obj' \in [Tasks -> 0..MaxSockets]
      /\ tries' \in [Tasks -> 0..max_reconnect_attempts]
      /\ pc'[t] = w /\ obj'[t] = 0
      /\ \A u \in Tasks : u # t => pc'[u] = pc[u] /\ obj'[u] = obj[u]
  <2>1. ClientTypes /\ w \in Where /\ 0 \in 0..MaxSockets
    BY ClientSizes DEF ClientInv, Where
  <2> QED
    BY <1>2, <2>1, TaskMoves, Zenon
<1>4. PICK c \in 0..sockets : C!Close(c)
  <2>1. CASE freed[obj[t]]
    <3>1. C!Close(0)
      BY <2>1, Zenon DEF C!OperationErrs, C!Close
    <3>2. 0 \in 0..sockets
      BY ClientSizes DEF ClientInv, ClientTypes
    <3> QED
      BY <3>1, <3>2, Zenon
  <2>2. CASE ~freed[obj[t]]
    <3>1. C!Close(obj[t])
      BY <2>2, Zenon DEF C!OperationErrs
    <3>2. obj[t] \in 0..sockets
      BY <1>1, Numbers, Zenon DEF ClientInv
    <3> QED
      BY <3>1, <3>2, Zenon
  <2> QED
    BY <2>1, <2>2, Zenon
<1>5. conn_state' \in [C!Sockets -> ConnStates] /\ fd_open' \in [C!Sockets -> BOOLEAN]
  BY <1>4, CloseActs, Zenon DEF ClientInv
<1>6. ClientTypes'
  BY <1>0, <1>3, <1>5, Zenon DEF ClientInv, ClientTypes, TaskOK
<1>7. Flags'
  BY <1>0, <1>1, Zenon DEF ClientInv, ClientTypes, Flags
<1>8. PoolInv'
  <2>1. PoolInv /\ ~pool_'
    BY <1>0, Zenon DEF ClientInv, PoolInv
  <2> QED
    BY <1>0, <2>1, SendersKept, Zenon
<1>9. SocketInv'
  BY <1>0, <1>3, <1>4, CloseKeepsSockets, ZenonT(30)
<1>10. ASSUME ~overlap' PROVE SerialCalls'
  <2>1. SerialCalls /\ \A u \in Tasks : u # t => pc'[u] = "idle"
    BY <1>0, <1>3, <1>10, OtherAlone, Zenon DEF Alone, C!InOperation
  <2>2. ~freed[obj[t]]
    BY <1>0, <2>1, OwnNotFreed, Zenon DEF ClientInv
  <2>3. \A u \in Tasks : UsesOwn(u)'
    BY <1>0, <1>3, <2>1, Zenon DEF UsesOwn, C!InOperation
  <2>4. C!Idle' => ~Reconnects'
    BY <1>0, <1>2, <1>3, ZenonT(30) DEF C!Idle, Reconnects
  <2>5. ~uaf' /\ (~no_socket' => ~null_use') /\ (connection_' # 0 => ~freed'[connection_'])
    BY <1>0, <2>1, <2>2, Zenon DEF SerialCalls
  <2> QED
    BY <2>1, <2>3, <2>4, <2>5, ZenonT(30) DEF SerialCalls
<1> QED
  BY <1>6, <1>7, <1>8, <1>9, <1>10, Zenon DEF ClientInv

\* Dropping a Connection closes it and destroys the object.
LEMMA DropActs ==
  ASSUME ClientTypes, NEW c \in 0..sockets, C!Drop(c)
  PROVE  /\ freed' \in [C!Sockets -> BOOLEAN]
         /\ \A s \in C!Sockets : freed'[s] => freed[s] \/ s = c
BY Zenon DEF C!Drop, ClientTypes

LEMMA DisconnectKeeps ==
  ASSUME ClientInv, C!disconnect
  PROVE  ClientInv'
<1>0. /\ C!CallMade /\ connected_' = FALSE /\ connection_' = 0 /\ pool_' = FALSE
      /\ C!Drop(connection_) /\ C!Close(connection_)
      /\ UNCHANGED <<auto_reconnect, enable_connection_pool, sockets, total_connections_, pc, obj, tries,
                     blocked, established, no_socket, uaf, null_use>>
  BY Zenon DEF C!disconnect, C!config, C!tasks, C!Drop
<1>1. connection_ \in 0..sockets /\ 0 \in 0..sockets
  BY ClientSizes DEF ClientInv, ClientTypes
<1>2. /\ conn_state' \in [C!Sockets -> ConnStates] /\ fd_open' \in [C!Sockets -> BOOLEAN]
      /\ freed' \in [C!Sockets -> BOOLEAN]
      /\ \A s \in C!Sockets : freed'[s] => freed[s] \/ s = connection_
  BY <1>0, <1>1, CloseActs, DropActs, Zenon DEF ClientInv
<1>3. ClientTypes'
  BY <1>0, <1>1, <1>2, Zenon DEF ClientInv, ClientTypes, TaskOK
<1>4. Flags'
  BY <1>0, Zenon DEF ClientInv, Flags, C!CallMade
<1>5. PoolInv'
  BY <1>0, SendersKept, Zenon DEF ClientInv
<1>6. SocketInv'
  BY <1>0, <1>1, <1>2, CloseKeepsSockets, Zenon
<1>7. ASSUME ~overlap' PROVE SerialCalls'
  <2>1. SerialCalls /\ \A u \in Tasks : pc'[u] = "idle"
    BY <1>0, <1>7, ZenonT(30) DEF C!CallMade, C!Idle, ClientInv, Flags
  <2>2. \A u \in Tasks : UsesOwn(u)'
    BY <2>1, Zenon DEF UsesOwn, C!InOperation
  <2>3. SaysConnected'
    BY <1>0, Zenon DEF SaysConnected
  <2> QED
    BY <1>0, <2>1, <2>2, <2>3, Zenon DEF SerialCalls
<1> QED
  BY <1>3, <1>4, <1>5, <1>6, <1>7, Zenon DEF ClientInv

-----------------------------------------------------------------------------
(* Connections of the pool. *)

\* What calls that do not overlap promise is kept by steps of the pool that use no null pointer
\* but for lack of a socket.
LEMMA PooledSerial ==
  ASSUME ClientInv, enable_connection_pool, NEW t \in Tasks, Alone(t),
         UNCHANGED <<enable_connection_pool, connection_, uaf>>,
         \A u \in Tasks : u # t => pc'[u] = pc[u],
         SerialCalls /\ ~no_socket' => ~null_use',
         SerialCalls /\ pc'[t] \in C!InOperation => pool_' /\ ~freed'[obj'[t]]
  PROVE  ~overlap' => SerialCalls'
<1> SUFFICES ASSUME ~overlap' PROVE SerialCalls'
  BY Zenon
<1>1. SerialCalls /\ \A u \in Tasks : u # t => pc'[u] = "idle"
  BY Zenon DEF Alone
<1>2. connection_' = 0 /\ ~Reconnects'
  BY Zenon DEF ClientInv, PoolInv, Reconnects
<1>3. \A u \in Tasks : UsesOwn(u)'
  BY <1>1, Zenon DEF UsesOwn, C!InOperation
<1> QED
  BY <1>1, <1>2, <1>3, Zenon DEF SerialCalls

LEMMA ConnectPooled ==
  ASSUME ClientInv, NEW t \in Tasks, enable_connection_pool, C!connect(t)
  PROVE  ClientInv'
<1>0. /\ pc[t] = "idle" /\ C!CallMade /\ pool_' = TRUE
      /\ UNCHANGED <<auto_reconnect, enable_connection_pool, connected_, connection_, conn_state, fd_open,
                     freed, sockets, total_connections_, pc, obj, tries, blocked, established, no_socket,
                     uaf, null_use>>
  BY Zenon DEF C!connect, C!config, C!conns, C!tasks
<1>1. ClientTypes' /\ SocketInv'
  BY <1>0, ZenonT(30) DEF ClientInv, ClientTypes, TaskOK, SocketInv, SocketOK, Connecting
<1>2. Alone(t) /\ overlap' \in BOOLEAN
  BY <1>0, CallAlone, Zenon
<1>3. Flags'
  BY <1>0, <1>2, Zenon DEF ClientInv, Flags
<1>4. PoolInv'
  <2>1. PoolInv /\ connection_' = 0 /\ ~connected_'
    BY <1>0, Zenon DEF ClientInv, PoolInv
  <2> QED
    BY <1>0, <2>1, SendersKept, Zenon
<1>5. ~overlap' => SerialCalls'
  <2>1. SerialCalls /\ ~no_socket' => ~null_use'
    BY <1>0, Zenon DEF SerialCalls
  <2> QED
    BY <1>0, <1>2, <2>1, PooledSerial, Zenon DEF C!InOperation
<1> QED
  BY <1>1, <1>3, <1>4, <1>5, Zenon DEF ClientInv

LEMMA PooledWaits ==
  ASSUME ClientInv, NEW t \in Tasks, NEW where \in C!InOperation, C!Call(t, where), pool_, C!PoolFull
  PROVE  ClientInv'
<1>0. /\ pc[t] = "idle" /\ C!CallMade /\ blocked' = TRUE /\ ~null_use
      /\ UNCHANGED <<auto_reconnect, enable_connection_pool, connected_, connection_, pool_, conn_state,
                     fd_open, freed, sockets, total_connections_, pc, obj, tries, established, no_socket,
                     uaf, null_use>>
  BY Zenon DEF C!Call, C!OperatePooled, C!config, C!conns, C!tasks, C!CallMade, C!LoopRuns
<1>1. ClientTypes' /\ SocketInv'
  BY <1>0, ZenonT(30) DEF ClientInv, ClientTypes, TaskOK, SocketInv, SocketOK, Connecting
<1>2. Alone(t) /\ overlap' \in BOOLEAN
  BY <1>0, CallAlone, Zenon
<1>3. Flags'
  BY <1>0, <1>2, Zenon DEF ClientInv, Flags
<1>4. enable_connection_pool /\ total_connections_ = Cardinality(Senders)
  BY <1>0, Zenon DEF ClientInv, PoolInv
<1>5. PoolInv'
  <2>1. Senders' = Senders
    BY <1>0, Zenon DEF Senders
  <2>2. C!BlockedByHolders'
    BY <1>0, <1>4, SameCardinality, Zenon DEF C!BlockedByHolders, C!PoolFull, Senders
  <2> QED
    BY <1>0, <1>4, <2>1, <2>2, Zenon DEF ClientInv, PoolInv
<1>6. ~overlap' => SerialCalls'
  <2>1. SerialCalls /\ ~no_socket' => ~null_use'
    BY <1>0, Zenon DEF SerialCalls
  <2> QED
    BY <1>0, <1>2, <1>4, <2>1, PooledSerial, Zenon DEF C!InOperation
<1> QED
  BY <1>1, <1>3, <1>5, <1>6, Zenon DEF ClientInv

LEMMA PooledNull ==
  ASSUME ClientInv, NEW t \in Tasks, NEW where \in C!InOperation, C!Call(t, where), pool_, ~C!PoolFull, ~(sockets < MaxSockets)
  PROVE  ClientInv'
<1>0. /\ pc[t] = "idle" /\ C!CallMade /\ no_socket' = TRUE /\ null_use' = TRUE
      /\ UNCHANGED <<auto_reconnect, enable_connection_pool, connected_, connection_, pool_, conn_state,
                     fd_open, freed, sockets, total_connections_, pc, obj, tries, blocked, established,
                     uaf>>
  BY Zenon DEF C!Call, C!OperatePooled, C!config, C!conns, C!tasks
<1>1. ClientTypes' /\ SocketInv'
  BY <1>0, ZenonT(30) DEF ClientInv, ClientTypes, TaskOK, SocketInv, SocketOK, Connecting
<1>2. Alone(t) /\ overlap' \in BOOLEAN
  BY <1>0, CallAlone, Zenon
<1>3. Flags'
  BY <1>0, <1>2, Zenon DEF ClientInv, Flags
<1>4. enable_connection_pool
  BY Zenon DEF ClientInv, PoolInv
<1>5. PoolInv'
  BY <1>0, <1>4, ZenonT(30) DEF ClientInv, PoolInv, C!BlockedByHolders
<1>6. ~overlap' => SerialCalls'
  BY <1>0, <1>2, <1>4, PooledSerial, Zenon DEF C!InOperation
<1> QED
  BY <1>1, <1>3, <1>5, <1>6, Zenon DEF ClientInv

\* An operation ends: the task has used its Connection once more.
LEMMA UsedAgain ==
  ASSUME ClientInv, NEW t \in Tasks, pc[t] \in C!InOperation, ~enable_connection_pool,
         uaf' = (uaf \/ freed[obj[t]]), overlap' = overlap
  PROVE  /\ Alone(t) /\ overlap' \in BOOLEAN /\ uaf' \in BOOLEAN
         /\ ~overlap' => ~uaf' /\ SaysConnected
<1>1. Alone(t) /\ overlap' \in BOOLEAN
  BY OtherAlone, Zenon DEF C!InOperation
<1>2. uaf' \in BOOLEAN
  <2>1. obj[t] \in C!Sockets
    BY ObjIsSocket, Zenon DEF ClientInv
  <2> QED
    BY <2>1, Zenon DEF ClientInv, ClientTypes, Flags
<1>3. ASSUME ~overlap' PROVE ~uaf' /\ SaysConnected
  <2>1. SerialCalls
    BY <1>1, <1>3, Zenon DEF Alone
  <2>2. ~freed[obj[t]] /\ connection_ # 0
    BY <2>1, OwnNotFreed, Zenon DEF ClientInv
  <2>3. connected_ /\ conn_state[connection_] = "Connected"
    BY <2>1, Zenon DEF SerialCalls, UsesOwn
  <2> QED
    BY <2>1, <2>2, <2>3, Zenon DEF SerialCalls, SaysConnected
<1> QED
  BY <1>1, <1>2, <1>3, Zenon

\* What the completion of an operation leaves alone.
LEMMA CompletesOn ==
  ASSUME ClientInv, NEW t \in Tasks, NEW where \in C!InOperation, C!Completes(t, where)
  PROVE  /\ pc[t] = where /\ ~enable_connection_pool /\ UNCHANGED connections
         /\ no_socket' = no_socket /\ no_socket' \in BOOLEAN /\ overlap' = overlap
         /\ Alone(t) /\ overlap' \in BOOLEAN /\ uaf' \in BOOLEAN
         /\ ~overlap' => ~uaf' /\ SaysConnected
<1>1. /\ pc[t] = where /\ ~enable_connection_pool /\ uaf' = (uaf \/ freed[obj[t]])
      /\ UNCHANGED connections /\ no_socket' = no_socket /\ overlap' = overlap
  BY Zenon DEF C!Completes, C!config, C!conns, connections
<1>2. no_socket' \in BOOLEAN
  BY <1>1, Zenon DEF ClientInv, Flags
<1> QED
  BY <1>1, <1>2, UsedAgain, Zenon

LEMMA SendCompletesKeeps ==
  ASSUME ClientInv, NEW t \in Tasks, C!SendCompletes(t)
  PROVE  ClientInv'
<1>1. C!Completes(t, "request") /\ C!Operate(t, "recv")
  BY Zenon DEF C!SendCompletes
<1>2. "request" \in C!InOperation /\ "recv" \in C!InOperation
  BY Zenon DEF C!InOperation
<1> QED
  BY <1>1, <1>2, CompletesOn, OperateKeeps, Zenon

LEMMA OperationCompletesKeeps ==
  ASSUME ClientInv, NEW t \in Tasks, C!OperationCompletes(t)
  PROVE  ClientInv'
<1>1. PICK where \in C!InOperation : C!Completes(t, where) /\ C!Step(t, "idle", 0, 0)
  BY Zenon DEF C!OperationCompletes, C!InOperation
<1>2. 0 \in 0..max_reconnect_attempts
  BY Numbers, Zenon DEF ClientInv
<1>3. /\ ~enable_connection_pool /\ UNCHANGED connections
      /\ no_socket' = no_socket /\ no_socket' \in BOOLEAN
      /\ Alone(t) /\ overlap' \in BOOLEAN /\ uaf' \in BOOLEAN
      /\ ~overlap' => ~uaf' /\ SaysConnected
  BY <1>1, CompletesOn, Zenon
<1> QED
  BY <1>1, <1>2, <1>3, CallRests, Zenon

\* async_write_all goes on, or gives up because the connection was closed meanwhile.
LEMMA PartSentKeeps ==
  ASSUME ClientInv, NEW t \in Tasks, C!PartSent(t)
  PROVE  ClientInv'
<1>0. "send_all" \in C!InOperation
  BY Zenon DEF C!InOperation
<1>1. C!Completes(t, "send_all")
  BY Zenon DEF C!PartSent
<1>2. /\ ~enable_connection_pool /\ UNCHANGED connections
      /\ no_socket' = no_socket /\ no_socket' \in BOOLEAN /\ overlap' = overlap
      /\ Alone(t) /\ overlap' \in BOOLEAN /\ uaf' \in BOOLEAN
      /\ ~overlap' => ~uaf'
  BY <1>0, <1>1, CompletesOn, Zenon
<1>3. CASE C!OperationFails(t)
  <2>1. PICK w \in {"idle", "sleep"}, n \in 0..max_reconnect_attempts :
          C!Step(t, w, 0, n) /\ (w = "idle" => ~Reconnects)
    BY <1>3, FailureReturnsTo, Zenon
  <2> QED
    BY <1>2, <2>1, CallRests, Zenon
<1>4. CASE UNCHANGED C!tasks
  <2>0. UNCHANGED <<pc, obj, tries>>
    BY <1>4, Zenon DEF C!tasks
  <2>1. /\ Flags' /\ PoolInv' /\ established' \subseteq 1..sockets'
        /\ \A s \in C!Sockets : SocketOK(s)'
    BY <1>2, <2>0, ConnectionsKept, Zenon
  <2>2. ClientTypes' /\ \A u \in Tasks : Connecting(u)'
    BY <1>2, <2>0, Zenon DEF ClientInv, ClientTypes, TaskOK, SocketInv, Connecting, connections
  <2>3. ASSUME ~overlap' PROVE SerialCalls'
    <3>1. SerialCalls
      BY <1>2, <2>3, Zenon DEF Alone
    <3> QED
      BY <1>2, <2>0, <2>3, <3>1, Zenon
         DEF SerialCalls, UsesOwn, C!Idle, Reconnects, SaysConnected, connections
  <2> QED
    BY <2>1, <2>2, <2>3, Zenon DEF ClientInv, SocketInv
<1> QED
  BY <1>3, <1>4, Zenon DEF C!PartSent

LEMMA ConnectKeeps ==
  ASSUME ClientInv, NEW t \in Tasks, C!connect(t) \/ C!SleepEnds(t)
  PROVE  ClientInv'
<1>1. CASE C!connect(t)
  <2>1. CASE enable_connection_pool
    BY <1>1, <2>1, ConnectPooled, Zenon
  <2>2. CASE ~enable_connection_pool
    <3>1. /\ pc[t] = "idle" /\ C!CallMade /\ C!ConnectDirect(t)
          /\ UNCHANGED <<auto_reconnect, enable_connection_pool, connected_, pool_,
                         total_connections_, blocked, established, uaf, null_use>>
      BY <1>1, <2>2, Zenon DEF C!connect, C!config
    <3>2. Alone(t) /\ overlap' \in BOOLEAN
      BY <3>1, CallAlone, Zenon
    <3> QED
      BY <2>2, <3>1, <3>2, ConnectDirectKeeps, Zenon
  <2> QED
    BY <2>1, <2>2, Zenon
<1>2. CASE C!SleepEnds(t)
  <2>1. /\ pc[t] = "sleep" /\ C!ConnectDirect(t) /\ overlap' = overlap
        /\ UNCHANGED <<auto_reconnect, enable_connection_pool, connected_, pool_,
                       total_connections_, blocked, established, uaf, null_use>>
    BY <1>2, Zenon DEF C!SleepEnds, C!config
  <2>2. ~enable_connection_pool
    BY <2>1, Zenon DEF ClientInv, PoolInv, C!InOperation
  <2>3. Alone(t) /\ overlap' \in BOOLEAN
    BY <2>1, OtherAlone, Zenon
  <2> QED
    BY <2>1, <2>2, <2>3, ConnectDirectKeeps, Zenon
<1> QED
  BY <1>1, <1>2, Zenon

-----------------------------------------------------------------------------
(***************************************************************************)
(* Counting.  What follows counts connections, accept loops and senders.  *)
(***************************************************************************)
INSTANCE FiniteSetTheorems

-----------------------------------------------------------------------------
(***************************************************************************)
(* The counters against the sets they count.                               *)
(***************************************************************************)
\* Opaque in the steps below: the numbers m, n and o of connections, connections admitted
\* and open connections.
Counted(m, n, o, handler) ==
  /\ m \in Nat /\ n \in Nat /\ o \in Nat
  /\ m = IF handler THEN o ELSE n
  /\ ~handler => o = 0
  /\ m <= max_connections

CountInv ==
  /\ total_accepted_ = Cardinality(Admitted)
  /\ Counted(connections_, total_accepted_, Cardinality(OpenSet), has_handler)

LEMMA CountedAdmits ==
  ASSUME NEW m, NEW n, NEW o, NEW h \in BOOLEAN, Counted(m, n, o, h), ~(m >= max_connections)
  PROVE  Counted(m + 1, n + 1, IF h THEN o + 1 ELSE o, h)
BY TcpServerAssumption DEF Counted

LEMMA CountedCloses ==
  ASSUME NEW m, NEW n, NEW o, Counted(m, n, o, TRUE), o # 0
  PROVE  Counted(m - 1, n, o - 1, TRUE)
BY TcpServerAssumption DEF Counted

LEMMA Finite == IsFiniteSet(OpenSet) /\ IsFiniteSet(Admitted)
<1>1. IsFiniteSet(Clients)
  BY TcpServerAssumption, Zenon
<1>2. OpenSet \subseteq Clients /\ Admitted \subseteq Clients
  BY Zenon DEF OpenSet, Admitted
<1> QED
  BY <1>1, <1>2, FS_Subset, ZenonT(30)

LEMMA CountInit == Init => CountInv
<1> SUFFICES ASSUME Init PROVE CountInv
  BY Zenon
<1>1. OpenSet = {} /\ Admitted = {}
  BY Zenon DEF Init, OpenSet, Admitted, Open
<1>2. Cardinality(OpenSet) = 0 /\ Cardinality(Admitted) = 0
  BY <1>1, FS_EmptySet, ZenonT(30)
<1>3. connections_ = 0 /\ total_accepted_ = 0 /\ has_handler \in BOOLEAN
  BY Zenon DEF Init
<1> QED
  BY <1>2, <1>3, TcpServerAssumption, SMTT(30) DEF CountInv, Counted

\* Steps that neither admit nor finish a close.
LEMMA CountKept ==
  ASSUME CountInv, UNCHANGED <<connections_, total_accepted_, has_handler>>,
         OpenSet' = OpenSet, Admitted' = Admitted
  PROVE  CountInv'
BY Zenon DEF CountInv

LEMMA CountAdmit ==
  ASSUME TInv, ConnInv, CountInv, NEW l \in Loops, NEW c \in Clients, Accepted(l, c), Admit(l, c)
  PROVE  CountInv'
<1>1. client[c] = "queued" /\ has_handler' = has_handler /\ has_handler \in BOOLEAN
      /\ connections_' = connections_ + 1 /\ total_accepted_' = total_accepted_ + 1
      /\ ~(connections_ >= max_connections)
  BY ZenonT(30) DEF Accepted, Admit, server, LimitReached, TInv
<1>2. c \notin Admitted /\ c \notin OpenSet
  BY <1>1, ZenonT(30) DEF ConnInv, ConnOK, Admitted, OpenSet, Open
<1>3. Admitted' = Admitted \cup {c}
  BY ZenonT(30) DEF Admitted, Admit, TInv
<1>4. OpenSet' = IF has_handler THEN OpenSet \cup {c} ELSE OpenSet
  <2>1. CASE has_handler
    BY <2>1, ZenonT(30) DEF OpenSet, Open, Admit, TInv
  <2>2. CASE ~has_handler
    BY <1>2, <2>2, Zenon DEF OpenSet, Open, Admit, TInv
  <2> QED
    BY <2>1, <2>2, Zenon
<1>5. Cardinality(Admitted \cup {c}) = Cardinality(Admitted) + 1
  BY <1>2, Finite, FS_AddElement, Zenon
<1>6. Cardinality(OpenSet \cup {c}) = Cardinality(OpenSet) + 1
  BY <1>2, Finite, FS_AddElement, Zenon
<1>7. Cardinality(OpenSet') = IF has_handler THEN Cardinality(OpenSet) + 1 ELSE Cardinality(OpenSet)
  BY <1>1, <1>4, <1>6, Zenon
<1>8. Counted(connections_ + 1, total_accepted_ + 1,
              IF has_handler THEN Cardinality(OpenSet) + 1 ELSE Cardinality(OpenSet), has_handler)
  BY <1>1, CountedAdmits, ZenonT(30) DEF CountInv
<1> QED
  BY <1>1, <1>3, <1>5, <1>7, <1>8, ZenonT(30) DEF CountInv

LEMMA CountClose ==
  ASSUME TInv, ConnInv, CountInv, NEW c \in Clients, NEW who \in Closers, CloseCallback(c, who)
  PROVE  CountInv'
<1>1. c \in OpenSet /\ calling[c] # {} /\ \A v, w \in calling[c] : v = w
  BY Zenon DEF CloseCallback, ConnInv, ConnOK, OpenSet
<1>2. has_handler /\ callback[c] /\ ~Open(c)
  BY <1>1, Zenon DEF ConnInv, ConnOK, Open
<1>3. calling'[c] = {} /\ \A d \in Clients : d # c => calling'[d] = calling[d]
  BY <1>1, Zenon DEF CloseCallback, TInv
<1>4. connections_' = connections_ - 1 /\ total_accepted_' = total_accepted_ /\ has_handler' = has_handler
  BY <1>2, ZenonT(30) DEF CloseCallback, server
<1>5. Admitted' = Admitted
  BY Zenon DEF CloseCallback, Admitted
<1>6. OpenSet' = OpenSet \ {c}
  BY <1>2, <1>3, ZenonT(30) DEF CloseCallback, OpenSet, Open
<1>7. Cardinality(OpenSet \ {c}) = Cardinality(OpenSet) - 1
  BY <1>1, Finite, FS_RemoveElement, Zenon
<1>8. Cardinality(OpenSet) # 0
  BY <1>1, Finite, FS_EmptySet, Zenon
<1>9. Counted(connections_, total_accepted_, Cardinality(OpenSet), TRUE)
  BY <1>2, Zenon DEF CountInv, TInv
<1>10. Counted(connections_ - 1, total_accepted_, Cardinality(OpenSet) - 1, TRUE)
  BY <1>8, <1>9, CountedCloses, ZenonT(30)
<1> QED
  BY <1>2, <1>4, <1>5, <1>6, <1>7, <1>10, Zenon DEF CountInv, TInv

LEMMA CountNext ==
  ASSUME TInv, ConnInv, CountInv, [Next]_vars
  PROVE  CountInv'
<1>1. CASE start \/ stop \/ StopCloses \/ UNCHANGED vars
  BY <1>1, CountKept, ZenonT(30)
     DEF start, stop, StopCloses, vars, conns, counters, OpenSet, Open, Admitted
<1>7. ASSUME NEW g \in Loops, StartFails(g) \/ StartRuns(g) PROVE CountInv'
  BY <1>7, CountKept, ZenonT(30) DEF StartFails, StartRuns, conns, counters, OpenSet, Open, Admitted
<1>2. ASSUME NEW l \in Loops, TestRunning(l) \/ SubmitAccept(l) \/ AcceptFails(l) PROVE CountInv'
  BY <1>2, CountKept, ZenonT(30)
     DEF TestRunning, SubmitAccept, AcceptFails, server, counters, conns, OpenSet, Open, Admitted
<1>3. ASSUME NEW l \in Loops, NEW c \in Clients, Accepted(l, c) PROVE CountInv'
  <2>1. CASE Refuse(l, c)
    <3>1. Admitted' = Admitted
      BY <1>3, <2>1, Zenon DEF Accepted, Refuse, Admitted, TInv
    <3>2. OpenSet' = OpenSet
      BY <2>1, Zenon DEF Refuse, conns, OpenSet, Open
    <3> QED
      BY <1>3, <2>1, <3>1, <3>2, CountKept, ZenonT(30) DEF Accepted, Refuse, server, counters
  <2>2. CASE Admit(l, c)
    BY <1>3, <2>2, CountAdmit, ZenonT(30)
  <2> QED
    BY <1>3, <2>1, <2>2, ZenonT(30) DEF Accepted
<1>4. ASSUME NEW c \in Clients, ClientConnects(c) \/ ClientCloses(c) PROVE CountInv'
  <2>1. Admitted' = Admitted
    BY <1>4, ZenonT(30) DEF ClientConnects, ClientCloses, Admitted, TInv
  <2> QED
    BY <1>4, <2>1, CountKept, ZenonT(30) DEF ClientConnects, ClientCloses, server, counters, conns, OpenSet, Open
<1>5. ASSUME NEW c \in Clients, HandlerBegins(c) \/ HandlerIoFails(c) \/ HandlerEnds(c) \/ UserCloses(c)
      PROVE  CountInv'
  <2>1. Admitted' = Admitted
    BY <1>5, ZenonT(30) DEF HandlerBegins, HandlerIoFails, HandlerEnds, UserCloses, Admitted, TInv
  <2>2. OpenSet' = OpenSet
    BY <1>5, Zenon DEF HandlerBegins, HandlerIoFails, HandlerEnds, UserCloses, CloseCas, OpenSet, Open, TInv
  <2> QED
    BY <1>5, <2>1, <2>2, CountKept, ZenonT(30) DEF HandlerBegins, HandlerIoFails, HandlerEnds, UserCloses, server, counters
<1>6. ASSUME NEW c \in Clients, NEW who \in Closers, CloseFinish(c, who) \/ CloseCallback(c, who)
      PROVE  CountInv'
  <2>1. CASE CloseCallback(c, who)
    BY <2>1, CountClose, Zenon
  <2>2. CASE CloseFinish(c, who)
    <3>0. Open(c)
      BY <2>2, Zenon DEF CloseFinish, ConnInv, ConnOK, Open
    <3>1. Open(c) /\ calling'[c] # {} /\ \A d \in Clients : d # c => calling'[d] = calling[d]
      BY <2>2, <3>0, Zenon DEF CloseFinish, TInv
    <3>2. OpenSet' = OpenSet
      BY <2>2, <3>1, Zenon DEF CloseFinish, OpenSet, Open, TInv
    <3> QED
      BY <2>2, <3>2, CountKept, Zenon DEF CloseFinish, server, counters, Admitted
  <2> QED
    BY <1>6, <2>1, <2>2, Zenon
<1> QED
  BY <1>1, <1>2, <1>3, <1>4, <1>5, <1>6, <1>7, Zenon DEF Next, LoopStep, HandlerStep

-----------------------------------------------------------------------------
(***************************************************************************)
(* Accepts after stop(): every loop past its test of running_ may still    *)
(* let one in.                                                             *)
(***************************************************************************)
\* Opaque in the steps below: e connections accepted since stop(), p loops past their
\* test, s loops started.
Bounded(running, e, p, s) ==
  /\ e \in Nat /\ p \in Nat /\ s \in Nat /\ p <= s
  /\ running => e = 0
  /\ ~running => e + p <= s

ExtraInv == Bounded(running_, extra, Cardinality(Pending), Cardinality(Started))

LEMMA LoopSets ==
  ASSUME NEW P, NEW S, S \subseteq Loops, P \subseteq S
  PROVE  /\ IsFiniteSet(P) /\ IsFiniteSet(S)
         /\ Cardinality(P) \in Nat /\ Cardinality(S) \in Nat /\ Cardinality(P) <= Cardinality(S)
<1>1. IsFiniteSet(Loops)
  BY TcpServerAssumption, FS_Interval, SMTT(30) DEF Loops
<1>2. IsFiniteSet(S)
  BY <1>1, FS_Subset, ZenonT(30)
<1> QED
  BY <1>2, FS_Subset, FS_CardinalityType, ZenonT(30)

LEMMA ExtraInit == Init => ExtraInv
<1> SUFFICES ASSUME Init PROVE ExtraInv
  BY Zenon
<1>1. Pending = {} /\ Started = {}
  BY Zenon DEF Init, Pending, Started
<1> QED
  BY <1>1, FS_EmptySet, SMTT(30) DEF Init, ExtraInv, Bounded

LEMMA ExtraNext ==
  ASSUME TInv, ExtraInv, [Next]_vars
  PROVE  ExtraInv'
<1> DEFINE p == Cardinality(Pending)  s == Cardinality(Started)
<1>0. /\ p \in Nat /\ s \in Nat /\ p <= s
      /\ Cardinality(Pending') \in Nat /\ Cardinality(Started') \in Nat
      /\ Cardinality(Pending') <= Cardinality(Started')
  <2>1. /\ Started \subseteq Loops /\ Pending \subseteq Started
        /\ Started' \subseteq Loops /\ Pending' \subseteq Started'
    BY Zenon DEF Started, Pending
  <2> QED
    BY <2>1, LoopSets, Zenon
<1>1. ASSUME NEW g \in Loops, StartRuns(g) PROVE ExtraInv'
  BY <1>0, <1>1, Zenon DEF StartRuns, ExtraInv, Bounded
<1>2. CASE stop
  <2>1. Pending' = Pending /\ Started' = Started /\ extra' = extra /\ running_ = TRUE /\ running_' = FALSE
    BY <1>2, Zenon DEF stop, counters, Pending, Started, TInv
  <2> QED
    BY <1>0, <2>1, SMTT(30) DEF ExtraInv, Bounded
<1>3. ASSUME UNCHANGED <<running_, extra, loop>> PROVE ExtraInv'
  BY <1>3, Zenon DEF ExtraInv, Pending, Started
<1>4. ASSUME NEW l \in Loops, TestRunning(l) PROVE ExtraInv'
  <2>1. Started' = Started
    BY <1>4, Zenon DEF TestRunning, Goto, Started, TInv
  <2>2. ~running_ => Pending' = Pending
    BY <1>4, Zenon DEF TestRunning, Goto, Pending, TInv
  <2>3. running_' = running_ /\ extra' = extra /\ running_ \in BOOLEAN
    BY <1>4, Zenon DEF TestRunning, server, counters, TInv
  <2> QED
    BY <1>0, <2>1, <2>2, <2>3, Zenon DEF ExtraInv, Bounded
<1>5. ASSUME NEW l \in Loops, SubmitAccept(l) PROVE ExtraInv'
  <2>1. Started' = Started /\ Pending' = Pending
    BY <1>5, Zenon DEF SubmitAccept, Goto, Started, Pending, TInv
  <2> QED
    BY <1>5, <2>1, Zenon DEF SubmitAccept, server, counters, ExtraInv
<1>6. ASSUME NEW l \in Loops, loop[l] = "accept", Goto(l, "test"), running_' = running_,
             extra' = extra \/ extra' = IF running_ THEN extra ELSE extra + 1
      PROVE  ExtraInv'
  <2>1. Started' = Started /\ Pending' = Pending \ {l} /\ l \in Pending
    BY <1>6, Zenon DEF Goto, Started, Pending, TInv
  <2>2. Cardinality(Pending \ {l}) = p - 1
    <3>1. Started \subseteq Loops /\ Pending \subseteq Started
      BY Zenon DEF Started, Pending
    <3>2. IsFiniteSet(Pending)
      BY <3>1, LoopSets, Zenon
    <3> QED
      BY <2>1, <3>2, FS_RemoveElement, Zenon
  <2>3. Cardinality(Pending') = p - 1 /\ Cardinality(Started') = s
    BY <2>1, <2>2, Zenon
  <2>4. Bounded(running_, extra, p, s) /\ running_ \in BOOLEAN
    BY Zenon DEF ExtraInv, TInv
  <2>5. Bounded(running_, extra', p - 1, s)
    BY <1>0, <1>6, <2>3, <2>4, SMTT(30) DEF Bounded
  <2> QED
    BY <1>6, <2>3, <2>5, Zenon DEF ExtraInv
<1>7. ASSUME NEW l \in Loops, AcceptFails(l) PROVE ExtraInv'
  BY <1>6, <1>7, ZenonT(30) DEF AcceptFails, server, counters
<1>8. ASSUME NEW l \in Loops, NEW c \in Clients, Accepted(l, c) PROVE ExtraInv'
  BY <1>6, <1>8, ZenonT(30) DEF Accepted, Refuse, Admit, server, counters
<1>9. ASSUME NEW c \in Clients, ClientConnects(c) \/ ClientCloses(c) PROVE ExtraInv'
  BY <1>3, <1>9, ZenonT(30) DEF ClientConnects, ClientCloses, server, counters
<1>10. ASSUME NEW c \in Clients, HandlerBegins(c) \/ HandlerIoFails(c) \/ HandlerEnds(c) \/ UserCloses(c)
       PROVE  ExtraInv'
  BY <1>3, <1>10, ZenonT(30) DEF HandlerBegins, HandlerIoFails, HandlerEnds, UserCloses, server, counters
<1>11. ASSUME NEW c \in Clients, NEW who \in Closers, CloseFinish(c, who) \/ CloseCallback(c, who)
       PROVE  ExtraInv'
  BY <1>3, <1>11, Zenon DEF CloseFinish, CloseCallback, server, counters
<1>12. CASE start \/ StopCloses \/ UNCHANGED vars
  BY <1>3, <1>12, ZenonT(30) DEF start, StopCloses, counters, vars
<1>13. ASSUME NEW g \in Loops, StartFails(g) PROVE ExtraInv'
  BY <1>3, <1>13, Zenon DEF StartFails, counters
<1> QED
  BY <1>1, <1>2, <1>4, <1>5, <1>7, <1>8, <1>9, <1>10, <1>11, <1>12, <1>13, Zenon
     DEF Next, LoopStep, HandlerStep

-----------------------------------------------------------------------------
IInv == TInv /\ ConnInv /\ CountInv /\ ExtraInv

LEMMA Inductive == Spec => []IInv
<1>1. Init => IInv
  BY TInvInit, CountInit, ExtraInit, ZenonT(30) DEF IInv
<1>2. IInv /\ [Next]_vars => IInv'
  BY TInvNext, CountNext, ExtraNext, ZenonT(30) DEF IInv
<1> QED
  BY <1>1, <1>2, PTL DEF Spec

\* The server's state keeps its types, and connections_ never wraps below zero, whoever
\* closes a connection at the same time as whom.
THEOREM TypeCorrect == Spec => []TypeOK
<1>1. IInv => TypeOK
  <2> SUFFICES ASSUME IInv PROVE TypeOK
    BY Zenon
  <2>1. OpenSet \subseteq Clients /\ Admitted \subseteq Clients /\ IsFiniteSet(Clients)
    BY TcpServerAssumption, Zenon DEF OpenSet, Admitted
  <2>2. Cardinality(OpenSet) <= Cardinality(Clients) /\ Cardinality(Admitted) <= Cardinality(Clients)
    BY <2>1, FS_Subset, ZenonT(30)
  <2>3. Cardinality(Clients) \in Nat
    BY <2>1, FS_CardinalityType, Zenon
  <2>4. connections_ \in 0..Cardinality(Clients) /\ total_accepted_ \in 0..Cardinality(Clients)
    BY <2>2, <2>3, SMTT(30) DEF IInv, CountInv, Counted
  <2>5. extra \in Nat
    BY ZenonT(30) DEF IInv, ExtraInv, Bounded
  <2> QED
    BY <2>4, <2>5, ZenonT(30) DEF IInv, TInv, TypeOK
<1> QED
  BY <1>1, Inductive, PTL

\* active_connections() is exact: every connection is counted once when it is admitted and
\* given back once, in every interleaving of the handler, failing reads and other closers.
THEOREM CountExact == Spec => []ActiveCount
<1>1. IInv => ActiveCount
  BY Zenon DEF IInv, CountInv, Counted, ActiveCount, OpenSet
<1> QED
  BY <1>1, Inductive, PTL

\* The limit holds for any number of clients and of accept loops left over from earlier
\* starts.
THEOREM LimitHolds == Spec => []WithinLimit
<1>1. IInv => WithinLimit
  <2> SUFFICES ASSUME IInv PROVE WithinLimit
    BY Zenon
  <2> DEFINE S == {c \in Clients : Open(c)}
  <2>1. Cardinality(OpenSet) <= max_connections /\ Cardinality(OpenSet) \in Nat
    BY TcpServerAssumption, SMTT(30) DEF IInv, TInv, CountInv, Counted
  <2>2. S \subseteq OpenSet
    BY Zenon DEF OpenSet
  <2>3. IsFiniteSet(S) /\ Cardinality(S) <= Cardinality(OpenSet)
    BY <2>2, Finite, FS_Subset, Zenon
  <2>4. Cardinality(S) \in Nat
    BY <2>3, FS_CardinalityType, Zenon
  <2> HIDE DEF S
  <2>5. Cardinality(S) <= max_connections
    BY <2>1, <2>3, <2>4, TcpServerAssumption
  <2> QED
    BY <2>5, Zenon DEF S, WithinLimit
<1> QED
  BY <1>1, Inductive, PTL

\* After stop() each accept loop lets in at most one more connection.
THEOREM StopBounds == Spec => []StopLetsInOne
<1>1. IInv => StopLetsInOne
  BY DEF IInv, ExtraInv, Bounded, StopLetsInOne, Started
<1> QED
  BY <1>1, Inductive, PTL

-----------------------------------------------------------------------------
(* The connections that the client's pool counts. *)

LEMMA SendersFinite == IsFiniteSet(Senders) /\ Cardinality(Senders) \in Nat
<1>1. Senders \subseteq Tasks
  BY Zenon DEF Senders
<1> QED
  BY <1>1, ClientSizes, FS_Subset, FS_CardinalityType, Zenon

LEMMA ClientInvInit == C!Init => ClientInv
<1> SUFFICES ASSUME C!Init PROVE ClientInv
  BY Zenon
<1>1. ClientTypes
  BY ClientSizes DEF C!Init, ClientTypes, TaskOK, C!Sockets, Where, ConnStates
<1>2. Flags
  BY Zenon DEF C!Init, Flags
<1>3. PoolInv
  <2>1. Senders = {} /\ Cardinality(Senders) = 0
    BY FS_EmptySet, Zenon DEF C!Init, Senders, C!InOperation
  <2> QED
    BY <2>1, ClientSizes, SMTT(30) DEF C!Init, PoolInv, C!BlockedByHolders
<1>4. SocketInv
  BY Zenon DEF C!Init, SocketInv, SocketOK, Connecting
<1>5. SerialCalls
  BY Zenon DEF C!Init, SerialCalls, UsesOwn, SaysConnected, C!InOperation
<1> QED
  BY <1>1, <1>2, <1>3, <1>4, <1>5, Zenon DEF ClientInv

\* The pool makes a connection, which counts, on a new socket.
LEMMA PooledStarts ==
  ASSUME ClientInv, NEW t \in Tasks, NEW where \in C!InOperation, C!Call(t, where), pool_, ~C!PoolFull, sockets < MaxSockets
  PROVE  ClientInv'
<1> PICK n : n = sockets + 1
  BY Zenon
<1>0. /\ pc[t] = "idle" /\ C!CallMade /\ C!Replace(0, n, "Connected")
      /\ total_connections_' = total_connections_ + 1 /\ C!Step(t, where, n, 0)
      /\ UNCHANGED <<auto_reconnect, enable_connection_pool, connected_, connection_, pool_, blocked,
                     established, no_socket, uaf, null_use>>
  BY Zenon DEF C!Call, C!OperatePooled, C!config
<1>1. /\ enable_connection_pool /\ ~null_use /\ ~blocked
      /\ total_connections_ = Cardinality(Senders) /\ total_connections_ + 1 \in 0..pool_size
  <2>1. enable_connection_pool /\ ~null_use /\ ~blocked
    BY <1>0, Zenon DEF ClientInv, PoolInv, C!CallMade, C!LoopRuns
  <2> QED
    BY <2>1, ClientSizes, SMTT(30) DEF ClientInv, PoolInv, C!PoolFull
<1>types. ClientTypes /\ connection_ \in 0..sockets
  BY Zenon DEF ClientInv, ClientTypes
<1>2. /\ n \in C!Sockets /\ n \in 0..MaxSockets /\ n > sockets
      /\ n \in 0..n /\ n \in 1..n /\ n # 0
      /\ \A c \in 0..sockets : c \in 0..n /\ c # n
      /\ \A c \in 1..sockets : c \in 1..n /\ c # n
      /\ \A s \in C!Sockets : s > n => s > sockets
  BY <1>types, NewNumber, Zenon
<1>3. /\ pc' \in [Tasks -> Where] /\ obj' \in [Tasks -> 0..MaxSockets]
      /\ tries' \in [Tasks -> 0..max_reconnect_attempts]
      /\ pc'[t] = where /\ obj'[t] = n
      /\ \A u \in Tasks : u # t => pc'[u] = pc[u] /\ obj'[u] = obj[u]
  <2>1. 0 \in 0..max_reconnect_attempts /\ where \in Where
    BY <1>types, Numbers, ZenonT(30) DEF Where
  <2> QED
    BY <1>types, <1>0, <1>2, <2>1, TaskMoves, Zenon
<1>4. /\ sockets' = n /\ conn_state'[n] = "Connected"
      /\ \A s \in C!Sockets : s # n => conn_state'[s] = conn_state[s] /\ fd_open'[s] = fd_open[s]
      /\ \A s \in C!Sockets : freed'[s] = freed[s]
  <2>1. \A s \in C!Sockets : s # 0
    BY <1>types, Numbers, ZenonT(30)
  <2> QED
    BY <1>types, <1>0, <1>2, <2>1, ZenonT(30) DEF C!Replace, ClientTypes
<1>5. ClientTypes'
  <2>1. conn_state' \in [C!Sockets -> ConnStates]
    BY <1>types, <1>0, <1>2, Zenon DEF C!Replace, ClientTypes, ConnStates
  <2>2. fd_open' \in [C!Sockets -> BOOLEAN] /\ freed' \in [C!Sockets -> BOOLEAN]
    BY <1>types, <1>0, ZenonT(30) DEF C!Replace, ClientTypes
  <2>3. ASSUME NEW u \in Tasks PROVE TaskOK(u)'
    <3>1. CASE u = t
      <4>1. pc'[u] = where /\ obj'[u] \in 1..sockets'
        BY <1>2, <1>3, <1>4, <3>1, ZenonT(30)
      <4> QED
        BY <4>1, ZenonT(30) DEF TaskOK, C!InOperation
    <3>2. CASE u # t
      <4>1. pc'[u] = pc[u] /\ obj'[u] = obj[u] /\ TaskOK(u)
        BY <1>types, <1>3, <3>2, Zenon DEF ClientTypes
      <4>2. \A c \in 1..sockets : c \in 1..sockets'
        BY <1>2, <1>4, Zenon
      <4> QED
        BY <4>1, <4>2, ZenonT(30) DEF TaskOK
    <3> QED
      BY <3>1, <3>2, Zenon
  <2>4. connection_' \in 0..sockets' /\ sockets' \in 0..MaxSockets
    BY <1>types, <1>0, <1>2, <1>4, Zenon
  <2> QED
    BY <1>3, <2>1, <2>2, <2>3, <2>4, Zenon DEF ClientTypes
<1>6. Alone(t) /\ overlap' \in BOOLEAN
  BY <1>0, CallAlone, ZenonT(30)
<1>7. Flags'
  BY <1>0, <1>6, ZenonT(30) DEF ClientInv, Flags
<1>8. PoolInv'
  <2>1. Senders' = Senders \cup {t} /\ t \notin Senders
    BY <1>0, <1>3, Zenon DEF Senders, C!InOperation
  <2>2. Cardinality(Senders') = Cardinality(Senders) + 1
    BY <2>1, SendersFinite, FS_AddElement, ZenonT(30)
  <2>3. \A u \in Tasks : pc'[u] \in {"idle"} \cup C!InOperation
    BY <1>1, <1>3, Zenon DEF ClientInv, PoolInv
  <2> QED
    BY <1>0, <1>1, <2>2, <2>3, ZenonT(30) DEF ClientInv, PoolInv, C!BlockedByHolders
<1>9. SocketInv'
  <2>0. SocketInv
    BY Zenon DEF ClientInv
  <2>1. established \subseteq 1..sockets
    BY <2>0, ZenonT(30) DEF SocketInv
  <2>2. established' \subseteq 1..sockets'
    BY <1>0, <1>2, <1>4, <2>1, Zenon
  <2>3. ASSUME NEW s \in C!Sockets PROVE SocketOK(s)'
    <3>1. SocketOK(s)
      BY <2>0, ZenonT(30) DEF SocketInv
    <3>2. CASE s = n
      <4>1. ~freed[s]
        BY <1>2, <3>1, <3>2, ZenonT(30) DEF SocketOK
      <4> QED
        BY <1>4, <3>2, <4>1, Zenon DEF SocketOK
    <3>3. CASE s # n
      <4>1. s > sockets' => s > sockets
        BY <1>2, <1>4, ZenonT(30)
      <4> QED
        BY <1>0, <1>4, <3>1, <3>3, <4>1, ZenonT(30) DEF SocketOK
    <3> QED
      BY <3>2, <3>3, ZenonT(30)
  <2>4. \A u \in Tasks : Connecting(u)'
    BY <1>1, <1>3, ZenonT(30) DEF ClientInv, PoolInv, Connecting, C!InOperation
  <2> QED
    BY <2>2, <2>3, <2>4, ZenonT(30) DEF SocketInv
<1>10. ~overlap' => SerialCalls'
  <2>1. SerialCalls /\ ~no_socket' => ~null_use'
    BY <1>0, ZenonT(30) DEF SerialCalls
  <2>2. pool_' /\ ~freed'[obj'[t]]
    BY <1>0, <1>2, <1>3, <1>4, ZenonT(30) DEF ClientInv, SocketInv, SocketOK
  <2> QED
    BY <1>0, <1>1, <1>3, <1>6, <2>1, <2>2, PooledSerial, Zenon
<1> QED
  BY <1>5, <1>7, <1>8, <1>9, <1>10, Zenon DEF ClientInv

\* The connection is dropped, and the pool told of it if disconnect() has not reset pool_.
LEMMA PooledErrsKeeps ==
  ASSUME ClientInv, NEW t \in Tasks, C!PooledErrs(t)
  PROVE  ClientInv'
<1>0. /\ pc[t] \in C!InOperation /\ enable_connection_pool /\ ~null_use /\ ~blocked
      /\ C!Drop(obj[t]) /\ C!Close(obj[t]) /\ C!Step(t, "idle", 0, 0)
      /\ IF pool_ THEN total_connections_' = total_connections_ - 1 /\ null_use' = null_use
                  ELSE null_use' = TRUE /\ total_connections_' = total_connections_
      /\ UNCHANGED <<auto_reconnect, enable_connection_pool, connected_, connection_, pool_, sockets,
                     blocked, overlap, established, no_socket, uaf>>
  BY Zenon DEF C!PooledErrs, C!LoopRuns, C!config, C!Drop
<1>1. obj[t] \in 1..sockets /\ obj[t] \in 0..sockets
  <2>1. obj[t] \in 1..sockets
    BY <1>0, ObjIsSocket, ZenonT(30) DEF ClientInv
  <2> QED
    BY <2>1, SMTT(30)
<1>2. /\ pc' \in [Tasks -> Where] /\ obj' \in [Tasks -> 0..MaxSockets]
      /\ tries' \in [Tasks -> 0..max_reconnect_attempts]
      /\ pc'[t] = "idle" /\ obj'[t] = 0
      /\ \A u \in Tasks : u # t => pc'[u] = pc[u] /\ obj'[u] = obj[u]
  <2>1. ClientTypes /\ 0 \in 0..max_reconnect_attempts /\ 0 \in 0..MaxSockets /\ "idle" \in Where
    BY ClientSizes, SMTT(30) DEF ClientInv, Where
  <2> QED
    BY <1>0, <2>1, TaskMoves, Zenon
<1>3. /\ conn_state' \in [C!Sockets -> ConnStates] /\ fd_open' \in [C!Sockets -> BOOLEAN]
      /\ freed' \in [C!Sockets -> BOOLEAN]
      /\ \A s \in C!Sockets : freed'[s] => freed[s] \/ s = obj[t]
  BY <1>0, <1>1, CloseActs, DropActs, ZenonT(30) DEF ClientInv
<1>4. ClientTypes'
  BY <1>0, <1>2, <1>3, ZenonT(30) DEF ClientInv, ClientTypes, TaskOK
<1>5. Flags'
  BY <1>0, ZenonT(30) DEF ClientInv, Flags
<1>6. PoolInv'
  <2>1. Senders' = Senders \ {t} /\ t \in Senders
    BY <1>0, <1>2, Zenon DEF Senders, C!InOperation
  <2>2. Cardinality(Senders') = Cardinality(Senders) - 1 /\ Cardinality(Senders') \in Nat
    <3>1. IsFiniteSet(Senders')
      BY <2>1, SendersFinite, FS_Subset, ZenonT(30)
    <3> QED
      BY <2>1, <3>1, SendersFinite, FS_RemoveElement, FS_CardinalityType, ZenonT(30)
  <2>3. \A u \in Tasks : pc'[u] \in {"idle"} \cup C!InOperation
    BY <1>0, <1>2, ZenonT(30) DEF ClientInv, PoolInv
  <2>4. total_connections_ = Cardinality(Senders) /\ total_connections_ \in 0..pool_size
    BY <1>0, Zenon DEF ClientInv, PoolInv
  <2>5. total_connections_' \in 0..pool_size
        /\ (~null_use' => total_connections_' = Cardinality(Senders'))
    <3>1. CASE pool_
      <4>1. total_connections_' = total_connections_ - 1
        BY <1>0, <3>1, ZenonT(30)
      <4>2. total_connections_' = Cardinality(Senders') /\ total_connections_' \in Nat
        BY <2>2, <2>4, <4>1, ZenonT(30)
      <4> QED
        BY <2>4, <4>1, <4>2, ClientSizes, SMTT(30)
    <3>2. CASE ~pool_
      <4>1. null_use' = TRUE /\ total_connections_' = total_connections_
        BY <1>0, <3>2, ZenonT(30)
      <4> QED
        BY <2>4, <4>1, ZenonT(30)
    <3> QED
      BY <3>1, <3>2, Zenon
  <2> QED
    BY <1>0, <2>3, <2>5, Zenon DEF ClientInv, PoolInv, C!BlockedByHolders
<1>7. SocketInv'
  BY <1>0, <1>1, <1>2, <1>3, CloseKeepsSockets, ZenonT(30)
<1>8. Alone(t)
  BY <1>0, OtherAlone, ZenonT(30) DEF C!InOperation
<1>9. ~overlap' => SerialCalls'
  <2>1. SerialCalls => ~null_use'
    BY <1>0, Zenon DEF SerialCalls, UsesOwn
  <2> QED
    BY <1>0, <1>2, <1>8, <2>1, PooledSerial, ZenonT(30) DEF C!InOperation
<1> QED
  BY <1>4, <1>5, <1>6, <1>7, <1>9, ZenonT(30) DEF ClientInv

LEMMA CallKeeps ==
  ASSUME ClientInv, NEW t \in Tasks, NEW where \in C!InOperation, C!Call(t, where)
  PROVE  ClientInv'
<1>1. CASE pool_
  BY <1>1, PooledWaits, PooledNull, PooledStarts, ZenonT(30)
<1>2. CASE ~pool_
  <2>1. /\ pc[t] = "idle" /\ C!CallMade /\ C!Operate(t, where) /\ UNCHANGED connections
        /\ no_socket' = no_socket /\ uaf' = uaf
    BY <1>2, Zenon DEF C!Call, C!config, C!conns, connections
  <2>2. Alone(t) /\ overlap' \in BOOLEAN
    BY <2>1, CallAlone, ZenonT(30)
  <2>3. uaf' \in BOOLEAN /\ (~overlap' => ~uaf')
    BY <2>1, <2>2, ZenonT(30) DEF ClientInv, Flags, Alone, SerialCalls
  <2> QED
    BY <2>1, <2>2, <2>3, OperateKeeps, ZenonT(30)
<1> QED
  BY <1>1, <1>2, Zenon

LEMMA ClientInvNext == ClientInv /\ [C!Next]_(C!vars) => ClientInv'
<1> SUFFICES ASSUME ClientInv, [C!Next]_(C!vars) PROVE ClientInv'
  BY Zenon
<1>1. ASSUME NEW t \in Tasks,
             \/ C!connect(t) \/ C!ConnectCompletes(t) \/ C!SleepEnds(t)
             \/ C!send(t) \/ C!recv(t) \/ C!send_all(t) \/ C!request(t)
             \/ C!OperationCompletes(t) \/ C!SendCompletes(t) \/ C!PartSent(t)
             \/ C!OperationErrs(t) \/ C!PooledErrs(t)
      PROVE  ClientInv'
  <2>1. CASE C!send(t) \/ C!recv(t) \/ C!send_all(t) \/ C!request(t)
    <3>1. \E where \in C!InOperation : C!Call(t, where)
      BY <2>1, Zenon DEF C!send, C!recv, C!send_all, C!request, C!InOperation
    <3> QED
      BY <3>1, CallKeeps, Zenon
  <2> QED
    BY <1>1, <2>1, ConnectKeeps, ConnectCompletesKeeps, SendCompletesKeeps, OperationCompletesKeeps,
       PartSentKeeps, OperationErrsKeeps, PooledErrsKeeps, Zenon
<1>2. CASE UNCHANGED C!vars
  <2>1. UNCHANGED <<auto_reconnect, enable_connection_pool, connected_, connection_, pool_, conn_state,
                    fd_open, freed, sockets, total_connections_, pc, obj, tries, blocked, established,
                    overlap, no_socket, uaf, null_use>>
    BY <1>2, Zenon DEF C!vars, C!config, C!conns, C!tasks, C!history
  <2>2. ClientTypes' /\ Flags'
    BY <2>1, ZenonT(30) DEF ClientInv, ClientTypes, TaskOK, Flags
  <2>3. PoolInv'
    BY <2>1, Zenon DEF ClientInv, PoolInv, Senders, C!BlockedByHolders
  <2>4. SocketInv'
    BY <2>1, ZenonT(30) DEF ClientInv, SocketInv, SocketOK, Connecting
  <2>5. ~overlap' => SerialCalls'
    BY <2>1, Zenon DEF ClientInv, SerialCalls, UsesOwn, SaysConnected, Reconnects, C!Idle
  <2> QED
    BY <2>2, <2>3, <2>4, <2>5, Zenon DEF ClientInv
<1> QED
  BY <1>1, <1>2, DisconnectKeeps, ZenonT(30) DEF C!Next

LEMMA ClientInvCorrect == C!Spec => []ClientInv
BY ClientInvInit, ClientInvNext, PTL DEF C!Spec

\* Whatever coroutines share a client, however its connects fail and its operations break: calls
\* that do not overlap never come back to a destroyed Connection or a null pool_, connected() is
\* right after them, and an established connection is closed when it is dropped.
THEOREM ClientIsSound == C!Spec => []ClientSound
<1>1. ASSUME ClientInv PROVE C!TypeOK
  BY <1>1, Zenon DEF ClientInv, ClientTypes, TaskOK, Flags, PoolInv, C!TypeOK, Where, ConnStates
<1>2. ASSUME ClientInv PROVE C!ClientSound
  <2>1. ASSUME NEW s \in C!Sockets, freed[s], s \in established PROVE ~fd_open[s]
    BY <1>2, <2>1, Zenon DEF ClientInv, SocketInv, SocketOK
  <2>2. ASSUME ~overlap
        PROVE  /\ ~uaf
               /\ ~no_socket => ~null_use
               /\ C!Idle /\ ~no_socket /\ Reconnects => SaysConnected
    BY <1>2, <2>2, ZenonT(30) DEF ClientInv, SerialCalls
  <2> QED
    BY <2>1, <2>2, Zenon DEF C!ClientSound, Reconnects, SaysConnected
<1>3. ClientInv => ClientSound
  BY <1>1, <1>2, ZenonT(30) DEF ClientSound
<1> QED
  BY <1>3, ClientInvCorrect, PTL

\* send() in pool mode blocks the event loop's thread only while pool_size coroutines of that
\* loop hold a connection each, whatever their number and however disconnect() and connect()
\* reset the client's pool.
THEOREM LoopBlockedByHolders == C!Spec => []BlockedByHolders
<1>1. ClientInv => BlockedByHolders
  BY Zenon DEF ClientInv, PoolInv, BlockedByHolders
<1> QED
  BY <1>1, ClientInvCorrect, PTL
=============================================================================
