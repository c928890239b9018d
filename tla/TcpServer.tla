----------------------------- MODULE TcpServer ------------------------------
(***************************************************************************)
(* net/tcp_server.hpp and the life of the Connections it creates           *)
(* (net/connection.hpp): start and stop from any thread, the accept loop   *)
(* and the handlers on the event loop, and close(), which the handler, a   *)
(* failing read and any other holder of the connection may call at the     *)
(* same time.  A coroutine spawned on the loop is taken to live until it   *)
(* ends (see EventLoop for what spawn() does to it).                       *)
(***************************************************************************)
EXTENDS Integers, FiniteSets

CONSTANTS Clients,           \* clients, each connecting once
          max_connections,   \* TcpServerConfig
          MaxStarts          \* bound: successful calls of start()

ASSUME TcpServerAssumption ==
  IsFiniteSet(Clients) /\ max_connections \in Nat /\ MaxStarts \in Nat

Loops == 1..MaxStarts
Closers == {"handler", "user"}

VARIABLES running_, connections_, total_accepted_,
          listen_fd_,    \* number of the listening socket, 0 for -1
          starting,      \* sockets of the start() calls under way
          stopping,      \* stop() calls under way
          leaked,        \* listening sockets whose descriptor was overwritten
          has_handler,   \* connection_handler_ is set
          starts,        \* listening sockets made so far
          loop,          \* accept loop: none, posted, test, submit, accept, ended
          accept_fd,     \* the socket its pending accept works on
          client,        \* new, queued, refused, posted, handling, done
          queued_on,     \* the socket in whose backlog the client is
          state_,        \* ConnectionState of the server's Connection to the client
          callback,      \* its close_callback_ is set
          closing,       \* who is between the CAS and the store of Closed in close()
          calling,       \* who is between that store and the end of the callback
          peer_closed,   \* clients that have closed their side
          extra          \* history: connections accepted since stop()

vars == <<running_, connections_, total_accepted_, listen_fd_, starting, stopping, leaked, has_handler,
          starts, loop, accept_fd, client, queued_on, state_, callback, closing, calling, peer_closed,
          extra>>
server == <<running_, listen_fd_, starting, stopping, leaked, has_handler, starts>>
counters == <<connections_, total_accepted_, extra>>
conns == <<state_, callback, closing, calling>>

Init ==
  /\ running_ = FALSE /\ connections_ = 0 /\ total_accepted_ = 0
  /\ listen_fd_ = 0 /\ starting = {} /\ stopping = 0 /\ leaked = {}
  /\ has_handler \in BOOLEAN /\ starts = 0
  /\ loop = [l \in Loops |-> "none"] /\ accept_fd = [l \in Loops |-> 0]
  /\ client = [c \in Clients |-> "new"] /\ queued_on = [c \in Clients |-> 0]
  /\ state_ = [c \in Clients |-> "Disconnected"]
  /\ callback = [c \in Clients |-> FALSE]
  /\ closing = [c \in Clients |-> {}] /\ calling = [c \in Clients |-> {}]
  /\ peer_closed = {} /\ extra = 0

(***************************************************************************)
(* start() and stop(), from any thread.  The test of running_ and its      *)
(* store are steps of their own, and so is the closing of listen_fd_.      *)
(***************************************************************************)
start ==
  /\ ~running_ /\ starts < MaxStarts
  /\ starts' = starts + 1 /\ listen_fd_' = starts + 1
  /\ starting' = starting \cup {starts + 1}
  /\ leaked' = leaked \cup ({listen_fd_} \ {0})
  /\ UNCHANGED <<running_, stopping, has_handler, counters, loop, accept_fd, client, queued_on, conns,
                 peer_closed>>

\* socket, bind or listen has failed
StartFails(g) ==
  /\ g \in starting
  /\ starting' = starting \ {g} /\ listen_fd_' = 0
  /\ UNCHANGED <<running_, stopping, leaked, has_handler, starts, counters, loop, accept_fd, client,
                 queued_on, conns, peer_closed>>

StartRuns(g) ==
  /\ g \in starting
  /\ starting' = starting \ {g}
  /\ running_' = TRUE
  /\ loop' = [loop EXCEPT ![g] = "posted"]
  /\ extra' = 0
  /\ UNCHANGED <<listen_fd_, stopping, leaked, has_handler, starts, connections_, total_accepted_,
                 accept_fd, client, queued_on, conns, peer_closed>>

stop ==
  /\ running_
  /\ running_' = FALSE /\ stopping' = stopping + 1
  /\ UNCHANGED <<listen_fd_, starting, leaked, has_handler, starts, loop, accept_fd, client, queued_on,
                 conns, counters, peer_closed>>

StopCloses ==
  /\ stopping > 0
  /\ stopping' = stopping - 1 /\ listen_fd_' = 0
  /\ UNCHANGED <<running_, starting, leaked, has_handler, starts, loop, accept_fd, client, queued_on,
                 conns, counters, peer_closed>>

(***************************************************************************)
(* The clients.  A listening socket lives as long as its descriptor, which *)
(* is never closed if it was overwritten, or a pending accept.             *)
(***************************************************************************)
Listening(g) ==
  /\ g > 0 /\ g \notin starting
  /\ listen_fd_ = g \/ g \in leaked \/ \E l \in Loops : loop[l] = "accept" /\ accept_fd[l] = g

ClientConnects(c) ==
  /\ client[c] = "new"
  /\ \E g \in Loops : Listening(g) /\ queued_on' = [queued_on EXCEPT ![c] = g]
  /\ client' = [client EXCEPT ![c] = "queued"]
  /\ UNCHANGED <<server, counters, loop, accept_fd, conns, peer_closed>>

ClientCloses(c) ==
  /\ client[c] # "new" /\ c \notin peer_closed
  /\ peer_closed' = peer_closed \cup {c}
  /\ UNCHANGED <<server, counters, loop, accept_fd, client, queued_on, conns>>

(***************************************************************************)
(* accept_loop.  The condition of the while, the read of listen_fd_ and    *)
(* the completion are separate steps: stop() can come between them.        *)
(***************************************************************************)
Goto(l, pc) == loop' = [loop EXCEPT ![l] = pc]

TestRunning(l) ==
  /\ loop[l] \in {"posted", "test"}
  /\ Goto(l, IF running_ THEN "submit" ELSE "ended")
  /\ UNCHANGED <<server, counters, accept_fd, client, queued_on, conns, peer_closed>>

SubmitAccept(l) ==
  /\ loop[l] = "submit"
  /\ Goto(l, "accept")
  /\ accept_fd' = [accept_fd EXCEPT ![l] = listen_fd_]
  /\ UNCHANGED <<server, counters, client, queued_on, conns, peer_closed>>

AcceptFails(l) ==
  /\ loop[l] = "accept"
  /\ Goto(l, "test")
  /\ UNCHANGED <<server, counters, accept_fd, client, queued_on, conns, peer_closed>>

\* mutant: one connection too many
LimitReachedOffByOne == connections_ > max_connections
LimitReached == connections_ >= max_connections

Refuse(l, c) ==
  /\ LimitReached
  /\ client' = [client EXCEPT ![c] = "refused"]
  /\ UNCHANGED <<counters, conns>>

\* Connection::create; without a handler the last reference goes at once, and
\* the destructor closes the socket with no callback set
Admit(l, c) ==
  /\ ~LimitReached
  /\ connections_' = connections_ + 1 /\ total_accepted_' = total_accepted_ + 1
  /\ extra' = IF running_ THEN extra ELSE extra + 1
  /\ client' = [client EXCEPT ![c] = IF has_handler THEN "posted" ELSE "done"]
  /\ state_' = [state_ EXCEPT ![c] = IF has_handler THEN "Connected" ELSE "Closed"]
  /\ UNCHANGED <<callback, closing, calling>>

\* mutant: the loop goes on to the next accept without testing running_
AcceptedNoTest(l, c) ==
  /\ loop[l] = "accept" /\ client[c] = "queued" /\ queued_on[c] = accept_fd[l]
  /\ Refuse(l, c) \/ Admit(l, c)
  /\ UNCHANGED <<server, loop, accept_fd, queued_on, peer_closed>>
Accepted(l, c) ==
  /\ loop[l] = "accept" /\ client[c] = "queued" /\ queued_on[c] = accept_fd[l]
  /\ Goto(l, "test")
  /\ Refuse(l, c) \/ Admit(l, c)
  /\ UNCHANGED <<server, accept_fd, queued_on, peer_closed>>

(***************************************************************************)
(* Connection::close: the CAS from Connected to Closing, the closing of    *)
(* the socket with the store of Closed, and the callback.                  *)
(***************************************************************************)
CloseCas(c, who) ==
  IF state_[c] = "Connected"
  THEN /\ state_' = [state_ EXCEPT ![c] = "Closing"]
       /\ closing' = [closing EXCEPT ![c] = @ \cup {who}]
  ELSE UNCHANGED <<state_, closing>>

CloseFinish(c, who) ==
  /\ who \in closing[c]
  /\ closing' = [closing EXCEPT ![c] = @ \ {who}] /\ calling' = [calling EXCEPT ![c] = @ \cup {who}]
  /\ state_' = [state_ EXCEPT ![c] = "Closed"]
  /\ UNCHANGED <<server, counters, loop, accept_fd, client, queued_on, callback, peer_closed>>

\* mutant: the callback is not called
CloseCallbackSkipped(c, who) ==
  /\ who \in calling[c]
  /\ calling' = [calling EXCEPT ![c] = @ \ {who}]
  /\ UNCHANGED <<server, counters, loop, accept_fd, client, queued_on, state_, callback, closing,
                 peer_closed>>
CloseCallback(c, who) ==
  /\ who \in calling[c]
  /\ calling' = [calling EXCEPT ![c] = @ \ {who}]
  /\ connections_' = IF callback[c] THEN connections_ - 1 ELSE connections_
  /\ UNCHANGED <<server, total_accepted_, extra, loop, accept_fd, client, queued_on, state_, callback,
                 closing, peer_closed>>

\* who is not in close() already
Free(c, who) == who \notin closing[c] \cup calling[c]

\* the handler coroutine starts: it sets the close callback and calls the handler
HandlerBegins(c) ==
  /\ client[c] = "posted"
  /\ client' = [client EXCEPT ![c] = "handling"]
  /\ callback' = [callback EXCEPT ![c] = TRUE]
  /\ UNCHANGED <<server, counters, loop, accept_fd, queued_on, state_, closing, calling, peer_closed>>

\* mutant: a read that returns 0 is not taken for the end
HandlerIoFailsIgnored(c) == UNCHANGED vars
\* a read or write of the handler fails: handle_error() closes
HandlerIoFails(c) ==
  /\ client[c] = "handling" /\ Free(c, "handler") /\ state_[c] = "Connected"
  /\ c \in peer_closed
  /\ CloseCas(c, "handler")
  /\ UNCHANGED <<server, counters, loop, accept_fd, client, queued_on, callback, calling, peer_closed>>

\* the handler returns or throws; conn->close() follows
HandlerEnds(c) ==
  /\ client[c] = "handling" /\ Free(c, "handler")
  /\ client' = [client EXCEPT ![c] = "done"]
  /\ CloseCas(c, "handler")
  /\ UNCHANGED <<server, counters, loop, accept_fd, queued_on, callback, calling, peer_closed>>

\* another holder of the connection closes it
UserCloses(c) ==
  /\ client[c] = "handling" /\ state_[c] # "Closed" /\ Free(c, "user")
  /\ CloseCas(c, "user")
  /\ UNCHANGED <<server, counters, loop, accept_fd, client, queued_on, callback, calling, peer_closed>>

LoopStep(l) ==
  \/ TestRunning(l) \/ SubmitAccept(l) \/ AcceptFails(l)
  \/ \E c \in Clients : Accepted(l, c)
HandlerStep(c) ==
  \/ HandlerBegins(c) \/ HandlerIoFails(c)
  \/ \E who \in Closers : CloseFinish(c, who) \/ CloseCallback(c, who)

Next ==
  \/ start \/ stop \/ StopCloses
  \/ \E g \in Loops : StartFails(g) \/ StartRuns(g)
  \/ \E l \in Loops : LoopStep(l)
  \/ \E c \in Clients : \/ ClientConnects(c) \/ ClientCloses(c)
                        \/ HandlerStep(c) \/ HandlerEnds(c) \/ UserCloses(c)

\* The event loop runs what is ready; a read on a connection whose peer has
\* closed returns; close() goes through.  No handler has to end by itself.
Spec == Init /\ [][Next]_vars /\ \A c \in Clients : WF_vars(HandlerStep(c))

-----------------------------------------------------------------------------
Open(c) == state_[c] \in {"Connected", "Closing"}

\* Every variable has its type; the count of connections never wraps below 0.
TypeOK ==
  /\ running_ \in BOOLEAN /\ has_handler \in BOOLEAN
  /\ connections_ \in 0..Cardinality(Clients) /\ total_accepted_ \in 0..Cardinality(Clients)
  /\ starting \subseteq Loops /\ leaked \subseteq Loops /\ stopping \in Nat
  /\ listen_fd_ \in 0..MaxStarts /\ starts \in 0..MaxStarts /\ extra \in Nat
  /\ loop \in [Loops -> {"none", "posted", "test", "submit", "accept", "ended"}]
  /\ accept_fd \in [Loops -> 0..MaxStarts] /\ queued_on \in [Clients -> 0..MaxStarts]
  /\ client \in [Clients -> {"new", "queued", "refused", "posted", "handling", "done"}]
  /\ state_ \in [Clients -> {"Disconnected", "Connected", "Closing", "Closed"}]
  /\ callback \in [Clients -> BOOLEAN] /\ closing \in [Clients -> SUBSET Closers]
  /\ calling \in [Clients -> SUBSET Closers]
  /\ peer_closed \subseteq Clients

\* active_connections() is the number of open connections and of those whose closer has
\* not called back yet, if a handler is set: each connection is counted once when it is
\* admitted and given back once, whoever closes it and however the closers interleave.
\* (Without a handler nothing is ever given back: the count is then that of all admitted.)
ActiveCount ==
  connections_ = IF has_handler THEN Cardinality({c \in Clients : Open(c) \/ calling[c] # {}})
                                ELSE total_accepted_

\* The server never holds more than max_connections sockets open, also while accept loops
\* of an earlier start(), or of one that ran at the same time, wait for a connection.
WithinLimit == Cardinality({c \in Clients : Open(c)}) <= max_connections

\* stop() does not cancel a pending accept: after it, each accept loop may let
\* in one more connection, and no more.
StopLetsInOne == ~running_ => extra <= Cardinality({l \in Loops : loop[l] # "none"})

\* A connection whose peer has closed is closed and given back, unless the
\* server never got to its handler.
GivenBack ==
  \A c \in Clients : (client[c] = "handling" /\ c \in peer_closed)
                       ~> (state_[c] = "Closed" /\ calling[c] = {})
=============================================================================
