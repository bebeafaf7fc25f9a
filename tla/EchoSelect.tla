------------------------------ MODULE EchoSelect ------------------------------
(***************************************************************************)
(* The echo measurement of Ex2: a server with one select loop for all its  *)
(* clients, which ends when nobody has come for 30 seconds and nobody is   *)
(* left, and clients with up to MAX_PARALLEL_STREAMS sockets each          *)
(* (server.cpp, client.cpp).  A client process does one blocking call      *)
(* after another: for the throughput it sends a packet on every socket     *)
(* before it receives on any, for the latency it sends and receives on one *)
(* socket after the other.                                                 *)
(***************************************************************************)
EXTENDS TcpStream, Sequences

CONSTANTS
  Clients, STREAMS,   \* num_of_streams of every client
  SIZES,              \* the packet sizes, that of the warm-up first
  PACKETS,            \* RTT_NUM_OF_CYCLES * RTT_PACKETS_PER_CYCLE
  BUFFER,             \* MAX_PACKET_SIZE_BYTES
  BACKLOG,            \* connections the kernel holds for the welcome socket
  Stoppable,          \* clients that may be stopped at any time
  NULL

ASSUME SelectAssumption ==
  /\ STREAMS \in [Clients -> Nat \ {0}]
  /\ Sockets = UNION {{c} \X (1 .. STREAMS[c]) : c \in Clients}
  /\ SIZES \in Seq(Nat \ {0}) /\ SIZES # <<>> /\ PACKETS \in Nat \ {0}
  /\ BUFFER \in Nat \ {0} /\ BACKLOG \in Nat \ {0}
  /\ Stoppable \subseteq Clients /\ NULL \notin Sockets

VARIABLES
  spc, sockets,       \* the server; clients_sockets
  ready, target, held,\* read_fds still to visit; the socket echoed to, its bytes
  cpc, stream,        \* what a client calls, and on which of its sockets
  phase, todo, left,  \* its size, packets of the throughput, bytes to send
  owed,               \* of each socket: bytes sent and not received back
  short               \* history: some recv has returned less than its packet

serverVars == <<spc, sockets, ready, target, held>>
clientVars == <<cpc, stream, phase, todo, left>>
vars == <<serverVars, clientVars, netVars, owed, short>>

Init ==
  /\ spc = "start" /\ sockets = {} /\ ready = {} /\ target = NULL /\ held = 0
  /\ cpc = [c \in Clients |-> "connect"] /\ stream = [c \in Clients |-> 1]
  /\ phase = [c \in Clients |-> 0] /\ todo = [c \in Clients |-> 0]
  /\ left = [c \in Clients |-> 0]
  /\ NetInit
  /\ owed = [s \in Sockets |-> 0] /\ short = FALSE

(***************************************************************************)
(* The server                                                              *)
(***************************************************************************)

\* The process is gone, and with it every connection.
ServerGone(how) ==
  /\ spc' = how
  /\ conn' = [s \in Sockets |-> IF conn[s] = "none" THEN "none" ELSE "reset"]

Listen ==
  /\ spc = "start" /\ spc' = "select"
  /\ UNCHANGED <<sockets, ready, target, held, clientVars, netVars, owed, short>>

\* Connections nobody has accepted, also if their client has closed them.
Waiting == {s \in Sockets : conn[s] \in {"queued", "finished"} /\ s \notin sockets}

BugOnlyData(s) == up[s].in > 0

Readable(s) ==
  \/ up[s].in > 0 \/ conn[s] = "reset"
  \/ conn[s] = "finished" /\ InFlight(up[s]) = 0

BugNotTheLast == IF sockets = {} THEN {} ELSE sockets \ {CHOOSE s \in sockets : TRUE}

\* select looks at all descriptors up to the highest.
Watched == sockets

Select ==
  /\ spc = "select"
  /\ ready' = {s \in Watched : Readable(s)}
  /\ \/ Waiting # {} /\ spc' = "accept"
     \/ Waiting = {} /\ ready' # {} /\ spc' = "visit"
  /\ UNCHANGED <<sockets, target, held, clientVars, netVars, owed, short>>

\* Nothing happened for 30 seconds.  With clients the loop just goes on.
TimesOut ==
  /\ spc = "select" /\ Waiting = {} /\ sockets = {}
  /\ spc' = "leaving"
  /\ UNCHANGED <<sockets, ready, target, held, clientVars, netVars, owed, short>>

\* A client that has connected meanwhile is turned away.
KillServer ==
  /\ spc = "leaving"
  /\ ServerGone("ended")
  /\ UNCHANGED <<sockets, ready, target, held, clientVars, up, down, owed, short>>

Accept(s) ==
  /\ spc = "accept" /\ s \in Waiting
  /\ sockets' = sockets \cup {s}
  /\ conn' = [conn EXCEPT ![s] = IF @ = "queued" THEN "open" ELSE @]
  /\ spc' = "visit"
  /\ UNCHANGED <<ready, target, held, clientVars, up, down, owed, short>>

BugWholeBuffer(s) == BUFFER

\* The bytes that one recv returns are the bytes sent back.
Echoed(s) == Received(up[s], BUFFER)

EchoClient(s) ==
  /\ spc = "visit" /\ s \in ready /\ up[s].in > 0
  /\ held' = Echoed(s) /\ target' = s
  /\ up' = [up EXCEPT ![s] = Taken(@, Received(@, BUFFER))]
  /\ ready' = ready \ {s} /\ spc' = "send"
  /\ UNCHANGED <<sockets, clientVars, conn, down, owed, short>>

\* A blocking send: the other clients wait.
SendBack ==
  /\ spc = "send" /\ conn[target] = "open"
  /\ LET n == Accepted(down[target], held) IN
     /\ n > 0
     /\ down' = [down EXCEPT ![target] = Sent(@, n)]
     /\ held' = held - n
  /\ IF held' = 0 THEN spc' = "visit" /\ target' = NULL ELSE UNCHANGED <<spc, target>>
  /\ UNCHANGED <<sockets, ready, clientVars, conn, up, owed, short>>

Erase(s) == sockets' = sockets \ {s}

EndOfStream(s) ==
  /\ spc = "visit" /\ s \in ready /\ conn[s] = "finished" /\ InFlight(up[s]) = 0
  /\ conn' = [conn EXCEPT ![s] = "none"]
  /\ ready' = ready \ {s} /\ Erase(s)
  /\ UNCHANGED <<spc, target, held, clientVars, up, down, owed, short>>

Visited ==
  /\ spc = "visit" /\ ready = {} /\ spc' = "select"
  /\ UNCHANGED <<sockets, ready, target, held, clientVars, netVars, owed, short>>

\* An error of one socket ends the server.
ServerFails ==
  /\ \/ spc = "visit" /\ \E s \in ready : up[s].in = 0 /\ conn[s] = "reset"
     \/ spc = "send" /\ conn[target] \in {"reset", "finished"}
  /\ ServerGone("failed")
  /\ UNCHANGED <<sockets, ready, target, held, clientVars, up, down, owed, short>>

(***************************************************************************)
(* A client.  phase is 0 while it connects, 1 in the warm-up, then counts  *)
(* the sizes; todo are the packets left for the throughput, and when there *)
(* are none it measures the latency.                                       *)
(***************************************************************************)
Goes(c, what, i, p, packets) ==
  /\ cpc' = [cpc EXCEPT ![c] = what] /\ stream' = [stream EXCEPT ![c] = i]
  /\ phase' = [phase EXCEPT ![c] = p] /\ todo' = [todo EXCEPT ![c] = packets]
  /\ left' = [left EXCEPT ![c] = IF what = "send" THEN SIZES[p] ELSE 0]

OnStream(c, what, i) == Goes(c, what, i, phase[c], todo[c])

Last(c) == stream[c] = STREAMS[c]

SocketOf(c) == <<c, stream[c]>>

Ends(c, how) == cpc' = [cpc EXCEPT ![c] = how] /\ UNCHANGED <<stream, phase, todo, left>>

Listening == spc \notin {"start", "ended", "failed"}

Connect(c) ==
  /\ cpc[c] = "connect"
  /\ IF Listening
     THEN /\ Cardinality(Waiting) < BACKLOG
          /\ conn' = [conn EXCEPT ![SocketOf(c)] = "queued"]
          /\ IF Last(c) THEN Goes(c, "send", 1, 1, 0)
                        ELSE OnStream(c, "connect", stream[c] + 1)
     ELSE Ends(c, "failed") /\ UNCHANGED conn
  /\ UNCHANGED <<serverVars, up, down, owed, short>>

AfterSend(c) ==
  \/ todo[c] = 0 /\ OnStream(c, "recv", stream[c])
  \/ todo[c] > 0 /\ Last(c) /\ OnStream(c, "recv", 1)
  \/ todo[c] > 0 /\ ~Last(c) /\ OnStream(c, "send", stream[c] + 1)

Send(c) ==
  /\ cpc[c] = "send"
  /\ LET s == SocketOf(c)  n == Accepted(up[s], left[c]) IN
     /\ conn[s] \in Live /\ n > 0
     /\ up' = [up EXCEPT ![s] = Sent(@, n)]
     /\ owed' = [owed EXCEPT ![s] = @ + n]
     /\ IF n = left[c] THEN AfterSend(c)
        ELSE left' = [left EXCEPT ![c] = @ - n] /\ UNCHANGED <<cpc, stream, phase, todo>>
  /\ UNCHANGED <<serverVars, conn, down, short>>

\* The next socket, packet, measurement or size, or the end.  The warm-up of a
\* socket goes on until the latency converges.
AfterRecv(c) ==
  \/ phase[c] = 1 /\ OnStream(c, "send", stream[c])
  \/ ~Last(c) /\ OnStream(c, IF todo[c] = 0 THEN "send" ELSE "recv", stream[c] + 1)
  \/ Last(c) /\ todo[c] > 0 /\ Goes(c, "send", 1, phase[c], todo[c] - 1)
  \/ /\ Last(c) /\ todo[c] = 0
     /\ IF phase[c] < Len(SIZES) THEN Goes(c, "send", 1, phase[c] + 1, PACKETS)
                                 ELSE OnStream(c, "close", 1)

BugOneByte(c) == 1

Asked(c) == SIZES[phase[c]]

\* One recv, which may return less than the packet.
Recv(c) ==
  /\ cpc[c] = "recv"
  /\ LET s == SocketOf(c)  n == Received(down[s], Asked(c)) IN
     /\ conn[s] \in Live /\ n > 0
     /\ down' = [down EXCEPT ![s] = Taken(@, n)]
     /\ owed' = [owed EXCEPT ![s] = @ - n]
     /\ short' = (short \/ n < Asked(c))
  /\ AfterRecv(c)
  /\ UNCHANGED <<serverVars, conn, up>>

Pending(s) == target = s /\ held > 0

Close(c) ==
  /\ cpc[c] = "close"
  /\ LET s == SocketOf(c) IN
     conn' = [conn EXCEPT ![s] = IF @ \in Live THEN Hangs(s, Pending(s)) ELSE @]
  /\ IF Last(c) THEN Ends(c, "done") ELSE OnStream(c, "close", stream[c] + 1)
  /\ UNCHANGED <<serverVars, up, down, owed, short>>

\* A call on a connection that was reset.
ClientFails(c) ==
  /\ cpc[c] \in {"send", "recv"} /\ conn[SocketOf(c)] = "reset"
  /\ Ends(c, "failed")
  /\ UNCHANGED <<serverVars, netVars, owed, short>>

Calls == {"connect", "send", "recv", "close"}

\* The process is stopped: its sockets are closed.
Stop(c) ==
  /\ cpc[c] \in Calls /\ c \in Stoppable /\ Ends(c, "stopped")
  /\ conn' = [s \in Sockets |->
                IF s[1] = c /\ conn[s] \in Live THEN Hangs(s, Pending(s)) ELSE conn[s]]
  /\ UNCHANGED <<serverVars, up, down, owed, short>>

Flow(s) == (FlowUp(s) \/ FlowDown(s)) /\ UNCHANGED <<serverVars, clientVars, owed, short>>

ServerStep ==
  \/ Listen \/ Select \/ TimesOut \/ KillServer \/ SendBack \/ Visited \/ ServerFails
  \/ \E s \in Sockets : Accept(s) \/ EchoClient(s) \/ EndOfStream(s)

ClientStep(c) == Connect(c) \/ Send(c) \/ Recv(c) \/ Close(c) \/ ClientFails(c)

Next ==
  \/ ServerStep
  \/ \E c \in Clients : ClientStep(c) \/ Stop(c)
  \/ \E s \in Sockets : Flow(s)

\* Both programs run and TCP delivers.
Spec ==
  /\ Init /\ [][Next]_vars
  /\ WF_vars(ServerStep)
  /\ \A c \in Clients : WF_vars(ClientStep(c))
  /\ \A s \in Sockets : WF_vars(Flow(s))

(***************************************************************************)
(* Properties                                                              *)
(***************************************************************************)

\* The variables keep their types; only the sockets of the select set are ready
\* and echoed to.
TypeOK ==
  /\ spc \in {"start", "select", "accept", "visit", "send", "leaving",
             "ended", "failed"}
  /\ sockets \subseteq Sockets /\ ready \subseteq sockets
  /\ target \in sockets \cup {NULL} /\ held \in 0 .. BUFFER
  /\ cpc \in [Clients -> Calls \cup {"done", "failed", "stopped"}]
  /\ \A c \in Clients : SocketOf(c) \in Sockets
  /\ phase \in [Clients -> 0 .. Len(SIZES)] /\ todo \in [Clients -> 0 .. PACKETS]
  /\ conn \in [Sockets -> ConnStates]
  /\ up \in [Sockets -> Streams] /\ down \in [Sockets -> Streams]
  /\ short \in BOOLEAN

\* What was sent on a socket and not received back is on its way on that socket:
\* the one buffer of the server never mixes up its clients.
NothingLost ==
  \A s \in Sockets : conn[s] \in Live =>
    owed[s] = InFlight(up[s]) + InFlight(down[s]) + (IF target = s THEN held ELSE 0)

\* When no client is stopped and every recv has returned the whole packet it waits
\* for, a client is served to its end or not at all, whatever the sizes: it fails
\* only if it came too early or too late, before anything was sent back to it.
ServedOrNot ==
  (\A c \in Clients : cpc[c] # "stopped") /\ ~short =>
    /\ spc # "failed"
    /\ \A c \in Clients :
         cpc[c] = "failed" => phase[c] = 0 \/ (phase[c] = 1 /\ stream[c] = 1)

\* Every call of a client returns, or the client's process ends.
EveryCallReturns ==
  \A c \in Clients : \A call \in Calls, i \in 1 .. STREAMS[c] :
    cpc[c] = call /\ stream[c] = i ~> cpc[c] # call \/ stream[c] # i

\* When all clients have ended, the server ends.
ServerEnds ==
  (\A c \in Clients : cpc[c] \notin Calls) ~> spc \in {"ended", "failed"}

(***************************************************************************)
(* What the code does not do: README, "Known divergences"                  *)
(***************************************************************************)

\* "handling (new/ old/ leaving) clients": a client that leaves after its last
\* packet does not end the server, whatever the size of its packets.
LeavingIsHandled == (\A c \in Clients : cpc[c] # "stopped") => spc # "failed"
=============================================================================
