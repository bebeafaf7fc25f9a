------------------------------- MODULE EchoTcp -------------------------------
(***************************************************************************)
(* The echo measurement of Ex1: a server that accepts one client and sends *)
(* back whatever it receives, and clients that time a send followed by one *)
(* recv (client.cpp, server.cpp).  A client warms up with packets of one   *)
(* size until its latency converges and then works through a series of     *)
(* sizes.                                                                  *)
(***************************************************************************)
EXTENDS TcpStream, Sequences, FiniteSets

CONSTANTS
  SIZES,              \* the packet sizes, that of the warm-up first
  PACKETS,            \* RTT_NUM_OF_CYCLES * RTT_PACKETS_PER_CYCLE, and 1 for latency
  BUFFER,             \* the server's WARMPUP_PACKET_SIZE
  BACKLOG,            \* connections the kernel holds for listen(.., MAX_INCOMING_QUEUE)
  NULL

ASSUME EchoAssumption ==
  /\ SIZES \in Seq(Nat \ {0}) /\ SIZES # <<>> /\ PACKETS \in Nat \ {0}
  /\ BUFFER \in Nat \ {0} /\ BACKLOG \in Nat \ {0} /\ NULL \notin Sockets

VARIABLES
  spc, served, held,  \* the server, its client, bytes received and not sent back
  cpc, phase, todo, left, \* a client, its size, packets to go, bytes to send
  owed                \* bytes a client has sent and not received back

\* Every client has one socket.
Clients == Sockets

serverVars == <<spc, served, held>>
clientVars == <<cpc, phase, todo, left>>
vars == <<serverVars, clientVars, netVars, owed>>

Init ==
  /\ spc = "start" /\ served = NULL /\ held = 0
  /\ cpc = [c \in Clients |-> "start"] /\ phase = [c \in Clients |-> 1]
  /\ todo = [c \in Clients |-> 0] /\ left = [c \in Clients |-> 0]
  /\ NetInit
  /\ owed = [c \in Clients |-> 0]

(***************************************************************************)
(* The server                                                              *)
(***************************************************************************)
BugWaitingKept(state) ==
  /\ spc' = state
  /\ conn' = [conn EXCEPT ![served] = "reset"]

\* The server process is gone: its listening socket takes the waiting
\* connections with it.
ServerGone(state) ==
  /\ spc' = state
  /\ conn' = [c \in Clients |-> IF conn[c] \in Live \/ c = served THEN "reset" ELSE conn[c]]

Listen ==
  /\ spc = "start" /\ spc' = "accept"
  /\ UNCHANGED <<served, held, clientVars, netVars, owed>>

Accept(c) ==
  /\ spc = "accept" /\ conn[c] \in {"queued", "finished"}
  /\ spc' = "recv" /\ served' = c
  /\ conn' = [conn EXCEPT ![c] = IF @ = "queued" THEN "open" ELSE @]
  /\ UNCHANGED <<held, clientVars, up, down, owed>>

BugOneShort(n) == IF n > 1 THEN n - 1 ELSE n

Echoed(n) == n

BugWaitsForAll(s) == s.in >= BUFFER

Arrived(s) == s.in > 0

Receive ==
  /\ spc = "recv" /\ conn[served] \in {"open", "finished"} /\ Arrived(up[served])
  /\ LET n == Received(up[served], BUFFER) IN
     /\ held' = Echoed(n)
     /\ up' = [up EXCEPT ![served] = Taken(@, n)]
  /\ spc' = "send"
  /\ UNCHANGED <<served, clientVars, conn, down, owed>>

SendBack ==
  /\ spc = "send" /\ conn[served] = "open"
  /\ LET n == Accepted(down[served], held) IN
     /\ n > 0
     /\ down' = [down EXCEPT ![served] = Sent(@, n)]
     /\ held' = held - n
  /\ spc' = IF held' = 0 THEN "recv" ELSE "send"
  /\ UNCHANGED <<served, clientVars, conn, up, owed>>

\* recv returns 0: both sockets are closed.
EndOfStream ==
  /\ spc = "recv" /\ conn[served] = "finished" /\ InFlight(up[served]) = 0
  /\ ServerGone("ended")
  /\ UNCHANGED <<served, held, clientVars, up, down, owed>>

\* recv or send on a connection that was reset or whose client is gone.
ServerFails ==
  /\ \/ spc \in {"recv", "send"} /\ conn[served] = "reset"
     \/ spc = "send" /\ conn[served] = "finished"
  /\ ServerGone("failed")
  /\ UNCHANGED <<served, held, clientVars, up, down, owed>>

(***************************************************************************)
(* A client                                                                *)
(***************************************************************************)
Listening == spc \in {"accept", "recv", "send"}

Waiting == {c \in Clients : conn[c] \in {"queued", "finished"} /\ c # served}

Connect(c) ==
  /\ cpc[c] = "start"
  /\ IF Listening
     THEN /\ Cardinality(Waiting) < BACKLOG
          /\ conn' = [conn EXCEPT ![c] = "queued"]
          /\ cpc' = [cpc EXCEPT ![c] = "send"]
          /\ left' = [left EXCEPT ![c] = SIZES[1]]
     ELSE cpc' = [cpc EXCEPT ![c] = "failed"] /\ UNCHANGED <<conn, left>>
  /\ UNCHANGED <<serverVars, phase, todo, up, down, owed>>

Send(c) ==
  /\ cpc[c] = "send" /\ conn[c] \in Live
  /\ LET n == Accepted(up[c], left[c]) IN
     /\ n > 0
     /\ up' = [up EXCEPT ![c] = Sent(@, n)]
     /\ left' = [left EXCEPT ![c] = @ - n]
     /\ owed' = [owed EXCEPT ![c] = @ + n]
  /\ cpc' = [cpc EXCEPT ![c] = IF left'[c] = 0 THEN "recv" ELSE "send"]
  /\ UNCHANGED <<serverVars, phase, todo, conn, down>>

Begin(c, p, packets) ==
  /\ phase' = [phase EXCEPT ![c] = p] /\ todo' = [todo EXCEPT ![c] = packets]
  /\ left' = [left EXCEPT ![c] = SIZES[p]]
  /\ cpc' = [cpc EXCEPT ![c] = "send"]

\* The next packet of this size, or the next size, or the end.  The warm-up
\* goes on until the latency converges.
NextPacket(c) ==
  \/ phase[c] = 1 /\ Begin(c, 1, 0)
  \/ todo[c] > 1 /\ Begin(c, phase[c], todo[c] - 1)
  \/ todo[c] <= 1 /\ phase[c] < Len(SIZES) /\ Begin(c, phase[c] + 1, PACKETS)
  \/ /\ todo[c] <= 1 /\ phase[c] = Len(SIZES)
     /\ cpc' = [cpc EXCEPT ![c] = "closed"]
     /\ UNCHANGED <<phase, todo, left>>

BugPreviousSize(c) == IF phase[c] = 1 THEN SIZES[1] ELSE SIZES[phase[c] - 1]

Asked(c) == SIZES[phase[c]]

\* One recv, which may return less than the packet.
Recv(c) ==
  /\ cpc[c] = "recv" /\ conn[c] \in Live /\ down[c].in > 0
  /\ LET n == Received(down[c], Asked(c)) IN
     /\ down' = [down EXCEPT ![c] = Taken(@, n)]
     /\ owed' = [owed EXCEPT ![c] = @ - n]
  /\ NextPacket(c)
  /\ UNCHANGED <<serverVars, conn, up>>

\* kill_client, or the process is stopped.
Hang(c) ==
  /\ conn[c] \in Live
  /\ \/ cpc[c] = "closed" /\ UNCHANGED cpc
     \/ cpc[c] \in {"send", "recv"} /\ cpc' = [cpc EXCEPT ![c] = "killed"]
  /\ conn' = [conn EXCEPT ![c] = Hangs(c, served = c /\ held > 0)]
  /\ UNCHANGED <<serverVars, phase, todo, left, up, down, owed>>

ClientFails(c) ==
  /\ cpc[c] \in {"send", "recv"} /\ conn[c] = "reset"
  /\ cpc' = [cpc EXCEPT ![c] = "failed"]
  /\ UNCHANGED <<serverVars, phase, todo, left, netVars, owed>>

Flow(c) == (FlowUp(c) \/ FlowDown(c)) /\ UNCHANGED <<serverVars, clientVars, owed>>

ServerStep ==
  \/ Listen \/ Receive \/ SendBack \/ EndOfStream \/ ServerFails
  \/ \E c \in Clients : Accept(c)

ClientStep(c) == Connect(c) \/ Send(c) \/ Recv(c) \/ ClientFails(c)

Next ==
  \/ ServerStep
  \/ \E c \in Clients : ClientStep(c) \/ Hang(c) \/ Flow(c)

\* Both programs run, TCP delivers, a client that is done closes its socket.
Spec ==
  /\ Init /\ [][Next]_vars
  /\ WF_vars(ServerStep)
  /\ \A c \in Clients :
       /\ WF_vars(ClientStep(c)) /\ WF_vars(Flow(c))
       /\ WF_vars(cpc[c] = "closed" /\ Hang(c))

(***************************************************************************)
(* Properties                                                              *)
(***************************************************************************)

\* The variables keep their types.
TypeOK ==
  /\ spc \in {"start", "accept", "recv", "send", "ended", "failed"}
  /\ served \in Clients \cup {NULL} /\ held \in 0 .. BUFFER
  /\ cpc \in [Clients -> {"start", "send", "recv", "closed", "killed", "failed"}]
  /\ phase \in [Clients -> 1 .. Len(SIZES)] /\ todo \in [Clients -> 0 .. PACKETS]
  /\ conn \in [Clients -> ConnStates]
  /\ up \in [Clients -> Streams] /\ down \in [Clients -> Streams]

\* What a client has sent and not received back is on its way, in one of the
\* two streams or in the server: the server's send repeats all of what its
\* recv returned, in whatever pieces the bytes arrive.
NothingLost ==
  \A c \in Clients : conn[c] \in Live =>
    owed[c] = InFlight(up[c]) + InFlight(down[c]) + (IF served = c THEN held ELSE 0)

\* When a packet fits into a segment, one recv takes all of its echo: a packet
\* is sent only when nothing of an earlier one is still to come.
PacketsApart ==
  \A c \in Clients : cpc[c] = "send" => owed[c] = SIZES[phase[c]] - left[c]

\* The server ends with an error only if its client was stopped.
ServerEndsWell == spc = "failed" => cpc[served] = "killed"

\* Every packet of the client that is being served is echoed, or the client is
\* stopped.
EveryPacketReturns ==
  \A c \in Clients : served = c /\ cpc[c] = "recv" ~> cpc[c] # "recv"

\* When the server has ended, no client waits for it.
NobodyLeftBehind ==
  spc \in {"ended", "failed"} ~> \A c \in Clients : cpc[c] \notin {"send", "recv"}

(***************************************************************************)
(* What the code does not do: README, "Known divergences"                  *)
(***************************************************************************)

\* "Receive 1 packet with (size_t) packet_size": after the recv of a packet
\* all that was sent has come back, also of a packet larger than a segment.
WholePacketReceived ==
  \A c \in Clients : cpc[c] = "send" /\ left[c] = SIZES[phase[c]] => owed[c] = 0
=============================================================================
