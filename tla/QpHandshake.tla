---------------------------- MODULE QpHandshake ----------------------------
(***************************************************************************)
(* How a client (kv_client.c) and a server (kv_server.c; the indexer and   *)
(* the other programs hold copies) come to share a reliable connection.    *)
(* Each side builds a queue pair and posts a receive.  The client then     *)
(* connects a TCP socket, sends the address of its queue pair and waits    *)
(* for the server's; the server accepts one connection, ever, readies its  *)
(* queue pair and only then answers.  Any other client that got into the   *)
(* listen queue is reset.  TCP and the adapters are external.              *)
(***************************************************************************)
EXTENDS Integers, Sequences, FiniteSets

CONSTANTS
  Clients, Server,
  NULL,
  BACKLOG,      \* connections the kernel keeps for a listen(sockfd, 1)
  Faulty,       \* processes that may fail in any step
  PORT,         \* where the server listens (-p), and the client's argument
  SHORT_MAX     \* the largest value of kv_server_address.port, a short

ASSUME HandshakeAssumption ==
  /\ Server \notin Clients /\ NULL \notin Clients /\ NULL # Server
  /\ BACKLOG \in Nat \ {0}
  /\ Faulty \subseteq Clients \cup {Server}
  /\ PORT \in Nat /\ SHORT_MAX \in Nat
  /\ PORT <= 2 * SHORT_MAX + 1

Procs == Clients \cup {Server}

VARIABLES
  pc,           \* where each process is
  qp,           \* the state of its queue pair
  dest,         \* the peer its queue pair is connected to
  posted,       \* its receive: "none", "posted", or "filled" by a request
  listener,     \* the server's listening socket: "none", "open", "closed"
  backlog,      \* the clients waiting in the listen queue
  conn,         \* the client the server accepted, or NULL
  sock,         \* each client's socket: "none", "open", "reset", "closed"
  toServer, toClient,   \* bytes in flight on each client's socket
  sending       \* the clients whose first request is on the wire

queueVars == <<qp, dest, posted>>
tcpVars == <<listener, backlog, conn, sock, toServer, toClient>>
vars == <<pc, queueVars, tcpVars, sending>>

ClientStates == {"init", "post", "connect", "send_addr", "read_addr", "done",
                 "modify", "ready", "sent", "served", "failed"}
ServerStates == {"init", "post", "listen", "accept", "close_listener",
                 "read_addr", "modify", "tell", "read_done", "ready", "heard",
                 "failed"}

Init ==
  /\ pc = [p \in Procs |-> "init"]
  /\ qp = [p \in Procs |-> "RESET"]
  /\ dest = [p \in Procs |-> NULL]
  /\ posted = [p \in Procs |-> "none"]
  /\ listener = "none" /\ backlog = <<>> /\ conn = NULL
  /\ sock = [c \in Clients |-> "none"]
  /\ toServer = [c \in Clients |-> <<>>]
  /\ toClient = [c \in Clients |-> <<>>]
  /\ sending = {}

Go(p, from, to) == pc[p] = from /\ pc' = [pc EXCEPT ![p] = to]

\* orig_main returns 1 and the assert in main ends the process: its adapter
\* forgets the queue pair, and the kernel closes its sockets.
ClientExits(c) ==
  /\ pc' = [pc EXCEPT ![c] = "failed"]
  /\ qp' = [qp EXCEPT ![c] = "RESET"]
  /\ sock' = [sock EXCEPT ![c] = "closed"]
  /\ sending' = sending \ {c}
  /\ UNCHANGED <<dest, posted, listener, backlog, conn, toServer, toClient>>

ServerExits ==
  /\ pc' = [pc EXCEPT ![Server] = "failed"]
  /\ qp' = [qp EXCEPT ![Server] = "RESET"]
  /\ listener' = "closed" /\ backlog' = <<>> /\ conn' = NULL
  /\ sock' = [c \in Clients |-> IF sock[c] = "open" THEN "reset" ELSE sock[c]]
  /\ UNCHANGED <<dest, posted, toServer, toClient, sending>>

Addr(p) == [type |-> "address", of |-> p]
Done(c) == [type |-> "done", of |-> c]

\* Reading from a socket: the whole message, nothing yet, or the end.
Holds(s) == s # <<>>

(***************************************************************************)
(* Both sides                                                              *)
(***************************************************************************)

\* pp_init_ctx: all resources, and the queue pair in the INIT state.
InitCtx(p) ==
  /\ Go(p, "init", "post")
  /\ qp' = [qp EXCEPT ![p] = "INIT"]
  /\ UNCHANGED <<dest, posted, tcpVars, sending>>

\* The receives are posted before anybody knows the address.
PostReceives(p) ==
  /\ Go(p, "post", IF p = Server THEN "listen" ELSE "connect")
  /\ posted' = [posted EXCEPT ![p] = "posted"]
  /\ UNCHANGED <<qp, dest, tcpVars, sending>>

\* pp_connect_ctx: ready to receive, then ready to send.
ConnectCtx(p, peer) ==
  /\ qp' = [qp EXCEPT ![p] = "RTS"]
  /\ dest' = [dest EXCEPT ![p] = peer]

(***************************************************************************)
(* pp_client_exch_dest and orig_main in the client                         *)
(***************************************************************************)

\* kv_server_address.port is a short: larger ports turn negative.
ToShort(port) == IF port > SHORT_MAX THEN port - 2 * (SHORT_MAX + 1) ELSE port

\* getaddrinfo and connect; while the listen queue is full TCP tries again.
ClientConnects(c) ==
  /\ Go(c, "connect", "send_addr")
  /\ ToShort(PORT) = PORT
  /\ listener = "open" /\ Len(backlog) < BACKLOG
  /\ backlog' = Append(backlog, c)
  /\ sock' = [sock EXCEPT ![c] = "open"]
  /\ UNCHANGED <<queueVars, listener, conn, toServer, toClient, sending>>

ClientRefused(c) ==
  /\ pc[c] = "connect"
  /\ listener # "open" \/ ToShort(PORT) # PORT
  /\ ClientExits(c)

ClientSendsAddress(c) ==
  /\ Go(c, "send_addr", "read_addr")
  /\ sock[c] = "open"
  /\ toServer' = [toServer EXCEPT ![c] = Append(@, Addr(c))]
  /\ UNCHANGED <<queueVars, listener, backlog, conn, sock, toClient, sending>>

\* The socket was reset: write or read returns an error or a short count.
ClientCutOff(c) ==
  /\ pc[c] \in {"send_addr", "read_addr"}
  /\ sock[c] = "reset" /\ ~Holds(toClient[c])
  /\ ClientExits(c)

ClientReadsAddress(c) ==
  /\ Go(c, "read_addr", "done")
  /\ Holds(toClient[c])
  /\ dest' = [dest EXCEPT ![c] = Head(toClient[c]).of]
  /\ toClient' = [toClient EXCEPT ![c] = Tail(@)]
  /\ UNCHANGED <<qp, posted, listener, backlog, conn, sock, toServer, sending>>

\* "done" is written, whether it arrives or not, and the socket closed.
ClientSaysDone(c) ==
  /\ Go(c, "done", "modify")
  /\ toServer' = IF sock[c] = "open"
                 THEN [toServer EXCEPT ![c] = Append(@, Done(c))] ELSE toServer
  /\ sock' = [sock EXCEPT ![c] = "closed"]
  /\ UNCHANGED <<queueVars, listener, backlog, conn, toClient, sending>>

ClientModifiesQp(c) ==
  /\ Go(c, "modify", "ready")
  /\ ConnectCtx(c, dest[c])
  /\ UNCHANGED <<posted, tcpVars, sending>>

\* The first call of kv_set or kv_get.
FirstRequest(c) ==
  /\ Go(c, "ready", "sent")
  /\ sending' = sending \cup {c}
  /\ UNCHANGED <<queueVars, tcpVars>>

(***************************************************************************)
(* pp_server_exch_dest and run_server                                      *)
(***************************************************************************)
ServerListens ==
  /\ Go(Server, "listen", "accept")
  /\ listener' = "open"
  /\ UNCHANGED <<queueVars, backlog, conn, sock, toServer, toClient, sending>>

ServerAccepts ==
  /\ Go(Server, "accept", "close_listener")
  /\ backlog # <<>>
  /\ conn' = Head(backlog)
  /\ backlog' = Tail(backlog)
  /\ UNCHANGED <<queueVars, listener, sock, toServer, toClient, sending>>

\* The listening socket stays open and nobody accepts from it.
BugListenerKept(s) == s

\* What closing the listening socket does to the clients' sockets.
ResetWaiting(s) ==
  [c \in Clients |-> IF \E i \in DOMAIN backlog : backlog[i] = c
                        /\ s[c] = "open" THEN "reset" ELSE s[c]]

ServerClosesListener ==
  /\ Go(Server, "close_listener", "read_addr")
  /\ listener' = "closed"
  /\ sock' = ResetWaiting(sock)
  /\ backlog' = <<>>
  /\ UNCHANGED <<queueVars, conn, toServer, toClient, sending>>

\* The answer is written before the queue pair is ready.
BugTellsAtOnce ==
  /\ Go(Server, "read_addr", "modify")
  /\ Holds(toServer[conn])
  /\ dest' = [dest EXCEPT ![Server] = Head(toServer[conn]).of]
  /\ toServer' = [toServer EXCEPT ![conn] = Tail(@)]
  /\ toClient' = [toClient EXCEPT ![conn] = Append(@, Addr(Server))]
  /\ UNCHANGED <<qp, posted, listener, backlog, conn, sock, sending>>

ServerReadsAddress ==
  /\ Go(Server, "read_addr", "modify")
  /\ Holds(toServer[conn])
  /\ dest' = [dest EXCEPT ![Server] = Head(toServer[conn]).of]
  /\ toServer' = [toServer EXCEPT ![conn] = Tail(@)]
  /\ UNCHANGED <<qp, posted, listener, backlog, conn, sock, toClient, sending>>

ServerModifiesQp ==
  /\ Go(Server, "modify", "tell")
  /\ ConnectCtx(Server, dest[Server])
  /\ UNCHANGED <<posted, tcpVars, sending>>

\* A client that is gone does not read it, but the write may succeed.
ServerTellsAddress ==
  /\ Go(Server, "tell", "read_done")
  /\ toClient' = [toClient EXCEPT ![conn] = Append(@, Addr(Server))]
  /\ UNCHANGED <<queueVars, listener, backlog, conn, sock, toServer, sending>>

\* A server that goes on to the next client.
BugServesNext ==
  /\ Go(Server, "read_done", "listen")
  /\ Holds(toServer[conn]) \/ sock[conn] # "open"
  /\ UNCHANGED <<queueVars, tcpVars, sending>>

\* The end of the stream is not "done".
BugInsistsOnDone ==
  /\ Go(Server, "read_done", "ready")
  /\ Holds(toServer[conn])
  /\ UNCHANGED <<queueVars, tcpVars, sending>>

\* read returns "done" or the end of the stream: nobody looks.
ServerReadsDone ==
  /\ Go(Server, "read_done", "ready")
  /\ Holds(toServer[conn]) \/ sock[conn] # "open"
  /\ UNCHANGED <<queueVars, tcpVars, sending>>

\* The client's end is closed: read returns 0, or write an error.
ServerCutOff ==
  /\ pc[Server] \in {"read_addr", "tell"}
  /\ sock[conn] # "open" /\ ~Holds(toServer[conn])
  /\ ServerExits

\* pp_wait_completions: the request is there; the receive is posted again.
ServerHears ==
  /\ Go(Server, "ready", "heard")
  /\ posted[Server] = "filled"
  /\ posted' = [posted EXCEPT ![Server] = "posted"]
  /\ UNCHANGED <<qp, dest, tcpVars, sending>>

(***************************************************************************)
(* The adapters                                                            *)
(***************************************************************************)

Paired(c) == qp[Server] \in {"RTR", "RTS"} /\ dest[Server] = c

\* rnr_retry is 7, for ever: a request waits until a receive is posted.
Delivered(c) ==
  /\ c \in sending /\ Paired(c) /\ posted[Server] = "posted"
  /\ posted' = [posted EXCEPT ![Server] = "filled"]
  /\ sending' = sending \ {c}
  /\ pc' = [pc EXCEPT ![c] = "served"]
  /\ UNCHANGED <<qp, dest, tcpVars>>

\* retry_cnt is 7: nobody answers, and the client's wait fails.
RetriesExhausted(c) ==
  /\ c \in sending /\ ~Paired(c)
  /\ ClientExits(c)

(***************************************************************************)
(* Any step of a faulty process may fail, and any faulty process may die.  *)
(***************************************************************************)
ClientFails(c) == c \in Faulty /\ pc[c] # "failed" /\ ClientExits(c)

ServerFails == Server \in Faulty /\ pc[Server] # "failed" /\ ServerExits

ClientStep(c) ==
  \/ InitCtx(c) \/ PostReceives(c) \/ ClientConnects(c) \/ ClientRefused(c)
  \/ ClientSendsAddress(c) \/ ClientCutOff(c) \/ ClientReadsAddress(c)
  \/ ClientSaysDone(c) \/ ClientModifiesQp(c) \/ FirstRequest(c)

ServerStep ==
  \/ InitCtx(Server) \/ PostReceives(Server) \/ ServerListens \/ ServerAccepts
  \/ ServerClosesListener \/ ServerReadsAddress \/ ServerModifiesQp
  \/ ServerTellsAddress \/ ServerReadsDone \/ ServerCutOff \/ ServerHears

AdapterStep(c) == Delivered(c) \/ RetriesExhausted(c)

Next ==
  \/ \E c \in Clients : ClientStep(c) \/ AdapterStep(c) \/ ClientFails(c)
  \/ ServerStep \/ ServerFails

Spec == Init /\ [][Next]_vars

(***************************************************************************)
(* Fairness: every process runs, and blocking TCP calls return when they   *)
(* can.  Nobody is forced to fail.                                         *)
(***************************************************************************)
Fairness ==
  /\ \A c \in Clients : WF_vars(ClientStep(c)) /\ WF_vars(AdapterStep(c))
  /\ WF_vars(ServerStep)

FairSpec == Spec /\ Fairness

(***************************************************************************)
(* Properties                                                              *)
(***************************************************************************)
Stream == Seq([type : {"address", "done"}, of : Procs])

\* The variables keep their types.
TypeOK ==
  /\ pc \in [Procs -> ClientStates \cup ServerStates]
  /\ qp \in [Procs -> {"RESET", "INIT", "RTS"}]
  /\ dest \in [Procs -> Procs \cup {NULL}]
  /\ posted \in [Procs -> {"none", "posted", "filled"}]
  /\ listener \in {"none", "open", "closed"}
  /\ backlog \in Seq(Clients)
  /\ conn \in Clients \cup {NULL}
  /\ sock \in [Clients -> {"none", "open", "reset", "closed"}]
  /\ toServer \in [Clients -> Stream] /\ toClient \in [Clients -> Stream]
  /\ sending \subseteq Clients

ServerUp == pc[Server] # "failed"

\* A client that may send finds the server's queue pair connected to its own
\* and a receive posted: pp_server_exch_dest calls pp_connect_ctx before it
\* writes its address, and orig_main posts the receives before either.
PeerReady ==
  \A c \in Clients :
    pc[c] \in {"ready", "sent"} /\ ServerUp =>
      /\ qp[Server] = "RTS" /\ dest[Server] = c /\ posted[Server] = "posted"
      /\ qp[c] = "RTS" /\ dest[c] = Server /\ posted[c] = "posted"

\* However many clients get into the listen queue, at most one ever learns
\* the server's address, also when that one dies: the server accepts once.
OneClient ==
  \A c, d \in Clients : dest[c] # NULL /\ dest[d] # NULL => c = d

\* Nobody is left hanging in the exchange: every client is served or fails,
\* whichever processes die on the way (orig_main of kv_client.c).
EveryClientSettles ==
  \A c \in Clients : <>(pc[c] \in {"served", "failed"})

\* The client the server accepts has its first request heard, whatever the
\* other clients do, unless one of the two is gone; and a client that goes
\* does not hold the server in the exchange (pp_server_exch_dest).
AcceptedIsHeard ==
  \A c \in Clients :
    conn = c ~> \/ pc[c] = "served" /\ pc[Server] = "heard"
                \/ pc[c] = "failed" /\ pc[Server] \in {"ready", "heard"}
                \/ pc[Server] = "failed"

(***************************************************************************)
(* What the code does not do: with a PORT above SHORT_MAX TLC refutes this *)
(* (README, "Known divergences").                                          *)
(***************************************************************************)

\* Every port that parse_args lets through can be connected to: with a server
\* listening there first, a client that starts is not refused.
AcceptedPortConnects ==
  [][\A c \in Clients : ClientRefused(c) => listener # "open"]_vars
=============================================================================
