------------------------- MODULE QpHandshakeProofs -------------------------
(***************************************************************************)
(* For any number of clients, whoever fails and whenever: a client that    *)
(* may send finds the server ready for it (PeerReady), and no two clients  *)
(* ever learn the server's address (OneClient).                            *)
(*                                                                         *)
(* Both follow from where the server is: its address is told only after    *)
(* its queue pair is connected to the one client it accepted.              *)
(***************************************************************************)
EXTENDS QpHandshake, TLAPS

Answering == {"read_done", "ready", "heard"}
Connected == {"tell"} \cup Answering
Accepted == {"close_listener", "read_addr", "modify"} \cup Connected

AddressOf(ps) == [type : {"address", "done"}, of : ps]

\* Client c knows the server's address, or will when it reads its socket.
Told(c) == toClient[c] # <<>> \/ dest[c] # NULL

\* What a socket carries comes from the other side.
OwnMessages ==
  \A c \in Clients : /\ toServer[c] \in Seq(AddressOf({c}))
                     /\ toClient[c] \in Seq(AddressOf({Server}))

\* Past "post" a receive is posted.
ReceivesPosted ==
  /\ pc[Server] \notin {"init", "post", "failed"} => posted[Server] # "none"
  /\ \A c \in Clients :
       pc[c] \notin {"init", "post", "failed"} => posted[c] = "posted"

ServerSide ==
  /\ pc[Server] \in Accepted <=> conn # NULL
  /\ pc[Server] \in {"modify"} \cup Connected => dest[Server] = conn
  /\ pc[Server] \in Connected <=> qp[Server] = "RTS"

ClientSide ==
  \A c \in Clients :
    /\ pc[c] \in {"done", "modify", "ready", "sent", "served"} => dest[c] = Server
    /\ pc[c] \in {"ready", "sent"} => qp[c] = "RTS"
    /\ c \in sending => pc[c] = "sent"

\* The address is out only when the server has connected its queue pair to
\* that client, and to no second one after it failed.
ToldLast ==
  /\ \A c \in Clients :
       Told(c) => \/ pc[Server] = "failed"
                  \/ pc[Server] \in Answering /\ conn = c
  /\ \A c, d \in Clients : Told(c) /\ Told(d) => c = d

\* The receive is filled by the accepted client's request only.
FilledByConn ==
  pc[Server] # "failed" /\ posted[Server] = "filled" =>
    conn \in Clients /\ pc[conn] \in {"served", "failed"}

IInv ==
  /\ TypeOK /\ OwnMessages /\ ReceivesPosted
  /\ ServerSide /\ ClientSide /\ ToldLast /\ FilledByConn

USE HandshakeAssumption DEF Procs

\* The initial state satisfies the invariant.
LEMMA InitInv == Init => IInv
BY DEF Init, IInv, TypeOK, OwnMessages, ReceivesPosted, ServerSide, ClientSide,
       ToldLast, FilledByConn, Told, Accepted, Connected, Answering, Stream,
       ClientStates, ServerStates

\* Sequences over a set grow and shrink within it.
LEMMA AppendType == ASSUME NEW S, NEW s \in Seq(S), NEW e \in S
                    PROVE Append(s, e) \in Seq(S) /\ Append(s, e) # <<>>
OBVIOUS

LEMMA TailType == ASSUME NEW S, NEW s \in Seq(S), s # <<>>
                  PROVE Head(s) \in S /\ Tail(s) \in Seq(S)
OBVIOUS

LEMMA InitCtxKeeps == ASSUME IInv, NEW p \in Procs, InitCtx(p) PROVE IInv'
<1> USE DEF IInv, InitCtx, queueVars, tcpVars, Go
<1>1. TypeOK'
  BY DEF TypeOK, ClientStates, ServerStates
<1>2. OwnMessages'
  BY DEF TypeOK, OwnMessages
<1>3. ReceivesPosted'
  BY DEF TypeOK, ReceivesPosted
<1>4. ServerSide'
  BY DEF TypeOK, ServerSide, Accepted, Connected, Answering
<1>5. ClientSide'
  BY DEF TypeOK, ClientSide
<1>6. ToldLast'
  BY DEF TypeOK, ToldLast, Told, Answering
<1>7. FilledByConn'
  BY DEF TypeOK, FilledByConn
<1> QED BY <1>1, <1>2, <1>3, <1>4, <1>5, <1>6, <1>7

LEMMA PostReceivesKeeps == ASSUME IInv, NEW p \in Procs, PostReceives(p) PROVE IInv'
<1> USE DEF IInv, PostReceives, queueVars, tcpVars, Go
<1>1. TypeOK'
  BY DEF TypeOK, ClientStates, ServerStates
<1>2. OwnMessages'
  BY DEF TypeOK, OwnMessages
<1>3. ReceivesPosted'
  BY DEF TypeOK, ReceivesPosted
<1>4. ServerSide'
  BY DEF TypeOK, ServerSide, Accepted, Connected, Answering
<1>5. ClientSide'
  BY DEF TypeOK, ClientSide
<1>6. ToldLast'
  BY DEF TypeOK, ToldLast, Told, Answering
<1>7. FilledByConn'
  BY DEF TypeOK, FilledByConn
<1> QED BY <1>1, <1>2, <1>3, <1>4, <1>5, <1>6, <1>7

LEMMA ClientConnectsKeeps == ASSUME IInv, NEW c \in Clients, ClientConnects(c) PROVE IInv'
<1> USE DEF IInv, ClientConnects, queueVars, tcpVars, Go
<1>1. TypeOK'
  <2>1. backlog' \in Seq(Clients)
    BY AppendType DEF TypeOK
  <2> QED BY <2>1 DEF TypeOK, ClientStates, ServerStates
<1>2. OwnMessages'
  BY DEF TypeOK, OwnMessages
<1>3. ReceivesPosted'
  BY DEF TypeOK, ReceivesPosted
<1>4. ServerSide'
  BY DEF TypeOK, ServerSide, Accepted, Connected, Answering
<1>5. ClientSide'
  BY DEF TypeOK, ClientSide
<1>6. ToldLast'
  BY DEF TypeOK, ToldLast, Told, Answering
<1>7. FilledByConn'
  BY DEF TypeOK, FilledByConn
<1> QED BY <1>1, <1>2, <1>3, <1>4, <1>5, <1>6, <1>7

LEMMA ClientRefusedKeeps == ASSUME IInv, NEW c \in Clients, ClientRefused(c) PROVE IInv'
<1> USE DEF IInv, ClientRefused, queueVars, tcpVars, ClientExits
<1>1. TypeOK'
  BY DEF TypeOK, ClientStates, ServerStates
<1>2. OwnMessages'
  BY DEF TypeOK, OwnMessages
<1>3. ReceivesPosted'
  BY DEF TypeOK, ReceivesPosted
<1>4. ServerSide'
  BY DEF TypeOK, ServerSide, Accepted, Connected, Answering
<1>5. ClientSide'
  BY DEF TypeOK, ClientSide
<1>6. ToldLast'
  BY DEF TypeOK, ToldLast, Told, Answering
<1>7. FilledByConn'
  BY DEF TypeOK, FilledByConn
<1> QED BY <1>1, <1>2, <1>3, <1>4, <1>5, <1>6, <1>7

LEMMA ClientSendsAddressKeeps == ASSUME IInv, NEW c \in Clients, ClientSendsAddress(c) PROVE IInv'
<1> USE DEF IInv, ClientSendsAddress, queueVars, tcpVars, Go
<1>1. TypeOK'
  <2>1. Append(toServer[c], Addr(c)) \in Stream
    BY AppendType DEF TypeOK, Stream, Addr
  <2> QED BY <2>1 DEF TypeOK, ClientStates, ServerStates
<1>2. OwnMessages'
  <2>1. Append(toServer[c], Addr(c)) \in Seq(AddressOf({c}))
    BY AppendType DEF OwnMessages, AddressOf, Addr
  <2> QED BY <2>1 DEF TypeOK, OwnMessages
<1>3. ReceivesPosted'
  BY DEF TypeOK, ReceivesPosted
<1>4. ServerSide'
  BY DEF TypeOK, ServerSide, Accepted, Connected, Answering
<1>5. ClientSide'
  BY DEF TypeOK, ClientSide
<1>6. ToldLast'
  BY DEF TypeOK, ToldLast, Told, Answering
<1>7. FilledByConn'
  BY DEF TypeOK, FilledByConn
<1> QED BY <1>1, <1>2, <1>3, <1>4, <1>5, <1>6, <1>7

LEMMA ClientCutOffKeeps == ASSUME IInv, NEW c \in Clients, ClientCutOff(c) PROVE IInv'
<1> USE DEF IInv, ClientCutOff, queueVars, tcpVars, ClientExits
<1>1. TypeOK'
  BY DEF TypeOK, ClientStates, ServerStates
<1>2. OwnMessages'
  BY DEF TypeOK, OwnMessages
<1>3. ReceivesPosted'
  BY DEF TypeOK, ReceivesPosted
<1>4. ServerSide'
  BY DEF TypeOK, ServerSide, Accepted, Connected, Answering
<1>5. ClientSide'
  BY DEF TypeOK, ClientSide
<1>6. ToldLast'
  BY DEF TypeOK, ToldLast, Told, Answering
<1>7. FilledByConn'
  BY DEF TypeOK, FilledByConn
<1> QED BY <1>1, <1>2, <1>3, <1>4, <1>5, <1>6, <1>7

LEMMA ClientReadsAddressKeeps == ASSUME IInv, NEW c \in Clients, ClientReadsAddress(c) PROVE IInv'
<1> USE DEF IInv, ClientReadsAddress, queueVars, tcpVars, Go
<1>1. TypeOK'
  <2>1. /\ Head(toClient[c]) \in [type : {"address", "done"}, of : Procs]
        /\ Tail(toClient[c]) \in Stream
    BY TailType DEF TypeOK, Stream, Holds
  <2> QED BY <2>1 DEF TypeOK, ClientStates, ServerStates
<1>2. OwnMessages'
  <2>1. Tail(toClient[c]) \in Seq(AddressOf({Server}))
    BY TailType DEF OwnMessages, Holds
  <2> QED BY <2>1 DEF TypeOK, OwnMessages
<1>3. ReceivesPosted'
  BY DEF TypeOK, ReceivesPosted
<1>4. ServerSide'
  BY DEF TypeOK, ServerSide, Accepted, Connected, Answering
<1>5. ClientSide'
  <2>1. Head(toClient[c]) \in AddressOf({Server})
    BY TailType DEF OwnMessages, Holds
  <2>2. Head(toClient[c]).of = Server
    BY <2>1 DEF AddressOf
  <2> QED BY <2>2 DEF TypeOK, ClientSide
<1>6. ToldLast'
  <2>1. Told(c)
    BY DEF Told, Holds
  <2>2. ASSUME NEW d \in Clients, d # c PROVE Told(d)' <=> Told(d)
    BY <2>2 DEF Told, TypeOK
  <2>3. /\ pc'[Server] = pc[Server] /\ conn' = conn
    BY DEF TypeOK
  <2> QED BY <2>1, <2>2, <2>3 DEF ToldLast
<1>7. FilledByConn'
  BY DEF TypeOK, FilledByConn
<1> QED BY <1>1, <1>2, <1>3, <1>4, <1>5, <1>6, <1>7

LEMMA ClientSaysDoneKeeps == ASSUME IInv, NEW c \in Clients, ClientSaysDone(c) PROVE IInv'
<1> USE DEF IInv, ClientSaysDone, queueVars, tcpVars, Go
<1>1. TypeOK'
  <2>1. Append(toServer[c], Done(c)) \in Stream
    BY AppendType DEF TypeOK, Stream, Done
  <2> QED BY <2>1 DEF TypeOK, ClientStates, ServerStates
<1>2. OwnMessages'
  <2>1. Append(toServer[c], Done(c)) \in Seq(AddressOf({c}))
    BY AppendType DEF OwnMessages, AddressOf, Done
  <2> QED BY <2>1 DEF TypeOK, OwnMessages
<1>3. ReceivesPosted'
  BY DEF TypeOK, ReceivesPosted
<1>4. ServerSide'
  BY DEF TypeOK, ServerSide, Accepted, Connected, Answering
<1>5. ClientSide'
  BY DEF TypeOK, ClientSide
<1>6. ToldLast'
  BY DEF TypeOK, ToldLast, Told, Answering
<1>7. FilledByConn'
  BY DEF TypeOK, FilledByConn
<1> QED BY <1>1, <1>2, <1>3, <1>4, <1>5, <1>6, <1>7

LEMMA ClientModifiesQpKeeps == ASSUME IInv, NEW c \in Clients, ClientModifiesQp(c) PROVE IInv'
<1> USE DEF IInv, ClientModifiesQp, queueVars, tcpVars, Go, ConnectCtx
<1>1. TypeOK'
  BY DEF TypeOK, ClientStates, ServerStates
<1>2. OwnMessages'
  BY DEF TypeOK, OwnMessages
<1>3. ReceivesPosted'
  BY DEF TypeOK, ReceivesPosted
<1>4. ServerSide'
  BY DEF TypeOK, ServerSide, Accepted, Connected, Answering
<1>5. ClientSide'
  BY DEF TypeOK, ClientSide
<1>6. ToldLast'
  BY DEF TypeOK, ToldLast, Told, Answering
<1>7. FilledByConn'
  BY DEF TypeOK, FilledByConn
<1> QED BY <1>1, <1>2, <1>3, <1>4, <1>5, <1>6, <1>7

LEMMA FirstRequestKeeps == ASSUME IInv, NEW c \in Clients, FirstRequest(c) PROVE IInv'
<1> USE DEF IInv, FirstRequest, queueVars, tcpVars, Go
<1>1. TypeOK'
  BY DEF TypeOK, ClientStates, ServerStates
<1>2. OwnMessages'
  BY DEF TypeOK, OwnMessages
<1>3. ReceivesPosted'
  BY DEF TypeOK, ReceivesPosted
<1>4. ServerSide'
  BY DEF TypeOK, ServerSide, Accepted, Connected, Answering
<1>5. ClientSide'
  BY DEF TypeOK, ClientSide
<1>6. ToldLast'
  BY DEF TypeOK, ToldLast, Told, Answering
<1>7. FilledByConn'
  BY DEF TypeOK, FilledByConn
<1> QED BY <1>1, <1>2, <1>3, <1>4, <1>5, <1>6, <1>7

LEMMA ServerListensKeeps == ASSUME IInv, ServerListens PROVE IInv'
<1> USE DEF IInv, ServerListens, queueVars, tcpVars, Go
<1>1. TypeOK'
  BY DEF TypeOK, ClientStates, ServerStates
<1>2. OwnMessages'
  BY DEF TypeOK, OwnMessages
<1>3. ReceivesPosted'
  BY DEF TypeOK, ReceivesPosted
<1>4. ServerSide'
  BY DEF TypeOK, ServerSide, Accepted, Connected, Answering
<1>5. ClientSide'
  BY DEF TypeOK, ClientSide
<1>6. ToldLast'
  BY DEF TypeOK, ToldLast, Told, Answering
<1>7. FilledByConn'
  BY DEF TypeOK, FilledByConn
<1> QED BY <1>1, <1>2, <1>3, <1>4, <1>5, <1>6, <1>7

LEMMA ServerAcceptsKeeps == ASSUME IInv, ServerAccepts PROVE IInv'
<1> USE DEF IInv, ServerAccepts, queueVars, tcpVars, Go
<1>1. TypeOK'
  <2>1. Head(backlog) \in Clients /\ Tail(backlog) \in Seq(Clients)
    BY TailType DEF TypeOK
  <2> QED BY <2>1 DEF TypeOK, ClientStates, ServerStates
<1>2. OwnMessages'
  BY DEF TypeOK, OwnMessages
<1>3. ReceivesPosted'
  BY DEF TypeOK, ReceivesPosted
<1>4. ServerSide'
  BY DEF TypeOK, ServerSide, Accepted, Connected, Answering
<1>5. ClientSide'
  BY DEF TypeOK, ClientSide
<1>6. ToldLast'
  BY DEF TypeOK, ToldLast, Told, Answering
<1>7. FilledByConn'
  BY DEF TypeOK, FilledByConn, ServerSide, Accepted, Connected, Answering
<1> QED BY <1>1, <1>2, <1>3, <1>4, <1>5, <1>6, <1>7

LEMMA ServerClosesListenerKeeps == ASSUME IInv, ServerClosesListener PROVE IInv'
<1> USE DEF IInv, ServerClosesListener, queueVars, tcpVars, Go
<1>1. TypeOK'
  <2>1. sock' \in [Clients -> {"none", "open", "reset", "closed"}]
    BY DEF TypeOK, ResetWaiting
  <2>2. backlog' \in Seq(Clients)
    OBVIOUS
  <2> QED BY <2>1, <2>2 DEF TypeOK, ClientStates, ServerStates
<1>2. OwnMessages'
  BY DEF TypeOK, OwnMessages
<1>3. ReceivesPosted'
  BY DEF TypeOK, ReceivesPosted
<1>4. ServerSide'
  BY DEF TypeOK, ServerSide, Accepted, Connected, Answering
<1>5. ClientSide'
  BY DEF TypeOK, ClientSide
<1>6. ToldLast'
  BY DEF TypeOK, ToldLast, Told, Answering
<1>7. FilledByConn'
  BY DEF TypeOK, FilledByConn
<1> QED BY <1>1, <1>2, <1>3, <1>4, <1>5, <1>6, <1>7

LEMMA ServerReadsAddressKeeps == ASSUME IInv, ServerReadsAddress PROVE IInv'
<1> USE DEF IInv, ServerReadsAddress, queueVars, tcpVars, Go
<1>1. TypeOK'
  <2>1. conn \in Clients
    BY DEF TypeOK, ServerSide, Accepted
  <2>2. /\ Head(toServer[conn]) \in [type : {"address", "done"}, of : Procs]
        /\ Tail(toServer[conn]) \in Stream
    BY <2>1, TailType DEF TypeOK, Stream, Holds
  <2> QED BY <2>1, <2>2 DEF TypeOK, ClientStates, ServerStates
<1>2. OwnMessages'
  <2>1. conn \in Clients
    BY DEF TypeOK, ServerSide, Accepted
  <2>2. Tail(toServer[conn]) \in Seq(AddressOf({conn}))
    BY <2>1, TailType DEF OwnMessages, Holds
  <2> QED BY <2>1, <2>2 DEF TypeOK, OwnMessages
<1>3. ReceivesPosted'
  BY DEF TypeOK, ReceivesPosted
<1>4. ServerSide'
  <2>1. conn \in Clients
    BY DEF TypeOK, ServerSide, Accepted
  <2>2. Head(toServer[conn]) \in AddressOf({conn})
    BY <2>1, TailType DEF OwnMessages, Holds
  <2>3. Head(toServer[conn]).of = conn
    BY <2>2 DEF AddressOf
  <2> QED BY <2>1, <2>3 DEF TypeOK, ServerSide, Accepted, Connected, Answering
<1>5. ClientSide'
  BY DEF TypeOK, ClientSide
<1>6. ToldLast'
  BY DEF TypeOK, ToldLast, Told, Answering
<1>7. FilledByConn'
  BY DEF TypeOK, FilledByConn
<1> QED BY <1>1, <1>2, <1>3, <1>4, <1>5, <1>6, <1>7

LEMMA ServerModifiesQpKeeps == ASSUME IInv, ServerModifiesQp PROVE IInv'
<1> USE DEF IInv, ServerModifiesQp, queueVars, tcpVars, Go, ConnectCtx
<1>1. TypeOK'
  BY DEF TypeOK, ClientStates, ServerStates
<1>2. OwnMessages'
  BY DEF TypeOK, OwnMessages
<1>3. ReceivesPosted'
  BY DEF TypeOK, ReceivesPosted
<1>4. ServerSide'
  BY DEF TypeOK, ServerSide, Accepted, Connected, Answering
<1>5. ClientSide'
  BY DEF TypeOK, ClientSide
<1>6. ToldLast'
  BY DEF TypeOK, ToldLast, Told, Answering
<1>7. FilledByConn'
  BY DEF TypeOK, FilledByConn
<1> QED BY <1>1, <1>2, <1>3, <1>4, <1>5, <1>6, <1>7

LEMMA ServerTellsAddressKeeps == ASSUME IInv, ServerTellsAddress PROVE IInv'
<1> USE DEF IInv, ServerTellsAddress, queueVars, tcpVars, Go
<1>1. TypeOK'
  <2>1. conn \in Clients
    BY DEF TypeOK, ServerSide, Accepted, Connected
  <2>2. Append(toClient[conn], Addr(Server)) \in Stream
    BY <2>1, AppendType DEF TypeOK, Stream, Addr
  <2> QED BY <2>1, <2>2 DEF TypeOK, ClientStates, ServerStates
<1>2. OwnMessages'
  <2>1. conn \in Clients
    BY DEF TypeOK, ServerSide, Accepted, Connected
  <2>2. Append(toClient[conn], Addr(Server)) \in Seq(AddressOf({Server}))
    BY <2>1, AppendType DEF OwnMessages, AddressOf, Addr
  <2> QED BY <2>1, <2>2 DEF TypeOK, OwnMessages
<1>3. ReceivesPosted'
  BY DEF TypeOK, ReceivesPosted
<1>4. ServerSide'
  BY DEF TypeOK, ServerSide, Accepted, Connected, Answering
<1>5. ClientSide'
  BY DEF TypeOK, ClientSide
<1>6. ToldLast'
  BY DEF TypeOK, ToldLast, Told, Answering
<1>7. FilledByConn'
  BY DEF TypeOK, FilledByConn
<1> QED BY <1>1, <1>2, <1>3, <1>4, <1>5, <1>6, <1>7

LEMMA ServerReadsDoneKeeps == ASSUME IInv, ServerReadsDone PROVE IInv'
<1> USE DEF IInv, ServerReadsDone, queueVars, tcpVars, Go
<1>1. TypeOK'
  BY DEF TypeOK, ClientStates, ServerStates
<1>2. OwnMessages'
  BY DEF TypeOK, OwnMessages
<1>3. ReceivesPosted'
  BY DEF TypeOK, ReceivesPosted
<1>4. ServerSide'
  BY DEF TypeOK, ServerSide, Accepted, Connected, Answering
<1>5. ClientSide'
  BY DEF TypeOK, ClientSide
<1>6. ToldLast'
  BY DEF TypeOK, ToldLast, Told, Answering
<1>7. FilledByConn'
  BY DEF TypeOK, FilledByConn
<1> QED BY <1>1, <1>2, <1>3, <1>4, <1>5, <1>6, <1>7

LEMMA ServerCutOffKeeps == ASSUME IInv, ServerCutOff PROVE IInv'
<1> USE DEF IInv, ServerCutOff, queueVars, tcpVars, ServerExits
<1>1. TypeOK'
  BY DEF TypeOK, ClientStates, ServerStates
<1>2. OwnMessages'
  BY DEF TypeOK, OwnMessages
<1>3. ReceivesPosted'
  BY DEF TypeOK, ReceivesPosted
<1>4. ServerSide'
  BY DEF TypeOK, ServerSide, Accepted, Connected, Answering
<1>5. ClientSide'
  BY DEF TypeOK, ClientSide
<1>6. ToldLast'
  BY DEF TypeOK, ToldLast, Told, Answering
<1>7. FilledByConn'
  BY DEF TypeOK, FilledByConn
<1> QED BY <1>1, <1>2, <1>3, <1>4, <1>5, <1>6, <1>7

LEMMA ServerHearsKeeps == ASSUME IInv, ServerHears PROVE IInv'
<1> USE DEF IInv, ServerHears, queueVars, tcpVars, Go
<1>1. TypeOK'
  BY DEF TypeOK, ClientStates, ServerStates
<1>2. OwnMessages'
  BY DEF TypeOK, OwnMessages
<1>3. ReceivesPosted'
  BY DEF TypeOK, ReceivesPosted
<1>4. ServerSide'
  BY DEF TypeOK, ServerSide, Accepted, Connected, Answering
<1>5. ClientSide'
  BY DEF TypeOK, ClientSide
<1>6. ToldLast'
  BY DEF TypeOK, ToldLast, Told, Answering
<1>7. FilledByConn'
  BY DEF TypeOK, FilledByConn
<1> QED BY <1>1, <1>2, <1>3, <1>4, <1>5, <1>6, <1>7

LEMMA DeliveredKeeps == ASSUME IInv, NEW c \in Clients, Delivered(c) PROVE IInv'
<1> USE DEF IInv, Delivered, queueVars, tcpVars, Paired
<1>1. TypeOK'
  BY DEF TypeOK, ClientStates, ServerStates
<1>2. OwnMessages'
  BY DEF TypeOK, OwnMessages
<1>3. ReceivesPosted'
  BY DEF TypeOK, ReceivesPosted, ClientSide
<1>4. ServerSide'
  BY DEF TypeOK, ServerSide, Accepted, Connected, Answering
<1>5. ClientSide'
  BY DEF TypeOK, ClientSide
<1>6. ToldLast'
  BY DEF TypeOK, ToldLast, Told, Answering
<1>7. FilledByConn'
  BY DEF TypeOK, FilledByConn, ServerSide, Accepted, Connected, Answering
<1> QED BY <1>1, <1>2, <1>3, <1>4, <1>5, <1>6, <1>7

LEMMA RetriesExhaustedKeeps == ASSUME IInv, NEW c \in Clients, RetriesExhausted(c) PROVE IInv'
<1> USE DEF IInv, RetriesExhausted, queueVars, tcpVars, ClientExits
<1>1. TypeOK'
  BY DEF TypeOK, ClientStates, ServerStates
<1>2. OwnMessages'
  BY DEF TypeOK, OwnMessages
<1>3. ReceivesPosted'
  BY DEF TypeOK, ReceivesPosted
<1>4. ServerSide'
  BY DEF TypeOK, ServerSide, Accepted, Connected, Answering
<1>5. ClientSide'
  BY DEF TypeOK, ClientSide
<1>6. ToldLast'
  BY DEF TypeOK, ToldLast, Told, Answering
<1>7. FilledByConn'
  BY DEF TypeOK, FilledByConn
<1> QED BY <1>1, <1>2, <1>3, <1>4, <1>5, <1>6, <1>7

LEMMA ClientFailsKeeps == ASSUME IInv, NEW c \in Clients, ClientFails(c) PROVE IInv'
<1> USE DEF IInv, ClientFails, queueVars, tcpVars, ClientExits
<1>1. TypeOK'
  BY DEF TypeOK, ClientStates, ServerStates
<1>2. OwnMessages'
  BY DEF TypeOK, OwnMessages
<1>3. ReceivesPosted'
  BY DEF TypeOK, ReceivesPosted
<1>4. ServerSide'
  BY DEF TypeOK, ServerSide, Accepted, Connected, Answering
<1>5. ClientSide'
  BY DEF TypeOK, ClientSide
<1>6. ToldLast'
  BY DEF TypeOK, ToldLast, Told, Answering
<1>7. FilledByConn'
  BY DEF TypeOK, FilledByConn
<1> QED BY <1>1, <1>2, <1>3, <1>4, <1>5, <1>6, <1>7

LEMMA ServerFailsKeeps == ASSUME IInv, ServerFails PROVE IInv'
<1> USE DEF IInv, ServerFails, queueVars, tcpVars, ServerExits
<1>1. TypeOK'
  BY DEF TypeOK, ClientStates, ServerStates
<1>2. OwnMessages'
  BY DEF TypeOK, OwnMessages
<1>3. ReceivesPosted'
  BY DEF TypeOK, ReceivesPosted
<1>4. ServerSide'
  BY DEF TypeOK, ServerSide, Accepted, Connected, Answering
<1>5. ClientSide'
  BY DEF TypeOK, ClientSide
<1>6. ToldLast'
  BY DEF TypeOK, ToldLast, Told, Answering
<1>7. FilledByConn'
  BY DEF TypeOK, FilledByConn
<1> QED BY <1>1, <1>2, <1>3, <1>4, <1>5, <1>6, <1>7

LEMMA StutterKeeps == ASSUME IInv, UNCHANGED vars PROVE IInv'
BY DEF IInv, vars, queueVars, tcpVars, TypeOK, OwnMessages, ReceivesPosted,
       ServerSide, ClientSide, ToldLast, Told, FilledByConn

LEMMA NextKeeps == ASSUME IInv, [Next]_vars PROVE IInv'
<1>1. ASSUME NEW c \in Clients, ClientStep(c) PROVE IInv'
  BY <1>1, InitCtxKeeps, PostReceivesKeeps,
     ClientConnectsKeeps,
     ClientRefusedKeeps,
     ClientSendsAddressKeeps,
     ClientCutOffKeeps,
     ClientReadsAddressKeeps,
     ClientSaysDoneKeeps,
     ClientModifiesQpKeeps,
     FirstRequestKeeps
     DEF ClientStep
<1>2. ASSUME NEW c \in Clients, AdapterStep(c) \/ ClientFails(c) PROVE IInv'
  BY <1>2, DeliveredKeeps, RetriesExhaustedKeeps, ClientFailsKeeps
     DEF AdapterStep
<1>3. CASE ServerStep
  BY <1>3, InitCtxKeeps, PostReceivesKeeps,
     ServerListensKeeps,
     ServerAcceptsKeeps,
     ServerClosesListenerKeeps,
     ServerReadsAddressKeeps,
     ServerModifiesQpKeeps,
     ServerTellsAddressKeeps,
     ServerReadsDoneKeeps,
     ServerCutOffKeeps,
     ServerHearsKeeps
     DEF ServerStep
<1>4. CASE ServerFails
  BY <1>4, ServerFailsKeeps
<1>5. CASE UNCHANGED vars
  BY <1>5, StutterKeeps
<1> QED BY <1>1, <1>2, <1>3, <1>4, <1>5 DEF Next

\* The inductive invariant, for any number of clients and any failures.
THEOREM HandshakeInvariant == Spec => []IInv
<1>1. Init => IInv
  BY InitInv
<1>2. IInv /\ [Next]_vars => IInv'
  BY NextKeeps
<1> QED BY <1>1, <1>2, PTL DEF Spec

\* The variables of the exchange keep their types.
THEOREM HandshakeTypeOK == Spec => []TypeOK
<1>1. IInv => TypeOK
  BY DEF IInv
<1> QED BY <1>1, HandshakeInvariant, PTL

\* Whenever a client may send, the server's queue pair is connected to it and
\* has a receive posted, unless the server is gone.
THEOREM HandshakePeerReady == Spec => []PeerReady
<1>1. IInv => PeerReady
  <2> SUFFICES ASSUME IInv, NEW c \in Clients,
                      pc[c] \in {"ready", "sent"}, ServerUp
               PROVE  /\ qp[Server] = "RTS" /\ dest[Server] = c
                      /\ posted[Server] = "posted"
                      /\ qp[c] = "RTS" /\ dest[c] = Server
                      /\ posted[c] = "posted"
    BY DEF PeerReady
  <2>1. dest[c] = Server /\ qp[c] = "RTS" /\ posted[c] = "posted"
    BY DEF IInv, ClientSide, ReceivesPosted
  <2>2. pc[Server] \in Answering /\ conn = c
    BY <2>1 DEF IInv, ToldLast, Told, ServerUp
  <2>3. qp[Server] = "RTS" /\ dest[Server] = c
    BY <2>2 DEF IInv, ServerSide, Connected
  <2>4. posted[Server] = "posted"
    BY <2>2 DEF IInv, TypeOK, ReceivesPosted, FilledByConn, Answering
  <2> QED BY <2>1, <2>3, <2>4
<1> QED BY <1>1, HandshakeInvariant, PTL

\* No two clients ever learn the server's address, whoever fails.
THEOREM HandshakeOneClient == Spec => []OneClient
<1>1. IInv => OneClient
  BY DEF IInv, ToldLast, Told, OneClient
<1> QED BY <1>1, HandshakeInvariant, PTL

=============================================================================
